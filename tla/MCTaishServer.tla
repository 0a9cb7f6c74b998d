---------------------------- MODULE MCTaishServer ----------------------------
(***************************************************************************)
(* TaishServer with two locations: the library refuses the module of the   *)
(* first, so that it is listed without an id, and has that of the second.  *)
(* The server makes a module whether a first report says present or not,   *)
(* so one of the two kinds of report is enough.                            *)
(***************************************************************************)
EXTENDS TaishServer

Locations == {1, 2}
BothAreThere == {<<TRUE, 1>>, <<TRUE, 2>>}
FirstIsRefused == {<<1, 0>>}

(* The configuration file is in order, or wrong about the interface.       *)
InterfaceIsWrong == {{}, {<<2, 1>>}}

(* The gRPC calls are about the second.                                    *)
Second == {<<2, 0>>, <<2, 1>>}

(* Linux gives the signal to the main thread if it can.                    *)
NoClient == {"main", "library"}
=============================================================================
