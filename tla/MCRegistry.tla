----------------------------- MODULE MCRegistry -----------------------------
(***************************************************************************)
(* Two modules.  "00" is another spelling of "0", "2" is beyond the last   *)
(* module, "-1" is negative and "x" is not a number.                       *)
(***************************************************************************)
EXTENDS Registry, TLC

MCNumber == "0" :> 0 @@ "00" :> 0 @@ "1" :> 1 @@ "2" :> 2 @@ "-1" :> -1

MCIndex == {-1, 0, 1}

(* The reply decides nothing, and the properties of the run that uses this *)
(* view do not look at it.                                                 *)
MCView == <<platform, objects, fsms, left, pass, leaked>>
=============================================================================
