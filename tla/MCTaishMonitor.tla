--------------------------- MODULE MCTaishMonitor ---------------------------
(***************************************************************************)
(* TaishMonitor with interchangeable streams.                              *)
(***************************************************************************)
EXTENDS TaishMonitor, TLC

Symmetry == Permutations(Stream)
=============================================================================
