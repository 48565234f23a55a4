----------------------------- MODULE MCSafeDeal -----------------------------
(***************************************************************************)
(* Instances of SafeDeal for TLC.                                          *)
(***************************************************************************)
EXTENDS SafeDeal, TLC

Symmetry == Permutations(Deals) \cup Permutations(Procs)
=============================================================================
