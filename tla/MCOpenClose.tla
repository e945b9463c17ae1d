---------------------------- MODULE MCOpenClose ----------------------------
(* Instances of OpenClose for TLC.                                         *)
EXTENDS OpenClose, TLC

\* Calls and tellers are interchangeable (used without liveness only).
Symmetry == Permutations(Calls) \cup Permutations(Tellers)
=============================================================================
