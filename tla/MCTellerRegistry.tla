-------------------------- MODULE MCTellerRegistry --------------------------
(* Instances of TellerRegistry for TLC.                                    *)
EXTENDS TellerRegistry, TLC

\* Calls and tellers are interchangeable (used without liveness only).
Symmetry == Permutations(Calls) \cup Permutations(Tellers)
=============================================================================
