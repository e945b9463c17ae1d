----------------------------- MODULE MCTallying -----------------------------
(* Instances of Tallying for TLC.                                          *)
EXTENDS Tallying

\* Every share at its own teller.
Straight == {[i \in Shares |-> i]}

\* Any distribution that the voter's page sends: two tellers at least.
Mixed == {r \in [Shares -> Tellers] : \E i, j \in Shares : r[i] # r[j]}

WholeFile == {Ballots}
AnyFile == SUBSET Ballots
=============================================================================
