------------------------------ MODULE MCVoting ------------------------------
(* Instances of Voting for TLC.                                            *)
EXTENDS Voting
=============================================================================
