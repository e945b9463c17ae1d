----------------------------- MODULE MCCommitment -----------------------------
(* The smallest order with a sign: -1 # 1.  Random numbers and hashes include *)
(* values whose sums and differences pass the order and zero.                 *)
EXTENDS Commitment

MCRand == {1, 2}
MCHashes == {0, 4}
=============================================================================
