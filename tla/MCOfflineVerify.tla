--------------------------- MODULE MCOfflineVerify ---------------------------
(* An instance of OfflineVerify for TLC.                                   *)
EXTENDS OfflineVerify

CONSTANT X   \* a character that ends no line

ShortTexts == UNION {[1 .. n -> {X, CR, LF}] : n \in 0 .. 6}

\* One character is an honest ballot, more are a ballot that does not verify,
\* and an empty line is no JSON.
MCParsable == {[i \in 1 .. n |-> X] : n \in 1 .. 6}
MCHonest == {<<X>>}

\* The sums of the first ballots of the file, or of all.
MCClaims == {1 .. n : n \in 0 .. 3}
=============================================================================
