--------------------------- MODULE MCVoterRegistry ---------------------------
(* Instances of VoterRegistry for TLC.                                     *)
EXTENDS VoterRegistry, TLC

CONSTANTS v1, v2, v3

\* Two requests in opposite orders can deadlock, an address may be repeated in
\* a request and between requests, and a third voter fills another page.
MCBatches == {<<v1, v2>>, <<v2, v1>>, <<v3, v3>>, <<v3>>}
=============================================================================
