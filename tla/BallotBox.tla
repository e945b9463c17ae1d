------------------------------ MODULE BallotBox ------------------------------
(***************************************************************************)
(* What casting promises, without shares, requests and retries: a box that *)
(* takes one ballot of each voter until it is dumped.  A ballot is spread  *)
(* over more than one teller and stays as it was accepted; a voter is told *)
(* of a success, and a teller keeps a receipt, only for a ballot in the    *)
(* box; and whoever counts the file afterwards finds nothing missing and   *)
(* nothing left out.                                                       *)
(***************************************************************************)
CONSTANTS Ballots,   \* <<voter, number of the attempt>>
          Shares, Tellers

VARIABLES box,       \* the accepted ballots: [id, route]
          told,      \* the ballots whose voter saw a success
          receipts,  \* the receipts that tellers keep: [id, at]
          file,      \* the dumped ballots
          dumped,
          counts     \* each teller's count: "none" or "done"

bvars == <<box, told, receipts, file, dumped, counts>>

Init ==
    /\ box = {} /\ told = {} /\ receipts = {}
    /\ file = {} /\ dumped = FALSE
    /\ counts = [t \in Tellers |-> "none"]

\* No teller holds all shares.
Spread(route) == \E i, j \in Shares : route[i] # route[j]

\* The voter is told at once, or, when the answer is lost, never.
Accept(b, route) ==
    /\ ~dumped
    /\ \A x \in box : x.id[1] # b[1]
    /\ Spread(route)
    /\ box' = box \cup {[id |-> b, route |-> route]}
    /\ told' = told \/ told' = told \cup {b}
    /\ UNCHANGED <<receipts, file, dumped, counts>>

\* A teller that holds a share gets the receipt.
Keep(x, i) ==
    /\ receipts' = receipts \cup {[id |-> x.id, at |-> x.route[i]]}
    /\ UNCHANGED <<box, told, file, dumped, counts>>

Dump ==
    /\ ~dumped
    /\ dumped' = TRUE
    /\ file' = box
    /\ UNCHANGED <<box, told, receipts, counts>>

\* A count of the file always succeeds.
Count(t) ==
    /\ dumped
    /\ counts' = [counts EXCEPT ![t] = "done"]
    /\ UNCHANGED <<box, told, receipts, file, dumped>>

Next ==
    \/ \E b \in Ballots, route \in [Shares -> Tellers] : Accept(b, route)
    \/ \E x \in box, i \in Shares : Keep(x, i)
    \/ Dump
    \/ \E t \in Tellers : Count(t)

Spec == Init /\ [][Next]_bvars
=============================================================================
