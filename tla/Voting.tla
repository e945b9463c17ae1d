------------------------------- MODULE Voting -------------------------------
(***************************************************************************)
(* Casting ballots while the election closes, and what each teller then    *)
(* finds when it counts.  The voter's page splits the ballot in one share  *)
(* per teller, posts them in parallel (a share whose teller does not answer *)
(* or refuses goes to the next teller), posts the commitments with the     *)
(* tellers' signatures to the ESP, and gives the ESP's receipt to one of   *)
(* the tellers that signed.  Every server handler is a SELECT of the       *)
(* election's state followed, in a later statement, by its write.          *)
(*                                                                         *)
(* A teller's row (a share it signed) is identified by the post that made  *)
(* it: vote_sign covers the time, so no two posts give the same row.       *)
(***************************************************************************)
EXTENDS Naturals, FiniteSets, FiniteSetsExt

CONSTANTS Voters,
          N,            \* tellers are 1..N; share i goes to teller i first
          MaxAttempts,  \* bound: times a voter presses the button
          TryLimit,     \* posts to one teller before the next one (3)
          MaxFaults     \* bound: broken connections

ASSUME BoundsAssumption ==
    /\ N \in Nat \ {0} /\ TryLimit \in Nat \ {0}
    /\ MaxAttempts \in Nat /\ MaxFaults \in Nat

Tellers == 1 .. N
Shares  == 1 .. N
Esp     == 0
Ballots == Voters \X (1 .. MaxAttempts)   \* one per press of the button

VARIABLES
    open,      \* the servers in state 2; the others are in state 3
    client,    \* the page's work on each ballot: [pc, first, at]
    chain,     \* chain[b][i]: the posts of share i of ballot b
    req,       \* requests the servers have not finished
    rows,      \* rows of the tellers' votes tables
    receipts,  \* rows with a receipt_sign
    votes,     \* the ESP's votes table, by ballot
    file,      \* the ballots in the dumped file; {} until dumped
    dumped,    \* whether the file was dumped
    tally,     \* each teller's count: not run, done, or refused
    faults

pageVars  == <<client, chain>>
tableVars == <<rows, receipts, votes>>
countVars == <<file, dumped, tally>>
vars == <<open, pageVars, req, tableVars, countVars, faults>>

NoChain == [at |-> Esp, try |-> 0, st |-> "none"]
NoWork  == [pc |-> "idle", first |-> Esp, at |-> Esp]

Init ==
    /\ open = Tellers \cup {Esp}
    /\ client = [b \in Ballots |-> NoWork]
    /\ chain = [b \in Ballots |-> [i \in Shares |-> NoChain]]
    /\ req = {} /\ rows = {} /\ receipts = {} /\ votes = {}
    /\ file = {} /\ dumped = FALSE
    /\ tally = [t \in Tellers |-> "none"]
    /\ faults = 0

\* A request: of which kind, for which share of which ballot, to which server.
Post(kind, b, i, t, n) ==
    [kind |-> kind, b |-> b, i |-> i, at |-> t, try |-> n, checked |-> FALSE]

RowOf(b, i, t, n) == [b |-> b, i |-> i, at |-> t, try |-> n]

\* The entries of the ballot's zs: the signature of each share's teller.
Zs(b) == {RowOf(b, i, chain[b][i].at, chain[b][i].try) : i \in Shares}

\* The tellers that signed, and the one signature kept for each: of the last
\* share that it received.
Avail(b) == {z.at : z \in Zs(b)}
KeptRow(b, t) ==
    LET last == Max({i \in Shares : chain[b][i].at = t})
    IN  RowOf(b, last, t, chain[b][last].try)

Goto(b, pc) == client' = [client EXCEPT ![b].pc = pc]

-----------------------------------------------------------------------------
(* The voter's page: shares.                                               *)

\* Vote is pressed: nothing but success hides the button, so an earlier ballot
\* may have failed or still be on its way.  The shares are new.
Press(b) ==
    /\ client[b].pc = "idle"
    /\ b[2] > 1 => client[<<b[1], b[2] - 1>>].pc # "idle"
    /\ \A k \in 1 .. MaxAttempts : client[<<b[1], k>>].pc # "done"
    /\ Goto(b, "shares")
    /\ chain' = [chain EXCEPT ![b] = [i \in Shares |->
                   [at |-> i, try |-> 1, st |-> "sent"]]]
    /\ req' = req \cup {Post("share", b, i, i, 1) : i \in Shares}
    /\ UNCHANGED <<open, tableVars, countVars, faults>>

\* Mutant: the tellers are asked in turn for ever.
NextTellerForever(b, i, left) ==
    LET t == (chain[b][i].at % N) + 1
    IN  /\ chain' = [chain EXCEPT ![b][i].at = t, ![b][i].try = 1]
        /\ req' = left \cup {Post("share", b, i, t, 1)}
        /\ UNCHANGED client

\* Mutant: the index wraps one too late.
NextTellerBeyond(b, i, left) ==
    LET t == (chain[b][i].at % (N + 1)) + 1
    IN  /\ chain' = [chain EXCEPT ![b][i].at = t, ![b][i].try = 1]
        /\ req' = left \cup {Post("share", b, i, t, 1)}
        /\ UNCHANGED client

\* tryNextTeller: when all were tried the promise rejects, and so does the
\* vote if it is still waiting for its shares.  `left` are the requests left.
NextTeller(b, i, left) ==
    LET t == (chain[b][i].at % N) + 1
    IN  \/ /\ t # i
           /\ chain' = [chain EXCEPT ![b][i].at = t, ![b][i].try = 1]
           /\ req' = left \cup {Post("share", b, i, t, 1)}
           /\ UNCHANGED client
        \/ /\ t = i
           /\ chain' = [chain EXCEPT ![b][i].st = "dead"]
           /\ req' = left
           /\ IF client[b].pc = "shares"
              THEN Goto(b, "failed") ELSE UNCHANGED client

\* The connection broke: the same teller again, TryLimit times at most.
TryAgain(b, i, left) ==
    LET n == chain[b][i].try + 1
    IN  IF n <= TryLimit
        THEN /\ chain' = [chain EXCEPT ![b][i].try = n]
             /\ req' = left \cup {Post("share", b, i, chain[b][i].at, n)}
             /\ UNCHANGED client
        ELSE NextTeller(b, i, left)

\* Mutant: the page does not count the tellers that signed.
SendVoteAnyway(b) ==
    /\ client[b].pc = "shares"
    /\ \A i \in Shares : chain[b][i].st = "ok"
    /\ Goto(b, "vote")
    /\ req' = req \cup {Post("vote", b, 0, Esp, 1)}
    /\ UNCHANGED <<open, chain, tableVars, countVars, faults>>

\* All shares are signed.  If one teller signed them all the page gives up.
SendVote(b) ==
    /\ client[b].pc = "shares"
    /\ \A i \in Shares : chain[b][i].st = "ok"
    /\ \/ /\ Cardinality(Avail(b)) = 1
          /\ Goto(b, "failed")
          /\ UNCHANGED req
       \/ /\ Cardinality(Avail(b)) > 1
          /\ Goto(b, "vote")
          /\ req' = req \cup {Post("vote", b, 0, Esp, 1)}
    /\ UNCHANGED <<open, chain, tableVars, countVars, faults>>

-----------------------------------------------------------------------------
(* The voter's page: the receipt.                                          *)

\* The vote was accepted: give the receipt to any teller that signed.
SendReceipt(b, left) ==
    \E t \in Avail(b) :
        /\ client' = [client EXCEPT ![b] =
                       [pc |-> "receipt", first |-> t, at |-> t]]
        /\ req' = left \cup {Post("receipt", b, 0, t, 1)}

\* ... or else to the next that signed, until all were tried.
NextReceiver(b, left) ==
    LET later == {t \in Avail(b) : t > client[b].at}
        t == Min(IF later # {} THEN later ELSE Avail(b))
    IN  IF t = client[b].first
        THEN Goto(b, "done") /\ req' = left
        ELSE /\ client' = [client EXCEPT ![b].at = t]
             /\ req' = left \cup {Post("receipt", b, 0, t, 1)}

-----------------------------------------------------------------------------
(* The servers.                                                            *)

\* The page still waits for the answer to q.
Awaited(q) ==
    CASE q.kind = "share" ->
           /\ chain[q.b][q.i] = [at |-> q.at, try |-> q.try, st |-> "sent"]
      [] q.kind = "vote" -> client[q.b].pc = "vote"
      [] q.kind = "receipt" ->
           client[q.b].pc = "receipt" /\ client[q.b].at = q.at

\* What the page does when q is refused.
Refused(q) ==
    LET left == req \ {q}
    IN  \/ /\ ~Awaited(q)
           /\ req' = left /\ UNCHANGED pageVars
        \/ /\ Awaited(q) /\ q.kind = "share"
           /\ NextTeller(q.b, q.i, left)
        \/ /\ Awaited(q) /\ q.kind = "vote"
           /\ Goto(q.b, "failed") /\ req' = left /\ UNCHANGED chain
        \/ /\ Awaited(q) /\ q.kind = "receipt"
           /\ NextReceiver(q.b, left) /\ UNCHANGED chain

\* saveReceipt's SELECT: the share's row, without a receipt yet.
CanReceive(q) ==
    /\ KeptRow(q.b, q.at) \in rows
    /\ KeptRow(q.b, q.at) \notin receipts

\* Mutant: the state of the election is not looked at.
CheckUnguarded(q) ==
    /\ ~q.checked
    /\ req' = (req \ {q}) \cup {[q EXCEPT !.checked = TRUE]}
    /\ UNCHANGED <<open, pageVars, tableVars, countVars, faults>>

\* verifyAndSignVote: the teller that each entry names has signed its share.
\* (The page's own proofs and commitments always verify.)
Signed(b) == \A i \in Shares : chain[b][i].st = "ok"

\* The handler's SELECTs and checks: the election must be open.
Check(q) ==
    /\ ~q.checked
    /\ \/ /\ q.at \in open
          /\ q.kind = "receipt" => CanReceive(q)
          /\ q.kind = "vote" => Signed(q.b)
          /\ req' = (req \ {q}) \cup {[q EXCEPT !.checked = TRUE]}
          /\ UNCHANGED pageVars
       \/ /\ q.at \in open => \/ q.kind = "receipt" /\ ~CanReceive(q)
                              \/ q.kind = "vote" /\ ~Signed(q.b)
          /\ Refused(q)
    /\ UNCHANGED <<open, tableVars, countVars, faults>>

\* Mutant: the answer is sent without COMMIT.
StoreShareUnsaved(q) ==
    /\ q.kind = "share" /\ q.checked
    /\ chain' = IF Awaited(q) THEN [chain EXCEPT ![q.b][q.i].st = "ok"]
                              ELSE chain
    /\ req' = req \ {q}
    /\ UNCHANGED <<open, client, tableVars, countVars, faults>>

\* The teller's INSERT, and its signature.
StoreShare(q) ==
    /\ q.kind = "share" /\ q.checked
    /\ rows' = rows \cup {RowOf(q.b, q.i, q.at, q.try)}
    /\ chain' = IF Awaited(q) THEN [chain EXCEPT ![q.b][q.i].st = "ok"]
                              ELSE chain
    /\ req' = req \ {q}
    /\ UNCHANGED <<open, client, receipts, votes, countVars, faults>>

\* The voter has voted: rid is in the ESP's table.
HasVoted(v) == \E b \in votes : b[1] = v

\* Mutant: a conflicting INSERT is answered with a receipt too.
StoreVoteAnyway(q) ==
    /\ q.kind = "vote" /\ q.checked
    /\ votes' = IF HasVoted(q.b[1]) THEN votes ELSE votes \cup {q.b}
    /\ IF Awaited(q)
       THEN SendReceipt(q.b, req \ {q})
       ELSE req' = req \ {q} /\ UNCHANGED client
    /\ UNCHANGED <<open, chain, rows, receipts, countVars, faults>>

\* Mutant: rid is not a key of the table.
StoreVoteTwice(q) ==
    /\ q.kind = "vote" /\ q.checked
    /\ votes' = votes \cup {q.b}
    /\ IF Awaited(q)
       THEN SendReceipt(q.b, req \ {q})
       ELSE req' = req \ {q} /\ UNCHANGED client
    /\ UNCHANGED <<open, chain, rows, receipts, countVars, faults>>

\* The ESP's INSERT ... ON CONFLICT DO NOTHING, and its receipt.
StoreVote(q) ==
    /\ q.kind = "vote" /\ q.checked
    /\ \/ /\ HasVoted(q.b[1])
          /\ Refused(q)
          /\ UNCHANGED votes
       \/ /\ ~HasVoted(q.b[1])
          /\ votes' = votes \cup {q.b}
          /\ IF Awaited(q)
             THEN SendReceipt(q.b, req \ {q})
             ELSE req' = req \ {q} /\ UNCHANGED client
          /\ UNCHANGED chain
    /\ UNCHANGED <<open, rows, receipts, countVars, faults>>

\* The teller's UPDATE of receipt_sign.
StoreReceipt(q) ==
    /\ q.kind = "receipt" /\ q.checked
    /\ receipts' = receipts \cup {KeptRow(q.b, q.at)}
    /\ IF Awaited(q) THEN Goto(q.b, "done") ELSE UNCHANGED client
    /\ req' = req \ {q}
    /\ UNCHANGED <<open, chain, rows, votes, countVars, faults>>

\* The connection breaks under a request that the page waits for: the server
\* may not have got it, or may finish it unheard.
Break(q) ==
    /\ faults < MaxFaults
    /\ Awaited(q)
    /\ \E left \in {req, req \ {q}} :
         \/ /\ q.kind = "share"
            /\ TryAgain(q.b, q.i, left)
         \/ /\ q.kind = "vote"
            /\ Goto(q.b, "failed") /\ req' = left /\ UNCHANGED chain
         \/ /\ q.kind = "receipt"
            /\ NextReceiver(q.b, left) /\ UNCHANGED chain
    /\ faults' = faults + 1
    /\ UNCHANGED <<open, tableVars, countVars>>

-----------------------------------------------------------------------------
(* Closing, dumping and counting.                                          *)

\* closeElection at one server.
Close(s) ==
    /\ s \in open
    /\ open' = open \ {s}
    /\ UNCHANGED <<pageVars, req, tableVars, countVars, faults>>

\* dumpVotes, when the ESP is closed.
Dump ==
    /\ Esp \notin open /\ ~dumped
    /\ file' = votes
    /\ dumped' = TRUE
    /\ UNCHANGED <<open, pageVars, req, tableVars, tally, faults>>

Listed(t) == {z \in UNION {Zs(b) : b \in file} : z.at = t}

\* electionTallying: every listed row is there, and no row with a receipt is
\* unlisted.  A count that fails can be run again.
Count(t) ==
    /\ dumped /\ t \notin open
    /\ tally[t] # "done"
    /\ LET missing  == ~(Listed(t) \subseteq rows)
           excluded == \E r \in receipts : r.at = t /\ r \notin Listed(t)
       IN  tally' = [tally EXCEPT ![t] = IF missing THEN "invalid"
                                         ELSE IF excluded THEN "excluded"
                                         ELSE "done"]
    /\ UNCHANGED <<open, pageVars, req, tableVars, file, dumped, faults>>

-----------------------------------------------------------------------------
Server(q) == Check(q) \/ StoreShare(q) \/ StoreVote(q) \/ StoreReceipt(q)

Step ==
    \/ \E b \in Ballots : Press(b) \/ SendVote(b)
    \/ \E q \in req : Server(q) \/ Break(q)
    \/ \E s \in Tellers \cup {Esp} : Close(s)
    \/ \E t \in Tellers : Count(t)

Next == Step \/ Dump
Spec == Init /\ [][Next]_vars

\* The file is dumped when the ESP has finished the votes it had admitted.
Drained == \A q \in req : q.kind = "vote" => ~q.checked
DrainedNext == Step \/ (Drained /\ Dump)
DrainedSpec == Init /\ [][DrainedNext]_vars

\* Handlers and pages run to their end.
FairSpec ==
    /\ DrainedSpec
    /\ WF_vars(\E q \in req : Server(q))
    /\ \A b \in Ballots : WF_vars(SendVote(b))

-----------------------------------------------------------------------------
(* Properties.                                                             *)

ChainStates == [at : 0 .. N, try : 0 .. TryLimit,
                st : {"none", "sent", "ok", "dead"}]
Works == [first : 0 .. N, at : 0 .. N,
          pc : {"idle", "shares", "vote", "receipt", "done", "failed"}]
Requests == [kind : {"share", "vote", "receipt"}, b : Ballots, i : 0 .. N,
             at : 0 .. N, try : 1 .. TryLimit, checked : BOOLEAN]
RowSet == [b : Ballots, i : Shares, at : Tellers, try : 1 .. TryLimit]

TypeOK ==
    /\ open \subseteq Tellers \cup {Esp}
    /\ client \in [Ballots -> Works]
    /\ chain \in [Ballots -> [Shares -> ChainStates]]
    /\ req \subseteq Requests
    /\ rows \subseteq RowSet
    /\ receipts \subseteq RowSet
    /\ votes \subseteq Ballots
    /\ file \subseteq Ballots
    /\ dumped \in BOOLEAN
    /\ tally \in [Tellers -> {"none", "invalid", "excluded", "done"}]
    /\ faults \in 0 .. MaxFaults

\* Every share of an accepted ballot is stored where the ballot says, under
\* the signature that the ballot holds, whatever posts were repeated or moved:
\* no teller stops its count on a missing share (electionTallying.js:118).
AcceptedSharesStored == \A b \in votes : Zs(b) \subseteq rows

\* A receipt that a teller keeps is for a ballot that the ESP accepted, on the
\* row that this ballot names: the receipt check of the count
\* (electionTallying.js:144) looks at rows that ought to be counted.
ReceiptsAreOfAccepted == \A r \in receipts : r.b \in votes /\ r \in Zs(r.b)

\* The page always comes to an end, also when all tellers refuse its shares.
AttemptEnds ==
    \A b \in Ballots : client[b].pc \in {"shares", "vote", "receipt"}
                         ~> client[b].pc \in {"done", "failed"}

\* A count that fails on its receipts "implies the ESP excludes accepted
\* ballot" (electionTallying.js:142): it never fails at an ESP that runs this
\* code.  That takes a dump that waits for the votes already admitted.
HonestEspNotAccused == \A t \in Tellers : tally[t] # "excluded"

\* Every ballot accepted before the file is dumped or after it is in it.
AcceptedAreDumped == dumped => file = votes

\* "All shares are submitted to one Teller, privacy cannot guaranteed": such a
\* ballot is not sent (vote.js:360), so no teller holds all shares of an
\* accepted one, however refused shares moved.  The page counts the answers
\* it got: a share stored by a teller whose answer was lost is not seen.
NoTellerHoldsAllShares ==
    faults = 0 =>
        \A b \in votes, t \in Tellers :
            \E i \in Shares : ~\E r \in rows : r.b = b /\ r.at = t /\ r.i = i

\* An accepted ballot: who casts it, and the teller of each share.
Boxed(b) == [id |-> b, route |-> [i \in Shares |-> chain[b][i].at]]

\* What casting promises as a whole, after a dump that waits for the votes
\* already admitted: one ballot of each voter, spread and unchanged once it is
\* accepted (esp/saveVote.js:293, vote.js:360); success and receipts for accepted
\* ballots only; a dump of all of them; and counts that all succeed.
Abs == INSTANCE BallotBox WITH
    box <- {Boxed(b) : b \in votes},
    told <- {b \in Ballots : client[b].pc \in {"receipt", "done"}},
    receipts <- {[id |-> r.b, at |-> r.at] : r \in receipts},
    file <- {Boxed(b) : b \in file},
    counts <- tally

ImplementsBallotBox == Abs!Spec
=============================================================================
