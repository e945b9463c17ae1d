---------------------------- MODULE Voting_proofs ----------------------------
(***************************************************************************)
(* Proofs about Voting, for any voters, tellers, attempts and faults.      *)
(***************************************************************************)
EXTENDS Voting, Folding_proofs

(***************************************************************************)
(* The largest and the smallest of the tellers' or the shares' numbers.    *)
(***************************************************************************)
LEMMA MinIn ==
    ASSUME NEW S \in SUBSET Nat, S # {}
    PROVE  Min(S) \in S
BY LeastExists DEF Min

LEMMA MaxIn ==
    ASSUME NEW n \in Nat, NEW S \in SUBSET (1 .. n), S # {}
    PROVE  Max(S) \in S
BY MaxPlace

LEMMA NextIndex ==
    ASSUME NEW at \in 0 .. N
    PROVE  (at % N) + 1 \in Tellers
<1>1. N \in Nat /\ N > 0
  BY BoundsAssumption
<1>2. at % N \in 0 .. N - 1
  BY <1>1
<1> QED
  BY <1>1, <1>2 DEF Tellers

(***************************************************************************)
(* A signed share is stored under the teller and the post that the page    *)
(* has for it, and once all are signed nothing moves any more: what is     *)
(* stored for an accepted ballot stays what the ballot says.               *)
(***************************************************************************)
SharesStored ==
    \A b \in Ballots, i \in Shares : chain[b][i].st = "ok" =>
        RowOf(b, i, chain[b][i].at, chain[b][i].try) \in rows

IdleFresh ==
    \A b \in Ballots : client[b].pc = "idle" =>
        \A i \in Shares : chain[b][i].st = "none"

ReqOK(q) ==
    /\ q.kind = "share" => q.i \in Shares /\ q.at \in Tellers
    /\ q.kind = "vote" => q.at = Esp /\ (q.checked => Signed(q.b))
    /\ q.kind = "receipt" =>
         /\ q.b \in votes /\ q.at \in Avail(q.b)
         /\ q.checked => KeptRow(q.b, q.at) \in rows

VotingIInv ==
    /\ SharesStored
    /\ IdleFresh
    /\ \A b \in votes : Signed(b)
    /\ \A q \in req : ReqOK(q)
    /\ ReceiptsAreOfAccepted

Inv == TypeOK /\ VotingIInv

LEMMA SharesExist == 1 \in Shares /\ Shares = Tellers /\ Tellers \subseteq 0 .. N
<1>1. N \in Nat /\ N >= 1
  BY BoundsAssumption
<1>2. 1 \in 1 .. N /\ 1 .. N \subseteq 0 .. N
  BY <1>1
<1> QED
  BY <1>2 DEF Shares, Tellers

LEMMA InitInv == Init => Inv
<1> SUFFICES ASSUME Init PROVE Inv
  OBVIOUS
<1>1. TypeOK
  <2>1. 0 \in 0 .. N /\ 0 \in 0 .. TryLimit /\ 0 \in 0 .. MaxFaults
    BY BoundsAssumption
  <2>2. NoWork \in Works /\ NoChain \in ChainStates
    BY <2>1 DEF NoWork, NoChain, Works, ChainStates, Esp
  <2>3. client \in [Ballots -> Works]
        /\ chain \in [Ballots -> [Shares -> ChainStates]]
    BY <2>2 DEF Init
  <2> QED
    BY <2>1, <2>3 DEF Init, TypeOK
<1>2. SharesStored /\ IdleFresh
  BY DEF Init, SharesStored, IdleFresh, NoChain
<1> QED
  BY <1>1, <1>2 DEF Init, Inv, VotingIInv, ReceiptsAreOfAccepted

(***************************************************************************)
(* The signatures of a ballot that is wholly signed.                       *)
(***************************************************************************)
LEMMA AvailTellers ==
    ASSUME TypeOK, NEW b \in Ballots, Signed(b), SharesStored
    PROVE  /\ Avail(b) \subseteq Tellers /\ Avail(b) # {}
           /\ \A i \in Shares : chain[b][i].at \in Avail(b)
           /\ Zs(b) \subseteq rows
<1>1. Zs(b) \subseteq rows
  BY DEF Zs, Signed, SharesStored
<1>2. \A z \in Zs(b) : z.at \in Tellers
  BY <1>1 DEF TypeOK, RowSet
<1>3. \A i \in Shares : chain[b][i].at \in Avail(b)
  <2> TAKE i \in Shares
  <2>1. RowOf(b, i, chain[b][i].at, chain[b][i].try) \in Zs(b)
    BY DEF Zs
  <2>2. RowOf(b, i, chain[b][i].at, chain[b][i].try).at = chain[b][i].at
    BY DEF RowOf
  <2> QED
    BY <2>1, <2>2 DEF Avail
<1> QED
  BY <1>1, <1>2, <1>3, SharesExist DEF Avail

LEMMA KeptIsSigned ==
    ASSUME NEW b, NEW t \in Avail(b)
    PROVE  KeptRow(b, t) \in Zs(b) /\ KeptRow(b, t).at = t /\ KeptRow(b, t).b = b
<1> DEFINE S == {i \in Shares : chain[b][i].at = t}
<1>1. PICK i \in Shares : RowOf(b, i, chain[b][i].at, chain[b][i].try).at = t
  BY DEF Avail, Zs
<1>2. i \in S
  BY <1>1 DEF RowOf
<1>3. S \in SUBSET (1 .. N)
  BY DEF Shares
<1>4. Max(S) \in S
  BY <1>2, <1>3, MaxIn, BoundsAssumption
<1> DEFINE last == Max(S)
<1>5. last \in Shares /\ chain[b][last].at = t
  BY <1>4
<1>6. KeptRow(b, t) = RowOf(b, last, t, chain[b][last].try)
  BY DEF KeptRow
<1> HIDE DEF last
<1> QED
  BY <1>5, <1>6 DEF Zs, RowOf

(***************************************************************************)
(* What stays of a signed ballot, and of requests, in a step that moves no *)
(* signed share and forgets no row and no vote.                            *)
(***************************************************************************)
Calm == /\ \A b \in Ballots : Signed(b) => chain'[b] = chain[b]
        /\ rows \subseteq rows'
        /\ votes \subseteq votes'

LEMMA CalmBallots ==
    ASSUME Calm, NEW b \in Ballots, Signed(b)
    PROVE  /\ Signed(b)' /\ Zs(b)' = Zs(b) /\ Avail(b)' = Avail(b)
           /\ \A t : KeptRow(b, t)' = KeptRow(b, t)
<1>1. chain'[b] = chain[b]
  BY DEF Calm
<1>2. Signed(b)'
  BY <1>1 DEF Signed
<1>3. Zs(b)' = Zs(b)
  BY <1>1 DEF Zs
<1>4. Avail(b)' = Avail(b)
  BY <1>3 DEF Avail
<1>5. \A t : KeptRow(b, t)' = KeptRow(b, t)
  BY <1>1 DEF KeptRow
<1> QED
  BY <1>2, <1>3, <1>4, <1>5

LEMMA CalmRequests ==
    ASSUME Inv, Calm, NEW q \in req
    PROVE  ReqOK(q)'
<1>1. ReqOK(q) /\ q.b \in Ballots /\ votes \subseteq Ballots
  BY DEF Inv, VotingIInv, TypeOK, Requests
<1>2. q.kind = "vote" => q.at = Esp /\ (q.checked => Signed(q.b)')
  BY <1>1, CalmBallots DEF ReqOK
<1>3. ASSUME q.kind = "receipt"
      PROVE  /\ q.b \in votes' /\ q.at \in Avail(q.b)'
             /\ q.checked => KeptRow(q.b, q.at)' \in rows'
  <2>1. q.b \in votes /\ Signed(q.b) /\ q.at \in Avail(q.b)
        /\ (q.checked => KeptRow(q.b, q.at) \in rows)
    BY <1>1, <1>3 DEF ReqOK, Inv, VotingIInv
  <2> QED
    BY <1>1, <2>1, CalmBallots DEF Calm
<1> QED
  BY <1>1, <1>2, <1>3 DEF ReqOK

\* A step that only moves requests and shares along.
LEMMA CalmStep ==
    ASSUME Inv, Calm, TypeOK', SharesStored', IdleFresh',
           UNCHANGED <<votes, receipts>>,
           \A q \in req' : q \in req \/ ReqOK(q)'
    PROVE  Inv'
<1>1. \A q \in req' : ReqOK(q)'
  BY CalmRequests
<1>2. \A b \in votes : Signed(b)'
  BY CalmBallots DEF Inv, VotingIInv, TypeOK
<1>3. ReceiptsAreOfAccepted'
  <2> SUFFICES ASSUME NEW r \in receipts PROVE r.b \in votes /\ r \in Zs(r.b)'
    BY DEF ReceiptsAreOfAccepted
  <2>1. r.b \in votes /\ r \in Zs(r.b) /\ r.b \in Ballots /\ Signed(r.b)
    BY DEF Inv, VotingIInv, ReceiptsAreOfAccepted, TypeOK
  <2> QED
    BY <2>1, CalmBallots
<1> QED
  BY <1>1, <1>2, <1>3 DEF Inv, VotingIInv

(***************************************************************************)
(* A share that is not signed moves on: another state for it, that is not  *)
(* "ok", other posts of shares, and the page perhaps gives the ballot up.  *)
(***************************************************************************)
ShareRequest(q) ==
    q \in Requests /\ q.kind = "share" /\ q.i \in Shares /\ q.at \in Tellers

Moves(b, i, left) ==
    /\ chain' \in [Ballots -> [Shares -> ChainStates]]
    /\ \A c \in Ballots : c # b => chain'[c] = chain[c]
    /\ \A j \in Shares : j # i => chain'[b][j] = chain[b][j]
    /\ chain'[b][i].st # "ok"
    /\ \A q \in req' : q \in left \/ ShareRequest(q)
    /\ client' \in [Ballots -> Works]
    /\ \A c \in Ballots : client'[c].pc = "idle" => client[c].pc = "idle"

LEMMA PostIsShareRequest ==
    ASSUME NEW b \in Ballots, NEW i \in Shares, NEW t \in Tellers,
           NEW n \in 1 .. TryLimit
    PROVE  ShareRequest(Post("share", b, i, t, n))
BY SharesExist DEF Post, ShareRequest, Requests

LEMMA GotoWorks ==
    ASSUME client \in [Ballots -> Works], NEW b \in Ballots,
           NEW pc \in {"shares", "vote", "receipt", "done", "failed"},
           Goto(b, pc)
    PROVE  /\ client' \in [Ballots -> Works]
           /\ \A c \in Ballots : client'[c].pc = "idle" => client[c].pc = "idle"
<1>1. [client[b] EXCEPT !.pc = pc] \in Works
  BY DEF Works
<1>2. client' = [client EXCEPT ![b] = [client[b] EXCEPT !.pc = pc]]
  BY DEF Goto
<1>3. [client[b] EXCEPT !.pc = pc].pc = pc
  BY DEF Works
<1> QED
  BY <1>1, <1>2, <1>3

LEMMA MoveTo ==
    ASSUME TypeOK, NEW b \in Ballots, NEW i \in Shares, NEW left,
           NEW x \in ChainStates, x.st # "ok",
           chain' = [chain EXCEPT ![b] = [chain[b] EXCEPT ![i] = x]],
           \A q \in req' : q \in left \/ ShareRequest(q),
           client' \in [Ballots -> Works],
           \A c \in Ballots : client'[c].pc = "idle" => client[c].pc = "idle"
    PROVE  Moves(b, i, left)
<1>1. chain \in [Ballots -> [Shares -> ChainStates]]
  BY DEF TypeOK
<1>2. [chain[b] EXCEPT ![i] = x] \in [Shares -> ChainStates]
  BY <1>1
<1>3. chain' \in [Ballots -> [Shares -> ChainStates]]
      /\ chain'[b] = [chain[b] EXCEPT ![i] = x]
      /\ \A c \in Ballots : c # b => chain'[c] = chain[c]
  BY <1>1, <1>2
<1>4. chain'[b][i] = x /\ \A j \in Shares : j # i => chain'[b][j] = chain[b][j]
  BY <1>1, <1>3
<1> QED
  BY <1>3, <1>4 DEF Moves

LEMMA NextTellerMoves ==
    ASSUME TypeOK, NEW b \in Ballots, NEW i \in Shares, NEW left,
           chain[b][i].st = "sent", NextTeller(b, i, left)
    PROVE  Moves(b, i, left)
<1> DEFINE t == (chain[b][i].at % N) + 1
<1>1. chain[b][i] \in ChainStates /\ client \in [Ballots -> Works]
  BY DEF TypeOK
<1>2. chain[b][i].at \in 0 .. N
  BY <1>1 DEF ChainStates
<1>3. t \in Tellers
  BY <1>2, NextIndex
<1>4. 1 \in 1 .. TryLimit /\ 1 \in 0 .. TryLimit /\ t \in 0 .. N
  <2>1. TryLimit \in Nat /\ TryLimit >= 1
    BY BoundsAssumption
  <2>2. 1 \in 1 .. TryLimit /\ 1 \in 0 .. TryLimit
    BY <2>1
  <2> QED
    BY <1>3, <2>2, SharesExist
<1>5. CASE /\ chain' = [chain EXCEPT ![b][i].at = t, ![b][i].try = 1]
           /\ req' = left \cup {Post("share", b, i, t, 1)}
           /\ UNCHANGED client
  <2> HIDE DEF t
  <2> DEFINE x == [chain[b][i] EXCEPT !.at = t, !.try = 1]
  <2>1. x \in ChainStates /\ x.st # "ok"
    BY <1>1, <1>4 DEF ChainStates
  <2>2. chain' = [chain EXCEPT ![b] = [chain[b] EXCEPT ![i] = x]]
    BY <1>5 DEF TypeOK
  <2>3. \A q \in req' : q \in left \/ ShareRequest(q)
    BY <1>3, <1>4, <1>5, PostIsShareRequest
  <2> HIDE DEF x
  <2> QED
    BY <1>1, <1>5, <2>1, <2>2, <2>3, MoveTo
<1>6. CASE /\ chain' = [chain EXCEPT ![b][i].st = "dead"]
           /\ req' = left
           /\ IF client[b].pc = "shares"
              THEN Goto(b, "failed") ELSE UNCHANGED client
  <2> DEFINE x == [chain[b][i] EXCEPT !.st = "dead"]
  <2>1. x \in ChainStates /\ x.st # "ok"
    BY <1>1 DEF ChainStates
  <2>2. chain' = [chain EXCEPT ![b] = [chain[b] EXCEPT ![i] = x]]
    BY <1>6 DEF TypeOK
  <2>3. client' \in [Ballots -> Works]
        /\ \A c \in Ballots : client'[c].pc = "idle" => client[c].pc = "idle"
    BY <1>1, <1>6, GotoWorks
  <2> HIDE DEF x
  <2> QED
    BY <1>6, <2>1, <2>2, <2>3, MoveTo
<1> QED
  BY <1>5, <1>6 DEF NextTeller

LEMMA TryAgainMoves ==
    ASSUME TypeOK, NEW b \in Ballots, NEW i \in Shares, NEW left,
           chain[b][i].st = "sent", chain[b][i].at \in Tellers,
           TryAgain(b, i, left)
    PROVE  Moves(b, i, left)
<1> DEFINE n == chain[b][i].try + 1
<1>1. chain[b][i] \in ChainStates /\ client \in [Ballots -> Works]
  BY DEF TypeOK
<1>2. chain[b][i].try \in Nat /\ TryLimit \in Nat
  BY <1>1, BoundsAssumption DEF ChainStates
<1>3. CASE n <= TryLimit
  <2> DEFINE x == [chain[b][i] EXCEPT !.try = n]
  <2>1. n \in 1 .. TryLimit /\ n \in 0 .. TryLimit
    BY <1>2, <1>3
  <2>2. /\ chain' = [chain EXCEPT ![b][i].try = n]
        /\ req' = left \cup {Post("share", b, i, chain[b][i].at, n)}
        /\ UNCHANGED client
    BY <1>3 DEF TryAgain
  <2> HIDE DEF n
  <2>3. x \in ChainStates /\ x.st # "ok"
    BY <1>1, <2>1 DEF ChainStates
  <2>4. chain' = [chain EXCEPT ![b] = [chain[b] EXCEPT ![i] = x]]
    BY <2>2 DEF TypeOK
  <2>5. \A q \in req' : q \in left \/ ShareRequest(q)
    BY <2>1, <2>2, PostIsShareRequest
  <2> HIDE DEF x
  <2> QED
    BY <1>1, <2>2, <2>3, <2>4, <2>5, MoveTo
<1>4. CASE ~(n <= TryLimit)
  BY <1>4, NextTellerMoves DEF TryAgain
<1> QED
  BY <1>3, <1>4

LEMMA MovesInv ==
    ASSUME Inv, NEW b \in Ballots, NEW i \in Shares, chain[b][i].st = "sent",
           NEW left \in SUBSET req, Moves(b, i, left),
           UNCHANGED <<open, tableVars, countVars>>, faults' \in 0 .. MaxFaults
    PROVE  Inv'
<1> USE DEF tableVars, countVars
<1>1. TypeOK /\ SharesStored /\ IdleFresh
  BY DEF Inv, VotingIInv
<1>2. \A c \in Ballots : Signed(c) => chain'[c] = chain[c]
  BY DEF Moves, Signed
<1>3. Calm
  BY <1>2 DEF Calm
<1>4. req' \subseteq Requests
  BY <1>1 DEF Moves, TypeOK, ShareRequest
<1>5. TypeOK'
  BY <1>1, <1>4 DEF Moves, TypeOK
<1>6. SharesStored'
  BY <1>1 DEF SharesStored, Moves
<1>7. IdleFresh'
  BY <1>1 DEF IdleFresh, Moves
<1>8. \A q \in req' : q \in req \/ ReqOK(q)'
  BY DEF Moves, ShareRequest, ReqOK
<1> QED
  BY <1>3, <1>5, <1>6, <1>7, <1>8, CalmStep

(***************************************************************************)
(* The page or a server moves requests on; no share moves.                 *)
(***************************************************************************)
PageMoves ==
    /\ client' \in [Ballots -> Works]
    /\ \A c \in Ballots : client'[c].pc = "idle" => client[c].pc = "idle"

LEMMA PageInv ==
    ASSUME Inv, PageMoves, req' \subseteq Requests,
           \A q \in req' : q \in req \/ ReqOK(q)',
           UNCHANGED <<open, chain, tableVars, countVars>>,
           faults' \in 0 .. MaxFaults
    PROVE  Inv'
<1> USE DEF tableVars, countVars
<1>1. TypeOK /\ SharesStored /\ IdleFresh
  BY DEF Inv, VotingIInv
<1>2. Calm
  BY DEF Calm
<1>3. TypeOK'
  BY <1>1 DEF TypeOK, PageMoves
<1>4. SharesStored'
  BY <1>1 DEF SharesStored
<1>5. IdleFresh'
  BY <1>1 DEF IdleFresh, PageMoves
<1> QED
  BY <1>2, <1>3, <1>4, <1>5, CalmStep

\* The page gives the receipt of an accepted ballot to a teller that signed.
ReceiptRequest(q) ==
    /\ q \in Requests /\ q.kind = "receipt" /\ ~q.checked
    /\ q.b \in Ballots /\ Signed(q.b) /\ q.at \in Avail(q.b)

LEMMA PostIsReceiptRequest ==
    ASSUME Inv, NEW b \in Ballots, Signed(b), NEW t \in Avail(b)
    PROVE  /\ ReceiptRequest(Post("receipt", b, 0, t, 1))
           /\ Post("receipt", b, 0, t, 1).b = b
           /\ t \in 0 .. N
<1>1. t \in Tellers
  BY AvailTellers DEF Inv, VotingIInv
<1>2. TryLimit \in Nat /\ TryLimit >= 1 /\ N \in Nat
  BY BoundsAssumption
<1>3. 1 \in 1 .. TryLimit /\ 0 \in 0 .. N
  BY <1>2
<1>4. t \in 0 .. N
  BY <1>1, SharesExist
<1> QED
  BY <1>3, <1>4 DEF ReceiptRequest, Post, Requests

LEMMA NextReceiverMoves ==
    ASSUME Inv, NEW b \in votes, NEW left, NextReceiver(b, left)
    PROVE  /\ PageMoves
           /\ \A q \in req' : q \in left \/ (ReceiptRequest(q) /\ q.b = b)
<1> DEFINE later == {u \in Avail(b) : u > client[b].at}
           t == Min(IF later # {} THEN later ELSE Avail(b))
<1>1. b \in Ballots /\ Signed(b) /\ client \in [Ballots -> Works]
  BY DEF Inv, VotingIInv, TypeOK
<1>2. Avail(b) \subseteq Tellers /\ Avail(b) # {} /\ Tellers \in SUBSET Nat
  BY <1>1, AvailTellers DEF Inv, VotingIInv, Tellers
<1>3. t \in Avail(b)
  <2>1. CASE later # {}
    <3>1. later \in SUBSET Nat
      BY <1>2
    <3> QED
      BY <2>1, <3>1, MinIn
  <2>2. CASE later = {}
    BY <1>2, <2>2, MinIn
  <2> QED
    BY <2>1, <2>2
<1> HIDE DEF t
<1>4. CASE Goto(b, "done") /\ req' = left
  BY <1>1, <1>4, GotoWorks DEF PageMoves
<1>5. CASE /\ client' = [client EXCEPT ![b].at = t]
           /\ req' = left \cup {Post("receipt", b, 0, t, 1)}
  <2>1. ReceiptRequest(Post("receipt", b, 0, t, 1))
        /\ Post("receipt", b, 0, t, 1).b = b /\ t \in 0 .. N
    BY <1>1, <1>3, PostIsReceiptRequest
  <2>2. [client[b] EXCEPT !.at = t] \in Works
        /\ [client[b] EXCEPT !.at = t].pc = client[b].pc
    BY <1>1, <2>1 DEF Works
  <2>3. client' = [client EXCEPT ![b] = [client[b] EXCEPT !.at = t]]
    BY <1>5
  <2>4. PageMoves
    BY <1>1, <2>2, <2>3 DEF PageMoves
  <2> QED
    BY <1>5, <2>1, <2>4
<1> QED
  BY <1>4, <1>5 DEF NextReceiver, t

LEMMA SendReceiptMoves ==
    ASSUME Inv, NEW b \in Ballots, Signed(b), NEW left, SendReceipt(b, left)
    PROVE  /\ PageMoves
           /\ \A q \in req' : q \in left \/ (ReceiptRequest(q) /\ q.b = b)
<1>1. client \in [Ballots -> Works]
  BY DEF Inv, TypeOK
<1>2. PICK t \in Avail(b) :
        /\ client' = [client EXCEPT ![b] =
                        [pc |-> "receipt", first |-> t, at |-> t]]
        /\ req' = left \cup {Post("receipt", b, 0, t, 1)}
  BY DEF SendReceipt
<1>3. ReceiptRequest(Post("receipt", b, 0, t, 1))
      /\ Post("receipt", b, 0, t, 1).b = b /\ t \in 0 .. N
  BY PostIsReceiptRequest
<1>4. [pc |-> "receipt", first |-> t, at |-> t] \in Works
  BY <1>3 DEF Works
<1>5. PageMoves
  BY <1>1, <1>2, <1>4 DEF PageMoves
<1> QED
  BY <1>2, <1>3, <1>5

LEMMA GiveUpInv ==
    ASSUME Inv, NEW b \in Ballots, Goto(b, "failed"), req' \subseteq req,
           UNCHANGED <<open, chain, tableVars, countVars>>,
           faults' \in 0 .. MaxFaults
    PROVE  Inv'
<1>1. client \in [Ballots -> Works] /\ req \subseteq Requests
  BY DEF Inv, TypeOK
<1>2. PageMoves
  BY <1>1, GotoWorks DEF PageMoves
<1> QED
  BY <1>1, <1>2, PageInv

LEMMA NextReceiverInv ==
    ASSUME Inv, NEW b \in votes, NEW left \in SUBSET req, NextReceiver(b, left),
           UNCHANGED <<open, chain, tableVars, countVars>>,
           faults' \in 0 .. MaxFaults
    PROVE  Inv'
<1>1. PageMoves /\ \A q \in req' : q \in left \/ (ReceiptRequest(q) /\ q.b = b)
  BY NextReceiverMoves
<1>2. req' \subseteq Requests
  BY <1>1 DEF Inv, TypeOK, ReceiptRequest
<1>3. ASSUME NEW q \in req', ReceiptRequest(q), q.b = b
      PROVE  ReqOK(q)'
  <2>1. q.b \in votes' /\ Avail(q.b)' = Avail(q.b)
    BY <1>3 DEF tableVars, Avail, Zs
  <2> QED
    BY <1>3, <2>1 DEF ReqOK, ReceiptRequest
<1> QED
  BY <1>1, <1>2, <1>3, PageInv

LEMMA RefusedInv ==
    ASSUME Inv, NEW q \in req, Refused(q),
           UNCHANGED <<open, tableVars, countVars>>, faults' = faults
    PROVE  Inv'
<1>1. /\ q.b \in Ballots /\ client \in [Ballots -> Works]
      /\ faults' \in 0 .. MaxFaults /\ req \subseteq Requests
      /\ ReqOK(q)
  BY DEF Inv, VotingIInv, TypeOK, Requests
<1>2. CASE req' = req \ {q} /\ UNCHANGED pageVars
  <2>1. PageMoves
    BY <1>1, <1>2 DEF PageMoves, pageVars
  <2> QED
    BY <1>1, <1>2, <2>1, PageInv DEF pageVars
<1>3. CASE Awaited(q) /\ q.kind = "share" /\ NextTeller(q.b, q.i, req \ {q})
  <2>1. q.i \in Shares
    BY <1>1, <1>3 DEF ReqOK
  <2>2. chain[q.b][q.i].st = "sent"
    BY <1>3 DEF Awaited
  <2>3. Moves(q.b, q.i, req \ {q})
    BY <1>1, <1>3, <2>1, <2>2, NextTellerMoves DEF Inv
  <2> QED
    BY <1>1, <2>1, <2>2, <2>3, MovesInv
<1>4. CASE Goto(q.b, "failed") /\ req' = req \ {q} /\ UNCHANGED chain
  BY <1>1, <1>4, GiveUpInv
<1>5. CASE q.kind = "receipt" /\ NextReceiver(q.b, req \ {q}) /\ UNCHANGED chain
  <2>1. q.b \in votes
    BY <1>1, <1>5 DEF ReqOK
  <2> QED
    BY <1>1, <1>5, <2>1, NextReceiverInv
<1> QED
  BY <1>2, <1>3, <1>4, <1>5 DEF Refused

(***************************************************************************)
(* Every action keeps the invariant.                                       *)
(***************************************************************************)
LEMMA PressInv ==
    ASSUME Inv, NEW b \in Ballots, Press(b)
    PROVE  Inv'
<1> USE DEF tableVars, countVars
<1> DEFINE new == [i \in Shares |-> [at |-> i, try |-> 1, st |-> "sent"]]
<1>1. TypeOK /\ SharesStored /\ IdleFresh
  BY DEF Inv, VotingIInv
<1>2. /\ client[b].pc = "idle" /\ Goto(b, "shares")
      /\ chain' = [chain EXCEPT ![b] = new]
      /\ req' = req \cup {Post("share", b, i, i, 1) : i \in Shares}
      /\ UNCHANGED <<open, tableVars, countVars, faults>>
  BY DEF Press
<1>3. TryLimit \in Nat /\ TryLimit >= 1
  BY BoundsAssumption
<1>4. 1 \in 1 .. TryLimit /\ 1 \in 0 .. TryLimit
  BY <1>3
<1>5. new \in [Shares -> ChainStates] /\ \A i \in Shares : new[i].st = "sent"
  <2>1. \A i \in Shares :
          [at |-> i, try |-> 1, st |-> "sent"] \in ChainStates
    BY <1>4, SharesExist DEF ChainStates
  <2> QED
    BY <2>1
<1> HIDE DEF new
<1>6. /\ chain' \in [Ballots -> [Shares -> ChainStates]] /\ chain'[b] = new
      /\ \A c \in Ballots : c # b => chain'[c] = chain[c]
  BY <1>1, <1>2, <1>5 DEF TypeOK
<1>7. client' \in [Ballots -> Works]
      /\ \A c \in Ballots : client'[c].pc = "idle" => client[c].pc = "idle"
  BY <1>1, <1>2, GotoWorks DEF TypeOK
<1>8. client'[b].pc # "idle"
  BY <1>1, <1>2 DEF TypeOK, Goto, Works
<1>9. \A q \in req' : q \in req \/ ShareRequest(q)
  BY <1>2, <1>4, SharesExist, PostIsShareRequest
<1>10. ~Signed(b)
  BY <1>1, <1>2, SharesExist DEF IdleFresh, Signed
<1>11. Calm
  BY <1>2, <1>6, <1>10 DEF Calm
<1>12. TypeOK'
  BY <1>1, <1>2, <1>6, <1>7, <1>9 DEF TypeOK, ShareRequest
<1>13. SharesStored'
  BY <1>1, <1>2, <1>5, <1>6 DEF SharesStored
<1>14. IdleFresh'
  BY <1>1, <1>6, <1>7, <1>8 DEF IdleFresh
<1>15. \A q \in req' : q \in req \/ ReqOK(q)'
  BY <1>9 DEF ShareRequest, ReqOK
<1> QED
  BY <1>2, <1>11, <1>12, <1>13, <1>14, <1>15, CalmStep

LEMMA SendVoteInv ==
    ASSUME Inv, NEW b \in Ballots, SendVote(b)
    PROVE  Inv'
<1> USE DEF tableVars, countVars
<1>1. client \in [Ballots -> Works] /\ req \subseteq Requests
      /\ faults \in 0 .. MaxFaults
  BY DEF Inv, TypeOK
<1>2. CASE Goto(b, "failed") /\ UNCHANGED req
  BY <1>1, <1>2, GiveUpInv DEF SendVote
<1>3. CASE Goto(b, "vote") /\ req' = req \cup {Post("vote", b, 0, Esp, 1)}
  <2>1. PageMoves
    BY <1>1, <1>3, GotoWorks DEF PageMoves
  <2>2. TryLimit \in Nat /\ TryLimit >= 1 /\ N \in Nat
    BY BoundsAssumption
  <2>3. 1 \in 1 .. TryLimit /\ 0 \in 0 .. N
    BY <2>2
  <2>4. Post("vote", b, 0, Esp, 1) \in Requests
    BY <2>3 DEF Post, Requests, Esp
  <2>5. ReqOK(Post("vote", b, 0, Esp, 1))'
    BY DEF ReqOK, Post, Esp
  <2>6. \A q \in req' : q \in req \/ ReqOK(q)'
    BY <1>3, <2>5
  <2> QED
    BY <1>1, <1>3, <2>1, <2>4, <2>6, PageInv DEF SendVote
<1> QED
  BY <1>2, <1>3 DEF SendVote

LEMMA CheckInv ==
    ASSUME Inv, NEW q \in req, Check(q)
    PROVE  Inv'
<1> DEFINE c == [q EXCEPT !.checked = TRUE]
<1>1. q \in Requests /\ ReqOK(q) /\ faults \in 0 .. MaxFaults
      /\ client \in [Ballots -> Works] /\ req \subseteq Requests
  BY DEF Inv, VotingIInv, TypeOK
<1>2. CASE /\ q.kind = "receipt" => CanReceive(q)
           /\ q.kind = "vote" => Signed(q.b)
           /\ req' = (req \ {q}) \cup {c}
           /\ UNCHANGED pageVars
  <2>1. c \in Requests /\ c.kind = q.kind /\ c.b = q.b /\ c.i = q.i /\ c.at = q.at
    BY <1>1 DEF Requests
  <2> HIDE DEF c
  <2>2. ReqOK(c)
    BY <1>1, <1>2, <2>1 DEF ReqOK, CanReceive
  <2>3. Calm /\ UNCHANGED <<votes, rows, chain, client>>
    BY <1>2 DEF Check, Calm, tableVars, pageVars
  <2>4. ReqOK(c)'
    BY <2>2, <2>3 DEF ReqOK, Signed, Avail, Zs, KeptRow
  <2>5. PageMoves
    BY <1>1, <2>3 DEF PageMoves
  <2> QED
    BY <1>1, <1>2, <2>1, <2>3, <2>4, <2>5, PageInv DEF Check
<1>3. CASE Refused(q)
  BY <1>3, RefusedInv DEF Check
<1> QED
  BY <1>2, <1>3 DEF Check

LEMMA StoreShareInv ==
    ASSUME Inv, NEW q \in req, StoreShare(q)
    PROVE  Inv'
<1> USE DEF countVars
<1> DEFINE b == q.b
           i == q.i
           row == RowOf(b, i, q.at, q.try)
<1>1. TypeOK /\ SharesStored /\ IdleFresh
  BY DEF Inv, VotingIInv
<1>2. q \in Requests /\ ReqOK(q) /\ q.kind = "share"
  BY DEF Inv, VotingIInv, TypeOK, StoreShare
<1>3. b \in Ballots /\ i \in Shares /\ row \in RowSet
  BY <1>2 DEF Requests, ReqOK, RowSet, RowOf
<1>4. rows' = rows \cup {row} /\ req' = req \ {q}
      /\ UNCHANGED <<open, client, receipts, votes, countVars, faults>>
  BY DEF StoreShare
<1>5. CASE /\ Awaited(q)
           /\ chain' = [chain EXCEPT ![b][i].st = "ok"]
  <2> DEFINE x == [chain[b][i] EXCEPT !.st = "ok"]
  <2>1. chain[b][i] = [at |-> q.at, try |-> q.try, st |-> "sent"]
    BY <1>2, <1>5 DEF Awaited
  <2>2. chain[b][i].st = "sent" /\ x.at = q.at /\ x.try = q.try /\ x.st = "ok"
    BY <2>1
  <2>3. x \in ChainStates
    <3>1. chain[b][i] \in ChainStates
      BY <1>1, <1>3 DEF TypeOK
    <3> QED
      BY <3>1 DEF ChainStates
  <2> HIDE DEF x, b, i
  <2>4. chain' = [chain EXCEPT ![b] = [chain[b] EXCEPT ![i] = x]]
    BY <1>1, <1>3, <1>5 DEF TypeOK, x
  <2>5. [chain[b] EXCEPT ![i] = x] \in [Shares -> ChainStates]
    BY <1>1, <1>3, <2>3 DEF TypeOK
  <2>6. /\ chain' \in [Ballots -> [Shares -> ChainStates]]
        /\ \A c \in Ballots : c # b => chain'[c] = chain[c]
        /\ chain'[b] = [chain[b] EXCEPT ![i] = x]
    BY <1>1, <1>3, <2>4, <2>5 DEF TypeOK
  <2>7. chain'[b][i] = x /\ \A j \in Shares : j # i => chain'[b][j] = chain[b][j]
    BY <1>1, <1>3, <2>6 DEF TypeOK
  <2>8. Calm
    BY <1>3, <1>4, <2>2, <2>6 DEF Calm, Signed
  <2>9. TypeOK'
    BY <1>1, <1>3, <1>4, <2>6 DEF TypeOK
  <2>10. SharesStored'
    <3> SUFFICES ASSUME NEW c \in Ballots, NEW j \in Shares, chain'[c][j].st = "ok"
                 PROVE  RowOf(c, j, chain'[c][j].at, chain'[c][j].try) \in rows'
      BY DEF SharesStored, RowOf
    <3>1. CASE c = b /\ j = i
      BY <1>4, <2>2, <2>7, <3>1
    <3>2. CASE ~(c = b /\ j = i)
      <4>1. chain'[c][j] = chain[c][j]
        BY <2>6, <2>7, <3>2
      <4> QED
        BY <1>1, <1>4, <4>1 DEF SharesStored
    <3> QED
      BY <3>1, <3>2
  <2>11. IdleFresh'
    <3>1. client[b].pc # "idle"
      BY <1>1, <1>3, <2>2 DEF IdleFresh
    <3> QED
      BY <1>1, <1>4, <2>6, <3>1 DEF IdleFresh
  <2> QED
    BY <1>4, <2>8, <2>9, <2>10, <2>11, CalmStep
<1>6. CASE chain' = chain
  <2>1. Calm
    BY <1>4, <1>6 DEF Calm
  <2>2. TypeOK'
    BY <1>1, <1>3, <1>4, <1>6 DEF TypeOK
  <2>3. SharesStored'
    BY <1>1, <1>4, <1>6 DEF SharesStored, RowOf
  <2>4. IdleFresh'
    BY <1>1, <1>4, <1>6 DEF IdleFresh
  <2> QED
    BY <1>4, <2>1, <2>2, <2>3, <2>4, CalmStep
<1> QED
  BY <1>5, <1>6 DEF StoreShare

LEMMA StoreVoteInv ==
    ASSUME Inv, NEW q \in req, StoreVote(q)
    PROVE  Inv'
<1> USE DEF countVars
<1>1. TypeOK /\ SharesStored /\ IdleFresh
  BY DEF Inv, VotingIInv
<1>2. q \in Requests /\ ReqOK(q) /\ q.b \in Ballots /\ Signed(q.b)
  BY DEF Inv, VotingIInv, TypeOK, StoreVote, Requests, ReqOK
<1>3. CASE Refused(q) /\ UNCHANGED votes
  BY <1>3, RefusedInv DEF StoreVote, tableVars
<1>4. CASE /\ votes' = votes \cup {q.b}
           /\ \/ SendReceipt(q.b, req \ {q})
              \/ req' = req \ {q} /\ UNCHANGED client
           /\ UNCHANGED chain
  <2>1. UNCHANGED <<open, rows, receipts, countVars, faults>>
    BY DEF StoreVote
  <2>2. PageMoves
        /\ \A r \in req' : r \in req \/ (ReceiptRequest(r) /\ r.b = q.b)
    <3>1. CASE SendReceipt(q.b, req \ {q})
      BY <1>2, <3>1, SendReceiptMoves
    <3>2. CASE req' = req \ {q} /\ UNCHANGED client
      BY <1>1, <3>2 DEF PageMoves, TypeOK
    <3> QED
      BY <1>4, <3>1, <3>2
  <2>3. Calm
    BY <1>4, <2>1 DEF Calm
  <2>4. TypeOK'
    <3>1. req' \subseteq Requests
      BY <1>1, <2>2 DEF TypeOK, ReceiptRequest
    <3> QED
      BY <1>1, <1>2, <1>4, <2>1, <2>2, <3>1 DEF TypeOK, PageMoves
  <2>5. SharesStored'
    BY <1>1, <1>4, <2>1 DEF SharesStored, RowOf
  <2>6. IdleFresh'
    BY <1>1, <1>4, <2>2 DEF IdleFresh, PageMoves
  <2>7. \A b \in votes' : Signed(b)'
    BY <1>2, <1>4 DEF Inv, VotingIInv, Signed
  <2>8. \A r \in req' : ReqOK(r)'
    <3> TAKE r \in req'
    <3>1. CASE r \in req
      BY <2>3, <3>1, CalmRequests
    <3>2. CASE ReceiptRequest(r) /\ r.b = q.b
      <4>1. r.b \in votes' /\ Avail(r.b)' = Avail(r.b)
        BY <1>4, <3>2 DEF Avail, Zs
      <4> QED
        BY <3>2, <4>1 DEF ReqOK, ReceiptRequest
    <3> QED
      BY <2>2, <3>1, <3>2
  <2>9. ReceiptsAreOfAccepted'
    BY <1>4, <2>1 DEF Inv, VotingIInv, ReceiptsAreOfAccepted, Zs, RowOf
  <2> QED
    BY <2>4, <2>5, <2>6, <2>7, <2>8, <2>9 DEF Inv, VotingIInv
<1> QED
  BY <1>3, <1>4 DEF StoreVote

LEMMA StoreReceiptInv ==
    ASSUME Inv, NEW q \in req, StoreReceipt(q)
    PROVE  Inv'
<1> USE DEF countVars
<1> DEFINE row == KeptRow(q.b, q.at)
<1>1. TypeOK /\ SharesStored /\ IdleFresh
  BY DEF Inv, VotingIInv
<1>2. q \in Requests /\ q.b \in Ballots /\ q.b \in votes
      /\ q.at \in Avail(q.b) /\ row \in rows
  BY DEF Inv, VotingIInv, TypeOK, StoreReceipt, Requests, ReqOK
<1>3. row \in Zs(q.b) /\ row.b = q.b
  BY <1>2, KeptIsSigned
<1> HIDE DEF row
<1>4. /\ receipts' = receipts \cup {row} /\ req' = req \ {q}
      /\ UNCHANGED <<open, chain, rows, votes, countVars, faults>>
      /\ Goto(q.b, "done") \/ UNCHANGED client
  BY DEF StoreReceipt, row
<1>5. PageMoves
  BY <1>1, <1>2, <1>4, GotoWorks DEF PageMoves, TypeOK
<1>6. Calm
  BY <1>4 DEF Calm
<1>7. TypeOK'
  BY <1>1, <1>2, <1>4, <1>5 DEF TypeOK, PageMoves
<1>8. SharesStored'
  BY <1>1, <1>4 DEF SharesStored, RowOf
<1>9. IdleFresh'
  BY <1>1, <1>4, <1>5 DEF IdleFresh, PageMoves
<1>10. \A b \in votes' : Signed(b)'
  BY <1>4 DEF Inv, VotingIInv, Signed
<1>11. \A r \in req' : ReqOK(r)'
  BY <1>4, <1>6, CalmRequests
<1>12. ReceiptsAreOfAccepted'
  <2> SUFFICES ASSUME NEW r \in receipts'
               PROVE  r.b \in votes /\ r \in Zs(r.b)'
    BY <1>4 DEF ReceiptsAreOfAccepted
  <2>1. r.b \in votes /\ r \in Zs(r.b)
    BY <1>2, <1>3, <1>4 DEF Inv, VotingIInv, ReceiptsAreOfAccepted
  <2>2. Zs(r.b)' = Zs(r.b)
    BY <1>4 DEF Zs
  <2> QED
    BY <2>1, <2>2
<1> QED
  BY <1>7, <1>8, <1>9, <1>10, <1>11, <1>12 DEF Inv, VotingIInv

LEMMA BreakInv ==
    ASSUME Inv, NEW q \in req, Break(q)
    PROVE  Inv'
<1>1. q \in Requests /\ q.b \in Ballots /\ ReqOK(q) /\ faults \in 0 .. MaxFaults
  BY DEF Inv, VotingIInv, TypeOK, Requests
<1>2. MaxFaults \in Nat
  BY BoundsAssumption
<1>3. faults' \in 0 .. MaxFaults /\ UNCHANGED <<open, tableVars, countVars>>
      /\ Awaited(q)
  BY <1>1, <1>2 DEF Break
<1>4. PICK left \in {req, req \ {q}} :
         \/ /\ q.kind = "share"
            /\ TryAgain(q.b, q.i, left)
         \/ /\ q.kind = "vote"
            /\ Goto(q.b, "failed") /\ req' = left /\ UNCHANGED chain
         \/ /\ q.kind = "receipt"
            /\ NextReceiver(q.b, left) /\ UNCHANGED chain
  BY DEF Break
<1>5. left \in SUBSET req
  BY <1>4
<1>6. CASE q.kind = "share" /\ TryAgain(q.b, q.i, left)
  <2>1. q.i \in Shares /\ q.at \in Tellers
    BY <1>1, <1>6 DEF ReqOK
  <2>2. chain[q.b][q.i].st = "sent" /\ chain[q.b][q.i].at \in Tellers
    BY <1>3, <1>6, <2>1 DEF Awaited
  <2>3. Moves(q.b, q.i, left)
    BY <1>1, <1>6, <2>1, <2>2, TryAgainMoves DEF Inv
  <2> QED
    BY <1>1, <1>3, <1>5, <2>1, <2>2, <2>3, MovesInv
<1>7. CASE Goto(q.b, "failed") /\ req' = left /\ UNCHANGED chain
  BY <1>1, <1>3, <1>5, <1>7, GiveUpInv
<1>8. CASE q.kind = "receipt" /\ NextReceiver(q.b, left) /\ UNCHANGED chain
  <2>1. q.b \in votes
    BY <1>1, <1>8 DEF ReqOK
  <2> QED
    BY <1>3, <1>5, <1>8, <2>1, NextReceiverInv
<1> QED
  BY <1>4, <1>6, <1>7, <1>8

\* What closing, dumping and counting leave alone.
LEMMA QuietInv ==
    ASSUME Inv, TypeOK', UNCHANGED <<pageVars, req, tableVars>>
    PROVE  Inv'
<1> USE DEF pageVars, tableVars
<1>1. SharesStored' /\ IdleFresh'
  BY DEF Inv, VotingIInv, SharesStored, IdleFresh, RowOf
<1>2. Calm
  BY DEF Calm
<1> QED
  BY <1>1, <1>2, CalmStep

LEMMA StepInv ==
    ASSUME Inv, [Next]_vars
    PROVE  Inv'
<1>1. TypeOK
  BY DEF Inv
<1>2. ASSUME NEW b \in Ballots, Press(b) \/ SendVote(b)
      PROVE  Inv'
  BY <1>2, PressInv, SendVoteInv
<1>3. ASSUME NEW q \in req, Server(q) \/ Break(q)
      PROVE  Inv'
  BY <1>3, CheckInv, StoreShareInv, StoreVoteInv, StoreReceiptInv, BreakInv
  DEF Server
<1>4. ASSUME NEW s, Close(s)
      PROVE  Inv'
  BY <1>1, <1>4, QuietInv DEF Close, TypeOK, pageVars, tableVars, countVars
<1>5. ASSUME Dump
      PROVE  Inv'
  BY <1>1, <1>5, QuietInv DEF Dump, TypeOK, pageVars, tableVars
<1>6. ASSUME NEW t \in Tellers, Count(t)
      PROVE  Inv'
  <2>1. PICK x \in {"invalid", "excluded", "done"} :
          tally' = [tally EXCEPT ![t] = x]
    BY <1>6 DEF Count
  <2>2. TypeOK'
    BY <1>1, <1>6, <2>1 DEF Count, TypeOK, pageVars, tableVars
  <2> QED
    BY <1>6, <2>2, QuietInv DEF Count
<1>7. CASE UNCHANGED vars
  <2>1. TypeOK'
    BY <1>1, <1>7 DEF vars, TypeOK, pageVars, tableVars, countVars
  <2> QED
    BY <1>7, <2>1, QuietInv DEF vars
<1> QED
  BY <1>2, <1>3, <1>4, <1>5, <1>6, <1>7 DEF Next, Step

LEMMA InvHolds == Spec => []Inv
<1>1. Init => Inv
  BY InitInv
<1>2. Inv /\ [Next]_vars => Inv'
  BY StepInv
<1> QED
  BY <1>1, <1>2, PTL DEF Spec

\* Every variable keeps its type.
THEOREM TypeCorrect == Spec => []TypeOK
<1>1. Inv => TypeOK
  BY DEF Inv
<1> QED
  BY <1>1, InvHolds, PTL

\* No teller stops its count on a missing share of an accepted ballot.
THEOREM AcceptedSharesAlwaysStored == Spec => []AcceptedSharesStored
<1>1. Inv => AcceptedSharesStored
  <2> SUFFICES ASSUME Inv, NEW b \in votes PROVE Zs(b) \subseteq rows
    BY DEF AcceptedSharesStored
  <2>1. b \in Ballots /\ Signed(b) /\ SharesStored /\ TypeOK
    BY DEF Inv, VotingIInv, TypeOK
  <2> QED
    BY <2>1, AvailTellers
<1> QED
  BY <1>1, InvHolds, PTL

\* A teller keeps receipts only of accepted ballots, on the rows they name.
THEOREM ReceiptsAlwaysOfAccepted == Spec => []ReceiptsAreOfAccepted
<1>1. Inv => ReceiptsAreOfAccepted
  BY DEF Inv, VotingIInv
<1> QED
  BY <1>1, InvHolds, PTL

(***************************************************************************)
(* When the file is dumped only after the admitted votes are stored, no    *)
(* vote is stored after it, and so no receipt is of an unlisted ballot.    *)
(***************************************************************************)
DumpedLast ==
    dumped => /\ Esp \notin open /\ file = votes
              /\ \A q \in req : q.kind = "vote" => ~q.checked

NoneExcluded == \A t \in Tellers : tally[t] # "excluded"

DrainedInv == Inv /\ DumpedLast /\ NoneExcluded

\* What a step may do to the votes' requests once the file is dumped.
LEMMA StepKeepsDumpedLast ==
    ASSUME Inv, DumpedLast, UNCHANGED <<file, dumped>>, open' \subseteq open,
           dumped => votes' = votes,
           dumped => \A q \in req' : q \in req \/ q.kind # "vote" \/ ~q.checked
    PROVE  DumpedLast'
BY DEF DumpedLast

LEMMA RequestsOnlyPosted ==
    ASSUME Inv, NEW q \in req, Refused(q) \/ Break(q)
    PROVE  \A p \in req' : p \in req \/ p.kind # "vote" \/ ~p.checked
<1>1. \A k, b, i, t, n : ~Post(k, b, i, t, n).checked
  BY DEF Post
<1>2. \A b, i : \A left \in SUBSET req :
        NextTeller(b, i, left) =>
          \A p \in req' : p \in req \/ p.kind # "vote" \/ ~p.checked
  BY <1>1 DEF NextTeller
<1>3. \A b : \A left \in SUBSET req :
        NextReceiver(b, left) =>
          \A p \in req' : p \in req \/ p.kind # "vote" \/ ~p.checked
  BY <1>1 DEF NextReceiver
<1>4. \A b, i : \A left \in SUBSET req :
        TryAgain(b, i, left) =>
          \A p \in req' : p \in req \/ p.kind # "vote" \/ ~p.checked
  BY <1>1, <1>2 DEF TryAgain
<1>5. CASE Refused(q)
  BY <1>2, <1>3, <1>5 DEF Refused
<1>6. CASE Break(q)
  <2>1. req \in SUBSET req /\ req \ {q} \in SUBSET req
    OBVIOUS
  <2> QED
    BY <1>3, <1>4, <1>6, <2>1 DEF Break
<1> QED
  BY <1>5, <1>6

LEMMA DumpedLastStep ==
    ASSUME Inv, DumpedLast, [DrainedNext]_vars
    PROVE  DumpedLast'
<1> USE DEF tableVars, countVars, pageVars
<1>1. \A k, b, i, t, n : ~Post(k, b, i, t, n).checked
  BY DEF Post
<1>2. ASSUME NEW b \in Ballots, Press(b) \/ SendVote(b)
      PROVE  DumpedLast'
  BY <1>1, <1>2, StepKeepsDumpedLast DEF Press, SendVote
<1>3. ASSUME NEW q \in req, Check(q)
      PROVE  DumpedLast'
  <2>1. CASE Refused(q)
    BY <1>3, <2>1, RequestsOnlyPosted, StepKeepsDumpedLast DEF Check
  <2>2. CASE /\ q.at \in open
             /\ req' = (req \ {q}) \cup {[q EXCEPT !.checked = TRUE]}
    <3>1. q.kind = "vote" => q.at = Esp
      BY DEF Inv, VotingIInv, ReqOK
    <3>2. dumped => q.kind # "vote"
      BY <2>2, <3>1 DEF DumpedLast
    <3>3. [q EXCEPT !.checked = TRUE].kind = q.kind
      BY DEF Inv, TypeOK, Requests
    <3> QED
      BY <1>3, <2>2, <3>2, <3>3, StepKeepsDumpedLast DEF Check
  <2> QED
    BY <1>3, <2>1, <2>2 DEF Check
<1>4. ASSUME NEW q \in req, StoreShare(q) \/ StoreReceipt(q)
      PROVE  DumpedLast'
  BY <1>4, StepKeepsDumpedLast DEF StoreShare, StoreReceipt
<1>5. ASSUME NEW q \in req, StoreVote(q)
      PROVE  DumpedLast'
  <2>1. ~dumped
    BY <1>5 DEF StoreVote, DumpedLast
  <2> QED
    BY <1>5, <2>1 DEF StoreVote, DumpedLast
<1>6. ASSUME NEW q \in req, Break(q)
      PROVE  DumpedLast'
  BY <1>6, RequestsOnlyPosted, StepKeepsDumpedLast DEF Break
<1>7. ASSUME NEW s, Close(s) \/ Count(s)
      PROVE  DumpedLast'
  BY <1>7, StepKeepsDumpedLast DEF Close, Count
<1>8. CASE Drained /\ Dump
  BY <1>8 DEF Drained, Dump, DumpedLast
<1>9. CASE UNCHANGED vars
  BY <1>9, StepKeepsDumpedLast DEF vars
<1> QED
  BY <1>2, <1>3, <1>4, <1>5, <1>6, <1>7, <1>8, <1>9
  DEF DrainedNext, Step, Server

LEMMA NoneExcludedStep ==
    ASSUME Inv, DumpedLast, NoneExcluded, [DrainedNext]_vars
    PROVE  NoneExcluded'
<1>1. ASSUME NEW t \in Tellers, Count(t)
      PROVE  NoneExcluded'
  <2>1. \A r \in receipts : r.at = t => r \in Listed(t)
    <3> SUFFICES ASSUME NEW r \in receipts, r.at = t PROVE r \in Listed(t)
      OBVIOUS
    <3>1. r.b \in file /\ r \in Zs(r.b)
      BY <1>1 DEF Count, DumpedLast, Inv, VotingIInv, ReceiptsAreOfAccepted
    <3> QED
      BY <3>1 DEF Listed
  <2>2. PICK x \in {"invalid", "done"} : tally' = [tally EXCEPT ![t] = x]
    BY <1>1, <2>1 DEF Count
  <2> QED
    BY <2>2 DEF NoneExcluded, Inv, TypeOK
<1>2. CASE UNCHANGED tally
  BY <1>2 DEF NoneExcluded
<1>3. ASSUME NEW b \in Ballots, Press(b) \/ SendVote(b)
      PROVE  UNCHANGED tally
  BY <1>3 DEF Press, SendVote, countVars
<1>4. ASSUME NEW q \in req, Server(q) \/ Break(q)
      PROVE  UNCHANGED tally
  BY <1>4 DEF Server, Check, StoreShare, StoreVote, StoreReceipt, Break, countVars
<1>5. (\E s \in Tellers \cup {Esp} : Close(s)) \/ Dump \/ UNCHANGED vars
        => UNCHANGED tally
  BY DEF Close, Dump, vars, countVars
<1> QED
  BY <1>1, <1>2, <1>3, <1>4, <1>5 DEF DrainedNext, Step

LEMMA DrainedInvHolds == DrainedSpec => []DrainedInv
<1>1. Init => DrainedInv
  BY InitInv DEF Init, DrainedInv, DumpedLast, NoneExcluded
<1>2. DrainedInv /\ [DrainedNext]_vars => DrainedInv'
  <2> SUFFICES ASSUME DrainedInv, [DrainedNext]_vars PROVE DrainedInv'
    OBVIOUS
  <2>1. [Next]_vars
    BY DEF DrainedNext, Next
  <2> QED
    BY <2>1, StepInv, DumpedLastStep, NoneExcludedStep DEF DrainedInv
<1> QED
  BY <1>1, <1>2, PTL DEF DrainedSpec

\* Every ballot that the ESP accepts is in the file that the tellers count.
THEOREM AcceptedAlwaysDumped == DrainedSpec => []AcceptedAreDumped
<1>1. DrainedInv => AcceptedAreDumped
  BY DEF DrainedInv, DumpedLast, AcceptedAreDumped
<1> QED
  BY <1>1, DrainedInvHolds, PTL

\* No teller's count says that an ESP which runs this code excludes ballots.
THEOREM HonestEspNeverAccused == DrainedSpec => []HonestEspNotAccused
<1>1. DrainedInv => HonestEspNotAccused
  BY DEF DrainedInv, NoneExcluded, HonestEspNotAccused
<1> QED
  BY <1>1, DrainedInvHolds, PTL

(***************************************************************************)
(* While no connection has broken the page waits for every share that is   *)
(* posted, so each share is stored once, by the teller that the page has   *)
(* for it; and a ballot is only sent to the ESP when these are not one.    *)
(***************************************************************************)
Spread(b) == Signed(b) /\ \A t \in Tellers : \E i \in Shares : chain[b][i].at # t

SentShare(q) ==
    q.kind = "share" =>
      chain[q.b][q.i] = [at |-> q.at, try |-> q.try, st |-> "sent"]

KnownRow(r) == chain[r.b][r.i].st = "ok" /\ chain[r.b][r.i].at = r.at

SpreadInv ==
    faults = 0 =>
      /\ \A q \in req : SentShare(q) /\ (q.kind = "vote" => Spread(q.b))
      /\ \A p, q \in req :
            p.kind = "share" /\ q.kind = "share" /\ p.b = q.b /\ p.i = q.i
              => p = q
      /\ \A r \in rows : KnownRow(r)
      /\ \A b \in votes : Spread(b)

\* A step that answers q, or moves it on as c.
LEMMA AnswerKeepsSpread ==
    ASSUME Inv, SpreadInv, faults' = 0 => faults = 0, NEW q \in req, NEW c,
           req' \subseteq (req \ {q}) \cup {c},
           c \in req' =>
             /\ SentShare(c)'
             /\ c.kind = "share" => q.kind = "share" /\ c.b = q.b /\ c.i = q.i
             /\ c.kind = "vote" => Spread(c.b) /\ c.b \in Ballots,
           \A d \in Ballots, j \in Shares :
             \/ chain'[d][j] = chain[d][j]
             \/ q.kind = "share" /\ d = q.b /\ j = q.i,
           \A r \in rows' : r \in rows \/ KnownRow(r)',
           \A b \in votes' : b \in votes \/ (b \in Ballots /\ Spread(b))
    PROVE  SpreadInv'
<1> SUFFICES ASSUME faults = 0 PROVE
      /\ \A p \in req' : SentShare(p)' /\ (p.kind = "vote" => Spread(p.b)')
      /\ \A p, r \in req' :
            p.kind = "share" /\ r.kind = "share" /\ p.b = r.b /\ p.i = r.i
              => p = r
      /\ \A r \in rows' : KnownRow(r)'
      /\ \A b \in votes' : Spread(b)'
  BY DEF SpreadInv
<1>1. q \in Requests /\ ReqOK(q) /\ req \subseteq Requests /\ votes \subseteq Ballots
      /\ rows \subseteq RowSet
  BY DEF Inv, VotingIInv, TypeOK
<1>2. q.kind = "share" => chain[q.b][q.i].st = "sent"
  <2>1. SentShare(q)
    BY DEF SpreadInv
  <2> QED
    BY <2>1 DEF SentShare
<1>3. \A d \in Ballots, j \in Shares :
        chain[d][j].st = "ok" => chain'[d][j] = chain[d][j]
  BY <1>2
<1>4. ASSUME NEW b \in Ballots, Spread(b)
      PROVE  Spread(b)'
  <2>1. \A i \in Shares : chain'[b][i] = chain[b][i]
    BY <1>3, <1>4 DEF Spread, Signed
  <2> QED
    BY <1>4, <2>1 DEF Spread, Signed
<1>5. ASSUME NEW p \in req \ {q}
      PROVE  SentShare(p)' /\ (p.kind = "vote" => Spread(p.b)')
  <2>1. p.b \in Ballots /\ ReqOK(p) /\ SentShare(p)
        /\ (p.kind = "vote" => Spread(p.b))
    BY <1>1 DEF Requests, SpreadInv, Inv, VotingIInv
  <2>2. ASSUME p.kind = "share"
        PROVE  chain'[p.b][p.i] = chain[p.b][p.i]
    <3>1. p.i \in Shares
      BY <2>1, <2>2 DEF ReqOK
    <3>2. ~(q.kind = "share" /\ p.b = q.b /\ p.i = q.i)
      BY <2>2 DEF SpreadInv
    <3> QED
      BY <2>1, <3>1, <3>2
  <2> QED
    BY <1>4, <2>1, <2>2 DEF SentShare
<1>6. \A p \in req' : SentShare(p)' /\ (p.kind = "vote" => Spread(p.b)')
  <2> TAKE p \in req'
  <2>1. CASE p \in req \ {q}
    BY <1>5, <2>1
  <2>2. CASE p = c
    <3>1. c \in req' /\ SentShare(c)' /\ (c.kind = "vote" => Spread(c.b)')
      BY <1>4, <2>2
    <3> QED
      BY <2>2, <3>1
  <2> QED
    BY <2>1, <2>2
<1>7. \A p, r \in req' :
        p.kind = "share" /\ r.kind = "share" /\ p.b = r.b /\ p.i = r.i => p = r
  <2> SUFFICES ASSUME NEW p \in req', NEW r \in req', p.kind = "share",
                      r.kind = "share", p.b = r.b, p.i = r.i
               PROVE  p = r
    OBVIOUS
  <2>1. \A x, y \in req :
          x.kind = "share" /\ y.kind = "share" /\ x.b = y.b /\ x.i = y.i => x = y
    BY DEF SpreadInv
  <2>2. CASE p \in req \ {q} /\ r \in req \ {q}
    BY <2>1, <2>2
  <2>3. CASE p = c /\ r \in req \ {q}
    <3>1. q.kind = "share" /\ q.b = r.b /\ q.i = r.i
      BY <2>3
    <3> QED
      BY <2>1, <2>3, <3>1
  <2>4. CASE r = c /\ p \in req \ {q}
    <3>1. q.kind = "share" /\ q.b = p.b /\ q.i = p.i
      BY <2>4
    <3> QED
      BY <2>1, <2>4, <3>1
  <2> QED
    BY <2>2, <2>3, <2>4
<1>8. \A r \in rows' : KnownRow(r)'
  <2>1. ASSUME NEW r \in rows
        PROVE  KnownRow(r)'
    <3>1. r.b \in Ballots /\ r.i \in Shares /\ KnownRow(r)
      BY <1>1 DEF RowSet, SpreadInv
    <3> QED
      BY <1>3, <3>1 DEF KnownRow
  <2> QED
    BY <2>1
<1>9. \A b \in votes' : Spread(b)'
  <2>1. \A b \in votes : b \in Ballots /\ Spread(b)
    BY <1>1 DEF SpreadInv
  <2> QED
    BY <1>4, <2>1
<1> QED
  BY <1>6, <1>7, <1>8, <1>9

\* A step that answers nobody: it may post requests of no share, and the vote
\* of a ballot that is spread.
LEMMA PostKeepsSpread ==
    ASSUME SpreadInv, faults' = 0 => faults = 0,
           UNCHANGED <<chain, rows, votes>>,
           \A p \in req' :
             p \in req \/ (p.kind # "share" /\ (p.kind = "vote" => Spread(p.b)))
    PROVE  SpreadInv'
<1>1. \A b : Spread(b) => Spread(b)'
  BY DEF Spread, Signed
<1>2. \A q : SentShare(q) => SentShare(q)'
  BY DEF SentShare
<1>3. \A r : KnownRow(r) => KnownRow(r)'
  BY DEF KnownRow
<1>4. \A p \in req' : p \notin req => SentShare(p)'
  BY DEF SentShare
<1> QED
  BY <1>1, <1>2, <1>3, <1>4 DEF SpreadInv

LEMMA PressSpread ==
    ASSUME Inv, SpreadInv, NEW b \in Ballots, Press(b)
    PROVE  SpreadInv'
<1> DEFINE new == [i \in Shares |-> [at |-> i, try |-> 1, st |-> "sent"]]
<1> SUFFICES ASSUME faults = 0 PROVE SpreadInv'
  BY DEF Press, SpreadInv
<1>1. /\ chain' = [chain EXCEPT ![b] = new] /\ chain \in [Ballots -> [Shares -> ChainStates]]
      /\ req' = req \cup {Post("share", b, i, i, 1) : i \in Shares}
      /\ UNCHANGED <<rows, votes>>
  BY DEF Press, Inv, TypeOK, tableVars
<1>2. chain'[b] = new /\ \A c \in Ballots : c # b => chain'[c] = chain[c]
  BY <1>1
<1>3. \A i \in Shares : chain[b][i].st = "none"
  BY DEF Press, Inv, VotingIInv, IdleFresh
<1>4. \A c \in Ballots : Spread(c) => c # b
  BY <1>3, SharesExist DEF Spread, Signed
<1>5. ASSUME NEW c \in Ballots, Spread(c)
      PROVE  Spread(c)'
  BY <1>2, <1>4, <1>5 DEF Spread, Signed
<1>6. ASSUME NEW q \in req
      PROVE  /\ SentShare(q)' /\ (q.kind = "vote" => Spread(q.b)')
             /\ q.kind = "share" => q.b # b
  <2>1. q.b \in Ballots /\ ReqOK(q) /\ SentShare(q) /\ (q.kind = "vote" => Spread(q.b))
    BY DEF Inv, VotingIInv, TypeOK, Requests, SpreadInv
  <2>2. q.kind = "share" => q.b # b
    <3> SUFFICES ASSUME q.kind = "share", q.b = b PROVE FALSE
      OBVIOUS
    <3>1. chain[b][q.i].st = "sent" /\ q.i \in Shares
      BY <2>1 DEF SentShare, ReqOK
    <3> QED
      BY <1>3, <3>1
  <2> QED
    BY <1>2, <1>5, <2>1, <2>2 DEF SentShare
<1>7. ASSUME NEW i \in Shares
      PROVE  LET p == Post("share", b, i, i, 1)
             IN  SentShare(p)' /\ p.kind = "share" /\ p.b = b /\ p.i = i
  <2>1. new[i] = [at |-> i, try |-> 1, st |-> "sent"]
    OBVIOUS
  <2> QED
    BY <1>2, <2>1 DEF SentShare, Post
<1> HIDE DEF new
<1>8. \A q \in req' : SentShare(q)' /\ (q.kind = "vote" => Spread(q.b)')
  <2> TAKE q \in req'
  <2>1. CASE q \in req
    BY <1>6, <2>1
  <2>2. CASE q \in {Post("share", b, i, i, 1) : i \in Shares}
    <3>1. PICK i \in Shares : q = Post("share", b, i, i, 1)
      BY <2>2
    <3>2. SentShare(Post("share", b, i, i, 1))'
      BY <1>7
    <3>3. q.kind = "share"
      BY <3>1 DEF Post
    <3> QED
      BY <3>1, <3>2, <3>3
  <2> QED
    BY <1>1, <2>1, <2>2
<1>9. \A p, q \in req' :
        p.kind = "share" /\ q.kind = "share" /\ p.b = q.b /\ p.i = q.i => p = q
  <2>1. \A x, y \in req :
          x.kind = "share" /\ y.kind = "share" /\ x.b = y.b /\ x.i = y.i => x = y
    BY DEF SpreadInv
  <2>2. \A q \in req' :
          q \in req \/ (q.b = b /\ q.i \in Shares /\ q = Post("share", b, q.i, q.i, 1))
    BY <1>1 DEF Post
  <2>3. \A q \in req : q.kind = "share" => q.b # b
    BY <1>6
  <2> QED
    BY <2>1, <2>2, <2>3
<1>10. \A r \in rows' : KnownRow(r)'
  <2> TAKE r \in rows'
  <2>1. r \in rows /\ KnownRow(r) /\ r.b \in Ballots /\ r.i \in Shares
    BY <1>1 DEF SpreadInv, Inv, TypeOK, RowSet
  <2>2. r.b # b
    BY <1>3, <2>1 DEF KnownRow
  <2> QED
    BY <1>2, <2>1, <2>2 DEF KnownRow
<1>11. \A c \in votes' : Spread(c)'
  BY <1>1, <1>5 DEF SpreadInv, Inv, TypeOK
<1> QED
  BY <1>8, <1>9, <1>10, <1>11 DEF SpreadInv

LEMMA SendVoteSpread ==
    ASSUME Inv, SpreadInv, NEW b \in Ballots, SendVote(b)
    PROVE  SpreadInv'
<1>1. ASSUME Cardinality(Avail(b)) > 1
      PROVE  Spread(b)
  <2>1. Signed(b)
    BY DEF SendVote, Signed
  <2>2. SUFFICES ASSUME NEW t \in Tellers, \A i \in Shares : chain[b][i].at = t
                 PROVE  FALSE
    BY <2>1 DEF Spread
  <2>3. \A z \in Zs(b) : z.at = t
    BY <2>2 DEF Zs, RowOf
  <2>4. Avail(b) # {}
    BY <2>1, AvailTellers DEF Inv, VotingIInv
  <2>5. Avail(b) = {t}
    BY <2>3, <2>4 DEF Avail
  <2>6. Cardinality(Avail(b)) = 1
    BY <2>5, FS_Singleton
  <2> QED
    BY <1>1, <2>6
<1>2. \A p \in req' : p \in req \/ (p = Post("vote", b, 0, Esp, 1) /\ Spread(b))
  BY <1>1 DEF SendVote
<1>3. \A p \in req' :
        p \in req \/ (p.kind # "share" /\ (p.kind = "vote" => Spread(p.b)))
  BY <1>2 DEF Post
<1> QED
  BY <1>3, PostKeepsSpread DEF SendVote, tableVars

\* A request of no share is answered; the page may post another of no share.
LEMMA OtherAnswerSpread ==
    ASSUME Inv, SpreadInv, faults' = faults, NEW q \in req, q.kind # "share",
           UNCHANGED <<chain, rows>>,
           \A p \in req' : p \in req \/ p.kind = "receipt",
           \A b \in votes' : b \in votes \/ Spread(b)
    PROVE  SpreadInv'
<1>1. \A b : Spread(b) => Spread(b)'
  BY DEF Spread, Signed
<1>2. \A p : SentShare(p) => SentShare(p)'
  BY DEF SentShare
<1>3. \A r : KnownRow(r) => KnownRow(r)'
  BY DEF KnownRow
<1>4. \A p \in req' : p \notin req => SentShare(p)'
  BY DEF SentShare
<1> QED
  BY <1>1, <1>2, <1>3, <1>4 DEF SpreadInv

LEMMA RefusedSpread ==
    ASSUME Inv, SpreadInv, NEW q \in req, Refused(q),
           UNCHANGED <<rows, votes, faults>>
    PROVE  SpreadInv'
<1>1. /\ q.b \in Ballots /\ ReqOK(q)
      /\ chain \in [Ballots -> [Shares -> ChainStates]]
  BY DEF Inv, VotingIInv, TypeOK, Requests
<1>2. \A k, b, i, t, n : Post(k, b, i, t, n).kind = k
  BY DEF Post
<1>3. CASE req' = req \ {q} /\ UNCHANGED chain
  BY <1>3, PostKeepsSpread
<1>4. CASE Awaited(q) /\ q.kind = "share" /\ NextTeller(q.b, q.i, req \ {q})
  <2> DEFINE b == q.b
             i == q.i
  <2>1. i \in Shares
    BY <1>1, <1>4 DEF ReqOK
  <2>2. chain[b][i] = [at |-> q.at, try |-> q.try, st |-> "sent"]
    BY <1>4 DEF Awaited
  <2>3. ASSUME NEW t, NEW c, c = Post("share", b, i, t, 1),
               chain' = [chain EXCEPT ![b][i].at = t, ![b][i].try = 1],
               req' = (req \ {q}) \cup {c}
        PROVE  SpreadInv'
    <3> DEFINE x == [at |-> t, try |-> 1, st |-> "sent"]
    <3>1. [chain[b][i] EXCEPT !.at = t, !.try = 1] = x
      <4> DEFINE y == [chain[b][i] EXCEPT !.at = t, !.try = 1]
                 S == [at : {t}, try : {1}, st : {"sent"}]
      <4>1. chain[b][i] \in [at : {q.at}, try : {q.try}, st : {"sent"}]
        BY <2>2
      <4>2. y \in S
        BY <4>1
      <4>3. \A z \in S : z = x
        OBVIOUS
      <4> HIDE DEF y, S
      <4>4. y = x
        BY <4>2, <4>3
      <4> QED
        BY <4>4 DEF y
    <3> HIDE DEF x, b, i
    <3>2. chain' = [chain EXCEPT ![b] = [chain[b] EXCEPT ![i] = x]]
      BY <1>1, <2>1, <2>3, <3>1 DEF b, i
    <3>3. chain'[b] = [chain[b] EXCEPT ![i] = x]
          /\ \A d \in Ballots : d # b => chain'[d] = chain[d]
      BY <1>1, <3>2 DEF b
    <3>4. chain'[b][i] = x /\ \A j \in Shares : j # i => chain'[b][j] = chain[b][j]
      BY <1>1, <2>1, <3>3 DEF b
    <3>5. c.kind = "share" /\ c.b = b /\ c.i = i /\ c.at = t /\ c.try = 1
      BY <2>3 DEF Post
    <3>6. SentShare(c)'
      BY <3>4, <3>5 DEF SentShare, x
    <3>7. \A d \in Ballots, j \in Shares :
            chain'[d][j] = chain[d][j] \/ (q.kind = "share" /\ d = q.b /\ j = q.i)
      BY <1>4, <3>3, <3>4 DEF b, i
    <3> QED
      BY <1>4, <2>3, <3>5, <3>6, <3>7, AnswerKeepsSpread DEF b, i
  <2>4. CASE /\ chain' = [chain EXCEPT ![b][i].st = "dead"]
             /\ req' = req \ {q}
    <3>1. \A d \in Ballots, j \in Shares :
             chain'[d][j] = chain[d][j] \/ (d = b /\ j = i)
      BY <1>1, <2>4
    <3>2. req' \subseteq (req \ {q}) \cup {q} /\ ~(q \in req')
      BY <2>4
    <3> QED
      BY <1>4, <3>1, <3>2, AnswerKeepsSpread
  <2> QED
    BY <1>4, <2>3, <2>4 DEF NextTeller
<1>5. CASE q.kind = "receipt" /\ NextReceiver(q.b, req \ {q}) /\ UNCHANGED chain
  <2>1. \A p \in req' : p \in req \/ p.kind = "receipt"
    BY <1>2, <1>5 DEF NextReceiver
  <2> QED
    BY <1>5, <2>1, OtherAnswerSpread
<1> QED
  BY <1>3, <1>4, <1>5 DEF Refused, pageVars

LEMMA CheckSpread ==
    ASSUME Inv, SpreadInv, NEW q \in req, Check(q)
    PROVE  SpreadInv'
<1> DEFINE c == [q EXCEPT !.checked = TRUE]
<1>1. CASE req' = (req \ {q}) \cup {c} /\ UNCHANGED chain
  <2>1. q.b \in Ballots /\ q \in Requests
    BY DEF Inv, TypeOK, Requests
  <2>2. c.kind = q.kind /\ c.b = q.b /\ c.i = q.i /\ c.at = q.at /\ c.try = q.try
    BY <2>1 DEF Requests
  <2> HIDE DEF c
  <2> SUFFICES ASSUME faults = 0 PROVE SpreadInv'
    BY DEF Check, SpreadInv
  <2>3. SentShare(q) /\ (q.kind = "vote" => Spread(q.b))
    BY DEF SpreadInv
  <2>4. SentShare(c)'
    BY <1>1, <2>2, <2>3 DEF SentShare
  <2> QED
    BY <1>1, <2>1, <2>2, <2>3, <2>4, AnswerKeepsSpread DEF Check, tableVars
<1>2. CASE Refused(q)
  BY <1>2, RefusedSpread DEF Check, tableVars
<1> QED
  BY <1>1, <1>2 DEF Check, pageVars

LEMMA StoreShareSpread ==
    ASSUME Inv, SpreadInv, NEW q \in req, StoreShare(q)
    PROVE  SpreadInv'
<1> DEFINE b == q.b
           i == q.i
           row == RowOf(b, i, q.at, q.try)
<1> SUFFICES ASSUME faults = 0 PROVE SpreadInv'
  BY DEF StoreShare, SpreadInv
<1>1. /\ b \in Ballots /\ i \in Shares
      /\ chain \in [Ballots -> [Shares -> ChainStates]]
  BY DEF Inv, VotingIInv, TypeOK, Requests, ReqOK, StoreShare
<1>2. chain[b][i] = [at |-> q.at, try |-> q.try, st |-> "sent"] /\ Awaited(q)
  <2>1. SentShare(q)
    BY DEF SpreadInv
  <2> QED
    BY <2>1 DEF SentShare, Awaited, StoreShare
<1>3. /\ chain' = [chain EXCEPT ![b][i].st = "ok"]
      /\ rows' = rows \cup {row} /\ req' = req \ {q}
      /\ UNCHANGED <<votes, faults>> /\ q.kind = "share"
  BY <1>2 DEF StoreShare
<1> DEFINE x == [at |-> q.at, try |-> q.try, st |-> "ok"]
<1>4. [chain[b][i] EXCEPT !.st = "ok"] = x
  BY <1>2
<1> HIDE DEF x, b, i
<1>5. chain' = [chain EXCEPT ![b] = [chain[b] EXCEPT ![i] = x]]
  BY <1>1, <1>3, <1>4
<1>6. chain'[b] = [chain[b] EXCEPT ![i] = x]
      /\ \A d \in Ballots : d # b => chain'[d] = chain[d]
  BY <1>1, <1>5
<1>7. chain'[b][i] = x /\ \A j \in Shares : j # i => chain'[b][j] = chain[b][j]
  BY <1>1, <1>6
<1>8. row.b = b /\ row.i = i /\ row.at = q.at
  BY DEF RowOf
<1> HIDE DEF row
<1>9. KnownRow(row)'
  BY <1>7, <1>8 DEF KnownRow, x
<1>10. \A r \in rows' : r \in rows \/ KnownRow(r)'
  BY <1>3, <1>9
<1>11. req' \subseteq (req \ {q}) \cup {q} /\ ~(q \in req')
  BY <1>3
<1>12. \A d \in Ballots, j \in Shares :
         chain'[d][j] = chain[d][j] \/ (q.kind = "share" /\ d = q.b /\ j = q.i)
  BY <1>3, <1>6, <1>7 DEF b, i
<1> QED
  BY <1>3, <1>10, <1>11, <1>12, AnswerKeepsSpread

LEMMA StoreVoteSpread ==
    ASSUME Inv, SpreadInv, NEW q \in req, StoreVote(q)
    PROVE  SpreadInv'
<1>1. CASE Refused(q) /\ UNCHANGED votes
  BY <1>1, RefusedSpread DEF StoreVote
<1>2. CASE /\ votes' = votes \cup {q.b}
           /\ SendReceipt(q.b, req \ {q}) \/ req' = req \ {q}
           /\ UNCHANGED chain
  <2> SUFFICES ASSUME faults = 0 PROVE SpreadInv'
    BY DEF StoreVote, SpreadInv
  <2>1. Spread(q.b)
    BY DEF SpreadInv, StoreVote
  <2>2. \A p \in req' : p \in req \/ p.kind = "receipt"
    <3>1. \A k, b, i, t, n : Post(k, b, i, t, n).kind = k
      BY DEF Post
    <3>2. CASE SendReceipt(q.b, req \ {q})
      <4>1. PICK t : req' = (req \ {q}) \cup {Post("receipt", q.b, 0, t, 1)}
        BY <3>2 DEF SendReceipt
      <4> QED
        BY <3>1, <4>1
    <3> QED
      BY <1>2, <3>2
  <2> QED
    BY <1>2, <2>1, <2>2, OtherAnswerSpread DEF StoreVote
<1> QED
  BY <1>1, <1>2 DEF StoreVote

LEMMA SpreadStep ==
    ASSUME Inv, SpreadInv, [Next]_vars
    PROVE  SpreadInv'
<1>1. ASSUME NEW b \in Ballots, Press(b) \/ SendVote(b)
      PROVE  SpreadInv'
  BY <1>1, PressSpread, SendVoteSpread
<1>2. ASSUME NEW q \in req, Check(q) \/ StoreShare(q) \/ StoreVote(q)
      PROVE  SpreadInv'
  BY <1>2, CheckSpread, StoreShareSpread, StoreVoteSpread
<1>3. ASSUME NEW q \in req, StoreReceipt(q)
      PROVE  SpreadInv'
  BY <1>3, PostKeepsSpread DEF StoreReceipt
<1>4. ASSUME NEW q \in req, Break(q)
      PROVE  SpreadInv'
  <2>1. faults \in Nat /\ faults' = faults + 1
    BY <1>4 DEF Inv, TypeOK, Break
  <2>2. faults' # 0
    BY <2>1
  <2> QED
    BY <2>2 DEF SpreadInv
<1>5. ASSUME \/ \E s \in Tellers \cup {Esp} : Close(s)
             \/ \E t \in Tellers : Count(t)
             \/ Dump \/ UNCHANGED vars
      PROVE  SpreadInv'
  <2>1. UNCHANGED <<chain, req, rows, votes, faults>>
    BY <1>5 DEF Close, Count, Dump, vars, pageVars, tableVars
  <2> QED
    BY <2>1, PostKeepsSpread
<1> QED
  BY <1>1, <1>2, <1>3, <1>4, <1>5 DEF Next, Step, Server

\* While no connection breaks no teller holds all shares of an accepted ballot.
THEOREM NoTellerEverHoldsAllShares == Spec => []NoTellerHoldsAllShares
<1>1. Init => Inv /\ SpreadInv
  BY InitInv DEF Init, SpreadInv
<1>2. Inv /\ SpreadInv /\ [Next]_vars => (Inv /\ SpreadInv)'
  BY StepInv, SpreadStep
<1>3. Inv /\ SpreadInv => NoTellerHoldsAllShares
  <2> SUFFICES ASSUME Inv, SpreadInv, faults = 0,
                      NEW b \in votes, NEW t \in Tellers
               PROVE  \E i \in Shares : ~\E r \in rows : r.b = b /\ r.at = t /\ r.i = i
    BY DEF NoTellerHoldsAllShares
  <2>1. PICK i \in Shares : chain[b][i].at # t
    BY DEF SpreadInv, Spread
  <2>2. \A r \in rows : chain[r.b][r.i].at = r.at
    BY DEF SpreadInv, KnownRow
  <2> QED
    BY <2>1, <2>2
<1> QED
  BY <1>1, <1>2, <1>3, PTL DEF Spec

(***************************************************************************)
(* Casting as a whole is the ballot box.  What that takes beyond the       *)
(* invariants above: a signed ballot never changes again, so the route it  *)
(* was accepted with is the one that is dumped; a ballot that is on its    *)
(* way to the ESP is signed and spread already; and nobody is told of a    *)
(* success but by the step that accepts the ballot.                        *)
(***************************************************************************)
Routed(b) ==
    /\ b \in Ballots /\ Signed(b)
    /\ \E i, j \in Shares : chain[b][i].at # chain[b][j].at

Told == {b \in Ballots : client[b].pc \in {"receipt", "done"}}

BoxInv ==
    /\ DrainedInv
    /\ file \subseteq votes
    /\ \A b \in votes : Routed(b)
    /\ \A q \in req : q.kind = "vote" => Routed(q.b)

\* What a step does that accepts no ballot: it changes no signed one, posts
\* only votes that are routed, and tells nobody.
Unheard ==
    /\ Calm
    /\ \A p \in req' : p.kind = "vote" =>
         \/ Routed(p.b)
         \/ \E q \in req : q.kind = "vote" /\ q.b = p.b
    /\ Told' = Told

\* The page moves b on, and no ballot starts or stops counting as told.
LEMMA GotoUntold ==
    ASSUME TypeOK, NEW b \in Ballots, NEW pc, Goto(b, pc),
           pc \in {"receipt", "done"} <=> client[b].pc \in {"receipt", "done"}
    PROVE  Told' = Told
<1>1. client \in [Ballots -> Works]
  BY DEF TypeOK
<1>2. client'[b].pc = pc /\ \A c \in Ballots : c # b => client'[c] = client[c]
  BY <1>1 DEF Goto, Works
<1>3. \A c \in Ballots :
        client'[c].pc \in {"receipt", "done"} <=> client[c].pc \in {"receipt", "done"}
  BY <1>2
<1> QED
  BY <1>3 DEF Told

\* A share that is not signed yet belongs to a ballot that is not signed.
LEMMA UnsignedMoves ==
    ASSUME NEW b \in Ballots, NEW i \in Shares, chain[b][i].st # "ok",
           \A c \in Ballots : c # b => chain'[c] = chain[c],
           UNCHANGED <<rows, votes>>
    PROVE  Calm
BY DEF Calm, Signed

LEMMA NextTellerUnheard ==
    ASSUME Inv, NEW b \in Ballots, NEW i \in Shares, chain[b][i].st = "sent",
           NEW left \in SUBSET req, NextTeller(b, i, left),
           UNCHANGED <<rows, votes>>
    PROVE  Unheard
<1>1. TypeOK /\ chain \in [Ballots -> [Shares -> ChainStates]]
  BY DEF Inv, TypeOK
<1>2. \A k, n, t : Post("share", k, n, t, 1).kind = "share"
  BY DEF Post
<1>3. Moves(b, i, left)
  BY <1>1, NextTellerMoves
<1>4. Calm
  BY <1>3, UnsignedMoves DEF Moves
<1>5. \A p \in req' : p \in left \/ p.kind # "vote"
  BY <1>2 DEF NextTeller
<1>6. Told' = Told
  <2>1. CASE client[b].pc = "shares" /\ Goto(b, "failed")
    BY <1>1, <2>1, GotoUntold
  <2>2. CASE UNCHANGED client
    BY <2>2 DEF Told
  <2> QED
    BY <2>1, <2>2 DEF NextTeller
<1> QED
  BY <1>4, <1>5, <1>6 DEF Unheard

LEMMA TryAgainUnheard ==
    ASSUME Inv, NEW b \in Ballots, NEW i \in Shares, chain[b][i].st = "sent",
           chain[b][i].at \in Tellers,
           NEW left \in SUBSET req, TryAgain(b, i, left),
           UNCHANGED <<rows, votes>>
    PROVE  Unheard
<1>1. CASE NextTeller(b, i, left)
  BY <1>1, NextTellerUnheard
<1>2. CASE /\ UNCHANGED client
           /\ \E t, n : req' = left \cup {Post("share", b, i, t, n)}
  <2>1. Moves(b, i, left)
    BY TryAgainMoves DEF Inv
  <2>2. Calm
    BY <2>1, UnsignedMoves DEF Moves
  <2>3. \A t, n : Post("share", b, i, t, n).kind = "share"
    BY DEF Post
  <2>4. \A p \in req' : p \in left \/ p.kind # "vote"
    BY <1>2, <2>3
  <2>5. Told' = Told
    BY <1>2 DEF Told
  <2> QED
    BY <2>2, <2>4, <2>5 DEF Unheard
<1> QED
  BY <1>1, <1>2 DEF TryAgain

LEMMA NextReceiverUnheard ==
    ASSUME Inv, NEW b \in Ballots, client[b].pc = "receipt",
           NEW left \in SUBSET req, NextReceiver(b, left),
           UNCHANGED <<chain, rows, votes>>
    PROVE  Unheard
<1>1. TypeOK /\ client \in [Ballots -> Works]
  BY DEF Inv, TypeOK
<1>2. Calm
  BY DEF Calm
<1>3. \A t : Post("receipt", b, 0, t, 1).kind = "receipt"
  BY DEF Post
<1>4. \A p \in req' : p \in left \/ p.kind # "vote"
  BY <1>3 DEF NextReceiver
<1>5. Told' = Told
  <2>1. CASE Goto(b, "done")
    BY <1>1, <2>1, GotoUntold
  <2>2. ASSUME NEW t, client' = [client EXCEPT ![b].at = t]
        PROVE  Told' = Told
    <3>1. \A c \in Ballots : client'[c].pc = client[c].pc
      BY <1>1, <2>2 DEF Works
    <3> QED
      BY <3>1 DEF Told
  <2> QED
    BY <2>1, <2>2 DEF NextReceiver
<1> QED
  BY <1>2, <1>4, <1>5 DEF Unheard

LEMMA RefusedUnheard ==
    ASSUME Inv, NEW q \in req, Refused(q), UNCHANGED <<rows, votes>>
    PROVE  Unheard
<1>1. TypeOK /\ q.b \in Ballots /\ ReqOK(q) /\ req \ {q} \in SUBSET req
  BY DEF Inv, VotingIInv, TypeOK, Requests
<1>2. CASE req' = req \ {q} /\ UNCHANGED pageVars
  BY <1>2 DEF Unheard, Calm, Told, pageVars
<1>3. CASE Awaited(q) /\ q.kind = "share" /\ NextTeller(q.b, q.i, req \ {q})
  <2>1. q.i \in Shares /\ chain[q.b][q.i].st = "sent"
    BY <1>1, <1>3 DEF ReqOK, Awaited
  <2> QED
    BY <1>1, <1>3, <2>1, NextTellerUnheard
<1>4. CASE /\ Awaited(q) /\ q.kind = "vote"
           /\ Goto(q.b, "failed") /\ req' = req \ {q} /\ UNCHANGED chain
  <2>1. client[q.b].pc = "vote"
    BY <1>4 DEF Awaited
  <2>2. Told' = Told
    BY <1>1, <1>4, <2>1, GotoUntold
  <2> QED
    BY <1>4, <2>2 DEF Unheard, Calm
<1>5. CASE /\ Awaited(q) /\ q.kind = "receipt"
           /\ NextReceiver(q.b, req \ {q}) /\ UNCHANGED chain
  <2>1. client[q.b].pc = "receipt"
    BY <1>5 DEF Awaited
  <2> QED
    BY <1>1, <1>5, <2>1, NextReceiverUnheard
<1> QED
  BY <1>2, <1>3, <1>4, <1>5 DEF Refused

LEMMA BreakUnheard ==
    ASSUME Inv, NEW q \in req, Break(q)
    PROVE  Unheard
<1>1. TypeOK /\ q.b \in Ballots /\ ReqOK(q)
  BY DEF Inv, VotingIInv, TypeOK, Requests
<1>2. PICK left \in {req, req \ {q}} :
         \/ /\ q.kind = "share"
            /\ TryAgain(q.b, q.i, left)
         \/ /\ q.kind = "vote"
            /\ Goto(q.b, "failed") /\ req' = left /\ UNCHANGED chain
         \/ /\ q.kind = "receipt"
            /\ NextReceiver(q.b, left) /\ UNCHANGED chain
  BY DEF Break
<1>3. left \in SUBSET req /\ Awaited(q) /\ UNCHANGED <<rows, votes>>
  BY <1>2 DEF Break, tableVars
<1>4. CASE q.kind = "share" /\ TryAgain(q.b, q.i, left)
  <2>1. q.i \in Shares /\ q.at \in Tellers
    BY <1>1, <1>4 DEF ReqOK
  <2>2. chain[q.b][q.i].st = "sent" /\ chain[q.b][q.i].at \in Tellers
    BY <1>3, <1>4, <2>1 DEF Awaited
  <2> QED
    BY <1>1, <1>3, <1>4, <2>1, <2>2, TryAgainUnheard
<1>5. CASE /\ q.kind = "vote"
           /\ Goto(q.b, "failed") /\ req' = left /\ UNCHANGED chain
  <2>1. client[q.b].pc = "vote"
    BY <1>3, <1>5 DEF Awaited
  <2>2. Told' = Told
    BY <1>1, <1>5, <2>1, GotoUntold
  <2> QED
    BY <1>3, <1>5, <2>2 DEF Unheard, Calm
<1>6. CASE q.kind = "receipt" /\ NextReceiver(q.b, left) /\ UNCHANGED chain
  <2>1. client[q.b].pc = "receipt"
    BY <1>3, <1>6 DEF Awaited
  <2> QED
    BY <1>1, <1>3, <1>6, <2>1, NextReceiverUnheard
<1> QED
  BY <1>2, <1>4, <1>5, <1>6

LEMMA PressUnheard ==
    ASSUME Inv, NEW b \in Ballots, Press(b)
    PROVE  Unheard
<1>1. TypeOK /\ chain \in [Ballots -> [Shares -> ChainStates]]
      /\ \A i \in Shares : chain[b][i].st = "none"
  BY DEF Inv, VotingIInv, IdleFresh, TypeOK, Press
<1>2. \A c \in Ballots : c # b => chain'[c] = chain[c]
  BY <1>1 DEF Press
<1>3. Calm
  BY <1>1, <1>2, SharesExist, UnsignedMoves DEF Press, tableVars
<1>4. \A i : Post("share", b, i, i, 1).kind = "share"
  BY DEF Post
<1>5. \A p \in req' : p \in req \/ p.kind # "vote"
  BY <1>4 DEF Press
<1>6. Told' = Told
  BY <1>1, GotoUntold DEF Press
<1> QED
  BY <1>3, <1>5, <1>6 DEF Unheard

LEMMA SendVoteUnheard ==
    ASSUME Inv, NEW b \in Ballots, SendVote(b)
    PROVE  Unheard
<1>1. TypeOK /\ SharesStored
  BY DEF Inv, VotingIInv
<1>2. Calm
  BY DEF SendVote, Calm, tableVars
<1>3. Told' = Told
  BY <1>1, GotoUntold DEF SendVote
<1>4. ASSUME Cardinality(Avail(b)) > 1
      PROVE  Routed(b)
  <2>1. Signed(b)
    BY DEF SendVote, Signed
  <2>2. SUFFICES ASSUME \A i, j \in Shares : chain[b][i].at = chain[b][j].at
                 PROVE  FALSE
    BY <2>1 DEF Routed
  <2> DEFINE t == chain[b][1].at
  <2>3. \A z \in Zs(b) : z.at = t
    BY <2>2, SharesExist DEF Zs, RowOf
  <2>4. Avail(b) # {}
    BY <1>1, <2>1, AvailTellers
  <2> HIDE DEF t
  <2>5. Avail(b) = {t}
    BY <2>3, <2>4 DEF Avail
  <2>6. Cardinality(Avail(b)) = 1
    BY <2>5, FS_Singleton
  <2> QED
    BY <1>4, <2>6
<1>5. \A p \in req' : p \in req \/ (p = Post("vote", b, 0, Esp, 1) /\ Routed(b))
  BY <1>4 DEF SendVote
<1>6. \A p \in req' : p \in req \/ Routed(p.b)
  BY <1>5 DEF Post
<1> QED
  BY <1>2, <1>3, <1>6 DEF Unheard

LEMMA CheckUnheard ==
    ASSUME Inv, NEW q \in req, Check(q)
    PROVE  Unheard
<1>1. CASE Refused(q)
  BY <1>1, RefusedUnheard DEF Check, tableVars
<1>2. CASE /\ req' = (req \ {q}) \cup {[q EXCEPT !.checked = TRUE]}
           /\ UNCHANGED pageVars
  <2> DEFINE c == [q EXCEPT !.checked = TRUE]
  <2>1. c.kind = q.kind /\ c.b = q.b
    BY DEF Inv, TypeOK, Requests
  <2> HIDE DEF c
  <2>2. \A p \in req' : p \in req \/ p = c
    BY <1>2 DEF c
  <2> QED
    BY <1>2, <2>1, <2>2 DEF Check, Unheard, Calm, Told, pageVars, tableVars
<1> QED
  BY <1>1, <1>2 DEF Check

LEMMA StoreShareUnheard ==
    ASSUME Inv, NEW q \in req, StoreShare(q)
    PROVE  Unheard
<1>1. /\ q.b \in Ballots /\ q.i \in Shares /\ q.kind = "share"
      /\ chain \in [Ballots -> [Shares -> ChainStates]]
  BY DEF Inv, VotingIInv, TypeOK, Requests, ReqOK, StoreShare
<1>2. Calm
  <2>1. CASE Awaited(q) /\ chain' = [chain EXCEPT ![q.b][q.i].st = "ok"]
    <3>1. chain[q.b][q.i].st = "sent"
      BY <1>1, <2>1 DEF Awaited
    <3>2. \A c \in Ballots : c # q.b => chain'[c] = chain[c]
      BY <1>1, <2>1
    <3> QED
      BY <1>1, <3>1, <3>2 DEF StoreShare, Calm, Signed
  <2>2. CASE chain' = chain
    BY <2>2 DEF StoreShare, Calm
  <2> QED
    BY <2>1, <2>2 DEF StoreShare
<1> QED
  BY <1>2 DEF StoreShare, Unheard, Told

LEMMA StoreReceiptUnheard ==
    ASSUME Inv, NEW q \in req, StoreReceipt(q)
    PROVE  Unheard
<1>1. TypeOK /\ q.b \in Ballots /\ q.kind = "receipt"
  BY DEF Inv, TypeOK, Requests, StoreReceipt
<1>2. Told' = Told
  <2>1. CASE Awaited(q) /\ Goto(q.b, "done")
    <3>1. client[q.b].pc = "receipt"
      BY <1>1, <2>1 DEF Awaited
    <3> QED
      BY <1>1, <2>1, <3>1, GotoUntold
  <2>2. CASE UNCHANGED client
    BY <2>2 DEF Told
  <2> QED
    BY <2>1, <2>2 DEF StoreReceipt
<1> QED
  BY <1>2 DEF StoreReceipt, Unheard, Calm

\* Every step but the one that accepts a ballot, closing and counting too.
LEMMA StepUnheard ==
    ASSUME Inv, [Next]_vars,
           ~\E q \in req : StoreVote(q) /\ ~HasVoted(q.b[1])
    PROVE  Unheard
<1>1. ASSUME NEW b \in Ballots, Press(b) \/ SendVote(b)
      PROVE  Unheard
  BY <1>1, PressUnheard, SendVoteUnheard
<1>2. ASSUME NEW q \in req, Check(q) \/ StoreShare(q) \/ StoreReceipt(q) \/ Break(q)
      PROVE  Unheard
  BY <1>2, CheckUnheard, StoreShareUnheard, StoreReceiptUnheard, BreakUnheard
<1>3. ASSUME NEW q \in req, StoreVote(q)
      PROVE  Unheard
  BY <1>3, RefusedUnheard DEF StoreVote
<1>4. ASSUME \/ \E s \in Tellers \cup {Esp} : Close(s)
             \/ \E t \in Tellers : Count(t)
             \/ Dump \/ UNCHANGED vars
      PROVE  Unheard
  <2>1. UNCHANGED <<chain, client, req, rows, votes>>
    BY <1>4 DEF Close, Count, Dump, vars, pageVars, tableVars
  <2> QED
    BY <2>1 DEF Unheard, Calm, Told
<1> QED
  BY <1>1, <1>2, <1>3, <1>4 DEF Next, Step, Server

LEMMA CalmRouted ==
    ASSUME Calm, NEW b, Routed(b)
    PROVE  Routed(b)' /\ Boxed(b)' = Boxed(b)
<1>1. chain'[b] = chain[b]
  BY DEF Calm, Routed
<1> QED
  BY <1>1 DEF Routed, Signed, Boxed

(***************************************************************************)
(* The step that accepts a ballot.                                         *)
(***************************************************************************)
LEMMA Accepting ==
    ASSUME BoxInv, NEW q \in req, StoreVote(q), ~HasVoted(q.b[1])
    PROVE  /\ Routed(q.b) /\ ~dumped
           /\ votes' = votes \cup {q.b}
           /\ UNCHANGED <<chain, rows, receipts, countVars>>
           /\ Told' = Told \/ Told' = Told \cup {q.b}
           /\ \A p \in req' : p.kind = "vote" => p \in req
<1>1. Routed(q.b) /\ ~dumped
  BY DEF BoxInv, DrainedInv, DumpedLast, StoreVote
<1>2. /\ votes' = votes \cup {q.b}
      /\ UNCHANGED <<chain, rows, receipts, countVars>>
      /\ SendReceipt(q.b, req \ {q}) \/ (req' = req \ {q} /\ UNCHANGED client)
  BY DEF StoreVote
<1>3. CASE SendReceipt(q.b, req \ {q})
  <2>1. PICK t : /\ client' = [client EXCEPT ![q.b] =
                                 [pc |-> "receipt", first |-> t, at |-> t]]
                 /\ req' = (req \ {q}) \cup {Post("receipt", q.b, 0, t, 1)}
    BY <1>3 DEF SendReceipt
  <2>2. client \in [Ballots -> Works] /\ q.b \in Ballots
    BY <1>1 DEF BoxInv, DrainedInv, Inv, TypeOK, Routed
  <2>3. client'[q.b].pc = "receipt"
        /\ \A c \in Ballots : c # q.b => client'[c] = client[c]
    BY <2>1, <2>2
  <2>4. Told' = Told \cup {q.b}
    BY <2>2, <2>3 DEF Told
  <2>5. Post("receipt", q.b, 0, t, 1).kind = "receipt"
    BY DEF Post
  <2> QED
    BY <1>1, <1>2, <2>1, <2>4, <2>5
<1>4. CASE req' = req \ {q} /\ UNCHANGED client
  BY <1>1, <1>2, <1>4 DEF Told
<1> QED
  BY <1>2, <1>3, <1>4

LEMMA BoxStep ==
    ASSUME BoxInv, [DrainedNext]_vars
    PROVE  BoxInv'
<1>1. [Next]_vars /\ Inv /\ DumpedLast /\ NoneExcluded
  BY DEF DrainedNext, Next, BoxInv, DrainedInv
<1>2. DrainedInv'
  BY <1>1, StepInv, DumpedLastStep, NoneExcludedStep DEF DrainedInv
<1>3. /\ Calm
      /\ \A b \in votes' : b \in votes \/ Routed(b)
      /\ \A p \in req' : p.kind = "vote" =>
           \/ Routed(p.b)
           \/ \E q \in req : q.kind = "vote" /\ q.b = p.b
  <2>1. ASSUME NEW q \in req, StoreVote(q), ~HasVoted(q.b[1])
        PROVE  <1>3!1 /\ <1>3!2 /\ <1>3!3
    <3>1. Calm
      BY <2>1, Accepting DEF Calm
    <3> QED
      BY <2>1, <3>1, Accepting
  <2>2. ASSUME ~\E q \in req : StoreVote(q) /\ ~HasVoted(q.b[1])
        PROVE  <1>3!1 /\ <1>3!2 /\ <1>3!3
    <3>1. Unheard
      BY <1>1, <2>2, StepUnheard
    <3>2. votes' = votes
      BY <1>1, <2>2 DEF Next, Step, Server, Press, SendVote, Check, StoreShare,
         StoreVote, StoreReceipt, Break, Close, Count, Dump, vars, tableVars
    <3> QED
      BY <3>1, <3>2 DEF Unheard
  <2> QED
    BY <2>1, <2>2
<1>4. (\A b \in votes : Routed(b)) /\ \A q \in req : q.kind = "vote" => Routed(q.b)
  BY DEF BoxInv
<1>5. \A b \in votes' : Routed(b)'
  BY <1>3, <1>4, CalmRouted
<1>6. \A p \in req' : p.kind = "vote" => Routed(p.b)'
  BY <1>3, <1>4, CalmRouted
<1>7. file' \subseteq votes'
  <2>1. file' = file \/ (file' = votes /\ votes' = votes)
    BY <1>1 DEF Next, Step, Server, Press, SendVote, Check, StoreShare,
       StoreVote, StoreReceipt, Break, Close, Count, Dump, vars, tableVars, countVars
  <2> QED
    BY <1>3, <2>1 DEF Calm, BoxInv
<1> QED
  BY <1>2, <1>5, <1>6, <1>7 DEF BoxInv

LEMMA BoxInvHolds == DrainedSpec => []BoxInv
<1>1. Init => BoxInv
  BY InitInv DEF Init, BoxInv, DrainedInv, DumpedLast, NoneExcluded
<1>2. BoxInv /\ [DrainedNext]_vars => BoxInv'
  BY BoxStep
<1> QED
  BY <1>1, <1>2, PTL DEF DrainedSpec

(***************************************************************************)
(* The steps of the ballot box.                                            *)
(***************************************************************************)
Box(S) == {Boxed(b) : b \in S}
Kept == {[id |-> r.b, at |-> r.at] : r \in receipts}

LEMMA BoxVars ==
    /\ Abs!bvars = <<Box(votes), Told, Kept, Box(file), dumped, tally>>
    /\ Abs!bvars' = <<Box(votes), Told, Kept, Box(file), dumped, tally>>'
BY DEF Abs!bvars, Box, Told, Kept

\* The accepted ballots, those that were dumped too, are as they were.
LEMMA BoxStays ==
    ASSUME BoxInv, Calm, NEW S \in SUBSET votes
    PROVE  {Boxed(b)' : b \in S} = Box(S)
<1>1. \A b \in S : Boxed(b)' = Boxed(b)
  BY CalmRouted DEF BoxInv
<1> QED
  BY <1>1 DEF Box

LEMMA Stutters ==
    ASSUME BoxInv, Unheard, UNCHANGED <<votes, receipts, file, dumped, tally>>
    PROVE  UNCHANGED Abs!bvars
<1>1. Calm /\ Told' = Told
  BY DEF Unheard
<1>2. Box(votes)' = Box(votes) /\ Box(file)' = Box(file)
  <2>1. {Boxed(b)' : b \in votes} = Box(votes)
        /\ {Boxed(b)' : b \in file} = Box(file)
    BY <1>1, BoxStays DEF BoxInv
  <2> QED
    BY <2>1 DEF Box
<1>3. Kept' = Kept
  BY DEF Kept
<1> QED
  BY <1>1, <1>2, <1>3, BoxVars

LEMMA AcceptsInBox ==
    ASSUME BoxInv, NEW q \in req, StoreVote(q), ~HasVoted(q.b[1])
    PROVE  Abs!Next
<1> DEFINE b == q.b
<1>1. /\ Routed(b) /\ ~dumped /\ votes' = votes \cup {b}
      /\ UNCHANGED <<chain, rows, receipts, countVars>>
      /\ Told' = Told \/ Told' = Told \cup {b}
  BY Accepting
<1>2. PICK route \in [Shares -> Tellers] : Boxed(b) = [id |-> b, route |-> route]
  <2>1. \A i \in Shares : chain[b][i].at \in Tellers
    BY <1>1, AvailTellers DEF BoxInv, DrainedInv, Inv, VotingIInv, Routed
  <2>2. [i \in Shares |-> chain[b][i].at] \in [Shares -> Tellers]
    BY <2>1
  <2> QED
    BY <2>2 DEF Boxed
<1>3. Abs!Spread(route)
  <2>1. route = [i \in Shares |-> chain[b][i].at]
    BY <1>2 DEF Boxed
  <2> QED
    BY <1>1, <2>1 DEF Abs!Spread, Routed
<1>4. \A x \in Box(votes) : x.id[1] # b[1]
  BY DEF Box, Boxed, HasVoted
<1>5. \A c : Boxed(c)' = Boxed(c)
  BY <1>1 DEF Boxed
<1>6. Box(votes)' = Box(votes) \cup {Boxed(b)} /\ Box(file)' = Box(file)
  <2>1. Box(votes)' = {Boxed(c)' : c \in votes'}
        /\ Box(file)' = {Boxed(c)' : c \in file'}
    BY DEF Box
  <2> QED
    BY <1>1, <1>5, <2>1 DEF Box, countVars
<1>7. UNCHANGED <<Kept, Box(file), dumped, tally>>
  BY <1>1, <1>6 DEF Kept, countVars
<1>8. b \in Ballots
  BY <1>1 DEF Routed
<1> HIDE DEF b
<1>9. Abs!Accept(b, route)
  BY <1>1, <1>2, <1>3, <1>4, <1>6, <1>7 DEF Abs!Accept, Box, Told, Kept
<1> QED
  BY <1>8, <1>9 DEF Abs!Next, b

LEMMA KeepsReceipt ==
    ASSUME BoxInv, NEW q \in req, StoreReceipt(q)
    PROVE  Abs!Next
<1> DEFINE b == q.b
           row == KeptRow(b, q.at)
<1>1. Inv /\ Unheard /\ b \in votes /\ q.at \in Avail(b)
  BY StoreReceiptUnheard DEF BoxInv, DrainedInv, Inv, VotingIInv, ReqOK, StoreReceipt
<1>2. row \in Zs(b) /\ row.at = q.at /\ row.b = b
  BY <1>1, KeptIsSigned
<1> HIDE DEF row
<1>3. PICK i \in Shares : chain[b][i].at = q.at
  BY <1>2 DEF Zs, RowOf
<1>4. Boxed(b).id = b /\ Boxed(b).route[i] = q.at
  BY <1>3 DEF Boxed
<1>5. receipts' = receipts \cup {row} /\ UNCHANGED <<chain, votes, countVars>>
  BY DEF StoreReceipt, row
<1>6. Kept' = Kept \cup {[id |-> Boxed(b).id, at |-> Boxed(b).route[i]]}
  BY <1>2, <1>4, <1>5 DEF Kept
<1>7. UNCHANGED <<Box(votes), Told, Box(file), dumped, tally>>
  BY <1>1, <1>5 DEF Unheard, Box, Boxed, countVars
<1>8. Abs!Keep(Boxed(b), i)
  BY <1>6, <1>7 DEF Abs!Keep, Box, Told, Kept
<1>9. Boxed(b) \in {Boxed(c) : c \in votes}
  BY <1>1
<1> QED
  BY <1>8, <1>9 DEF Abs!Next

LEMMA CountsAll ==
    ASSUME BoxInv, NEW t \in Tellers, Count(t)
    PROVE  Abs!Next
<1>1. /\ dumped /\ file = votes
      /\ UNCHANGED <<chain, client, rows, receipts, votes, file, dumped>>
  BY DEF Count, BoxInv, DrainedInv, DumpedLast, pageVars, tableVars
<1>2. Listed(t) \subseteq rows
  <2>1. \A b \in votes : Zs(b) \subseteq rows
    BY AvailTellers DEF BoxInv, Routed, DrainedInv, Inv, VotingIInv
  <2> QED
    BY <1>1, <2>1 DEF Listed
<1>3. \A r \in receipts : r.at = t => r \in Listed(t)
  BY <1>1 DEF Listed, BoxInv, DrainedInv, Inv, VotingIInv, ReceiptsAreOfAccepted
<1>4. tally' = [tally EXCEPT ![t] = "done"]
  BY <1>2, <1>3 DEF Count
<1>5. UNCHANGED <<Box(votes), Told, Kept, Box(file), dumped>>
  BY <1>1 DEF Box, Boxed, Told, Kept
<1>6. Abs!Count(t)
  BY <1>1, <1>4, <1>5 DEF Abs!Count, Box, Told, Kept
<1> QED
  BY <1>6 DEF Abs!Next

LEMMA DumpsBox ==
    ASSUME Dump
    PROVE  Abs!Next
<1>1. /\ ~dumped /\ dumped' = TRUE /\ file' = votes
      /\ UNCHANGED <<chain, client, rows, receipts, votes, tally>>
  BY DEF Dump, pageVars, tableVars
<1>2. Box(file)' = Box(votes) /\ UNCHANGED <<Box(votes), Told, Kept, tally>>
  BY <1>1 DEF Box, Boxed, Told, Kept
<1>3. Abs!Dump
  BY <1>1, <1>2 DEF Abs!Dump, Box, Told, Kept
<1> QED
  BY <1>3 DEF Abs!Next

\* Every other step changes nothing that the ballot box shows.
LEMMA BoxSteps ==
    ASSUME BoxInv, [DrainedNext]_vars
    PROVE  [Abs!Next]_Abs!bvars
<1>1. Inv /\ [Next]_vars
  BY DEF BoxInv, DrainedInv, DrainedNext, Next
<1>2. CASE \E q \in req : StoreVote(q) /\ ~HasVoted(q.b[1])
  BY <1>2, AcceptsInBox
<1>3. CASE \E q \in req : StoreReceipt(q)
  BY <1>3, KeepsReceipt
<1>4. CASE \E t \in Tellers : Count(t)
  BY <1>4, CountsAll
<1>5. CASE Dump
  BY <1>5, DumpsBox
<1>6. ASSUME ~\E q \in req : StoreVote(q) /\ ~HasVoted(q.b[1]),
             ~\E q \in req : StoreReceipt(q),
             ~\E t \in Tellers : Count(t), ~Dump
      PROVE  UNCHANGED Abs!bvars
  <2>1. Unheard
    BY <1>1, <1>6, StepUnheard
  <2>2. UNCHANGED <<votes, receipts, file, dumped, tally>>
    BY <1>1, <1>6 DEF Next, Step, Server, Press, SendVote, Check, StoreShare,
       StoreVote, Break, Close, vars, tableVars, countVars
  <2> QED
    BY <2>1, <2>2, Stutters
<1> QED
  BY <1>2, <1>3, <1>4, <1>5, <1>6

\* Casting, closing and counting implement the ballot box: one ballot of each
\* voter, spread and never changed; success and receipts for those only; a
\* dump of all of them; counts that succeed.
THEOREM RefinesBallotBox == DrainedSpec => ImplementsBallotBox
<1>1. Init => Abs!Init
  BY DEF Init, Abs!Init, NoWork
<1>2. BoxInv /\ [DrainedNext]_vars => [Abs!Next]_Abs!bvars
  BY BoxSteps
<1> QED
  BY <1>1, <1>2, BoxInvHolds, PTL DEF DrainedSpec, ImplementsBallotBox, Abs!Spec
=============================================================================
