------------------------- MODULE VoterRegistry_proofs -------------------------
(***************************************************************************)
(* Proofs about VoterRegistry, for any voters, batches, page size and      *)
(* number of overlapping requests.                                         *)
(***************************************************************************)
EXTENDS VoterRegistry, Folding_proofs

(***************************************************************************)
(* A row belongs to one open transaction or is committed, and so does a    *)
(* rid: what a transaction adds to voter_count it adds to the rows.        *)
(***************************************************************************)
OneOwner ==
    \A c \in Calls, v \in Voters : call[c].own[v] # NoRow =>
        /\ rid[v] = NoRow
        /\ \A d \in Calls : d # c => call[d].own[v] = NoRow

FreshRids ==
    /\ \A c \in Calls : RidsOf(call[c].own) \cap RidsOf(rid) = {}
    /\ \A c, d \in Calls :
         c # d => RidsOf(call[c].own) \cap RidsOf(call[d].own) = {}

\* As much of TypeOK as the rows need: nothing is said of the lists read.
IsRow(r) ==
    r \in [pc : {r.pc}, op : {r.op}, batch : {r.batch}, own : {r.own},
           last : {r.last}, list : {r.list}, count : {r.count},
           covers : {r.covers}]

Shaped == /\ call = [c \in Calls |-> call[c]]
          /\ \A c \in Calls : IsRow(call[c])

RowsOK ==
    /\ rid \in RowSets
    /\ \A c \in Calls : /\ call[c].own \in RowSets
                        /\ call[c].batch \in Seq(Voters)
                        /\ call[c].pc = "insert" => call[c].op \in Loads

RowsInv == /\ Shaped
           /\ RowsOK
           /\ OneOwner
           /\ FreshRids
           /\ VoterCountExact

(***************************************************************************)
(* The rids of a set of rows are finitely many.                            *)
(***************************************************************************)
LEMMA RidsFinite ==
    ASSUME NEW rows \in RowSets
    PROVE  RidsOf(rows) \subseteq 1 .. MaxRid /\ IsFiniteSet(RidsOf(rows))
<1>1. RidsOf(rows) \subseteq 1 .. MaxRid
  BY BoundsAssumption DEF RowSets, RidsOf, NoRow
<1>2. IsFiniteSet(1 .. MaxRid)
  BY BoundsAssumption, FS_Interval
<1> QED
  BY <1>1, <1>2, FS_Subset

LEMMA NoRowsHaveNoRid == NoRows \in RowSets /\ RidsOf(NoRows) = {}
BY BoundsAssumption DEF NoRows, RowSets, RidsOf, NoRow

LEMMA IdleRow ==
    /\ IsRow(Idle) /\ Idle.pc = "idle" /\ Idle.own = NoRows
    /\ Idle.batch \in Seq(Voters)
<1>1. <<>> \in Seq(Voters)
  OBVIOUS
<1> QED
  BY <1>1 DEF Idle, IsRow

LEMMA InitRows == Init => RowsInv
<1> SUFFICES ASSUME Init PROVE RowsInv
  OBVIOUS
<1>1. \A c \in Calls : call[c] = Idle
  BY DEF Init
<1>2. Shaped
  BY <1>1, IdleRow DEF Init, Shaped
<1>3. RowsOK
  BY <1>1, NoRowsHaveNoRid, IdleRow DEF Init, RowsOK
<1>4. OneOwner
  BY <1>1, IdleRow DEF OneOwner, NoRows, NoRow
<1>5. FreshRids
  BY <1>1, NoRowsHaveNoRid, IdleRow DEF FreshRids
<1>6. VoterCountExact
  BY NoRowsHaveNoRid, FS_EmptySet DEF Init, VoterCountExact
<1> QED
  BY <1>2, <1>3, <1>4, <1>5, <1>6 DEF RowsInv

(***************************************************************************)
(* What a step makes of its slot, and that it leaves the others alone.     *)
(***************************************************************************)
LEMMA EndEffect ==
    ASSUME Shaped, NEW c \in Calls, End(c)
    PROVE  /\ Shaped'
           /\ call'[c] = Idle
           /\ \A d \in Calls : d # c => call'[d] = call[d]
BY IdleRow DEF Shaped, End

LEMMA RowEffect ==
    ASSUME Shaped, NEW c \in Calls, NEW r, IsRow(r),
           call' = [call EXCEPT ![c] = r]
    PROVE  /\ Shaped'
           /\ call'[c] = r
           /\ \A d \in Calls : d # c => call'[d] = call[d]
BY DEF Shaped

(***************************************************************************)
(* A step that neither commits nor inserts: rows are kept or rolled back.  *)
(***************************************************************************)
LEMMA RowsKept ==
    ASSUME RowsInv, UNCHANGED <<rid, count>>, Shaped',
           \A d \in Calls :
             /\ call'[d].own \in {call[d].own, NoRows}
             /\ call'[d].batch \in Seq(Voters)
             /\ call'[d].pc = "insert" => call'[d].op \in Loads
    PROVE  RowsInv'
<1>1. RowsOK'
  BY NoRowsHaveNoRid DEF RowsInv, RowsOK
<1>2. OneOwner'
  BY DEF RowsInv, OneOwner, NoRows
<1>3. \A d \in Calls : RidsOf(call'[d].own) \subseteq RidsOf(call[d].own)
  BY NoRowsHaveNoRid
<1>4. FreshRids'
  <2>1. RidsOf(rid') = RidsOf(rid)
    OBVIOUS
  <2>2. (RidsOf(rid))' = RidsOf(rid')
        /\ \A d \in Calls : (RidsOf(call[d].own))' = RidsOf(call'[d].own)
    BY DEF RidsOf
  <2> QED
    BY <1>3, <2>1, <2>2 DEF RowsInv, FreshRids
<1>5. VoterCountExact'
  BY DEF RowsInv, VoterCountExact, RidsOf
<1> QED
  BY <1>1, <1>2, <1>4, <1>5 DEF RowsInv

LEMMA UpdateStep ==
    ASSUME RowsInv, NEW c \in Calls, NEW r, IsRow(r),
           call' = [call EXCEPT ![c] = r], r.own = call[c].own,
           r.batch \in Seq(Voters), r.pc = "insert" => r.op \in Loads,
           UNCHANGED <<rid, count>>
    PROVE  RowsInv'
<1>1. Shaped' /\ call'[c] = r
      /\ \A d \in Calls : d # c => call'[d] = call[d]
  BY RowEffect DEF RowsInv
<1>2. \A d \in Calls :
        /\ call'[d].own \in {call[d].own, NoRows}
        /\ call'[d].batch \in Seq(Voters)
        /\ call'[d].pc = "insert" => call'[d].op \in Loads
  BY <1>1 DEF RowsInv, RowsOK
<1> QED
  BY <1>1, <1>2, RowsKept

LEMMA EndStep ==
    ASSUME RowsInv, NEW c \in Calls, End(c), UNCHANGED <<rid, count>>
    PROVE  RowsInv'
<1>1. Shaped' /\ call'[c] = Idle
      /\ \A d \in Calls : d # c => call'[d] = call[d]
  BY EndEffect DEF RowsInv
<1>2. \A d \in Calls :
        /\ call'[d].own \in {call[d].own, NoRows}
        /\ call'[d].batch \in Seq(Voters)
        /\ call'[d].pc = "insert" => call'[d].op \in Loads
  BY <1>1, IdleRow DEF RowsInv, RowsOK
<1> QED
  BY <1>1, <1>2, RowsKept

LEMMA RequestStep ==
    ASSUME RowsInv, NEW c \in Calls, Request(c)
    PROVE  RowsInv'
<1>1. UNCHANGED <<rid, count>>
  BY DEF Request, RegStart, ScanStart, OpenRead, listVars
<1>2. IsRow(call[c]) /\ Shaped
  BY DEF RowsInv, Shaped
<1>3. \E r : /\ IsRow(r) /\ call' = [call EXCEPT ![c] = r]
             /\ r.own = call[c].own /\ r.batch \in Seq(Voters)
             /\ r.pc = "insert" => r.op \in Loads
  <2>1. CASE RegStart(c)
    <3>1. PICK b \in Batches, op \in Loads :
            call' = [call EXCEPT ![c].pc = "insert", ![c].op = op, ![c].batch = b]
      BY <2>1 DEF RegStart
    <3>2. b \in Seq(Voters)
      BY BatchesAssumption
    <3> DEFINE r == [call[c] EXCEPT !.pc = "insert", !.op = op, !.batch = b]
    <3>3. /\ IsRow(r) /\ r.own = call[c].own /\ r.batch = b /\ r.op = op
      BY <1>2 DEF IsRow
    <3>4. call' = [call EXCEPT ![c] = r]
      BY <3>1
    <3> HIDE DEF r
    <3> QED
      BY <3>2, <3>3, <3>4
  <2>2. CASE ScanStart(c)
    <3> DEFINE op == IF signed THEN "dump" ELSE "freeze"
               r == [call[c] EXCEPT !.pc = "scan", !.op = op]
    <3>1. call' = [call EXCEPT ![c] = r]
      BY <2>2 DEF ScanStart
    <3>2. /\ IsRow(r) /\ r.own = call[c].own /\ r.batch = call[c].batch
          /\ r.pc = "scan"
      BY <1>2 DEF IsRow
    <3>3. call[c].batch \in Seq(Voters)
      BY DEF RowsInv, RowsOK
    <3> HIDE DEF r
    <3> QED
      BY <3>1, <3>2, <3>3
  <2>3. CASE OpenRead(c)
    <3> DEFINE covers == IF openSign = NoCount THEN count ELSE openSign
               r == [call[c] EXCEPT !.pc = "open", !.count = count,
                                    !.covers = covers]
    <3>1. call' = [call EXCEPT ![c] = r]
      BY <2>3 DEF OpenRead
    <3>2. /\ IsRow(r) /\ r.own = call[c].own /\ r.batch = call[c].batch
          /\ r.pc = "open"
      BY <1>2 DEF IsRow
    <3>3. call[c].batch \in Seq(Voters)
      BY DEF RowsInv, RowsOK
    <3> HIDE DEF r
    <3> QED
      BY <3>1, <3>2, <3>3
  <2> QED
    BY <2>1, <2>2, <2>3 DEF Request
<1> QED
  BY <1>1, <1>2, <1>3, UpdateStep

(***************************************************************************)
(* An INSERT adds a row that is nobody's, with a rid that is nobody's.     *)
(***************************************************************************)
LEMMA InsertStep ==
    ASSUME RowsInv, NEW c \in Calls, Insert(c)
    PROVE  RowsInv'
<1> DEFINE v == Head(call[c].batch)
           taken == RidsOf(rid) \cup UNION {RidsOf(call[d].own) : d \in Calls}
<1>1. UNCHANGED <<rid, count>>
  BY DEF Insert, listVars
<1>2. v \in Voters /\ Tail(call[c].batch) \in Seq(Voters)
  BY DEF Insert, RowsInv, RowsOK
<1>3. CASE call' = [call EXCEPT ![c].batch = Tail(@)]
  <2> DEFINE s == [call[c] EXCEPT !.batch = Tail(call[c].batch)]
  <2>1. call' = [call EXCEPT ![c] = s]
    BY <1>3
  <2>2. IsRow(call[c])
    BY DEF RowsInv, Shaped
  <2>3. /\ IsRow(s) /\ s.own = call[c].own /\ s.batch = Tail(call[c].batch)
        /\ s.pc = call[c].pc /\ s.op = call[c].op
    BY <2>2 DEF IsRow
  <2>4. s.pc = "insert" => s.op \in Loads
    BY <2>3 DEF RowsInv, RowsOK
  <2> HIDE DEF s
  <2> QED
    BY <1>1, <1>2, <2>1, <2>3, <2>4, UpdateStep
<1>4. CASE /\ rid[v] = NoRow /\ call[c].own[v] = NoRow
           /\ \E r \in (1 .. MaxRid) \ taken :
                call' = [call EXCEPT ![c].batch = Tail(@), ![c].own[v] = r]
  <2>1. PICK r \in (1 .. MaxRid) \ taken :
          call' = [call EXCEPT ![c].batch = Tail(@), ![c].own[v] = r]
    BY <1>4
  <2>2. r \in 1 .. MaxRid /\ r # NoRow /\ r \in 0 .. MaxRid
    BY BoundsAssumption DEF NoRow
  <2>3. /\ Shaped'
        /\ \A d \in Calls : d # c => call'[d] = call[d]
        /\ call'[c].own = [call[c].own EXCEPT ![v] = r]
        /\ call'[c].batch = Tail(call[c].batch)
        /\ call'[c].pc = call[c].pc /\ call'[c].op = call[c].op
    <3> DEFINE own == [call[c].own EXCEPT ![v] = r]
               s == [call[c] EXCEPT !.batch = Tail(call[c].batch), !.own = own]
    <3>1. call' = [call EXCEPT ![c] = s]
      BY <2>1
    <3>2. IsRow(call[c]) /\ Shaped
      BY DEF RowsInv, Shaped
    <3> HIDE DEF own
    <3>3. /\ IsRow(s) /\ s.own = own /\ s.batch = Tail(call[c].batch)
          /\ s.pc = call[c].pc /\ s.op = call[c].op
      BY <3>2 DEF IsRow
    <3> HIDE DEF s
    <3>4. Shaped' /\ call'[c] = s
          /\ \A d \in Calls : d # c => call'[d] = call[d]
      BY <3>1, <3>2, <3>3, RowEffect
    <3>5. call'[c] = s
      BY <3>4
    <3>6. /\ call'[c].own = own /\ call'[c].batch = Tail(call[c].batch)
          /\ call'[c].pc = call[c].pc /\ call'[c].op = call[c].op
      BY <3>3, <3>5
    <3> QED
      BY <3>4, <3>6, Zenon DEF own
  <2>4. RowsOK'
    <3>1. call'[c].own \in RowSets
      <4>1. call[c].own \in [Voters -> 0 .. MaxRid]
        BY DEF RowsInv, RowsOK, RowSets
      <4>2. [call[c].own EXCEPT ![v] = r] \in [Voters -> 0 .. MaxRid]
        BY <2>2, <4>1
      <4> QED
        BY <2>3, <4>2 DEF RowSets
    <3> QED
      BY <1>1, <1>2, <2>3, <3>1 DEF RowsInv, RowsOK
  <2>5. \A d \in Calls : d # c => call[d].own[v] = NoRow
    BY DEF Insert, WaitsFor
  <2>6. OneOwner'
    <3>1. /\ call'[c].own[v] = r
          /\ \A w \in Voters : w # v => call'[c].own[w] = call[c].own[w]
      BY <1>2, <2>3 DEF RowsInv, RowsOK, RowSets
    <3> HIDE DEF v
    <3>2. ASSUME NEW d \in Calls, NEW w \in Voters, call'[d].own[w] # NoRow
          PROVE  /\ rid[w] = NoRow
                 /\ \A e \in Calls : e # d => call'[e].own[w] = NoRow
      <4>1. \A e \in Calls : e # c => call'[e] = call[e] /\ call[e].own[v] = NoRow
        BY <2>3, <2>5
      <4>2. CASE w = v
        <5>1. d = c
          BY <3>2, <4>1, <4>2
        <5> QED
          BY <1>4, <4>1, <4>2, <5>1
      <4>3. CASE w # v
        <5>1. \A e \in Calls : call'[e].own[w] = call[e].own[w]
          BY <3>1, <4>1, <4>3
        <5> QED
          BY <3>2, <5>1 DEF RowsInv, OneOwner
      <4> QED
        BY <4>2, <4>3
    <3> QED
      BY <1>1, <3>2 DEF OneOwner
  <2>7. RidsOf(call'[c].own) \subseteq RidsOf(call[c].own) \cup {r}
    BY <2>3 DEF RidsOf, RowsInv, RowsOK, RowSets
  <2>8. r \notin RidsOf(rid) /\ \A d \in Calls : r \notin RidsOf(call[d].own)
    BY <2>1
  <2>9. \A d \in Calls : d # c => RidsOf(call'[d].own) = RidsOf(call[d].own)
    BY <2>3
  <2>10. FreshRids'
    BY <1>1, <2>7, <2>8, <2>9 DEF RowsInv, FreshRids
  <2>11. VoterCountExact'
    BY <1>1 DEF RowsInv, VoterCountExact
  <2> QED
    BY <2>3, <2>4, <2>6, <2>10, <2>11 DEF RowsInv
<1> QED
  BY <1>3, <1>4 DEF Insert

(***************************************************************************)
(* A COMMIT makes the transaction's rows everybody's: the rids of both are *)
(* disjoint, so their numbers add up.                                      *)
(***************************************************************************)
LEMMA CommitStep ==
    ASSUME RowsInv, NEW c \in Calls, Commit(c)
    PROVE  RowsInv'
<1>1. End(c)
  BY DEF Commit
<1>2. CASE TooLate(c)
  <2>1. UNCHANGED <<rid, count>>
    BY <1>2 DEF Commit
  <2> QED
    BY <1>1, <2>1, EndStep
<1>3. CASE ~TooLate(c)
  <2> DEFINE mine == call[c].own
  <2>1. rid' = [v \in Voters |-> IF mine[v] # NoRow THEN mine[v] ELSE rid[v]]
        /\ count' = count + Cardinality(RidsOf(mine))
    BY <1>3 DEF Commit, Publish, Inserted
  <2>2. Shaped' /\ call'[c] = Idle
        /\ \A d \in Calls : d # c => call'[d] = call[d]
    BY <1>1, EndEffect DEF RowsInv
  <2>3. mine \in RowSets /\ rid \in RowSets
    BY DEF RowsInv, RowsOK
  <2>4. rid' \in RowSets
    BY <2>1, <2>3 DEF RowSets
  <2>5. RowsOK'
    BY <2>2, <2>4, NoRowsHaveNoRid, IdleRow DEF RowsInv, RowsOK
  <2>6. \A v \in Voters : mine[v] # NoRow => rid[v] = NoRow
    BY DEF RowsInv, OneOwner
  <2>7. RidsOf(rid') = RidsOf(rid) \cup RidsOf(mine)
    BY <2>1, <2>6 DEF RidsOf
  <2>8. OneOwner'
    BY <2>1, <2>2, IdleRow DEF NoRows, RowsInv, OneOwner
  <2>9. RidsOf(call'[c].own) = {}
    BY <2>2, NoRowsHaveNoRid, IdleRow
  <2>10. FreshRids'
    BY <2>2, <2>7, <2>9 DEF RowsInv, FreshRids
  <2>11. RidsOf(rid) \cap RidsOf(mine) = {}
    BY DEF RowsInv, FreshRids
  <2>12. Cardinality(RidsOf(rid'))
           = Cardinality(RidsOf(rid)) + Cardinality(RidsOf(mine))
    <3>1. /\ IsFiniteSet(RidsOf(rid)) /\ IsFiniteSet(RidsOf(mine))
          /\ Cardinality(RidsOf(rid)) \in Nat /\ Cardinality(RidsOf(mine)) \in Nat
      BY <2>3, RidsFinite, FS_CardinalityType
    <3>2. Cardinality({}) = 0
      BY FS_EmptySet
    <3>3. Cardinality(RidsOf(rid) \cup RidsOf(mine))
            = Cardinality(RidsOf(rid)) + Cardinality(RidsOf(mine))
                - Cardinality(RidsOf(rid) \cap RidsOf(mine))
      BY <3>1, FS_Union
    <3>4. Cardinality(RidsOf(rid) \cap RidsOf(mine)) = 0
      BY <2>11, <3>2
    <3>5. Cardinality(RidsOf(rid')) = Cardinality(RidsOf(rid) \cup RidsOf(mine))
      BY <2>7
    <3> HIDE DEF mine
    <3> QED
      BY <3>1, <3>3, <3>4, <3>5
  <2>13. VoterCountExact'
    BY <2>1, <2>12 DEF RowsInv, VoterCountExact
  <2> QED
    BY <2>2, <2>5, <2>8, <2>10, <2>13 DEF RowsInv
<1> QED
  BY <1>2, <1>3

LEMMA RowsStep == RowsInv /\ [Next]_vars => RowsInv'
<1> SUFFICES ASSUME RowsInv, [Next]_vars PROVE RowsInv'
  OBVIOUS
<1>1. CASE UNCHANGED vars
  BY <1>1
  DEF vars, listVars, RowsInv, Shaped, RowsOK, OneOwner, FreshRids,
      VoterCountExact
<1>2. ASSUME NEW c \in Calls, ReadPage(c) PROVE RowsInv'
  <2> DEFINE page == Page(call[c].last)
             list == call[c].list \o page
             last == IF page = <<>> THEN call[c].last ELSE Last(page)
             pc == IF Len(page) < PageSize THEN "read" ELSE "scan"
             r == [call[c] EXCEPT !.list = list, !.last = last, !.pc = pc]
  <2>1. call' = [call EXCEPT ![c] = r] /\ UNCHANGED <<rid, count>>
    BY <1>2 DEF ReadPage, listVars
  <2>2. IsRow(call[c]) /\ call[c].batch \in Seq(Voters)
    BY DEF RowsInv, RowsOK, Shaped
  <2>3. pc # "insert"
    OBVIOUS
  <2> HIDE DEF list, last, pc
  <2>4. /\ IsRow(r) /\ r.own = call[c].own /\ r.batch = call[c].batch
        /\ r.pc = pc
    BY <2>2 DEF IsRow
  <2> HIDE DEF r
  <2> QED
    BY <2>1, <2>2, <2>3, <2>4, UpdateStep
<1>3. ASSUME NEW c \in Calls,
             \/ DeadlockAbort(c) \/ SignList(c) \/ DumpDone(c)
             \/ OpenAll(c) \/ OpenRefused(c) \/ Fault(c)
      PROVE  RowsInv'
  <2>1. End(c) /\ UNCHANGED <<rid, count>>
    BY <1>3 DEF DeadlockAbort, SignList, DumpDone, OpenAll, OpenRefused, Fault,
                Lose, OpenLost, listVars
  <2> QED
    BY <2>1, EndStep
<1> QED
  BY <1>1, <1>2, <1>3, RequestStep, InsertStep, CommitStep DEF Next, Handle

\* voter_count is the number of rows: regVoter and loadVoters add the rowCount
\* of their own INSERTs, in the transaction that makes the rows visible.
THEOREM VoterCountExactHolds == Spec => []VoterCountExact
BY InitRows, RowsStep, PTL DEF Spec, RowsInv

(***************************************************************************)
(* After the freeze of the voters only a load still changes the list.      *)
(***************************************************************************)
LEMMA RidChange ==
    ASSUME RowsInv, Next, rid' # rid
    PROVE  \E c \in Calls : Commit(c) /\ ~TooLate(c)
BY DEF Next, Request, Handle, Fault, RegStart, ScanStart, OpenRead, Insert,
       DeadlockAbort, Commit, ReadPage, SignList, DumpDone, OpenAll, OpenRefused,
       OpenLost, Lose, listVars

\* regVoter's UPDATE asks again for is_voter_sign = false.
THEOREM VotersStayAfterFreezeHolds == Spec => VotersStayAfterFreeze
<1>1. RowsInv /\ [Next]_vars =>
        [signed => \/ rid' = rid
                   \/ /\ state = 1
                      /\ \E c \in Calls : call[c].op = "load" /\ Commit(c)]_vars
  <2> SUFFICES ASSUME RowsInv, Next, signed, rid' # rid
               PROVE  /\ state = 1
                      /\ \E c \in Calls : call[c].op = "load" /\ Commit(c)
    OBVIOUS
  <2>1. PICK c \in Calls : Commit(c) /\ ~TooLate(c)
    BY RidChange
  <2>2. state = 1 /\ call[c].op # "reg"
    BY <2>1 DEF TooLate
  <2>3. call[c].op \in Loads
    BY <2>1 DEF Commit, RowsInv, RowsOK
  <2> QED
    BY <2>1, <2>2, <2>3, LoadsAssumption
<1> QED
  BY <1>1, InitRows, RowsStep, PTL DEF Spec, VotersStayAfterFreeze

(***************************************************************************)
(* Without such a load the count that an opening has read stays right.     *)
(***************************************************************************)
ToldInv ==
    /\ told \subseteq {count}
    /\ told # {} => signed
    /\ \A c \in Calls : call[c].pc = "open" => signed /\ call[c].count = count

LEMMA InitTold == Init => ToldInv
BY IdleRow DEF Init, ToldInv

LEMMA CountStays ==
    ASSUME NoLateLoad, signed, NEW c \in Calls, Commit(c)
    PROVE  UNCHANGED count
BY DEF NoLateLoad, Commit, TooLate

LEMMA ToldStep == RowsInv /\ NoLateLoad /\ ToldInv /\ [Next]_vars => ToldInv'
<1> SUFFICES ASSUME RowsInv, NoLateLoad, ToldInv, [Next]_vars PROVE ToldInv'
  OBVIOUS
<1> USE DEF ToldInv
<1>0. Shaped
  BY DEF RowsInv
<1>1. CASE UNCHANGED vars
  BY <1>1 DEF vars, listVars, openVars
<1>2. ASSUME NEW c \in Calls, Request(c) \/ Insert(c) \/ ReadPage(c)
      PROVE  ToldInv'
  <2>1. UNCHANGED <<listVars, openVars>>
    BY <1>2 DEF Request, RegStart, ScanStart, OpenRead, Insert, ReadPage
  <2>2. \A d \in Calls : call'[d].pc = "open" =>
          \/ call[d].pc = "open" /\ call'[d].count = call[d].count
          \/ signed /\ call'[d].count = count
    <3>1. IsRow(call[c]) /\ \A d \in Calls : d # c => call'[d] = call[d]
      BY <1>0, <1>2
      DEF Shaped, Request, RegStart, ScanStart, OpenRead, Insert, ReadPage
    <3>2. CASE OpenRead(c)
      <4>1. signed /\ call'[c].count = count
        BY <1>0, <3>1, <3>2 DEF OpenRead, Shaped, IsRow
      <4> QED
        BY <3>1, <4>1
    <3>3. CASE RegStart(c)
      <4>1. PICK b \in Batches, op \in Loads :
              call' = [call EXCEPT ![c].pc = "insert", ![c].op = op, ![c].batch = b]
        BY <3>3 DEF RegStart
      <4>2. call'[c].pc = "insert"
        BY <1>0, <3>1, <4>1 DEF Shaped, IsRow
      <4> QED
        BY <3>1, <4>2
    <3>4. CASE ScanStart(c)
      <4>1. call'[c].pc = "scan"
        BY <1>0, <3>1, <3>4 DEF ScanStart, Shaped, IsRow
      <4> QED
        BY <3>1, <4>1
    <3>5. CASE Insert(c)
      <4> DEFINE v == Head(call[c].batch)
                 rest == Tail(call[c].batch)
      <4>1. call[c].pc = "insert"
        BY <3>5 DEF Insert
      <4>2. \/ call' = [call EXCEPT ![c].batch = rest]
            \/ \E r : call' = [call EXCEPT ![c].batch = rest, ![c].own[v] = r]
        BY <3>5 DEF Insert
      <4> HIDE DEF v, rest
      <4>3. call'[c].pc = "insert"
        BY <1>0, <3>1, <4>1, <4>2 DEF Shaped, IsRow
      <4> QED
        BY <3>1, <4>3
    <3>6. CASE ReadPage(c)
      <4>1. call'[c].pc \in {"read", "scan"}
        BY <1>0, <3>1, <3>6 DEF ReadPage, Shaped, IsRow
      <4> QED
        BY <3>1, <4>1
    <3> QED
      BY <1>2, <3>2, <3>3, <3>4, <3>5, <3>6 DEF Request
  <2> QED
    BY <2>1, <2>2 DEF listVars, openVars
<1>3. ASSUME NEW c \in Calls,
             \/ DeadlockAbort(c) \/ DumpDone(c) \/ OpenAll(c)
             \/ OpenRefused(c) \/ Fault(c) \/ SignList(c) \/ Commit(c)
      PROVE  ToldInv'
  <2>1. End(c)
    BY <1>3 DEF DeadlockAbort, DumpDone, OpenAll, OpenRefused, Fault, Lose,
                OpenLost, SignList, Commit
  <2>2. call'[c].pc = "idle"
        /\ \A d \in Calls : d # c => call'[d] = call[d]
    BY <1>0, <2>1, EndEffect, IdleRow
  <2>3. (signed => signed') /\ (signed => UNCHANGED count)
    BY <1>3, CountStays
    DEF DeadlockAbort, DumpDone, OpenAll, OpenRefused, Fault, Lose, OpenLost,
        SignList, Commit, listVars
  <2>4. told' = told \/ (call[c].pc = "open" /\ told' = told \cup {call[c].count})
    BY <1>3
    DEF DeadlockAbort, DumpDone, OpenAll, OpenRefused, Fault, Lose, OpenLost,
        SignList, Commit, openVars
  <2> QED
    BY <2>2, <2>3, <2>4
<1> QED
  BY <1>1, <1>2, <1>3 DEF Next, Handle

\* Every server that was ever opened was told the voter_count that the closing
\* statement is signed with, unless a load outlived the freeze.
THEOREM CountToldIsFinalHolds == Spec => CountToldIsFinal
<1>1. ToldInv => told \subseteq {count}
  BY DEF ToldInv
<1> QED
  BY <1>1, InitRows, RowsStep, InitTold, ToldStep, PTL
  DEF Spec, CountToldIsFinal

-----------------------------------------------------------------------------
(* Lists of rids in order.                                                 *)

Rids == 1 .. MaxRid

LEMMA RidsAreFinite ==
    /\ MaxRid \in Nat /\ IsFiniteSet(Rids) /\ Cardinality(Rids) = MaxRid
    /\ \A S \in SUBSET Rids : IsFiniteSet(S) /\ Cardinality(S) \in Nat
<1>1. MaxRid \in Nat /\ IsFiniteSet(Rids) /\ Cardinality(Rids) = MaxRid
  BY BoundsAssumption, FS_Interval DEF Rids
<1>2. ASSUME NEW S \in SUBSET Rids
      PROVE  IsFiniteSet(S) /\ Cardinality(S) \in Nat
  BY <1>1, FS_Subset, FS_CardinalityType
<1> QED BY <1>1, <1>2

\* A set of rids has a largest one.
LEMMA LargestRid ==
    ASSUME NEW S \in SUBSET Rids, S # {}
    PROVE  \E m \in S : \A r \in S : r <= m
<1> DEFINE T == {MaxRid - r : r \in S}
<1>1. \A r \in S : r \in Nat /\ MaxRid - r \in Nat
  BY RidsAreFinite DEF Rids
<1>2. T \in SUBSET Nat /\ T # {}  BY <1>1
<1>3. PICK x \in T : \A y \in T : x <= y  BY <1>2, LeastExists
<1>4. PICK m \in S : x = MaxRid - m  OBVIOUS
<1>5. ASSUME NEW r \in S PROVE r <= m
  <2>1. MaxRid - m <= MaxRid - r  BY <1>3, <1>4
  <2> QED BY <1>1, <2>1, RidsAreFinite
<1> QED BY <1>5

\* An ascending list has no rid twice, and no more than there are.
LEMMA AscendingBounded ==
    ASSUME NEW n \in Nat, NEW s \in [1 .. n -> Rids], Ascending(s)
    PROVE  /\ \A i, j \in 1 .. n : s[i] = s[j] => i = j
           /\ n <= MaxRid
<1>1. ASSUME NEW i \in 1 .. n, NEW j \in 1 .. n, s[i] = s[j] PROVE i = j
  <2>1. s[i] \in Nat /\ s[j] \in Nat  BY DEF Rids
  <2>2. ~(i < j) /\ ~(j < i)  BY <1>1, <2>1 DEF Ascending
  <2> QED BY <2>2
<1>2. s \in Injection(1 .. n, Rids)  BY <1>1 DEF Injection, IsInjective
<1>3. Cardinality(1 .. n) = n  BY FS_Interval
<1> QED BY <1>1, <1>2, <1>3, RidsAreFinite, FS_Injection

\* Every set of rids can be listed in order.
LEMMA OrderExists ==
    ASSUME NEW S \in SUBSET Rids
    PROVE  \E s \in [1 .. Cardinality(S) -> S] : Ascending(s)
<1> DEFINE P == {T \in SUBSET Rids :
                   \E s \in [1 .. Cardinality(T) -> T] : Ascending(s)}
<1>1. ASSUME NEW T \in SUBSET Rids, \A R \in SUBSET T : R # T => R \in P
      PROVE  T \in P
  <2>1. CASE T = {}
    <3>1. Cardinality(T) = 0  BY <2>1, FS_EmptySet
    <3> DEFINE s == [i \in 1 .. 0 |-> 0]
    <3>2. s \in [1 .. Cardinality(T) -> T] /\ Ascending(s)
      BY <3>1 DEF Ascending
    <3> QED BY <3>2
  <2>2. CASE T # {}
    <3>1. PICK m \in T : \A r \in T : r <= m  BY <2>2, LargestRid
    <3> DEFINE R == T \ {m}
    <3>2. R \in P  BY <1>1
    <3>3. PICK s \in [1 .. Cardinality(R) -> R] : Ascending(s)  BY <3>2
    <3> DEFINE n == Cardinality(T)
               t == [i \in 1 .. n |-> IF i = n THEN m ELSE s[i]]
    <3>4. n \in Nat /\ n > 0 /\ Cardinality(R) = n - 1
      <4>1. IsFiniteSet(T) /\ n \in Nat  BY RidsAreFinite
      <4>2. Cardinality(R) = n - 1  BY <4>1, FS_RemoveElement
      <4>3. n # 0  BY <2>2, <4>1, FS_EmptySet
      <4> QED BY <4>1, <4>2, <4>3
    <3> HIDE DEF n
    <3>5. \A i \in 1 .. n : i # n => i \in 1 .. Cardinality(R)  BY <3>4
    <3>6. t \in [1 .. n -> T]  BY <3>3, <3>5
    <3>7. ASSUME NEW i \in 1 .. n, NEW j \in 1 .. n, i < j
          PROVE  t[i] < t[j]
      <4>1. i # n /\ i \in 1 .. Cardinality(R)  BY <3>4, <3>5, <3>7
      <4>2. CASE j = n
        <5>1. s[i] \in R  BY <3>3, <4>1
        <5>2. s[i] \in Nat /\ m \in Nat /\ s[i] # m /\ s[i] <= m
          <6>1. s[i] \in T /\ s[i] # m  BY <5>1
          <6>2. T \subseteq Nat  BY DEF Rids
          <6> HIDE DEF P, R, t
          <6> QED BY <3>1, <6>1, <6>2
        <5>3. t[i] = s[i] /\ t[j] = m  BY <4>1, <4>2
        <5> QED BY <5>2, <5>3
      <4>3. CASE j # n
        <5>1. s[i] < s[j]  BY <3>3, <3>5, <3>7, <4>1, <4>3 DEF Ascending
        <5> QED BY <4>1, <4>3, <5>1
      <4> QED BY <4>2, <4>3
    <3>8. Ascending(t)  BY <3>7 DEF Ascending
    <3> HIDE DEF t
    <3> QED BY <3>6, <3>8 DEF n
  <2> QED BY <2>1, <2>2
<1> HIDE DEF P
<1>2. SUBSET Rids \subseteq P  BY <1>1, RidsAreFinite, SubsetInductionSet
<1> QED BY <1>2 DEF P

\* The list in order has every rid of the set.
LEMMA InOrderLists ==
    ASSUME NEW S \in SUBSET Rids
    PROVE  /\ InOrder(S) \in [1 .. Cardinality(S) -> S]
           /\ Ascending(InOrder(S))
           /\ Range(InOrder(S)) = S
<1> DEFINE n == Cardinality(S)  s == InOrder(S)
<1>1. s \in [1 .. n -> S] /\ Ascending(s)
  BY OrderExists DEF InOrder
<1>2. n \in Nat /\ IsFiniteSet(S)  BY RidsAreFinite
<1> HIDE DEF n, s
<1>3. \A i, j \in 1 .. n : s[i] = s[j] => i = j
  <2>1. s \in [1 .. n -> Rids]  BY <1>1
  <2> QED BY <1>1, <1>2, <2>1, AscendingBounded
<1>4. s \in Injection(1 .. n, S)
  BY <1>1, <1>3 DEF Injection, IsInjective
<1>5. Cardinality(1 .. n) = n  BY <1>2, FS_Interval
<1>6. s \in Surjection(1 .. n, S)
  BY <1>2, <1>4, <1>5, FS_Injection DEF n
<1>7. Range(s) = S  BY <1>1, <1>6 DEF Surjection, Range
<1> QED BY <1>1, <1>7 DEF n, s

\* Two ascending lists of the same rids have the same rid at every place.
LEMMA SamePlaces ==
    ASSUME NEW n \in Nat, NEW m \in Nat,
           NEW s \in [1 .. n -> Nat], NEW t \in [1 .. m -> Nat],
           Ascending(s), Ascending(t), Range(s) = Range(t), n <= m
    PROVE  \A i \in 1 .. n : s[i] = t[i]
<1> DEFINE D == {i \in 1 .. n : s[i] # t[i]}
<1> SUFFICES ASSUME D # {} PROVE FALSE  OBVIOUS
<1>1. PICK i \in D : \A j \in D : i <= j
  <2>1. D \in SUBSET Nat  OBVIOUS
  <2> QED BY <2>1, LeastExists
<1>2. /\ i \in 1 .. n /\ i \in 1 .. m /\ s[i] \in Nat /\ t[i] \in Nat
      /\ s[i] # t[i]
      /\ \A j \in 1 .. n : j < i => s[j] = t[j]
  BY <1>1
<1> HIDE DEF D
<1>3. PICK j \in 1 .. m : t[j] = s[i]  BY <1>2 DEF Range
<1>4. PICK k \in 1 .. n : s[k] = t[i]  BY <1>2 DEF Range
<1>5. ~(j < i)
  <2>1. ASSUME j < i PROVE FALSE
    <3>1. j \in 1 .. n /\ s[j] = t[j]  BY <1>2, <2>1
    <3>2. s[j] < s[i]  BY <1>2, <2>1, <3>1 DEF Ascending
    <3> QED BY <1>2, <1>3, <3>1, <3>2
  <2> QED BY <2>1
<1>6. ~(k < i)
  <2>1. ASSUME k < i PROVE FALSE
    <3>1. k \in 1 .. m /\ s[k] = t[k]  BY <1>2, <2>1
    <3>2. t[k] < t[i]  BY <1>2, <2>1, <3>1 DEF Ascending
    <3> QED BY <1>2, <1>4, <3>1, <3>2
  <2> QED BY <2>1
<1>7. j # i /\ k # i  BY <1>2, <1>3, <1>4
<1>8. t[i] < t[j]  BY <1>2, <1>5, <1>7 DEF Ascending
<1>9. s[i] < s[k]  BY <1>2, <1>6, <1>7 DEF Ascending
<1> QED BY <1>2, <1>3, <1>4, <1>8, <1>9

\* So a set has one list only.
LEMMA OneOrder ==
    ASSUME NEW S \in SUBSET Rids, NEW list \in Seq(Rids), Ascending(list),
           Range(list) = S
    PROVE  list = InOrder(S)
<1> DEFINE n == Len(list)  m == Cardinality(S)  s == InOrder(S)
<1>1. n \in Nat /\ list \in [1 .. n -> Rids]  OBVIOUS
<1>2. list \in Surjection(1 .. n, S)
  BY <1>1 DEF Range, Surjection
<1>3. \A i, j \in 1 .. n : list[i] = list[j] => i = j
  BY <1>1, AscendingBounded
<1>4. list \in Injection(1 .. n, S)
  BY <1>1, <1>2, <1>3 DEF Injection, IsInjective, Surjection
<1>5. IsFiniteSet(1 .. n) /\ Cardinality(1 .. n) = n  BY <1>1, FS_Interval
<1>6. m = n  BY <1>2, <1>4, <1>5, FS_Surjection
<1>7. s \in [1 .. n -> S] /\ Ascending(s) /\ Range(s) = S
  BY <1>6, InOrderLists
<1> HIDE DEF n, s
<1>8. list \in [1 .. n -> Nat] /\ s \in [1 .. n -> Nat]
  <2>1. Rids \subseteq Nat /\ S \subseteq Nat  BY DEF Rids
  <2>2. \A i \in 1 .. n : list[i] \in Nat /\ s[i] \in Nat
    BY <1>1, <1>7, <2>1
  <2>3. /\ list = [i \in 1 .. n |-> list[i]]
        /\ s = [i \in 1 .. n |-> s[i]]
    BY <1>1, <1>7
  <2> QED BY <2>2, <2>3
<1>9. \A i \in 1 .. n : list[i] = s[i]
  <2>1. n \in Nat /\ n <= n /\ Range(list) = Range(s)  BY <1>1, <1>7
  <2> QED BY <1>7, <1>8, <2>1, SamePlaces
<1>10. list = [i \in 1 .. n |-> list[i]] /\ s = [i \in 1 .. n |-> s[i]]
  BY <1>8
<1>11. list = s  BY <1>9, <1>10
<1> QED BY <1>11 DEF s

-----------------------------------------------------------------------------
(* The scan of freezeVoters and dumpVoters.                                *)

\* What a page has: the rids after last, in order, up to its own last one.
LEMMA PageLists ==
    ASSUME rid \in RowSets, NEW last \in Nat
    PROVE  /\ Page(last) \in Seq(Rids) /\ Ascending(Page(last))
           /\ \A r \in Range(Page(last)) : r \in RidsOf(rid) /\ r > last
           /\ Page(last) = <<>> => \A r \in RidsOf(rid) : r <= last
           /\ Page(last) # <<>> =>
                /\ Last(Page(last)) \in Range(Page(last))
                /\ \A r \in Range(Page(last)) : r <= Last(Page(last))
                /\ \A r \in RidsOf(rid) :
                     last < r /\ r <= Last(Page(last)) => r \in Range(Page(last))
           /\ Len(Page(last)) < PageSize =>
                \A r \in RidsOf(rid) : last < r => r \in Range(Page(last))
<1> DEFINE S == {r \in RidsOf(rid) : r > last}
           rest == InOrder(S)
           n == Cardinality(S)
           k == IF Len(rest) < PageSize THEN Len(rest) ELSE PageSize
           page == SubSeq(rest, 1, k)
<1>1. S \in SUBSET Rids /\ n \in Nat
  <2>1. RidsOf(rid) \subseteq Rids  BY RidsFinite DEF Rids
  <2> QED BY <2>1, RidsAreFinite
<1>2. rest \in [1 .. n -> S] /\ Ascending(rest) /\ Range(rest) = S
  BY <1>1, InOrderLists
<1>3. Page(last) = page  BY DEF Page
<1>4. \A r \in RidsOf(rid) : r \in Nat /\ (r \in S <=> last < r)
  <2>1. RidsOf(rid) \subseteq Nat  BY RidsFinite
  <2> QED BY <2>1
<1>10. \A r \in S : r \in RidsOf(rid) /\ r \in Rids  BY <1>1
<1> HIDE DEF S, rest, n
<1>5. rest \in Seq(S) /\ rest \in Seq(Rids) /\ Len(rest) = n
  BY <1>1, <1>2
<1>6. k \in 0 .. n /\ (k = n \/ k = PageSize) /\ (n > 0 => k > 0)
  BY <1>1, <1>5, BoundsAssumption
<1>11. k < PageSize => k = n  BY <1>5, BoundsAssumption
<1> HIDE DEF k
<1>7. /\ page \in Seq(S) /\ page \in Seq(Rids) /\ Len(page) = k
      /\ \A i \in 1 .. k : page[i] = rest[i]
      /\ DOMAIN page = 1 .. k
  BY <1>1, <1>5, <1>6
<1> HIDE DEF page
<1>8. Range(page) = {rest[i] : i \in 1 .. k}  BY <1>7 DEF Range
<1>9. S = {rest[i] : i \in 1 .. n}  BY <1>2 DEF Range
<1>12. \A i, j \in 1 .. n : rest[i] \in Nat /\ (i < j => rest[i] < rest[j])
  <2>1. \A i \in 1 .. n : rest[i] \in Rids  BY <1>2, <1>10
  <2> QED BY <1>2, <2>1 DEF Ascending, Rids
<1>13. Ascending(page)
  BY <1>1, <1>6, <1>7, <1>12 DEF Ascending
<1>14. \A r \in Range(page) : r \in RidsOf(rid) /\ r > last
  <2>1. Range(page) \subseteq S  BY <1>1, <1>6, <1>8, <1>9
  <2> QED BY <1>4, <1>10, <2>1
<1>15. page = <<>> => \A r \in RidsOf(rid) : r <= last
  <2> SUFFICES ASSUME page = <<>>, NEW r \in RidsOf(rid) PROVE r <= last
    OBVIOUS
  <2>1. k = 0  BY <1>7
  <2>2. n = 0  BY <1>1, <1>6, <2>1
  <2>3. S = {}  BY <1>9, <2>2
  <2> QED BY <1>4, <2>3
<1>16. page # <<>> =>
         /\ Last(page) \in Range(page)
         /\ \A r \in Range(page) : r <= Last(page)
         /\ \A r \in RidsOf(rid) :
              last < r /\ r <= Last(page) => r \in Range(page)
  <2> SUFFICES ASSUME page # <<>>
               PROVE  /\ Last(page) \in Range(page)
                      /\ \A r \in Range(page) : r <= Last(page)
                      /\ \A r \in RidsOf(rid) :
                           last < r /\ r <= Last(page) => r \in Range(page)
    OBVIOUS
  <2>1. k # 0 /\ k \in 1 .. k /\ k \in 1 .. n
    <3>1. k # 0  BY <1>7
    <3> QED BY <1>1, <1>6, <3>1
  <2>2. Last(page) = rest[k]  BY <1>7, <2>1 DEF Last
  <2>3. Last(page) \in Range(page)  BY <1>8, <2>1, <2>2
  <2>4. ASSUME NEW r \in Range(page) PROVE r <= Last(page)
    <3>1. PICK i \in 1 .. k : r = rest[i]  BY <1>8
    <3>2. i \in 1 .. n /\ (i = k \/ i < k)  BY <1>1, <1>6
    <3> QED BY <1>12, <2>1, <2>2, <3>1, <3>2
  <2>5. ASSUME NEW r \in RidsOf(rid), last < r, r <= Last(page)
        PROVE  r \in Range(page)
    <3>1. r \in S  BY <1>4, <2>5
    <3>2. PICK i \in 1 .. n : r = rest[i]  BY <1>9, <3>1
    <3>3. ~(k < i)
      <4>1. ASSUME k < i PROVE FALSE
        <5>1. rest[k] < rest[i] /\ rest[k] \in Nat /\ rest[i] \in Nat
          BY <1>12, <2>1, <4>1
        <5> QED BY <2>2, <2>5, <3>2, <5>1
      <4> QED BY <4>1
    <3>4. i \in 1 .. k  BY <1>1, <1>6, <3>3
    <3> QED BY <1>8, <3>2, <3>4
  <2> QED BY <2>3, <2>4, <2>5
<1>17. Len(page) < PageSize =>
         \A r \in RidsOf(rid) : last < r => r \in Range(page)
  <2> SUFFICES ASSUME Len(page) < PageSize, NEW r \in RidsOf(rid), last < r
               PROVE  r \in Range(page)
    OBVIOUS
  <2>1. k = n  BY <1>7, <1>11
  <2>2. r \in S  BY <1>4
  <2> QED BY <1>8, <1>9, <2>1, <2>2
<1> QED BY <1>3, <1>7, <1>13, <1>14, <1>15, <1>16, <1>17

\* The list read so far is in order, and ends at last.
ListOK(list, last) ==
    /\ list \in Seq(Rids) /\ Ascending(list)
    /\ last \in 0 .. MaxRid
    /\ \A r \in Range(list) : r <= last

\* Where the scan goes on after a page.
NextLast(page, last) == IF page = <<>> THEN last ELSE Last(page)

\* A page keeps the list in order, and complete up to where it ends.
LEMMA PageAdded ==
    ASSUME rid \in RowSets, NEW list, NEW last, ListOK(list, last)
    PROVE  LET page == Page(last)
               new == NextLast(page, last)
           IN  /\ ListOK(list \o page, new)
               /\ Range(list \o page) = Range(list) \cup Range(page)
               /\ Range(list) = {r \in RidsOf(rid) : r <= last}
                    => Range(list \o page) = {r \in RidsOf(rid) : r <= new}
               /\ Range(list) = {r \in RidsOf(rid) : r <= last}
                    /\ Len(page) < PageSize
                    => Range(list \o page) = RidsOf(rid)
<1> DEFINE page == Page(last)  new == NextLast(page, last)
           both == list \o page
<1>1. last \in Nat /\ last <= MaxRid /\ MaxRid \in Nat
  BY RidsAreFinite DEF ListOK
<1>2. /\ page \in Seq(Rids) /\ Ascending(page)
      /\ \A r \in Range(page) : r \in RidsOf(rid) /\ r > last
      /\ page = <<>> => \A r \in RidsOf(rid) : r <= last
      /\ page # <<>> =>
           /\ Last(page) \in Range(page)
           /\ \A r \in Range(page) : r <= Last(page)
           /\ \A r \in RidsOf(rid) :
                last < r /\ r <= Last(page) => r \in Range(page)
      /\ Len(page) < PageSize =>
           \A r \in RidsOf(rid) : last < r => r \in Range(page)
  BY <1>1, PageLists
<1> HIDE DEF page
<1>3. /\ list \in Seq(Rids) /\ Ascending(list)
      /\ \A r \in Range(list) : r <= last
  BY DEF ListOK
<1>4. /\ both \in Seq(Rids) /\ Len(both) = Len(list) + Len(page)
      /\ Len(list) \in Nat /\ Len(page) \in Nat
      /\ \A i \in 1 .. Len(both) :
           both[i] = IF i <= Len(list) THEN list[i] ELSE page[i - Len(list)]
  BY <1>2, <1>3
<1>5. /\ \A i \in 1 .. Len(list) : list[i] \in Range(list) /\ list[i] \in Rids
      /\ \A i \in 1 .. Len(page) : page[i] \in Range(page) /\ page[i] \in Rids
  BY <1>2, <1>3 DEF Range
<1>6. Range(both) = Range(list) \cup Range(page)
  <2>1. DOMAIN both = 1 .. Len(both) /\ DOMAIN list = 1 .. Len(list)
        /\ DOMAIN page = 1 .. Len(page)
    BY <1>2, <1>3, <1>4
  <2> HIDE DEF both
  <2>2. Range(both) \subseteq Range(list) \cup Range(page)
    <3> SUFFICES ASSUME NEW i \in 1 .. Len(both)
                 PROVE  both[i] \in Range(list) \cup Range(page)
      BY <2>1 DEF Range
    <3>1. CASE i <= Len(list)
      <4>1. i \in 1 .. Len(list) /\ both[i] = list[i]  BY <1>4, <3>1
      <4> QED BY <1>5, <4>1
    <3>2. CASE ~(i <= Len(list))
      <4>1. i - Len(list) \in 1 .. Len(page) /\ both[i] = page[i - Len(list)]
        BY <1>4, <3>2
      <4> QED BY <1>5, <4>1
    <3> QED BY <3>1, <3>2
  <2>3. ASSUME NEW i \in 1 .. Len(list) PROVE list[i] \in Range(both)
    <3>1. i \in 1 .. Len(both) /\ both[i] = list[i]  BY <1>4
    <3> QED BY <2>1, <3>1 DEF Range
  <2>4. ASSUME NEW i \in 1 .. Len(page) PROVE page[i] \in Range(both)
    <3>1. /\ i + Len(list) \in 1 .. Len(both)
          /\ both[i + Len(list)] = page[(i + Len(list)) - Len(list)]
      BY <1>4
    <3>2. (i + Len(list)) - Len(list) = i  BY <1>4
    <3> QED BY <2>1, <3>1, <3>2 DEF Range
  <2>5. Range(list) \subseteq Range(both)  BY <2>1, <2>3 DEF Range
  <2>6. Range(page) \subseteq Range(both)  BY <2>1, <2>4 DEF Range
  <2> QED BY <2>2, <2>5, <2>6
<1> HIDE DEF both
<1>7. Range(list) \subseteq Rids /\ Range(page) \subseteq Rids
      /\ RidsOf(rid) \subseteq Rids
  <2>1. \A s \in Seq(Rids) : Range(s) \subseteq Rids  BY DEF Range
  <2>2. RidsOf(rid) \subseteq Rids  BY RidsFinite DEF Rids
  <2> QED BY <1>2, <1>3, <2>1, <2>2
<1>8. Ascending(both)
  <2> SUFFICES ASSUME NEW i \in 1 .. Len(both), NEW j \in 1 .. Len(both), i < j
               PROVE  both[i] < both[j]
    <3>1. DOMAIN both = 1 .. Len(both)  BY <1>4
    <3> QED BY <3>1 DEF Ascending
  <2>1. CASE j <= Len(list)
    <3>1. i \in 1 .. Len(list) /\ j \in 1 .. Len(list)  BY <1>4, <2>1
    <3> QED BY <1>3, <1>4, <2>1, <3>1 DEF Ascending
  <2>2. CASE ~(i <= Len(list))
    <3>1. /\ i - Len(list) \in 1 .. Len(page) /\ j - Len(list) \in 1 .. Len(page)
          /\ i - Len(list) < j - Len(list) /\ ~(j <= Len(list))
      BY <1>4, <2>2
    <3>2. both[i] = page[i - Len(list)] /\ both[j] = page[j - Len(list)]
      BY <1>4, <2>2, <3>1
    <3>3. DOMAIN page = 1 .. Len(page)  BY <1>2
    <3> QED BY <1>2, <3>1, <3>2, <3>3 DEF Ascending
  <2>3. CASE i <= Len(list) /\ ~(j <= Len(list))
    <3>1. i \in 1 .. Len(list) /\ j - Len(list) \in 1 .. Len(page)
      BY <1>4, <2>3
    <3>2. both[i] \in Range(list) /\ both[j] \in Range(page)
      BY <1>4, <1>5, <2>3, <3>1
    <3>3. both[i] <= last /\ both[j] > last /\ both[i] \in Nat /\ both[j] \in Nat
      BY <1>2, <1>3, <1>7, <3>2 DEF Rids
    <3> QED BY <1>1, <3>3
  <2> QED BY <2>1, <2>2, <2>3
<1>9. /\ new \in 0 .. MaxRid /\ last <= new
      /\ \A r \in Range(page) : r <= new
  <2>1. CASE page = <<>>
    <3>1. Range(page) = {}  BY <2>1 DEF Range
    <3> QED BY <1>1, <2>1, <3>1 DEF NextLast
  <2>2. CASE page # <<>>
    <3>1. Last(page) \in Rids /\ Last(page) > last  BY <1>2, <1>7, <2>2
    <3> QED BY <1>1, <1>2, <2>2, <3>1 DEF NextLast, Rids
  <2> QED BY <2>1, <2>2
<1>10. ListOK(both, new)
  <2>1. \A r \in Range(both) : r <= new
    <3>1. \A r \in Range(list) : r <= new
      BY <1>1, <1>3, <1>7, <1>9 DEF Rids
    <3> QED BY <1>6, <1>9, <3>1
  <2> QED BY <1>4, <1>8, <1>9, <2>1 DEF ListOK
<1>11. ASSUME Range(list) = {r \in RidsOf(rid) : r <= last}
       PROVE  Range(both) = {r \in RidsOf(rid) : r <= new}
  <2>1. ASSUME NEW r \in Range(both) PROVE r \in RidsOf(rid) /\ r <= new
    <3>1. r \in Range(list) => r \in RidsOf(rid)  BY <1>11
    <3> QED BY <1>2, <1>6, <1>10, <3>1 DEF ListOK
  <2>2. ASSUME NEW r \in RidsOf(rid), r <= new PROVE r \in Range(both)
    <3>1. r \in Nat /\ new \in Nat  BY <1>7, <1>9 DEF Rids
    <3>2. CASE r <= last  BY <1>6, <1>11, <3>2
    <3>3. CASE last < r
      <4>1. page # <<>>  BY <1>1, <1>2, <3>1, <3>3
      <4>2. r <= Last(page)  BY <2>2, <4>1 DEF NextLast
      <4> QED BY <1>2, <1>6, <3>3, <4>1, <4>2
    <3> QED BY <1>1, <3>1, <3>2, <3>3
  <2> QED BY <2>1, <2>2
<1>12. ASSUME Range(list) = {r \in RidsOf(rid) : r <= last},
              Len(page) < PageSize
       PROVE  Range(both) = RidsOf(rid)
  <2>1. Range(both) \subseteq RidsOf(rid)  BY <1>11, <1>12
  <2>2. ASSUME NEW r \in RidsOf(rid) PROVE r \in Range(both)
    <3>1. r \in Nat  BY <1>7 DEF Rids
    <3>2. CASE r <= last  BY <1>6, <1>12, <3>2
    <3>3. CASE last < r  BY <1>2, <1>6, <1>12, <3>3
    <3> QED BY <1>1, <3>1, <3>2, <3>3
  <2> QED BY <2>1, <2>2
<1> QED BY <1>6, <1>10, <1>11, <1>12 DEF both, page

-----------------------------------------------------------------------------
(* Types: lists are in order, so none is longer than there are rids.       *)

Listed(r) == ListOK(r.list, r.last)

ListsOK ==
    /\ \A c \in Calls : Listed(call[c])
    /\ voterSign \in Seq(Rids) /\ Ascending(voterSign)

TypeInv == TypeOK /\ ListsOK

LEMMA ListIsPages ==
    ASSUME NEW list \in Seq(Rids), Ascending(list)
    PROVE  list \in Pages
<1> DEFINE n == Len(list)
<1>1. n \in Nat /\ list \in [1 .. n -> Rids]  OBVIOUS
<1> HIDE DEF n
<1>2. n \in 0 .. MaxRid  BY <1>1, AscendingBounded, RidsAreFinite
<1> QED BY <1>1, <1>2 DEF Pages, Rids

LEMMA EmptyListOK == ListOK(<<>>, 0)
<1>1. <<>> \in Seq(Rids) /\ DOMAIN <<>> = {}  OBVIOUS
<1>2. Ascending(<<>>) /\ Range(<<>>) = {}
  BY <1>1 DEF Ascending, Range
<1> QED BY <1>1, <1>2, RidsAreFinite DEF ListOK

\* There are no more rows than addresses.
LEMMA CountBounded ==
    ASSUME NEW rows \in RowSets
    PROVE  /\ Cardinality(RidsOf(rows)) \in 0 .. Cardinality(Voters)
           /\ Cardinality(Voters) \in Nat
<1> DEFINE D == {v \in Voters : rows[v] # NoRow}
           f == [v \in D |-> rows[v]]
<1>1. IsFiniteSet(D) /\ Cardinality(D) <= Cardinality(Voters)
      /\ Cardinality(D) \in Nat /\ Cardinality(Voters) \in Nat
  BY FiniteAssumption, FS_Subset, FS_CardinalityType
<1>2. f \in Surjection(D, RidsOf(rows))  BY DEF Surjection, RidsOf
<1> HIDE DEF f
<1>3. Cardinality(RidsOf(rows)) <= Cardinality(D)
  BY <1>1, <1>2, FS_Surjection
<1>4. Cardinality(RidsOf(rows)) \in Nat
  BY RidsFinite, FS_CardinalityType
<1> QED BY <1>1, <1>3, <1>4

LEMMA CountsTyped ==
    /\ Cardinality(Voters) \in Nat /\ NoCount \in Counts
    /\ 0 .. Cardinality(Voters) \subseteq Counts
<1>1. Cardinality(Voters) \in Nat
  BY FiniteAssumption, FS_CardinalityType
<1> QED BY <1>1 DEF NoCount, Counts

LEMMA IdleTyped == Idle \in CallRows /\ Listed(Idle)
<1>1. /\ NoRows \in RowSets /\ NoCount \in Counts /\ 0 \in 0 .. MaxRid
      /\ <<>> \in Seq(Voters)
  BY NoRowsHaveNoRid, CountsTyped, RidsAreFinite
<1>2. ListOK(<<>>, 0) /\ <<>> \in Pages
  BY EmptyListOK, ListIsPages DEF ListOK
<1>3. Idle.list = <<>> /\ Idle.last = 0  BY DEF Idle
<1> QED BY <1>1, <1>2, <1>3 DEF Idle, CallRows, Listed

LEMMA InitType == Init => TypeInv
<1> SUFFICES ASSUME Init PROVE TypeInv  OBVIOUS
<1> USE DEF Init
<1>1. <<>> \in Seq(Rids) /\ Ascending(<<>>) /\ <<>> \in Pages
  BY EmptyListOK, ListIsPages DEF ListOK
<1>2. call \in [Calls -> CallRows] /\ \A c \in Calls : Listed(call[c])
  BY IdleTyped
<1>3. ListsOK  BY <1>1, <1>2 DEF ListsOK
<1>4. 0 \in 0 .. Cardinality(Voters) /\ 0 \in 0 .. MaxFaults
  BY CountsTyped, BoundsAssumption
<1>5. TypeOK
  BY <1>1, <1>2, <1>4, NoRowsHaveNoRid, CountsTyped DEF TypeOK
<1> QED BY <1>3, <1>5 DEF TypeInv

\* A step changes one slot, and leaves a row of the right type in it.
SlotStep(c, r) == r \in CallRows /\ Listed(r) /\ call' = [call EXCEPT ![c] = r]

LEMMA SlotTyped ==
    ASSUME TypeInv, NEW c \in Calls, NEW r, SlotStep(c, r)
    PROVE  call' \in [Calls -> CallRows] /\ \A d \in Calls : Listed(call'[d])
<1>1. call \in [Calls -> CallRows] /\ \A d \in Calls : Listed(call[d])
  BY DEF TypeInv, TypeOK, ListsOK
<1> QED BY <1>1 DEF SlotStep

LEMMA EndTyped ==
    ASSUME NEW c \in Calls, End(c)
    PROVE  SlotStep(c, Idle)
BY IdleTyped DEF End, SlotStep

\* The fields of a row, one by one.
LEMMA RowFields ==
    ASSUME NEW r \in CallRows
    PROVE  /\ r.op \in {"reg", "load", "freeze", "dump"}
           /\ r.batch \in Seq(Voters) /\ r.own \in RowSets
           /\ r.last \in 0 .. MaxRid /\ r.list \in Pages
           /\ r.count \in Counts /\ r.covers \in Counts
           /\ IsRow(r)
BY DEF CallRows, IsRow

LEMMA RequestTyped ==
    ASSUME TypeInv, NEW c \in Calls, Request(c)
    PROVE  \E r : SlotStep(c, r)
<1>1. call[c] \in CallRows /\ Listed(call[c])
  BY DEF TypeInv, TypeOK, ListsOK
<1>2. CASE RegStart(c)
  <2>1. PICK b \in Batches, op \in Loads :
          call' = [call EXCEPT ![c].pc = "insert", ![c].op = op, ![c].batch = b]
    BY <1>2 DEF RegStart
  <2>2. b \in Seq(Voters) /\ op \in {"reg", "load"}
    BY BatchesAssumption, LoadsAssumption
  <2> DEFINE r == [call[c] EXCEPT !.pc = "insert", !.op = op, !.batch = b]
  <2>3. /\ r \in CallRows /\ r.list = call[c].list /\ r.last = call[c].last
    BY <1>1, <2>2 DEF CallRows
  <2>4. call' = [call EXCEPT ![c] = r]  BY <2>1
  <2> HIDE DEF r
  <2> QED BY <1>1, <2>3, <2>4 DEF SlotStep, Listed
<1>3. CASE ScanStart(c)
  <2> DEFINE op == IF signed THEN "dump" ELSE "freeze"
             r == [call[c] EXCEPT !.pc = "scan", !.op = op]
  <2>1. call' = [call EXCEPT ![c] = r]  BY <1>3 DEF ScanStart
  <2>2. r \in CallRows /\ r.list = call[c].list /\ r.last = call[c].last
    BY <1>1 DEF CallRows
  <2> HIDE DEF r
  <2> QED BY <1>1, <2>1, <2>2 DEF SlotStep, Listed
<1>4. CASE OpenRead(c)
  <2> DEFINE covers == IF openSign = NoCount THEN count ELSE openSign
             r == [call[c] EXCEPT !.pc = "open", !.count = count,
                                  !.covers = covers]
  <2>1. call' = [call EXCEPT ![c] = r]  BY <1>4 DEF OpenRead
  <2>2. count \in Counts /\ covers \in Counts
    BY CountsTyped DEF TypeInv, TypeOK
  <2> HIDE DEF covers
  <2>3. r \in CallRows /\ r.list = call[c].list /\ r.last = call[c].last
    BY <1>1, <2>2 DEF CallRows
  <2> HIDE DEF r
  <2> QED BY <1>1, <2>1, <2>3 DEF SlotStep, Listed
<1> QED BY <1>2, <1>3, <1>4 DEF Request

LEMMA InsertTyped ==
    ASSUME TypeInv, NEW c \in Calls, Insert(c)
    PROVE  \E r : SlotStep(c, r)
<1> DEFINE v == Head(call[c].batch)
           rest == Tail(call[c].batch)
           taken == RidsOf(rid) \cup UNION {RidsOf(call[d].own) : d \in Calls}
<1>1. call[c] \in CallRows /\ Listed(call[c])
  BY DEF TypeInv, TypeOK, ListsOK
<1>2. rest \in Seq(Voters)
  <2>1. call[c].batch \in Seq(Voters) /\ call[c].batch # <<>>
    BY <1>1, RowFields DEF Insert
  <2> QED BY <2>1
<1>3. \/ call' = [call EXCEPT ![c].batch = rest]
      \/ \E r \in (1 .. MaxRid) \ taken :
           call' = [call EXCEPT ![c].batch = rest, ![c].own[v] = r]
  BY DEF Insert
<1> HIDE DEF v, rest, taken
<1>4. CASE call' = [call EXCEPT ![c].batch = rest]
  <2> DEFINE s == [call[c] EXCEPT !.batch = rest]
  <2>1. s \in CallRows /\ s.list = call[c].list /\ s.last = call[c].last
    BY <1>1, <1>2 DEF CallRows
  <2>2. call' = [call EXCEPT ![c] = s]  BY <1>4
  <2> HIDE DEF s
  <2> QED BY <1>1, <2>1, <2>2 DEF SlotStep, Listed
<1>5. ASSUME NEW r \in (1 .. MaxRid) \ taken,
             call' = [call EXCEPT ![c].batch = rest, ![c].own[v] = r]
      PROVE  \E s : SlotStep(c, s)
  <2> DEFINE own == [call[c].own EXCEPT ![v] = r]
             s == [call[c] EXCEPT !.batch = rest, !.own = own]
  <2>1. own \in RowSets
    <3>1. call[c].own \in RowSets  BY <1>1, RowFields
    <3>2. r \in 0 .. MaxRid  BY RidsAreFinite
    <3> QED BY <3>1, <3>2 DEF RowSets
  <2>2. call' = [call EXCEPT ![c] = s]  BY <1>5
  <2> HIDE DEF own
  <2>3. s \in CallRows /\ s.list = call[c].list /\ s.last = call[c].last
    BY <1>1, <1>2, <2>1 DEF CallRows
  <2> HIDE DEF s
  <2> QED BY <1>1, <2>2, <2>3 DEF SlotStep, Listed
<1> QED BY <1>3, <1>4, <1>5

\* What a page does to the row.
Scanned(c) ==
    [call[c] EXCEPT !.list = call[c].list \o Page(call[c].last),
                    !.last = NextLast(Page(call[c].last), call[c].last),
                    !.pc = IF Len(Page(call[c].last)) < PageSize
                           THEN "read" ELSE "scan"]

LEMMA ReadPageRow ==
    ASSUME NEW c, ReadPage(c)
    PROVE  call' = [call EXCEPT ![c] = Scanned(c)]
BY DEF ReadPage, Scanned, NextLast

LEMMA ReadPageTyped ==
    ASSUME TypeInv, NEW c \in Calls, ReadPage(c)
    PROVE  SlotStep(c, Scanned(c))
<1> DEFINE page == Page(call[c].last)
           list == call[c].list \o page
           last == NextLast(page, call[c].last)
           pc == IF Len(page) < PageSize THEN "read" ELSE "scan"
           r == [call[c] EXCEPT !.list = list, !.last = last, !.pc = pc]
<1>1. call[c] \in CallRows /\ Listed(call[c]) /\ rid \in RowSets
  BY DEF TypeInv, TypeOK, ListsOK
<1>2. ListOK(list, last)  BY <1>1, PageAdded DEF Listed
<1>3. Scanned(c) = r  BY DEF Scanned
<1> HIDE DEF list, last
<1>4. list \in Pages /\ last \in 0 .. MaxRid
  BY <1>2, ListIsPages DEF ListOK
<1>5. pc \in {"idle", "insert", "scan", "read", "open"}  OBVIOUS
<1> HIDE DEF pc
<1>6. r \in CallRows /\ r.list = list /\ r.last = last
  BY <1>1, <1>4, <1>5 DEF CallRows
<1> HIDE DEF r
<1>7. call' = [call EXCEPT ![c] = r]  BY <1>3, ReadPageRow
<1> QED BY <1>2, <1>3, <1>6, <1>7 DEF SlotStep, Listed

LEMMA TypeStep == RowsInv' /\ TypeInv /\ [Next]_vars => TypeInv'
<1> SUFFICES ASSUME RowsInv', TypeInv, [Next]_vars PROVE TypeInv'
  OBVIOUS
<1>1. rid' \in RowSets /\ count' \in 0 .. Cardinality(Voters)
  <2>1. rid' \in RowSets /\ count' = Cardinality(RidsOf(rid'))
    BY DEF RowsInv, RowsOK, VoterCountExact, RidsOf
  <2> QED BY <2>1, CountBounded
<1>2. ASSUME NEW c \in Calls, NEW r, SlotStep(c, r),
             voterSign' \in Seq(Rids), Ascending(voterSign'),
             signed' \in BOOLEAN, state' \in {1, 2}, openSign' \in Counts,
             told' \subseteq Counts, faults' \in 0 .. MaxFaults
      PROVE  TypeInv'
  <2>1. call' \in [Calls -> CallRows] /\ \A d \in Calls : Listed(call'[d])
    BY <1>2, SlotTyped
  <2>2. voterSign' \in Pages  BY <1>2, ListIsPages
  <2>3. TypeOK'  BY <1>1, <1>2, <2>1, <2>2 DEF TypeOK
  <2>4. ListsOK'  BY <1>2, <2>1 DEF ListsOK, Listed, ListOK, Ascending, Range
  <2> QED BY <2>3, <2>4 DEF TypeInv
<1>3. /\ voterSign \in Seq(Rids) /\ Ascending(voterSign)
      /\ signed \in BOOLEAN /\ state \in {1, 2} /\ openSign \in Counts
      /\ told \subseteq Counts /\ faults \in 0 .. MaxFaults
      /\ MaxFaults \in Nat
      /\ \A c \in Calls : /\ call[c].count \in Counts
                          /\ call[c].covers \in Counts
                          /\ call[c].list \in Seq(Rids)
                          /\ Ascending(call[c].list)
  <2>1. \A c \in Calls : call[c] \in CallRows /\ Listed(call[c])
    BY DEF TypeInv, TypeOK, ListsOK
  <2>2. \A c \in Calls : call[c].count \in Counts /\ call[c].covers \in Counts
    BY <2>1, RowFields
  <2> QED BY <2>1, <2>2, BoundsAssumption
          DEF TypeInv, TypeOK, ListsOK, Listed, ListOK
<1>4. CASE UNCHANGED vars
  BY <1>4 DEF vars, listVars, openVars, TypeInv, TypeOK, ListsOK, Listed,
              ListOK, Ascending, Range
<1>5. ASSUME NEW c \in Calls, Request(c) \/ Insert(c) \/ ReadPage(c)
      PROVE  TypeInv'
  <2>1. UNCHANGED <<listVars, openVars, faults>>
    BY <1>5 DEF Request, RegStart, ScanStart, OpenRead, Insert, ReadPage
  <2>2. PICK r : SlotStep(c, r)
    BY <1>5, RequestTyped, InsertTyped, ReadPageTyped
  <2> QED BY <1>2, <1>3, <2>1, <2>2 DEF listVars, openVars
<1>6. ASSUME NEW c \in Calls,
             \/ DeadlockAbort(c) \/ Commit(c) \/ DumpDone(c) \/ SignList(c)
             \/ OpenAll(c) \/ OpenRefused(c) \/ Fault(c)
      PROVE  TypeInv'
  <2>1. End(c)
    BY <1>6 DEF DeadlockAbort, DumpDone, OpenAll, OpenRefused, Fault, Lose,
                OpenLost, SignList, Commit
  <2>2. SlotStep(c, Idle)  BY <2>1, EndTyped
  <2>3. voterSign' \in {voterSign, call[c].list} /\ signed' \in {signed, TRUE}
    BY <1>6 DEF DeadlockAbort, DumpDone, OpenAll, OpenRefused, Fault, Lose,
                OpenLost, SignList, Commit, listVars
  <2>4. /\ state' \in {state, 1, 2} /\ openSign' \in {openSign, call[c].covers}
        /\ told' \subseteq told \cup {call[c].count}
        /\ faults' = faults \/ (faults < MaxFaults /\ faults' = faults + 1)
    BY <1>6 DEF DeadlockAbort, DumpDone, OpenAll, OpenRefused, Fault, Lose,
                OpenLost, SignList, Commit, openVars
  <2>5. faults' \in 0 .. MaxFaults  BY <1>3, <2>4
  <2>6. voterSign' \in Seq(Rids) /\ Ascending(voterSign')  BY <1>3, <2>3
  <2>7. openSign' \in Counts /\ told' \subseteq Counts  BY <1>3, <2>4
  <2>8. signed' \in BOOLEAN /\ state' \in {1, 2}  BY <1>3, <2>3, <2>4
  <2> QED BY <1>2, <2>2, <2>5, <2>6, <2>7, <2>8
<1> QED BY <1>4, <1>5, <1>6 DEF Next, Handle

\* The variables keep their types: voter_count never exceeds the addresses, and
\* no list that is read or signed is longer than there are rids, since each of
\* its pages starts after the one before.
THEOREM TypeCorrect == Spec => []TypeOK
BY InitRows, RowsStep, InitType, TypeStep, PTL DEF Spec, TypeInv

-----------------------------------------------------------------------------
(* What the scans have read.                                               *)

\* Nothing is read before a scan begins.
Clean(r) == r.pc \notin {"scan", "read"} => r.list = <<>> /\ r.last = 0

\* A scan has read the rids up to last, and at its end all of them.
Exact(r) ==
    /\ r.pc = "scan" => Range(r.list) = {x \in RidsOf(rid) : x <= r.last}
    /\ r.pc = "read" => Range(r.list) = RidsOf(rid)

Reading(r) == r.pc \in {"scan", "read"}

ScansClean == \A c \in Calls : Clean(call[c])

LEMMA InitScans == Init => ScansClean
BY DEF Init, Idle, ScansClean, Clean

LEMMA IdleScan == Clean(Idle) /\ Idle.pc = "idle" /\ ~Reading(Idle) /\ Exact(Idle)
BY DEF Idle, Clean, Reading, Exact

\* What a step that is not the last of its request does to the scan of its slot.
ScanStep(c) ==
    /\ \A d \in Calls : d # c => call'[d] = call[d]
    /\ Clean(call'[c])
    /\ Reading(call'[c]) =>
         \/ Reading(call[c]) /\ call'[c].op = call[c].op
         \/ ~Reading(call[c]) /\ call'[c].op = IF signed THEN "dump" ELSE "freeze"
    /\ call'[c].pc = "insert" => call[c].pc = "insert" \/ ~signed
    /\ Exact(call[c]) => Exact(call'[c])

LEMMA RequestScan ==
    ASSUME TypeInv, ScansClean, NEW c \in Calls, Request(c)
    PROVE  ScanStep(c)
<1>1. call[c] \in CallRows /\ call \in [Calls -> CallRows] /\ rid \in RowSets
  BY DEF TypeInv, TypeOK
<1>2. call[c].pc = "idle" /\ call[c].list = <<>> /\ call[c].last = 0
  BY DEF Request, RegStart, ScanStart, OpenRead, ScansClean, Clean
<1>3. CASE RegStart(c)
  <2>1. PICK b \in Batches, op \in Loads :
          call' = [call EXCEPT ![c].pc = "insert", ![c].op = op, ![c].batch = b]
    BY <1>3 DEF RegStart
  <2>2. /\ call'[c].pc = "insert" /\ call'[c].list = call[c].list
        /\ call'[c].last = call[c].last
        /\ \A d \in Calls : d # c => call'[d] = call[d]
    BY <1>1, <2>1 DEF CallRows
  <2>3. ~signed  BY <1>3 DEF RegStart
  <2> QED BY <1>2, <2>2, <2>3 DEF ScanStep, Clean, Reading, Exact
<1>4. CASE ScanStart(c)
  <2> DEFINE op == IF signed THEN "dump" ELSE "freeze"
  <2>1. /\ call'[c].pc = "scan" /\ call'[c].list = call[c].list
        /\ call'[c].last = call[c].last /\ call'[c].op = op
        /\ \A d \in Calls : d # c => call'[d] = call[d]
    BY <1>1, <1>4 DEF ScanStart, CallRows
  <2>2. {x \in RidsOf(rid) : x <= 0} = {}
    <3>1. RidsOf(rid) \subseteq 1 .. MaxRid  BY <1>1, RidsFinite
    <3> QED BY <3>1
  <2>3. Range(<<>>) = {}  BY DEF Range
  <2>4. Exact(call'[c])  BY <1>2, <2>1, <2>2, <2>3 DEF Exact
  <2> QED BY <1>2, <2>1, <2>4 DEF ScanStep, Clean, Reading
<1>5. CASE OpenRead(c)
  <2>1. /\ call'[c].pc = "open" /\ call'[c].list = call[c].list
        /\ call'[c].last = call[c].last
        /\ \A d \in Calls : d # c => call'[d] = call[d]
    BY <1>1, <1>5 DEF OpenRead, CallRows
  <2> QED BY <1>2, <2>1 DEF ScanStep, Clean, Reading, Exact
<1> QED BY <1>3, <1>4, <1>5 DEF Request

LEMMA InsertScan ==
    ASSUME TypeInv, ScansClean, NEW c \in Calls, Insert(c)
    PROVE  ScanStep(c)
<1> DEFINE v == Head(call[c].batch)
           rest == Tail(call[c].batch)
<1>1. call[c] \in CallRows /\ call \in [Calls -> CallRows]
  BY DEF TypeInv, TypeOK
<1>2. call[c].pc = "insert"  BY DEF Insert
<1>3. \/ call' = [call EXCEPT ![c].batch = rest]
      \/ \E r : call' = [call EXCEPT ![c].batch = rest, ![c].own[v] = r]
  BY DEF Insert
<1> HIDE DEF v, rest
<1>4. /\ call'[c].pc = "insert" /\ call'[c].list = call[c].list
      /\ call'[c].last = call[c].last
      /\ \A d \in Calls : d # c => call'[d] = call[d]
  BY <1>1, <1>2, <1>3 DEF CallRows
<1> QED BY <1>2, <1>4 DEF ScansClean, ScanStep, Clean, Reading, Exact

\* A page read while rows are added ends where it ends; read while the rows stay
\* it leaves nothing out.
LEMMA ReadPageScan ==
    ASSUME TypeInv, ScansClean, NEW c \in Calls, ReadPage(c)
    PROVE  ScanStep(c)
<1> DEFINE page == Page(call[c].last)
           list == call[c].list \o page
           last == NextLast(page, call[c].last)
           pc == IF Len(page) < PageSize THEN "read" ELSE "scan"
<1>1. call[c] \in CallRows /\ call \in [Calls -> CallRows] /\ rid \in RowSets
      /\ ListOK(call[c].list, call[c].last)
  BY DEF TypeInv, TypeOK, ListsOK, Listed
<1>2. call[c].pc = "scan"  BY DEF ReadPage
<1>3. /\ Range(call[c].list) = {r \in RidsOf(rid) : r <= call[c].last}
           => Range(list) = {r \in RidsOf(rid) : r <= last}
      /\ Range(call[c].list) = {r \in RidsOf(rid) : r <= call[c].last}
           /\ Len(page) < PageSize
           => Range(list) = RidsOf(rid)
  BY <1>1, PageAdded
<1>4. pc = "read" => Len(page) < PageSize  OBVIOUS
<1>5. pc \in {"read", "scan"}  OBVIOUS
<1>6. call' = [call EXCEPT ![c] = [call[c] EXCEPT !.list = list, !.last = last,
                                                  !.pc = pc]]
  BY ReadPageRow DEF Scanned
<1> HIDE DEF list, last, pc
<1>7. /\ call'[c].pc = pc /\ call'[c].list = list /\ call'[c].last = last
      /\ call'[c].op = call[c].op
      /\ \A d \in Calls : d # c => call'[d] = call[d]
  BY <1>1, <1>6 DEF CallRows
<1>8. Exact(call[c]) => Exact(call'[c])
  BY <1>2, <1>3, <1>4, <1>5, <1>7 DEF Exact
<1> QED BY <1>2, <1>5, <1>7, <1>8 DEF ScanStep, Clean, Reading

\* A step either goes on with a request and keeps the rows, or ends it.
LEMMA StepKinds ==
    ASSUME RowsInv, TypeInv, ScansClean, Next
    PROVE  \E c \in Calls :
             \/ /\ ScanStep(c)
                /\ UNCHANGED <<rid, voterSign, signed>>
             \/ /\ call'[c] = Idle /\ \A d \in Calls : d # c => call'[d] = call[d]
                /\ \/ Commit(c) \/ SignList(c)
                   \/ UNCHANGED <<rid, voterSign, signed>>
<1>1. PICK c \in Calls : Request(c) \/ Handle(c) \/ Fault(c)
  BY DEF Next
<1>2. CASE Request(c) \/ Insert(c) \/ ReadPage(c)
  <2>1. ScanStep(c)  BY <1>2, RequestScan, InsertScan, ReadPageScan
  <2>2. UNCHANGED <<rid, voterSign, signed>>
    BY <1>2 DEF Request, RegStart, ScanStart, OpenRead, Insert, ReadPage, listVars
  <2> QED BY <2>1, <2>2
<1>3. CASE \/ DeadlockAbort(c) \/ Commit(c) \/ DumpDone(c) \/ SignList(c)
           \/ OpenAll(c) \/ OpenRefused(c) \/ Fault(c)
  <2>1. End(c)
    BY <1>3 DEF DeadlockAbort, DumpDone, OpenAll, OpenRefused, Fault, Lose,
                OpenLost, SignList, Commit
  <2>2. call'[c] = Idle /\ \A d \in Calls : d # c => call'[d] = call[d]
    BY <2>1, EndEffect DEF RowsInv
  <2>3. \/ Commit(c) \/ SignList(c)
        \/ UNCHANGED <<rid, voterSign, signed>>
    BY <1>3 DEF DeadlockAbort, DumpDone, OpenAll, OpenRefused, Fault, Lose,
                OpenLost, listVars
  <2> QED BY <2>2, <2>3
<1> QED BY <1>1, <1>2, <1>3 DEF Handle

LEMMA ScansStep ==
    RowsInv /\ TypeInv /\ ScansClean /\ [Next]_vars => ScansClean'
<1> SUFFICES ASSUME RowsInv, TypeInv, ScansClean, [Next]_vars
             PROVE  ScansClean'
  OBVIOUS
<1>1. CASE UNCHANGED vars
  BY <1>1 DEF vars, ScansClean, Clean
<1>2. CASE Next
  <2>1. PICK c \in Calls :
          /\ \A d \in Calls : d # c => call'[d] = call[d]
          /\ Clean(call'[c])
    <3>1. Clean(Idle)  BY IdleScan
    <3> QED BY <1>2, <3>1, StepKinds DEF ScanStep
  <2> QED BY <2>1 DEF ScansClean, Clean
<1> QED BY <1>1, <1>2

(***************************************************************************)
(* An export: the list is signed, so without a late load its rows stay.    *)
(***************************************************************************)
DumpInv ==
    \A c \in Calls :
      call[c].op = "dump" /\ Reading(call[c]) => signed /\ Exact(call[c])

LEMMA InitDump == Init => DumpInv
BY IdleScan DEF Init, DumpInv

LEMMA DumpStep ==
    RowsInv /\ TypeInv /\ ScansClean /\ NoLateLoad /\ DumpInv /\ [Next]_vars
      => DumpInv'
<1> SUFFICES ASSUME RowsInv, TypeInv, ScansClean, NoLateLoad, DumpInv,
                    [Next]_vars
             PROVE  DumpInv'
  OBVIOUS
<1>1. CASE UNCHANGED vars
  BY <1>1 DEF vars, listVars, DumpInv, Reading, Exact, RidsOf
<1>2. CASE Next
  <2>1. signed => rid' = rid /\ signed'
    <3>1. signed => signed'
      BY <1>2, StepKinds DEF Commit, SignList
    <3>2. ASSUME signed PROVE rid' = rid
      <4>1. ASSUME NEW c \in Calls, Commit(c), ~TooLate(c) PROVE FALSE
        BY <3>2, <4>1 DEF NoLateLoad, Commit, TooLate
      <4> QED BY <1>2, <4>1, RidChange
    <3> QED BY <3>1, <3>2
  <2>2. SUFFICES ASSUME NEW d \in Calls, call'[d].op = "dump",
                        Reading(call'[d])
                 PROVE  signed /\ Exact(call'[d])
    <3>1. \A d \in Calls : (Reading(call[d]))' = Reading(call'[d])
      BY DEF Reading
    <3>2. rid' = rid => \A d \in Calls : (Exact(call[d]))' = Exact(call'[d])
      BY DEF Exact, RidsOf
    <3>3. \A d \in Calls : call'[d].op = "dump" /\ Reading(call'[d])
                             => signed /\ Exact(call'[d])
      BY <2>2
    <3> QED BY <2>1, <3>1, <3>2, <3>3 DEF DumpInv
  <2>3. PICK c \in Calls :
          /\ \A e \in Calls : e # c => call'[e] = call[e]
          /\ ScanStep(c) \/ call'[c] = Idle
    BY <1>2, StepKinds DEF ScanStep
  <2>4. CASE d # c
    BY <2>2, <2>3, <2>4 DEF DumpInv
  <2>5. CASE d = c
    <3>1. ScanStep(c)  BY <2>2, <2>3, <2>5, IdleScan
    <3>2. CASE Reading(call[c]) /\ call[c].op = "dump"
      BY <2>5, <3>1, <3>2 DEF ScanStep, DumpInv
    <3>3. CASE ~Reading(call[c])
      <4>1. signed  BY <2>2, <2>5, <3>1, <3>3 DEF ScanStep
      <4>2. Exact(call[c])  BY <3>3 DEF Exact, Reading
      <4> QED BY <2>5, <3>1, <4>1, <4>2 DEF ScanStep
    <3> QED BY <2>2, <2>5, <3>1, <3>2, <3>3 DEF ScanStep
  <2> QED BY <2>4, <2>5
<1> QED BY <1>1, <1>2

\* dumpVoters writes every voter of the signed list once, in the order of the
\* signature, however its pages interleave with registrations that are rolled
\* back, unless a load outlived the freeze.
THEOREM DumpIsWholeHolds == Spec => DumpIsWhole
<1>1. TypeInv /\ DumpInv =>
        \A c \in Calls :
          call[c].pc = "read" /\ call[c].op = "dump"
            => call[c].list = InOrder(RidsOf(rid))
  <2> SUFFICES ASSUME TypeInv, DumpInv, NEW c \in Calls,
                      call[c].pc = "read", call[c].op = "dump"
               PROVE  call[c].list = InOrder(RidsOf(rid))
    OBVIOUS
  <2>1. Range(call[c].list) = RidsOf(rid)  BY DEF DumpInv, Reading, Exact
  <2>2. call[c].list \in Seq(Rids) /\ Ascending(call[c].list)
    BY DEF TypeInv, ListsOK, Listed, ListOK
  <2>3. RidsOf(rid) \in SUBSET Rids
    BY RidsFinite DEF Rids, TypeInv, TypeOK
  <2> QED BY <2>1, <2>2, <2>3, OneOrder
<1> QED
  BY <1>1, InitRows, RowsStep, InitType, TypeStep, InitScans, ScansStep,
     InitDump, DumpStep, PTL
  DEF Spec, DumpIsWhole

(***************************************************************************)
(* Without overlapping requests: what is signed is what was read, and what *)
(* was read is all there is.                                               *)
(***************************************************************************)
SignedInv ==
    /\ \A c \in Calls : Exact(call[c])
    /\ signed => Range(voterSign) = RidsOf(rid)
    /\ signed => \A c \in Calls : call[c].pc # "insert"

LEMMA InitSigned == Init => SignedInv
BY IdleScan DEF Init, SignedInv

Busy == {c \in Calls : call[c].pc # "idle"}

\* At most one request at a time: two that are at work are the same.
LEMMA OneBusy ==
    ASSUME OneAtATime, NEW c \in Busy, NEW d \in Busy
    PROVE  c = d
<1> SUFFICES ASSUME c # d PROVE FALSE  OBVIOUS
<1>1. IsFiniteSet(Busy) /\ Cardinality(Busy) <= 1 /\ Cardinality(Busy) \in Nat
  BY FiniteAssumption, FS_Subset, FS_CardinalityType DEF OneAtATime, Busy
<1>2. {c, d} \subseteq Busy /\ Cardinality({c, d}) = 2
  <2>1. Cardinality({c}) = 1 /\ IsFiniteSet({c})  BY FS_Singleton
  <2>2. {c, d} = {c} \cup {d} /\ d \notin {c}  OBVIOUS
  <2> QED BY <2>1, <2>2, FS_AddElement
<1>3. Cardinality({c, d}) <= Cardinality(Busy)  BY <1>1, <1>2, FS_Subset
<1> QED BY <1>1, <1>2, <1>3

LEMMA SignedStep ==
    RowsInv /\ TypeInv /\ ScansClean /\ OneAtATime /\ SignedInv /\ [Next]_vars
      => SignedInv'
<1> SUFFICES ASSUME RowsInv, TypeInv, ScansClean, OneAtATime, SignedInv,
                    [Next]_vars
             PROVE  SignedInv'
  OBVIOUS
<1>1. CASE UNCHANGED vars
  BY <1>1 DEF vars, listVars, SignedInv, Exact, RidsOf
<1>2. CASE Next
  <2>1. PICK c \in Calls :
          \/ /\ ScanStep(c)
             /\ UNCHANGED <<rid, voterSign, signed>>
          \/ /\ call'[c] = Idle /\ \A d \in Calls : d # c => call'[d] = call[d]
             /\ \/ Commit(c) \/ SignList(c)
                \/ UNCHANGED <<rid, voterSign, signed>>
    BY <1>2, StepKinds
  <2>2. ASSUME rid' = rid PROVE \A d \in Calls : (Exact(call[d]))'
    <3>1. \A d \in Calls : (Exact(call[d]))' = Exact(call'[d])
      BY <2>2 DEF Exact, RidsOf
    <3>2. \A d \in Calls : Exact(call'[d])
      BY <2>1, IdleScan DEF SignedInv, ScanStep
    <3> QED BY <3>1, <3>2
  <2>3. rid' = rid => RidsOf(rid)' = RidsOf(rid)  BY DEF RidsOf
  <2>4. CASE ScanStep(c) /\ UNCHANGED <<rid, voterSign, signed>>
    BY <2>2, <2>3, <2>4 DEF SignedInv, ScanStep
  <2>5. CASE call'[c] = Idle /\ (\A d \in Calls : d # c => call'[d] = call[d])
             /\ UNCHANGED <<rid, voterSign, signed>>
    BY <2>2, <2>3, <2>5, IdleScan DEF SignedInv
  <2>6. CASE Commit(c)
    <3>1. call[c].pc = "insert" /\ ~signed /\ ~signed'
      BY <2>6 DEF Commit, SignedInv
    <3>2. \A d \in Calls : call'[d].pc = "idle"
      <4>1. c \in Busy  BY <3>1 DEF Busy
      <4>2. call'[c].pc = "idle"
            /\ \A d \in Calls : d # c => call'[d] = call[d]
        <5>1. End(c)  BY <2>6 DEF Commit
        <5> QED BY <5>1, EndEffect, IdleScan DEF RowsInv
      <4>3. \A d \in Calls : d # c => d \notin Busy  BY <4>1, OneBusy
      <4> QED BY <4>2, <4>3 DEF Busy
    <3>3. \A d \in Calls : (Exact(call[d]))'  BY <3>2 DEF Exact
    <3> QED BY <3>1, <3>3 DEF SignedInv
  <2>7. CASE SignList(c)
    <3>1. /\ call[c].pc = "read" /\ rid' = rid
          /\ voterSign' = IF signed THEN voterSign ELSE call[c].list
      BY <2>7 DEF SignList
    <3>2. \A d \in Calls : call'[d].pc # "insert"
      <4>1. c \in Busy  BY <3>1 DEF Busy
      <4>2. call'[c].pc = "idle"
            /\ \A d \in Calls : d # c => call'[d] = call[d]
        <5>1. End(c)  BY <2>7 DEF SignList
        <5> QED BY <5>1, EndEffect, IdleScan DEF RowsInv
      <4>3. \A d \in Calls : d # c => d \notin Busy  BY <4>1, OneBusy
      <4> QED BY <4>2, <4>3 DEF Busy
    <3>3. Range(call[c].list) = RidsOf(rid)  BY <3>1 DEF SignedInv, Exact
    <3>4. Range(voterSign') = RidsOf(rid)  BY <3>1, <3>3 DEF SignedInv
    <3>5. Range(voterSign)' = Range(voterSign')  BY DEF Range
    <3> QED BY <2>2, <2>3, <3>1, <3>2, <3>4, <3>5 DEF SignedInv
  <2> QED BY <2>1, <2>4, <2>5, <2>6, <2>7
<1> QED BY <1>1, <1>2

\* voter_sign covers exactly the registered voters, in the order in which the
\* export lists them, as long as requests do not overlap.
THEOREM SignedListIsWholeHolds == Spec => SignedListIsWhole
<1>1. TypeInv /\ SignedInv => (signed => voterSign = InOrder(RidsOf(rid)))
  <2> SUFFICES ASSUME TypeInv, SignedInv, signed
               PROVE  voterSign = InOrder(RidsOf(rid))
    OBVIOUS
  <2>1. Range(voterSign) = RidsOf(rid)  BY DEF SignedInv
  <2>2. voterSign \in Seq(Rids) /\ Ascending(voterSign)
    BY DEF TypeInv, ListsOK
  <2>3. RidsOf(rid) \in SUBSET Rids
    BY RidsFinite DEF Rids, TypeInv, TypeOK
  <2> QED BY <2>1, <2>2, <2>3, OneOrder
<1> QED
  BY <1>1, InitRows, RowsStep, InitType, TypeStep, InitScans, ScansStep,
     InitSigned, SignedStep, PTL
  DEF Spec, SignedListIsWhole
=============================================================================
