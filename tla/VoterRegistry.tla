---------------------------- MODULE VoterRegistry ----------------------------
(***************************************************************************)
(* The voter list of one frozen election at Auth: registration from the    *)
(* page (regVoter) or from a file (loadVoters), the signature over the     *)
(* list (freezeVoters), its export (dumpVoters), and the voter_count the   *)
(* servers are told when the election opens (openElection; OpenClose has   *)
(* the rest of it).  Each request is one PostgreSQL transaction at READ    *)
(* COMMITTED: a statement sees what is committed when it starts, and an    *)
(* INSERT of a key that another open transaction has inserted waits for    *)
(* that transaction to end.                                                *)
(***************************************************************************)
EXTENDS Naturals, Sequences, FiniteSets, SequencesExt

CONSTANTS Voters,     \* identifiers: email addresses
          MaxRid,     \* bound: rids are drawn from 1..MaxRid, in SQL's order
          Batches,    \* the lists of identifiers registered by one request
          Calls,      \* slots for requests handled at a time
          PageSize,   \* rows per page (1000 in the code)
          Loads,      \* requests that add voters: "reg", "load"
          MaxFaults   \* bound: transactions lost to a connection failure

ASSUME FiniteAssumption == IsFiniteSet(Voters) /\ IsFiniteSet(Calls)
ASSUME BatchesAssumption == Batches \subseteq Seq(Voters)
ASSUME BoundsAssumption ==
    /\ MaxRid \in Nat /\ MaxRid >= Cardinality(Voters)
    /\ PageSize \in Nat \ {0}
    /\ MaxFaults \in Nat
ASSUME LoadsAssumption == Loads \subseteq {"reg", "load"}

VARIABLES
    rid,        \* auth.voter: rid[v] of the committed row of v, NoRow if none
    count,      \* auth.election.voter_count
    voterSign,  \* the rids that voter_sign covers, in order, once signed
    signed,     \* is_voter_sign
    state,      \* auth.election.state: 1 or 2
    openSign,   \* the voter_count that the stored open_sign covers, or NoCount
    told,       \* the voter_counts that opened servers hold
    call,       \* the open transactions
    faults

listVars == <<rid, count, voterSign, signed>>
openVars == <<state, openSign, told>>
vars == <<listVars, openVars, call, faults>>

NoRow == 0
NoCount == Cardinality(Voters) + 1
NoRows == [v \in Voters |-> NoRow]

\* own: the rows inserted but not committed; last, list: the scan's position
\* and what it has read; count, covers: the voter_count of an opening and the
\* one its signature covers.
Idle == [pc |-> "idle", op |-> "reg", batch |-> <<>>, own |-> NoRows,
         last |-> 0, list |-> <<>>, count |-> NoCount, covers |-> NoCount]

Init ==
    /\ rid = NoRows
    /\ count = 0
    /\ voterSign = <<>>
    /\ signed = FALSE
    /\ state = 1 /\ openSign = NoCount /\ told = {}
    /\ call = [c \in Calls |-> Idle]
    /\ faults = 0

RidsOf(rows) == {rows[v] : v \in Voters} \ {NoRow}
End(c) == call' = [call EXCEPT ![c] = Idle]

-----------------------------------------------------------------------------
(* regVoter and loadVoters.                                                *)

RegStart(c) ==
    /\ call[c].pc = "idle"
    /\ ~signed
    /\ \E b \in Batches, op \in Loads :
         call' = [call EXCEPT ![c].pc = "insert", ![c].op = op, ![c].batch = b]
    /\ UNCHANGED <<listVars, openVars, faults>>

\* The next INSERT of c must wait for d.
WaitsFor(c, d) ==
    /\ c # d
    /\ call[c].pc = "insert" /\ call[c].batch # <<>>
    /\ call[d].own[Head(call[c].batch)] # NoRow

\* INSERT ... ON CONFLICT DO NOTHING, with a fresh random rid.
Insert(c) ==
    /\ call[c].pc = "insert"
    /\ call[c].batch # <<>>
    /\ \A d \in Calls : ~WaitsFor(c, d)
    /\ LET v == Head(call[c].batch)
           taken == RidsOf(rid) \cup UNION {RidsOf(call[d].own) : d \in Calls}
       IN  \/ /\ rid[v] # NoRow \/ call[c].own[v] # NoRow
              /\ call' = [call EXCEPT ![c].batch = Tail(@)]
           \/ /\ rid[v] = NoRow /\ call[c].own[v] = NoRow
              /\ \E r \in (1 .. MaxRid) \ taken :
                   call' = [call EXCEPT ![c].batch = Tail(@), ![c].own[v] = r]
    /\ UNCHANGED <<listVars, openVars, faults>>

\* A cycle of waiting transactions: PostgreSQL fails one of them.
Deadlocked(c) ==
    \E S \in SUBSET Calls : /\ c \in S
                            /\ \A d \in S : \E e \in S : WaitsFor(d, e)

DeadlockAbort(c) ==
    /\ Deadlocked(c)
    /\ End(c)
    /\ UNCHANGED <<listVars, openVars, faults>>

Inserted(c) == Cardinality(RidsOf(call[c].own))

\* UPDATE voter_count matches no row: only regVoter asks again for
\* is_voter_sign = false.
TooLate(c) == state # 1 \/ (call[c].op = "reg" /\ signed)

\* What c has inserted is visible.
Publish(c) ==
    rid' = [v \in Voters |-> IF call[c].own[v] # NoRow THEN call[c].own[v]
                                                       ELSE rid[v]]

\* Mutant: the count read at the beginning is written back.
CommitCountAll(c) ==
    /\ call[c].pc = "insert" /\ call[c].batch = <<>>
    /\ IF TooLate(c) THEN UNCHANGED <<rid, count>>
                     ELSE Publish(c) /\ count' = Inserted(c)
    /\ End(c)
    /\ UNCHANGED <<voterSign, signed, openVars, faults>>

\* Mutant: no condition on the election's row.
CommitUnguarded(c) ==
    /\ call[c].pc = "insert" /\ call[c].batch = <<>>
    /\ Publish(c) /\ count' = count + Inserted(c)
    /\ End(c)
    /\ UNCHANGED <<voterSign, signed, openVars, faults>>

\* UPDATE voter_count, then COMMIT, or ROLLBACK when it matches no row.
Commit(c) ==
    /\ call[c].pc = "insert" /\ call[c].batch = <<>>
    /\ IF TooLate(c) THEN UNCHANGED <<rid, count>>
                     ELSE Publish(c) /\ count' = count + Inserted(c)
    /\ End(c)
    /\ UNCHANGED <<voterSign, signed, openVars, faults>>

-----------------------------------------------------------------------------
(* freezeVoters and dumpVoters.                                            *)

ScanStart(c) ==
    /\ call[c].pc = "idle"
    /\ call' = [call EXCEPT ![c].pc = "scan",
                            ![c].op = IF signed THEN "dump" ELSE "freeze"]
    /\ UNCHANGED <<listVars, openVars, faults>>

\* ORDER BY rid ASC.
Ascending(list) ==
    \A i, j \in DOMAIN list : i < j => list[i] < list[j]
InOrder(rids) ==
    CHOOSE list \in [1 .. Cardinality(rids) -> rids] : Ascending(list)

\* ... WHERE rid > last ORDER BY rid ASC LIMIT PageSize.
Page(last) ==
    LET rest == InOrder({r \in RidsOf(rid) : r > last})
    IN  SubSeq(rest, 1, IF Len(rest) < PageSize THEN Len(rest) ELSE PageSize)

\* Mutant: the next page starts from the beginning.
ReadPageAgain(c) ==
    /\ call[c].pc = "scan"
    /\ LET page == Page(0)
       IN  call' = [call EXCEPT
                      ![c].list = @ \o page,
                      ![c].pc = IF Len(page) < PageSize THEN "read" ELSE "scan"]
    /\ UNCHANGED <<listVars, openVars, faults>>

\* Mutant: a short page does not end the loop.
ReadPageForever(c) ==
    /\ call[c].pc = "scan"
    /\ LET page == Page(call[c].last)
       IN  call' = [call EXCEPT ![c].list = @ \o page,
                                ![c].last = IF page = <<>> THEN @ ELSE Last(page)]
    /\ UNCHANGED <<listVars, openVars, faults>>

\* Mutant: the next page starts after the row that follows the last one.
ReadPageSkip(c) ==
    /\ call[c].pc = "scan"
    /\ LET page == Page(call[c].last)
       IN  call' = [call EXCEPT
                      ![c].list = @ \o page,
                      ![c].last = IF page = <<>> THEN @ ELSE Last(page) + 1,
                      ![c].pc = IF Len(page) < PageSize THEN "read" ELSE "scan"]
    /\ UNCHANGED <<listVars, openVars, faults>>

ReadPage(c) ==
    /\ call[c].pc = "scan"
    /\ LET page == Page(call[c].last)
       IN  call' = [call EXCEPT
                      ![c].list = @ \o page,
                      ![c].last = IF page = <<>> THEN @ ELSE Last(page),
                      ![c].pc = IF Len(page) < PageSize THEN "read" ELSE "scan"]
    /\ UNCHANGED <<listVars, openVars, faults>>

\* UPDATE ... SET voter_sign WHERE is_voter_sign = false.
SignList(c) ==
    /\ call[c].pc = "read" /\ call[c].op = "freeze"
    /\ voterSign' = IF signed THEN voterSign ELSE call[c].list
    /\ signed' = TRUE
    /\ End(c)
    /\ UNCHANGED <<rid, count, openVars, faults>>

\* The file is complete.
DumpDone(c) ==
    /\ call[c].pc = "read" /\ call[c].op = "dump"
    /\ End(c)
    /\ UNCHANGED <<listVars, openVars, faults>>

-----------------------------------------------------------------------------
(* openElection, as far as the voters are concerned.                       *)

\* Mutant: the election is opened before its voters are signed.
OpenReadUnsigned(c) ==
    /\ call[c].pc = "idle"
    /\ state = 1
    /\ call' = [call EXCEPT
                  ![c].pc = "open", ![c].count = count,
                  ![c].covers = IF openSign = NoCount THEN count ELSE openSign]
    /\ UNCHANGED <<listVars, openVars, faults>>

\* The opening statement is signed with the voter_count read, or, after a try
\* that failed, the stored signature is sent with the voter_count read now.
OpenRead(c) ==
    /\ call[c].pc = "idle"
    /\ state = 1 /\ signed
    /\ call' = [call EXCEPT
                  ![c].pc = "open", ![c].count = count,
                  ![c].covers = IF openSign = NoCount THEN count ELSE openSign]
    /\ UNCHANGED <<listVars, openVars, faults>>

\* A server that is not open accepts a signature that verifies.
Verifies(c) == call[c].covers = call[c].count

\* All servers answer "opened": because they have just accepted, or, the
\* signature not being looked at, because they were open before.
OpenAll(c) ==
    /\ call[c].pc = "open"
    /\ \/ Verifies(c) /\ told' = told \cup {call[c].count}
       \/ told # {} /\ UNCHANGED told
    /\ state' = 2 /\ openSign' = call[c].covers
    /\ End(c)
    /\ UNCHANGED <<listVars, faults>>

\* A server refuses.
OpenRefused(c) ==
    /\ call[c].pc = "open" /\ ~Verifies(c)
    /\ state' = 1 /\ openSign' = call[c].covers
    /\ End(c)
    /\ UNCHANGED <<listVars, told, faults>>

\* A post or an answer is lost; or Auth stops before it stores anything.
OpenLost(c) ==
    /\ faults < MaxFaults
    /\ call[c].pc = "open"
    /\ told' \in {told} \cup {told \cup {n} : n \in {call[c].count} \cap
                                                    {call[c].covers}}
    /\ \/ state' = 1 /\ openSign' = call[c].covers
       \/ UNCHANGED <<state, openSign>>
    /\ End(c)
    /\ faults' = faults + 1
    /\ UNCHANGED listVars

-----------------------------------------------------------------------------
\* The database or its connection fails: the transaction is rolled back.
Lose(c) ==
    /\ faults < MaxFaults
    /\ call[c].pc \notin {"idle", "open"}
    /\ End(c)
    /\ faults' = faults + 1
    /\ UNCHANGED <<listVars, openVars>>

Request(c) == RegStart(c) \/ ScanStart(c) \/ OpenRead(c)

Handle(c) ==
    \/ Insert(c)
    \/ DeadlockAbort(c)
    \/ Commit(c)
    \/ ReadPage(c)
    \/ SignList(c)
    \/ DumpDone(c)
    \/ OpenAll(c)
    \/ OpenRefused(c)

Fault(c) == Lose(c) \/ OpenLost(c)

Next == \E c \in Calls : Request(c) \/ Handle(c) \/ Fault(c)

Spec == Init /\ [][Next]_vars

\* A handler that can go on does, and a deadlock is found in the end.
FairSpec == Spec /\ \A c \in Calls : WF_vars(Handle(c))

-----------------------------------------------------------------------------
(* Properties.                                                             *)

RowSets == [Voters -> 0 .. MaxRid]
Pages == UNION {[1 .. n -> 1 .. MaxRid] : n \in 0 .. MaxRid}
Counts == 0 .. NoCount
CallRows == [pc : {"idle", "insert", "scan", "read", "open"},
             op : {"reg", "load", "freeze", "dump"}, batch : Seq(Voters),
             own : RowSets, last : 0 .. MaxRid, list : Pages,
             count : Counts, covers : Counts]

TypeOK ==
    /\ rid \in RowSets
    /\ count \in 0 .. Cardinality(Voters)
    /\ voterSign \in Pages
    /\ signed \in BOOLEAN
    /\ state \in {1, 2} /\ openSign \in Counts /\ told \subseteq Counts
    /\ call \in [Calls -> CallRows]
    /\ faults \in 0 .. MaxFaults

\* voter_count is the number of rows, however registrations of the same
\* addresses overlap, wait for each other, or are rolled back (the count each
\* of them adds is what its own INSERTs reported).
VoterCountExact == count = Cardinality(RidsOf(rid))

\* The voters that voter_sign was made over are final as far as the page is
\* concerned: a registration still inserting when the list is signed is rolled
\* back (regVoter.js:79).  Only a load that began before adds voters to a
\* signed list, since its UPDATE asks for state = 1 only (loadVoters.js:65);
\* once the election is open nobody does.
VotersStayAfterFreeze ==
    [][signed => \/ rid' = rid
                 \/ /\ state = 1
                    /\ \E c \in Calls : call[c].op = "load" /\ Commit(c)]_vars

\* No load outlives the freeze of the voters.
NoLateLoad ==
    signed => \A c \in Calls : call[c].pc = "insert" => call[c].op = "reg"

\* The voter_count that any server was opened with, in whatever try, is the
\* one that Auth closes the election with (closeElection.js:110): otherwise no
\* server accepts the closing signature (esp/closeElection.js:71).
CountToldIsFinal == []NoLateLoad => [](told \subseteq {count})

\* A complete export lists every registered voter once, in order, across the
\* page boundaries, while registrations that began before the freeze are still
\* at work: they can add nothing any more.
DumpIsWhole ==
    []NoLateLoad =>
        [](\A c \in Calls :
             call[c].pc = "read" /\ call[c].op = "dump"
                 => call[c].list = InOrder(RidsOf(rid)))

\* At most one handler at work.  The page does not enforce it: the form that
\* registers voters is not locked by a pending freeze (election.js:217, 245).
OneAtATime == Cardinality({c \in Calls : call[c].pc # "idle"}) <= 1

\* As long as requests do not overlap voter_sign covers exactly the registered
\* rows, as whoever verifies the exported list needs.
SignedListIsWhole ==
    []OneAtATime => [](signed => voterSign = InOrder(RidsOf(rid)))

\* Every request is answered: transactions that wait for each other's rows do
\* not wait for ever, and a scan ends although rows are added to it.
EveryCallEnds ==
    \A c \in Calls : call[c].pc # "idle" ~> call[c].pc = "idle"
=============================================================================
