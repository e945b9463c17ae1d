------------------------------ MODULE Tallying ------------------------------
(***************************************************************************)
(* From the dumped ballots to the published result.  The operator of each  *)
(* teller runs electionTallying, which adds the shares that the ballots    *)
(* assign to the teller, stores the sum and sends it to the ESP; the ESP's *)
(* operator runs finallyTallying, which checks every teller's sum against  *)
(* the commitments of the ballots, and publishes the total or deletes the  *)
(* sums that are wrong.  Any script may be run again, at any time; a       *)
(* teller runs one at a time, but a run that failed stays there, with      *)
(* its transaction, until the operator stops it.                           *)
(*                                                                         *)
(* A sum is the set of the shares <<ballot, i>> added up: a commitment     *)
(* matches one set only (the commitments are binding), and no share is     *)
(* added twice by one teller (is_sum).                                     *)
(***************************************************************************)
EXTENDS Naturals, FiniteSets

CONSTANTS Ballots,    \* ballots accepted by the ESP
          N,          \* tellers and shares are 1..N
          Routes,     \* possible zs[1..N].idx of a ballot
          Files,      \* ballot files that an operator may pass to a script
          Finals,     \* runs of finallyTallying at a time
          MaxFaults   \* bound: submissions lost, counts that fail

Tellers == 1 .. N
Shares == 1 .. N
Sums == SUBSET (Ballots \X Shares)

None == {<<>>}   \* SQL NULL: not a sum

ASSUME RoutesAssumption == Routes \subseteq [Shares -> Tellers]
ASSUME FilesAssumption == Files \subseteq SUBSET Ballots /\ Ballots \in Files
ASSUME BoundsAssumption == N \in Nat /\ MaxFaults \in Nat

VARIABLES
    route,      \* route[b][i]: the teller that holds share i of b
    own,        \* own[t]: election.count at the teller
    marked,     \* marked[t]: the shares that a failed run keeps locked
    result,     \* result[t]: election_data.teller[t].count at the ESP
    summation,  \* the published result
    sub,        \* sub[t]: the submission of teller t
    final,      \* final[f]: a run of finallyTallying, and what it has read
    late,       \* a second close handler has read the row but not written it
    faults

vars == <<route, own, marked, result, summation, sub, final, late, faults>>

NoFinal == [pc |-> "idle", file |-> {}, read |-> [t \in Tellers |-> None]]

Init ==
    /\ route \in [Ballots -> Routes]
    /\ own = [t \in Tellers |-> None]
    /\ marked = [t \in Tellers |-> {}]
    /\ result = [t \in Tellers |-> None]
    /\ summation = None
    /\ sub = [t \in Tellers |-> "none"]
    /\ final = [f \in Finals |-> NoFinal]
    /\ late \in BOOLEAN
    /\ faults = 0

-----------------------------------------------------------------------------
(* electionTallying at a teller, and submitTellerResult at the ESP.        *)

\* The shares that the ballots of a file assign to t, by idx.
Held(t, file) == {p \in file \X Shares : route[p[1]][p[2]] = t}

\* Mutant: a stored count is not sent again.
RunTellerOnce(t, file) ==
    /\ sub[t] = "none"
    /\ own[t] = None /\ Held(t, file) \cap marked[t] = {}
    /\ own' = [own EXCEPT ![t] = Held(t, file)]
    /\ sub' = [sub EXCEPT ![t] = "sent"]
    /\ UNCHANGED <<route, marked, result, summation, final, late, faults>>

\* The first run counts, unless it waits at a row that a failed run has
\* marked; a later one sends the stored count again.
RunTeller(t, file) ==
    /\ sub[t] = "none"
    /\ \/ own[t] # None /\ UNCHANGED own
       \/ /\ own[t] = None /\ Held(t, file) \cap marked[t] = {}
          /\ own' = [own EXCEPT ![t] = Held(t, file)]
    /\ sub' = [sub EXCEPT ![t] = "sent"]
    /\ UNCHANGED <<route, marked, result, summation, final, late, faults>>

\* A share of the file is not at the teller, a line is no ballot, the database
\* fails: the run has marked some rows, and does not end its transaction.
CountFails(t, file) ==
    /\ faults < MaxFaults
    /\ sub[t] = "none" /\ own[t] = None /\ marked[t] = {}
    /\ \E some \in SUBSET Held(t, file) : marked' = [marked EXCEPT ![t] = some]
    /\ faults' = faults + 1
    /\ UNCHANGED <<route, own, result, summation, sub, final, late>>

\* The operator stops the failed run: the transaction is rolled back.
StopFailed(t) ==
    /\ marked[t] # {}
    /\ marked' = [marked EXCEPT ![t] = {}]
    /\ UNCHANGED <<route, own, result, summation, sub, final, late, faults>>

LoseSubmission(t) ==
    /\ faults < MaxFaults
    /\ sub[t] # "none"
    /\ sub' = [sub EXCEPT ![t] = "none"]
    /\ faults' = faults + 1
    /\ UNCHANGED <<route, own, marked, result, summation, final, late>>

\* Nothing to do when the result is published or this teller's sum is there.
SubmitCheck(t) ==
    /\ sub[t] = "sent"
    /\ sub' = [sub EXCEPT ![t] = IF summation # None \/ result[t] # None
                                 THEN "none" ELSE "checked"]
    /\ UNCHANGED <<route, own, marked, result, summation, final, late, faults>>

\* jsonb_set of this teller's entry only.
SubmitWrite(t) ==
    /\ sub[t] = "checked"
    /\ result' = [result EXCEPT ![t] = own[t]]
    /\ sub' = [sub EXCEPT ![t] = "none"]
    /\ UNCHANGED <<route, own, marked, summation, final, late, faults>>

-----------------------------------------------------------------------------
(* finallyTallying at the ESP.                                             *)

\* Mutant: it does not wait for the tellers.
FinalStartEarly(f, file) ==
    /\ final[f].pc = "idle"
    /\ summation = None
    /\ final' = [final EXCEPT ![f] = [pc |-> "verify", file |-> file,
                                      read |-> result]]
    /\ UNCHANGED <<route, own, marked, result, summation, sub, late, faults>>

FinalStart(f, file) ==
    /\ final[f].pc = "idle"
    /\ summation = None
    /\ \A t \in Tellers : result[t] # None
    /\ final' = [final EXCEPT ![f] = [pc |-> "verify", file |-> file,
                                      read |-> result]]
    /\ UNCHANGED <<route, own, marked, result, summation, sub, late, faults>>

\* Mutant: a sum is compared with the commitments of some ballots only.
CorrectSome(f, t) == final[f].read[t] \subseteq final[f].file \X {t}

\* The sum matches the product of the commitments at position t of the ballots.
Correct(f, t) == final[f].read[t] = final[f].file \X {t}

AllCorrect(f) == \A t \in Tellers : Correct(f, t)

Publish(f) ==
    /\ final[f].pc = "verify"
    /\ AllCorrect(f)
    /\ summation' = UNION {final[f].read[t] : t \in Tellers}
    /\ final' = [final EXCEPT ![f] = NoFinal]
    /\ UNCHANGED <<route, own, marked, result, sub, late, faults>>

\* Mutant: a run that finds a wrong result withdraws what was published.
RejectWithdraw(f) ==
    /\ final[f].pc = "verify"
    /\ ~AllCorrect(f)
    /\ summation' = None
    /\ result' = [t \in Tellers |-> IF Correct(f, t) THEN result[t] ELSE None]
    /\ final' = [final EXCEPT ![f] = NoFinal]
    /\ UNCHANGED <<route, own, marked, sub, late, faults>>

\* Wrong results are deleted, and their tellers must submit again.
Reject(f) ==
    /\ final[f].pc = "verify"
    /\ ~AllCorrect(f)
    /\ result' = [t \in Tellers |-> IF Correct(f, t) THEN result[t] ELSE None]
    /\ final' = [final EXCEPT ![f] = NoFinal]
    /\ UNCHANGED <<route, own, marked, summation, sub, late, faults>>

\* The other close handler replaces the whole election_data by what it read
\* when the election was open, without any teller's count.
LateClose ==
    /\ late
    /\ late' = FALSE
    /\ result' = [t \in Tellers |-> None]
    /\ UNCHANGED <<route, own, marked, summation, sub, final, faults>>

-----------------------------------------------------------------------------
Submit(t) == SubmitCheck(t) \/ SubmitWrite(t)
Verify(f) == Publish(f) \/ Reject(f)

Next ==
    \/ \E t \in Tellers, file \in Files : RunTeller(t, file) \/ CountFails(t, file)
    \/ \E t \in Tellers : StopFailed(t) \/ Submit(t) \/ LoseSubmission(t)
    \/ \E f \in Finals, file \in Files : FinalStart(f, file)
    \/ \E f \in Finals : Verify(f)
    \/ LateClose

Spec == Init /\ [][Next]_vars

\* The operators stop a run that failed, and run their scripts again over the
\* dump as long as there is no result; the ESP's operator finds the tellers'
\* results there from time to time.
FairSpec ==
    /\ Spec
    /\ \A t \in Tellers :
         /\ WF_vars(summation = None /\ result[t] = None /\ RunTeller(t, Ballots))
         /\ WF_vars(StopFailed(t))
         /\ WF_vars(Submit(t))
    /\ \A f \in Finals : WF_vars(FinalStart(f, Ballots)) /\ WF_vars(Verify(f))

-----------------------------------------------------------------------------
(* Properties.                                                             *)

MaybeSums == Sums \cup {None}

TypeOK ==
    /\ route \in [Ballots -> Routes]
    /\ own \in [Tellers -> MaybeSums]
    /\ marked \in [Tellers -> Sums]
    /\ result \in [Tellers -> MaybeSums]
    /\ summation \in MaybeSums
    /\ sub \in [Tellers -> {"none", "sent", "checked"}]
    /\ \A f \in Finals : /\ final[f].pc \in {"idle", "verify"}
                         /\ final[f].file \subseteq Ballots
                         /\ final[f].read \in [Tellers -> MaybeSums]
                         /\ final[f].pc = "verify" =>
                              None \notin {final[f].read[t] : t \in Tellers}
    /\ late \in BOOLEAN
    /\ faults \in 0 .. MaxFaults

\* Whatever was deleted, sent again, moved between tellers or counted over
\* another file, what is published is the whole sum over one ballot file:
\* every share of every ballot in it once.
PublishedIsWhole ==
    summation # None => \E file \in Files : summation = file \X Shares

\* A published result is never replaced, not even by a run that began before
\* it (finallyTallying.js:47 looks only at the beginning).
PublishedIsFinal == [][summation # None => summation' = summation]_vars

\* Every share is with its own teller, and no operator takes another file
\* than the dump.
Ordinary ==
    /\ \A b \in Ballots, i \in Shares : route[b][i] = i
    /\ \A t \in Tellers : own[t] \in {None, Held(t, Ballots)}
    /\ \A f \in Finals : final[f].pc = "verify" => final[f].file = Ballots

\* Then scripts that are run again lead to a result through counts that fail
\* and keep their rows, lost submissions, a late close and final runs that
\* overlap.
EventuallyPublished == []Ordinary => <>(summation # None)

\* finallyTallying takes the z of a ballot "separated by teller"
\* (finallyTallying.js:84): the sum of a teller over the shares that the
\* ballots gave it is correct, and is not deleted.
HonestResultsKept ==
    [][\A t \in Tellers, f \in Finals :
         (Reject(f) /\ final[f].read[t] = Held(t, final[f].file))
             => result'[t] = result[t]]_vars
=============================================================================
