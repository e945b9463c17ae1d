--------------------------- MODULE Tallying_proofs ---------------------------
(***************************************************************************)
(* Proofs about Tallying, for any ballots, routes, files, number of        *)
(* tellers and runs of finallyTallying at a time.                          *)
(***************************************************************************)
EXTENDS Tallying, TLAPS

(***************************************************************************)
(* A teller counts once, so every copy of its sum is the same: the one at  *)
(* the ESP, those that final runs have read, and the part of a published   *)
(* result.                                                                 *)
(***************************************************************************)
Total == UNION {own[t] : t \in Tellers}

ResultsAreOwn == \A t \in Tellers : result[t] # None => result[t] = own[t]

ReadsAreOwn ==
    \A f \in Finals : final[f].pc = "verify" =>
        /\ final[f].file \in Files
        /\ \A t \in Tellers : own[t] # None /\ final[f].read[t] = own[t]

SummationIsTotal ==
    summation # None => summation = Total /\ \A t \in Tellers : own[t] # None

TallyIInv == /\ ResultsAreOwn
             /\ ReadsAreOwn
             /\ SummationIsTotal
             /\ PublishedIsWhole

Runs == [pc : {"idle", "verify"}, file : SUBSET Ballots,
         read : [Tellers -> MaybeSums]]

Inv == /\ TypeOK
       /\ final \in [Finals -> Runs]
       /\ TallyIInv

(***************************************************************************)
(* What a teller adds up is a sum.                                         *)
(***************************************************************************)
LEMMA HeldIsSum ==
    ASSUME NEW t, NEW file \in Files
    PROVE  Held(t, file) \in Sums
BY FilesAssumption DEF Held, Sums

LEMMA NoFinalIsRun == NoFinal \in Runs /\ NoFinal.pc = "idle"
BY DEF NoFinal, Runs, MaybeSums

LEMMA InitInv == Init => Inv
<1> SUFFICES ASSUME Init PROVE Inv
  OBVIOUS
<1>1. final \in [Finals -> Runs] /\ \A f \in Finals : final[f].pc = "idle"
  BY NoFinalIsRun DEF Init
<1>2. TypeOK
  BY <1>1, BoundsAssumption DEF Init, TypeOK, MaybeSums, Sums, Runs
<1> QED
  BY <1>1, <1>2
  DEF Inv, Init, TallyIInv, ResultsAreOwn, ReadsAreOwn, SummationIsTotal,
      PublishedIsWhole

(***************************************************************************)
(* A final run ends: nothing that it read is left.                         *)
(***************************************************************************)
LEMMA EndOfRun ==
    ASSUME Inv, NEW f \in Finals, final' = [final EXCEPT ![f] = NoFinal]
    PROVE  /\ final' \in [Finals -> Runs]
           /\ final'[f].pc = "idle"
           /\ \A g \in Finals : g # f => final'[g] = final[g]
BY NoFinalIsRun DEF Inv

LEMMA TellerStep ==
    ASSUME Inv, NEW t \in Tellers,
           \/ \E file \in Files : RunTeller(t, file) \/ CountFails(t, file)
           \/ StopFailed(t) \/ LoseSubmission(t)
           \/ SubmitCheck(t) \/ SubmitWrite(t)
    PROVE  Inv'
<1> USE DEF Inv, TallyIInv, ResultsAreOwn, ReadsAreOwn, SummationIsTotal,
            PublishedIsWhole
<1>1. ASSUME NEW file \in Files, RunTeller(t, file) PROVE Inv'
  <2>1. UNCHANGED <<route, marked, result, summation, final, late, faults>>
    BY <1>1 DEF RunTeller
  <2>2. sub' = [sub EXCEPT ![t] = "sent"]
    BY <1>1 DEF RunTeller
  <2>3. CASE UNCHANGED own
    <3>1. TypeOK'
      BY <2>1, <2>2, <2>3 DEF TypeOK
    <3> QED
      BY <2>1, <2>3, <3>1 DEF Total
  <2>4. CASE own[t] = None /\ own' = [own EXCEPT ![t] = Held(t, file)]
    <3>1. own' \in [Tellers -> MaybeSums]
          /\ \A u \in Tellers : own[u] # None => own'[u] = own[u]
      BY <2>4, HeldIsSum DEF TypeOK, MaybeSums
    <3>2. ResultsAreOwn' /\ ReadsAreOwn'
      BY <2>1, <3>1
    <3>3. TypeOK'
      BY <2>1, <2>2, <3>1 DEF TypeOK
    <3>4. summation = None
      BY <2>4
    <3> QED
      BY <2>1, <3>2, <3>3, <3>4
  <2> QED
    BY <1>1, <2>3, <2>4 DEF RunTeller
<1>2. CASE LoseSubmission(t) \/ SubmitCheck(t)
  <2>1. UNCHANGED <<route, own, marked, result, summation, final, late>>
    BY <1>2 DEF LoseSubmission, SubmitCheck
  <2>2. sub' \in [Tellers -> {"none", "sent", "checked"}]
    BY <1>2 DEF LoseSubmission, SubmitCheck, TypeOK
  <2>3. faults' \in 0 .. MaxFaults
    BY <1>2, BoundsAssumption DEF LoseSubmission, SubmitCheck, TypeOK
  <2>4. TypeOK'
    BY <2>1, <2>2, <2>3 DEF TypeOK
  <2> QED
    BY <2>1, <2>4 DEF Total
<1>3. ASSUME NEW file \in Files, CountFails(t, file) \/ StopFailed(t)
      PROVE  Inv'
  <2>1. UNCHANGED <<route, own, result, summation, sub, final, late>>
    BY <1>3 DEF CountFails, StopFailed
  <2>2. marked' \in [Tellers -> Sums]
    <3>1. \A some \in SUBSET Held(t, file) : some \in Sums
      BY HeldIsSum DEF Sums
    <3> QED
      BY <1>3, <3>1 DEF CountFails, StopFailed, TypeOK, Sums
  <2>3. faults' \in 0 .. MaxFaults
    BY <1>3, BoundsAssumption DEF CountFails, StopFailed, TypeOK
  <2>4. TypeOK'
    BY <2>1, <2>2, <2>3 DEF TypeOK
  <2> QED
    BY <2>1, <2>4 DEF Total
<1>4. CASE SubmitWrite(t)
  <2>1. UNCHANGED <<route, own, marked, summation, final, late, faults>>
    BY <1>4 DEF SubmitWrite
  <2>2. result' = [result EXCEPT ![t] = own[t]]
        /\ sub' = [sub EXCEPT ![t] = "none"]
    BY <1>4 DEF SubmitWrite
  <2>3. TypeOK'
    BY <2>1, <2>2 DEF TypeOK
  <2>4. ResultsAreOwn'
    BY <2>1, <2>2 DEF TypeOK
  <2> QED
    BY <2>1, <2>3, <2>4 DEF Total
<1> QED
  BY <1>1, <1>2, <1>3, <1>4, FilesAssumption

LEMMA FinalStartStep ==
    ASSUME Inv, NEW f \in Finals, NEW file \in Files, FinalStart(f, file)
    PROVE  Inv'
<1>1. final' = [final EXCEPT ![f] = [pc |-> "verify", file |-> file,
                                     read |-> result]]
  BY DEF FinalStart
<1>2. UNCHANGED <<route, own, marked, result, summation, sub, late, faults>>
      /\ \A t \in Tellers : result[t] # None
  BY DEF FinalStart
<1>3. [pc |-> "verify", file |-> file, read |-> result] \in Runs
  BY FilesAssumption DEF Inv, TypeOK, Runs
<1>4. final' \in [Finals -> Runs]
      /\ final'[f] = [pc |-> "verify", file |-> file, read |-> result]
      /\ \A g \in Finals : g # f => final'[g] = final[g]
  BY <1>1, <1>3 DEF Inv
<1>5. ReadsAreOwn'
  BY <1>2, <1>4 DEF Inv, TallyIInv, ResultsAreOwn, ReadsAreOwn
<1>6. TypeOK'
  <2>1. (final \in [Finals -> Runs])' /\ ReadsAreOwn'
    BY <1>4, <1>5
  <2>2. (\A g \in Finals : /\ final[g].pc \in {"idle", "verify"}
                           /\ final[g].file \subseteq Ballots
                           /\ final[g].read \in [Tellers -> MaybeSums]
                           /\ final[g].pc = "verify" =>
                                None \notin {final[g].read[t] : t \in Tellers})'
    BY <2>1 DEF Runs, ReadsAreOwn
  <2> QED
    BY <1>2, <2>2 DEF Inv, TypeOK
<1> QED
  BY <1>2, <1>4, <1>5, <1>6
  DEF Inv, TallyIInv, ResultsAreOwn, SummationIsTotal, Total, PublishedIsWhole

(***************************************************************************)
(* The sums of one run, when all are correct, are the whole sum of its     *)
(* file, and the total of what the tellers have counted.                   *)
(***************************************************************************)
LEMMA CorrectTotal ==
    ASSUME Inv, NEW f \in Finals, final[f].pc = "verify", AllCorrect(f)
    PROVE  /\ final[f].file \in Files
           /\ UNION {final[f].read[t] : t \in Tellers} = Total
           /\ Total = final[f].file \X Shares
<1>1. final[f].file \in Files
      /\ \A t \in Tellers : final[f].read[t] = own[t]
  BY DEF Inv, TallyIInv, ReadsAreOwn
<1>2. \A t \in Tellers : own[t] = final[f].file \X {t}
  BY <1>1 DEF AllCorrect, Correct
<1>3. UNION {final[f].read[t] : t \in Tellers} = Total
  BY <1>1 DEF Total
<1>4. Total = final[f].file \X Shares
  BY <1>2 DEF Total, Shares, Tellers
<1> QED
  BY <1>1, <1>3, <1>4

LEMMA VerifyStep ==
    ASSUME Inv, NEW f \in Finals, Publish(f) \/ Reject(f)
    PROVE  Inv'
<1>1. final' \in [Finals -> Runs] /\ final'[f].pc = "idle"
      /\ \A g \in Finals : g # f => final'[g] = final[g]
  <2>1. final' = [final EXCEPT ![f] = NoFinal]
    BY DEF Publish, Reject
  <2> QED
    BY <2>1, EndOfRun
<1>2. UNCHANGED <<route, own, marked, sub, late, faults>>
  BY DEF Publish, Reject
<1>3. ReadsAreOwn'
  BY <1>1, <1>2 DEF Inv, TallyIInv, ReadsAreOwn
<1>4. (\A g \in Finals : /\ final[g].pc \in {"idle", "verify"}
                         /\ final[g].file \subseteq Ballots
                         /\ final[g].read \in [Tellers -> MaybeSums]
                         /\ final[g].pc = "verify" =>
                              None \notin {final[g].read[t] : t \in Tellers})'
  BY <1>1, <1>3 DEF Runs, ReadsAreOwn
<1>5. CASE Publish(f)
  <2>1. final[f].pc = "verify" /\ AllCorrect(f) /\ UNCHANGED result
        /\ summation' = UNION {final[f].read[t] : t \in Tellers}
    BY <1>5 DEF Publish
  <2>2. summation' = Total /\ summation' = final[f].file \X Shares
        /\ final[f].file \in Files
    BY <2>1, CorrectTotal
  <2>3. TypeOK'
    BY <1>2, <1>4, <2>1, <2>2, FilesAssumption
    DEF Inv, TypeOK, MaybeSums, Sums
  <2>4. SummationIsTotal'
    BY <1>2, <2>1, <2>2 DEF Inv, TallyIInv, ReadsAreOwn, SummationIsTotal, Total
  <2> QED
    BY <1>1, <1>2, <1>3, <2>1, <2>2, <2>3, <2>4
    DEF Inv, TallyIInv, ResultsAreOwn, PublishedIsWhole
<1>6. CASE Reject(f)
  <2>1. result' = [t \in Tellers |-> IF Correct(f, t) THEN result[t] ELSE None]
        /\ UNCHANGED summation
    BY <1>6 DEF Reject
  <2>2. TypeOK' /\ ResultsAreOwn'
    BY <1>2, <1>4, <2>1 DEF Inv, TypeOK, TallyIInv, ResultsAreOwn, MaybeSums
  <2> QED
    BY <1>1, <1>2, <1>3, <2>1, <2>2
    DEF Inv, TallyIInv, SummationIsTotal, Total, PublishedIsWhole
<1> QED
  BY <1>5, <1>6

LEMMA InvStep == Inv /\ [Next]_vars => Inv'
<1> SUFFICES ASSUME Inv, [Next]_vars PROVE Inv'
  OBVIOUS
<1>1. CASE LateClose
  <2>1. UNCHANGED <<route, own, marked, summation, sub, final, faults>>
        /\ late' = FALSE /\ result' = [t \in Tellers |-> None]
    BY <1>1 DEF LateClose
  <2>2. TypeOK'
    BY <2>1 DEF Inv, TypeOK, MaybeSums
  <2>3. ResultsAreOwn'
    BY <2>1 DEF ResultsAreOwn
  <2> QED
    BY <2>1, <2>2, <2>3
    DEF Inv, TallyIInv, ReadsAreOwn, SummationIsTotal, Total, PublishedIsWhole
<1>2. CASE UNCHANGED vars
  BY <1>2
  DEF vars, Inv, TypeOK, TallyIInv, ResultsAreOwn, ReadsAreOwn,
      SummationIsTotal, Total, PublishedIsWhole
<1> QED
  BY <1>1, <1>2, TellerStep, FinalStartStep, VerifyStep
  DEF Next, Submit, Verify

-----------------------------------------------------------------------------
\* The variables keep their types, and no run verifies a missing sum.
THEOREM TypeCorrect == Spec => []TypeOK
BY InitInv, InvStep, PTL DEF Spec, Inv

\* What finallyTallying stores is the sum of every share of every ballot of
\* one file, wherever the shares went and whatever was deleted or sent again.
THEOREM PublishedIsWholeHolds == Spec => []PublishedIsWhole
BY InitInv, InvStep, PTL DEF Spec, Inv, TallyIInv

\* A run that stores a result after another one stores the same.
THEOREM PublishedIsFinalHolds == Spec => PublishedIsFinal
<1>1. Inv /\ [Next]_vars => [summation # None => summation' = summation]_vars
  <2> SUFFICES ASSUME Inv, Next, summation # None
               PROVE  summation' = summation
    BY DEF vars
  <2>1. ASSUME NEW f \in Finals, Publish(f) PROVE summation' = summation
    BY <2>1, CorrectTotal DEF Publish, Inv, TallyIInv, SummationIsTotal
  <2> QED
    BY <2>1
    DEF Next, RunTeller, CountFails, StopFailed, Submit, SubmitCheck,
        SubmitWrite, LoseSubmission, FinalStart, Verify, Reject, LateClose
<1> QED
  BY <1>1, InitInv, InvStep, PTL DEF Spec, PublishedIsFinal
=============================================================================
