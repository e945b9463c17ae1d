------------------------ MODULE TellerRegistry_proofs ------------------------
(***************************************************************************)
(* Proofs about TellerRegistry, for any tellers, any number of overlapping *)
(* requests and any bound on the faults.                                   *)
(***************************************************************************)
EXTENDS TellerRegistry, FiniteSetTheorems, TLAPS

(***************************************************************************)
(* Once a handler has been told that the teller registered the election,   *)
(* the teller holds it; the list that a handler signs was read from the    *)
(* table; rows are only ever added, so neither goes stale.                 *)
(***************************************************************************)
Asking == {"posted", "keys", "answered"}

RegistryIInv ==
    /\ \A c \in Calls : call[c].pc \in Asking => call[c].teller \in Tellers
    /\ \A c \in Calls : call[c].pc = "answered" => call[c].teller \in has
    /\ \A c \in Calls : call[c].pc = "sign" => call[c].list \subseteq tellers
    /\ ListedTellersHoldElection
    /\ SignedTellersAreListed

Inv == TypeOK /\ RegistryIInv

(***************************************************************************)
(* What a step does to the slots other than its own, and to its own.       *)
(***************************************************************************)
LEMMA GotoEffect ==
    ASSUME TypeOK, NEW c \in Calls,
           NEW pc \in {"idle", "freeze", "posted", "keys", "answered", "sign"},
           Goto(c, pc)
    PROVE  /\ call' \in [Calls -> CallRows]
           /\ \A d \in Calls : d # c => call'[d] = call[d]
           /\ call'[c].pc = pc
           /\ call'[c].teller = call[c].teller
           /\ call'[c].list = call[c].list
<1>1. call[c] \in CallRows
  BY DEF TypeOK
<1>2. [call[c] EXCEPT !.pc = pc] \in CallRows
  BY <1>1 DEF CallRows
<1> QED
  BY <1>1, <1>2 DEF Goto, TypeOK, CallRows

LEMMA EndEffect ==
    ASSUME TypeOK, NEW c \in Calls, End(c)
    PROVE  /\ call' \in [Calls -> CallRows]
           /\ \A d \in Calls : d # c => call'[d] = call[d]
           /\ call'[c].pc = "idle"
<1>1. Idle \in CallRows
  BY DEF Idle, CallRows
<1> QED
  BY <1>1 DEF End, TypeOK, Idle

LEMMA InitInv == Init => Inv
BY NoneAssumption, FaultsAssumption
DEF Init, Inv, TypeOK, RegistryIInv, Asking, Idle, CallRows, Frozen,
    TellersFrozen, ListedTellersHoldElection, SignedTellersAreListed

(***************************************************************************)
(* The steps of freezeElection.                                            *)
(***************************************************************************)
LEMMA FreezeStep ==
    ASSUME Inv, NEW c \in Calls, FreezeRead(c) \/ FreezeWrite(c)
    PROVE  Inv'
<1> USE DEF Inv, RegistryIInv, Asking, TellersFrozen,
            ListedTellersHoldElection, SignedTellersAreListed
<1>1. CASE FreezeRead(c)
  <2>1. Goto(c, "freeze") /\ UNCHANGED <<freeze, tellers, tellerSign, has, faults>>
    BY <1>1 DEF FreezeRead
  <2>2. TypeOK'
    BY <2>1, GotoEffect DEF TypeOK
  <2> QED
    BY <2>1, <2>2, GotoEffect
<1>2. CASE FreezeWrite(c)
  <2>1. End(c) /\ UNCHANGED <<tellers, tellerSign, has, faults>>
        /\ freeze' \in {freeze, c}
    BY <1>2 DEF FreezeWrite
  <2>2. TypeOK'
    BY <2>1, EndEffect DEF TypeOK
  <2> QED
    BY <2>1, <2>2, EndEffect
<1> QED
  BY <1>1, <1>2

(***************************************************************************)
(* The steps of registerTeller at Auth and registerElection at the teller. *)
(***************************************************************************)
LEMMA RegisterSendStep ==
    ASSUME Inv, NEW c \in Calls, NEW t \in Tellers, RegisterSend(c, t)
    PROVE  Inv'
<1> DEFINE row == [pc |-> "posted", teller |-> t, list |-> {}]
<1>1. row \in CallRows
  BY DEF CallRows
<1>2. call' = [call EXCEPT ![c] = row]
      /\ UNCHANGED <<freeze, tellers, tellerSign, has, faults>>
  BY DEF RegisterSend
<1>3. /\ call' \in [Calls -> CallRows]
      /\ \A d \in Calls : d # c => call'[d] = call[d]
      /\ call'[c].pc = "posted" /\ call'[c].teller = t
  BY <1>1, <1>2 DEF Inv, TypeOK
<1>4. TypeOK'
  BY <1>2, <1>3 DEF Inv, TypeOK
<1> QED
  BY <1>2, <1>3, <1>4
  DEF Inv, RegistryIInv, Asking, TellersFrozen, ListedTellersHoldElection,
      SignedTellersAreListed

LEMMA TellerStep ==
    ASSUME Inv, NEW c \in Calls,
           TellerCheck(c) \/ TellerInsert(c) \/ KeysFail(c) \/ AnswerLost(c)
    PROVE  Inv'
<1> USE DEF Inv, RegistryIInv, Asking, TellersFrozen,
            ListedTellersHoldElection, SignedTellersAreListed
<1>1. CASE TellerCheck(c)
  <2>1. call[c].pc = "posted" /\ (End(c) \/ Goto(c, "keys"))
        /\ UNCHANGED <<freeze, tellers, tellerSign, has, faults>>
    BY <1>1 DEF TellerCheck
  <2>2. TypeOK'
    BY <2>1, EndEffect, GotoEffect DEF TypeOK
  <2>3. CASE End(c)
    BY <2>1, <2>2, <2>3, EndEffect
  <2>4. CASE Goto(c, "keys")
    BY <2>1, <2>2, <2>4, GotoEffect
  <2> QED
    BY <2>1, <2>3, <2>4
<1>2. CASE TellerInsert(c)
  <2>1. call[c].pc = "keys" /\ has' = has \cup {call[c].teller}
        /\ UNCHANGED <<freeze, tellers, tellerSign, faults>>
        /\ (End(c) \/ Goto(c, "answered"))
    BY <1>2 DEF TellerInsert
  <2>2. TypeOK'
    BY <2>1, EndEffect, GotoEffect DEF TypeOK
  <2>3. CASE End(c)
    BY <2>1, <2>2, <2>3, EndEffect
  <2>4. CASE Goto(c, "answered")
    BY <2>1, <2>2, <2>4, GotoEffect
  <2> QED
    BY <2>1, <2>3, <2>4
<1>3. CASE KeysFail(c) \/ AnswerLost(c)
  <2>1. faults < MaxFaults /\ faults' = faults + 1 /\ End(c)
        /\ UNCHANGED <<freeze, tellers, tellerSign, has>>
    BY <1>3 DEF KeysFail, AnswerLost
  <2>2. faults' \in 0 .. MaxFaults
    BY <2>1, FaultsAssumption DEF TypeOK
  <2>3. TypeOK'
    BY <2>1, <2>2, EndEffect DEF TypeOK
  <2> QED
    BY <2>1, <2>3, EndEffect
<1> QED
  BY <1>1, <1>2, <1>3

LEMMA RegisterWriteStep ==
    ASSUME Inv, NEW c \in Calls, RegisterWrite(c)
    PROVE  Inv'
<1>1. call[c].pc = "answered" /\ tellers' = tellers \cup {call[c].teller}
      /\ End(c) /\ UNCHANGED <<freeze, tellerSign, has, faults>>
  BY DEF RegisterWrite
<1>2. call[c].teller \in Tellers \cap has
  BY <1>1 DEF Inv, RegistryIInv, Asking
<1>3. TypeOK'
  BY <1>1, <1>2, EndEffect DEF Inv, TypeOK
<1> QED
  BY <1>1, <1>2, <1>3, EndEffect
  DEF Inv, RegistryIInv, Asking, TellersFrozen, ListedTellersHoldElection,
      SignedTellersAreListed

(***************************************************************************)
(* The steps of freezeTellers.                                             *)
(***************************************************************************)
LEMMA FreezeTellersStep ==
    ASSUME Inv, NEW c \in Calls, FreezeTellersRead(c) \/ FreezeTellersWrite(c)
    PROVE  Inv'
<1> USE DEF Inv, RegistryIInv, Asking, TellersFrozen,
            ListedTellersHoldElection, SignedTellersAreListed
<1>1. CASE FreezeTellersRead(c)
  <2> DEFINE row == [pc |-> "sign", teller |-> None, list |-> tellers]
  <2>1. row \in CallRows
    BY DEF CallRows, TypeOK
  <2>2. call' = [call EXCEPT ![c] = row]
        /\ UNCHANGED <<freeze, tellers, tellerSign, has, faults>>
    BY <1>1 DEF FreezeTellersRead
  <2>3. /\ call' \in [Calls -> CallRows]
        /\ \A d \in Calls : d # c => call'[d] = call[d]
        /\ call'[c].pc = "sign" /\ call'[c].list = tellers
    BY <2>1, <2>2 DEF TypeOK
  <2>4. TypeOK'
    BY <2>2, <2>3 DEF TypeOK
  <2> QED
    BY <2>2, <2>3, <2>4
<1>2. CASE FreezeTellersWrite(c)
  <2>1. call[c].pc = "sign" /\ tellerSign' \in {tellerSign, call[c].list}
        /\ (TellersFrozen => tellerSign' = tellerSign)
        /\ (~TellersFrozen => tellerSign' = call[c].list)
        /\ End(c) /\ UNCHANGED <<freeze, tellers, has, faults>>
    BY <1>2 DEF FreezeTellersWrite
  <2>2. call[c].list \subseteq tellers
    BY <2>1
  <2>3. TypeOK'
    BY <2>1, <2>2, EndEffect DEF TypeOK
  <2>4. (TellersFrozen => tellerSign \subseteq tellers)'
    BY <2>1, <2>2
  <2> QED
    BY <2>1, <2>3, <2>4, EndEffect
<1> QED
  BY <1>1, <1>2

LEMMA InvStep == Inv /\ [Next]_vars => Inv'
<1> SUFFICES ASSUME Inv, [Next]_vars PROVE Inv'
  OBVIOUS
<1>1. ASSUME NEW c \in Calls, Request(c) PROVE Inv'
  BY <1>1, FreezeStep, RegisterSendStep, FreezeTellersStep DEF Request
<1>2. ASSUME NEW c \in Calls, Handle(c) PROVE Inv'
  BY <1>2, FreezeStep, TellerStep, RegisterWriteStep, FreezeTellersStep
  DEF Handle
<1>3. ASSUME NEW c \in Calls, Fault(c) PROVE Inv'
  BY <1>3, TellerStep DEF Fault
<1>4. CASE UNCHANGED vars
  BY <1>4
  DEF vars, Inv, TypeOK, RegistryIInv, TellersFrozen,
      ListedTellersHoldElection, SignedTellersAreListed
<1> QED
  BY <1>1, <1>2, <1>3, <1>4 DEF Next, AllDone

-----------------------------------------------------------------------------
\* The variables keep their types, whatever requests overlap.
THEOREM TypeCorrect == Spec => []TypeOK
BY InitInv, InvStep, PTL DEF Spec, Inv

\* Every teller that Auth lists holds the election: the row is written only
\* after the teller's answer, and the teller never drops an election.
THEOREM ListedTellersHoldElectionHolds == Spec => []ListedTellersHoldElection
BY InitInv, InvStep, PTL DEF Spec, Inv, RegistryIInv

\* teller_sign covers only rows of auth.teller.
THEOREM SignedTellersAreListedHolds == Spec => []SignedTellersAreListed
BY InitInv, InvStep, PTL DEF Spec, Inv, RegistryIInv

\* The guards of the two UPDATEs keep the signatures from being replaced.
THEOREM SignaturesAreFinalHolds == Spec => SignaturesAreFinal
<1>1. ASSUME Next
      PROVE  /\ Frozen => freeze' = freeze
             /\ TellersFrozen => tellerSign' = tellerSign
  BY <1>1
  DEF Next, AllDone, vars, Request, Handle, Fault, FreezeRead, FreezeWrite,
      RegisterSend, TellerCheck, TellerInsert, KeysFail, AnswerLost,
      RegisterWrite, FreezeTellersRead, FreezeTellersWrite
<1>2. [Next]_vars => [/\ Frozen => freeze' = freeze
                      /\ TellersFrozen => tellerSign' = tellerSign]_vars
  BY <1>1
<1> QED
  BY <1>2, PTL DEF Spec, SignaturesAreFinal

(***************************************************************************)
(* When requests do not overlap nobody registers a teller between the read *)
(* of a list and its signature, or after it: who is about to write has     *)
(* seen the election without teller_sign, and only its own write adds it.  *)
(***************************************************************************)
Busy == {c \in Calls : call[c].pc # "idle"}

ListIsCurrent ==
    /\ TellersFrozen => tellerSign = tellers
    /\ \A c \in Calls : call[c].pc \in Asking \cup {"sign"} => ~TellersFrozen
    /\ \A c \in Calls : call[c].pc = "sign" => call[c].list = tellers

LEMMA OneBusy ==
    ASSUME OneAtATime, NEW c \in Busy, NEW d \in Busy
    PROVE  c = d
<1>1. IsFiniteSet(Busy) /\ Cardinality(Busy) <= 1
  BY CallsAssumption, FS_Subset DEF OneAtATime, Busy
<1>2. SUFFICES ASSUME c # d PROVE FALSE
  OBVIOUS
<1>3. Cardinality({c}) = 1 /\ IsFiniteSet({c})
  BY FS_Singleton
<1>4. Cardinality({c} \cup {d}) = 2
  BY <1>2, <1>3, FS_AddElement
<1>5. Cardinality({c} \cup {d}) <= Cardinality(Busy)
  BY <1>1, FS_Subset
<1>6. Cardinality(Busy) \in Nat
  BY <1>1, FS_CardinalityType
<1> QED
  BY <1>1, <1>4, <1>5, <1>6

LEMMA InitCurrent == Init => ListIsCurrent
BY DEF Init, ListIsCurrent, TellersFrozen, Asking, Idle

LEMMA RequestCurrent ==
    ASSUME TypeOK, ListIsCurrent, NEW c \in Calls, Request(c)
    PROVE  ListIsCurrent'
<1> USE DEF ListIsCurrent, TellersFrozen, Asking
<1>1. CASE FreezeRead(c)
  BY <1>1, GotoEffect DEF FreezeRead
<1>2. ASSUME NEW row \in CallRows, row.pc \in {"posted", "sign"},
             row.pc = "sign" => row.list = tellers, ~TellersFrozen,
             call' = [call EXCEPT ![c] = row],
             UNCHANGED <<tellers, tellerSign>>
      PROVE  ListIsCurrent'
  BY <1>2 DEF TypeOK
<1>3. ASSUME NEW t \in Tellers, RegisterSend(c, t) PROVE ListIsCurrent'
  <2>1. [pc |-> "posted", teller |-> t, list |-> {}] \in CallRows
    BY DEF CallRows
  <2> QED
    BY <1>2, <1>3, <2>1 DEF RegisterSend
<1>4. CASE FreezeTellersRead(c)
  <2>1. [pc |-> "sign", teller |-> None, list |-> tellers] \in CallRows
    BY DEF CallRows, TypeOK
  <2> QED
    BY <1>2, <1>4, <2>1 DEF FreezeTellersRead
<1> QED
  BY <1>1, <1>3, <1>4 DEF Request

LEMMA HandleCurrent ==
    ASSUME TypeOK, ListIsCurrent, OneAtATime, NEW c \in Calls,
           Handle(c) \/ Fault(c)
    PROVE  ListIsCurrent'
<1> USE DEF ListIsCurrent, TellersFrozen, Asking
<1>1. ASSUME End(c), call[c].pc # "idle"
      PROVE  \A d \in Calls : call'[d].pc = "idle"
  BY <1>1, OneBusy, EndEffect DEF Busy
<1>2. CASE FreezeWrite(c) \/ Fault(c)
  BY <1>1, <1>2 DEF FreezeWrite, Fault, KeysFail, AnswerLost
<1>3. CASE TellerCheck(c)
  <2>1. call[c].pc = "posted" /\ (End(c) \/ Goto(c, "keys"))
        /\ UNCHANGED <<tellers, tellerSign>>
    BY <1>3 DEF TellerCheck
  <2> QED
    BY <2>1, EndEffect, GotoEffect
<1>4. CASE TellerInsert(c)
  <2>1. call[c].pc = "keys" /\ (End(c) \/ Goto(c, "answered"))
        /\ UNCHANGED <<tellers, tellerSign>>
    BY <1>4 DEF TellerInsert
  <2> QED
    BY <2>1, EndEffect, GotoEffect
<1>5. CASE RegisterWrite(c)
  <2>1. ~TellersFrozen /\ UNCHANGED tellerSign /\ End(c) /\ call[c].pc # "idle"
    BY <1>5 DEF RegisterWrite
  <2> QED
    BY <1>1, <2>1
<1>6. CASE FreezeTellersWrite(c)
  <2>1. /\ tellerSign' = call[c].list /\ call[c].list = tellers
        /\ UNCHANGED tellers /\ End(c) /\ call[c].pc # "idle"
    BY <1>6 DEF FreezeTellersWrite
  <2> QED
    BY <1>1, <2>1
<1> QED
  BY <1>2, <1>3, <1>4, <1>5, <1>6 DEF Handle

LEMMA StepCurrent ==
    TypeOK /\ OneAtATime /\ ListIsCurrent /\ [Next]_vars => ListIsCurrent'
<1> SUFFICES ASSUME TypeOK, OneAtATime, ListIsCurrent, [Next]_vars
             PROVE  ListIsCurrent'
  OBVIOUS
<1>1. CASE UNCHANGED vars
  BY <1>1 DEF vars, ListIsCurrent, TellersFrozen
<1> QED
  BY <1>1, RequestCurrent, HandleCurrent DEF Next, AllDone

\* When requests do not overlap teller_sign covers all the tellers listed,
\* whichever of them were asked in vain (registerTeller.js:150).
THEOREM SignedTellersAreAllHolds == Spec => SignedTellersAreAll
<1>1. ListIsCurrent => (TellersFrozen => tellerSign = tellers)
  BY DEF ListIsCurrent
<1>2. Spec => [][Next]_vars /\ Init
  BY DEF Spec
<1> QED
  BY <1>1, <1>2, TypeCorrect, InitCurrent, StepCurrent, PTL
  DEF SignedTellersAreAll
=============================================================================
