--------------------------- MODULE TellerRegistry ---------------------------
(***************************************************************************)
(* Freezing an election and registering its tellers at Auth.  A handler    *)
(* reads the election, then works (signs, or registers the election at the *)
(* teller over HTTP), then writes; other handlers may run in between.  All *)
(* transactions are PostgreSQL READ COMMITTED.                             *)
(***************************************************************************)
EXTENDS Naturals, FiniteSets

CONSTANTS Tellers,    \* teller servers, by hostname:port
          Calls,      \* slots for requests that Auth handles at a time
          None,       \* SQL NULL
          MaxFaults   \* bound: teller answers lost, or key requests failed

ASSUME NoneAssumption == None \notin Calls \cup Tellers
ASSUME FaultsAssumption == MaxFaults \in Nat
ASSUME CallsAssumption == IsFiniteSet(Calls)

VARIABLES
    freeze,      \* freeze_time/freeze_sign: the call that froze, or None
    tellers,     \* rows of auth.teller
    tellerSign,  \* the tellers that teller_sign covers; None until frozen
    has,         \* teller servers that hold the election
    call,        \* Auth's handlers: [pc, teller, list]
    faults

vars == <<freeze, tellers, tellerSign, has, call, faults>>

Idle == [pc |-> "idle", teller |-> None, list |-> {}]

\* auth.election.state and is_teller_sign.
Frozen        == freeze # None
TellersFrozen == tellerSign # None

Init ==
    /\ freeze = None
    /\ tellers = {}
    /\ tellerSign = None
    /\ has = {}
    /\ call = [c \in Calls |-> Idle]
    /\ faults = 0

Goto(c, pc) == call' = [call EXCEPT ![c].pc = pc]
End(c)      == call' = [call EXCEPT ![c] = Idle]

-----------------------------------------------------------------------------
(* freezeElection                                                          *)

FreezeRead(c) ==
    /\ call[c].pc = "idle"
    /\ ~Frozen
    /\ Goto(c, "freeze")
    /\ UNCHANGED <<freeze, tellers, tellerSign, has, faults>>

\* Mutant: the UPDATE loses its "AND state = 0".
FreezeWriteUnguarded(c) ==
    /\ call[c].pc = "freeze"
    /\ freeze' = c
    /\ End(c)
    /\ UNCHANGED <<tellers, tellerSign, has, faults>>

\* UPDATE ... WHERE state = 0.
FreezeWrite(c) ==
    /\ call[c].pc = "freeze"
    /\ freeze' = IF Frozen THEN freeze ELSE c
    /\ End(c)
    /\ UNCHANGED <<tellers, tellerSign, has, faults>>

-----------------------------------------------------------------------------
(* registerTeller at Auth, with registerElection at the teller             *)

\* Mutant: the handler forgets which teller it asked.
RegisterSendBare(c, t) ==
    /\ call[c].pc = "idle"
    /\ Frozen /\ ~TellersFrozen
    /\ t \notin tellers
    /\ call' = [call EXCEPT ![c].pc = "posted"]
    /\ UNCHANGED <<freeze, tellers, tellerSign, has, faults>>

RegisterSend(c, t) ==
    /\ call[c].pc = "idle"
    /\ Frozen /\ ~TellersFrozen
    /\ t \notin tellers
    /\ call' = [call EXCEPT ![c] = [pc |-> "posted", teller |-> t, list |-> {}]]
    /\ UNCHANGED <<freeze, tellers, tellerSign, has, faults>>

\* The teller looks for the election; if it has none it asks ESP and Auth for
\* their public keys.
TellerCheck(c) ==
    /\ call[c].pc = "posted"
    /\ IF call[c].teller \in has THEN End(c) ELSE Goto(c, "keys")
    /\ UNCHANGED <<freeze, tellers, tellerSign, has, faults>>

\* Mutant: the teller answers success without the keys.
KeysFailAnswered(c) ==
    /\ faults < MaxFaults
    /\ call[c].pc = "keys"
    /\ faults' = faults + 1
    /\ Goto(c, "answered")
    /\ UNCHANGED <<freeze, tellers, tellerSign, has>>

\* A public key cannot be fetched: the teller refuses, Auth gives up.
KeysFail(c) ==
    /\ faults < MaxFaults
    /\ call[c].pc = "keys"
    /\ faults' = faults + 1
    /\ End(c)
    /\ UNCHANGED <<freeze, tellers, tellerSign, has>>

\* INSERT ... ON CONFLICT DO NOTHING at the teller, and its answer.
TellerInsert(c) ==
    /\ call[c].pc = "keys"
    /\ has' = has \cup {call[c].teller}
    /\ IF call[c].teller \in has THEN End(c) ELSE Goto(c, "answered")
    /\ UNCHANGED <<freeze, tellers, tellerSign, faults>>

\* The answer does not reach Auth within five seconds.
AnswerLost(c) ==
    /\ faults < MaxFaults
    /\ call[c].pc = "answered"
    /\ faults' = faults + 1
    /\ End(c)
    /\ UNCHANGED <<freeze, tellers, tellerSign, has>>

\* INSERT INTO auth.teller ... ON CONFLICT DO NOTHING: the state is not
\* looked at again.
RegisterWrite(c) ==
    /\ call[c].pc = "answered"
    /\ tellers' = tellers \cup {call[c].teller}
    /\ End(c)
    /\ UNCHANGED <<freeze, tellerSign, has, faults>>

-----------------------------------------------------------------------------
(* freezeTellers                                                           *)

\* Mutant: teller_sign is made over the servers asked, not the rows read.
FreezeTellersReadAsked(c) ==
    /\ call[c].pc = "idle"
    /\ Frozen /\ ~TellersFrozen
    /\ call' = [call EXCEPT ![c] = [pc |-> "sign", teller |-> None, list |-> has]]
    /\ UNCHANGED <<freeze, tellers, tellerSign, has, faults>>

FreezeTellersRead(c) ==
    /\ call[c].pc = "idle"
    /\ Frozen /\ ~TellersFrozen
    /\ call' = [call EXCEPT ![c] =
                  [pc |-> "sign", teller |-> None, list |-> tellers]]
    /\ UNCHANGED <<freeze, tellers, tellerSign, has, faults>>

\* UPDATE ... WHERE state = 1 AND is_teller_sign = false.
FreezeTellersWrite(c) ==
    /\ call[c].pc = "sign"
    /\ tellerSign' = IF TellersFrozen THEN tellerSign ELSE call[c].list
    /\ End(c)
    /\ UNCHANGED <<freeze, tellers, has, faults>>

-----------------------------------------------------------------------------
Request(c) ==
    \/ FreezeRead(c)
    \/ \E t \in Tellers : RegisterSend(c, t)
    \/ FreezeTellersRead(c)

Handle(c) ==
    \/ FreezeWrite(c)
    \/ TellerCheck(c)
    \/ TellerInsert(c)
    \/ RegisterWrite(c)
    \/ FreezeTellersWrite(c)

Fault(c) == KeysFail(c) \/ AnswerLost(c)

Quiet == \A c \in Calls : call[c].pc = "idle"

AllDone == Quiet /\ TellersFrozen /\ UNCHANGED vars

Next ==
    \/ \E c \in Calls : Request(c) \/ Handle(c) \/ Fault(c)
    \/ AllDone

Spec == Init /\ [][Next]_vars

\* One request at a time.
SerialNext ==
    \/ \E c \in Calls : (Quiet /\ Request(c)) \/ Handle(c) \/ Fault(c)
    \/ AllDone

SerialSpec == Init /\ [][SerialNext]_vars

\* The administrator keeps freezing the election and registering tellers.
FairSpec ==
    /\ SerialSpec
    /\ \A c \in Calls : WF_vars(Handle(c))
    /\ WF_vars(\E c \in Calls : Quiet /\ FreezeRead(c))
    /\ \A t \in Tellers : SF_vars(\E c \in Calls : Quiet /\ RegisterSend(c, t))

-----------------------------------------------------------------------------
(* Properties.                                                             *)

CallRows == [pc : {"idle", "freeze", "posted", "keys", "answered", "sign"},
             teller : Tellers \cup {None}, list : SUBSET Tellers]

TypeOK ==
    /\ freeze \in Calls \cup {None}
    /\ tellers \subseteq Tellers
    /\ tellerSign \in (SUBSET Tellers) \cup {None}
    /\ has \subseteq Tellers
    /\ call \in [Calls -> CallRows]
    /\ faults \in 0 .. MaxFaults

\* Every teller that Auth lists holds the election, so a request to open it
\* finds it there (teller/openElection.js:35), whatever was lost on the way.
ListedTellersHoldElection == tellers \subseteq has

\* teller_sign never covers a teller that Auth does not list.
SignedTellersAreListed == TellersFrozen => tellerSign \subseteq tellers

\* The freeze signature and teller_sign, once stored, are never replaced, by
\* whichever of two concurrent requests: tellers keep the freeze signature
\* they registered with (teller/openElection.js:69).
SignaturesAreFinal ==
    [][/\ Frozen => freeze' = freeze
       /\ TellersFrozen => tellerSign' = tellerSign]_vars

\* At most one handler at work.  The administration page does not enforce it:
\* the registration form is not locked while another request is pending
\* (election.js:162), unlike the buttons (election.js:126, 190).
OneAtATime == Cardinality({c \in Calls : call[c].pc # "idle"}) <= 1

\* As long as requests do not overlap teller_sign covers exactly the listed
\* tellers, whatever is lost; otherwise no server verifies it and the election
\* cannot be opened (registerTeller.js:150 inserts without asking again).
SignedTellersAreAll ==
    []OneAtATime => [](TellersFrozen => tellerSign = tellers)

\* A teller reported "temporarily unavailable" (registerTeller.js:94) gets
\* registered by an administrator who keeps asking.
UnavailableIsTemporary == <>(TellersFrozen \/ tellers = Tellers)
=============================================================================
