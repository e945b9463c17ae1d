----------------------------- MODULE OpenClose -----------------------------
(***************************************************************************)
(* Opening and closing one frozen election.  Auth (the election authority) *)
(* reads its row, signs the opening or closing statement, posts it to the  *)
(* ESP and to every teller in parallel, waits for all the answers or for   *)
(* the first failure, and writes the outcome back without a guard.  Each   *)
(* administrator request is a call; calls follow each other in a slot, and *)
(* calls in different slots overlap.  A request may be lost or answered    *)
(* too late, and Auth may stop between the posts and its UPDATE.           *)
(*                                                                         *)
(* A signature is what it signs: open_sign is determined by open_time, and *)
(* close_sign by the open_time and close_time it covers, so a row keeps    *)
(* `open` and `close` = <<open_time, close_time>>; 0 is SQL's NULL.        *)
(***************************************************************************)
EXTENDS Naturals, FiniteSets

CONSTANTS Tellers,   \* rows of auth.teller, fixed by freezeTellers
          Esp,       \* the e-voting server provider
          Calls,     \* slots for administrator requests handled at a time
          MaxFaults  \* bound: requests lost or answered too late

Remotes == Tellers \cup {Esp}

ASSUME RemotesAssumption ==
    /\ Esp \notin Tellers
    /\ MaxFaults \in Nat

VARIABLES
    auth,    \* auth.election: state, open_time/open_sign, close_time/close_sign
    remote,  \* election_data of each remote server
    call,    \* the handler of each administrator request
    rpc,     \* rpc[c][r]: the request of call c at server r
    reply,   \* reply[c][r]: what Auth knows of it
    now,     \* Date.now(), advanced each time a call takes a fresh time
    faults   \* number of faults so far

vars == <<auth, remote, call, rpc, reply, now, faults>>

NoTime  == 0
NoClose == <<NoTime, NoTime>>
Row(s, o, c) == [state |-> s, open |-> o, close |-> c]

\* election_data before opening: NULL at the ESP, state 1 at a teller.
NotOpened(r) == IF r = Esp THEN 0 ELSE 1

\* The state a server has before handling a request, and after it.
Before(op, r) == IF op = "open" THEN NotOpened(r) ELSE 2
\* Mutant: a close jumps to "counted".
AfterCounted(op) == IF op = "open" THEN 2 ELSE 4

After(op) == IF op = "open" THEN 2 ELSE 3

Idle == [pc |-> "idle", op |-> "open", open |-> NoTime, close |-> NoClose]

\* Nothing of the last call in this slot is running or in flight.
Free(c) ==
    /\ call[c].pc = "idle"
    /\ \A r \in Remotes : rpc[c][r] \in {"none", "end"}

Init ==
    /\ auth = Row(1, NoTime, NoClose)
    /\ remote = [r \in Remotes |-> Row(NotOpened(r), NoTime, NoClose)]
    /\ call = [c \in Calls |-> Idle]
    /\ rpc = [c \in Calls |-> [r \in Remotes |-> "none"]]
    /\ reply = [c \in Calls |-> [r \in Remotes |-> "none"]]
    /\ now = 0
    /\ faults = 0

-----------------------------------------------------------------------------
(* Auth's handlers.                                                        *)

\* Post the signed statement to every server, and wait.
Send(c, op, open, close) ==
    /\ call' = [call EXCEPT ![c] =
                  [pc |-> "sent", op |-> op, open |-> open, close |-> close]]
    /\ rpc' = [rpc EXCEPT ![c] = [r \in Remotes |-> "flight"]]
    /\ reply' = [reply EXCEPT ![c] = [r \in Remotes |-> "waiting"]]

\* Mutant: the stored statement is not reused.
OpenSendFresh(c) ==
    /\ Free(c)
    /\ auth.state = 1
    /\ Send(c, "open", now + 1, NoClose)
    /\ now' = now + 1
    /\ UNCHANGED <<auth, remote, faults>>

\* openElection up to Promise.all: the stored open_time and open_sign are
\* reused when there are any.
OpenSend(c) ==
    /\ Free(c)
    /\ auth.state = 1
    /\ LET retry == auth.open # NoTime
           time  == now + 1
       IN  /\ Send(c, "open", IF retry THEN auth.open ELSE time, NoClose)
           /\ now' = IF retry THEN now ELSE time
    /\ UNCHANGED <<auth, remote, faults>>

\* Mutant: the state check is dropped.
CloseSendUnguarded(c) ==
    /\ Free(c)
    /\ Send(c, "close", NoTime, <<auth.open, now + 1>>)
    /\ now' = now + 1
    /\ UNCHANGED <<auth, remote, faults>>

\* closeElection up to Promise.all: the statement covers the stored open_time.
CloseSend(c) ==
    /\ Free(c)
    /\ auth.state = 2
    /\ LET retry == auth.close # NoClose
           time  == now + 1
       IN  /\ Send(c, "close", NoTime,
                   IF retry THEN auth.close ELSE <<auth.open, time>>)
           /\ now' = IF retry THEN now ELSE time
    /\ UNCHANGED <<auth, remote, faults>>

\* The unguarded UPDATE ... WHERE id = $1: an open writes state, open_time and
\* open_sign, a close writes state, close_time and close_sign.
Update(c, state) ==
    auth' = IF call[c].op = "open"
            THEN Row(state, call[c].open, auth.close)
            ELSE Row(state, auth.open, call[c].close)

Finish(c) ==
    /\ call[c].pc = "sent"
    /\ call' = [call EXCEPT ![c].pc = "idle"]
    /\ UNCHANGED <<remote, rpc, reply, now, faults>>

\* Mutant: Promise.race instead of Promise.all.
SucceedAny(c) ==
    /\ \E r \in Remotes : reply[c][r] = "ok"
    /\ Update(c, After(call[c].op))
    /\ Finish(c)

\* Promise.all resolved: every server answered code 0.
Succeed(c) ==
    /\ \A r \in Remotes : reply[c][r] = "ok"
    /\ Update(c, After(call[c].op))
    /\ Finish(c)

\* Mutant: a failed try of either kind falls back to "frozen".
FailToFrozen(c) ==
    /\ \E r \in Remotes : reply[c][r] = "failed"
    /\ Update(c, 1)
    /\ Finish(c)

\* Promise.all rejected: some server refused or could not be reached.
Fail(c) ==
    /\ \E r \in Remotes : reply[c][r] = "failed"
    /\ Update(c, After(call[c].op) - 1)
    /\ Finish(c)

\* Auth stops, or loses its database, before the UPDATE: it is rolled back.
Crash(c) ==
    /\ faults < MaxFaults
    /\ call[c].pc = "sent"
    /\ call' = [call EXCEPT ![c].pc = "idle"]
    /\ faults' = faults + 1
    /\ UNCHANGED <<auth, remote, rpc, reply, now>>

-----------------------------------------------------------------------------
(* The /election/open and /election/close handlers of the ESP and of the   *)
(* tellers: a SELECT, the checks, then an UPDATE of the whole election_data *)
(* in a later statement.                                                   *)

Answer(c, r, a) ==
    reply' = IF reply[c][r] = "waiting"
             THEN [reply EXCEPT ![c][r] = a]
             ELSE reply

\* The signature over the statement verifies for what this server stores.
Verifies(c, r) ==
    call[c].op = "close" => call[c].close[1] = remote[r].open

\* Mutant: a server that has already changed state refuses.
RemoteReadStrict(c, r) ==
    /\ rpc[c][r] = "flight"
    /\ \/ /\ remote[r].state = Before(call[c].op, r)
          /\ Verifies(c, r)
          /\ rpc' = [rpc EXCEPT ![c][r] = "write"]
          /\ UNCHANGED reply
       \/ /\ remote[r].state = Before(call[c].op, r) => ~Verifies(c, r)
          /\ rpc' = [rpc EXCEPT ![c][r] = "end"]
          /\ Answer(c, r, "failed")
    /\ UNCHANGED <<auth, remote, call, now, faults>>

RemoteRead(c, r) ==
    /\ rpc[c][r] = "flight"
    /\ \/ /\ remote[r].state = After(call[c].op)   \* done already: code 0
          /\ rpc' = [rpc EXCEPT ![c][r] = "end"]
          /\ Answer(c, r, "ok")
       \/ /\ remote[r].state = Before(call[c].op, r)
          /\ Verifies(c, r)
          /\ rpc' = [rpc EXCEPT ![c][r] = "write"]
          /\ UNCHANGED reply
       \/ /\ remote[r].state # After(call[c].op)
          /\ remote[r].state = Before(call[c].op, r) => ~Verifies(c, r)
          /\ rpc' = [rpc EXCEPT ![c][r] = "end"]
          /\ Answer(c, r, "failed")
    /\ UNCHANGED <<auth, remote, call, now, faults>>

\* The UPDATE replaces election_data: an open by the statement received, a
\* close by the row read before, whose open_time the signature matched.
RemoteWrite(c, r) ==
    /\ rpc[c][r] = "write"
    /\ remote' = [remote EXCEPT ![r] =
                    IF call[c].op = "open"
                    THEN Row(2, call[c].open, NoClose)
                    ELSE Row(3, call[c].close[1], call[c].close)]
    /\ rpc' = [rpc EXCEPT ![c][r] = "end"]
    /\ Answer(c, r, "ok")
    /\ UNCHANGED <<auth, call, now, faults>>

-----------------------------------------------------------------------------
(* The network.  Auth gives up on a server after five seconds or on a      *)
(* broken connection, whatever the server does with the request later.     *)

GiveUp(c, r) ==
    /\ faults < MaxFaults
    /\ reply[c][r] = "waiting"
    /\ reply' = [reply EXCEPT ![c][r] = "failed"]
    /\ \/ rpc' = rpc                                   \* late, or answer lost
       \/ /\ rpc[c][r] = "flight"                      \* request lost
          /\ rpc' = [rpc EXCEPT ![c][r] = "end"]
    /\ faults' = faults + 1
    /\ UNCHANGED <<auth, remote, call, now>>

-----------------------------------------------------------------------------
Handle(c) ==
    \/ Succeed(c)
    \/ Fail(c)
    \/ \E r \in Remotes : RemoteRead(c, r) \/ RemoteWrite(c, r)

\* Nothing of an earlier call is still running or in flight.
Quiet == \A c \in Calls : Free(c)

\* The election is closed and nothing is left to do.
AllDone == Quiet /\ auth.state = 3 /\ UNCHANGED vars

Next ==
    \/ \E c \in Calls :
         \/ OpenSend(c)
         \/ CloseSend(c)
         \/ Handle(c)
         \/ Crash(c)
         \/ \E r \in Remotes : GiveUp(c, r)
    \/ AllDone

Spec == Init /\ [][Next]_vars

\* One administration page at a time: it makes no new request before the
\* previous one was answered, what that one left in the network is gone, and
\* Auth does not stop in between.
SerialNext ==
    \/ \E c \in Calls :
         \/ Quiet /\ (OpenSend(c) \/ CloseSend(c))
         \/ Handle(c)
         \/ \E r \in Remotes : GiveUp(c, r)
    \/ AllDone

SerialSpec == Init /\ [][SerialNext]_vars

\* The handlers run to their end, and the administrator keeps trying.
SerialFairSpec ==
    /\ SerialSpec
    /\ \A c \in Calls : WF_vars(Handle(c))
    /\ WF_vars(\E c \in Calls : Quiet /\ (OpenSend(c) \/ CloseSend(c)))

\* The same effort without the page's discipline.
FairSpec ==
    /\ Spec
    /\ \A c \in Calls : WF_vars(Handle(c))
    /\ WF_vars(\E c \in Calls : OpenSend(c) \/ CloseSend(c))

-----------------------------------------------------------------------------
(* Properties.                                                             *)

Rows == [state : 0..3, open : Nat, close : Nat \X Nat]
CallRows == [pc : {"idle", "sent"}, op : {"open", "close"},
             open : Nat, close : Nat \X Nat]
RpcStates == {"none", "flight", "write", "end"}
Answers == {"none", "waiting", "ok", "failed"}

\* Types, and the bounds of the model.
TypeOK ==
    /\ auth \in Rows /\ auth.state # 0
    /\ remote \in [Remotes -> Rows]
    /\ call \in [Calls -> CallRows]
    /\ rpc \in [Calls -> [Remotes -> RpcStates]]
    /\ reply \in [Calls -> [Remotes -> Answers]]
    /\ now \in Nat
    /\ faults \in 0 .. MaxFaults

\* Whatever overlaps or fails, Auth stores state 2 or 3 (openElection.js:144,
\* closeElection.js:134) only when every server has been opened: voters are
\* never sent a link (sendVoteLink.js:33) that some server does not know.
OpenedEverywhere ==
    auth.state >= 2 => \A r \in Remotes : remote[r].state >= 2

\* Whatever overlaps or fails, no server stops taking votes before every
\* server has begun to.
NoneClosedBeforeAllOpened ==
    (\E r \in Remotes : remote[r].state = 3)
        => \A r \in Remotes : remote[r].state >= 2

\* Under serial administration the opened servers hold one opening statement,
\* and the closed ones one closing statement, however many tries it took:
\* that is what lets the closing signature verify everywhere.
ServersAgree ==
    \A r, s \in Remotes :
        /\ remote[r].state >= 2 /\ remote[s].state >= 2
             => remote[r].open = remote[s].open
        /\ remote[r].state = 3 /\ remote[s].state = 3
             => remote[r].close = remote[s].close

\* Under serial administration Auth stores state 3 only when every server is
\* closed, under the statement that Auth stores.
ClosedEverywhere ==
    auth.state = 3 => \A r \in Remotes : /\ remote[r].state = 3
                                         /\ remote[r].open = auth.open
                                         /\ remote[r].close = auth.close

\* Under serial administration no server, Auth included, ever goes back to an
\* earlier state, and a statement once stored by a server is not replaced.
StatesOnlyAdvance ==
    [][/\ auth'.state >= auth.state
       /\ \A r \in Remotes :
            /\ remote'[r].state >= remote[r].state
            /\ remote[r].state >= 2 => remote'[r].open = remote[r].open
            /\ remote[r].state = 3 => remote'[r].close = remote[r].close]_vars

\* "please try it again" (openElection.js:161, closeElection.js:151): an
\* administrator who does so ends with the election closed.
RetryCompletes == <>(auth.state = 3)

\* What the servers promise together: Lifecycle, under serial administration.
Phase(s) == CASE s <= 1 -> "frozen" [] s = 2 -> "open" [] s = 3 -> "closed"

Abs == INSTANCE Lifecycle WITH
    Servers   <- Remotes,
    phase     <- [r \in Remotes |-> Phase(remote[r].state)],
    announced <- Phase(auth.state)

ImplementsLifecycle == Abs!FairSpec
=============================================================================
