-------------------------- MODULE OpenClose_proofs --------------------------
(***************************************************************************)
(* Proofs about OpenClose, for any tellers, any number of calls and any    *)
(* bound on the faults: first when calls overlap, then under serial        *)
(* administration.                                                         *)
(***************************************************************************)
EXTENDS OpenClose, TLAPS

(***************************************************************************)
(* Updating one entry of a table of rows, as every step of a request does. *)
(***************************************************************************)
LEMMA TableUpdate ==
    ASSUME NEW A, NEW B, NEW V, NEW f \in [A -> [B -> V]],
           NEW a \in A, NEW b \in B, NEW v \in V
    PROVE  /\ [f EXCEPT ![a][b] = v] \in [A -> [B -> V]]
           /\ [f EXCEPT ![a][b] = v][a][b] = v
           /\ \A x \in A, y \in B :
                x # a \/ y # b => [f EXCEPT ![a][b] = v][x][y] = f[x][y]
OBVIOUS

\* A handler that ends leaves a row of the same shape.
LEMMA IdleRow ==
    ASSUME NEW k \in CallRows
    PROVE  [k EXCEPT !.pc = "idle"] \in CallRows
BY DEF CallRows

(***************************************************************************)
(* The variables keep their types, and the faults their bound              *)
(* (auth.election and election_data as openElection.js, closeElection.js   *)
(* and the remote handlers write them).                                    *)
(***************************************************************************)
LEMMA TypeStep == TypeOK /\ [Next]_vars => TypeOK'
<1> SUFFICES ASSUME TypeOK, [Next]_vars PROVE TypeOK'
  OBVIOUS
<1> USE RemotesAssumption DEF TypeOK
<1>1. ASSUME NEW c \in Calls, OpenSend(c) PROVE TypeOK'
  BY <1>1 DEF OpenSend, Send, Rows, CallRows, RpcStates, Answers, NoTime, NoClose
<1>2. ASSUME NEW c \in Calls, CloseSend(c) PROVE TypeOK'
  BY <1>2 DEF CloseSend, Send, Rows, CallRows, RpcStates, Answers, NoTime, NoClose
<1>3. ASSUME NEW c \in Calls, NEW s \in 1..3, Update(c, s)
      PROVE  auth' \in Rows /\ auth'.state # 0
  <2>1. /\ call[c].open \in Nat /\ call[c].close \in Nat \X Nat
        /\ auth.open \in Nat /\ auth.close \in Nat \X Nat
    <3>1. call[c] \in CallRows /\ auth \in Rows
      OBVIOUS
    <3> QED
      BY <3>1 DEF CallRows, Rows
  <2>2. \E o \in Nat, k \in Nat \X Nat :
          auth' = [state |-> s, open |-> o, close |-> k]
    BY <1>3, <2>1 DEF Update, Row
  <2> QED
    BY <2>2 DEF Rows
<1>4. ASSUME NEW c \in Calls, call' = [call EXCEPT ![c].pc = "idle"]
      PROVE  call' \in [Calls -> CallRows]
  <2>1. [call[c] EXCEPT !.pc = "idle"] \in CallRows
    <3>1. call[c] \in CallRows
      OBVIOUS
    <3> QED
      BY <3>1, IdleRow
  <2> QED
    BY <1>4, <2>1
<1>5. ASSUME NEW c \in Calls, Succeed(c) PROVE TypeOK'
  <2>1. After(call[c].op) \in 1..3
    BY DEF After
  <2> QED
    BY <1>3, <1>4, <1>5, <2>1 DEF Succeed, Finish
<1>6. ASSUME NEW c \in Calls, Fail(c) PROVE TypeOK'
  <2>1. After(call[c].op) - 1 \in 1..3
    BY DEF After
  <2> QED
    BY <1>3, <1>4, <1>6, <2>1 DEF Fail, Finish
<1>7. ASSUME NEW c \in Calls, NEW r \in Remotes, NEW a \in {"ok", "failed"},
             Answer(c, r, a)
      PROVE  reply' \in [Calls -> [Remotes -> Answers]]
  BY <1>7, TableUpdate DEF Answer, Answers
<1>8. ASSUME NEW c \in Calls, NEW r \in Remotes, NEW s \in {"write", "end"},
             rpc' = [rpc EXCEPT ![c][r] = s]
      PROVE  rpc' \in [Calls -> [Remotes -> RpcStates]]
  BY <1>8, TableUpdate DEF RpcStates
<1>9. ASSUME NEW c \in Calls, NEW r \in Remotes, RemoteRead(c, r)
      PROVE  TypeOK'
  BY <1>7, <1>8, <1>9 DEF RemoteRead
<1>10. ASSUME NEW c \in Calls, NEW r \in Remotes, RemoteWrite(c, r)
       PROVE  TypeOK'
  <2>1. remote' \in [Remotes -> Rows]
    <3>1. call[c] \in CallRows
      OBVIOUS
    <3> QED
      BY <1>10, <3>1 DEF RemoteWrite, Row, Rows, CallRows, NoClose, NoTime
  <2> QED
    BY <1>7, <1>8, <1>10, <2>1 DEF RemoteWrite
<1>11. ASSUME NEW c \in Calls, Crash(c) PROVE TypeOK'
  <2>1. faults' \in 0 .. MaxFaults
    BY <1>11, RemotesAssumption DEF Crash
  <2>2. call' \in [Calls -> CallRows]
    BY <1>4, <1>11 DEF Crash
  <2> QED
    BY <1>11, <2>1, <2>2 DEF Crash
<1>12. ASSUME NEW c \in Calls, NEW r \in Remotes, GiveUp(c, r) PROVE TypeOK'
  <2>1. reply' \in [Calls -> [Remotes -> Answers]]
    BY <1>12, TableUpdate DEF GiveUp, Answers
  <2> QED
    BY <1>8, <1>12, <2>1 DEF GiveUp
<1>13. CASE UNCHANGED vars
  BY <1>13 DEF vars
<1> QED
  BY <1>1, <1>2, <1>5, <1>6, <1>9, <1>10, <1>11, <1>12, <1>13
  DEF Next, Handle, AllDone

THEOREM TypeCorrect == Spec => []TypeOK
<1>1. Init => TypeOK
  BY RemotesAssumption
  DEF Init, TypeOK, Rows, CallRows, RpcStates, Answers, Row, Idle, NoTime,
      NoClose, NotOpened
<1> QED
  BY <1>1, TypeStep, PTL DEF Spec

-----------------------------------------------------------------------------
(***************************************************************************)
(* An answer changes at most the entry of its own request.                 *)
(***************************************************************************)
LEMMA AnswerEffect ==
    ASSUME TypeOK, NEW c \in Calls, NEW r \in Remotes, NEW a, Answer(c, r, a),
           NEW d \in Calls, NEW s \in Remotes
    PROVE  \/ reply'[d][s] = reply[d][s]
           \/ d = c /\ s = r /\ reply'[d][s] = a
<1>1. CASE reply[c][r] = "waiting"
  <2>1. reply' = [reply EXCEPT ![c][r] = a]
    BY <1>1 DEF Answer
  <2> QED
    BY <2>1 DEF TypeOK
<1>2. CASE reply[c][r] # "waiting"
  BY <1>2 DEF Answer
<1> QED
  BY <1>1, <1>2

(***************************************************************************)
(* An answer "ok" is proof that the server is open, a close is only sent   *)
(* once every server is, and no server ever goes back before "open".       *)
(***************************************************************************)
AllOpened == \A r \in Remotes : remote[r].state >= 2

OpenIInv ==
    /\ \A c \in Calls, r \in Remotes :
         reply[c][r] = "ok" => remote[r].state >= 2
    /\ \A c \in Calls : call[c].op = "close" => AllOpened
    /\ auth.state >= 2 => AllOpened
    /\ (\E r \in Remotes : remote[r].state = 3) => AllOpened

LEMMA OpenStep == TypeOK /\ OpenIInv /\ [Next]_vars => OpenIInv'
<1> SUFFICES ASSUME TypeOK, OpenIInv, [Next]_vars PROVE OpenIInv'
  OBVIOUS
<1> USE DEF TypeOK, OpenIInv, AllOpened
<1>1. ASSUME NEW c \in Calls, NEW op \in {"open", "close"}, NEW o, NEW k,
             Send(c, op, o, k), op = "close" => auth.state = 2,
             UNCHANGED <<auth, remote>>
      PROVE  OpenIInv'
  BY <1>1 DEF Send, CallRows
<1>2. ASSUME NEW c \in Calls, OpenSend(c) PROVE OpenIInv'
  BY <1>1, <1>2 DEF OpenSend
<1>3. ASSUME NEW c \in Calls, CloseSend(c) PROVE OpenIInv'
  BY <1>1, <1>3 DEF CloseSend
<1>4. ASSUME NEW c \in Calls, Succeed(c) PROVE OpenIInv'
  <2>1. AllOpened
    BY <1>4 DEF Succeed
  <2>2. UNCHANGED <<remote, reply>>
    BY <1>4 DEF Succeed, Finish
  <2>3. \A d \in Calls : call'[d].op = call[d].op
    BY <1>4 DEF Succeed, Finish, CallRows
  <2> QED
    BY <2>1, <2>2, <2>3
<1>5. ASSUME NEW c \in Calls, Fail(c) PROVE OpenIInv'
  <2>1. auth'.state >= 2 => call[c].op = "close"
    BY <1>5 DEF Fail, Update, After, Row, CallRows
  <2>2. UNCHANGED <<remote, reply>>
    BY <1>5 DEF Fail, Finish
  <2>3. \A d \in Calls : call'[d].op = call[d].op
    BY <1>5 DEF Fail, Finish, CallRows
  <2> QED
    BY <2>1, <2>2, <2>3
<1>6. ASSUME NEW c \in Calls, NEW r \in Remotes, RemoteRead(c, r)
      PROVE  OpenIInv'
  <2>1. UNCHANGED <<auth, remote, call>>
    BY <1>6 DEF RemoteRead
  <2>2. \A d \in Calls, s \in Remotes :
           reply'[d][s] = "ok" => reply[d][s] = "ok" \/ remote[s].state >= 2
    <3> SUFFICES ASSUME NEW d \in Calls, NEW s \in Remotes,
                        reply'[d][s] = "ok", reply[d][s] # "ok"
                 PROVE  remote[s].state >= 2
      OBVIOUS
    <3>1. reply'[d][s] # reply[d][s]
      OBVIOUS
    <3>2. ~ Answer(c, r, "failed") /\ ~ UNCHANGED reply
      BY <3>1, AnswerEffect
    <3>3. Answer(c, r, "ok") /\ remote[r].state = After(call[c].op)
      BY <1>6, <3>2 DEF RemoteRead
    <3>4. s = r
      BY <3>1, <3>3, AnswerEffect
    <3> QED
      BY <3>3, <3>4 DEF After
  <2> QED
    BY <2>1, <2>2
<1>7. ASSUME NEW c \in Calls, NEW r \in Remotes, RemoteWrite(c, r)
      PROVE  OpenIInv'
  <2>1. UNCHANGED <<auth, call>>
    BY <1>7 DEF RemoteWrite
  <2>2. /\ \A s \in Remotes : s # r => remote'[s] = remote[s]
        /\ call[c].op = "open" => remote'[r].state = 2
        /\ call[c].op # "open" => remote'[r].state = 3
    <3> DEFINE row == IF call[c].op = "open"
                      THEN Row(2, call[c].open, NoClose)
                      ELSE Row(3, call[c].close[1], call[c].close)
    <3>1. remote' = [remote EXCEPT ![r] = row]
      BY <1>7 DEF RemoteWrite
    <3>2. remote'[r] = row
      BY <3>1
    <3> QED
      BY <3>1, <3>2 DEF Row
  <2>3. \A d \in Calls, s \in Remotes :
           reply'[d][s] = "ok" => reply[d][s] = "ok" \/ s = r
    <3>1. Answer(c, r, "ok")
      BY <1>7 DEF RemoteWrite
    <3>2. ASSUME NEW d \in Calls, NEW s \in Remotes
          PROVE  reply'[d][s] = reply[d][s] \/ s = r
      BY <3>1, AnswerEffect
    <3> QED
      BY <3>2
  <2>4. call[c].op \in {"open", "close"}
    BY DEF CallRows
  <2>5. /\ remote'[r].state >= 2
        /\ \A s \in Remotes : remote[s].state >= 2 => remote'[s].state >= 2
    BY <2>2
  <2>6. AllOpened => AllOpened'
    BY <2>5
  <2>7. (\E s \in Remotes : remote'[s].state = 3) => AllOpened'
    BY <2>2, <2>4, <2>6
  <2>8. \A d \in Calls, s \in Remotes :
           reply'[d][s] = "ok" => remote'[s].state >= 2
    BY <2>3, <2>5
  <2> QED
    BY <2>1, <2>6, <2>7, <2>8
<1>8. ASSUME NEW c \in Calls, Crash(c) PROVE OpenIInv'
  <2>1. \A d \in Calls : call'[d].op = call[d].op
    BY <1>8 DEF Crash, CallRows
  <2> QED
    BY <1>8, <2>1 DEF Crash
<1>9. ASSUME NEW c \in Calls, NEW r \in Remotes, GiveUp(c, r)
      PROVE  OpenIInv'
  <2>1. \A d \in Calls, s \in Remotes :
           reply'[d][s] = "ok" => reply[d][s] = "ok"
    BY <1>9, TableUpdate DEF GiveUp, Answers
  <2> QED
    BY <1>9, <2>1 DEF GiveUp
<1>10. CASE UNCHANGED vars
  BY <1>10 DEF vars
<1> QED
  BY <1>2, <1>3, <1>4, <1>5, <1>6, <1>7, <1>8, <1>9, <1>10
  DEF Next, Handle, AllDone

LEMMA OpenInvariant == Spec => []OpenIInv
<1>1. Init => OpenIInv
  <2> SUFFICES ASSUME Init PROVE OpenIInv
    OBVIOUS
  <2>1. auth.state = 1
    BY DEF Init, Row
  <2>2. \A r \in Remotes : remote[r].state \in {0, 1}
    BY DEF Init, Row, NotOpened
  <2>3. \A c \in Calls : call[c].op = "open"
    BY DEF Init, Idle
  <2>4. \A c \in Calls, r \in Remotes : reply[c][r] = "none"
    BY DEF Init
  <2> QED
    BY <2>1, <2>2, <2>3, <2>4 DEF OpenIInv
<1> QED
  BY <1>1, OpenStep, TypeCorrect, PTL DEF Spec

(***************************************************************************)
(* Whatever overlaps, is lost, is late or stops, Auth stores state 2 or 3  *)
(* only when every server has been opened (openElection.js:129-147).       *)
(***************************************************************************)
THEOREM OpenedEverywhereHolds == Spec => []OpenedEverywhere
<1>1. OpenIInv => OpenedEverywhere
  BY DEF OpenIInv, OpenedEverywhere, AllOpened
<1> QED
  BY <1>1, OpenInvariant, PTL

(***************************************************************************)
(* No server closes before every server has opened (closeElection.js:91).  *)
(***************************************************************************)
THEOREM NoneClosedBeforeAllOpenedHolds == Spec => []NoneClosedBeforeAllOpened
<1>1. OpenIInv => NoneClosedBeforeAllOpened
  BY DEF OpenIInv, NoneClosedBeforeAllOpened, AllOpened
<1> QED
  BY <1>1, OpenInvariant, PTL

-----------------------------------------------------------------------------
(***************************************************************************)
(* Serial administration (SerialSpec): servers agree on one opening and    *)
(* one closing statement, none goes back, and every step is one of         *)
(* Lifecycle's or changes nothing there.                                   *)
(***************************************************************************)

Opened(r) == remote[r].state >= 2

\* One slot at most has a request in work.
OneBusy == \A c, d \in Calls : ~Free(c) /\ ~Free(d) => c = d

\* What a server has answered, and is about to write, is still so: nobody else
\* changes it meanwhile.
RequestsInv ==
    \A c \in Calls, r \in Remotes :
        /\ call[c].pc = "sent" /\ reply[c][r] = "ok" =>
             rpc[c][r] = "end" /\ remote[r].state = After(call[c].op)
        /\ rpc[c][r] = "write" => remote[r].state = Before(call[c].op, r)

\* Before the election is open: all that is sent or opened is one statement,
\* the stored one as soon as a try has ended.
FrozenInv ==
    /\ auth.close = NoClose
    /\ \A r \in Remotes :
         /\ remote[r].state \in {NotOpened(r), 2}
         /\ Opened(r) /\ auth.open # NoTime => remote[r].open = auth.open
         /\ Opened(r) /\ auth.open = NoTime => \E c \in Calls : call[c].pc = "sent"
    /\ \A c \in Calls : ~Free(c) =>
         /\ call[c].op = "open" /\ call[c].open # NoTime
         /\ call[c].pc = "idle" \/ auth.open # NoTime => call[c].open = auth.open
         /\ \A r \in Remotes : Opened(r) => remote[r].open = call[c].open

\* While it is open: the same of the closing statement, which covers the
\* opening time that every server holds.
OpenInv ==
    /\ auth.open # NoTime
    /\ auth.close # NoClose => auth.close[1] = auth.open
    /\ \A r \in Remotes :
         /\ remote[r].state \in {2, 3} /\ remote[r].open = auth.open
         /\ remote[r].state = 3 /\ auth.close # NoClose =>
              remote[r].close = auth.close
         /\ remote[r].state = 3 /\ auth.close = NoClose =>
              \E c \in Calls : call[c].pc = "sent"
    /\ \A c \in Calls : ~Free(c) =>
         /\ call[c].op = "close"
         /\ call[c].close # NoClose /\ call[c].close[1] = auth.open
         /\ call[c].pc = "idle" \/ auth.close # NoClose =>
              call[c].close = auth.close
         /\ \A r \in Remotes : remote[r].state = 3 =>
              remote[r].close = call[c].close

ClosedInv ==
    /\ Quiet
    /\ \A r \in Remotes : /\ remote[r].state = 3
                          /\ remote[r].open = auth.open
                          /\ remote[r].close = auth.close

SerialInv ==
    /\ OneBusy
    /\ RequestsInv
    /\ auth.state = 1 => FrozenInv
    /\ auth.state = 2 => OpenInv
    /\ auth.state = 3 => ClosedInv
    /\ auth.state \in 1 .. 3

SInv == TypeOK /\ SerialInv

LEMMA SerialIsNext == [SerialNext]_vars => [Next]_vars
BY DEF SerialNext, Next

LEMMA InitSerial == Init => SerialInv
<1> SUFFICES ASSUME Init PROVE SerialInv
  OBVIOUS
<1>1. \A c \in Calls : Free(c) /\ call[c].pc = "idle"
  BY DEF Init, Free, Idle
<1>2. auth.state = 1 /\ auth.close = NoClose
  BY DEF Init, Row
<1>3. \A r \in Remotes : remote[r].state = NotOpened(r) /\ ~Opened(r)
  BY DEF Init, Row, NotOpened, Opened
<1>4. RequestsInv
  BY <1>1 DEF Init, RequestsInv
<1> QED
  BY <1>1, <1>2, <1>3, <1>4 DEF SerialInv, OneBusy, FrozenInv

(***************************************************************************)
(* What the steps of a call change of the tables.                          *)
(***************************************************************************)
LEMMA SendEffect ==
    ASSUME TypeOK, NEW c \in Calls, NEW op, NEW o, NEW k, Send(c, op, o, k)
    PROVE  /\ call'[c].pc = "sent" /\ call'[c].op = op
           /\ call'[c].open = o /\ call'[c].close = k
           /\ \A r \in Remotes : rpc'[c][r] = "flight" /\ reply'[c][r] = "waiting"
           /\ \A d \in Calls : d # c => /\ call'[d] = call[d]
                                       /\ rpc'[d] = rpc[d]
                                       /\ reply'[d] = reply[d]
BY DEF Send, TypeOK

LEMMA FinishEffect ==
    ASSUME TypeOK, NEW c \in Calls, Finish(c)
    PROVE  /\ call'[c].pc = "idle" /\ call'[c].op = call[c].op
           /\ call'[c].open = call[c].open /\ call'[c].close = call[c].close
           /\ \A d \in Calls : d # c => call'[d] = call[d]
           /\ UNCHANGED <<remote, rpc, reply, now, faults>>
BY DEF Finish, TypeOK, CallRows

LEMMA UpdateEffect ==
    ASSUME NEW c \in Calls, NEW s, Update(c, s)
    PROVE  /\ auth'.state = s
           /\ call[c].op = "open" => /\ auth'.open = call[c].open
                                     /\ auth'.close = auth.close
           /\ call[c].op # "open" => /\ auth'.open = auth.open
                                     /\ auth'.close = call[c].close
BY DEF Update, Row

LEMMA WriteEffect ==
    ASSUME TypeOK, NEW c \in Calls, NEW r \in Remotes, RemoteWrite(c, r)
    PROVE  /\ UNCHANGED <<auth, call>>
           /\ \A s \in Remotes : s # r => remote'[s] = remote[s]
           /\ call[c].op = "open" => /\ remote'[r].state = 2
                                     /\ remote'[r].open = call[c].open
           /\ call[c].op = "close" => /\ remote'[r].state = 3
                                      /\ remote'[r].open = call[c].close[1]
                                      /\ remote'[r].close = call[c].close
<1> DEFINE row == IF call[c].op = "open"
                  THEN Row(2, call[c].open, NoClose)
                  ELSE Row(3, call[c].close[1], call[c].close)
<1>1. remote' = [remote EXCEPT ![r] = row] /\ UNCHANGED <<auth, call>>
  BY DEF RemoteWrite
<1>2. remote'[r] = row /\ \A s \in Remotes : s # r => remote'[s] = remote[s]
  BY <1>1 DEF TypeOK
<1> QED
  BY <1>1, <1>2 DEF Row

\* A step of a request: it was in work, and only its own entry changes.
LEMMA RequestEffect ==
    ASSUME TypeOK, NEW c \in Calls, NEW r \in Remotes,
           RemoteRead(c, r) \/ RemoteWrite(c, r) \/ GiveUp(c, r)
    PROVE  /\ UNCHANGED <<auth, call>>
           /\ \A d \in Calls, s \in Remotes :
                /\ rpc'[d][s] # rpc[d][s] => d = c /\ s = r /\ ~Free(c)
                /\ rpc'[d][s] = "write" /\ rpc[d][s] # "write" =>
                     remote[s].state = Before(call[d].op, s) /\ UNCHANGED remote
                /\ reply'[d][s] = "ok" /\ reply[d][s] # "ok" =>
                     /\ d = c /\ s = r /\ rpc'[d][s] = "end"
                     /\ remote[r].state = After(call[c].op) \/ RemoteWrite(c, r)
                /\ rpc[d][s] = "end" => rpc'[d][s] = "end"
<1>1. UNCHANGED <<auth, call>>
  BY DEF RemoteRead, RemoteWrite, GiveUp
<1>2. CASE RemoteRead(c, r) \/ RemoteWrite(c, r)
  <2>1. /\ rpc[c][r] \in {"flight", "write"} /\ ~Free(c)
        /\ \E x \in {"write", "end"} : rpc' = [rpc EXCEPT ![c][r] = x]
    BY <1>2 DEF RemoteRead, RemoteWrite, Free
  <2>2. \A d \in Calls, s \in Remotes :
          (d # c \/ s # r) => rpc'[d][s] = rpc[d][s]
    BY <2>1 DEF TypeOK
  <2>3. rpc'[c][r] = "write" /\ rpc[c][r] # "write" =>
          remote[r].state = Before(call[c].op, r) /\ UNCHANGED remote
    BY <1>2, <2>1 DEF TypeOK, RemoteRead, RemoteWrite
  <2>4. rpc'[c][r] = "end" \/ UNCHANGED reply
    BY <1>2 DEF TypeOK, RemoteRead, RemoteWrite
  <2>5. \/ UNCHANGED reply
        \/ Answer(c, r, "failed")
        \/ /\ Answer(c, r, "ok")
           /\ remote[r].state = After(call[c].op) \/ RemoteWrite(c, r)
    BY <1>2 DEF RemoteRead, RemoteWrite
  <2>6. ASSUME NEW d \in Calls, NEW s \in Remotes,
               reply'[d][s] = "ok", reply[d][s] # "ok"
        PROVE  /\ d = c /\ s = r
               /\ remote[r].state = After(call[c].op) \/ RemoteWrite(c, r)
    BY <2>5, <2>6, AnswerEffect
  <2> QED
    BY <1>1, <2>1, <2>2, <2>3, <2>4, <2>6
<1>3. CASE GiveUp(c, r)
  <2>1. \A d \in Calls, s \in Remotes : reply'[d][s] = "ok" => reply[d][s] = "ok"
    BY <1>3, TableUpdate DEF GiveUp, TypeOK, Answers
  <2>2. \/ UNCHANGED rpc
        \/ rpc[c][r] = "flight" /\ rpc' = [rpc EXCEPT ![c][r] = "end"]
    BY <1>3 DEF GiveUp
  <2>3. CASE UNCHANGED rpc
    BY <1>1, <2>1, <2>3
  <2>4. CASE rpc[c][r] = "flight" /\ rpc' = [rpc EXCEPT ![c][r] = "end"]
    <3>1. ~Free(c)
      BY <2>4 DEF Free
    <3>2. /\ rpc'[c][r] = "end"
          /\ \A d \in Calls, s \in Remotes :
               (d # c \/ s # r) => rpc'[d][s] = rpc[d][s]
      BY <2>4 DEF TypeOK
    <3> QED
      BY <1>1, <2>1, <2>4, <3>1, <3>2
  <2> QED
    BY <2>2, <2>3, <2>4
<1> QED
  BY <1>2, <1>3

(***************************************************************************)
(* A request makes no new slot busy.                                       *)
(***************************************************************************)
LEMMA BusyBefore ==
    ASSUME SInv, NEW c \in Calls, NEW r \in Remotes,
           RemoteRead(c, r) \/ RemoteWrite(c, r) \/ GiveUp(c, r)
    PROVE  /\ \A d \in Calls : ~Free(d)' => ~Free(d)
           /\ OneBusy'
<1>1. ASSUME NEW d \in Calls, Free(d) PROVE Free(d)'
  <2>1. call[d].pc = "idle" /\ \A s \in Remotes : rpc[d][s] \in {"none", "end"}
    BY <1>1 DEF Free
  <2>2. \A s \in Remotes : rpc'[d][s] = rpc[d][s]
    BY <1>1, RequestEffect DEF SInv
  <2> QED
    BY <2>1, <2>2, RequestEffect DEF Free, SInv
<1> QED
  BY <1>1 DEF OneBusy, SInv, SerialInv

(***************************************************************************)
(* A new try: nothing else is going on, and it sends the stored statement  *)
(* or, when no server can hold another, a new one.                         *)
(***************************************************************************)
LEMMA OnlyBusy ==
    ASSUME SInv, Quiet, NEW c \in Calls, NEW op, NEW o, NEW k, Send(c, op, o, k)
    PROVE  /\ \A d \in Calls : ~Free(d)' => d = c
           /\ OneBusy'
<1>1. ASSUME NEW d \in Calls, d # c PROVE Free(d)'
  <2>1. Free(d)
    BY DEF Quiet
  <2>2. call'[d] = call[d] /\ rpc'[d] = rpc[d]
    BY <1>1, SendEffect DEF SInv
  <2> QED
    BY <2>1, <2>2 DEF Free
<1> QED
  BY <1>1 DEF OneBusy

LEMMA RequestsSent ==
    ASSUME SInv, Quiet, NEW c \in Calls, NEW op, NEW o, NEW k, Send(c, op, o, k)
    PROVE  RequestsInv'
<1>1. ASSUME NEW d \in Calls, NEW r \in Remotes
      PROVE  /\ ~(call'[d].pc = "sent" /\ reply'[d][r] = "ok")
             /\ rpc'[d][r] # "write"
  <2>1. CASE d = c
    BY <2>1, SendEffect DEF SInv
  <2>2. CASE d # c
    <3>1. Free(d) /\ call'[d] = call[d] /\ rpc'[d] = rpc[d]
      BY <2>2, SendEffect DEF Quiet, SInv
    <3> QED
      BY <3>1 DEF Free
  <2> QED
    BY <2>1, <2>2
<1> QED
  BY <1>1 DEF RequestsInv

LEMMA OpenSendStep ==
    ASSUME SInv, Quiet, NEW c \in Calls, OpenSend(c)
    PROVE  SerialInv'
<1> DEFINE open == IF auth.open # NoTime THEN auth.open ELSE now + 1
<1>1. Send(c, "open", open, NoClose) /\ UNCHANGED <<auth, remote>>
      /\ auth.state = 1
  BY DEF OpenSend
<1>2. FrozenInv /\ open # NoTime /\ (auth.open # NoTime => open = auth.open)
  BY <1>1 DEF SInv, SerialInv, TypeOK, NoTime
<1> HIDE DEF open
<1>3. /\ call'[c].op = "open" /\ call'[c].open = open /\ call'[c].pc = "sent"
      /\ OneBusy' /\ \A d \in Calls : ~Free(d)' => d = c
      /\ RequestsInv'
  BY <1>1, SendEffect, OnlyBusy, RequestsSent DEF SInv
<1>4. \A r \in Remotes : Opened(r) => auth.open # NoTime
  BY <1>2 DEF FrozenInv, Quiet, Free
<1>5. FrozenInv'
  <2>1. \A r \in Remotes : Opened(r)' = Opened(r)
    BY <1>1 DEF Opened
  <2> QED
    BY <1>1, <1>2, <1>3, <1>4, <2>1 DEF FrozenInv, NotOpened
<1> QED
  BY <1>1, <1>3, <1>5 DEF SerialInv

LEMMA CloseSendStep ==
    ASSUME SInv, Quiet, NEW c \in Calls, CloseSend(c)
    PROVE  SerialInv'
<1> DEFINE close == IF auth.close # NoClose THEN auth.close
                                           ELSE <<auth.open, now + 1>>
<1>1. Send(c, "close", NoTime, close) /\ UNCHANGED <<auth, remote>>
      /\ auth.state = 2
  BY DEF CloseSend
<1>2. /\ OpenInv /\ close # NoClose /\ close[1] = auth.open
      /\ auth.close # NoClose => close = auth.close
  <2>1. OpenInv
    BY <1>1 DEF SInv, SerialInv
  <2>2. auth.open # NoTime /\ (auth.close # NoClose => auth.close[1] = auth.open)
    BY <2>1 DEF OpenInv
  <2> QED
    BY <2>1, <2>2 DEF NoClose
<1> HIDE DEF close
<1>3. /\ call'[c].op = "close" /\ call'[c].close = close /\ call'[c].pc = "sent"
      /\ OneBusy' /\ \A d \in Calls : ~Free(d)' => d = c
      /\ RequestsInv'
  BY <1>1, SendEffect, OnlyBusy, RequestsSent DEF SInv
<1>4. \A r \in Remotes : remote[r].state = 3 => auth.close # NoClose
  BY <1>2 DEF OpenInv, Quiet, Free
<1>5. OpenInv'
  BY <1>1, <1>2, <1>3, <1>4 DEF OpenInv
<1> QED
  BY <1>1, <1>3, <1>5 DEF SerialInv

(***************************************************************************)
(* The end of a try.                                                       *)
(***************************************************************************)
LEMMA FinishBusy ==
    ASSUME SInv, NEW c \in Calls, Finish(c)
    PROVE  /\ ~Free(c) /\ OneBusy' /\ RequestsInv'
           /\ \A d \in Calls : ~Free(d)' => d = c
           /\ (\A r \in Remotes : rpc[c][r] = "end") => Quiet'
<1>1. ~Free(c)
  BY DEF Finish, Free
<1>2. ASSUME NEW d \in Calls, d # c PROVE Free(d)'
  <2>1. Free(d) /\ call'[d] = call[d] /\ rpc' = rpc
    BY <1>1, <1>2, FinishEffect DEF SInv, SerialInv, OneBusy
  <2> QED
    BY <2>1 DEF Free
<1>3. RequestsInv'
  <2>1. \A d \in Calls : /\ call'[d].op = call[d].op
                         /\ call'[d].pc = "sent" => call[d].pc = "sent"
    BY FinishEffect DEF SInv
  <2>2. UNCHANGED <<remote, rpc, reply>>
    BY DEF Finish
  <2> QED
    BY <2>1, <2>2 DEF SInv, SerialInv, RequestsInv
<1>4. (\A r \in Remotes : rpc[c][r] = "end") => Free(c)'
  BY FinishEffect DEF Free, SInv
<1> QED
  BY <1>1, <1>2, <1>3, <1>4 DEF OneBusy, Quiet

\* The state that Auth is in tells what kind of call is at work.
LEMMA KindOfCall ==
    ASSUME SInv, NEW c \in Calls, ~Free(c)
    PROVE  \/ auth.state = 1 /\ call[c].op = "open" /\ FrozenInv
           \/ auth.state = 2 /\ call[c].op = "close" /\ OpenInv
<1>1. auth.state # 3
  BY DEF SInv, SerialInv, ClosedInv, Quiet
<1> QED
  BY <1>1 DEF SInv, SerialInv, FrozenInv, OpenInv

LEMMA SucceedStep ==
    ASSUME SInv, NEW c \in Calls, Succeed(c)
    PROVE  SerialInv'
<1>1. Finish(c) /\ Update(c, After(call[c].op)) /\ call[c].pc = "sent"
      /\ UNCHANGED remote
  BY DEF Succeed, Finish
<1>2. \A r \in Remotes : /\ rpc[c][r] = "end"
                         /\ remote[r].state = After(call[c].op)
  BY <1>1 DEF Succeed, SInv, SerialInv, RequestsInv
<1>3. ~Free(c) /\ OneBusy' /\ RequestsInv' /\ Quiet'
  BY <1>1, <1>2, FinishBusy
<1>4. CASE auth.state = 1 /\ call[c].op = "open" /\ FrozenInv
  <2>1. /\ auth'.state = 2 /\ auth'.open = call[c].open
        /\ auth'.close = NoClose
    BY <1>1, <1>4, UpdateEffect DEF After, FrozenInv
  <2>2. /\ call[c].open # NoTime
        /\ \A r \in Remotes : remote[r].state = 2 /\ remote[r].open = call[c].open
    BY <1>2, <1>3, <1>4 DEF FrozenInv, After, Opened
  <2>3. OpenInv'
    BY <1>1, <1>3, <2>1, <2>2 DEF OpenInv, Quiet
  <2> QED
    BY <1>3, <2>1, <2>3 DEF SerialInv
<1>5. CASE auth.state = 2 /\ call[c].op = "close" /\ OpenInv
  <2>1. /\ auth'.state = 3 /\ auth'.open = auth.open
        /\ auth'.close = call[c].close
    BY <1>1, <1>5, UpdateEffect DEF After
  <2>2. \A r \in Remotes : /\ remote[r].state = 3 /\ remote[r].open = auth.open
                           /\ remote[r].close = call[c].close
    BY <1>2, <1>3, <1>5 DEF OpenInv, After
  <2>3. ClosedInv'
    BY <1>1, <1>3, <2>1, <2>2 DEF ClosedInv
  <2> QED
    BY <1>3, <2>1, <2>3 DEF SerialInv
<1> QED
  BY <1>3, <1>4, <1>5, KindOfCall

LEMMA FailStep ==
    ASSUME SInv, NEW c \in Calls, Fail(c)
    PROVE  SerialInv'
<1>1. Finish(c) /\ Update(c, After(call[c].op) - 1) /\ call[c].pc = "sent"
      /\ UNCHANGED remote
  BY DEF Fail, Finish
<1>2. /\ ~Free(c) /\ OneBusy' /\ RequestsInv'
      /\ \A d \in Calls : ~Free(d)' => d = c
  BY <1>1, FinishBusy
<1>3. /\ call'[c].op = call[c].op /\ call'[c].open = call[c].open
      /\ call'[c].close = call[c].close
  BY <1>1, FinishEffect DEF SInv
<1>4. CASE auth.state = 1 /\ call[c].op = "open" /\ FrozenInv
  <2>1. /\ auth'.state = 1 /\ auth'.open = call[c].open
        /\ auth'.close = NoClose
    BY <1>1, <1>4, UpdateEffect DEF After, FrozenInv
  <2>2. /\ call[c].open # NoTime
        /\ \A r \in Remotes : Opened(r) => remote[r].open = call[c].open
    BY <1>2, <1>4 DEF FrozenInv
  <2>3. \A r \in Remotes : Opened(r)' = Opened(r)
    BY <1>1 DEF Opened
  <2>4. FrozenInv'
    BY <1>1, <1>2, <1>3, <1>4, <2>1, <2>2, <2>3 DEF FrozenInv, NotOpened
  <2> QED
    BY <1>2, <2>1, <2>4 DEF SerialInv
<1>5. CASE auth.state = 2 /\ call[c].op = "close" /\ OpenInv
  <2>1. /\ auth'.state = 2 /\ auth'.open = auth.open
        /\ auth'.close = call[c].close
    BY <1>1, <1>5, UpdateEffect DEF After
  <2>2. /\ call[c].close # NoClose /\ call[c].close[1] = auth.open
        /\ \A r \in Remotes : remote[r].state = 3 =>
             remote[r].close = call[c].close
    BY <1>2, <1>5 DEF OpenInv
  <2>3. OpenInv'
    BY <1>1, <1>2, <1>3, <1>5, <2>1, <2>2 DEF OpenInv
  <2> QED
    BY <1>2, <2>1, <2>3 DEF SerialInv
<1> QED
  BY <1>2, <1>4, <1>5, KindOfCall

(***************************************************************************)
(* A request at a server, and one that Auth gives up.                      *)
(***************************************************************************)
LEMMA ReadStep ==
    ASSUME SInv, NEW c \in Calls, NEW r \in Remotes,
           RemoteRead(c, r) \/ GiveUp(c, r)
    PROVE  SerialInv'
<1>1. UNCHANGED <<auth, remote, call>> /\ ~RemoteWrite(c, r)
  <2>1. UNCHANGED <<auth, remote, call>>
    BY DEF RemoteRead, GiveUp
  <2>2. rpc[c][r] # "write" \/ GiveUp(c, r)
    BY DEF RemoteRead
  <2> QED
    BY <2>1, <2>2 DEF RemoteWrite, GiveUp, SInv, TypeOK
<1>2. (\A d \in Calls : ~Free(d)' => ~Free(d)) /\ OneBusy'
  BY BusyBefore
<1>3. RequestsInv'
  BY <1>1, RequestEffect DEF SInv, SerialInv, RequestsInv
<1>4. \A s \in Remotes : Opened(s)' = Opened(s)
  BY <1>1 DEF Opened
<1>5. FrozenInv => FrozenInv'
  BY <1>1, <1>2, <1>4 DEF FrozenInv, NotOpened
<1>6. OpenInv => OpenInv'
  BY <1>1, <1>2 DEF OpenInv
<1>7. ClosedInv => ClosedInv'
  BY <1>1, <1>2 DEF ClosedInv, Quiet
<1> QED
  BY <1>1, <1>2, <1>3, <1>5, <1>6, <1>7 DEF SInv, SerialInv

LEMMA WriteStep ==
    ASSUME SInv, NEW c \in Calls, NEW r \in Remotes, RemoteWrite(c, r)
    PROVE  SerialInv'
<1>1. /\ rpc[c][r] = "write" /\ ~Free(c)
      /\ remote[r].state = Before(call[c].op, r)
      /\ rpc'[c][r] = "end"
  <2>1. rpc[c][r] = "write" /\ rpc' = [rpc EXCEPT ![c][r] = "end"]
    BY DEF RemoteWrite
  <2> QED
    BY <2>1 DEF SInv, TypeOK, SerialInv, RequestsInv, Free
<1>2. (\A d \in Calls : ~Free(d)' => ~Free(d)) /\ OneBusy'
  BY BusyBefore
<1>3. \A d \in Calls : d # c => Free(d)
  BY <1>1 DEF SInv, SerialInv, OneBusy
<1>4. /\ UNCHANGED <<auth, call>>
      /\ \A s \in Remotes : s # r => remote'[s] = remote[s]
  BY WriteEffect DEF SInv
<1>5. remote'[r].state = After(call[c].op)
  BY WriteEffect DEF SInv, TypeOK, CallRows, After
<1>6. RequestsInv'
  <2> SUFFICES ASSUME NEW d \in Calls, NEW s \in Remotes
               PROVE  /\ call[d].pc = "sent" /\ reply'[d][s] = "ok" =>
                           rpc'[d][s] = "end" /\ remote'[s].state = After(call[d].op)
                      /\ rpc'[d][s] = "write" =>
                           remote'[s].state = Before(call[d].op, s)
    BY <1>4 DEF RequestsInv
  <2>1. CASE d # c
    <3>1. call[d].pc = "idle" /\ rpc[d][s] # "write"
      BY <1>3, <2>1 DEF Free
    <3> QED
      BY <2>1, <3>1, RequestEffect DEF SInv
  <2>2. CASE d = c /\ s = r
    BY <1>1, <1>5, <2>2
  <2>3. CASE d = c /\ s # r
    <3>1. remote'[s] = remote[s] /\ rpc'[c][s] = rpc[c][s]
          /\ (reply'[c][s] = "ok" => reply[c][s] = "ok")
      BY <1>4, <2>3, RequestEffect DEF SInv
    <3> QED
      BY <2>3, <3>1 DEF SInv, SerialInv, RequestsInv
  <2> QED
    BY <2>1, <2>2, <2>3
<1>7. CASE auth.state = 1 /\ call[c].op = "open" /\ FrozenInv
  <2>1. remote'[r].state = 2 /\ remote'[r].open = call[c].open
    BY <1>7, WriteEffect DEF SInv
  <2>2. /\ call[c].pc = "idle" \/ auth.open # NoTime => call[c].open = auth.open
        /\ call[c].pc \in {"idle", "sent"} /\ call[c].open # NoTime
    BY <1>1, <1>7 DEF FrozenInv, SInv, TypeOK, CallRows
  <2>3. /\ Opened(r)'
        /\ \A s \in Remotes : s # r => Opened(s)' = Opened(s)
    BY <1>4, <2>1 DEF Opened
  <2>4. \A d \in Calls : ~Free(d)' => d = c
    BY <1>2, <1>3
  <2>5. FrozenInv'
    <3>1. auth'.close = NoClose
      BY <1>4, <1>7 DEF FrozenInv
    <3>2. ASSUME NEW s \in Remotes
          PROVE  /\ remote'[s].state \in {NotOpened(s), 2}
                 /\ Opened(s)' /\ auth.open # NoTime => remote'[s].open = auth.open
                 /\ Opened(s)' /\ auth.open = NoTime =>
                      \E d \in Calls : call[d].pc = "sent"
      <4>1. CASE s = r
        BY <2>1, <2>2, <4>1
      <4>2. CASE s # r
        BY <1>4, <1>7, <2>3, <4>2 DEF FrozenInv
      <4> QED
        BY <4>1, <4>2
    <3>3. \A s \in Remotes : Opened(s)' => remote'[s].open = call[c].open
      BY <1>1, <1>4, <1>7, <2>1, <2>3 DEF FrozenInv
    <3> QED
      BY <1>4, <1>7, <2>2, <2>4, <3>1, <3>2, <3>3 DEF FrozenInv, NotOpened
  <2> QED
    BY <1>2, <1>4, <1>6, <1>7, <2>5 DEF SerialInv
<1>8. CASE auth.state = 2 /\ call[c].op = "close" /\ OpenInv
  <2>1. /\ remote'[r].state = 3 /\ remote'[r].close = call[c].close
        /\ remote'[r].open = auth.open
    BY <1>1, <1>8, WriteEffect DEF SInv, OpenInv
  <2>2. /\ call[c].pc = "idle" \/ auth.close # NoClose =>
             call[c].close = auth.close
        /\ call[c].pc \in {"idle", "sent"}
        /\ call[c].close # NoClose /\ call[c].close[1] = auth.open
    BY <1>1, <1>8 DEF OpenInv, SInv, TypeOK, CallRows
  <2>3. \A d \in Calls : ~Free(d)' => d = c
    BY <1>2, <1>3
  <2>4. OpenInv'
    <3>1. ASSUME NEW s \in Remotes
          PROVE  /\ remote'[s].state \in {2, 3} /\ remote'[s].open = auth.open
                 /\ remote'[s].state = 3 /\ auth.close # NoClose =>
                      remote'[s].close = auth.close
                 /\ remote'[s].state = 3 /\ auth.close = NoClose =>
                      \E d \in Calls : call[d].pc = "sent"
      <4>1. CASE s = r
        BY <2>1, <2>2, <4>1
      <4>2. CASE s # r
        BY <1>4, <1>8, <4>2 DEF OpenInv
      <4> QED
        BY <4>1, <4>2
    <3>2. \A s \in Remotes : remote'[s].state = 3 =>
            remote'[s].close = call[c].close
      BY <1>1, <1>4, <1>8, <2>1 DEF OpenInv
    <3> QED
      BY <1>4, <1>8, <2>2, <2>3, <3>1, <3>2 DEF OpenInv
  <2> QED
    BY <1>2, <1>4, <1>6, <1>8, <2>4 DEF SerialInv
<1> QED
  BY <1>1, <1>7, <1>8, KindOfCall

LEMMA SerialStep == SInv /\ [SerialNext]_vars => SInv'
<1> SUFFICES ASSUME SInv, [SerialNext]_vars PROVE SInv'
  OBVIOUS
<1>1. TypeOK'
  BY TypeStep, SerialIsNext DEF SInv
<1>2. CASE UNCHANGED vars
  BY <1>2
  DEF vars, SInv, SerialInv, OneBusy, RequestsInv, FrozenInv, OpenInv,
      ClosedInv, Opened, Free, Quiet, TypeOK
<1>3. SerialInv' \/ UNCHANGED vars
  BY OpenSendStep, CloseSendStep, SucceedStep, FailStep, ReadStep, WriteStep
  DEF SerialNext, Handle, AllDone
<1> QED
  BY <1>1, <1>2, <1>3 DEF SInv

\* One administration page at a time: the invariant that the results below
\* rest on, SerialInv, holds in every state.
THEOREM SerialInvHolds == SerialSpec => []SInv
<1>1. Init => SInv
  <2>1. Init => TypeOK
    BY RemotesAssumption
    DEF Init, TypeOK, Rows, CallRows, RpcStates, Answers, Row, Idle, NoTime,
        NoClose, NotOpened
  <2> QED
    BY <2>1, InitSerial DEF SInv
<1> QED
  BY <1>1, SerialStep, PTL DEF SerialSpec

-----------------------------------------------------------------------------
\* The servers hold one opening and one closing statement: the closing
\* signature verifies at all of them (esp/closeElection.js:71).
THEOREM ServersAgreeHolds == SerialSpec => []ServersAgree
<1>1. SInv => ServersAgree
  <2> SUFFICES ASSUME SInv, NEW r \in Remotes, NEW s \in Remotes
               PROVE  /\ remote[r].state >= 2 /\ remote[s].state >= 2
                            => remote[r].open = remote[s].open
                      /\ remote[r].state = 3 /\ remote[s].state = 3
                            => remote[r].close = remote[s].close
    BY DEF ServersAgree
  <2>1. auth.state \in 1 .. 3
    BY DEF SInv, SerialInv
  <2>2. CASE auth.state = 1
    <3>1. FrozenInv
      BY <2>2 DEF SInv, SerialInv
    <3>2. \A c \in Calls : call[c].pc = "sent" => ~Free(c)
      BY DEF Free
    <3> QED
      BY <3>1, <3>2 DEF FrozenInv, Opened, NotOpened
  <2>3. CASE auth.state = 2
    <3>1. OpenInv
      BY <2>3 DEF SInv, SerialInv
    <3>2. \A c \in Calls : call[c].pc = "sent" => ~Free(c)
      BY DEF Free
    <3> QED
      BY <3>1, <3>2 DEF OpenInv
  <2>4. CASE auth.state = 3
    BY <2>4 DEF SInv, SerialInv, ClosedInv
  <2> QED
    BY <2>1, <2>2, <2>3, <2>4
<1> QED
  BY <1>1, SerialInvHolds, PTL

\* Auth stores state 3 only when every server is closed under its statement.
THEOREM ClosedEverywhereHolds == SerialSpec => []ClosedEverywhere
<1>1. SInv => ClosedEverywhere
  BY DEF SInv, SerialInv, ClosedInv, ClosedEverywhere
<1> QED
  BY <1>1, SerialInvHolds, PTL

-----------------------------------------------------------------------------
(***************************************************************************)
(* What a step changes of the states, case by case.                        *)
(***************************************************************************)
LEMMA StepKinds ==
    ASSUME SInv, SerialNext
    PROVE  \/ UNCHANGED <<auth, remote>>
           \/ /\ UNCHANGED remote
              /\ \/ auth'.state = auth.state
                 \/ /\ auth.state = 1 /\ auth'.state = 2
                    /\ \A r \in Remotes : remote[r].state = 2
                 \/ /\ auth.state = 2 /\ auth'.state = 3
                    /\ \A r \in Remotes : remote[r].state = 3
           \/ /\ UNCHANGED auth
              /\ \E r \in Remotes :
                   /\ remote' = [remote EXCEPT ![r] = remote'[r]]
                   /\ \/ /\ auth.state = 1 /\ remote[r].state = NotOpened(r)
                         /\ remote'[r].state = 2
                      \/ /\ auth.state = 2 /\ remote[r].state = 2
                         /\ remote'[r].state = 3
                         /\ remote'[r].open = remote[r].open
<1>1. ASSUME NEW c \in Calls, Succeed(c)
      PROVE  /\ UNCHANGED remote
             /\ \/ /\ auth.state = 1 /\ auth'.state = 2
                   /\ \A r \in Remotes : remote[r].state = 2
                \/ /\ auth.state = 2 /\ auth'.state = 3
                   /\ \A r \in Remotes : remote[r].state = 3
  <2>1. Finish(c) /\ Update(c, After(call[c].op)) /\ call[c].pc = "sent"
        /\ UNCHANGED remote /\ ~Free(c)
    BY <1>1 DEF Succeed, Finish, Free
  <2>2. \A r \in Remotes : remote[r].state = After(call[c].op)
    BY <1>1, <2>1 DEF Succeed, SInv, SerialInv, RequestsInv
  <2> QED
    BY <2>1, <2>2, KindOfCall, UpdateEffect DEF After
<1>2. ASSUME NEW c \in Calls, Fail(c)
      PROVE  UNCHANGED remote /\ auth'.state = auth.state
  <2>1. Finish(c) /\ Update(c, After(call[c].op) - 1) /\ call[c].pc = "sent"
        /\ UNCHANGED remote /\ ~Free(c)
    BY <1>2 DEF Fail, Finish, Free
  <2> QED
    BY <2>1, KindOfCall, UpdateEffect DEF After
<1>3. ASSUME NEW c \in Calls, NEW r \in Remotes, RemoteWrite(c, r)
      PROVE  /\ UNCHANGED auth
             /\ remote' = [remote EXCEPT ![r] = remote'[r]]
             /\ \/ /\ auth.state = 1 /\ remote[r].state = NotOpened(r)
                   /\ remote'[r].state = 2
                \/ /\ auth.state = 2 /\ remote[r].state = 2
                   /\ remote'[r].state = 3
                   /\ remote'[r].open = remote[r].open
  <2>1. ~Free(c) /\ remote[r].state = Before(call[c].op, r) /\ UNCHANGED auth
    BY <1>3 DEF RemoteWrite, Free, SInv, SerialInv, RequestsInv
  <2>2. remote' = [remote EXCEPT ![r] = remote'[r]]
    <3>1. \A s \in Remotes : s # r => remote'[s] = remote[s]
      BY <1>3, WriteEffect DEF SInv
    <3>2. remote \in [Remotes -> Rows] /\ remote' \in [Remotes -> Rows]
      BY <1>3, TypeStep DEF SInv, TypeOK, Next, Handle
    <3> QED
      BY <3>1, <3>2
  <2>3. CASE auth.state = 1 /\ call[c].op = "open" /\ FrozenInv
    BY <1>3, <2>1, <2>2, <2>3, WriteEffect DEF Before, SInv
  <2>4. CASE auth.state = 2 /\ call[c].op = "close" /\ OpenInv
    BY <1>3, <2>1, <2>2, <2>4, WriteEffect DEF Before, OpenInv, SInv
  <2> QED
    BY <2>1, <2>3, <2>4, KindOfCall
<1>4. \/ \E c \in Calls : Succeed(c) \/ Fail(c)
      \/ \E c \in Calls, r \in Remotes : RemoteWrite(c, r)
      \/ UNCHANGED <<auth, remote>>
  BY DEF SerialNext, Handle, OpenSend, CloseSend, RemoteRead, GiveUp, AllDone,
         vars
<1> QED
  BY <1>1, <1>2, <1>3, <1>4

\* No server goes back, and a stored statement is not replaced, whatever is
\* lost, late or tried again.
THEOREM StatesOnlyAdvanceHolds == SerialSpec => StatesOnlyAdvance
<1> DEFINE A == /\ auth'.state >= auth.state
                /\ \A r \in Remotes :
                     /\ remote'[r].state >= remote[r].state
                     /\ remote[r].state >= 2 => remote'[r].open = remote[r].open
                     /\ remote[r].state = 3 => remote'[r].close = remote[r].close
<1>1. SInv /\ [SerialNext]_vars => [A]_vars
  <2> SUFFICES ASSUME SInv, SerialNext PROVE A
    OBVIOUS
  <2>1. auth.state \in Nat /\ \A r \in Remotes : remote[r].state \in Nat
    <3>1. auth \in Rows /\ \A r \in Remotes : remote[r] \in Rows
      BY DEF SInv, TypeOK
    <3>2. \A row \in Rows : row.state \in Nat
      BY DEF Rows
    <3> QED
      BY <3>1, <3>2
  <2>2. CASE UNCHANGED <<auth, remote>>
    BY <2>1, <2>2
  <2>3. CASE UNCHANGED remote /\ auth'.state >= auth.state
    BY <2>1, <2>3
  <2>4. ASSUME NEW r \in Remotes, UNCHANGED auth,
               remote' = [remote EXCEPT ![r] = remote'[r]],
               \/ remote[r].state = NotOpened(r) /\ remote'[r].state = 2
               \/ /\ remote[r].state = 2 /\ remote'[r].state = 3
                  /\ remote'[r].open = remote[r].open
        PROVE  A
    <3>1. \A s \in Remotes : s # r => remote'[s] = remote[s]
      BY <2>4 DEF SInv, TypeOK
    <3> QED
      BY <2>1, <2>4, <3>1 DEF NotOpened
  <2> QED
    BY <2>1, <2>2, <2>3, <2>4, StepKinds
<1> QED
  BY <1>1, SerialInvHolds, PTL DEF SerialSpec, StatesOnlyAdvance

(***************************************************************************)
(* Every step is one of Lifecycle's, or leaves it alone.                   *)
(***************************************************************************)
LEMMA RefinesInit == Init => Abs!Init
BY DEF Init, Abs!Init, Phase, Row, NotOpened

LEMMA RefinesStep ==
    SInv /\ [SerialNext]_vars => [Abs!Next]_(Abs!lvars)
<1> SUFFICES ASSUME SInv, [SerialNext]_vars
             PROVE  Abs!Next \/ UNCHANGED Abs!lvars
  OBVIOUS
<1>1. CASE UNCHANGED <<auth, remote>>
  BY <1>1 DEF Abs!lvars
<1>2. CASE UNCHANGED remote /\ auth'.state = auth.state
  BY <1>2 DEF Abs!lvars
<1>3. CASE /\ UNCHANGED remote /\ auth.state = 1 /\ auth'.state = 2
           /\ \A r \in Remotes : remote[r].state = 2
  <2>1. Abs!Announce
    BY <1>3 DEF Abs!Announce, Phase
  <2> QED
    BY <2>1 DEF Abs!Next
<1>4. CASE /\ UNCHANGED remote /\ auth.state = 2 /\ auth'.state = 3
           /\ \A r \in Remotes : remote[r].state = 3
  <2>1. Abs!Announce
    BY <1>4 DEF Abs!Announce, Phase
  <2> QED
    BY <2>1 DEF Abs!Next
<1>5. ASSUME NEW r \in Remotes, UNCHANGED auth,
             remote' = [remote EXCEPT ![r] = remote'[r]],
             \/ /\ auth.state = 1 /\ remote[r].state = NotOpened(r)
                /\ remote'[r].state = 2
             \/ /\ auth.state = 2 /\ remote[r].state = 2
                /\ remote'[r].state = 3
      PROVE  Abs!Next
  <2>1. \A s \in Remotes : s # r => remote'[s] = remote[s]
    BY <1>5 DEF SInv, TypeOK
  <2>2. Abs!Advance(r)
    <3> DEFINE phase == [s \in Remotes |-> Phase(remote[s].state)]
               next == [s \in Remotes |-> Phase(remote'[s].state)]
    <3>1. \A s \in Remotes : s # r => next[s] = phase[s]
      BY <2>1
    <3>2. \/ /\ auth.state = 1 /\ phase[r] = "frozen" /\ next[r] = "open"
          \/ /\ auth.state = 2 /\ phase[r] = "open" /\ next[r] = "closed"
      BY <1>5 DEF Phase, NotOpened
    <3>3. next = [phase EXCEPT ![r] = next[r]]
      <4> HIDE DEF next, phase
      <4>1. next = [s \in Remotes |-> next[s]] /\ phase = [s \in Remotes |-> phase[s]]
        BY DEF next, phase
      <4> QED
        BY <3>1, <4>1
    <3>4. Phase(1) = "frozen" /\ Phase(2) = "open"
      BY DEF Phase
    <3> QED
      BY <1>5, <3>2, <3>3, <3>4 DEF Abs!Advance
  <2> QED
    BY <2>2 DEF Abs!Next
<1> QED
  BY <1>1, <1>2, <1>3, <1>4, <1>5, StepKinds DEF vars

\* Opening and closing implements its abstract specification, as far as safety
\* goes: servers open one by one, and close only after Auth has announced the
\* election open, which it does when all have opened.
THEOREM RefinesLifecycle == SerialSpec => Abs!Spec
BY RefinesInit, RefinesStep, SerialInvHolds, PTL DEF SerialSpec, Abs!Spec
=============================================================================
