------------------------ MODULE OfflineVerify_proofs ------------------------
(***************************************************************************)
(* Proofs about OfflineVerify, for any files, chunks, workers, honest      *)
(* ballots, published sums and deaths.  What the lines of a file are is    *)
(* used in the second part only: in the first getline returns some line,   *)
(* or null for ever after.                                                 *)
(***************************************************************************)
EXTENDS OfflineVerify, Folding_proofs

IsSeq(s) == \E S : s \in Seq(S)

LEMMA AppendOne ==
    ASSUME NEW s, IsSeq(s), NEW e
    PROVE  /\ Len(s) \in Nat /\ DOMAIN s = 1 .. Len(s)
           /\ IsSeq(Append(s, e)) /\ Len(Append(s, e)) = Len(s) + 1
           /\ \A i \in 1 .. Len(s) : Append(s, e)[i] = s[i]
<1>1. PICK S : s \in Seq(S)
  BY DEF IsSeq
<1>2. s \in Seq(S \cup {e}) /\ e \in S \cup {e}
  BY <1>1
<1>3. Append(s, e) \in Seq(S \cup {e})
  BY <1>2
<1> QED
  BY <1>2, <1>3 DEF IsSeq

LEMMA MinWorker ==
    ASSUME NEW S \in SUBSET Workers, S # {}
    PROVE  Min(S) \in S
<1>1. S \in SUBSET Nat
  BY DEF Workers
<1>4. PICK x \in S : \A y \in S : x <= y
  BY <1>1, LeastExists
<1> QED
  BY <1>4 DEF Min

LEMMA WorkersAreNat ==
    /\ Workers \subseteq Nat /\ None \notin Workers
    /\ IsFiniteSet(Workers) /\ Cardinality(Workers) = W
BY WorkersAssumption, FS_Interval DEF Workers, None

-----------------------------------------------------------------------------
(* The invariant, in parts.                                                *)

\* The master: where it is, and for whom.
MasterInv ==
    /\ step \in {"boot", "wait", "ask", "read", "got", "crashed"}
    /\ step \in {"boot", "wait"} => serving = None /\ ~starting
    /\ step \in {"ask", "read", "got"} => serving \in Workers
    /\ listed \subseteq Workers
    /\ step = "boot" => Len(out) = 0 /\ Workers \ gone \subseteq listed

\* processBallot is called for w, or will be by the loop over all workers.
Ready(w) == step = "boot" \/ serving = w \/ (starting /\ w > serving)

\* A worker with which nothing will happen any more.
Idle(w) == msg[w] = NoMessage /\ ~Ready(w)

Carrying == {"ballot", "verified", "refused"}

MsgInv ==
    /\ msg \in [Workers -> [kind : Kinds, line : Nat]]
    /\ \A w \in Workers :
         /\ IF msg[w].kind \in Carrying THEN msg[w].line \in 1 .. Len(out)
                                        ELSE msg[w].line = None
         /\ msg[w].kind = "verified" => out[msg[w].line] \in Honest
         /\ msg[w].kind \in {"shutdown", "finished"} => pc = "end"
         /\ Ready(w) => msg[w] = NoMessage

\* A line that was read is nowhere else before it is handed out, then with one
\* worker, then in the summation.
OnceInv ==
    /\ added = SetToBag(DOMAIN added) /\ DOMAIN added \subseteq 1 .. Len(out)
    /\ \A k \in DOMAIN added : out[k] \in Honest
    /\ \A w \in Workers : msg[w].line # None =>
         /\ msg[w].line \notin DOMAIN added
         /\ \A v \in Workers \ {w} : msg[v].line # msg[w].line
    /\ AtLine => /\ Len(out) > 0 /\ Len(out) \notin DOMAIN added
                 /\ \A w \in Workers : msg[w].line # Len(out)

SafeInv == IsSeq(out) /\ MasterInv /\ MsgInv /\ OnceInv

\* No line is lost.
Accounted ==
    \A k \in 1 .. Len(out) :
        \/ AtLine /\ k = Len(out)
        \/ k \in DOMAIN added
        \/ \E w \in Workers : msg[w].line = k

Whole ==
    /\ pc = "end"
    /\ \A i \in DOMAIN out : out[i] \in Honest
    /\ added = SetToBag(DOMAIN out)
    /\ claim = DOMAIN out

\* F are the workers whose "finished" was counted.  A line is lost only with a
\* worker that is idle without having finished: then F never is everybody.
FinishedBy(F) ==
    /\ finished = Cardinality(F)
    /\ \A w \in F : Idle(w)
    /\ F # {} => pc = "end"
    /\ Accounted \/ \E w \in Workers \ F : Idle(w)
    /\ success => F = Workers /\ Whole

FinishedInv == \E F \in SUBSET Workers : FinishedBy(F)
PrintedInv == printed = "success" => success

Inv == SafeInv /\ FinishedInv /\ PrintedInv

LEMMA InitInv == Init => Inv
<1> SUFFICES ASSUME Init PROVE Inv
  OBVIOUS
<1> USE DEF Init, FileInit
<1>1. IsSeq(out) /\ Len(out) = 0
  BY DEF IsSeq
<1>2. MasterInv
  BY <1>1 DEF MasterInv
<1>3. MsgInv
  BY DEF MsgInv, NoMessage, Message, None, Kinds, Carrying
<1>4. OnceInv
  <2>1. added = SetToBag({}) /\ DOMAIN added = {}
    BY DEF EmptyBag, SetToBag
  <2> QED
    BY <1>1, <2>1 DEF OnceInv, AtLine, NoMessage, Message, None
<1>5. FinishedBy({})
  BY <1>1, FS_EmptySet DEF FinishedBy, Accounted
<1> QED
  BY <1>1, <1>2, <1>3, <1>4, <1>5
  DEF Inv, SafeInv, FinishedInv, PrintedInv

-----------------------------------------------------------------------------
(* What keeps the workers that have finished.                              *)

LEMMA FinishedStays ==
    ASSUME FinishedInv,
           UNCHANGED <<finished, success, claim>>,
           \A w \in Workers : Idle(w) => Idle(w)',
           pc = "end" => pc' = "end",
           Accounted => \/ Accounted'
                        \/ \E w \in Workers : Idle(w)' /\ ~Idle(w),
           Whole /\ (\A w \in Workers : Idle(w)) => Whole'
    PROVE  FinishedInv'
<1>1. PICK F \in SUBSET Workers : FinishedBy(F)
  BY DEF FinishedInv
<1>2. FinishedBy(F)'
  <2>1. finished' = Cardinality(F)
    BY <1>1 DEF FinishedBy
  <2>2. \A w \in F : Idle(w)'
    BY <1>1 DEF FinishedBy
  <2>3. F # {} => pc' = "end"
    BY <1>1 DEF FinishedBy
  <2>4. Accounted' \/ \E w \in Workers \ F : Idle(w)'
    BY <1>1 DEF FinishedBy
  <2>5. success' => F = Workers /\ Whole'
    BY <1>1 DEF FinishedBy
  <2> QED
    BY <2>1, <2>2, <2>3, <2>4, <2>5 DEF FinishedBy
<1> QED
  BY <1>2 DEF FinishedInv

(***************************************************************************)
(* getline: one line more, or none.                                        *)
(***************************************************************************)
LEMMA GetLineEffect ==
    ASSUME GetLine
    PROVE  /\ step \in {"ask", "read"} /\ step' \in {"read", "got"}
           /\ UNCHANGED <<claim, serving, starting, online, listed, gone, msg,
                          added, finished, success, printed>>
           /\ \/ out' = out /\ ~AtLine' /\ (pc = "end" => pc' = "end")
              \/ (\E e : out' = Append(out, e)) /\ AtLine' /\ pc # "end"
<1> USE DEF AtLine
<1>1. /\ step' = IF pc' = "loop" THEN "read" ELSE "got"
      /\ UNCHANGED <<claim, serving, starting, online, listed, gone, msg,
                     added, finished, success, printed>>
  BY DEF GetLine, clusterVars, tallyVars
<1>2. CASE step = "ask" /\ Call
  BY <1>1, <1>2 DEF Call
<1>3. CASE step = "ask" /\ pc = "end" /\ UNCHANGED fileVars
  BY <1>1, <1>3 DEF fileVars
<1>4. CASE step = "read" /\ ReadChunk
  BY <1>1, <1>4 DEF ReadChunk
<1> QED
  BY <1>2, <1>3, <1>4 DEF GetLine

LEMMA GetLineInv ==
    ASSUME Inv, GetLine
    PROVE  Inv'
<1> USE DEF Inv, SafeInv
<1>1. \A w \in Workers : /\ Ready(w)' <=> Ready(w)
                         /\ Idle(w)' <=> Idle(w)
  BY GetLineEffect DEF Ready, Idle
<1>2. MasterInv'
  BY GetLineEffect DEF MasterInv
<1>3. serving \in Workers /\ Ready(serving)
  BY GetLineEffect DEF MasterInv, Ready
<1>4. PrintedInv'
  BY GetLineEffect DEF PrintedInv
<1>5. CASE out' = out /\ ~AtLine' /\ (pc = "end" => pc' = "end")
  <2>1. ~AtLine
    BY GetLineEffect DEF AtLine
  <2>2. MsgInv'
    BY <1>1, <1>5, GetLineEffect DEF MsgInv
  <2>3. OnceInv'
    BY <1>5, GetLineEffect DEF OnceInv
  <2>4. Accounted => Accounted'
    BY <1>5, <2>1, GetLineEffect DEF Accounted
  <2>5. Whole => Whole'
    BY <1>5, GetLineEffect DEF Whole
  <2>6. FinishedInv'
    BY <1>1, <1>5, <2>4, <2>5, GetLineEffect, FinishedStays
  <2> QED
    BY <1>2, <1>4, <1>5, <2>2, <2>3, <2>6
<1>6. CASE (\E e : out' = Append(out, e)) /\ AtLine' /\ pc # "end"
  <2>1. /\ Len(out) \in Nat /\ Len(out') = Len(out) + 1 /\ IsSeq(out')
        /\ \A i \in 1 .. Len(out) : out'[i] = out[i]
    BY <1>6, AppendOne
  <2>2. 1 .. Len(out) \subseteq 1 .. Len(out') /\ Len(out') \notin 1 .. Len(out)
    BY <2>1
  <2>3. MsgInv'
    <3>1. msg' = msg
      BY GetLineEffect
    <3>2. ASSUME NEW w \in Workers, msg[w].kind \in Carrying
          PROVE  /\ msg[w].line \in 1 .. Len(out')
                 /\ msg[w].kind = "verified" => out'[msg[w].line] \in Honest
      BY <2>1, <2>2, <3>2 DEF MsgInv
    <3>3. ASSUME NEW w \in Workers PROVE msg[w].kind \notin {"shutdown", "finished"}
      BY <1>6 DEF MsgInv
    <3> QED
      BY <1>1, <3>1, <3>2, <3>3 DEF MsgInv, Carrying
  <2>4. \A w \in Workers : msg[w].line \in 1 .. Len(out) \/ msg[w].line = None
    BY DEF MsgInv
  <2>5. OnceInv'
    BY <1>6, <2>1, <2>2, <2>4, GetLineEffect DEF OnceInv, None
  <2>6. Accounted => Accounted'
    <3>1. \A k \in 1 .. Len(out') : k \in 1 .. Len(out) \/ k = Len(out')
      BY <2>1
    <3>2. ~AtLine
      BY GetLineEffect DEF AtLine
    <3> QED
      BY <1>6, <3>1, <3>2, GetLineEffect DEF Accounted
  <2>7. ~Idle(serving)
    BY <1>3 DEF Idle
  <2>8. FinishedInv'
    BY <1>1, <1>3, <1>6, <2>6, <2>7, GetLineEffect, FinishedStays
  <2> QED
    BY <1>2, <1>4, <2>1, <2>3, <2>5, <2>8
<1> QED
  BY <1>5, <1>6, GetLineEffect

(***************************************************************************)
(* The end of processBallot, and its next call.                            *)
(***************************************************************************)
LEMMA ReturnEffect ==
    ASSUME MasterInv, step = "got", NEW ok, Return(ok)
    PROVE  /\ step' \in {"ask", "wait"}
           /\ step' = "wait" => serving' = None /\ ~starting'
           /\ step' = "ask" => serving' \in Workers
           /\ \A w \in Workers : Ready(w)' => Ready(w) /\ w # serving
           /\ ~AtLine'
<1> DEFINE rest == {w \in listed : w > serving}
<1>1. serving \in Workers /\ rest \subseteq Workers /\ Workers \subseteq Nat
  BY WorkersAreNat DEF MasterInv
<1>2. CASE starting /\ ok /\ rest # {}
  <2>1. Min(rest) \in rest
    BY <1>1, <1>2, MinWorker
  <2>2. step' = "ask" /\ serving' = Min(rest) /\ starting' = starting
    BY <1>2 DEF Return, AskFor
  <2>3. serving' \in Workers /\ serving' > serving
    BY <1>1, <2>1, <2>2
  <2>4. \A w \in Workers : Ready(w)' => w > serving
    BY <1>1, <2>2, <2>3 DEF Ready
  <2> QED
    BY <1>1, <1>2, <2>2, <2>3, <2>4 DEF Ready, AtLine
<1>3. CASE ~(starting /\ ok /\ rest # {})
  <2>1. step' = "wait" /\ serving' = None /\ starting' = FALSE
    BY <1>3 DEF Return
  <2> QED
    BY <2>1, WorkersAreNat DEF Ready, AtLine
<1> QED
  BY <1>2, <1>3

\* What is the same of the handing out of a line, of "shutdown" or of nothing.
LEMMA GiveMaster ==
    ASSUME MasterInv, step = "got", NEW ok, Return(ok),
           UNCHANGED <<out, gone>>, listed' \in {listed, {}}
    PROVE  MasterInv'
BY ReturnEffect DEF MasterInv

LEMMA SendEffect ==
    ASSUME MsgInv, NEW w \in Workers, NEW kind \in Kinds, NEW line \in Nat,
           Send(w, kind, line)
    PROVE  /\ msg' \in [Workers -> [kind : Kinds, line : Nat]]
           /\ msg'[w].kind = kind /\ msg'[w].line = line
           /\ \A v \in Workers \ {w} : msg'[v] = msg[v]
BY DEF MsgInv, Send, Message

LEMMA TakeEffect ==
    ASSUME MsgInv, NEW w \in Workers, Take(w)
    PROVE  /\ msg' \in [Workers -> [kind : Kinds, line : Nat]]
           /\ msg'[w] = NoMessage /\ NoMessage.line = None
           /\ NoMessage.kind = "none"
           /\ \A v \in Workers \ {w} : msg'[v] = msg[v]
BY DEF MsgInv, Take, NoMessage, Message, Kinds, None

LEMMA GiveShutdownInv ==
    ASSUME Inv, GiveShutdown
    PROVE  Inv'
<1> USE DEF Inv, SafeInv
<1>1. /\ step = "got" /\ pc = "end" /\ ~AtLine /\ serving \in Workers
      /\ Ready(serving) /\ msg[serving] = NoMessage
  BY DEF GiveShutdown, AtNull, AtLine, MasterInv, MsgInv, Ready
<1>2. UNCHANGED <<text, position, cacheStr, partialStr, out, pc, claim, online,
                  listed, gone, added, finished, success, printed>>
  BY DEF GiveShutdown, fileVars, clusterVars, tallyVars
<1>3. PrintedInv'
  BY <1>2 DEF PrintedInv
<1>4. CASE Send(serving, "shutdown", None) /\ Return(TRUE)
  <2>1. /\ msg' \in [Workers -> [kind : Kinds, line : Nat]]
        /\ msg'[serving].kind = "shutdown" /\ msg'[serving].line = None
        /\ \A v \in Workers \ {serving} : msg'[v] = msg[v]
    BY <1>1, <1>4, SendEffect DEF Kinds, None
  <2>2. MasterInv'
    BY <1>1, <1>2, <1>4, GiveMaster
  <2>3. \A w \in Workers : Ready(w)' => Ready(w) /\ w # serving
    BY <1>1, <1>4, ReturnEffect
  <2>4. MsgInv'
    BY <1>1, <1>2, <2>1, <2>3 DEF MsgInv, Carrying
  <2>5. ~AtLine'
    BY <1>1, <1>4, ReturnEffect
  <2>6. \A w \in Workers : msg'[w].line = msg[w].line
    BY <1>1, <2>1 DEF NoMessage, Message
  <2>7. OnceInv'
    BY <1>2, <2>5, <2>6 DEF OnceInv
  <2>8. \A w \in Workers : Idle(w) => Idle(w)'
    BY <1>1, <2>1, <2>3 DEF Idle
  <2>9. Accounted => Accounted'
    BY <1>1, <1>2, <2>6 DEF Accounted
  <2>10. Whole => Whole'
    BY <1>2 DEF Whole
  <2>11. FinishedInv'
    BY <1>1, <1>2, <2>8, <2>9, <2>10, FinishedStays
  <2> QED
    BY <1>2, <1>3, <2>2, <2>4, <2>7, <2>11 DEF IsSeq
<1>5. CASE step' = "crashed" /\ UNCHANGED <<serving, starting, msg>>
  <2>1. MasterInv'
    BY <1>2, <1>5 DEF MasterInv
  <2>2. ~AtLine' /\ \A w \in Workers : (Ready(w)' <=> Ready(w)) /\ (Idle(w)' <=> Idle(w))
    BY <1>1, <1>5 DEF AtLine, Ready, Idle
  <2>3. MsgInv' /\ OnceInv'
    BY <1>1, <1>2, <1>5, <2>2 DEF MsgInv, OnceInv
  <2>4. (Accounted => Accounted') /\ (Whole => Whole')
    BY <1>1, <1>2, <1>5 DEF Accounted, Whole
  <2>5. FinishedInv'
    BY <1>1, <1>2, <2>2, <2>4, FinishedStays
  <2> QED
    BY <1>2, <1>3, <2>1, <2>3, <2>5 DEF IsSeq
<1> QED
  BY <1>4, <1>5 DEF GiveShutdown

LEMMA GiveBallotInv ==
    ASSUME Inv, GiveBallot
    PROVE  Inv'
<1> USE DEF Inv, SafeInv
<1>1. /\ step = "got" /\ AtLine /\ pc # "end" /\ serving \in Workers
      /\ Ready(serving) /\ msg[serving] = NoMessage
      /\ Send(serving, "ballot", Len(out)) /\ Return(TRUE)
  BY DEF GiveBallot, AtLine, MasterInv, MsgInv, Ready
<1>2. UNCHANGED <<out, pc, claim, listed, gone, added, finished, success,
                  printed>>
  BY DEF GiveBallot, fileVars, clusterVars, tallyVars
<1>3. Len(out) \in Nat /\ Len(out) \in 1 .. Len(out)
  <2>1. Len(out) \in Nat
    BY AppendOne
  <2> QED
    BY <1>1, <2>1 DEF OnceInv
<1>4. /\ msg' \in [Workers -> [kind : Kinds, line : Nat]]
      /\ msg'[serving].kind = "ballot" /\ msg'[serving].line = Len(out)
      /\ \A v \in Workers \ {serving} : msg'[v] = msg[v]
  BY <1>1, <1>3, SendEffect DEF Kinds
<1>5. MasterInv'
  BY <1>1, <1>2, GiveMaster
<1>6. ~AtLine' /\ \A w \in Workers : Ready(w)' => Ready(w) /\ w # serving
  BY <1>1, ReturnEffect
<1>7. MsgInv'
  BY <1>1, <1>2, <1>3, <1>4, <1>6 DEF MsgInv, Carrying
<1>8. OnceInv'
  BY <1>1, <1>2, <1>4, <1>6 DEF OnceInv
<1>9. \A w \in Workers : Idle(w) => Idle(w)'
  BY <1>1, <1>4, <1>6 DEF Idle
<1>10. Accounted => Accounted'
  <2>1. msg[serving].line \notin 1 .. Len(out)
    BY <1>1 DEF NoMessage, Message, None
  <2> QED
    BY <1>1, <1>2, <1>4, <2>1 DEF Accounted
<1>11. Whole => Whole'
  BY <1>2 DEF Whole
<1>12. FinishedInv'
  BY <1>2, <1>9, <1>10, <1>11, FinishedStays
<1> QED
  BY <1>2, <1>5, <1>7, <1>8, <1>12 DEF IsSeq, PrintedInv

\* The line is lost; the worker for which it was read stays idle.
LEMMA GiveUpInv ==
    ASSUME Inv, GiveUp
    PROVE  Inv'
<1> USE DEF Inv, SafeInv
<1>1. /\ step = "got" /\ serving \in Workers /\ Ready(serving)
      /\ msg[serving] = NoMessage /\ Return(FALSE)
  BY DEF GiveUp, AtLine, MasterInv, MsgInv, Ready
<1>2. UNCHANGED <<out, pc, claim, gone, msg, added, finished, success, printed>>
      /\ listed' = {}
  BY DEF GiveUp, fileVars, clusterVars, tallyVars
<1>3. MasterInv'
  BY <1>1, <1>2, GiveMaster
<1>4. ~AtLine' /\ \A w \in Workers : Ready(w)' => Ready(w) /\ w # serving
  BY <1>1, ReturnEffect
<1>5. MsgInv' /\ OnceInv'
  BY <1>2, <1>4 DEF MsgInv, OnceInv
<1>6. \A w \in Workers : Idle(w) => Idle(w)'
  BY <1>2, <1>4 DEF Idle
<1>7. \E w \in Workers : Idle(w)' /\ ~Idle(w)
  <2>1. PICK w \in Workers : w = serving
    BY <1>1
  <2>2. step' = "wait" /\ serving' = None /\ starting' = FALSE
    BY <1>1 DEF Return
  <2>3. ~Ready(w)'
    BY <2>2, WorkersAreNat DEF Ready
  <2> QED
    BY <1>1, <1>2, <2>1, <2>3 DEF Idle
<1>8. Whole => Whole'
  BY <1>2 DEF Whole
<1>9. FinishedInv'
  BY <1>1, <1>2, <1>6, <1>7, <1>8, FinishedStays
<1> QED
  BY <1>2, <1>3, <1>5, <1>9 DEF IsSeq, PrintedInv

(***************************************************************************)
(* The workers.                                                            *)
(***************************************************************************)
LEMMA OnlineInv ==
    ASSUME Inv, NEW w \in Workers, Online(w)
    PROVE  Inv'
<1> USE DEF Inv, SafeInv
<1>1. /\ step = "boot" /\ w \in listed
      /\ UNCHANGED <<out, pc, claim, listed, gone, msg, added, finished,
                     success, printed>>
  BY DEF Online, MasterInv, fileVars, tallyVars
<1>2. \/ step' = "ask" /\ serving' = Min(listed) /\ starting' = TRUE
      \/ UNCHANGED <<step, serving, starting>>
  BY DEF Online, AskFor, masterVars
<1>3. Min(listed) \in Workers
  BY <1>1, MinWorker DEF MasterInv
<1>4. MasterInv'
  BY <1>1, <1>2, <1>3 DEF MasterInv
<1>5. ~AtLine' /\ ~AtLine /\ \A v \in Workers : Ready(v) /\ ~Idle(v)
  BY <1>1, <1>2 DEF AtLine, Ready, Idle
<1>6. MsgInv' /\ OnceInv'
  BY <1>1, <1>5 DEF MsgInv, OnceInv
<1>7. (Accounted => Accounted') /\ (Whole => Whole')
  BY <1>1, <1>5 DEF Accounted, Whole
<1>8. FinishedInv'
  BY <1>1, <1>5, <1>7, FinishedStays
<1> QED
  BY <1>1, <1>4, <1>6, <1>8 DEF IsSeq, PrintedInv

LEMMA AnswerInv ==
    ASSUME Inv, NEW w \in Workers, Answer(w)
    PROVE  Inv'
<1> USE DEF Inv, SafeInv
<1>1. UNCHANGED <<out, pc, claim, step, serving, starting, listed, gone, added,
                  finished, success, printed>>
  BY DEF Answer, fileVars, masterVars, clusterVars, tallyVars
<1>2. /\ msg' \in [Workers -> [kind : Kinds, line : Nat]]
      /\ msg'[w].line = msg[w].line
      /\ \A v \in Workers \ {w} : msg'[v] = msg[v]
      /\ \/ msg[w].kind = "shutdown" /\ msg'[w].kind = "finished"
         \/ /\ msg[w].kind = "ballot"
            /\ msg'[w].kind = IF out[msg[w].line] \in Honest THEN "verified"
                                                            ELSE "refused"
  <2>1. CASE msg[w].kind = "shutdown" /\ Send(w, "finished", None)
    <3>1. msg[w].line = None
      BY <2>1 DEF MsgInv, Carrying
    <3> QED
      BY <2>1, <3>1, SendEffect DEF Kinds, None
  <2>2. CASE /\ msg[w].kind = "ballot"
             /\ Send(w, IF out[msg[w].line] \in Honest THEN "verified"
                                                       ELSE "refused",
                     msg[w].line)
    <3>1. msg[w].line \in Nat
      BY DEF MsgInv
    <3> QED
      BY <2>2, <3>1, SendEffect DEF Kinds
  <2> QED
    BY <2>1, <2>2 DEF Answer
<1>3. MasterInv'
  BY <1>1 DEF MasterInv
<1>4. (AtLine' <=> AtLine) /\ \A v \in Workers : Ready(v)' <=> Ready(v)
  BY <1>1 DEF AtLine, Ready
<1>5. msg[w] # NoMessage
  BY <1>2 DEF NoMessage, Message
<1>6. MsgInv'
  BY <1>1, <1>2, <1>4, <1>5 DEF MsgInv, Carrying
<1>7. \A v \in Workers : msg'[v].line = msg[v].line
  BY <1>2
<1>8. OnceInv'
  BY <1>1, <1>4, <1>7 DEF OnceInv
<1>9. \A v \in Workers : Idle(v) => Idle(v)'
  BY <1>2, <1>4, <1>5 DEF Idle
<1>10. (Accounted => Accounted') /\ (Whole => Whole')
  BY <1>1, <1>4, <1>7 DEF Accounted, Whole
<1>11. FinishedInv'
  BY <1>1, <1>9, <1>10, FinishedStays
<1> QED
  BY <1>1, <1>3, <1>6, <1>8, <1>11 DEF IsSeq, PrintedInv

\* What it worked on has no answer: a line is lost with a worker that had not
\* finished.
LEMMA TakenInv ==
    ASSUME SafeInv, NEW w \in Workers, Take(w), step \in {"boot", "wait"},
           UNCHANGED <<out, pc, step, serving, starting>>
    PROVE  /\ MsgInv'
           /\ (AtLine' <=> AtLine) /\ ~AtLine
           /\ \A v \in Workers : Ready(v)' <=> Ready(v)
           /\ \A v \in Workers : Idle(v) => Idle(v)'
           /\ \A v \in Workers : msg'[v].line \in {msg[v].line, None}
           /\ \A v \in Workers \ {w} : msg'[v] = msg[v]
           /\ msg'[w] = NoMessage
           /\ Idle(w)' \/ msg' = msg
<1> USE DEF SafeInv
<1>1. /\ msg' \in [Workers -> [kind : Kinds, line : Nat]]
      /\ msg'[w] = NoMessage /\ NoMessage.line = None /\ NoMessage.kind = "none"
      /\ \A v \in Workers \ {w} : msg'[v] = msg[v]
  BY TakeEffect
<1>2. ~AtLine /\ ~AtLine'
  BY DEF AtLine
<1>3. \A v \in Workers : Ready(v)' <=> Ready(v)
  BY DEF Ready
<1>4. MsgInv'
  BY <1>1, <1>3 DEF MsgInv, Carrying
<1>5. \A v \in Workers : Idle(v) => Idle(v)'
  BY <1>1, <1>3 DEF Idle
<1>6. Idle(w)' \/ msg' = msg
  <2>1. CASE Ready(w)
    <3>1. msg[w] = NoMessage
      BY <2>1 DEF MsgInv
    <3> QED
      BY <3>1 DEF Take, MsgInv
  <2>2. CASE ~Ready(w)
    BY <1>1, <1>3, <2>2 DEF Idle
  <2> QED
    BY <2>1, <2>2
<1> QED
  BY <1>1, <1>2, <1>3, <1>4, <1>5, <1>6

LEMMA DieInv ==
    ASSUME Inv, NEW w \in Workers, Die(w) \/ Refused(w)
    PROVE  Inv'
<1> USE DEF Inv, SafeInv
<1>1. /\ step \in {"boot", "wait"} /\ Take(w)
      /\ UNCHANGED <<out, pc, claim, step, serving, starting, added, finished,
                     success>>
      /\ \/ gone' = gone \cup {w} /\ listed' = listed \ {w}
         \/ step = "wait" /\ listed' = {}
      /\ printed' \in {printed, "fail"} \/ success
  BY DEF Die, Refused, SeeGone, fileVars, masterVars, clusterVars, tallyVars
<1>2. MasterInv'
  BY <1>1 DEF MasterInv
<1>3. MsgInv'
  BY <1>1, TakenInv
<1>4. OnceInv'
  BY <1>1, TakenInv DEF OnceInv
<1>5. Accounted => Accounted' \/ \E v \in Workers : Idle(v)' /\ ~Idle(v)
  <2>1. CASE msg' = msg
    BY <1>1, <2>1, TakenInv DEF Accounted
  <2>2. CASE Idle(w)' /\ Idle(w)
    <3>1. msg'[w] = msg[w]
      BY <1>1, <2>2, TakenInv DEF Idle
    <3> QED
      BY <1>1, <3>1, TakenInv DEF Accounted
  <2> QED
    BY <1>1, <2>1, <2>2, TakenInv
<1>6. Whole => Whole'
  BY <1>1 DEF Whole
<1>7. FinishedInv'
  BY <1>1, <1>5, <1>6, TakenInv, FinishedStays
<1> QED
  BY <1>1, <1>2, <1>3, <1>4, <1>7 DEF IsSeq, PrintedInv

LEMMA DisconnectedInv ==
    ASSUME Inv, NEW w \in Workers, Disconnected(w)
    PROVE  Inv'
<1> USE DEF Inv, SafeInv
<1>1. /\ UNCHANGED <<out, pc, claim, step, serving, starting, listed, msg,
                     added, finished, success>>
      /\ step = "wait"
      /\ printed' \in {printed, "fail"} \/ success
  BY DEF Disconnected, SeeGone, fileVars, masterVars, tallyVars
<1>2. MasterInv'
  BY <1>1 DEF MasterInv
<1>3. MsgInv' /\ OnceInv' /\ \A v \in Workers : Idle(v)' <=> Idle(v)
  BY <1>1 DEF MsgInv, OnceInv, Idle, Ready, AtLine
<1>4. (Accounted => Accounted') /\ (Whole => Whole')
  BY <1>1 DEF Accounted, Whole, AtLine
<1>5. FinishedInv'
  BY <1>1, <1>3, <1>4, FinishedStays
<1> QED
  BY <1>1, <1>2, <1>3, <1>5 DEF IsSeq, PrintedInv

(***************************************************************************)
(* The answers.                                                            *)
(***************************************************************************)
LEMMA AddOne ==
    ASSUME NEW S, added = SetToBag(S), NEW k, k \notin S
    PROVE  added (+) SetToBag({k}) = SetToBag(S \cup {k})
BY DEF SetToBag, (+)

LEMMA VerifiedInv ==
    ASSUME Inv, NEW w \in Workers, Verified(w)
    PROVE  Inv'
<1> USE DEF Inv, SafeInv
<1> DEFINE k == msg[w].line
<1>1. /\ step = "wait" /\ msg[w].kind = "verified" /\ Take(w)
      /\ added' = added (+) SetToBag({k})
      /\ step' = "ask" /\ serving' = w
      /\ UNCHANGED <<out, pc, claim, starting, listed, gone, finished, success,
                     printed>>
  BY DEF Verified, AskFor, fileVars, clusterVars
<1>2. k \in 1 .. Len(out) /\ out[k] \in Honest /\ k # None
  BY <1>1 DEF MsgInv, Carrying, None
<1>3. k \notin DOMAIN added /\ added = SetToBag(DOMAIN added)
  BY <1>2 DEF OnceInv
<1>4. added' = SetToBag(DOMAIN added \cup {k}) /\ DOMAIN added' = DOMAIN added \cup {k}
  BY <1>1, <1>3, AddOne DEF SetToBag
<1>5. /\ msg' \in [Workers -> [kind : Kinds, line : Nat]]
      /\ msg'[w] = NoMessage /\ NoMessage.line = None /\ NoMessage.kind = "none"
      /\ \A v \in Workers \ {w} : msg'[v] = msg[v]
  BY <1>1, TakeEffect
<1>6. ~starting /\ serving = None /\ ~AtLine /\ ~AtLine'
  BY <1>1 DEF MasterInv, AtLine
<1>7. \A v \in Workers : ~Ready(v) /\ (Ready(v)' => v = w)
  BY <1>1, <1>6, WorkersAreNat DEF Ready
<1>8. msg[w] # NoMessage
  BY <1>1 DEF NoMessage, Message
<1>9. MasterInv'
  BY <1>1 DEF MasterInv
<1>10. MsgInv'
  BY <1>1, <1>5, <1>7 DEF MsgInv, Carrying
<1>11. OnceInv'
  <2>1. \A v \in Workers \ {w} : msg[v].line # k
    BY <1>2 DEF OnceInv
  <2> QED
    BY <1>1, <1>2, <1>4, <1>5, <1>6, <2>1 DEF OnceInv
<1>12. \A v \in Workers : Idle(v) => Idle(v)'
  BY <1>5, <1>7, <1>8 DEF Idle
<1>13. Accounted => Accounted'
  BY <1>1, <1>4, <1>5, <1>6 DEF Accounted
<1>14. ~Idle(w)
  BY <1>8 DEF Idle
<1>15. FinishedInv'
  BY <1>1, <1>12, <1>13, <1>14, FinishedStays
<1> QED
  BY <1>1, <1>9, <1>10, <1>11, <1>15 DEF IsSeq, PrintedInv

\* Once everybody has finished no line is with a worker and none is lost.
AllIdle ==
    /\ SafeInv /\ step = "wait" /\ pc = "end" /\ Accounted
    /\ \A w \in Workers : Idle(w)
    /\ SummationCorrect

LEMMA AllFinished == AllIdle => Whole
<1> SUFFICES ASSUME AllIdle PROVE Whole
  OBVIOUS
<1> USE DEF AllIdle, SafeInv
<1>1. DOMAIN out = 1 .. Len(out) /\ \A w \in Workers : msg[w].line \notin 1 .. Len(out)
  BY AppendOne DEF Idle, NoMessage, Message, None
<1>2. DOMAIN added = DOMAIN out
  <2>1. DOMAIN added \subseteq DOMAIN out
    BY <1>1 DEF OnceInv
  <2>2. ASSUME NEW k \in 1 .. Len(out) PROVE k \in DOMAIN added
    BY <1>1, <2>2 DEF Accounted, AtLine
  <2> QED
    BY <1>1, <2>1, <2>2
<1>3. DOMAIN added = claim
  BY DEF SummationCorrect, SetToBag
<1> QED
  BY <1>2, <1>3 DEF Whole, OnceInv

LEMMA FinishedStep ==
    ASSUME Inv, NEW w \in Workers, Finished(w)
    PROVE  Inv'
<1> USE DEF Inv, SafeInv
<1>1. /\ step = "wait" /\ msg[w].kind = "finished" /\ Take(w)
      /\ finished' = finished + 1
      /\ \/ finished' = W /\ success' = SummationCorrect /\ listed' = {}
         \/ finished' # W /\ UNCHANGED <<success, listed>>
      /\ UNCHANGED <<out, pc, claim, step, serving, starting, gone, added,
                     printed>>
  BY DEF Finished, fileVars, masterVars
<1>2. MasterInv'
  BY <1>1 DEF MasterInv
<1>3. MsgInv'
  BY <1>1, TakenInv
<1>4. OnceInv'
  BY <1>1, TakenInv DEF OnceInv
<1>5. PICK F \in SUBSET Workers : FinishedBy(F)
  BY DEF FinishedInv
<1>6. msg[w] # NoMessage /\ msg[w].line = None /\ pc = "end"
  BY <1>1 DEF MsgInv, Carrying, NoMessage, Message
<1>7. w \notin F /\ ~success /\ Idle(w)'
  <2>1. w \notin F
    BY <1>5, <1>6 DEF FinishedBy, Idle
  <2>2. msg' # msg
    BY <1>1, <1>6, TakenInv
  <2> QED
    BY <1>1, <1>5, <2>1, <2>2, TakenInv DEF FinishedBy
<1> DEFINE G == F \cup {w}
<1>8. finished' = Cardinality(G) /\ (finished' = W => G = Workers)
  <2>1. IsFiniteSet(F) /\ IsFiniteSet(G) /\ Cardinality(G) = Cardinality(F) + 1
    BY <1>7, WorkersAreNat, FS_Subset, FS_AddElement
  <2>2. G \in SUBSET Workers
    OBVIOUS
  <2>3. Cardinality(G) = W => G = Workers
    BY <2>2, WorkersAreNat, FS_Subset
  <2> QED
    BY <1>1, <1>5, <2>1, <2>3 DEF FinishedBy
<1>9. \A v \in G : Idle(v)'
  BY <1>1, <1>5, <1>7, TakenInv DEF FinishedBy
<1>10. Accounted' \/ \E v \in Workers \ G : Idle(v)'
  <2>1. Accounted => Accounted'
    BY <1>1, <1>6, TakenInv, WorkersAreNat DEF Accounted, None
  <2>2. ~Idle(w)
    BY <1>6 DEF Idle
  <2> QED
    BY <1>1, <1>5, <2>1, <2>2, TakenInv DEF FinishedBy
<1>11. ASSUME success' PROVE G = Workers /\ Whole'
  <2>1. finished' = W /\ SummationCorrect /\ G = Workers
    BY <1>1, <1>7, <1>8, <1>11
  <2>2. SummationCorrect'
    BY <1>1, <2>1 DEF SummationCorrect
  <2>3. Accounted' /\ (\A v \in Workers : Idle(v))'
    BY <1>9, <1>10, <2>1
  <2>4. IsSeq(out)' /\ (step = "wait")' /\ (pc = "end")'
    BY <1>1, <1>6 DEF IsSeq
  <2>5. SafeInv'
    BY <1>2, <1>3, <1>4, <2>4
  <2>6. AllIdle'
    BY <2>2, <2>3, <2>4, <2>5 DEF AllIdle
  <2>7. Whole'
    BY <2>6, AllFinished, PTL
  <2> QED
    BY <2>1, <2>7
<1>12. FinishedBy(G)'
  BY <1>1, <1>6, <1>8, <1>9, <1>10, <1>11 DEF FinishedBy
<1>13. FinishedInv'
  BY <1>12 DEF FinishedInv
<1>14. PrintedInv'
  BY <1>1, <1>7 DEF PrintedInv
<1> QED
  BY <1>1, <1>2, <1>3, <1>4, <1>13, <1>14 DEF IsSeq

-----------------------------------------------------------------------------
LEMMA StepInv == Inv /\ [Next]_vars => Inv'
<1> SUFFICES ASSUME Inv, [Next]_vars PROVE Inv'
  OBVIOUS
<1>1. CASE GetLine \/ Give
  BY <1>1, GetLineInv, GiveShutdownInv, GiveBallotInv, GiveUpInv DEF Give
<1>2. ASSUME NEW w \in Workers, Event(w) \/ Answer(w) \/ Die(w)
      PROVE  Inv'
  BY <1>2, OnlineInv, FinishedStep, VerifiedInv, DieInv, DisconnectedInv,
     AnswerInv
  DEF Event
<1>3. CASE UNCHANGED vars
  BY <1>3
  DEF vars, fileVars, masterVars, clusterVars, tallyVars, Inv, SafeInv, IsSeq,
      MasterInv, MsgInv, Ready, OnceInv, AtLine, FinishedInv, FinishedBy, Idle,
      Accounted, Whole, PrintedInv
<1> QED
  BY <1>1, <1>2, <1>3 DEF Next, Ended

\* The invariant above holds in every reachable state of the verifier.
THEOREM InvHolds == Spec => []Inv
BY InitInv, StepInv, PTL DEF Spec

\* A ballot is with one worker, or in the summation once, whatever the order
\* of the answers, the lines read meanwhile and the workers that die.
THEOREM HandedOutOnceHolds == Spec => []HandedOutOnce
<1>1. Inv => HandedOutOnce
  BY DEF Inv, SafeInv, OnceInv, HandedOutOnce, BagToSet, SetToBag
<1> QED
  BY <1>1, InvHolds, PTL

\* "verification success" means that every ballot of the file was verified and
\* added once, for any number of workers and ballots: a line can only be lost
\* with a worker that never finishes.
THEOREM SuccessIsWholeHolds == Spec => []SuccessIsWhole
<1>1. Inv => SuccessIsWhole
  BY DEF Inv, PrintedInv, FinishedInv, FinishedBy, Whole, SuccessIsWhole
<1> QED
  BY <1>1, InvHolds, PTL

(***************************************************************************)
(* The rest of the types.                                                  *)
(***************************************************************************)
RestOK ==
    /\ serving \in Workers \cup {None} /\ starting \in BOOLEAN
    /\ online \subseteq Workers
    /\ gone \subseteq Workers \ listed
    /\ success \in BOOLEAN
    /\ printed \in {"nothing", "success", "fail"}
    /\ deaths \in 0 .. MaxDeaths

LEMMA RestStep == Inv /\ RestOK /\ [Next]_vars => RestOK'
<1> SUFFICES ASSUME Inv, RestOK, [Next]_vars PROVE RestOK'
  OBVIOUS
<1> USE DEF RestOK
<1>1. CASE GetLine
  BY <1>1 DEF GetLine, clusterVars, tallyVars
<1>2. CASE Give
  <2>1. /\ UNCHANGED <<online, gone, success, printed, deaths>>
        /\ listed' \in {listed, {}} /\ step = "got"
        /\ (\E ok \in BOOLEAN : Return(ok)) \/ UNCHANGED <<serving, starting>>
    BY <1>2
    DEF Give, GiveShutdown, GiveBallot, GiveUp, AtNull, AtLine, clusterVars,
        tallyVars
  <2>2. ASSUME NEW ok \in BOOLEAN, Return(ok)
        PROVE  serving' \in Workers \cup {None} /\ starting' \in BOOLEAN
    <3>1. step' = "ask" => serving' \in Workers
      BY <2>1, <2>2, ReturnEffect DEF Inv, SafeInv
    <3> QED
      BY <2>2, <3>1 DEF Return, AskFor
  <2> QED
    BY <2>1, <2>2
<1>3. ASSUME NEW w \in Workers, Event(w) PROVE RestOK'
  <2>1. CASE Online(w)
    <3>1. listed # {} /\ listed \subseteq Workers
      BY <2>1 DEF Online, Inv, SafeInv, MasterInv
    <3>2. Min(listed) \in Workers
      BY <3>1, MinWorker
    <3> QED
      BY <2>1, <3>2 DEF Online, AskFor, masterVars, tallyVars
  <2>2. CASE Finished(w)
    BY <2>2 DEF Finished, SummationCorrect, masterVars
  <2>3. CASE Verified(w)
    BY <2>3 DEF Verified, AskFor, clusterVars
  <2>4. CASE Refused(w)
    BY <2>4 DEF Refused, masterVars, tallyVars
  <2>5. CASE Disconnected(w)
    BY <2>5 DEF Disconnected, SeeGone, masterVars, tallyVars
  <2> QED
    BY <1>3, <2>1, <2>2, <2>3, <2>4, <2>5 DEF Event
<1>4. ASSUME NEW w \in Workers, Answer(w) PROVE RestOK'
  BY <1>4 DEF Answer, masterVars, clusterVars, tallyVars
<1>5. ASSUME NEW w \in Workers, Die(w) PROVE RestOK'
  <2>1. deaths' \in 0 .. MaxDeaths
    BY <1>5, WorkersAssumption DEF Die
  <2> QED
    BY <1>5, <2>1 DEF Die, SeeGone, masterVars, tallyVars
<1>6. CASE UNCHANGED vars
  BY <1>6 DEF vars, masterVars, clusterVars, tallyVars
<1> QED
  BY <1>1, <1>2, <1>3, <1>4, <1>5, <1>6 DEF Next, Ended

LEMMA TypesFollow == Inv /\ RestOK => TypeOK
<1> SUFFICES ASSUME Inv, RestOK PROVE TypeOK
  OBVIOUS
<1> USE DEF Inv, SafeInv
<1>1. Len(out) \in Nat
  BY AppendOne
<1>2. msg \in [Workers -> [kind : Kinds, line : 0 .. Len(out)]]
  <2>1. ASSUME NEW w \in Workers
        PROVE  msg[w] \in [kind : Kinds, line : 0 .. Len(out)]
    <3>1. msg[w] \in [kind : Kinds, line : Nat]
      BY DEF MsgInv
    <3>2. msg[w].line \in 0 .. Len(out)
      BY <1>1 DEF MsgInv, None
    <3> QED
      BY <3>1, <3>2
  <2> QED
    BY <2>1 DEF MsgInv
<1>3. IsABag(added)
  BY DEF OnceInv, IsABag, SetToBag
<1>4. finished \in 0 .. W
  <2>1. PICK F \in SUBSET Workers : FinishedBy(F)
    BY DEF FinishedInv
  <2>2. IsFiniteSet(F) /\ Cardinality(F) <= W /\ Cardinality(F) \in Nat
    BY WorkersAreNat, FS_Subset, FS_CardinalityType
  <2> QED
    BY <2>1, <2>2, WorkersAssumption DEF FinishedBy
<1> QED
  BY <1>2, <1>3, <1>4 DEF TypeOK, RestOK, MasterInv

\* The variables keep their types; each worker that is listed is still there.
THEOREM TypeCorrect == Spec => []TypeOK
<1>1. Init => RestOK
  <2>1. Init => deaths \in 0 .. MaxDeaths
    BY WorkersAssumption DEF Init
  <2>2. Init => /\ serving = None /\ starting = FALSE /\ online = {}
                /\ listed = Workers /\ gone = {} /\ success = FALSE
                /\ printed = "nothing"
    BY DEF Init
  <2> QED
    BY <2>1, <2>2 DEF RestOK
<1> QED
  BY <1>1, RestStep, TypesFollow, InvHolds, PTL DEF Spec

-----------------------------------------------------------------------------
(* The line reader: what getline returns, chunk by chunk, against the file *)
(* cut as a whole.                                                         *)

\* Where Split starts.
Start == [lines |-> <<>>, cur |-> <<>>, cr |-> FALSE]
CutStates(C) == [lines : Seq(Seq(C)), cur : Seq(C), cr : BOOLEAN]

LEMMA CutTyped ==
    ASSUME NEW C, NEW a \in CutStates(C), NEW ch \in C
    PROVE  Cut(a, ch) \in CutStates(C)
<1>1. /\ a.lines \in Seq(Seq(C)) /\ a.cur \in Seq(C)
      /\ Append(a.lines, a.cur) \in Seq(Seq(C)) /\ Append(a.cur, ch) \in Seq(C)
      /\ <<>> \in Seq(C)
  BY DEF CutStates
<1>2. [a EXCEPT !.cr = FALSE] \in CutStates(C)  BY DEF CutStates
<1>3. [lines |-> Append(a.lines, a.cur), cur |-> <<>>, cr |-> ch = CR]
        \in CutStates(C)
  BY <1>1 DEF CutStates
<1>4. [a EXCEPT !.cur = Append(@, ch), !.cr = FALSE] \in CutStates(C)
  BY <1>1 DEF CutStates
<1> QED BY <1>2, <1>3, <1>4 DEF Cut

CutStep(C) == [a \in CutStates(C) \X C |-> Cut(a[1], a[2])]

\* FoldLeft(Cut, Start, str) is such a fold.
LEMMA CutFold ==
    ASSUME NEW C, NEW str \in Seq(C)
    PROVE  \E It : /\ OrderFold(It, CutStates(C), Start, CutStep(C), str)
                   /\ FoldLeft(Cut, Start, str) = It[DOMAIN str]
<1> DEFINE D == DOMAIN str
           V == CutStates(C)
           g == CutStep(C)
           Step(F) == [t \in SUBSET D |->
                         IF t = {} THEN Start
                         ELSE Cut(F[t \ {Max(t)}], str[Max(t)])]
           J == CHOOSE F : F = Step(F)
<1>1. g \in [V \X C -> V]
  <2>1. \A a \in V, e \in C : Cut(a, e) \in V  BY CutTyped
  <2> QED BY <2>1 DEF CutStep
<1>2. Start \in V  BY DEF Start, CutStates
<1>3. \A a \in V, e \in C : g[<<a, e>>] = Cut(a, e)  BY DEF CutStep
<1>4. \A t \in SUBSET D : t # {} => /\ Max(t) \in t /\ Max(t) \in D
                                    /\ t \ {Max(t)} \in SUBSET D
                                    /\ str[Max(t)] \in C
  <2>1. D = 1 .. Len(str) /\ Len(str) \in Nat  OBVIOUS
  <2> SUFFICES ASSUME NEW t \in SUBSET D, t # {} PROVE Max(t) \in t
    OBVIOUS
  <2> QED BY <2>1, MaxPlace
<1>5. IsFiniteSet(D)
  <2>1. D = 1 .. Len(str) /\ Len(str) \in Nat  OBVIOUS
  <2> QED BY <2>1, FS_Interval
<1> HIDE DEF V, g
<1>6. PICK It : OrderFold(It, V, Start, g, str)
  BY <1>1, <1>2, OrderFoldExists
<1>7. ASSUME NEW t \in SUBSET D, t # {}
      PROVE  It[t] = Cut(It[t \ {Max(t)}], str[Max(t)])
  <2>1. It[t \ {Max(t)}] \in V  BY <1>4, <1>6, <1>7 DEF OrderFold
  <2>2. It[t] = g[<<It[t \ {Max(t)}], str[Max(t)]>>]
    BY <1>6, <1>7 DEF OrderFold
  <2> QED BY <1>3, <1>4, <1>7, <2>1, <2>2
<1>8. It = Step(It)
  <2>1. It = [t \in SUBSET D |-> It[t]] /\ It[{}] = Start
    BY <1>6 DEF OrderFold
  <2>2. \A t \in SUBSET D : It[t] = Step(It)[t]  BY <1>7, <2>1
  <2> HIDE DEF Step
  <2>3. Step(It) = [t \in SUBSET D |-> Step(It)[t]]  BY DEF Step
  <2> QED BY <2>1, <2>2, <2>3
<1>9. J = Step(J)  BY <1>8
<1>10. FoldLeft(Cut, Start, str) = J[D]
  BY DEF FoldLeft, MapThenFoldSet
<1> HIDE DEF J
<1>11. J = It
  <2>1. /\ J = [t \in SUBSET D |-> J[t]] /\ It = [t \in SUBSET D |-> It[t]]
        /\ J[{}] = It[{}]
    BY <1>8, <1>9
  <2>2. ASSUME NEW t \in SUBSET D, t # {}
        PROVE  \E c \in t : J[t \ {c}] = It[t \ {c}] => J[t] = It[t]
    <3>1. J[t] = Cut(J[t \ {Max(t)}], str[Max(t)])  BY <1>9, <2>2
    <3> QED BY <1>4, <1>7, <2>2, <3>1
  <2> HIDE DEF Step
  <2>3. SameSteps(J, It, D)  BY <2>1, <2>2 DEF SameSteps
  <2> QED BY <1>5, <2>3, SameFold
<1> QED BY <1>6, <1>10, <1>11 DEF V, g

\* A chunk is cut character after character.
LEMMA CutAppend ==
    ASSUME NEW C, NEW str \in Seq(C), NEW e \in C
    PROVE  /\ FoldLeft(Cut, Start, <<>>) = Start
           /\ FoldLeft(Cut, Start, str) \in CutStates(C)
           /\ FoldLeft(Cut, Start, Append(str, e)) = Cut(FoldLeft(Cut, Start, str), e)
<1>1. FoldLeft(Cut, Start, <<>>) = Start
  <2>1. <<>> \in Seq(C) /\ DOMAIN <<>> = {}  OBVIOUS
  <2>2. PICK It : /\ OrderFold(It, CutStates(C), Start, CutStep(C), <<>>)
                  /\ FoldLeft(Cut, Start, <<>>) = It[DOMAIN <<>>]
    BY <2>1, CutFold
  <2>3. It[{}] = Start  BY <2>1, <2>2 DEF OrderFold
  <2> QED BY <2>1, <2>2, <2>3
<1>2. PICK It : /\ OrderFold(It, CutStates(C), Start, CutStep(C), str)
                /\ FoldLeft(Cut, Start, str) = It[DOMAIN str]
  BY CutFold
<1>3. Append(str, e) \in Seq(C)  OBVIOUS
<1>4. PICK Jt : /\ OrderFold(Jt, CutStates(C), Start, CutStep(C), Append(str, e))
                /\ FoldLeft(Cut, Start, Append(str, e)) = Jt[DOMAIN Append(str, e)]
  BY <1>3, CutFold
<1>5. Start \in CutStates(C)  BY DEF Start, CutStates
<1>6. /\ It[DOMAIN str] \in CutStates(C)
      /\ Jt[DOMAIN Append(str, e)] = CutStep(C)[<<It[DOMAIN str], e>>]
  BY <1>2, <1>4, <1>5, OrderFoldAppend
<1>7. CutStep(C)[<<It[DOMAIN str], e>>] = Cut(It[DOMAIN str], e)  BY <1>6 DEF CutStep
<1> QED BY <1>1, <1>2, <1>4, <1>6, <1>7

KeepStep(C) == [a \in Seq(C) \X C |-> Keep(a[1], a[2])]

\* FoldLeft(Keep, <<>>, lines) is such a fold.
LEMMA KeepFold ==
    ASSUME NEW C, NEW lines \in Seq(C)
    PROVE  \E It : /\ OrderFold(It, Seq(C), <<>>, KeepStep(C), lines)
                   /\ FoldLeft(Keep, <<>>, lines) = It[DOMAIN lines]
<1> DEFINE D == DOMAIN lines
           V == Seq(C)
           g == KeepStep(C)
           Step(F) == [t \in SUBSET D |->
                         IF t = {} THEN <<>>
                         ELSE Keep(F[t \ {Max(t)}], lines[Max(t)])]
           J == CHOOSE F : F = Step(F)
<1>1. g \in [V \X C -> V]
  <2>1. \A a \in V, e \in C : Keep(a, e) \in V  BY DEF Keep
  <2> QED BY <2>1 DEF KeepStep
<1>2. <<>> \in V  OBVIOUS
<1>3. \A a \in V, e \in C : g[<<a, e>>] = Keep(a, e)  BY DEF KeepStep
<1>4. \A t \in SUBSET D : t # {} => /\ Max(t) \in t /\ Max(t) \in D
                                    /\ t \ {Max(t)} \in SUBSET D
                                    /\ lines[Max(t)] \in C
  <2>1. D = 1 .. Len(lines) /\ Len(lines) \in Nat  OBVIOUS
  <2> SUFFICES ASSUME NEW t \in SUBSET D, t # {} PROVE Max(t) \in t
    OBVIOUS
  <2> QED BY <2>1, MaxPlace
<1>5. IsFiniteSet(D)
  <2>1. D = 1 .. Len(lines) /\ Len(lines) \in Nat  OBVIOUS
  <2> QED BY <2>1, FS_Interval
<1> HIDE DEF V, g
<1>6. PICK It : OrderFold(It, V, <<>>, g, lines)
  BY <1>1, <1>2, OrderFoldExists
<1>7. ASSUME NEW t \in SUBSET D, t # {}
      PROVE  It[t] = Keep(It[t \ {Max(t)}], lines[Max(t)])
  <2>1. It[t \ {Max(t)}] \in V  BY <1>4, <1>6, <1>7 DEF OrderFold
  <2>2. It[t] = g[<<It[t \ {Max(t)}], lines[Max(t)]>>]
    BY <1>6, <1>7 DEF OrderFold
  <2> QED BY <1>3, <1>4, <1>7, <2>1, <2>2
<1>8. It = Step(It)
  <2>1. It = [t \in SUBSET D |-> It[t]] /\ It[{}] = <<>>
    BY <1>6 DEF OrderFold
  <2>2. \A t \in SUBSET D : It[t] = Step(It)[t]  BY <1>7, <2>1
  <2> HIDE DEF Step
  <2>3. Step(It) = [t \in SUBSET D |-> Step(It)[t]]  BY DEF Step
  <2> QED BY <2>1, <2>2, <2>3
<1>9. J = Step(J)  BY <1>8
<1>10. FoldLeft(Keep, <<>>, lines) = J[D]
  BY DEF FoldLeft, MapThenFoldSet
<1> HIDE DEF J
<1>11. J = It
  <2>1. /\ J = [t \in SUBSET D |-> J[t]] /\ It = [t \in SUBSET D |-> It[t]]
        /\ J[{}] = It[{}]
    BY <1>8, <1>9
  <2>2. ASSUME NEW t \in SUBSET D, t # {}
        PROVE  \E c \in t : J[t \ {c}] = It[t \ {c}] => J[t] = It[t]
    <3>1. J[t] = Keep(J[t \ {Max(t)}], lines[Max(t)])  BY <1>9, <2>2
    <3> QED BY <1>4, <1>7, <2>2, <3>1
  <2> HIDE DEF Step
  <2>3. SameSteps(J, It, D)  BY <2>1, <2>2 DEF SameSteps
  <2> QED BY <1>5, <2>3, SameFold
<1> QED BY <1>6, <1>10, <1>11 DEF V, g

\* Line after line is kept or not.
LEMMA KeepAppend ==
    ASSUME NEW C, NEW lines \in Seq(C), NEW e \in C
    PROVE  /\ FoldLeft(Keep, <<>>, <<>>) = <<>>
           /\ FoldLeft(Keep, <<>>, lines) \in Seq(C)
           /\ FoldLeft(Keep, <<>>, Append(lines, e)) = Keep(FoldLeft(Keep, <<>>, lines), e)
<1>1. FoldLeft(Keep, <<>>, <<>>) = <<>>
  <2>1. <<>> \in Seq(C) /\ DOMAIN <<>> = {}  OBVIOUS
  <2>2. PICK It : /\ OrderFold(It, Seq(C), <<>>, KeepStep(C), <<>>)
                  /\ FoldLeft(Keep, <<>>, <<>>) = It[DOMAIN <<>>]
    BY <2>1, KeepFold
  <2>3. It[{}] = <<>>  BY <2>1, <2>2 DEF OrderFold
  <2> QED BY <2>1, <2>2, <2>3
<1>2. PICK It : /\ OrderFold(It, Seq(C), <<>>, KeepStep(C), lines)
                /\ FoldLeft(Keep, <<>>, lines) = It[DOMAIN lines]
  BY KeepFold
<1>3. Append(lines, e) \in Seq(C)  OBVIOUS
<1>4. PICK Jt : /\ OrderFold(Jt, Seq(C), <<>>, KeepStep(C), Append(lines, e))
                /\ FoldLeft(Keep, <<>>, Append(lines, e)) = Jt[DOMAIN Append(lines, e)]
  BY <1>3, KeepFold
<1>5. <<>> \in Seq(C)  OBVIOUS
<1>6. /\ It[DOMAIN lines] \in Seq(C)
      /\ Jt[DOMAIN Append(lines, e)] = KeepStep(C)[<<It[DOMAIN lines], e>>]
  <2> DEFINE V == Seq(C)  g == KeepStep(C)
  <2>1. OrderFold(It, V, <<>>, g, lines)  BY <1>2
  <2>2. OrderFold(Jt, V, <<>>, g, Append(lines, e))  BY <1>4
  <2>3. <<>> \in V  BY <1>5
  <2> HIDE DEF V, g
  <2>4. It[DOMAIN lines] \in V /\ Jt[DOMAIN Append(lines, e)] = g[<<It[DOMAIN lines], e>>]
    BY <2>1, <2>2, <2>3, OrderFoldAppend
  <2> QED BY <2>4 DEF V, g
<1>7. KeepStep(C)[<<It[DOMAIN lines], e>>] = Keep(It[DOMAIN lines], e)  BY <1>6 DEF KeepStep
<1> QED BY <1>1, <1>2, <1>4, <1>6, <1>7

\* The first line goes on after p.
Onto(p, lines) == [lines EXCEPT ![1] = p \o @]

LEMMA OntoAppend ==
    ASSUME NEW C, NEW p \in Seq(C), NEW lines \in Seq(Seq(C)), NEW l \in Seq(C)
    PROVE  /\ Onto(p, lines) \in Seq(Seq(C))
           /\ Onto(p, Append(lines, l))
                = IF lines = <<>> THEN <<p \o l>> ELSE Append(Onto(p, lines), l)
<1>1. \A k \in Seq(C) : p \o k \in Seq(C)  OBVIOUS
<1> DEFINE B == Seq(C)
<1>2. lines \in Seq(B) /\ l \in B  OBVIOUS
<1>3. \A i \in 1 .. Len(lines) : lines[i] \in B  OBVIOUS
<1>4. \A k \in B : p \o k \in B  BY <1>1
<1> HIDE DEF B
<1>8. ASSUME NEW s \in Seq(B)
      PROVE  /\ Onto(p, s) \in Seq(B) /\ Len(Onto(p, s)) = Len(s)
             /\ DOMAIN Onto(p, s) = 1 .. Len(s)
             /\ Onto(p, s) = [i \in 1 .. Len(s) |-> Onto(p, s)[i]]
             /\ \A i \in 1 .. Len(s) : Onto(p, s)[i] = IF i = 1 THEN p \o s[i] ELSE s[i]
  <2> DEFINE n == Len(s)  a == Onto(p, s)
  <2>1. n \in Nat /\ s \in [1 .. n -> B]  OBVIOUS
  <2>2. DOMAIN a = 1 .. n /\ a = [i \in 1 .. n |-> a[i]]  BY <2>1 DEF Onto
  <2>3. \A i \in 1 .. n : a[i] = IF i = 1 THEN p \o s[i] ELSE s[i]
    BY <2>1 DEF Onto
  <2>4. \A i \in 1 .. n : a[i] \in B  BY <1>4, <2>1, <2>3
  <2> HIDE DEF a
  <2>5. a \in [1 .. n -> B]  BY <2>2, <2>4
  <2>6. a \in Seq(B) /\ Len(a) = n  BY <2>1, <2>5
  <2> QED BY <2>2, <2>3, <2>6 DEF a
<1>5. Onto(p, lines) \in Seq(B)  BY <1>2, <1>8
<1>6. ASSUME lines = <<>> PROVE Onto(p, Append(lines, l)) = <<p \o l>>
  BY <1>2, <1>6 DEF Onto
<1>7. ASSUME lines # <<>>
      PROVE  Onto(p, Append(lines, l)) = Append(Onto(p, lines), l)
  <2> DEFINE n == Len(lines)
             more == Append(lines, l)
             o == Onto(p, lines)
             a == Onto(p, more)
             b == Append(o, l)
  <2>1. n \in Nat /\ n # 0  BY <1>2, <1>7
  <2>2. /\ more \in Seq(B) /\ Len(more) = n + 1
        /\ \A i \in 1 .. n + 1 : more[i] = IF i = n + 1 THEN l ELSE lines[i]
    BY <1>2
  <2> HIDE DEF more
  <2>3. /\ o \in Seq(B) /\ Len(o) = n
        /\ \A i \in 1 .. n : o[i] = IF i = 1 THEN p \o lines[i] ELSE lines[i]
    BY <1>2, <1>8
  <2>4. /\ a = [i \in 1 .. n + 1 |-> a[i]]
        /\ \A i \in 1 .. n + 1 : a[i] = IF i = 1 THEN p \o more[i] ELSE more[i]
    BY <1>8, <2>2
  <2> HIDE DEF n, o, a
  <2>5. /\ b = [i \in 1 .. n + 1 |-> b[i]]
        /\ \A i \in 1 .. n + 1 : b[i] = IF i = n + 1 THEN l ELSE o[i]
    <3>1. b \in Seq(B) /\ Len(b) = n + 1  BY <1>2, <2>1, <2>3
    <3>2. \A i \in 1 .. n + 1 : b[i] = IF i = n + 1 THEN l ELSE o[i]
      BY <1>2, <2>1, <2>3
    <3> HIDE DEF b
    <3>3. b = [i \in 1 .. n + 1 |-> b[i]]  BY <2>1, <3>1
    <3> QED BY <3>2, <3>3
  <2> HIDE DEF b
  <2>6. ASSUME NEW i \in 1 .. n + 1 PROVE a[i] = b[i]
    <3>1. CASE i = n + 1
      <4>1. i # 1  BY <2>1, <3>1
      <4> QED BY <2>2, <2>4, <2>5, <3>1, <4>1
    <3>2. CASE i # n + 1
      <4>1. i \in 1 .. n  BY <2>1, <3>2
      <4> QED BY <2>2, <2>3, <2>4, <2>5, <3>2, <4>1
    <3> QED BY <3>1, <3>2
  <2>7. a = b  BY <2>4, <2>5, <2>6
  <2> QED BY <2>7 DEF a, b, o, more
<1> QED BY <1>5, <1>6, <1>7 DEF B

-----------------------------------------------------------------------------
(* The reader against the file cut as a whole.                             *)

\* A chunk cut so far, after the lines o and the beginning of a line p.
Glued(o, p, h) ==
    [lines |-> IF h.lines = <<>> THEN o ELSE o \o Onto(p, h.lines),
     cur |-> IF h.lines = <<>> THEN p \o h.cur ELSE h.cur,
     cr |-> h.cr]

\* The characters of a chunk are cut as if they followed o and p.
LEMMA GluedCut ==
    ASSUME NEW C, NEW o \in Seq(Seq(C)), NEW p \in Seq(C),
           NEW h \in CutStates(C), NEW ch \in C
    PROVE  /\ Glued(o, p, Start) = [lines |-> o, cur |-> p, cr |-> FALSE]
           /\ Glued(o, p, h) \in CutStates(C)
           /\ Glued(o, p, Cut(h, ch)) = Cut(Glued(o, p, h), ch)
<1> DEFINE B == Seq(C)
<1>1. h.lines \in Seq(B) /\ h.cur \in B /\ h.cr \in BOOLEAN
      /\ o \in Seq(B) /\ p \in B
      /\ h = [lines |-> h.lines, cur |-> h.cur, cr |-> h.cr]
  BY DEF CutStates
<1>2. p \o <<>> = p /\ p \o h.cur \in B
      /\ p \o Append(h.cur, ch) = Append(p \o h.cur, ch)
  BY <1>1, SeqParts
<1>3. Glued(o, p, Start) = [lines |-> o, cur |-> p, cr |-> FALSE]
  BY <1>2 DEF Glued, Start
<1>4. /\ Onto(p, h.lines) \in Seq(B)
      /\ Onto(p, Append(h.lines, h.cur))
           = IF h.lines = <<>> THEN <<p \o h.cur>>
             ELSE Append(Onto(p, h.lines), h.cur)
  <2> DEFINE l == h.lines  c == h.cur
  <2>1. l \in Seq(Seq(C)) /\ c \in Seq(C)  BY <1>1
  <2> HIDE DEF l, c
  <2>2. /\ Onto(p, l) \in Seq(Seq(C))
        /\ Onto(p, Append(l, c))
             = IF l = <<>> THEN <<p \o c>> ELSE Append(Onto(p, l), c)
    BY <2>1, OntoAppend
  <2> QED BY <2>2 DEF l, c
<1>11. Append(h.lines, h.cur) # <<>>
  <2> DEFINE l == h.lines  c == h.cur
  <2>1. l \in Seq(Seq(C)) /\ c \in Seq(C)  BY <1>1
  <2> HIDE DEF l, c
  <2>2. \A S : \A x \in Seq(S), y \in S : Len(Append(x, y)) # 0  OBVIOUS
  <2>3. Len(Append(l, c)) # 0  BY <2>1, <2>2
  <2> QED BY <2>3 DEF l, c
<1>10. /\ o \o Onto(p, h.lines) \in Seq(B)
       /\ o \o Append(Onto(p, h.lines), h.cur)
            = Append(o \o Onto(p, h.lines), h.cur)
       /\ o \o <<p \o h.cur>> = Append(o, p \o h.cur)
  <2> DEFINE x == Onto(p, h.lines)  y == h.cur  z == p \o h.cur
  <2>1. x \in Seq(B) /\ y \in B /\ z \in B /\ o \in Seq(B)
    BY <1>1, <1>2, <1>4
  <2> HIDE DEF B, x, y, z
  <2>2. /\ o \o x \in Seq(B)
        /\ o \o Append(x, y) = Append(o \o x, y)
        /\ o \o <<z>> = Append(o, z)
    BY <2>1
  <2> QED BY <2>2 DEF x, y, z
<1> DEFINE d == Glued(o, p, h)
<1>5. /\ d.lines = IF h.lines = <<>> THEN o ELSE o \o Onto(p, h.lines)
      /\ d.cur = IF h.lines = <<>> THEN p \o h.cur ELSE h.cur
      /\ d.cr = h.cr
      /\ d = [lines |-> d.lines, cur |-> d.cur, cr |-> d.cr]
  BY DEF Glued
<1>6. d \in CutStates(C)  BY <1>1, <1>2, <1>5, <1>10 DEF CutStates
<1> HIDE DEF d
<1> DEFINE k == Cut(h, ch)  e == Cut(d, ch)
<1>12. ASSUME e = [lines |-> e.lines, cur |-> e.cur, cr |-> e.cr],
              e.lines = (IF k.lines = <<>> THEN o ELSE o \o Onto(p, k.lines)),
              e.cur = (IF k.lines = <<>> THEN p \o k.cur ELSE k.cur),
              e.cr = k.cr
       PROVE  Glued(o, p, k) = e
  <2> HIDE DEF k, e
  <2> QED BY <1>12 DEF Glued
<1>7. CASE ch = LF /\ h.cr
  <2>1. /\ k = [lines |-> h.lines, cur |-> h.cur, cr |-> FALSE]
        /\ e = [lines |-> d.lines, cur |-> d.cur, cr |-> FALSE]
    BY <1>1, <1>5, <1>7 DEF Cut
  <2>2. /\ k.lines = h.lines /\ k.cur = h.cur /\ k.cr = FALSE
        /\ e.lines = d.lines /\ e.cur = d.cur /\ e.cr = FALSE
        /\ e = [lines |-> e.lines, cur |-> e.cur, cr |-> e.cr]
    BY <2>1
  <2> HIDE DEF k, e
  <2>4. Glued(o, p, k) = e  BY <1>5, <1>12, <2>2
  <2> QED BY <1>3, <1>6, <2>4 DEF k, e, d
<1>8. CASE ~(ch = LF /\ h.cr) /\ ch \in {CR, LF}
  <2>1. /\ k = [lines |-> Append(h.lines, h.cur), cur |-> <<>>, cr |-> ch = CR]
        /\ e = [lines |-> Append(d.lines, d.cur), cur |-> <<>>, cr |-> ch = CR]
    BY <1>5, <1>8 DEF Cut
  <2>2. o \o Onto(p, Append(h.lines, h.cur)) = Append(d.lines, d.cur)
    BY <1>4, <1>5, <1>10
  <2>3. /\ k.lines = Append(h.lines, h.cur) /\ k.cur = <<>> /\ k.cr = (ch = CR)
        /\ e.lines = Append(d.lines, d.cur) /\ e.cur = <<>> /\ e.cr = (ch = CR)
        /\ e = [lines |-> e.lines, cur |-> e.cur, cr |-> e.cr]
    BY <2>1
  <2> HIDE DEF k, e
  <2>4. Glued(o, p, k) = e  BY <1>11, <1>12, <2>2, <2>3
  <2> QED BY <1>3, <1>6, <2>4 DEF k, e, d
<1>9. CASE ch \notin {CR, LF}
  <2>1. /\ k = [lines |-> h.lines, cur |-> Append(h.cur, ch), cr |-> FALSE]
        /\ e = [lines |-> d.lines, cur |-> Append(d.cur, ch), cr |-> FALSE]
    BY <1>1, <1>5, <1>9 DEF Cut
  <2>2. Append(d.cur, ch) = IF h.lines = <<>> THEN p \o Append(h.cur, ch)
                                             ELSE Append(h.cur, ch)
    BY <1>2, <1>5
  <2>3. /\ k.lines = h.lines /\ k.cur = Append(h.cur, ch) /\ k.cr = FALSE
        /\ e.lines = d.lines /\ e.cur = Append(d.cur, ch) /\ e.cr = FALSE
        /\ e = [lines |-> e.lines, cur |-> e.cur, cr |-> e.cr]
    BY <2>1
  <2> HIDE DEF k, e
  <2>4. Glued(o, p, k) = e  BY <1>5, <1>12, <2>2, <2>3
  <2> QED BY <1>3, <1>6, <2>4 DEF k, e, d
<1> QED BY <1>3, <1>6, <1>7, <1>8, <1>9 DEF d

\* Lines that are not empty, line after line.
LEMMA NonEmptyAppend ==
    ASSUME NEW C, NEW lines \in Seq(C), NEW l \in C
    PROVE  NonEmpty(Append(lines, l)) = Keep(NonEmpty(lines), l)
BY KeepAppend DEF NonEmpty

\* d is as g is, but for empty lines: a CR LF that two chunks share is cut twice.
AsRead(d, g) ==
    /\ d.cur = g.cur
    /\ NonEmpty(d.lines) = NonEmpty(g.lines)
    /\ d.cr => g.cr
    /\ g.cr => g.cur = <<>>

\* Without a CR they are equal.
NoCR == \A i \in DOMAIN text : text[i] # CR
Agrees(d, g) ==
    /\ AsRead(d, g)
    /\ NoCR => d.lines = g.lines /\ ~g.cr

\* Every character keeps the reader as it should be.
LEMMA AgreesCut ==
    ASSUME NEW C, NEW d \in CutStates(C), NEW g \in CutStates(C), NEW ch \in C,
           Agrees(d, g), NoCR => ch # CR
    PROVE  Agrees(Cut(d, ch), Cut(g, ch))
<1> USE DEF Agrees, AsRead
<1>1. /\ d.lines \in Seq(Seq(C)) /\ d.cur \in Seq(C)
      /\ g.lines \in Seq(Seq(C)) /\ g.cur \in Seq(C)
      /\ d = [lines |-> d.lines, cur |-> d.cur, cr |-> d.cr]
      /\ g = [lines |-> g.lines, cur |-> g.cur, cr |-> g.cr]
  BY DEF CutStates
<1>2. /\ NonEmpty(Append(d.lines, d.cur)) = Keep(NonEmpty(d.lines), d.cur)
      /\ NonEmpty(Append(g.lines, g.cur)) = Keep(NonEmpty(g.lines), g.cur)
  BY <1>1, NonEmptyAppend
<1>3. NonEmpty(Append(d.lines, d.cur)) = NonEmpty(Append(g.lines, g.cur))
  BY <1>2
<1>4. CASE ch = LF /\ d.cr
  <2>1. /\ Cut(d, ch) = [lines |-> d.lines, cur |-> d.cur, cr |-> FALSE]
        /\ Cut(g, ch) = [lines |-> g.lines, cur |-> g.cur, cr |-> FALSE]
    BY <1>1, <1>4 DEF Cut
  <2> QED BY <1>4, <2>1
<1>5. CASE ch = LF /\ ~d.cr /\ g.cr
  <2>2. g.cur = <<>> /\ d.cur = <<>> /\ ch # CR
    BY <1>5, ChunkAssumption
  <2>1. /\ Cut(d, ch) = [lines |-> Append(d.lines, d.cur), cur |-> <<>>,
                         cr |-> FALSE]
        /\ Cut(g, ch) = [lines |-> g.lines, cur |-> g.cur, cr |-> FALSE]
    BY <1>1, <1>5, <2>2 DEF Cut
  <2>3. NonEmpty(Append(d.lines, d.cur)) = NonEmpty(g.lines)
    BY <1>2, <2>2 DEF Keep
  <2> DEFINE k == Cut(d, ch)  e == Cut(g, ch)
  <2>4. /\ k.lines = Append(d.lines, d.cur) /\ k.cur = <<>> /\ ~k.cr
        /\ e.lines = g.lines /\ e.cur = <<>> /\ ~e.cr
    BY <2>1, <2>2
  <2> HIDE DEF k, e
  <2>5. AsRead(k, e)  BY <2>3, <2>4
  <2>6. ~NoCR  BY <1>5
  <2> QED BY <2>5, <2>6 DEF k, e
<1>6. CASE ch \in {CR, LF} /\ ~(ch = LF /\ g.cr)
  <2>1. /\ Cut(d, ch) = [lines |-> Append(d.lines, d.cur), cur |-> <<>>,
                         cr |-> ch = CR]
        /\ Cut(g, ch) = [lines |-> Append(g.lines, g.cur), cur |-> <<>>,
                         cr |-> ch = CR]
    BY <1>6 DEF Cut
  <2>2. NoCR => Append(d.lines, d.cur) = Append(g.lines, g.cur)
    OBVIOUS
  <2> DEFINE k == Cut(d, ch)  e == Cut(g, ch)
  <2>3. /\ k.lines = Append(d.lines, d.cur) /\ k.cur = <<>> /\ k.cr = (ch = CR)
        /\ e.lines = Append(g.lines, g.cur) /\ e.cur = <<>> /\ e.cr = (ch = CR)
    BY <2>1
  <2> HIDE DEF k, e
  <2>4. AsRead(k, e)  BY <1>3, <2>3
  <2>5. NoCR => k.lines = e.lines /\ ~e.cr  BY <2>2, <2>3
  <2> QED BY <2>4, <2>5 DEF k, e
<1>7. CASE ch \notin {CR, LF}
  <2>1. /\ Cut(d, ch) = [lines |-> d.lines, cur |-> Append(d.cur, ch), cr |-> FALSE]
        /\ Cut(g, ch) = [lines |-> g.lines, cur |-> Append(g.cur, ch), cr |-> FALSE]
    BY <1>1, <1>7 DEF Cut
  <2> QED BY <2>1
<1> QED BY <1>4, <1>5, <1>6, <1>7

\* The first n characters, cut as a whole; and what the reader has of them.
CutUpto(n) == FoldLeft(Cut, Start, SubSeq(text, 1, n))
HasRead == [lines |-> out \o cacheStr, cur |-> partialStr, cr |-> FALSE]

ReadTypes ==
    /\ text \in Seq(Range(text))
    /\ out \in Seq(Seq(Range(text))) /\ cacheStr \in Seq(Seq(Range(text)))
    /\ partialStr \in Seq(Range(text))
    /\ position \in 0 .. Len(text)
    /\ pc \in {"idle", "loop", "end"}

ReadInv ==
    /\ ReadTypes
    /\ pc # "idle" => cacheStr = <<>>
    /\ pc = "loop" => position < Len(text)
    /\ pc = "end" => position = Len(text)
    /\ position < Len(text) => Agrees(HasRead, CutUpto(position))
    /\ position = Len(text) => /\ NonEmpty(out \o cacheStr) = NonEmpty(Lines)
                               /\ NoCR => out \o cacheStr = Lines

LEMMA ByCharacter ==
    ASSUME NEW C, NEW s \in Seq(C)
    PROVE  /\ Len(s) \in Nat /\ SubSeq(s, 1, 0) = <<>> /\ SubSeq(s, 1, Len(s)) = s
           /\ \A i \in 0 .. Len(s) : SubSeq(s, 1, i) \in Seq(C)
           /\ \A i \in 0 .. Len(s) : i < Len(s) =>
                /\ s[i + 1] \in C
                /\ SubSeq(s, 1, i + 1) = Append(SubSeq(s, 1, i), s[i + 1])
<1>1. Len(s) \in Nat /\ SubSeq(s, 1, 0) = <<>> /\ SubSeq(s, 1, Len(s)) = s
  OBVIOUS
<1>2. \A i \in 0 .. Len(s) : SubSeq(s, 1, i) \in Seq(C)  OBVIOUS
<1>3. ASSUME NEW i \in 0 .. Len(s), i < Len(s)
      PROVE  /\ s[i + 1] \in C
             /\ SubSeq(s, 1, i + 1) = Append(SubSeq(s, 1, i), s[i + 1])
  BY <1>3
<1> QED BY <1>1, <1>2, <1>3

\* The rest of the characters, and the beginning of a line at the end.
FinalOf(x) == IF x.cur = <<>> THEN x.lines ELSE Append(x.lines, x.cur)

LEMMA FinalAgrees ==
    ASSUME NEW C, NEW d \in CutStates(C), NEW g \in CutStates(C), Agrees(d, g)
    PROVE  /\ NonEmpty(FinalOf(d)) = NonEmpty(FinalOf(g))
           /\ NoCR => FinalOf(d) = FinalOf(g)
<1>1. /\ d.lines \in Seq(Seq(C)) /\ d.cur \in Seq(C)
      /\ g.lines \in Seq(Seq(C)) /\ g.cur \in Seq(C)
  BY DEF CutStates
<1>2. /\ NonEmpty(Append(d.lines, d.cur)) = Keep(NonEmpty(d.lines), d.cur)
      /\ NonEmpty(Append(g.lines, g.cur)) = Keep(NonEmpty(g.lines), g.cur)
  BY <1>1, NonEmptyAppend
<1> QED BY <1>2 DEF FinalOf, Agrees, AsRead

LEMMA CutTotal ==
    ASSUME NEW C, NEW str \in Seq(C)
    PROVE  FoldLeft(Cut, Start, str) \in CutStates(C)
<1>1. CASE str = <<>>
  <2>1. PICK It : /\ OrderFold(It, CutStates(C), Start, CutStep(C), str)
                  /\ FoldLeft(Cut, Start, str) = It[DOMAIN str]
    BY CutFold
  <2> QED BY <2>1 DEF OrderFold
<1>2. CASE str # <<>>
  <2>1. str[1] \in C  BY <1>2
  <2> QED BY <2>1, CutAppend
<1> QED BY <1>1, <1>2

LEMMA LinesFinal ==
    ASSUME text \in Seq(Range(text))
    PROVE  Lines = FinalOf(CutUpto(Len(text)))
<1> DEFINE C == Range(text)
           g == FoldLeft(Cut, Start, text)
<1>1. CutUpto(Len(text)) = g  BY ByCharacter DEF CutUpto
<1>2. g \in CutStates(C)  BY CutTotal
<1>3. Split(text) = Append(g.lines, g.cur)  BY DEF Split, Start
<1> HIDE DEF g
<1>4. g.lines \in Seq(Seq(C)) /\ g.cur \in Seq(C)  BY <1>2 DEF CutStates
<1>5. /\ Front(Append(g.lines, g.cur)) = g.lines
      /\ Last(Append(g.lines, g.cur)) = g.cur
  <2> DEFINE l == g.lines  c == g.cur
  <2>1. PICK S : l \in Seq(S) /\ c \in S  BY <1>4
  <2> HIDE DEF l, c, C
  <2>2. Front(Append(l, c)) = l /\ Last(Append(l, c)) = c
    BY <2>1 DEF Front, Last
  <2> QED BY <2>2 DEF l, c
<1> QED BY <1>1, <1>3, <1>5 DEF Lines, FinalOf

\* What ReadChunk cuts: the chunk, glued to what was read before.
ChunkCut == FoldLeft(Cut, Start, SubSeq(text, position + 1, Upto))

LEMMA UptoBounds ==
    ASSUME ReadTypes, position < Len(text)
    PROVE  /\ Len(text) \in Nat /\ position \in Nat
           /\ Upto \in 0 .. Len(text) /\ position < Upto
           /\ AtEnd <=> Upto = Len(text)
BY ChunkAssumption DEF ReadTypes, Upto, AtEnd

LEMMA ChunkAgrees ==
    ASSUME ReadTypes, position < Len(text), cacheStr = <<>>,
           Agrees(HasRead, CutUpto(position))
    PROVE  /\ ChunkCut \in CutStates(Range(text))
           /\ Glued(out, partialStr, ChunkCut) \in CutStates(Range(text))
           /\ CutUpto(Upto) \in CutStates(Range(text))
           /\ Agrees(Glued(out, partialStr, ChunkCut), CutUpto(Upto))
<1> DEFINE C == Range(text)
           chunk == SubSeq(text, position + 1, Upto)
           n == Upto - position
           h(i) == FoldLeft(Cut, Start, SubSeq(chunk, 1, i))
           P == {i \in 0 .. n : Agrees(Glued(out, partialStr, h(i)),
                                       CutUpto(position + i))}
<1>1. /\ text \in Seq(C) /\ out \in Seq(Seq(C)) /\ partialStr \in Seq(C)
      /\ position \in Nat /\ Upto \in 0 .. Len(text) /\ n \in Nat
      /\ Len(text) \in Nat /\ position + n = Upto
  BY UptoBounds DEF ReadTypes
<1>2. /\ chunk \in Seq(C) /\ Len(chunk) = n
      /\ \A i \in 1 .. n : chunk[i] = text[position + i]
  BY <1>1, UptoBounds
<1> HIDE DEF C, chunk, n
<1>3. \A i \in 0 .. n : h(i) \in CutStates(C)
  BY <1>2, ByCharacter, CutTotal
<1>4. \A i \in 0 .. Len(text) : CutUpto(i) \in CutStates(C)
  BY <1>1, ByCharacter, CutTotal DEF CutUpto
<1>5. 0 \in P
  <2>1. h(0) = Start
    <3>1. SubSeq(chunk, 1, 0) = <<>>  BY <1>2, ByCharacter
    <3>2. <<>> \in Seq({0}) /\ 0 \in {0}  OBVIOUS
    <3> QED BY <3>1, <3>2, CutAppend
  <2>2. HasRead = [lines |-> out, cur |-> partialStr, cr |-> FALSE]
    <3>1. out \o <<>> = out  BY <1>1
    <3> QED BY <3>1 DEF HasRead
  <2>3. Glued(out, partialStr, Start) = HasRead
    <3>1. Start \in CutStates({0}) /\ Glued(out, partialStr, Start) = HasRead
      BY <1>1, <2>2, SeqParts DEF Glued, Start, CutStates
    <3> QED BY <3>1
  <2> QED BY <1>1, <2>1, <2>3
<1>6. ASSUME NEW i \in 0 .. n, i < n, i \in P PROVE i + 1 \in P
  <2> DEFINE ch == chunk[i + 1]
             d == Glued(out, partialStr, h(i))
             g == CutUpto(position + i)
  <2>1. ch \in C /\ ch = text[(position + i) + 1]
    <3>1. i + 1 \in 1 .. n /\ position + (i + 1) = (position + i) + 1
      BY <1>1, <1>6
    <3> QED BY <1>2, <3>1
  <2>2. h(i + 1) = Cut(h(i), ch)
    <3>1. SubSeq(chunk, 1, i + 1) = Append(SubSeq(chunk, 1, i), ch)
          /\ SubSeq(chunk, 1, i) \in Seq(C)
      BY <1>2, <1>6, ByCharacter
    <3> QED BY <2>1, <3>1, CutAppend
  <2>3. CutUpto(position + (i + 1)) = Cut(g, ch)
    <3>1. position + i \in 0 .. Len(text) /\ position + i < Len(text)
          /\ position + (i + 1) = (position + i) + 1
      BY <1>1, <1>6
    <3>2. /\ SubSeq(text, 1, (position + i) + 1)
               = Append(SubSeq(text, 1, position + i), ch)
          /\ SubSeq(text, 1, position + i) \in Seq(C)
      BY <1>1, <2>1, <3>1, ByCharacter
    <3> QED BY <2>1, <3>1, <3>2, CutAppend DEF CutUpto
  <2>4. Agrees(d, g)  BY <1>6
  <2>5. h(i) \in CutStates(C) /\ g \in CutStates(C)
    <3>1. position + i \in 0 .. Len(text)  BY <1>1
    <3> QED BY <1>3, <1>4, <3>1
  <2>6. d \in CutStates(C) /\ Glued(out, partialStr, Cut(h(i), ch)) = Cut(d, ch)
    <3> DEFINE k == h(i)
    <3>1. k \in CutStates(C)  BY <2>5
    <3> HIDE DEF k
    <3>2. /\ Glued(out, partialStr, k) \in CutStates(C)
          /\ Glued(out, partialStr, Cut(k, ch)) = Cut(Glued(out, partialStr, k), ch)
      BY <1>1, <2>1, <3>1, GluedCut
    <3> QED BY <3>2 DEF k
  <2>7. NoCR => ch # CR
    <3>1. (position + i) + 1 \in DOMAIN text  BY <1>1, <1>6
    <3> QED BY <2>1, <3>1 DEF NoCR
  <2> HIDE DEF d, g, ch
  <2>8. Agrees(Cut(d, ch), Cut(g, ch))
    BY <2>1, <2>4, <2>5, <2>6, <2>7, AgreesCut
  <2>9. Agrees(Glued(out, partialStr, h(i + 1)), CutUpto(position + (i + 1)))
    BY <2>2, <2>3, <2>6, <2>8
  <2>10. i + 1 \in 0 .. n  BY <1>1, <1>6
  <2> QED BY <2>9, <2>10
<1> HIDE DEF P
<1>7. 0 .. n \subseteq P  BY <1>1, <1>5, <1>6, UptoInductionSet
<1>8. n \in P /\ n \in 0 .. n  BY <1>1, <1>7
<1>9. h(n) = ChunkCut
  BY <1>2, ByCharacter DEF ChunkCut, chunk
<1>10. Agrees(Glued(out, partialStr, ChunkCut), CutUpto(Upto))
  BY <1>1, <1>8, <1>9 DEF P
<1>11. ChunkCut \in CutStates(C)  BY <1>3, <1>8, <1>9
<1>12. Glued(out, partialStr, ChunkCut) \in CutStates(C)
  <2>1. PICK ch : ch \in C
    <3>1. position + 1 \in DOMAIN text  BY <1>1, UptoBounds
    <3> QED BY <3>1 DEF Range, C
  <2> QED BY <1>1, <1>11, <2>1, GluedCut
<1> QED BY <1>1, <1>4, <1>10, <1>11, <1>12 DEF C

LEMMA CutUptoNone == ASSUME text \in Seq(Range(text)) PROVE CutUpto(0) = Start
<1>1. SubSeq(text, 1, 0) = <<>>  BY ByCharacter
<1>2. <<>> \in Seq({0}) /\ 0 \in {0}  OBVIOUS
<1> QED BY <1>1, <1>2, CutAppend DEF CutUpto

LEMMA InitRead == FileInit => ReadInv
<1> SUFFICES ASSUME FileInit PROVE ReadInv  OBVIOUS
<1>1. text \in Seq(Range(text)) /\ Len(text) \in Nat
  <2>1. text \in Seq(Range(text))  BY TextsAssumption DEF FileInit
  <2> QED BY <2>1
<1>2. ReadTypes
  <2>1. \A S : <<>> \in Seq(S)  OBVIOUS
  <2> QED BY <1>1, <2>1 DEF FileInit, ReadTypes
<1>3. out \o cacheStr = <<>> /\ position = 0 /\ partialStr = <<>>
      /\ cacheStr = <<>> /\ pc = "idle"
  BY DEF FileInit
<1>4. CutUpto(0) = Start  BY <1>1, CutUptoNone
<1>5. Agrees(HasRead, CutUpto(0))
  BY <1>3, <1>4 DEF HasRead, Start, Agrees, AsRead
<1>6. ASSUME Len(text) = 0 PROVE Lines = <<>>
  BY <1>1, <1>4, <1>6, LinesFinal DEF FinalOf, Start
<1> QED BY <1>1, <1>2, <1>3, <1>5, <1>6 DEF ReadInv

\* The parts of the chunk: lines that have ended, and the rest.
LEMMA PartsGlued ==
    ASSUME NEW C, ChunkCut \in CutStates(C), out \in Seq(Seq(C)),
           partialStr \in Seq(C)
    PROVE  /\ Front(Parts) \in Seq(Seq(C))
           /\ Last(Parts) \in Seq(C)
           /\ Parts = Append(Front(Parts), Last(Parts))
           /\ out \o Front(Parts) = Glued(out, partialStr, ChunkCut).lines
           /\ Last(Parts) = Glued(out, partialStr, ChunkCut).cur
<1> DEFINE B == Seq(C)
           l == ChunkCut.lines
           c == ChunkCut.cur
           o == Onto(partialStr, l)
           front == IF l = <<>> THEN <<>> ELSE o
           last == IF l = <<>> THEN partialStr \o c ELSE c
<1>1. Parts = Onto(partialStr, Append(l, c))
  BY DEF Parts, Split, ChunkCut, Start, Onto
<1>2. l \in Seq(B) /\ c \in B  BY DEF CutStates
<1> HIDE DEF l, c
<1>3. /\ o \in Seq(B)
      /\ Parts = IF l = <<>> THEN <<partialStr \o c>> ELSE Append(o, c)
  <2>1. ASSUME NEW p \in Seq(C), NEW k \in Seq(Seq(C)), NEW e \in Seq(C)
        PROVE  /\ Onto(p, k) \in Seq(Seq(C))
               /\ Onto(p, Append(k, e))
                    = IF k = <<>> THEN <<p \o e>> ELSE Append(Onto(p, k), e)
    BY OntoAppend
  <2> QED BY <1>1, <1>2, <2>1
<1>4. partialStr \o c \in B  BY <1>2
<1>7. out \in Seq(B)  OBVIOUS
<1> HIDE DEF B, o
<1>5. /\ front \in Seq(B) /\ last \in B
      /\ Parts = Append(front, last)
  <2>1. \A x : <<x>> = Append(<<>>, x)  OBVIOUS
  <2> QED BY <1>2, <1>3, <1>4, <2>1
<1>6. /\ Glued(out, partialStr, ChunkCut).lines = IF l = <<>> THEN out ELSE out \o o
      /\ Glued(out, partialStr, ChunkCut).cur = last
  BY DEF Glued, l, c, o
<1>8. out \o <<>> = out  BY <1>7
<1>9. out \o front = Glued(out, partialStr, ChunkCut).lines  BY <1>6, <1>8
<1> HIDE DEF front, last
<1>10. Front(Parts) = front /\ Last(Parts) = last
  BY <1>5 DEF Front, Last
<1> QED BY <1>5, <1>6, <1>9, <1>10 DEF B

LEMMA CallRead ==
    ASSUME ReadInv, Call
    PROVE  ReadInv'
<1> DEFINE C == Range(text)  B == Seq(C)
<1>1. /\ UNCHANGED <<text, position, partialStr>> /\ pc = "idle"
      /\ text \in Seq(C) /\ out \in Seq(B) /\ cacheStr \in Seq(B)
      /\ partialStr \in B /\ position \in 0 .. Len(text) /\ Len(text) \in Nat
  BY DEF Call, ReadInv, ReadTypes
<1>2. /\ out' \o cacheStr' = out \o cacheStr
      /\ out' \in Seq(B) /\ cacheStr' \in Seq(B)
  <2>1. CASE cacheStr # <<>> /\ out' = Append(out, Head(cacheStr))
             /\ cacheStr' = Tail(cacheStr)
    <3> HIDE DEF B
    <3> QED BY <1>1, <2>1
  <2>2. CASE UNCHANGED <<cacheStr, out>>
    BY <1>1, <2>2
  <2> QED BY <2>1, <2>2 DEF Call
<1>3. /\ pc' \in {"idle", "loop", "end"}
      /\ pc' # "idle" => cacheStr' = <<>>
      /\ pc' = "loop" => position < Len(text)
      /\ pc' = "end" => position = Len(text)
  BY <1>1 DEF Call
<1>4. /\ HasRead' = HasRead /\ Lines' = Lines /\ (NoCR' <=> NoCR)
      /\ CutUpto(position)' = CutUpto(position)
  BY <1>1, <1>2 DEF HasRead, Lines, NoCR, CutUpto
<1>5. Agrees(HasRead, CutUpto(position))
        => Agrees(HasRead, CutUpto(position))'
  BY <1>4 DEF Agrees, AsRead
<1>6. ReadTypes'  BY <1>1, <1>2, <1>3 DEF ReadTypes
<1> QED BY <1>1, <1>2, <1>3, <1>4, <1>5, <1>6 DEF ReadInv

\* A chunk that is not the last leaves a line that has not ended; the last one
\* gives it out.
LEMMA ReadChunkRead ==
    ASSUME ReadInv, ReadChunk
    PROVE  ReadInv'
<1> DEFINE C == Range(text)  B == Seq(C)
           d == Glued(out, partialStr, ChunkCut)
           g == CutUpto(Upto)
<1>1. /\ text' = text /\ pc = "loop" /\ position < Len(text) /\ cacheStr = <<>>
      /\ position' = Upto
      /\ text \in Seq(C) /\ out \in Seq(B) /\ partialStr \in B
      /\ Len(text) \in Nat
      /\ ReadTypes /\ Agrees(HasRead, CutUpto(position))
  BY DEF ReadChunk, ReadInv, ReadTypes
<1>2. /\ ChunkCut \in CutStates(C) /\ d \in CutStates(C) /\ g \in CutStates(C)
      /\ Agrees(d, g)
  BY <1>1, ChunkAgrees
<1>3. Upto \in 0 .. Len(text) /\ (AtEnd <=> Upto = Len(text))
  BY <1>1, UptoBounds
<1>4. /\ Front(Parts) \in Seq(B) /\ Last(Parts) \in B
      /\ Parts = Append(Front(Parts), Last(Parts))
      /\ out \o Front(Parts) = d.lines /\ Last(Parts) = d.cur
  BY <1>1, <1>2, PartsGlued
<1> HIDE DEF B
<1>5. Found \in Seq(B)
  <2>1. Append(Front(Parts), Last(Parts)) \in Seq(B)  BY <1>4
  <2> QED BY <1>4, <2>1 DEF Found
<1>6. /\ out' \o cacheStr' = out \o Found
      /\ out' \in Seq(B) /\ cacheStr' \in Seq(B)
  <2>1. CASE Found = <<>> /\ UNCHANGED <<out, cacheStr>>
    BY <1>1, <2>1
  <2>2. CASE Found # <<>> /\ out' = Append(out, Head(Found))
             /\ cacheStr' = Tail(Found)
    BY <1>1, <1>5, <2>2
  <2> QED BY <2>1, <2>2 DEF ReadChunk
<1>7. partialStr' \in B
  <2>1. <<>> \in B  BY DEF B
  <2> QED BY <1>4, <2>1 DEF ReadChunk
<1>8. /\ pc' \in {"idle", "loop", "end"}
      /\ pc' # "idle" => cacheStr' = <<>> /\ pc' = "loop" /\ ~AtEnd
  BY <1>1 DEF ReadChunk
<1>9. ReadTypes'
  BY <1>1, <1>3, <1>6, <1>7, <1>8 DEF ReadTypes, B
<1>10. /\ Lines' = Lines /\ (NoCR' <=> NoCR) /\ CutUpto(position)' = g
  BY <1>1 DEF Lines, NoCR, CutUpto
<1>11. CASE ~AtEnd
  <2>1. Found = Front(Parts)  BY <1>11 DEF Found
  <2>2. partialStr' = Last(Parts)  BY <1>11 DEF ReadChunk
  <2>3. HasRead' = [lines |-> d.lines, cur |-> d.cur, cr |-> FALSE]
    BY <1>4, <1>6, <2>1, <2>2 DEF HasRead
  <2> HIDE DEF d, g
  <2>4. Agrees(HasRead, CutUpto(position))'
    BY <1>2, <1>10, <2>3 DEF Agrees, AsRead
  <2>5. position' < Len(text') /\ position' # Len(text')
    BY <1>1, <1>3, <1>11
  <2> QED BY <1>8, <1>9, <2>4, <2>5 DEF ReadInv
<1>12. CASE AtEnd
  <2>1. out \o Found = FinalOf(d)
    <3>1. CASE Last(Parts) = <<>>
      BY <1>4, <1>12, <3>1 DEF Found, FinalOf
    <3>2. CASE Last(Parts) # <<>>
      <4>1. Found = Append(Front(Parts), Last(Parts))
        BY <1>4, <1>12, <3>2 DEF Found
      <4>2. out \o Found = Append(out \o Front(Parts), Last(Parts))
        <5> DEFINE f == Front(Parts)  l == Last(Parts)
        <5>1. f \in Seq(B) /\ l \in B /\ out \in Seq(B)  BY <1>1, <1>4
        <5> HIDE DEF f, l
        <5>2. out \o Append(f, l) = Append(out \o f, l)
          BY <5>1, SeqParts
        <5> QED BY <4>1, <5>2 DEF f, l
      <4> QED BY <1>4, <3>2, <4>2 DEF FinalOf
    <3> QED BY <3>1, <3>2
  <2>2. Lines = FinalOf(g)  BY <1>1, <1>3, <1>12, LinesFinal
  <2> HIDE DEF d, g
  <2>3. /\ NonEmpty(FinalOf(d)) = NonEmpty(FinalOf(g))
        /\ NoCR => FinalOf(d) = FinalOf(g)
    BY <1>2, FinalAgrees
  <2>4. position' = Len(text') /\ pc' = "idle"
    BY <1>1, <1>3, <1>8, <1>12
  <2> QED BY <1>1, <1>6, <1>9, <1>10, <2>1, <2>2, <2>3, <2>4 DEF ReadInv
<1> QED BY <1>11, <1>12

LEMMA ReadStep == ReadInv /\ [Next]_vars => ReadInv'
<1> SUFFICES ASSUME ReadInv, [Next]_vars PROVE ReadInv'  OBVIOUS
<1>1. CASE UNCHANGED fileVars
  <2>1. /\ HasRead' = HasRead /\ Lines' = Lines /\ (NoCR' <=> NoCR)
        /\ CutUpto(position)' = CutUpto(position)
    BY <1>1 DEF fileVars, HasRead, Lines, NoCR, CutUpto
  <2>2. Agrees(HasRead, CutUpto(position))
          => Agrees(HasRead, CutUpto(position))'
    BY <2>1 DEF Agrees, AsRead
  <2>3. ReadTypes'  BY <1>1 DEF fileVars, ReadInv, ReadTypes
  <2> QED BY <1>1, <2>1, <2>2, <2>3 DEF fileVars, ReadInv
<1>2. CASE GetLine
  BY <1>1, <1>2, CallRead, ReadChunkRead DEF GetLine
<1>3. CASE Give \/ Ended \/ UNCHANGED vars
  BY <1>1, <1>3 DEF Give, GiveShutdown, GiveBallot, GiveUp, Ended, vars
<1>4. ASSUME NEW w \in Workers, Event(w) \/ Answer(w) \/ Die(w)
      PROVE  ReadInv'
  BY <1>1, <1>4
  DEF Event, Online, Finished, Verified, Refused, Disconnected, Answer, Die
<1> QED BY <1>2, <1>3, <1>4 DEF Next

\* getline returns every line of the file that is not empty once and in order,
\* for any file and any size of the chunks, CR LF cut in two included; of a
\* file without CR it returns exactly the lines.
THEOREM LinesReadHolds == Spec => []LinesRead
<1>1. Init => ReadInv  BY InitRead DEF Init
<1>2. ReadInv => LinesRead
  <2> SUFFICES ASSUME ReadInv, pc = "end"
               PROVE  /\ NonEmpty(out) = NonEmpty(Lines)
                      /\ NoCR => out = Lines
    BY DEF LinesRead, NoCR
  <2>1. out \o cacheStr = out  BY DEF ReadInv, ReadTypes
  <2> QED BY <2>1 DEF ReadInv
<1> QED BY <1>1, <1>2, ReadStep, PTL DEF Spec
=============================================================================
