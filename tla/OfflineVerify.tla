---------------------------- MODULE OfflineVerify ----------------------------
(***************************************************************************)
(* Anyone may verify a published result (common/offlineVerify.js).  A      *)
(* master reads the ballot file line by line and gives each line to one of *)
(* numCPUs worker processes; a worker checks the signatures and proofs of  *)
(* the ballot and answers, the master multiplies its commitments into the  *)
(* summation and hands out the next line.  A worker that gets "shutdown"   *)
(* instead of a ballot answers "finished"; after the last of these answers *)
(* the master compares the summation with the published sums.              *)
(*                                                                         *)
(* A callback of the master is not interrupted by another one.  Node's     *)
(* cluster module removes a worker from cluster.workers at once when it is *)
(* told to disconnect; the worker still handles what was sent before.      *)
(***************************************************************************)
EXTENDS Naturals, FiniteSets, Bags, ReadLine

CONSTANTS W,          \* numCPUs
          Parsable,   \* lines that are a JSON object
          Honest,     \* ballots whose signatures and proofs verify
          Claims,     \* which lines the published sums may add up
          MaxDeaths   \* bound: workers that die

Workers == 1 .. W
None == 0   \* no worker, no line

ASSUME WorkersAssumption == W \in Nat \ {0} /\ MaxDeaths \in Nat
ASSUME LinesAssumption == Honest \subseteq Parsable /\ <<>> \notin Parsable

VARIABLES
    claim,     \* the lines that the published sums add up
    step,      \* the master: "boot", "wait", "ask", "read", "got", "crashed"
    serving,   \* the worker that processBallot runs for
    starting,  \* processBallot was called by the loop over all workers
    online,    \* workers that have come up
    listed,    \* cluster.workers
    gone,      \* workers whose disconnect event the master has seen
    msg,       \* msg[w]: the message between the master and w
    added,     \* the ballots in the summation: a bag of line numbers
    finished,  \* finishedWorkers
    success,
    printed,   \* the result on the console
    deaths

masterVars  == <<step, serving, starting>>
clusterVars == <<online, listed, gone>>
tallyVars   == <<added, finished, success>>
vars == <<fileVars, claim, masterVars, clusterVars, msg, tallyVars, printed,
          deaths>>

\* Master and worker take turns: what w is asked, or what it answers.
Message(kind, line) == [kind |-> kind, line |-> line]
NoMessage == Message("none", None)
Send(w, kind, line) == msg' = [msg EXCEPT ![w] = Message(kind, line)]
Take(w) == msg' = [msg EXCEPT ![w] = NoMessage]

Init ==
    /\ FileInit
    /\ claim \in Claims
    /\ step = "boot" /\ serving = None /\ starting = FALSE
    /\ online = {} /\ listed = Workers /\ gone = {}
    /\ msg = [w \in Workers |-> NoMessage]
    /\ added = EmptyBag /\ finished = 0 /\ success = FALSE
    /\ printed = "nothing"
    /\ deaths = 0

-----------------------------------------------------------------------------
(* processBallot                                                           *)

\* processBallot(w) is called: it asks for the next line.
AskFor(w) == step' = "ask" /\ serving' = w

\* Mutant: the first loop does not end with the last worker.
ReturnBeyond(ok) ==
    IF starting /\ ok
    THEN AskFor(serving + 1) /\ UNCHANGED starting
    ELSE step' = "wait" /\ serving' = None /\ starting' = FALSE

\* It returns: true in the first loop goes on with the next worker.
Return(ok) ==
    LET rest == {w \in listed : w > serving}
    IN  IF starting /\ ok /\ rest # {}
        THEN AskFor(Min(rest)) /\ UNCHANGED starting
        ELSE step' = "wait" /\ serving' = None /\ starting' = FALSE

\* getline: from the cache, or null, or one chunk after the other.
GetLine ==
    /\ \/ step = "ask" /\ Call
       \/ step = "ask" /\ pc = "end" /\ UNCHANGED fileVars
       \/ step = "read" /\ ReadChunk
    /\ step' = IF pc' = "loop" THEN "read" ELSE "got"
    /\ UNCHANGED <<claim, serving, starting, clusterVars, msg, tallyVars,
                   printed, deaths>>

AtNull == step = "got" /\ pc = "end"
AtLine == step = "got" /\ pc # "end"

\* Mutant: at the end of the file the worker is not told.
GiveNothing ==
    /\ AtNull
    /\ Return(TRUE)
    /\ UNCHANGED <<fileVars, claim, clusterVars, msg, tallyVars, printed,
                   deaths>>

\* The end of the file.  The send is outside the try: if the worker is gone it
\* throws, and the exception ends the master.
GiveShutdown ==
    /\ AtNull
    /\ \/ /\ serving \in listed
          /\ Send(serving, "shutdown", None)
          /\ Return(TRUE)
       \/ /\ serving \notin listed
          /\ step' = "crashed"
          /\ UNCHANGED <<serving, starting, msg>>
    /\ UNCHANGED <<fileVars, claim, clusterVars, tallyVars, printed, deaths>>

GiveBallot ==
    /\ AtLine
    /\ Last(out) \in Parsable /\ serving \in listed
    /\ Send(serving, "ballot", Len(out))
    /\ Return(TRUE)
    /\ UNCHANGED <<fileVars, claim, clusterVars, tallyVars, printed, deaths>>

\* The line is no JSON, or the worker is gone (this send is inside the try):
\* endWorkers.
GiveUp ==
    /\ AtLine
    /\ Last(out) \notin Parsable \/ serving \notin listed
    /\ listed' = {}
    /\ Return(FALSE)
    /\ UNCHANGED <<fileVars, claim, online, gone, msg, tallyVars, printed,
                   deaths>>

-----------------------------------------------------------------------------
(* The master's event handlers.                                            *)

\* The last worker that comes online starts the loop over cluster.workers.
Online(w) ==
    /\ step = "boot"
    /\ w \notin online \cup gone
    /\ online' = online \cup {w}
    /\ IF online' = Workers THEN AskFor(Min(listed)) /\ starting' = TRUE
                            ELSE UNCHANGED masterVars
    /\ UNCHANGED <<fileVars, claim, listed, gone, msg, tallyVars, printed,
                   deaths>>

\* verifySummation: the product of the commitments against the sums.
SummationCorrect == added = SetToBag(claim)

\* Mutant: one worker that has finished is enough.
FinishedFirst(w) ==
    /\ step = "wait" /\ msg[w].kind = "finished"
    /\ Take(w)
    /\ finished' = finished + 1
    /\ success' = SummationCorrect
    /\ listed' = {}
    /\ UNCHANGED <<fileVars, claim, masterVars, online, gone, added, printed,
                   deaths>>

\* The last "finished" compares the summation and ends the workers.
Finished(w) ==
    /\ step = "wait" /\ msg[w].kind = "finished"
    /\ Take(w)
    /\ finished' = finished + 1
    /\ IF finished' = W THEN success' = SummationCorrect /\ listed' = {}
                        ELSE UNCHANGED <<success, listed>>
    /\ UNCHANGED <<fileVars, claim, masterVars, online, gone, added, printed,
                   deaths>>

\* Mutant: the commitments are not multiplied into the summation.
VerifiedUnadded(w) ==
    /\ step = "wait" /\ msg[w].kind = "verified"
    /\ Take(w)
    /\ AskFor(w)
    /\ UNCHANGED <<fileVars, claim, starting, clusterVars, tallyVars, printed,
                   deaths>>

\* The ballot is added and the worker gets the next line: also after
\* endWorkers, when the answer was on its way.
Verified(w) ==
    /\ step = "wait" /\ msg[w].kind = "verified"
    /\ Take(w)
    /\ added' = added (+) SetToBag({msg[w].line})
    /\ AskFor(w)
    /\ UNCHANGED <<fileVars, claim, starting, clusterVars, finished, success,
                   printed, deaths>>

\* One ballot that fails ends all workers.
Refused(w) ==
    /\ step = "wait" /\ msg[w].kind = "refused"
    /\ Take(w)
    /\ listed' = {}
    /\ UNCHANGED <<fileVars, claim, masterVars, online, gone, tallyVars,
                   printed, deaths>>

\* The disconnect event; the last one prints the result.
SeeGone(w) ==
    /\ gone' = gone \cup {w}
    /\ printed' = IF gone' # Workers THEN printed
                  ELSE IF success THEN "success" ELSE "fail"

\* A worker that was told to disconnect has handled all messages before.
Disconnected(w) ==
    /\ step = "wait"
    /\ w \notin listed \cup gone
    /\ msg[w] = NoMessage
    /\ SeeGone(w)
    /\ UNCHANGED <<fileVars, claim, masterVars, online, listed, msg,
                   tallyVars, deaths>>

-----------------------------------------------------------------------------
(* The workers.                                                            *)

\* Mutant: the answer is about the line that the master has read last.
AnswerLast(w) ==
    /\ step # "crashed"
    /\ \/ /\ msg[w].kind = "shutdown"
          /\ Send(w, "finished", None)
       \/ /\ msg[w].kind = "ballot"
          /\ Send(w, IF Last(out) \in Honest THEN "verified" ELSE "refused",
                  Len(out))
    /\ UNCHANGED <<fileVars, claim, masterVars, clusterVars, tallyVars,
                   printed, deaths>>

\* The answer carries the ballot's commitments back.
Answer(w) ==
    /\ step # "crashed"
    /\ \/ /\ msg[w].kind = "shutdown"
          /\ Send(w, "finished", None)
       \/ /\ msg[w].kind = "ballot"
          /\ Send(w, IF out[msg[w].line] \in Honest THEN "verified"
                                                    ELSE "refused",
                  msg[w].line)
    /\ UNCHANGED <<fileVars, claim, masterVars, clusterVars, tallyVars,
                   printed, deaths>>

\* A worker process dies, and what it worked on has no answer.
Die(w) ==
    /\ deaths < MaxDeaths
    /\ step \in {"boot", "wait"} /\ w \notin gone
    /\ deaths' = deaths + 1
    /\ listed' = listed \ {w}
    /\ Take(w)
    /\ SeeGone(w)
    /\ UNCHANGED <<fileVars, claim, masterVars, online, tallyVars>>

-----------------------------------------------------------------------------
Over == printed # "nothing" \/ step = "crashed"

\* Nothing is left to do; or all that is left is the answer of a dead worker,
\* for which the master waits for ever.
Ended == (Over \/ deaths > 0) /\ UNCHANGED vars

Give == GiveShutdown \/ GiveBallot \/ GiveUp

Event(w) ==
    \/ Online(w)
    \/ Finished(w)
    \/ Verified(w)
    \/ Refused(w)
    \/ Disconnected(w)

Next ==
    \/ GetLine
    \/ Give
    \/ \E w \in Workers : Event(w) \/ Answer(w) \/ Die(w)
    \/ Ended

\* Node calls every handler in the end, and every worker runs.
Spec ==
    /\ Init /\ [][Next]_vars
    /\ WF_vars(GetLine \/ Give)
    /\ \A w \in Workers : WF_vars(Event(w)) /\ WF_vars(Answer(w))

-----------------------------------------------------------------------------
(* Properties.                                                             *)

Kinds == {"none", "shutdown", "ballot", "finished", "verified", "refused"}

TypeOK ==
    /\ step \in {"boot", "wait", "ask", "read", "got", "crashed"}
    /\ serving \in Workers \cup {None}
    /\ starting \in BOOLEAN
    /\ online \subseteq Workers
    /\ listed \subseteq Workers
    /\ gone \subseteq Workers \ listed
    /\ msg \in [Workers -> [kind : Kinds, line : 0 .. Len(out)]]
    /\ IsABag(added)
    /\ finished \in 0 .. W
    /\ success \in BOOLEAN
    /\ printed \in {"nothing", "success", "fail"}
    /\ deaths \in 0 .. MaxDeaths

\* "verification success" (offlineVerify.js:96) means that every line of the
\* file is a ballot that verifies, that each was added once, whichever worker
\* had it and whenever its answer came, and that the published sums are theirs.
SuccessIsWhole ==
    printed = "success" =>
        /\ pc = "end"
        /\ \A i \in DOMAIN out : out[i] \in Honest
        /\ added = SetToBag(DOMAIN out)
        /\ claim = DOMAIN out

\* A ballot is with one worker, or in the summation once: none is verified
\* twice or added without having been verified (offlineVerify.js:82-87).
HandedOutOnce ==
    /\ \A k \in BagToSet(added) : /\ added[k] = 1
                                  /\ out[k] \in Honest
    /\ \A w \in Workers : msg[w].line # None =>
         /\ msg[w].line \notin BagToSet(added)
         /\ \A v \in Workers \ {w} : msg[v].line # msg[w].line

NoDeath == deaths = 0

\* As long as no worker dies every run ends: with a printed result, or by the
\* exception that an answer after a failure causes at the end of the file
\* (offlineVerify.js:121).
RunsEnd == []NoDeath => <>Over

\* The file is what dumpVotes writes for honest ballots, and the published sums
\* are those of its ballots.
HonestFile ==
    /\ \A i \in DOMAIN text : text[i] # CR
    /\ \A i \in DOMAIN Lines : Lines[i] \in Honest
    /\ claim = DOMAIN Lines

\* The result of an honest election is confirmed, however the number of ballots
\* compares with that of the workers and wherever the file's chunks end.
HonestResultConfirmed ==
    HonestFile /\ []NoDeath => <>(printed = "success")
=============================================================================
