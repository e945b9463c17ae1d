----------------------------- MODULE Lifecycle -----------------------------
(***************************************************************************)
(* What opening and closing promises, without messages: the servers open   *)
(* one by one, Auth announces the election open when all have; only then   *)
(* do they close one by one, and Auth announces it closed when all have.   *)
(***************************************************************************)
CONSTANT Servers
VARIABLES phase,      \* the phase of each server
          announced   \* the phase Auth shows

lvars == <<phase, announced>>

Init == /\ phase = [s \in Servers |-> "frozen"]
        /\ announced = "frozen"

\* A server moves one phase on; it closes only an announced election.
Advance(s) ==
    /\ \/ /\ phase[s] = "frozen"
          /\ announced = "frozen"
          /\ phase' = [phase EXCEPT ![s] = "open"]
       \/ /\ phase[s] = "open"
          /\ announced = "open"
          /\ phase' = [phase EXCEPT ![s] = "closed"]
    /\ UNCHANGED announced

\* Auth announces a phase that every server has reached.
Announce ==
    /\ \/ /\ announced = "frozen"
          /\ \A s \in Servers : phase[s] = "open"
          /\ announced' = "open"
       \/ /\ announced = "open"
          /\ \A s \in Servers : phase[s] = "closed"
          /\ announced' = "closed"
    /\ UNCHANGED phase

Next == Announce \/ \E s \in Servers : Advance(s)

Spec == Init /\ [][Next]_lvars

FairSpec == Spec /\ WF_lvars(Next)
=============================================================================
