-------------------------- MODULE MessageLifecycle --------------------------
(***************************************************************************)
(* What the push queue promises about one message, without the worker, its *)
(* batches, claims, retries and clocks: a message is accepted once,        *)
(* settles once as sent or failed, is announced at most once to the app's  *)
(* webhook with the status it settled with, and is removed for good.       *)
(***************************************************************************)
CONSTANTS Items, Outcomes

VARIABLES state, announced

lifecycleVars == <<state, announced>>

LifecycleInit ==
    /\ state = [i \in Items |-> "none"]
    /\ announced = [i \in Items |-> {}]

Accept(i) ==
    /\ state[i] = "none"
    /\ state' = [state EXCEPT ![i] = "queued"]
    /\ UNCHANGED announced

Settle(i, o) ==
    /\ state[i] = "queued"
    /\ state' = [state EXCEPT ![i] = o]
    /\ UNCHANGED announced

(* A message removed while it was being delivered is still announced.      *)
Announce(i, o) ==
    /\ announced[i] = {}
    /\ state[i] \in {o, "removed"}
    /\ announced' = [announced EXCEPT ![i] = {o}]
    /\ UNCHANGED state

(* Messages disappear with their user, or together when they are old.      *)
Remove(S) ==
    /\ \A i \in S : state[i] \in {"queued"} \cup Outcomes
    /\ state' = [i \in Items |-> IF i \in S THEN "removed" ELSE state[i]]
    /\ UNCHANGED announced

LifecycleNext ==
    \/ \E i \in Items : Accept(i)
    \/ \E i \in Items, o \in Outcomes : Settle(i, o) \/ Announce(i, o)
    \/ \E S \in SUBSET Items : Remove(S)

LifecycleSpec == LifecycleInit /\ [][LifecycleNext]_lifecycleVars
=============================================================================
