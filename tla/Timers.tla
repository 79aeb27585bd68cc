------------------------------- MODULE Timers -------------------------------
(***************************************************************************)
(* What scheduleDelayedTask and unscheduleDelayedTask of live555 promise   *)
(* (UsageEnvironment.hh, TaskScheduler): each task is due a delay after it *)
(* was scheduled, and the tasks are done in the order in which they are    *)
(* due, those that are due together in the order of the calls.             *)
(***************************************************************************)
EXTENDS Naturals

CONSTANT Delays

VARIABLES
    clock,      \* the time that has gone by
    issued,     \* the tokens given out
    due         \* for each task that is scheduled, when it is due

vars == <<clock, issued, due>>

Init == clock = 0 /\ issued = 0 /\ due = <<>>

Passes == clock' \in Nat /\ clock <= clock'

With(t, x) == [u \in DOMAIN due \cup {t} |-> IF u = t THEN x ELSE due[u]]
Without(t) == [u \in DOMAIN due \ {t} |-> due[u]]

Advance == Passes /\ UNCHANGED <<issued, due>>

Schedule(delay) ==
    /\ Passes
    /\ issued' = issued + 1
    /\ due' = With(issued', clock' + delay)

Unschedule(t) ==
    /\ due' = Without(t)
    /\ UNCHANGED <<clock, issued>>

IsNext(t) ==
    \A u \in DOMAIN due \ {t} :
        due[t] < due[u] \/ (due[t] = due[u] /\ t < u)

Do(t) ==
    /\ Passes
    /\ due[t] <= clock'
    /\ IsNext(t)
    /\ due' = Without(t)
    /\ UNCHANGED issued

Next ==
    \/ Advance
    \/ \E delay \in Delays : Schedule(delay)
    \/ \E t \in DOMAIN due : Unschedule(t) \/ Do(t)

Spec == Init /\ [][Next]_vars
=============================================================================
