----------------------------- MODULE DelayQueue -----------------------------
(***************************************************************************)
(* The timers of the streaming server (live555, BasicUsageEnvironment):    *)
(* DelayQueue, a list of tasks each of which holds the time from the task  *)
(* before it to its own, and BasicTaskScheduler's SingleStep as far as the *)
(* timers are concerned: it sleeps in select until the first task is due   *)
(* or a socket is ready, handles sockets, and does one task that is due.   *)
(*                                                                         *)
(* The queue knows only the time of day, which may be set while the server *)
(* runs.  time is the time that has really gone by.                        *)
(*                                                                         *)
(* Init, Next and the like have names of their own here, for the module    *)
(* of the proofs about the server extends several of its components.       *)
(***************************************************************************)
EXTENDS Integers, Sequences, SequencesExt

CONSTANTS
    Delays,         \* the delays that tasks are scheduled with
    Eternity,       \* ETERNITY, fDeltaTimeRemaining of the queue itself
    Settings,       \* by how much the time of day may be set on or back
    MaxTime,        \* bound of time
    MaxTokens,      \* bound of tokenCounter
    MaxSettings     \* how often the time of day is set

(* No task is scheduled for a time past ETERNITY, 68 years.                *)
ASSUME DelayAssumption ==
    /\ Delays \subseteq Nat /\ Settings \subseteq Int
    /\ MaxTime \in Nat /\ MaxTokens \in Nat /\ MaxSettings \in Nat
    /\ Eternity \in Nat
    /\ \A d \in Delays \cup {0}, s \in Settings \cup {0} :
          d + MaxTime + MaxSettings * s < Eternity

VARIABLES
    time,
    shift,          \* what the time of day is ahead of time
    settings,       \* how often it was set
    queue,          \* the tasks, and the queue itself at the end
    fLastSyncTime,
    tokenCounter,
    phase,          \* where the event loop is
    wake,           \* when select returns, if no socket is ready before
    counted,        \* the time that the queue has counted
    due,            \* when each task is due, in the time it counts
    earliest,       \* and in time, if the time of day had only been set on
    latest          \* or only been set back, since it was scheduled

clockVars == <<time, shift, settings>>
queueVars == <<queue, fLastSyncTime, tokenCounter>>
dueVars == <<counted, due, earliest, latest>>
delayVars == <<clockVars, queueVars, phase, wake, dueVars>>

(* The operators called Mutant... are broken versions of the definition    *)
(* that follows them; PROJECT.json names the property each must violate.   *)

DelayInit ==
    /\ time = 0 /\ shift = 0 /\ settings = 0
    /\ queue = <<[token |-> 0, delta |-> Eternity]>>
    /\ fLastSyncTime = 0 /\ tokenCounter = 0
    /\ phase = "handlers" /\ wake = 0
    /\ counted = 0 /\ due = <<>> /\ earliest = <<>> /\ latest = <<>>

TimeNow == time + shift

ClockTicks ==
    /\ time < MaxTime
    /\ time' = time + 1
    /\ UNCHANGED <<shift, settings, queueVars, phase, wake, dueVars>>

(* The time of day is set.                                                 *)
SetTime(s) ==
    /\ settings < MaxSettings
    /\ settings' = settings + 1
    /\ shift' = shift + s
    /\ earliest' = [t \in DOMAIN earliest |->
                      earliest[t] - (IF s > 0 THEN s ELSE 0)]
    /\ latest' = [t \in DOMAIN latest |->
                    latest[t] - (IF s < 0 THEN s ELSE 0)]
    /\ UNCHANGED <<time, queueVars, phase, wake, counted, due>>

-----------------------------------------------------------------------------
(* The list                                                                *)

(* The sum of the first i deltas.                                          *)
Sums(q) ==
    LET sum[i \in 0..Len(q)] ==
          IF i = 0 THEN 0 ELSE sum[i - 1] + q[i].delta
    IN  sum
Before(q, i) == Sums(q)[i]

(* How many entries are passed by walking along the list while what is     *)
(* left of t is at least the next delta.                                   *)
Passed(q, t) == Max({i \in 0..Len(q) : Before(q, i) <= t})

Synchronized(q, t) ==
    LET k == Passed(q, t) IN
    [i \in DOMAIN q |->
       [q[i] EXCEPT !.delta = IF i <= k THEN 0
                              ELSE IF i = k + 1 THEN @ - (t - Before(q, k))
                              ELSE @]]

Inserted(q, k, new) ==
    SubSeq(q, 1, k) \o <<new, [q[k + 1] EXCEPT !.delta = @ - new.delta]>>
    \o SubSeq(q, k + 2, Len(q))

(* Before the entries that are due at the same time.                       *)
MutantAdded(q, new) ==
    LET k == IF new.delta = 0 THEN 0 ELSE Passed(q, new.delta - 1) IN
    Inserted(q, k, [new EXCEPT !.delta = @ - Before(q, k)])

(* The next entry keeps its delta.                                         *)
MutantAddedLater(q, new) ==
    LET k == Passed(q, new.delta) IN
    SubSeq(q, 1, k) \o <<[new EXCEPT !.delta = @ - Before(q, k)]>>
    \o SubSeq(q, k + 1, Len(q))

Added(q, new) ==
    LET k == Passed(q, new.delta) IN
    Inserted(q, k, [new EXCEPT !.delta = @ - Before(q, k)])

(* The delta of the entry is lost.                                         *)
MutantRemoved(q, i) == RemoveAt(q, i)

Removed(q, i) == RemoveAt([q EXCEPT ![i + 1].delta = @ + q[i].delta], i)

Elapsed == IF TimeNow < fLastSyncTime THEN 0 ELSE TimeNow - fLastSyncTime

(* synchronize(); when the time of day has been set back nothing elapses.  *)
synchronize ==
    /\ fLastSyncTime' = TimeNow
    /\ counted' = counted + Elapsed

NotSynchronized == UNCHANGED <<fLastSyncTime, counted>>

With(f, t, x) == [u \in DOMAIN f \cup {t} |-> IF u = t THEN x ELSE f[u]]

Forget(t) ==
    LET tasks == DOMAIN due \ {t} IN
    /\ due' = [u \in tasks |-> due[u]]
    /\ earliest' = [u \in tasks |-> earliest[u]]
    /\ latest' = [u \in tasks |-> latest[u]]

-----------------------------------------------------------------------------
(* What a handler of a socket or a task may call                           *)

InHandler == phase \in {"handlers", "task"}

scheduleDelayedTask(delay) ==
    /\ InHandler
    /\ tokenCounter < MaxTokens
    /\ tokenCounter' = tokenCounter + 1
    /\ synchronize
    /\ queue' = Added(Synchronized(queue, Elapsed),
                      [token |-> tokenCounter', delta |-> delay])
    /\ due' = With(due, tokenCounter', counted' + delay)
    /\ earliest' = With(earliest, tokenCounter', time + delay)
    /\ latest' = With(latest, tokenCounter', time + delay)
    /\ UNCHANGED <<clockVars, phase, wake>>

(* Without effect if the task has been done.                               *)
unscheduleDelayedTask(t) ==
    /\ InHandler
    /\ \E i \in DOMAIN queue :
          queue[i].token = t /\ queue' = Removed(queue, i)
    /\ Forget(t)
    /\ UNCHANGED <<clockVars, fLastSyncTime, tokenCounter, phase, wake,
                   counted>>

-----------------------------------------------------------------------------
(* SingleStep                                                              *)

HeadIsDue == Head(queue).delta = 0

(* The queue is not synchronized before it is asked.                       *)
MutantTimeToNextAlarm ==
    /\ UNCHANGED queue
    /\ NotSynchronized

timeToNextAlarm ==
    IF HeadIsDue THEN UNCHANGED queue /\ NotSynchronized
    ELSE synchronize /\ queue' = Synchronized(queue, Elapsed)

Select ==
    /\ phase = "step"
    /\ timeToNextAlarm
    /\ wake' = time + Head(queue').delta
    /\ phase' = "select"
    /\ UNCHANGED <<clockVars, tokenCounter, due, earliest, latest>>

(* Before wake because a socket is ready.                                  *)
SelectReturns ==
    /\ phase = "select"
    /\ phase' = "handlers"
    /\ UNCHANGED <<clockVars, queueVars, wake, dueVars>>

(* The task is taken off the list before its handler is called.            *)
DoTask(q) ==
    /\ queue' = Removed(q, 1)
    /\ Forget(Head(q).token)
    /\ phase' = "task"

handleAlarm ==
    /\ phase = "handlers"
    /\ IF HeadIsDue THEN NotSynchronized /\ DoTask(queue)
       ELSE /\ synchronize
            /\ LET q == Synchronized(queue, Elapsed) IN
               IF Head(q).delta = 0 THEN DoTask(q)
               ELSE /\ queue' = q /\ phase' = "step"
                    /\ UNCHANGED <<due, earliest, latest>>
    /\ UNCHANGED <<clockVars, tokenCounter, wake>>

TaskReturns ==
    /\ phase = "task"
    /\ phase' = "step"
    /\ UNCHANGED <<clockVars, queueVars, wake, dueVars>>

-----------------------------------------------------------------------------

DelayNext ==
    \/ ClockTicks
    \/ \E s \in Settings : SetTime(s)
    \/ Select \/ SelectReturns \/ handleAlarm \/ TaskReturns
    \/ \E delay \in Delays : scheduleDelayedTask(delay)
    \/ \E t \in 1..tokenCounter : unscheduleDelayedTask(t)

DelaySpec == DelayInit /\ [][DelayNext]_delayVars

-----------------------------------------------------------------------------

Tasks == {queue[i].token : i \in 1..(Len(queue) - 1)}

DelayTypeOK ==
    /\ time \in 0..MaxTime /\ shift \in Int /\ settings \in 0..MaxSettings
    /\ queue \in Seq([token : 0..tokenCounter, delta : Nat])
    /\ Last(queue).token = 0 /\ Last(queue).delta > 0
    /\ fLastSyncTime \in Int /\ tokenCounter \in 0..MaxTokens
    /\ phase \in {"step", "select", "handlers", "task"}
    /\ wake \in Nat /\ counted \in Nat
    /\ DOMAIN due = Tasks /\ due \in [Tasks -> Nat]
    /\ earliest \in [Tasks -> Int] /\ latest \in [Tasks -> Int]

(* Whatever was scheduled, cancelled and set in between, the deltas up to  *)
(* a task add up to the time until it is due, or to 0 if it is overdue.    *)
DeltasAddUp ==
    /\ DelayTypeOK
    /\ \A i \in 1..(Len(queue) - 1) :
         LET left == due[queue[i].token] - counted IN
         Before(queue, i) = IF left > 0 THEN left ELSE 0

(* The queue does what Timers promises, by the time that it counts.        *)
Abstract == INSTANCE Timers WITH clock <- counted, issued <- tokenCounter
ImplementsTimers == Abstract!Spec

Done == {t \in Tasks : phase = "handlers" /\ phase' = "task"
                       /\ t \notin {queue'[i].token : i \in DOMAIN queue'}}

(* No task is done before its delay has really gone by, less what the time *)
(* of day has been set on since it was scheduled.                          *)
NotEarly == [][\A t \in Done : earliest[t] <= time]_delayVars

(* The event loop never sleeps past the time at which a task is really     *)
(* due, but for what the time of day has been set back since it was        *)
(* scheduled; when one is overdue it does not sleep at all.                *)
SleepsUntilDue ==
    [][phase # "select" /\ phase' = "select" =>
         \A t \in Tasks : wake' <= time \/ wake' <= latest[t]]_delayVars
=============================================================================
