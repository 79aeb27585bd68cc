---------------------------- MODULE BoundedQueue ----------------------------
(***************************************************************************)
(* Queue<T> of the offline transcoder (video_skipping/src/queue.h): a      *)
(* mutex, two condition variables and two atomic flags.  One stage of the  *)
(* pipeline pushes into an instance (the Producer), others pop from it,    *)
(* and any stage may call quit() from its exception handler.               *)
(*                                                                         *)
(* push and pop hold the mutex, finished() and quit() do not, so each of   *)
(* the steps below is a piece of code between two points where such a call *)
(* can intervene: a read of the flags, the critical part that follows it,  *)
(* the wait that releases the mutex, each notification.                    *)
(***************************************************************************)
EXTENDS Integers, Sequences

CONSTANTS
    Producer,    \* the stage that pushes
    Consumers,   \* the stages that pop
    Others,      \* the stages that only ever quit the queue
    NoThread,    \* owner of a free mutex
    SizeMax,     \* size_max_
    MaxItems,    \* bound: push calls the producer makes
    MaxSpurious  \* bound: wakeups that no notification caused

Threads == {Producer} \cup Consumers \cup Others

ASSUME ThreadsAssumption ==
    /\ Producer \notin Consumers \cup Others
    /\ Consumers \cap Others = {}
    /\ NoThread \notin Threads

ASSUME SizesAssumption ==
    /\ SizeMax \in Nat \ {0}
    /\ MaxItems \in Nat
    /\ MaxSpurious \in Nat

(* A stage stops popping after the pop that fails, but the encode stage    *)
(* makes one more: the first failure only starts the flush of the encoder. *)
MaxRefusals == 2

VARIABLES
    queue,      \* queue_, by the numbers of its items
    mutex,      \* the thread that holds mutex_
    fullWait,   \* threads blocked in full_.wait
    emptyWait,  \* threads blocked in empty_.wait
    quit,       \* quit_
    finished,   \* finished_
    pc,         \* where each thread is
    offered,    \* how many times push was called: the number of the item
    taken,      \* the items popped so far, in order
    refused,    \* how many times pop returned false to each consumer
    spurious    \* spurious wakeups so far

vars == <<queue, mutex, fullWait, emptyWait, quit, finished, pc,
          offered, taken, refused, spurious>>

(* The operators called Mutant... are broken versions of the definition    *)
(* that follows them; PROJECT.json names the property each must violate.   *)

-----------------------------------------------------------------------------

Init ==
    /\ queue = <<>>
    /\ mutex = NoThread
    /\ fullWait = {}
    /\ emptyWait = {}
    /\ quit = FALSE
    /\ finished = FALSE
    /\ pc = [t \in Threads |-> "idle"]
    /\ offered = 0
    /\ taken = <<>>
    /\ refused = [c \in Consumers |-> 0]
    /\ spurious = 0

Goto(t, where) == pc' = [pc EXCEPT ![t] = where]

Lock(t) == mutex = NoThread /\ mutex' = t

Unlock(t) == mutex = t /\ mutex' = NoThread

-----------------------------------------------------------------------------
(* bool push(T &&data)                                                     *)

PushCall ==
    /\ pc[Producer] = "idle"
    /\ offered < MaxItems
    /\ Lock(Producer)
    /\ offered' = offered + 1
    /\ Goto(Producer, "push_test")
    /\ UNCHANGED <<queue, fullWait, emptyWait, quit, finished, taken, refused,
                   spurious>>

(* while (!quit_ && !finished_): on leaving the loop push returns false.   *)
PushTest ==
    /\ pc[Producer] = "push_test"
    /\ IF quit \/ finished
       THEN Unlock(Producer) /\ Goto(Producer, "idle")
       ELSE UNCHANGED mutex /\ Goto(Producer, "push_try")
    /\ UNCHANGED <<queue, fullWait, emptyWait, quit, finished, offered, taken,
                   refused, spurious>>

(* The item is stored but no waiting pop is notified.                      *)
MutantPushStoreSilent ==
    /\ pc[Producer] = "push_try"
    /\ Len(queue) < SizeMax
    /\ queue' = Append(queue, offered)
    /\ Unlock(Producer)
    /\ Goto(Producer, "idle")
    /\ UNCHANGED <<fullWait, emptyWait, quit, finished, offered, taken,
                   refused, spurious>>

PushStore ==
    /\ pc[Producer] = "push_try"
    /\ Len(queue) < SizeMax
    /\ queue' = Append(queue, offered)
    /\ emptyWait' = {}
    /\ Unlock(Producer)
    /\ Goto(Producer, "idle")
    /\ UNCHANGED <<fullWait, quit, finished, offered, taken, refused,
                   spurious>>

PushWait ==
    /\ pc[Producer] = "push_try"
    /\ Len(queue) >= SizeMax
    /\ Unlock(Producer)
    /\ fullWait' = fullWait \cup {Producer}
    /\ Goto(Producer, "push_wait")
    /\ UNCHANGED <<queue, emptyWait, quit, finished, offered, taken, refused,
                   spurious>>

(* A notified thread leaves wait() once it has the mutex again.            *)
PushWake ==
    /\ pc[Producer] = "push_wait"
    /\ Producer \notin fullWait
    /\ Lock(Producer)
    /\ Goto(Producer, "push_test")
    /\ UNCHANGED <<queue, fullWait, emptyWait, quit, finished, offered, taken,
                   refused, spurious>>

-----------------------------------------------------------------------------
(* bool pop(T &data)                                                       *)

PopCall(c) ==
    /\ pc[c] = "idle"
    /\ refused[c] < MaxRefusals
    /\ Lock(c)
    /\ Goto(c, "pop_test")
    /\ UNCHANGED <<queue, fullWait, emptyWait, quit, finished, offered, taken,
                   refused, spurious>>

PopRefuse(c) ==
    /\ Unlock(c)
    /\ refused' = [refused EXCEPT ![c] = @ + 1]
    /\ Goto(c, "idle")

(* while (!quit_)                                                          *)
PopTest(c) ==
    /\ pc[c] = "pop_test"
    /\ \/ quit /\ PopRefuse(c)
       \/ ~quit /\ Goto(c, "pop_try") /\ UNCHANGED <<mutex, refused>>
    /\ UNCHANGED <<queue, fullWait, emptyWait, quit, finished, offered, taken,
                   spurious>>

(* The wrong condition variable is notified.                               *)
MutantPopTakeNotifiesEmpty(c) ==
    /\ pc[c] = "pop_try"
    /\ queue # <<>>
    /\ taken' = Append(taken, Head(queue))
    /\ queue' = Tail(queue)
    /\ emptyWait' = {}
    /\ Unlock(c)
    /\ Goto(c, "idle")
    /\ UNCHANGED <<fullWait, quit, finished, offered, refused, spurious>>

PopTake(c) ==
    /\ pc[c] = "pop_try"
    /\ queue # <<>>
    /\ taken' = Append(taken, Head(queue))
    /\ queue' = Tail(queue)
    /\ fullWait' = {}
    /\ Unlock(c)
    /\ Goto(c, "idle")
    /\ UNCHANGED <<emptyWait, quit, finished, offered, refused, spurious>>

(* pop returns false whenever the queue is empty.                          *)
MutantPopEmptyNeverWaits(c) ==
    /\ pc[c] = "pop_try"
    /\ queue = <<>>
    /\ PopRefuse(c)
    /\ UNCHANGED <<queue, fullWait, emptyWait, quit, finished, offered, taken,
                   spurious>>

(* The queue is empty: finished_ is read here and the wait comes later.    *)
PopEmpty(c) ==
    /\ pc[c] = "pop_try"
    /\ queue = <<>>
    /\ \/ finished /\ PopRefuse(c)
       \/ ~finished /\ Goto(c, "pop_block") /\ UNCHANGED <<mutex, refused>>
    /\ UNCHANGED <<queue, fullWait, emptyWait, quit, finished, offered, taken,
                   spurious>>

PopWait(c) ==
    /\ pc[c] = "pop_block"
    /\ Unlock(c)
    /\ emptyWait' = emptyWait \cup {c}
    /\ Goto(c, "pop_wait")
    /\ UNCHANGED <<queue, fullWait, quit, finished, offered, taken, refused,
                   spurious>>

PopWake(c) ==
    /\ pc[c] = "pop_wait"
    /\ c \notin emptyWait
    /\ Lock(c)
    /\ Goto(c, "pop_test")
    /\ UNCHANGED <<queue, fullWait, emptyWait, quit, finished, offered, taken,
                   refused, spurious>>

(* The C++ standard lets either wait return without a notification.        *)
SpuriousWake(t) ==
    /\ t \in fullWait \cup emptyWait
    /\ spurious < MaxSpurious
    /\ spurious' = spurious + 1
    /\ fullWait' = fullWait \ {t}
    /\ emptyWait' = emptyWait \ {t}
    /\ UNCHANGED <<queue, mutex, quit, finished, pc, offered, taken, refused>>

-----------------------------------------------------------------------------
(* void finished(): called by the producer when its own input has ended,   *)
(* after its last push; the mutex is not taken.                            *)

Finish ==
    /\ pc[Producer] = "idle"
    /\ finished' = TRUE
    /\ Goto(Producer, "finish_notify")
    /\ UNCHANGED <<queue, mutex, fullWait, emptyWait, quit, offered, taken,
                   refused, spurious>>

FinishNotify ==
    /\ pc[Producer] = "finish_notify"
    /\ emptyWait' = {}
    /\ Goto(Producer, "closed")
    /\ UNCHANGED <<queue, mutex, fullWait, quit, finished, offered, taken,
                   refused, spurious>>

(* void quit(): called by any stage that is in its exception handler, so   *)
(* neither inside push nor inside pop; the mutex is not taken.             *)
Quit(t) ==
    /\ pc[t] \in {"idle", "closed"}
    /\ quit' = TRUE
    /\ Goto(t, "quit_notify_empty")
    /\ UNCHANGED <<queue, mutex, fullWait, emptyWait, finished, offered, taken,
                   refused, spurious>>

QuitNotifyEmpty(t) ==
    /\ pc[t] = "quit_notify_empty"
    /\ emptyWait' = {}
    /\ Goto(t, "quit_notify_full")
    /\ UNCHANGED <<queue, mutex, fullWait, quit, finished, offered, taken,
                   refused, spurious>>

QuitNotifyFull(t) ==
    /\ pc[t] = "quit_notify_full"
    /\ fullWait' = {}
    /\ Goto(t, "stopped")
    /\ UNCHANGED <<queue, mutex, emptyWait, quit, finished, offered, taken,
                   refused, spurious>>

-----------------------------------------------------------------------------

PushStep == PushTest \/ PushStore \/ PushWait \/ PushWake

PopStep(c) ==
    PopTest(c) \/ PopTake(c) \/ PopEmpty(c) \/ PopWait(c) \/ PopWake(c)

QuitStep(t) == QuitNotifyEmpty(t) \/ QuitNotifyFull(t)

Next ==
    \/ PushCall \/ PushStep \/ Finish \/ FinishNotify
    \/ \E c \in Consumers : PopCall(c) \/ PopStep(c)
    \/ \E t \in Threads : SpuriousWake(t) \/ Quit(t) \/ QuitStep(t)

Spec == Init /\ [][Next]_vars

(* A call that was begun goes on, a stage keeps calling pop until it is    *)
(* refused, and the producer pushes or declares the end; nobody need quit. *)
Fairness ==
    /\ WF_vars(PushStep)
    /\ WF_vars(PushCall \/ Finish)
    /\ WF_vars(FinishNotify)
    /\ \A c \in Consumers : WF_vars(PopCall(c)) /\ WF_vars(PopStep(c))
    /\ \A t \in Threads : WF_vars(QuitStep(t))

FairSpec == Spec /\ Fairness

-----------------------------------------------------------------------------

Places == {"idle", "push_test", "push_try", "push_wait", "pop_test", "pop_try",
           "pop_block", "pop_wait", "finish_notify", "closed",
           "quit_notify_empty", "quit_notify_full", "stopped"}

(* The states of the queue and of the threads that use it.                 *)
TypeOK ==
    /\ queue \in Seq(0..MaxItems)
    /\ Len(queue) <= SizeMax
    /\ mutex \in Threads \cup {NoThread}
    /\ fullWait \subseteq {Producer}
    /\ emptyWait \subseteq Consumers
    /\ quit \in BOOLEAN
    /\ finished \in BOOLEAN
    /\ pc \in [Threads -> Places]
    /\ offered \in 0..MaxItems
    /\ taken \in Seq(0..MaxItems)
    /\ refused \in [Consumers -> Nat]
    /\ spurious \in 0..MaxSpurious

(* Nothing is lost, duplicated or overtaken between push and pop: what was *)
(* popped, followed by what is in queue_, is 1, 2, 3 ... with no gap, and  *)
(* only the item of a push in progress, or of one that was refused because *)
(* the queue was quit, is missing at the end.                              *)
Fifo ==
    /\ \A i \in 1..Len(taken) : taken[i] = i
    /\ \A i \in 1..Len(queue) : queue[i] = Len(taken) + i
    /\ Len(taken) + Len(queue) <= offered
    /\ ~quit /\ pc[Producer] \in {"idle", "finish_notify", "closed"}
         => Len(taken) + Len(queue) = offered

(* No thread sleeps on a condition that already holds: a pop is blocked    *)
(* only on an empty queue and a push only on a full one.  push and pop     *)
(* notify with notify_all under the mutex, so the wakeup cannot be missed. *)
NoSleepOnData ==
    /\ emptyWait # {} => queue = <<>>
    /\ fullWait # {} => Len(queue) = SizeMax

(* pop returns false to mean the end of the stream: unless the queue was   *)
(* quit, every item ever offered to push has been popped by then, although *)
(* finished_ is set without the mutex while pops are under way.            *)
EndMeansDrained ==
    (\E c \in Consumers : refused[c] > 0) /\ ~quit
        => finished /\ queue = <<>> /\ Len(taken) = offered

(* Each item that push accepted comes out of pop, unless the queue is      *)
(* quit; this holds even though finished() may fail to wake a waiting pop. *)
AcceptedIsDelivered ==
    \A n \in 1..MaxItems :
        Len(taken) + Len(queue) >= n ~> Len(taken) >= n \/ quit

(* A push blocked on a full queue returns, unless the queue is quit.       *)
PushReturns == pc[Producer] = "push_wait" ~> pc[Producer] # "push_wait" \/ quit

(* After finished() a pop that is under way returns (false once the queue  *)
(* is drained), which is what its empty_.notify_all() is for.              *)
FinishedEndsPop ==
    \A c \in Consumers :
        pc[c] = "pop_wait" /\ finished ~> pc[c] # "pop_wait" \/ quit

-----------------------------------------------------------------------------
(* The inductive invariant.  It relates the place of each thread to the    *)
(* mutex, to the wait sets and to the flags, and says how far behind the   *)
(* number of push calls the accepted items may be.                         *)

Holding == {"push_test", "push_try", "pop_test", "pop_try", "pop_block"}

(* The thread inside a critical section is the owner of the mutex.         *)
MutexOwned == \A t \in Threads : pc[t] \in Holding => mutex = t

(* Each thread stays within the calls of its role.                         *)
Roles ==
    /\ pc[Producer] \in {"idle", "push_test", "push_try", "push_wait",
                         "finish_notify", "closed", "quit_notify_empty",
                         "quit_notify_full", "stopped"}
    /\ \A c \in Consumers :
          pc[c] \in {"idle", "pop_test", "pop_try", "pop_block", "pop_wait",
                    "quit_notify_empty", "quit_notify_full", "stopped"}
    /\ \A t \in Others :
          pc[t] \in {"idle", "quit_notify_empty", "quit_notify_full", "stopped"}

(* The producer has declared the end only once it pushes no more, and a    *)
(* thread that quit the queue left the flag behind.                        *)
Flags ==
    /\ pc[Producer] \in {"finish_notify", "closed"} => finished
    /\ finished => pc[Producer] \in {"finish_notify", "closed",
                        "quit_notify_empty", "quit_notify_full", "stopped"}
    /\ \A t \in Threads :
          pc[t] \in {"quit_notify_empty", "quit_notify_full", "stopped"} => quit

(* A consumer about to wait holds the mutex and has seen the queue empty.  *)
Blocking ==
    \A c \in Consumers : pc[c] = "pop_block" => queue = <<>>

Accepted == Len(taken) + Len(queue)

(* Only the item of the push in progress is missing, until quit.           *)
Behind ==
    /\ pc[Producer] = "push_try" => Accepted = offered - 1
    /\ pc[Producer] \in {"push_test", "push_wait"} =>
          Accepted < offered /\ (quit \/ Accepted = offered - 1)

(* All of it: inductive, and enough for Fifo, NoSleepOnData and            *)
(* EndMeansDrained, which are its last conjuncts.                          *)
IInv ==
    /\ TypeOK
    /\ MutexOwned
    /\ Roles
    /\ Flags
    /\ Blocking
    /\ Behind
    /\ Fifo
    /\ NoSleepOnData
    /\ EndMeansDrained

-----------------------------------------------------------------------------
(* The queue is a first-in first-out channel.                              *)

Channel == INSTANCE FifoChannel WITH
    Capacity <- SizeMax,
    channel <- queue,
    delivered <- Len(taken),
    closed <- finished,
    broken <- quit,
    ended <- \E c \in Consumers : refused[c] > 0

ImplementsChannel == Channel!Spec
=============================================================================
