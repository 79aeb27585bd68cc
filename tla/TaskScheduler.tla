--------------------------- MODULE TaskScheduler ---------------------------
(***************************************************************************)
(* The sockets of the streaming server (live555, BasicUsageEnvironment):   *)
(* the handlers that the program sets, moves and clears, and which of them *)
(* SingleStep calls when select finds several sockets readable.            *)
(*                                                                         *)
(* Everything is done by one thread.  A handler, be it that of a socket,   *)
(* an event or a timer, may do anything that the program may, run the      *)
(* event loop included, as DynamicRTSPServer does; SingleStep keeps        *)
(* nothing over a handler, so that its calls are steps of their own.       *)
(* Conditions other than that the socket is readable are left out.         *)
(*                                                                         *)
(* Init, Next and the like have names of their own here, for the module    *)
(* of the proofs about the server extends several of its components.       *)
(***************************************************************************)
EXTENDS Integers, Sequences, SequencesExt

CONSTANTS
    Limit,          \* the socket numbers are below it: bound of the model
    FD_SETSIZE

ASSUME SchedulerAssumption == Limit \in Nat /\ FD_SETSIZE \in Nat

Sockets == 0..(Limit - 1)

VARIABLES
    open,                   \* the sockets that are open
    ready,                  \* those of them with something to read
    fHandlers,              \* the sockets that have a handler, as a list
    fReadSet,
    fMaxNumSockets,
    fLastHandledSocketNum,
    handled                 \* the socket handled by the last SingleStep

setVars == <<fHandlers, fReadSet, fMaxNumSockets>>
schedulerVars == <<open, ready, setVars, fLastHandledSocketNum, handled>>

(* The operators called Mutant... are broken versions of the definition    *)
(* that follows them; PROJECT.json names the property each must violate.   *)

SchedulerInit ==
    /\ open = {} /\ ready = {}
    /\ fHandlers = <<>> /\ fReadSet = {} /\ fMaxNumSockets = 0
    /\ fLastHandledSocketNum = -1
    /\ handled = -1

-----------------------------------------------------------------------------
(* The system                                                              *)

(* socket() and accept() give the lowest number that is free.              *)
LowestFree(taken) ==
    CHOOSE s \in Sockets \ taken : \A r \in Sockets \ taken : s <= r

OpenSocket ==
    /\ open # Sockets
    /\ open' = open \cup {LowestFree(open)}
    /\ UNCHANGED <<ready, setVars, fLastHandledSocketNum, handled>>

Arrives(s) ==
    /\ s \in open \ ready
    /\ ready' = ready \cup {s}
    /\ UNCHANGED <<open, setVars, fLastHandledSocketNum, handled>>

(* ~Socket.  What read from it has cleared the handler by then: not done   *)
(* here, but by its owners (RTCP.cpp:396, RTPInterface.cpp:305).           *)
CloseSocket(s) ==
    /\ s \in open \ fReadSet
    /\ open' = open \ {s}
    /\ ready' = ready \ {s}
    /\ UNCHANGED <<setVars, fLastHandledSocketNum, handled>>

-----------------------------------------------------------------------------
(* The handlers                                                            *)

(* Where the handler of a socket is in the list.                           *)
lookupHandler(s) == CHOOSE i \in DOMAIN fHandlers : fHandlers[i] = s

(* A new handler comes first in the list.                                  *)
assignHandler(s) ==
    fHandlers' = IF Contains(fHandlers, s) THEN fHandlers
                 ELSE <<s>> \o fHandlers

clearHandler(s) ==
    fHandlers' = IF Contains(fHandlers, s)
                 THEN RemoveAt(fHandlers, lookupHandler(s)) ELSE fHandlers

moveHandler(old, new) ==
    fHandlers' = IF Contains(fHandlers, old)
                 THEN [fHandlers EXCEPT ![lookupHandler(old)] = new]
                 ELSE fHandlers

(* fMaxNumSockets when a socket leaves the sets.                           *)
MutantWithout(max, s) == IF s + 1 <= max THEN max - 1 ELSE max
Without(max, s) == IF s + 1 = max THEN max - 1 ELSE max

Within(max, s) == IF s + 1 > max THEN s + 1 ELSE max

(* setBackgroundHandling with a condition: a number that does not fit the  *)
(* sets is ignored.                                                        *)
SetHandling(s) ==
    /\ s \in open
    /\ s < FD_SETSIZE
    /\ assignHandler(s)
    /\ fReadSet' = fReadSet \cup {s}
    /\ fMaxNumSockets' = Within(fMaxNumSockets, s)
    /\ UNCHANGED <<open, ready, fLastHandledSocketNum, handled>>

ClearSets(s) ==
    /\ clearHandler(s)
    /\ fReadSet' = fReadSet \ {s}
    /\ fMaxNumSockets' = Without(fMaxNumSockets, s)

(* setBackgroundHandling without a condition                               *)
ClearHandling(s) ==
    /\ s < FD_SETSIZE
    /\ ClearSets(s)
    /\ UNCHANGED <<open, ready, fLastHandledSocketNum, handled>>

moveSocketHandling(old, new) ==
    /\ fReadSet' = IF old \in fReadSet THEN (fReadSet \ {old}) \cup {new}
                   ELSE fReadSet
    /\ moveHandler(old, new)
    /\ fMaxNumSockets' = Within(Without(fMaxNumSockets, old), new)

(* Socket::changePort: the socket is closed and another opened, the number *)
(* of which may be the same.                                               *)
ChangePort(s) ==
    /\ s \in open
    /\ LET new == LowestFree(open \ {s}) IN
       /\ open' = (open \ {s}) \cup {new}
       /\ ready' = ready \ {s}
       /\ IF new = s \/ s >= FD_SETSIZE THEN UNCHANGED setVars
          ELSE moveSocketHandling(s, new)
    /\ UNCHANGED <<fLastHandledSocketNum, handled>>

(* The end of a connection, where the handler is cleared before the socket *)
(* is closed, and changePort when no other can be opened, where after it.  *)
closeSockets(s) ==
    /\ s \in open
    /\ open' = open \ {s}
    /\ ready' = ready \ {s}
    /\ IF s >= FD_SETSIZE THEN UNCHANGED setVars ELSE ClearSets(s)
    /\ UNCHANGED <<fLastHandledSocketNum, handled>>

-----------------------------------------------------------------------------
(* SingleStep                                                              *)

(* What select finds: it looks at the sockets below fMaxNumSockets.        *)
Readable == {s \in fReadSet \cap ready : s < fMaxNumSockets}

(* From the beginning of the list.                                         *)
MutantInTurn == fHandlers

(* The handlers after that of the socket that was handled last, and then   *)
(* all; all if it has no handler any more.                                 *)
InTurn ==
    IF Contains(fHandlers, fLastHandledSocketNum)
    THEN SubSeq(fHandlers, lookupHandler(fLastHandledSocketNum) + 1,
                Len(fHandlers)) \o fHandlers
    ELSE fHandlers

(* The places in turn of the sockets that were found.                      *)
Due(found) ==
    LET turn == InTurn IN {i \in DOMAIN turn : turn[i] \in found}

(* If select is interrupted by a signal, the sets are left as they were,   *)
(* and all sockets are taken for readable; after any other failure of it   *)
(* the server aborts.  The handler reads what there is, or part of it.     *)
SingleStep ==
    /\ \E found \in {Readable, fReadSet} :
          handled' = IF Due(found) = {} THEN -1 ELSE InTurn[Min(Due(found))]
    /\ fLastHandledSocketNum' = handled'
    /\ ready' \in {ready, ready \ {handled'}}
    /\ UNCHANGED <<open, setVars>>

-----------------------------------------------------------------------------

Program(s) ==
    \/ CloseSocket(s) \/ SetHandling(s) \/ ClearHandling(s)
    \/ ChangePort(s) \/ closeSockets(s)

SchedulerNext ==
    \/ OpenSocket
    \/ \E s \in Sockets : Arrives(s) \/ Program(s)
    \/ SingleStep

SchedulerSpec == SchedulerInit /\ [][SchedulerNext]_schedulerVars

(* The event loop runs.                                                    *)
FairSchedulerSpec == SchedulerSpec /\ WF_schedulerVars(SingleStep)

-----------------------------------------------------------------------------

SchedulerTypeOK ==
    /\ open \subseteq Sockets /\ ready \subseteq open
    /\ fHandlers \in Seq(Sockets)
    /\ fReadSet \subseteq Sockets
    /\ fMaxNumSockets \in 0..FD_SETSIZE
    /\ fLastHandledSocketNum \in Sockets \cup {-1}
    /\ handled \in Sockets \cup {-1}

(* Each socket in the set that select is given is open, or select would    *)
(* fail and the server abort, and has one handler, however handlers were   *)
(* set, moved and cleared; no other socket has one.  And                   *)
(* fMaxNumSockets, which only goes down by one at a time, is above every   *)
(* socket in the set: select overlooks none.                               *)
SelectSeesAll ==
    /\ SchedulerTypeOK
    /\ fReadSet \subseteq open
    /\ fReadSet = ToSet(fHandlers)
    /\ IsInjective(fHandlers)
    /\ \A s \in fReadSet : s < fMaxNumSockets

LastIsCleared ==
    \E s \in Sockets :
        /\ s = fLastHandledSocketNum
        /\ ClearHandling(s) \/ ChangePort(s) \/ closeSockets(s)

(* Every readable socket is handled in its turn ("To ensure forward        *)
(* progress through the handlers", BasicTaskScheduler.cpp:132), as long as *)
(* it has a handler, unless handlers go on being cleared that were just    *)
(* called.                                                                 *)
HandledInTurn ==
    \/ []<><<LastIsCleared>>_schedulerVars
    \/ \A s \in Sockets :
          s \in fReadSet \cap ready ~>
              handled = s \/ s \notin fReadSet \cap ready
=============================================================================
