---------------------------- MODULE FifoChannel ----------------------------
(***************************************************************************)
(* What the queue between two pipeline stages promises, with no threads,   *)
(* lock or condition variables: a bounded first-in first-out channel whose *)
(* producer may declare the stream finished, after which nothing enters,   *)
(* and which anybody may break with quit.  BoundedQueue implements it.     *)
(*                                                                         *)
(* Items are numbered in the order in which they are offered: item k is    *)
(* the k-th one the producer tries to put.                                 *)
(***************************************************************************)
EXTENDS Integers, Sequences

CONSTANTS Capacity, MaxItems

VARIABLES
    channel,   \* the items in transit, oldest first
    offered,   \* how many items the producer has offered
    delivered, \* how many items have come out
    closed,    \* the producer declared the stream finished
    broken,    \* somebody called quit
    ended      \* a consumer was told that nothing will come any more

channelVars == <<channel, offered, delivered, closed, broken, ended>>

Init ==
    /\ channel = <<>>
    /\ offered = 0
    /\ delivered = 0
    /\ closed = FALSE
    /\ broken = FALSE
    /\ ended = FALSE

Offer ==
    /\ ~closed
    /\ offered < MaxItems
    /\ offered' = offered + 1
    /\ UNCHANGED <<channel, delivered, closed, broken, ended>>

(* The item on offer enters only while there is room, never after the end  *)
(* was declared, and only as the successor of the last accepted one.       *)
Accept ==
    /\ ~closed
    /\ Len(channel) < Capacity
    /\ delivered + Len(channel) = offered - 1
    /\ channel' = Append(channel, offered)
    /\ UNCHANGED <<offered, delivered, closed, broken, ended>>

Deliver ==
    /\ channel # <<>>
    /\ Head(channel) = delivered + 1
    /\ channel' = Tail(channel)
    /\ delivered' = delivered + 1
    /\ UNCHANGED <<offered, closed, broken, ended>>

Close ==
    /\ closed' = TRUE
    /\ UNCHANGED <<channel, offered, delivered, broken, ended>>

Break ==
    /\ broken' = TRUE
    /\ UNCHANGED <<channel, offered, delivered, closed, ended>>

(* The end is announced when every offered item was delivered, or when the *)
(* channel was broken.                                                     *)
End ==
    /\ broken \/ (closed /\ delivered = offered)
    /\ ended' = TRUE
    /\ UNCHANGED <<channel, offered, delivered, closed, broken>>

Next == Offer \/ Accept \/ Deliver \/ Close \/ Break \/ End

Spec == Init /\ [][Next]_channelVars
=============================================================================
