------------------------- MODULE BoundedQueueProofs -------------------------
(***************************************************************************)
(* Proofs about the queue between two stages, for any number of consumers  *)
(* and other stages, any capacity and any number of items.                 *)
(***************************************************************************)
EXTENDS BoundedQueue, TLAPS

(* A sequence that counts up from k + 1 goes on doing so when the next     *)
(* number is appended, and from k + 2 when its head is removed.            *)
LEMMA AppendRun ==
    ASSUME NEW s \in Seq(Int), NEW k \in Int, NEW e,
           \A i \in 1..Len(s) : s[i] = k + i, e = k + Len(s) + 1
    PROVE  /\ Len(Append(s, e)) = Len(s) + 1
           /\ \A i \in 1..Len(Append(s, e)) : Append(s, e)[i] = k + i
  OBVIOUS

LEMMA TailRun ==
    ASSUME NEW s \in Seq(Int), NEW k \in Int, s # <<>>,
           \A i \in 1..Len(s) : s[i] = k + i
    PROVE  /\ Head(s) = k + 1
           /\ Len(Tail(s)) = Len(s) - 1
           /\ \A i \in 1..Len(Tail(s)) : Tail(s)[i] = (k + 1) + i
  OBVIOUS

LEMMA InitType == Init => TypeOK
<1> USE SizesAssumption, ThreadsAssumption DEF Threads, Places, MaxRefusals
<1> SUFFICES ASSUME Init PROVE TypeOK
  OBVIOUS
<1> USE DEF Init
<1>1. pc \in [Threads -> Places]
  OBVIOUS
<1>2. refused \in [Consumers -> Nat]
  OBVIOUS
<1>3. /\ queue \in Seq(0..MaxItems) /\ Len(queue) <= SizeMax
      /\ taken \in Seq(0..MaxItems)
  OBVIOUS
<1>4. /\ mutex \in Threads \cup {NoThread}
      /\ fullWait \subseteq {Producer} /\ emptyWait \subseteq Consumers
      /\ quit \in BOOLEAN /\ finished \in BOOLEAN
  OBVIOUS
<1>5. offered \in 0..MaxItems /\ spurious \in 0..MaxSpurious
  OBVIOUS
<1> QED BY <1>1, <1>2, <1>3, <1>4, <1>5 DEF TypeOK

(* Every state reached by the queue and its threads is well formed; in     *)
(* particular queue_ never holds more than size_max_ items.                *)
THEOREM TypeCorrect == Spec => []TypeOK
<1> USE SizesAssumption, ThreadsAssumption DEF Threads, Places, MaxRefusals
<1>1. Init => TypeOK
  BY InitType
<1>2. TypeOK /\ [Next]_vars => TypeOK'
  <2> SUFFICES ASSUME TypeOK, [Next]_vars PROVE TypeOK'
    OBVIOUS
  <2> USE DEF TypeOK, Lock, Unlock, Goto
  <2>1. CASE PushCall
    BY <2>1 DEF PushCall
  <2>2. CASE PushTest
    BY <2>2 DEF PushTest
  <2>3. CASE PushStore
    BY <2>3 DEF PushStore
  <2>4. CASE PushWait
    BY <2>4 DEF PushWait
  <2>5. CASE PushWake
    BY <2>5 DEF PushWake
  <2>6. CASE Finish
    BY <2>6 DEF Finish
  <2>7. CASE FinishNotify
    BY <2>7 DEF FinishNotify
  <2>8. ASSUME NEW c \in Consumers, PopCall(c) PROVE TypeOK'
    BY <2>8 DEF PopCall
  <2>9. ASSUME NEW c \in Consumers, PopStep(c) PROVE TypeOK'
    <3>1. CASE PopTest(c)
      BY <3>1 DEF PopTest, PopRefuse
    <3>2. CASE PopTake(c)
      BY <3>2 DEF PopTake
    <3>3. CASE PopEmpty(c)
      BY <3>3 DEF PopEmpty, PopRefuse
    <3>4. CASE PopWait(c)
      BY <3>4 DEF PopWait
    <3>5. CASE PopWake(c)
      BY <3>5 DEF PopWake
    <3> QED BY <2>9, <3>1, <3>2, <3>3, <3>4, <3>5 DEF PopStep
  <2>10. ASSUME NEW t \in Threads, SpuriousWake(t) PROVE TypeOK'
    BY <2>10 DEF SpuriousWake
  <2>11. ASSUME NEW t \in Threads, Quit(t) PROVE TypeOK'
    BY <2>11 DEF Quit
  <2>12. ASSUME NEW t \in Threads, QuitStep(t) PROVE TypeOK'
    BY <2>12 DEF QuitStep, QuitNotifyEmpty, QuitNotifyFull
  <2>13. CASE UNCHANGED vars
    BY <2>13 DEF vars
  <2> QED
    BY <2>1, <2>2, <2>3, <2>4, <2>5, <2>6, <2>7, <2>8, <2>9, <2>10, <2>11,
       <2>12, <2>13 DEF Next, PushStep
<1> QED BY <1>1, <1>2, PTL DEF Spec

-----------------------------------------------------------------------------
LEMMA SeqOfNumbers ==
    TypeOK => /\ queue \in Seq(Int) /\ Len(queue) \in Nat
              /\ taken \in Seq(Int) /\ Len(taken) \in Nat
  BY SizesAssumption DEF TypeOK

(* The two steps that move an item keep the numbers consecutive.           *)
LEMMA FifoStore ==
    TypeOK /\ Behind /\ Fifo /\ PushStore => Fifo'
<1> SUFFICES ASSUME TypeOK, Behind, Fifo, PushStore PROVE Fifo'
  OBVIOUS
<1>1. /\ queue' = Append(queue, offered)
      /\ taken' = taken /\ offered' = offered
      /\ offered = Len(taken) + Len(queue) + 1
  <2>1. offered \in Int /\ Len(taken) \in Int /\ Len(queue) \in Int
    BY SeqOfNumbers, SizesAssumption DEF TypeOK
  <2>2. Len(taken) + Len(queue) = offered - 1
    BY DEF PushStore, Behind, Accepted
  <2> QED BY <2>1, <2>2 DEF PushStore
<1>2. queue \in Seq(Int) /\ Len(taken) \in Int /\ Len(queue) \in Int
  BY SeqOfNumbers
<1>3. \A i \in 1..Len(queue) : queue[i] = Len(taken) + i
  BY DEF Fifo
<1>4. /\ Len(queue') = Len(queue) + 1
      /\ \A i \in 1..Len(queue') : queue'[i] = Len(taken) + i
  <2>1. /\ Len(Append(queue, offered)) = Len(queue) + 1
        /\ \A i \in 1..Len(Append(queue, offered)) :
              Append(queue, offered)[i] = Len(taken) + i
    <3>1. offered = Len(taken) + Len(queue) + 1
      BY <1>1
    <3> QED BY <3>1, <1>2, <1>3, AppendRun
  <2> QED BY <1>1, <2>1
<1>5. Len(taken') + Len(queue') = offered'
  BY <1>1, <1>2, <1>4
<1> QED BY <1>1, <1>2, <1>4, <1>5 DEF Fifo

LEMMA FifoTake ==
    ASSUME TypeOK, Fifo, Roles, NEW c \in Consumers, PopTake(c)
    PROVE  Fifo'
<1>1. /\ queue # <<>> /\ queue' = Tail(queue) /\ offered' = offered
      /\ taken' = Append(taken, Head(queue)) /\ quit' = quit
  BY DEF PopTake
<1>2. pc'[Producer] = pc[Producer]
  BY ThreadsAssumption DEF PopTake, Goto, TypeOK, Threads
<1>3. /\ queue \in Seq(Int) /\ Len(queue) \in Int
      /\ taken \in Seq(Int) /\ Len(taken) \in Int
  BY SeqOfNumbers
<1>4. /\ \A i \in 1..Len(queue) : queue[i] = Len(taken) + i
      /\ \A i \in 1..Len(taken) : taken[i] = 0 + i
  BY <1>3 DEF Fifo
<1>5. /\ Head(queue) = Len(taken) + 1
      /\ Len(queue') = Len(queue) - 1
      /\ \A i \in 1..Len(queue') : queue'[i] = (Len(taken) + 1) + i
  BY <1>1, <1>3, <1>4, TailRun
<1>6. Head(queue) = 0 + Len(taken) + 1
  BY <1>3, <1>5
<1>7. /\ Len(taken') = Len(taken) + 1
      /\ \A i \in 1..Len(taken') : taken'[i] = 0 + i
  BY <1>1, <1>3, <1>4, <1>6, AppendRun
<1>8. Len(taken') + Len(queue') = Len(taken) + Len(queue)
  BY <1>3, <1>5, <1>7
<1>9. /\ \A i \in 1..Len(taken') : taken'[i] = i
      /\ \A i \in 1..Len(queue') : queue'[i] = Len(taken') + i
  BY <1>3, <1>5, <1>7
<1> QED BY <1>1, <1>2, <1>8, <1>9 DEF Fifo

(* Mutual exclusion, the roles of the threads and the flags they leave.   *)
LEMMA ControlStep ==
    TypeOK /\ MutexOwned /\ Roles /\ Flags /\ Blocking /\ [Next]_vars
        => MutexOwned' /\ Roles' /\ Flags'
<1> USE SizesAssumption, ThreadsAssumption DEF Threads, MaxRefusals
<1> SUFFICES ASSUME TypeOK, MutexOwned, Roles, Flags, Blocking, [Next]_vars
             PROVE  MutexOwned' /\ Roles' /\ Flags'
  OBVIOUS
<1> USE DEF TypeOK, MutexOwned, Roles, Flags, Blocking, Holding, Lock, Unlock,
   Goto
<1>1. CASE PushCall
  <2>1. MutexOwned'
    BY <1>1 DEF PushCall
  <2>2. Roles'
    BY <1>1 DEF PushCall
  <2>3. Flags'
    BY <1>1 DEF PushCall
  <2> QED BY <2>1, <2>2, <2>3
<1>2. CASE PushTest
  <2>1. MutexOwned'
    BY <1>2 DEF PushTest
  <2>2. Roles'
    BY <1>2 DEF PushTest
  <2>3. Flags'
    BY <1>2 DEF PushTest
  <2> QED BY <2>1, <2>2, <2>3
<1>3. CASE PushStore
  <2>1. MutexOwned'
    BY <1>3 DEF PushStore
  <2>2. Roles'
    BY <1>3 DEF PushStore
  <2>3. Flags'
    BY <1>3 DEF PushStore
  <2> QED BY <2>1, <2>2, <2>3
<1>4. CASE PushWait
  <2>1. MutexOwned'
    BY <1>4 DEF PushWait
  <2>2. Roles'
    BY <1>4 DEF PushWait
  <2>3. Flags'
    BY <1>4 DEF PushWait
  <2> QED BY <2>1, <2>2, <2>3
<1>5. CASE PushWake
  <2>1. MutexOwned'
    BY <1>5 DEF PushWake
  <2>2. Roles'
    BY <1>5 DEF PushWake
  <2>3. Flags'
    BY <1>5 DEF PushWake
  <2> QED BY <2>1, <2>2, <2>3
<1>6. CASE Finish
  <2>1. MutexOwned'
    BY <1>6 DEF Finish
  <2>2. Roles'
    BY <1>6 DEF Finish
  <2>3. Flags'
    BY <1>6 DEF Finish
  <2> QED BY <2>1, <2>2, <2>3
<1>7. CASE FinishNotify
  <2>1. MutexOwned'
    BY <1>7 DEF FinishNotify
  <2>2. Roles'
    BY <1>7 DEF FinishNotify
  <2>3. Flags'
    BY <1>7 DEF FinishNotify
  <2> QED BY <2>1, <2>2, <2>3
<1>8. ASSUME NEW c \in Consumers, PopCall(c)
     PROVE  MutexOwned' /\ Roles' /\ Flags'
  <2>1. MutexOwned'
    BY <1>8 DEF PopCall
  <2>2. Roles'
    BY <1>8 DEF PopCall
  <2>3. Flags'
    BY <1>8 DEF PopCall
  <2> QED BY <2>1, <2>2, <2>3
<1>9. ASSUME NEW c \in Consumers, PopTest(c)
     PROVE  MutexOwned' /\ Roles' /\ Flags'
  <2>1. MutexOwned'
    BY <1>9 DEF PopTest, PopRefuse
  <2>2. Roles'
    BY <1>9 DEF PopTest, PopRefuse
  <2>3. Flags'
    BY <1>9 DEF PopTest, PopRefuse
  <2> QED BY <2>1, <2>2, <2>3
<1>10. ASSUME NEW c \in Consumers, PopTake(c)
     PROVE  MutexOwned' /\ Roles' /\ Flags'
  <2>1. MutexOwned'
    BY <1>10 DEF PopTake
  <2>2. Roles'
    BY <1>10 DEF PopTake
  <2>3. Flags'
    BY <1>10 DEF PopTake
  <2> QED BY <2>1, <2>2, <2>3
<1>11. ASSUME NEW c \in Consumers, PopEmpty(c)
     PROVE  MutexOwned' /\ Roles' /\ Flags'
  <2>1. MutexOwned'
    BY <1>11 DEF PopEmpty, PopRefuse
  <2>2. Roles'
    BY <1>11 DEF PopEmpty, PopRefuse
  <2>3. Flags'
    BY <1>11 DEF PopEmpty, PopRefuse
  <2> QED BY <2>1, <2>2, <2>3
<1>12. ASSUME NEW c \in Consumers, PopWait(c)
     PROVE  MutexOwned' /\ Roles' /\ Flags'
  <2>1. MutexOwned'
    BY <1>12 DEF PopWait
  <2>2. Roles'
    BY <1>12 DEF PopWait
  <2>3. Flags'
    BY <1>12 DEF PopWait
  <2> QED BY <2>1, <2>2, <2>3
<1>13. ASSUME NEW c \in Consumers, PopWake(c)
     PROVE  MutexOwned' /\ Roles' /\ Flags'
  <2>1. MutexOwned'
    BY <1>13 DEF PopWake
  <2>2. Roles'
    BY <1>13 DEF PopWake
  <2>3. Flags'
    BY <1>13 DEF PopWake
  <2> QED BY <2>1, <2>2, <2>3
<1>14. ASSUME NEW t \in Threads, SpuriousWake(t)
     PROVE  MutexOwned' /\ Roles' /\ Flags'
  <2>1. MutexOwned'
    BY <1>14 DEF SpuriousWake
  <2>2. Roles'
    BY <1>14 DEF SpuriousWake
  <2>3. Flags'
    BY <1>14 DEF SpuriousWake
  <2> QED BY <2>1, <2>2, <2>3
<1>15. ASSUME NEW t \in Threads, Quit(t)
     PROVE  MutexOwned' /\ Roles' /\ Flags'
  <2>1. MutexOwned'
    BY <1>15 DEF Quit
  <2>2. Roles'
    BY <1>15 DEF Quit
  <2>3. Flags'
    BY <1>15 DEF Quit
  <2> QED BY <2>1, <2>2, <2>3
<1>16. ASSUME NEW t \in Threads, QuitNotifyEmpty(t)
     PROVE  MutexOwned' /\ Roles' /\ Flags'
  <2>1. MutexOwned'
    BY <1>16 DEF QuitNotifyEmpty
  <2>2. Roles'
    BY <1>16 DEF QuitNotifyEmpty
  <2>3. Flags'
    BY <1>16 DEF QuitNotifyEmpty
  <2> QED BY <2>1, <2>2, <2>3
<1>17. ASSUME NEW t \in Threads, QuitNotifyFull(t)
     PROVE  MutexOwned' /\ Roles' /\ Flags'
  <2>1. MutexOwned'
    BY <1>17 DEF QuitNotifyFull
  <2>2. Roles'
    BY <1>17 DEF QuitNotifyFull
  <2>3. Flags'
    BY <1>17 DEF QuitNotifyFull
  <2> QED BY <2>1, <2>2, <2>3
<1>18. CASE UNCHANGED vars
  BY <1>18 DEF vars
<1> QED
  BY <1>1, <1>2, <1>3, <1>4, <1>5, <1>6, <1>7, <1>8, <1>9, <1>10, <1>11,
     <1>12, <1>13, <1>14, <1>15, <1>16, <1>17, <1>18
  DEF Next, PushStep, PopStep, QuitStep

(* The items, the wait sets and the end of the stream.                     *)
LEMMA DataStep ==
    TypeOK /\ TypeOK' /\ MutexOwned /\ Roles /\ Flags /\ Blocking /\ Behind
       /\ Fifo /\ NoSleepOnData /\ EndMeansDrained /\ [Next]_vars
        => Blocking' /\ Behind' /\ Fifo' /\ NoSleepOnData' /\ EndMeansDrained'
<1> USE SizesAssumption, ThreadsAssumption DEF Threads, MaxRefusals
<1> SUFFICES ASSUME TypeOK, TypeOK', MutexOwned, Roles, Flags, Blocking,
                    Behind, Fifo, NoSleepOnData, EndMeansDrained, [Next]_vars
             PROVE  Blocking' /\ Behind' /\ Fifo' /\
                NoSleepOnData' /\ EndMeansDrained'
  OBVIOUS
<1> USE DEF TypeOK, MutexOwned, Roles, Flags, Blocking, Behind, Accepted, Fifo,
            NoSleepOnData, EndMeansDrained, Holding, Lock, Unlock, Goto
<1>1. CASE PushCall
  <2>1. Blocking'
    BY <1>1 DEF PushCall
  <2>2. Behind'
    BY <1>1 DEF PushCall
  <2>3. Fifo'
    BY <1>1 DEF PushCall
  <2>4. NoSleepOnData'
    BY <1>1 DEF PushCall
  <2>5. EndMeansDrained'
    BY <1>1 DEF PushCall
  <2> QED BY <2>1, <2>2, <2>3, <2>4, <2>5
<1>2. CASE PushTest
  <2>1. Blocking'
    BY <1>2 DEF PushTest
  <2>2. Behind'
    BY <1>2 DEF PushTest
  <2>3. Fifo'
    BY <1>2 DEF PushTest
  <2>4. NoSleepOnData'
    BY <1>2 DEF PushTest
  <2>5. EndMeansDrained'
    BY <1>2 DEF PushTest
  <2> QED BY <2>1, <2>2, <2>3, <2>4, <2>5
<1>3. CASE PushStore
  <2>1. Blocking'
    BY <1>3 DEF PushStore
  <2>2. Behind'
    BY <1>3 DEF PushStore
  <2>3. Fifo'
    BY <1>3, FifoStore
  <2>4. NoSleepOnData'
    BY <1>3 DEF PushStore
  <2>5. EndMeansDrained'
    BY <1>3 DEF PushStore
  <2> QED BY <2>1, <2>2, <2>3, <2>4, <2>5
<1>4. CASE PushWait
  <2>1. Blocking'
    BY <1>4 DEF PushWait
  <2>2. Behind'
    BY <1>4 DEF PushWait
  <2>3. Fifo'
    BY <1>4 DEF PushWait
  <2>4. NoSleepOnData'
    BY <1>4 DEF PushWait
  <2>5. EndMeansDrained'
    BY <1>4 DEF PushWait
  <2> QED BY <2>1, <2>2, <2>3, <2>4, <2>5
<1>5. CASE PushWake
  <2>1. Blocking'
    BY <1>5 DEF PushWake
  <2>2. Behind'
    BY <1>5 DEF PushWake
  <2>3. Fifo'
    BY <1>5 DEF PushWake
  <2>4. NoSleepOnData'
    BY <1>5 DEF PushWake
  <2>5. EndMeansDrained'
    BY <1>5 DEF PushWake
  <2> QED BY <2>1, <2>2, <2>3, <2>4, <2>5
<1>6. CASE Finish
  <2>1. Blocking'
    BY <1>6 DEF Finish
  <2>2. Behind'
    BY <1>6 DEF Finish
  <2>3. Fifo'
    BY <1>6 DEF Finish
  <2>4. NoSleepOnData'
    BY <1>6 DEF Finish
  <2>5. EndMeansDrained'
    BY <1>6 DEF Finish
  <2> QED BY <2>1, <2>2, <2>3, <2>4, <2>5
<1>7. CASE FinishNotify
  <2>1. Blocking'
    BY <1>7 DEF FinishNotify
  <2>2. Behind'
    BY <1>7 DEF FinishNotify
  <2>3. Fifo'
    BY <1>7 DEF FinishNotify
  <2>4. NoSleepOnData'
    BY <1>7 DEF FinishNotify
  <2>5. EndMeansDrained'
    BY <1>7 DEF FinishNotify
  <2> QED BY <2>1, <2>2, <2>3, <2>4, <2>5
<1>8. ASSUME NEW c \in Consumers, PopCall(c)
     PROVE  Blocking' /\ Behind' /\ Fifo' /\ NoSleepOnData' /\ EndMeansDrained'
  <2>1. Blocking'
    BY <1>8 DEF PopCall
  <2>2. Behind'
    BY <1>8 DEF PopCall
  <2>3. Fifo'
    BY <1>8 DEF PopCall
  <2>4. NoSleepOnData'
    BY <1>8 DEF PopCall
  <2>5. EndMeansDrained'
    BY <1>8 DEF PopCall
  <2> QED BY <2>1, <2>2, <2>3, <2>4, <2>5
<1>9. ASSUME NEW c \in Consumers, PopTest(c)
     PROVE  Blocking' /\ Behind' /\ Fifo' /\ NoSleepOnData' /\ EndMeansDrained'
  <2>1. Blocking'
    BY <1>9 DEF PopTest, PopRefuse
  <2>2. Behind'
    BY <1>9 DEF PopTest, PopRefuse
  <2>3. Fifo'
    BY <1>9 DEF PopTest, PopRefuse
  <2>4. NoSleepOnData'
    BY <1>9 DEF PopTest, PopRefuse
  <2>5. EndMeansDrained'
    BY <1>9 DEF PopTest, PopRefuse
  <2> QED BY <2>1, <2>2, <2>3, <2>4, <2>5
<1>10. ASSUME NEW c \in Consumers, PopTake(c)
     PROVE  Blocking' /\ Behind' /\ Fifo' /\ NoSleepOnData' /\ EndMeansDrained'
  <2>1. Blocking'
    BY <1>10 DEF PopTake
  <2>2. Behind'
    BY <1>10 DEF PopTake
  <2>3. Fifo'
    BY <1>10, FifoTake
  <2>4. NoSleepOnData'
    BY <1>10 DEF PopTake
  <2>5. EndMeansDrained'
    BY <1>10 DEF PopTake
  <2> QED BY <2>1, <2>2, <2>3, <2>4, <2>5
<1>11. ASSUME NEW c \in Consumers, PopEmpty(c)
     PROVE  Blocking' /\ Behind' /\ Fifo' /\ NoSleepOnData' /\ EndMeansDrained'
  <2>1. Blocking'
    BY <1>11 DEF PopEmpty, PopRefuse
  <2>2. Behind'
    BY <1>11 DEF PopEmpty, PopRefuse
  <2>3. Fifo'
    BY <1>11 DEF PopEmpty, PopRefuse
  <2>4. NoSleepOnData'
    BY <1>11 DEF PopEmpty, PopRefuse
  <2>5. EndMeansDrained'
    BY <1>11 DEF PopEmpty, PopRefuse
  <2> QED BY <2>1, <2>2, <2>3, <2>4, <2>5
<1>12. ASSUME NEW c \in Consumers, PopWait(c)
     PROVE  Blocking' /\ Behind' /\ Fifo' /\ NoSleepOnData' /\ EndMeansDrained'
  <2>1. Blocking'
    BY <1>12 DEF PopWait
  <2>2. Behind'
    BY <1>12 DEF PopWait
  <2>3. Fifo'
    BY <1>12 DEF PopWait
  <2>4. NoSleepOnData'
    BY <1>12 DEF PopWait
  <2>5. EndMeansDrained'
    BY <1>12 DEF PopWait
  <2> QED BY <2>1, <2>2, <2>3, <2>4, <2>5
<1>13. ASSUME NEW c \in Consumers, PopWake(c)
     PROVE  Blocking' /\ Behind' /\ Fifo' /\ NoSleepOnData' /\ EndMeansDrained'
  <2>1. Blocking'
    BY <1>13 DEF PopWake
  <2>2. Behind'
    BY <1>13 DEF PopWake
  <2>3. Fifo'
    BY <1>13 DEF PopWake
  <2>4. NoSleepOnData'
    BY <1>13 DEF PopWake
  <2>5. EndMeansDrained'
    BY <1>13 DEF PopWake
  <2> QED BY <2>1, <2>2, <2>3, <2>4, <2>5
<1>14. ASSUME NEW t \in Threads, SpuriousWake(t)
     PROVE  Blocking' /\ Behind' /\ Fifo' /\ NoSleepOnData' /\ EndMeansDrained'
  <2>1. Blocking'
    BY <1>14 DEF SpuriousWake
  <2>2. Behind'
    BY <1>14 DEF SpuriousWake
  <2>3. Fifo'
    BY <1>14 DEF SpuriousWake
  <2>4. NoSleepOnData'
    BY <1>14 DEF SpuriousWake
  <2>5. EndMeansDrained'
    BY <1>14 DEF SpuriousWake
  <2> QED BY <2>1, <2>2, <2>3, <2>4, <2>5
<1>15. ASSUME NEW t \in Threads, Quit(t)
     PROVE  Blocking' /\ Behind' /\ Fifo' /\ NoSleepOnData' /\ EndMeansDrained'
  <2>1. Blocking'
    BY <1>15 DEF Quit
  <2>2. Behind'
    BY <1>15 DEF Quit
  <2>3. Fifo'
    BY <1>15 DEF Quit
  <2>4. NoSleepOnData'
    BY <1>15 DEF Quit
  <2>5. EndMeansDrained'
    BY <1>15 DEF Quit
  <2> QED BY <2>1, <2>2, <2>3, <2>4, <2>5
<1>16. ASSUME NEW t \in Threads, QuitNotifyEmpty(t)
     PROVE  Blocking' /\ Behind' /\ Fifo' /\ NoSleepOnData' /\ EndMeansDrained'
  <2>1. Blocking'
    BY <1>16 DEF QuitNotifyEmpty
  <2>2. Behind'
    BY <1>16 DEF QuitNotifyEmpty
  <2>3. Fifo'
    BY <1>16 DEF QuitNotifyEmpty
  <2>4. NoSleepOnData'
    BY <1>16 DEF QuitNotifyEmpty
  <2>5. EndMeansDrained'
    BY <1>16 DEF QuitNotifyEmpty
  <2> QED BY <2>1, <2>2, <2>3, <2>4, <2>5
<1>17. ASSUME NEW t \in Threads, QuitNotifyFull(t)
     PROVE  Blocking' /\ Behind' /\ Fifo' /\ NoSleepOnData' /\ EndMeansDrained'
  <2>1. Blocking'
    BY <1>17 DEF QuitNotifyFull
  <2>2. Behind'
    BY <1>17 DEF QuitNotifyFull
  <2>3. Fifo'
    BY <1>17 DEF QuitNotifyFull
  <2>4. NoSleepOnData'
    BY <1>17 DEF QuitNotifyFull
  <2>5. EndMeansDrained'
    BY <1>17 DEF QuitNotifyFull
  <2> QED BY <2>1, <2>2, <2>3, <2>4, <2>5
<1>18. CASE UNCHANGED vars
  BY <1>18 DEF vars
<1> QED
  BY <1>1, <1>2, <1>3, <1>4, <1>5, <1>6, <1>7, <1>8, <1>9, <1>10, <1>11,
     <1>12, <1>13, <1>14, <1>15, <1>16, <1>17, <1>18
  DEF Next, PushStep, PopStep, QuitStep

-----------------------------------------------------------------------------
LEMMA InitInv == Init => IInv
<1> USE SizesAssumption, ThreadsAssumption DEF Threads
<1> SUFFICES ASSUME Init PROVE IInv
  OBVIOUS
<1>1. TypeOK
  BY InitType
<1>2. MutexOwned /\ Roles /\ Flags /\ Blocking
  BY DEF Init, MutexOwned, Holding, Roles, Flags, Blocking
<1>3. Behind /\ Fifo /\ NoSleepOnData /\ EndMeansDrained
  BY DEF Init, Behind, Fifo, NoSleepOnData, EndMeansDrained
<1> QED BY <1>1, <1>2, <1>3 DEF IInv

(* The inductive invariant holds in every reachable state.                 *)
THEOREM InductiveInvariant == Spec => []IInv
<1>1. IInv /\ TypeOK' /\ [Next]_vars => IInv'
  BY ControlStep, DataStep DEF IInv
<1> QED BY InitInv, TypeCorrect, <1>1, PTL DEF Spec

(* Items leave in the order in which they were pushed, none lost and none  *)
(* twice, for any number of consumers.                                     *)
THEOREM FifoCorrect == Spec => []Fifo
<1>1. IInv => Fifo
  BY DEF IInv
<1> QED BY InductiveInvariant, <1>1, PTL

(* No thread sleeps on a condition that already holds.                     *)
THEOREM NoSleepCorrect == Spec => []NoSleepOnData
<1>1. IInv => NoSleepOnData
  BY DEF IInv
<1> QED BY InductiveInvariant, <1>1, PTL

(* A pop that fails before any quit has seen the whole stream.             *)
THEOREM EndCorrect == Spec => []EndMeansDrained
<1>1. IInv => EndMeansDrained
  BY DEF IInv
<1> QED BY InductiveInvariant, <1>1, PTL

(* The queue with its mutex, condition variables and flags does what the   *)
(* first-in first-out channel of FifoChannel promises.                     *)
THEOREM Refinement == Spec => ImplementsChannel
<1> USE SizesAssumption, ThreadsAssumption DEF Threads
<1>1. Init => Channel!Init
  BY DEF Init, Channel!Init
<1>2. IInv /\ [Next]_vars => [Channel!Next]_(Channel!channelVars)
  <2> SUFFICES ASSUME IInv, [Next]_vars
               PROVE  Channel!Next \/ UNCHANGED Channel!channelVars
    OBVIOUS
  <2> USE DEF Lock, Unlock, Goto, Channel!channelVars
  <2>0. TypeOK /\ Roles /\ Flags /\ Behind /\ Fifo /\ EndMeansDrained
    BY DEF IInv
  <2>1. CASE PushCall
    <3>1. Channel!Offer
      BY <2>0, <2>1 DEF PushCall, Channel!Offer, Flags
    <3> QED BY <3>1 DEF Channel!Next
  <2>2. CASE PushTest \/ PushWait \/ PushWake
    BY <2>2 DEF PushTest, PushWait, PushWake
  <2>3. CASE PushStore
    <3>1. Channel!Accept
      BY <2>0, <2>3 DEF PushStore, Channel!Accept, Flags, Behind,
         Accepted, TypeOK
    <3> QED BY <3>1 DEF Channel!Next
  <2>4. CASE Finish
    BY <2>4 DEF Finish, Channel!Next, Channel!Close
  <2>5. CASE FinishNotify
    BY <2>5 DEF FinishNotify
  <2>6. ASSUME NEW c \in Consumers, PopCall(c) \/ PopWait(c) \/ PopWake(c)
        PROVE  UNCHANGED Channel!channelVars
    BY <2>6 DEF PopCall, PopWait, PopWake
  <2>7. ASSUME NEW c \in Consumers, PopTest(c) \/ PopEmpty(c)
        PROVE  Channel!End \/ UNCHANGED Channel!channelVars
    <3>1. CASE PopRefuse(c)
      <4>1. quit \/ (finished /\ Len(taken) = offered)
        <5>1. CASE PopTest(c)
          BY <3>1, <5>1 DEF PopTest, PopRefuse, TypeOK
        <5>2. CASE PopEmpty(c) /\ ~quit
          <6>1. finished /\ Len(queue) = 0
            BY <3>1, <5>2 DEF PopEmpty, PopRefuse
          <6>2. pc[Producer] \in {"finish_notify", "closed"}
            BY <2>0, <5>2, <6>1 DEF Flags
          <6>3. Len(taken) + Len(queue) = offered
            BY <2>0, <5>2, <6>2 DEF Fifo
          <6> QED BY <2>0, <6>1, <6>3, SeqOfNumbers
        <5> QED BY <2>7, <5>1, <5>2
      <4>2. \E d \in Consumers : refused'[d] > 0
        BY <2>0, <3>1 DEF PopRefuse, TypeOK
      <4>3. UNCHANGED <<queue, offered, taken, finished, quit>>
        BY <2>7 DEF PopTest, PopEmpty
      <4> QED BY <4>1, <4>2, <4>3 DEF Channel!End
    <3>2. CASE UNCHANGED <<mutex, refused>>
      BY <2>7, <3>2 DEF PopTest, PopEmpty
    <3> QED BY <2>7, <3>1, <3>2 DEF PopTest, PopEmpty
  <2>8. ASSUME NEW c \in Consumers, PopTake(c)
        PROVE  Channel!Deliver
    <3>1. /\ queue # <<>> /\ queue' = Tail(queue)
          /\ taken' = Append(taken, Head(queue))
          /\ UNCHANGED <<offered, finished, quit, refused>>
      BY <2>8 DEF PopTake
    <3>2. Len(taken') = Len(taken) + 1
      BY <2>0, <3>1 DEF TypeOK
    <3>3. Head(queue) = Len(taken) + 1
      <4>1. /\ queue \in Seq(Int) /\ Len(taken) \in Int
            /\ \A i \in 1..Len(queue) : queue[i] = Len(taken) + i
        BY <2>0, SeqOfNumbers DEF Fifo
      <4> QED BY <3>1, <4>1, TailRun
    <3> QED BY <3>1, <3>2, <3>3 DEF Channel!Deliver
  <2>9. ASSUME NEW t \in Threads, SpuriousWake(t) \/ QuitStep(t)
        PROVE  UNCHANGED Channel!channelVars
    BY <2>9 DEF SpuriousWake, QuitStep, QuitNotifyEmpty, QuitNotifyFull
  <2>10. ASSUME NEW t \in Threads, Quit(t)
         PROVE  Channel!Break
    BY <2>10 DEF Quit, Channel!Break
  <2>11. CASE UNCHANGED vars
    BY <2>11 DEF vars
  <2> QED
    BY <2>1, <2>2, <2>3, <2>4, <2>5, <2>6, <2>7, <2>8, <2>9, <2>10, <2>11
    DEF Next, PushStep, PopStep, Channel!Next
<1> QED
  BY <1>1, <1>2, InductiveInvariant, PTL DEF Spec, ImplementsChannel,
     Channel!Spec
=============================================================================
