---------------------------- MODULE ServerProofs ----------------------------
(***************************************************************************)
(* The streaming server.                                                   *)
(*                                                                         *)
(* ReferencesExact and NotLeaked of MediaSessions, for any number of       *)
(* objects, client sessions, tracks and calls under way.  The proof has    *)
(* two halves.  Good says of the objects what does not need the users of   *)
(* an object, only whether its count is 0; the operators on objects keep   *)
(* it (Removing ... Releasing).  Counted ties the counts to the client     *)
(* sessions and calls that use an object; it is about sets that gain or    *)
(* lose one element.                                                       *)
(*                                                                         *)
(* SelectSeesAll of TaskScheduler, for any number of sockets and any size  *)
(* of the sets.                                                            *)
(*                                                                         *)
(* ListInOrder of RtpReordering, for any streams, first numbers and range  *)
(* of the numbers.                                                         *)
(*                                                                         *)
(* DeltasAddUp, NotEarly and SleepsUntilDue of DelayQueue, and that it     *)
(* implements Timers, for any delays and settings of the time of day.      *)
(***************************************************************************)
EXTENDS MediaSessions, TaskScheduler, RtpReordering, DelayQueue,
        FiniteSetTheorems, WellFoundedInduction, TLAPS

Objects == [table : Media \cup {None}, alive : SUBSET Media,
            references : [Media -> Nat], deleteWhen : SUBSET Media,
            pushedOut : SUBSET Media, strays : SUBSET Media]

(* What is referred to is alive; what is out of the table is referred to   *)
(* and will be deleted, unless it was pushed out.                          *)
Good(o) ==
    /\ o \in Objects
    /\ o.table \in o.alive \cup {None}
    /\ \A m \in Media : o.references[m] # 0 => m \in o.alive
    /\ \A m \in o.alive \ ({o.table} \cup o.pushedOut) :
         o.references[m] # 0 /\ m \in o.deleteWhen

NumSessions(m) == Cardinality(SessionsOf(m))
NumCalls(m) == Cardinality(CallsOf(m))
Count(m) == NumSessions(m) + NumCalls(m)
StraysIn(o, m) == IF m \in o.strays THEN 1 ELSE 0
CountedIn(o) ==
    \A m \in Media : o.references[m] = Count(m) + StraysIn(o, m)
Counted == CountedIn(objects)

(* The types of the rest.                                                  *)
SessionTypes ==
    /\ fileExists \in BOOLEAN
    /\ clientSessions \subseteq Sessions
    /\ media \in [Sessions -> Media \cup {None}]
    /\ streams \in [Sessions -> 0..NumTracks]
    /\ \A s \in Sessions : media[s] # None => streams[s] # 0
    /\ idle \in [Sessions -> 0..fReclamationSeconds]
    /\ calls \in Seq(Calls) /\ Len(calls) <= MaxNested

IInv == Good(objects) /\ Counted /\ SessionTypes

-----------------------------------------------------------------------------
(* The objects                                                             *)

(* The effect of removeServerMediaSession, field by field.                 *)
LEMMA RemoveEffect ==
    ASSUME NEW o \in Objects, NEW m \in Media
    PROVE  LET r == removeServerMediaSession(o, m) IN
           /\ r \in Objects
           /\ r.table = None
           /\ r.references = o.references
           /\ r.alive = IF o.references[m] = 0 THEN o.alive \ {m} ELSE o.alive
           /\ r.deleteWhen = IF o.references[m] = 0 THEN o.deleteWhen \ {m}
                             ELSE o.deleteWhen \cup {m}
           /\ r.pushedOut = o.pushedOut \cup ({o.table} \ {m, None})
           /\ r.strays = o.strays
  BY MediaAssumption DEF Objects, removeServerMediaSession

(* What is removed is the object of the table, or is used no more.         *)
LEMMA Removing ==
    ASSUME NEW o, Good(o), NEW m \in Media \cup {None},
           m = o.table \/ m = None \/ o.references[m] = 0
    PROVE  LET r == removeServerMediaSession(o, m) IN
           /\ Good(r)
           /\ r.references = o.references /\ r.strays = o.strays
           /\ m = o.table => r.table = None
           /\ r.pushedOut \subseteq o.pushedOut \cup {o.table}
<1>1. CASE m = None
  BY <1>1 DEF removeServerMediaSession, Good
<1>2. CASE m # None
  <2> DEFINE r == removeServerMediaSession(o, m)
  <2>1. /\ r \in Objects
        /\ r.table = None
        /\ r.references = o.references
        /\ r.alive = IF o.references[m] = 0 THEN o.alive \ {m} ELSE o.alive
        /\ r.deleteWhen = IF o.references[m] = 0 THEN o.deleteWhen \ {m}
                          ELSE o.deleteWhen \cup {m}
        /\ r.pushedOut = o.pushedOut \cup ({o.table} \ {m, None})
        /\ r.strays = o.strays
    BY <1>2, RemoveEffect DEF Good
  <2> HIDE DEF r
  <2>2. Good(r)
    BY <1>2, <2>1, MediaAssumption DEF Good, Objects
  <2> QED BY <2>1, <2>2 DEF r
<1> QED BY <1>1, <1>2

(* A new object takes the place of the one in the table.                   *)
LEMMA Adding ==
    ASSUME NEW o, Good(o), NEW m \in Media
    PROVE  LET a == addServerMediaSession(o, m) IN
           /\ Good(a) /\ a.table = m
           /\ a.references = [o.references EXCEPT ![m] = 0]
           /\ a.strays = o.strays \ {m}
<1> DEFINE r == removeServerMediaSession(o, o.table)
           a == addServerMediaSession(o, m)
<1>1. Good(r) /\ r.references = o.references /\ r.strays = o.strays
  BY Removing DEF Good, Objects
<1>2. a = [r EXCEPT !.table = m, !.alive = @ \cup {m}, !.references[m] = 0,
                    !.deleteWhen = @ \ {m}, !.pushedOut = @ \ {m},
                    !.strays = @ \ {m}]
  BY DEF addServerMediaSession
<1> HIDE DEF r, a
<1>3. /\ a \in Objects /\ a.table = m
      /\ a.alive = r.alive \cup {m}
      /\ a.references = [r.references EXCEPT ![m] = 0]
      /\ a.deleteWhen = r.deleteWhen \ {m} /\ a.pushedOut = r.pushedOut \ {m}
      /\ a.strays = r.strays \ {m}
  BY <1>1, <1>2 DEF Good, Objects
<1>4. r.table = None
  BY Removing DEF Good, Objects, r
<1>5. Good(a)
  BY <1>1, <1>3, <1>4, MediaAssumption DEF Good, Objects
<1> QED BY <1>1, <1>3, <1>5 DEF a

(* Somebody begins to use an object that is alive.                         *)
LEMMA Incrementing ==
    ASSUME NEW o, Good(o), NEW m \in Media, m \in o.alive
    PROVE  LET r == incrementReferenceCount(o, m) IN
           /\ Good(r)
           /\ r.references = [o.references EXCEPT ![m] = @ + 1]
           /\ r.table = o.table /\ r.strays = o.strays
<1> DEFINE r == incrementReferenceCount(o, m)
<1>1. /\ r \in Objects
      /\ r.references = [o.references EXCEPT ![m] = @ + 1]
      /\ r.table = o.table /\ r.alive = o.alive
      /\ r.deleteWhen = o.deleteWhen /\ r.pushedOut = o.pushedOut
      /\ r.strays = o.strays
  BY DEF incrementReferenceCount, Good, Objects
<1> HIDE DEF r
<1>2. Good(r)
  BY <1>1 DEF Good, Objects
<1> QED BY <1>1, <1>2 DEF r

(* Somebody stops to use an object: if nobody else uses it, and it is not  *)
(* the one in the table, it is deleted.                                    *)
LEMMA Releasing ==
    ASSUME NEW o, Good(o), NEW m \in Media, o.references[m] # 0
    PROVE  LET r == Release(o, m) IN
           /\ Good(r)
           /\ r.references = [o.references EXCEPT ![m] = @ - 1]
           /\ r.strays = o.strays
<1> DEFINE less == [o EXCEPT !.references[m] = @ - 1]
           r == Release(o, m)
<1>1. /\ less \in Objects
      /\ less.references = [o.references EXCEPT ![m] = @ - 1]
      /\ less.table = o.table /\ less.alive = o.alive
      /\ less.deleteWhen = o.deleteWhen /\ less.pushedOut = o.pushedOut
      /\ less.strays = o.strays
  BY DEF Good, Objects
<1>2. r = IF less.references[m] = 0 /\ m \in o.deleteWhen
          THEN removeServerMediaSession(less, m) ELSE less
  BY MediaAssumption DEF Release
<1> HIDE DEF less, r
<1>3. CASE less.references[m] = 0 /\ m \in o.deleteWhen
  <2> DEFINE q == removeServerMediaSession(less, m)
  <2>1. /\ q \in Objects
        /\ q.table = None
        /\ q.references = less.references
        /\ q.alive = less.alive \ {m}
        /\ q.deleteWhen = less.deleteWhen \ {m}
        /\ q.pushedOut = less.pushedOut \cup ({less.table} \ {m, None})
        /\ q.strays = less.strays
    BY <1>1, <1>3, RemoveEffect
  <2> HIDE DEF q
  <2>2. Good(q)
    BY <1>1, <1>3, <2>1, MediaAssumption DEF Good, Objects
  <2>3. r = q
    BY <1>2, <1>3 DEF q
  <2> QED BY <1>1, <2>1, <2>2, <2>3 DEF r
<1>4. CASE ~(less.references[m] = 0 /\ m \in o.deleteWhen)
  <2>1. r = less
    BY <1>2, <1>4
  <2>2. \A n \in less.alive \ ({less.table} \cup less.pushedOut) :
            less.references[n] # 0 /\ n \in less.deleteWhen
    BY <1>1, <1>4 DEF Good, Objects
  <2>3. Good(less)
    BY <1>1, <2>2 DEF Good, Objects
  <2> QED BY <1>1, <2>1, <2>3 DEF r
<1> QED BY <1>3, <1>4

-----------------------------------------------------------------------------
(* The users                                                               *)

(* Both sets of users are finite.                                          *)
LEMMA FiniteUsers ==
    ASSUME SessionTypes, NEW m
    PROVE  IsFiniteSet(SessionsOf(m)) /\ IsFiniteSet(CallsOf(m))
<1>1. IsFiniteSet(SessionsOf(m))
  BY MediaAssumption, FS_Subset DEF SessionsOf
<1>2. DOMAIN calls = 1..Len(calls) /\ Len(calls) \in Nat
  BY DEF SessionTypes
<1>3. IsFiniteSet(DOMAIN calls)
  BY <1>2, FS_Interval
<1>4. CallsOf(m) \in SUBSET DOMAIN calls
  BY DEF CallsOf
<1>5. IsFiniteSet(CallsOf(m))
  BY <1>3, <1>4, FS_Subset
<1> QED BY <1>1, <1>5

(* The counts are numbers, and 0 exactly for what nobody uses.             *)
LEMMA CountType ==
    ASSUME SessionTypes, NEW m
    PROVE  /\ NumSessions(m) \in Nat /\ NumCalls(m) \in Nat
           /\ Count(m) # 0 <=> Used(m)
<1>1. IsFiniteSet(SessionsOf(m)) /\ IsFiniteSet(CallsOf(m))
  BY FiniteUsers
<1>2. /\ NumSessions(m) \in Nat /\ NumCalls(m) \in Nat
      /\ NumSessions(m) = 0 <=> SessionsOf(m) = {}
      /\ NumCalls(m) = 0 <=> CallsOf(m) = {}
  BY <1>1, FS_CardinalityType, FS_EmptySet DEF NumSessions, NumCalls
<1> QED BY <1>2 DEF Count, Used

(* What is in use has a count.                                             *)
LEMMA UsedIsCounted ==
    ASSUME IInv, NEW m \in Media, Used(m) PROVE objects.references[m] # 0
<1>1. Count(m) \in Nat /\ Count(m) # 0
  BY CountType DEF IInv, Count
<1> QED BY <1>1 DEF IInv, Counted, CountedIn, StraysIn

(* A session that begins to use an object.                                 *)
LEMMA SessionBegins ==
    ASSUME SessionTypes, NEW s \in Sessions, NEW m \in Media,
           media[s] = None, media' = [media EXCEPT ![s] = m]
    PROVE  \A n \in Media :
              NumSessions(n)' = IF n = m THEN NumSessions(n) + 1
                                ELSE NumSessions(n)
<1> TAKE n \in Media
<1>1. SessionsOf(n)' = IF n = m THEN SessionsOf(n) \cup {s}
                       ELSE SessionsOf(n)
  BY MediaAssumption DEF SessionsOf, SessionTypes
<1>2. s \notin SessionsOf(m)
  BY MediaAssumption DEF SessionsOf
<1> QED BY <1>1, <1>2, FiniteUsers, FS_AddElement DEF NumSessions

(* A session that is deleted.                                              *)
LEMMA SessionEnds ==
    ASSUME SessionTypes, NEW s \in Sessions,
           media' = [media EXCEPT ![s] = None]
    PROVE  \A n \in Media :
              NumSessions(n)' = IF n = media[s] THEN NumSessions(n) - 1
                                ELSE NumSessions(n)
<1> TAKE n \in Media
<1>1. SessionsOf(n)' = IF n = media[s] THEN SessionsOf(n) \ {s}
                       ELSE SessionsOf(n)
  BY MediaAssumption DEF SessionsOf, SessionTypes
<1>2. n = media[s] => s \in SessionsOf(n)
  BY DEF SessionsOf
<1> QED BY <1>1, <1>2, FiniteUsers, FS_RemoveElement DEF NumSessions

(* A call that begins uses its object, if it has one.                      *)
LEMMA CallBegins ==
    ASSUME SessionTypes, NEW c \in Calls, calls' = Append(calls, c)
    PROVE  \A n \in Media : NumCalls(n)' = IF n = c.object THEN NumCalls(n) + 1
                                           ELSE NumCalls(n)
<1> TAKE n \in Media
<1> DEFINE i == Len(calls) + 1
<1>1. i \notin DOMAIN calls /\ DOMAIN calls' = DOMAIN calls \cup {i}
  BY DEF SessionTypes
<1>2. calls'[i] = c /\ \A j \in DOMAIN calls : calls'[j] = calls[j]
  BY DEF SessionTypes
<1>3. CallsOf(n)' = IF n = c.object THEN CallsOf(n) \cup {i} ELSE CallsOf(n)
  BY <1>1, <1>2 DEF CallsOf
<1>4. i \notin CallsOf(n)
  BY <1>1 DEF CallsOf
<1> QED BY <1>3, <1>4, FiniteUsers, FS_AddElement DEF NumCalls

(* The call on top, and what is below it.                                  *)
LEMMA TopAndBelow ==
    ASSUME SessionTypes, calls # <<>>
    PROVE  /\ Top \in Calls
           /\ Below \in Seq(Calls) /\ Len(Below) = Len(calls) - 1
           /\ Len(calls) \in DOMAIN calls /\ calls[Len(calls)] = Top
           /\ DOMAIN Below = DOMAIN calls \ {Len(calls)}
           /\ \A j \in DOMAIN Below : Below[j] = calls[j]
<1> DEFINE n == Len(calls)
<1>1. calls \in Seq(Calls) /\ n \in Nat \ {0}
  BY DEF SessionTypes
<1>2. Top \in Calls
  BY <1>1 DEF Top
<1>3. /\ Below \in Seq(Calls) /\ Len(Below) = n - 1
      /\ \A j \in 1..(n - 1) : Below[j] = calls[j]
  BY <1>1 DEF Below
<1>4. DOMAIN Below = 1..(n - 1) /\ DOMAIN calls = 1..n
  BY <1>1, <1>3
<1>5. calls[n] = Top
  BY DEF Top
<1> HIDE DEF n
<1> QED BY <1>1, <1>2, <1>3, <1>4, <1>5 DEF n

(* A call that returns uses its object no more.                            *)
LEMMA CallEnds ==
    ASSUME SessionTypes, calls # <<>>, calls' = Below
    PROVE  \A n \in Media :
              NumCalls(n)' = IF n = Top.object THEN NumCalls(n) - 1
                             ELSE NumCalls(n)
<1> TAKE n \in Media
<1>1. CallsOf(n)' = IF n = Top.object THEN CallsOf(n) \ {Len(calls)}
                    ELSE CallsOf(n)
  BY TopAndBelow DEF CallsOf
<1>2. n = Top.object => Len(calls) \in CallsOf(n)
  BY TopAndBelow DEF CallsOf
<1> QED BY <1>1, <1>2, FiniteUsers, FS_RemoveElement DEF NumCalls

(* A call that goes on with an object it did not have before.              *)
LEMMA CallGoesOn ==
    ASSUME SessionTypes, calls # <<>>, Top.object = None, NEW c \in Calls,
           calls' = Append(Below, c)
    PROVE  \A n \in Media : NumCalls(n)' = IF n = c.object THEN NumCalls(n) + 1
                                           ELSE NumCalls(n)
<1> TAKE n \in Media
<1> DEFINE i == Len(calls)
<1>1. DOMAIN calls' = DOMAIN calls /\ i \in DOMAIN calls /\ calls'[i] = c
      /\ \A j \in DOMAIN calls \ {i} : calls'[j] = calls[j]
  BY TopAndBelow
<1>2. calls[i].object = None
  BY TopAndBelow
<1>3. CallsOf(n)' = IF n = c.object THEN CallsOf(n) \cup {i} ELSE CallsOf(n)
  BY <1>1, <1>2, MediaAssumption DEF CallsOf
<1>4. i \notin CallsOf(n)
  BY <1>2, MediaAssumption DEF CallsOf
<1> QED BY <1>3, <1>4, FiniteUsers, FS_AddElement DEF NumCalls

-----------------------------------------------------------------------------
(* The steps                                                               *)

(* The object of the table is removed, and nothing is used or given up.    *)
LEMMA TableRemoved ==
    ASSUME IInv, UNCHANGED media,
           objects' = removeServerMediaSession(objects, objects.table),
           \A n \in Media : NumCalls(n)' = NumCalls(n)
    PROVE  Good(objects') /\ Counted'
<1>1. /\ Good(objects') /\ objects'.references = objects.references
      /\ objects'.strays = objects.strays
  BY Removing DEF IInv, Good, Objects
<1>2. \A n \in Media : Count(n)' = Count(n)
  BY DEF Count, NumSessions, SessionsOf
<1> QED BY <1>1, <1>2 DEF IInv, Counted, CountedIn, StraysIn

LEMMA StartLookUpStep ==
    ASSUME IInv, NEW c \in Calls, c.object = None, StartLookUp(c),
           UNCHANGED media
    PROVE  /\ Good(objects') /\ Counted'
           /\ calls' \in Seq(Calls) /\ Len(calls') <= MaxNested
<1>1. calls' \in Seq(Calls) /\ Len(calls') <= MaxNested
  BY MediaAssumption DEF StartLookUp, IInv, SessionTypes
<1>2. \A n \in Media : NumCalls(n)' = NumCalls(n)
  BY CallBegins, MediaAssumption DEF StartLookUp, IInv
<1> QED BY <1>1, <1>2, TableRemoved DEF StartLookUp

LEMMA NoSuchFileStep ==
    ASSUME IInv, NoSuchFile PROVE Good(objects') /\ Counted'
<1>1. \A n \in Media : NumCalls(n)' = NumCalls(n)
  BY DEF NoSuchFile, NumCalls, CallsOf
<1> QED BY <1>1, TableRemoved DEF NoSuchFile

LEMMA DescribeRequest ==
    ASSUME IInv, handleCmd_DESCRIBE PROVE IInv'
<1>1. SessionTypes' <=> calls' \in Seq(Calls) /\ Len(calls') <= MaxNested
  BY DEF handleCmd_DESCRIBE, IInv, SessionTypes
<1>2. CASE fileExists
  <2> DEFINE c == LookUpCall("DESCRIBE", None)
  <2>1. c \in Calls /\ c.object = None
    BY DEF LookUpCall, Calls
  <2>2. StartLookUp(c)
    BY <1>2 DEF handleCmd_DESCRIBE
  <2> HIDE DEF c
  <2> QED BY <1>1, <2>1, <2>2, StartLookUpStep DEF IInv, handleCmd_DESCRIBE
<1>3. CASE ~fileExists
  BY <1>1, <1>3, NoSuchFileStep
     DEF IInv, handleCmd_DESCRIBE, NoSuchFile, SessionTypes
<1> QED BY <1>2, <1>3

(* SETUP, once the object of the file is known, when the calls that go on  *)
(* use what they used before.                                              *)
LEMMA SetUpStep ==
    ASSUME IInv, NEW s \in Sessions, NEW o, Good(o), NEW m \in Media,
           CountedIn(o), o.table = m, NEW below,
           SetUp(s, m, o, below),
           \A n \in Media : NumCalls(n)' = NumCalls(n)
    PROVE  /\ Good(objects') /\ Counted'
           /\ media' \in [Sessions -> Media \cup {None}]
           /\ streams' \in [Sessions -> 0..NumTracks]
           /\ \A t \in Sessions : media'[t] # None => streams'[t] # 0
<1>1. CASE media[s] = None
  <2>1. /\ objects' = incrementReferenceCount(o, m)
        /\ media' = [media EXCEPT ![s] = m]
        /\ streams' = [streams EXCEPT ![s] = NumTracks]
    BY <1>1 DEF SetUp
  <2>2. m \in o.alive
    BY MediaAssumption DEF Good
  <2>3. /\ Good(objects') /\ objects'.strays = o.strays
        /\ objects'.references = [o.references EXCEPT ![m] = @ + 1]
    BY <2>1, <2>2, Incrementing
  <2>4. \A n \in Media : NumSessions(n)' = IF n = m THEN NumSessions(n) + 1
                                           ELSE NumSessions(n)
    BY <1>1, <2>1, SessionBegins DEF IInv
  <2>5. \A n \in Media : NumSessions(n) \in Nat /\ NumCalls(n) \in Nat
    BY CountType DEF IInv
  <2>6. o.references \in [Media -> Nat]
    BY DEF Good, Objects
  <2>7. Counted'
    <3>1. \A n \in Media : objects'.references[n] =
             IF n = m THEN o.references[n] + 1 ELSE o.references[n]
      BY <2>3, <2>6
    <3>2. \A n \in Media :
             Count(n)' = IF n = m THEN Count(n) + 1 ELSE Count(n)
      BY <2>4, <2>5 DEF Count
    <3>3. \A n \in Media : StraysIn(objects', n) = StraysIn(o, n)
      BY <2>3 DEF StraysIn
    <3>4. \A n \in Media : Count(n) \in Nat /\ StraysIn(o, n) \in Nat
      BY <2>5 DEF Count, StraysIn
    <3> QED BY <3>1, <3>2, <3>3, <3>4 DEF Counted, CountedIn, StraysIn
  <2>8. /\ media' \in [Sessions -> Media \cup {None}]
        /\ streams' \in [Sessions -> 0..NumTracks]
        /\ \A t \in Sessions : media'[t] # None => streams'[t] # 0
    BY <2>1, MediaAssumption DEF IInv, SessionTypes
  <2> QED BY <2>3, <2>7, <2>8
<1>2. CASE media[s] # None
  <2>1. objects' = o /\ media' = media /\ streams' = streams
    BY <1>2 DEF SetUp
  <2>2. \A n \in Media : Count(n)' = Count(n)
    BY <2>1 DEF Count, NumSessions, SessionsOf
  <2>3. Counted'
    BY <2>1, <2>2 DEF Counted, CountedIn, StraysIn
  <2> QED BY <2>1, <2>3 DEF IInv, SessionTypes
<1> QED BY <1>1, <1>2

(* The same for a session that was deleted since.                          *)
LEMMA SetUpDeletedStep ==
    ASSUME IInv, NEW o, Good(o), NEW m \in Media,
           CountedIn(o), o.table = m, m \notin o.strays, NEW below,
           SetUpDeleted(m, o, below),
           \A n \in Media : NumCalls(n)' = NumCalls(n)
    PROVE  /\ Good(objects') /\ Counted'
           /\ media' \in [Sessions -> Media \cup {None}]
           /\ streams' \in [Sessions -> 0..NumTracks]
           /\ \A t \in Sessions : media'[t] # None => streams'[t] # 0
<1>1. CASE objects' = o /\ UNCHANGED <<media, streams>>
  <2>1. \A n \in Media : Count(n)' = Count(n)
    BY <1>1 DEF Count, NumSessions, SessionsOf
  <2>2. Counted'
    BY <1>1, <2>1 DEF Counted, CountedIn, StraysIn
  <2> QED BY <1>1, <2>2 DEF IInv, SessionTypes
<1>2. CASE /\ objects' = [incrementReferenceCount(o, m) EXCEPT
                            !.strays = @ \cup {m}]
           /\ UNCHANGED <<media, streams>>
  <2> DEFINE q == incrementReferenceCount(o, m)
  <2>1. m \in o.alive
    BY MediaAssumption DEF Good
  <2>2. /\ Good(q) /\ q.strays = o.strays
        /\ q.references = [o.references EXCEPT ![m] = @ + 1]
    BY <2>1, Incrementing
  <2>3. objects' = [q EXCEPT !.strays = @ \cup {m}]
    BY <1>2
  <2> HIDE DEF q
  <2>4. /\ Good(objects') /\ objects'.references = q.references
        /\ objects'.strays = o.strays \cup {m}
    BY <2>2, <2>3 DEF Good, Objects
  <2>5. \A n \in Media : /\ Count(n)' = Count(n)
                         /\ NumSessions(n) \in Nat /\ NumCalls(n) \in Nat
    BY <1>2, CountType DEF IInv, Count, NumSessions, SessionsOf
  <2>6. \A n \in Media : StraysIn(objects', n) =
                              StraysIn(o, n) + (IF n = m THEN 1 ELSE 0)
    BY <2>4 DEF StraysIn
  <2>7. \A n \in Media : objects'.references[n] =
                              o.references[n] + (IF n = m THEN 1 ELSE 0)
    BY <2>2, <2>4 DEF Good, Objects
  <2>8. \A n \in Media : Count(n) \in Nat /\ StraysIn(o, n) \in Nat
    BY <2>5 DEF Count, StraysIn
  <2>9. Counted'
    BY <2>5, <2>6, <2>7, <2>8 DEF Counted, CountedIn, StraysIn
  <2> QED BY <1>2, <2>4, <2>9 DEF IInv, SessionTypes
<1>3. CASE \E s \in clientSessions : SetUp(s, m, o, below)
  <2>1. PICK s \in clientSessions : SetUp(s, m, o, below)
    BY <1>3
  <2>2. s \in Sessions
    BY DEF IInv, SessionTypes
  <2> QED BY <2>1, <2>2, SetUpStep
<1> QED BY <1>1, <1>2, <1>3 DEF SetUpDeleted

LEMMA SetupRequest ==
    ASSUME IInv, NEW s \in Sessions, handleCmd_SETUP(s) PROVE IInv'
<1>1. /\ clientSessions' \subseteq Sessions
      /\ idle' \in [Sessions -> 0..fReclamationSeconds]
      /\ fileExists' \in BOOLEAN
  BY MediaAssumption DEF handleCmd_SETUP, IInv, SessionTypes
<1>2. CASE /\ fileExists
           /\ StartLookUp(LookUpCall("SETUP", s))
           /\ UNCHANGED <<media, streams>>
  <2> DEFINE c == LookUpCall("SETUP", s)
  <2>1. c \in Calls /\ c.object = None
    BY DEF LookUpCall, Calls
  <2>2. StartLookUp(c) /\ UNCHANGED <<media, streams>>
    BY <1>2
  <2> HIDE DEF c
  <2> QED BY <1>1, <2>1, <2>2, StartLookUpStep DEF IInv, SessionTypes
<1>3. CASE /\ objects.table # None
           /\ SetUp(s, objects.table, objects, calls)
  <2>1. objects.table \in Media
    BY <1>3 DEF IInv, Good, Objects
  <2>2. calls' = calls
    BY <1>3 DEF SetUp
  <2>3. \A n \in Media : NumCalls(n)' = NumCalls(n)
    BY <2>2 DEF NumCalls, CallsOf
  <2> QED
    BY <1>1, <1>3, <2>1, <2>2, <2>3, SetUpStep
       DEF IInv, Counted, SessionTypes
<1>4. CASE NoSuchFile
  BY <1>1, <1>4, NoSuchFileStep DEF IInv, NoSuchFile, SessionTypes
<1> QED BY <1>2, <1>3, <1>4 DEF handleCmd_SETUP

LEMMA LookUpReturnsStep ==
    ASSUME IInv, LookUpReturns PROVE IInv'
<1> DEFINE m == CHOOSE n \in Free : TRUE
           o == addServerMediaSession(objects, m)
<1>1. m \in Media /\ Count(m) = 0
  <2>1. m \in Free
    BY DEF LookUpReturns
  <2>2. /\ m \in Media
        /\ \/ objects.references[m] = Stray(m)
           \/ m \notin objects.alive
    BY <2>1 DEF Free, Lost, IInv, Good, Objects
  <2>3. Count(m) \in Nat /\ StraysIn(objects, m) \in Nat
    BY CountType DEF IInv, Count, StraysIn
  <2>4. objects.references[m] = Count(m) + StraysIn(objects, m)
    BY <2>2 DEF IInv, Counted, CountedIn
  <2>5. CASE objects.references[m] = Stray(m)
    BY <2>2, <2>3, <2>4, <2>5 DEF Stray, StraysIn
  <2>6. CASE m \notin objects.alive
    <3>1. objects.references[m] = 0
      BY <2>2, <2>6 DEF IInv, Good
    <3> QED BY <2>2, <2>3, <2>4, <3>1
  <2> QED BY <2>2, <2>5, <2>6
<1> HIDE DEF m
<1>2. Good(o) /\ CountedIn(o) /\ o.table = m /\ m \notin o.strays
  <2>1. /\ Good(o) /\ o.table = m
        /\ o.references = [objects.references EXCEPT ![m] = 0]
        /\ o.strays = objects.strays \ {m}
    BY <1>1, Adding DEF IInv
  <2>2. CountedIn(o)
    BY <1>1, <2>1 DEF IInv, Good, Objects, Counted, CountedIn, StraysIn
  <2> QED BY <2>1, <2>2
<1>3. /\ calls # <<>> /\ Top.step = "look up" /\ fileExists' = fileExists
      /\ \/ Top.request = "DESCRIBE" /\ Describe(m, o, Below)
         \/ /\ Top.request # "DESCRIBE"
            /\ \/ Top.session # None /\ SetUp(Top.session, m, o, Below)
               \/ Top.session = None /\ SetUpDeleted(m, o, Below)
            /\ UNCHANGED <<clientSessions, idle>>
  BY DEF LookUpReturns, m
<1> HIDE DEF o
<1>4. /\ Top \in Calls /\ Below \in Seq(Calls) /\ Len(Below) = Len(calls) - 1
      /\ Len(calls) \in Nat /\ Len(calls) <= MaxNested
  <2>1. SessionTypes /\ calls # <<>>
    BY <1>3 DEF IInv
  <2>2. Len(calls) \in Nat /\ Len(calls) <= MaxNested
    BY <2>1 DEF SessionTypes
  <2> QED BY <2>1, <2>2, TopAndBelow
<1>5. /\ Top.object = None
      /\ Top.request # "DESCRIBE" => Top.session \in Sessions \cup {None}
  BY <1>3, <1>4 DEF Calls
<1>6. CASE Top.request = "DESCRIBE" /\ Describe(m, o, Below)
  <2> DEFINE c == [request |-> "DESCRIBE", step |-> "describe",
                   session |-> None, object |-> m]
  <2>1. c \in Calls /\ c.object = m
    BY <1>1 DEF Calls
  <2>2. /\ objects' = incrementReferenceCount(o, m)
        /\ calls' = Append(Below, c)
        /\ UNCHANGED sessionVars
    BY <1>6 DEF Describe
  <2> HIDE DEF c
  <2>3. m \in o.alive
    BY <1>1, <1>2, MediaAssumption DEF Good
  <2>4. /\ Good(objects') /\ objects'.strays = o.strays
        /\ objects'.references = [o.references EXCEPT ![m] = @ + 1]
    <3>1. LET r == incrementReferenceCount(o, m) IN
          /\ Good(r) /\ r.strays = o.strays
          /\ r.references = [o.references EXCEPT ![m] = @ + 1]
      BY <1>1, <1>2, <2>3, Incrementing, Zenon
    <3> QED BY <1>2, <2>2, <3>1
  <2>5. \A n \in Media : NumCalls(n)' = IF n = m THEN NumCalls(n) + 1
                                        ELSE NumCalls(n)
    BY <1>3, <1>5, <2>1, <2>2, CallGoesOn DEF IInv
  <2>6. \A n \in Media : /\ NumSessions(n)' = NumSessions(n)
                         /\ NumSessions(n) \in Nat /\ NumCalls(n) \in Nat
    BY <2>2, CountType DEF IInv, NumSessions, SessionsOf, sessionVars
  <2>7. Counted'
    <3>1. \A n \in Media : objects'.references[n] =
             IF n = m THEN o.references[n] + 1 ELSE o.references[n]
      BY <1>2, <2>4 DEF Good, Objects
    <3>2. \A n \in Media :
             /\ Count(n)' = IF n = m THEN Count(n) + 1 ELSE Count(n)
             /\ Count(n) \in Nat /\ StraysIn(o, n) \in Nat
      BY <2>5, <2>6 DEF Count, StraysIn
    <3> QED BY <1>2, <2>4, <3>1, <3>2 DEF Counted, CountedIn, StraysIn
  <2>8. calls' \in Seq(Calls) /\ Len(calls') <= MaxNested
    BY <1>4, <2>1, <2>2, MediaAssumption
  <2> QED BY <1>3, <2>2, <2>4, <2>7, <2>8 DEF IInv, SessionTypes, sessionVars
<1>7. CASE /\ Top.request # "DESCRIBE"
           /\ \/ Top.session # None /\ SetUp(Top.session, m, o, Below)
              \/ Top.session = None /\ SetUpDeleted(m, o, Below)
           /\ UNCHANGED <<clientSessions, idle>>
  <2>1. calls' = Below
    BY <1>7 DEF SetUp, SetUpDeleted
  <2>2. \A n \in Media : NumCalls(n)' = NumCalls(n)
    BY <1>3, <1>5, <2>1, CallEnds, MediaAssumption DEF IInv
  <2>3. /\ Good(objects') /\ Counted'
        /\ media' \in [Sessions -> Media \cup {None}]
        /\ streams' \in [Sessions -> 0..NumTracks]
        /\ \A t \in Sessions : media'[t] # None => streams'[t] # 0
    BY <1>1, <1>2, <1>5, <1>7, <2>2, SetUpStep, SetUpDeletedStep
  <2>4. Len(calls') <= MaxNested
    BY <1>4, <2>1, MediaAssumption
  <2> QED BY <1>3, <1>4, <1>7, <2>1, <2>3, <2>4 DEF IInv, SessionTypes
<1> QED BY <1>3, <1>6, <1>7

LEMMA DescriptionIsMadeStep ==
    ASSUME IInv, DescriptionIsMade PROVE IInv'
<1>1. /\ calls # <<>> /\ Top.step = "describe"
      /\ objects' = Release(objects, Top.object)
      /\ calls' = Below /\ UNCHANGED <<fileExists, sessionVars>>
  BY DEF DescriptionIsMade
<1>2. /\ Top \in Calls /\ Below \in Seq(Calls) /\ Len(Below) = Len(calls) - 1
      /\ Len(calls) \in Nat /\ Len(calls) <= MaxNested
      /\ Len(calls) \in DOMAIN calls /\ calls[Len(calls)] = Top
  BY <1>1, TopAndBelow DEF IInv, SessionTypes
<1> DEFINE m == Top.object
<1>3. m \in Media
  BY <1>1, <1>2 DEF Calls
<1>4. objects.references[m] # 0
  <2>1. Used(m)
    BY <1>2 DEF Used, CallsOf
  <2> QED BY <1>3, <2>1, UsedIsCounted
<1>5. /\ Good(objects') /\ objects'.strays = objects.strays
      /\ objects'.references = [objects.references EXCEPT ![m] = @ - 1]
  BY <1>1, <1>3, <1>4, Releasing DEF IInv
<1>6. \A n \in Media : NumCalls(n)' = IF n = m THEN NumCalls(n) - 1
                                      ELSE NumCalls(n)
  BY <1>1, CallEnds DEF IInv
<1>7. \A n \in Media : /\ NumSessions(n)' = NumSessions(n)
                       /\ NumSessions(n) \in Nat /\ NumCalls(n) \in Nat
  BY <1>1, CountType DEF IInv, NumSessions, SessionsOf, sessionVars
<1> HIDE DEF m
<1>8. Counted'
  <2>1. \A n \in Media : objects'.references[n] =
           IF n = m THEN objects.references[n] - 1 ELSE objects.references[n]
    BY <1>5 DEF IInv, Good, Objects
  <2>2. \A n \in Media :
           /\ Count(n)' = IF n = m THEN Count(n) - 1 ELSE Count(n)
           /\ Count(n) \in Nat /\ StraysIn(objects, n) \in Nat
    BY <1>6, <1>7 DEF Count, StraysIn
  <2> QED BY <1>5, <2>1, <2>2 DEF IInv, Counted, CountedIn, StraysIn
<1>9. calls' \in Seq(Calls) /\ Len(calls') <= MaxNested
  BY <1>1, <1>2, MediaAssumption
<1> QED BY <1>1, <1>5, <1>8, <1>9 DEF IInv, SessionTypes, sessionVars

(* The calls of a session that is deleted go on without it, and use what   *)
(* they used.                                                              *)
LEMMA CallsForget ==
    ASSUME SessionTypes, NEW s \in Sessions, Delete(s)
    PROVE  /\ calls' \in Seq(Calls) /\ Len(calls') <= MaxNested
           /\ \A n \in Media : CallsOf(n)' = CallsOf(n)
<1> DEFINE n == Len(calls)
           Forgets(c) == IF c.session = s THEN [c EXCEPT !.session = None]
                         ELSE c
<1>1. n \in Nat /\ n <= MaxNested /\ DOMAIN calls = 1..n
      /\ \A i \in 1..n : calls[i] \in Calls
  BY DEF SessionTypes
<1>2. calls' = [i \in 1..n |-> Forgets(calls[i])]
  BY <1>1 DEF Delete
<1>3. \A c \in Calls : Forgets(c) \in Calls /\ Forgets(c).object = c.object
  BY MediaAssumption DEF Calls
<1> HIDE DEF n, Forgets
<1>4. /\ calls' \in [1..n -> Calls] /\ DOMAIN calls' = DOMAIN calls
      /\ \A i \in DOMAIN calls : calls'[i].object = calls[i].object
  BY <1>1, <1>2, <1>3
<1>5. calls' \in Seq(Calls) /\ Len(calls') = n
  BY <1>1, <1>4
<1>6. \A k \in Media : CallsOf(k)' = CallsOf(k)
  BY <1>4 DEF CallsOf
<1> QED BY <1>1, <1>5, <1>6

(* A client session is deleted: by a TEARDOWN or for want of life.         *)
LEMMA DeleteStep ==
    ASSUME IInv, NEW s \in Sessions, Delete(s), UNCHANGED fileExists
    PROVE  IInv'
<1>1. /\ clientSessions' = clientSessions \ {s}
      /\ objects' = Release(objects, media[s])
      /\ media' = [media EXCEPT ![s] = None]
      /\ streams' = [streams EXCEPT ![s] = 0]
      /\ idle' = [idle EXCEPT ![s] = 0]
  BY DEF Delete
<1>2. SessionTypes'
  <2>1. calls' \in Seq(Calls) /\ Len(calls') <= MaxNested
    BY CallsForget DEF IInv
  <2> QED BY <1>1, <2>1, MediaAssumption DEF IInv, SessionTypes
<1>3. \A n \in Media : NumSessions(n)' = IF n = media[s]
                                         THEN NumSessions(n) - 1
                                         ELSE NumSessions(n)
  BY <1>1, SessionEnds DEF IInv
<1>4. \A n \in Media : /\ NumCalls(n)' = NumCalls(n)
                       /\ NumSessions(n) \in Nat /\ NumCalls(n) \in Nat
  <2>1. \A n \in Media : CallsOf(n)' = CallsOf(n)
    BY CallsForget DEF IInv
  <2> QED BY <2>1, CountType DEF IInv, NumCalls
<1>5. CASE media[s] = None
  <2>1. objects' = objects
    BY <1>1, <1>5 DEF Release
  <2>2. \A n \in Media : Count(n)' = Count(n)
    BY <1>3, <1>4, <1>5, MediaAssumption DEF Count
  <2>3. Counted'
    BY <2>1, <2>2 DEF IInv, Counted, CountedIn, StraysIn
  <2> QED BY <1>2, <2>1, <2>3 DEF IInv
<1>6. CASE media[s] # None
  <2> DEFINE m == media[s]
  <2>1. m \in Media
    BY <1>6 DEF IInv, SessionTypes
  <2>2. objects.references[m] # 0
    <3>1. Used(m)
      BY DEF Used, SessionsOf
    <3> QED BY <2>1, <3>1, UsedIsCounted
  <2>3. /\ Good(objects') /\ objects'.strays = objects.strays
        /\ objects'.references = [objects.references EXCEPT ![m] = @ - 1]
    BY <1>1, <2>1, <2>2, Releasing DEF IInv
  <2> HIDE DEF m
  <2>4. Counted'
    <3>1. \A n \in Media : objects'.references[n] =
            IF n = m THEN objects.references[n] - 1 ELSE objects.references[n]
      BY <2>3 DEF IInv, Good, Objects
    <3>2. \A n \in Media :
             /\ Count(n)' = IF n = m THEN Count(n) - 1 ELSE Count(n)
             /\ Count(n) \in Nat /\ StraysIn(objects, n) \in Nat
      BY <1>3, <1>4 DEF m, Count, StraysIn
    <3> QED BY <2>3, <3>1, <3>2 DEF IInv, Counted, CountedIn, StraysIn
  <2> QED BY <1>2, <2>3, <2>4 DEF IInv
<1> QED BY <1>5, <1>6

(* A step that touches neither the objects nor their users.                *)
LEMMA UsersUntouched ==
    ASSUME IInv, UNCHANGED <<objects, media, calls>>, SessionTypes'
    PROVE  IInv'
<1>1. \A n \in Media : Count(n)' = Count(n)
  BY DEF Count, NumSessions, NumCalls, SessionsOf, CallsOf
<1> QED BY <1>1 DEF IInv, Counted, CountedIn, StraysIn

LEMMA TeardownRequest ==
    ASSUME IInv, NEW s \in Sessions, NEW n \in {1, streams[s]},
           handleCmd_TEARDOWN(s, n)
    PROVE  IInv'
<1>1. CASE streams[s] = n
  BY <1>1, DeleteStep DEF handleCmd_TEARDOWN
<1>2. CASE streams[s] # n
  <2>1. /\ streams' = [streams EXCEPT ![s] = @ - n] /\ n = 1
        /\ idle' = [idle EXCEPT ![s] = 0]
        /\ UNCHANGED <<fileExists, objects, clientSessions, media, calls>>
    BY <1>2 DEF handleCmd_TEARDOWN
  <2>2. streams[s] \in 0..NumTracks /\ streams[s] \notin {0, 1}
    BY <1>2, <2>1 DEF handleCmd_TEARDOWN, IInv, SessionTypes
  <2>3. SessionTypes'
    BY <2>1, <2>2, MediaAssumption DEF IInv, SessionTypes
  <2> QED BY <2>1, <2>3, UsersUntouched
<1> QED BY <1>1, <1>2

LEMMA NextStep == ASSUME IInv, [Next]_vars PROVE IInv'
<1>1. CASE Tick
  <2>1. SessionTypes'
    BY <1>1, MediaAssumption DEF Tick, IInv, SessionTypes
  <2> QED BY <1>1, <2>1, UsersUntouched DEF Tick
<1>2. CASE FileChanges
  <2>1. SessionTypes'
    BY <1>2 DEF FileChanges, IInv, SessionTypes, sessionVars
  <2> QED BY <1>2, <2>1, UsersUntouched DEF FileChanges, sessionVars
<1>3. ASSUME NEW s \in Sessions, noteLiveness(s) PROVE IInv'
  <2>1. SessionTypes'
    BY <1>3, MediaAssumption DEF noteLiveness, IInv, SessionTypes
  <2> QED BY <1>3, <2>1, UsersUntouched DEF noteLiveness
<1>4. ASSUME NEW s \in Sessions, livenessTimeoutTask(s) PROVE IInv'
  BY <1>4, DeleteStep DEF livenessTimeoutTask
<1>5. ASSUME NEW s \in Sessions,
             handleCmd_TEARDOWN(s, 1) \/ handleCmd_TEARDOWN(s, streams[s])
      PROVE  IInv'
  BY <1>5, TeardownRequest
<1>6. CASE UNCHANGED vars
  <2>1. SessionTypes'
    BY <1>6 DEF vars, sessionVars, IInv, SessionTypes
  <2> QED BY <1>6, <2>1, UsersUntouched DEF vars, sessionVars
<1> QED BY <1>1, <1>2, <1>3, <1>4, <1>5, <1>6, DescribeRequest, SetupRequest,
           LookUpReturnsStep, DescriptionIsMadeStep DEF Next

LEMMA InitStep == Init => IInv
<1> SUFFICES ASSUME Init PROVE IInv
  OBVIOUS
<1>1. Good(objects)
  BY DEF Init, Good, Objects
<1>2. SessionTypes
  BY MediaAssumption DEF Init, SessionTypes
<1>3. Counted
  <2> SUFFICES ASSUME NEW m \in Media PROVE objects.references[m] = Count(m)
    BY CountType, <1>2 DEF Counted, CountedIn, Count, StraysIn, Init
  <2>1. ~Used(m)
    BY MediaAssumption DEF Init, Used, SessionsOf, CallsOf
  <2> QED BY <1>2, <2>1, CountType DEF Init
<1> QED BY <1>1, <1>2, <1>3 DEF IInv

LEMMA InvariantHolds == Spec => []IInv
  BY InitStep, NextStep, PTL DEF Spec

(* No media session is deleted while a client session or a description     *)
(* uses it, and each is counted exactly, but for the reference of a SETUP  *)
(* whose session was deleted while it waited.                              *)
THEOREM ReferencesCorrect == Spec => []ReferencesExact
<1>1. IInv => ReferencesExact
  <2> SUFFICES ASSUME IInv PROVE ReferencesExact
    OBVIOUS
  <2>1. TypeOK
    BY DEF IInv, Good, Objects, SessionTypes, TypeOK
  <2>2. \A m \in Media : Used(m) => objects.references[m] # 0
    BY UsedIsCounted
  <2> QED BY <2>1, <2>2
          DEF IInv, Good, Counted, CountedIn, StraysIn, Stray, Count,
              NumSessions, NumCalls, ReferencesExact
<1> QED BY <1>1, InvariantHolds, PTL

(* No media session stays behind without a user, but those that were       *)
(* pushed out of the table or counted for a session that was deleted.      *)
THEOREM LeakCorrect == Spec => []NotLeaked
<1>1. IInv => NotLeaked
  <2> SUFFICES ASSUME IInv PROVE NotLeaked
    OBVIOUS
  <2>1. \A m \in Media \ objects.strays :
           objects.references[m] # 0 => Used(m)
    BY CountType DEF IInv, Counted, CountedIn, StraysIn, Count
  <2> QED BY <2>1 DEF IInv, Good, Objects, NotLeaked
<1> QED BY <1>1, InvariantHolds, PTL

-----------------------------------------------------------------------------
(* The event loop                                                          *)

(* A set of numbers has a least one.                                       *)
LEMMA HasMin ==
    ASSUME NEW S \in SUBSET Nat, S # {}
    PROVE  \E m \in S : \A n \in S : m <= n
<1>1. PICK x \in S : \A y \in S : ~(<<y, x>> \in OpToRel(<, Nat))
  BY NatLessThanWellFounded, WFMin, Zenon
<1>2. ASSUME NEW y \in S PROVE ~(y < x)
  BY <1>1, <1>2, Zenon DEF OpToRel
<1> QED BY <1>2, SMT

LEMMA HasMax ==
    ASSUME NEW n \in Nat, NEW S \in SUBSET (0..n), S # {}
    PROVE  Max(S) \in S /\ \A m \in S : m <= Max(S)
<1> DEFINE T == {n - m : m \in S}
<1>1. T \in SUBSET Nat /\ T # {}
  <2>1. ASSUME NEW m \in S PROVE n - m \in Nat
    <3>1. m \in 0..n
      OBVIOUS
    <3> QED BY <3>1
  <2>2. PICK m \in S : TRUE
    OBVIOUS
  <2>3. n - m \in T
    OBVIOUS
  <2> QED BY <2>1, <2>3
<1>2. PICK t \in T : \A u \in T : t <= u
  <2> HIDE DEF T
  <2> QED BY <1>1, HasMin, Zenon
<1>3. \E x \in S : \A y \in S : x >= y
  <2>1. PICK x \in S : t = n - x
    BY <1>2
  <2>2. ASSUME NEW y \in S PROVE x >= y
    <3>1. t <= n - y
      BY <1>2
    <3>2. x \in 0..n /\ y \in 0..n
      OBVIOUS
    <3> QED BY <2>1, <3>1, <3>2
  <2> QED BY <2>2
<1>4. Max(S) \in S /\ \A y \in S : Max(S) >= y
  BY <1>3, Zenon DEF Max
<1> QED BY <1>4

(* socket() gives a number that is free, and none above one that is.       *)
LEMMA LowestFreeProperties ==
    ASSUME NEW taken, NEW s \in Sockets \ taken
    PROVE  /\ LowestFree(taken) \in Sockets \ taken
           /\ LowestFree(taken) <= s
<1> DEFINE free == Sockets \ taken
<1>1. free \in SUBSET Nat /\ free # {}
  BY SchedulerAssumption DEF Sockets
<1>2. LowestFree(taken) = CHOOSE m \in free : \A r \in free : m <= r
  BY DEF LowestFree
<1>3. s \in free
  OBVIOUS
<1> HIDE DEF free
<1>4. \E m \in free : \A r \in free : m <= r
  BY <1>1, HasMin, Zenon
<1>5. /\ LowestFree(taken) \in free
      /\ \A r \in free : LowestFree(taken) <= r
  BY <1>2, <1>4, Zenon
<1> QED BY <1>3, <1>5 DEF free

(* Two lists one after the other.                                          *)
LEMMA ConcatProperties ==
    ASSUME NEW S, NEW a \in Seq(S), NEW b \in Seq(S)
    PROVE  /\ a \o b \in Seq(S) /\ Len(a \o b) = Len(a) + Len(b)
           /\ \A j \in 1..Len(a) : (a \o b)[j] = a[j]
           /\ \A j \in 1..Len(b) : (a \o b)[Len(a) + j] = b[j]
  OBVIOUS

(* Lists in which nothing comes twice, when an element is removed, replaced *)
(* or put first.                                                           *)
LEMMA RemoveAtProperties ==
    ASSUME NEW S, NEW q \in Seq(S), IsInjective(q),
           NEW i \in DOMAIN q
    PROVE  /\ RemoveAt(q, i) \in Seq(S)
           /\ IsInjective(RemoveAt(q, i))
           /\ ToSet(RemoveAt(q, i)) = ToSet(q) \ {q[i]}
<1> DEFINE n == Len(q)
           a == SubSeq(q, 1, i - 1)
           b == SubSeq(q, i + 1, n)
           r == RemoveAt(q, i)
           From(j) == IF j < i THEN j ELSE j + 1
<1>1. n \in Nat /\ DOMAIN q = 1..n /\ i \in 1..n
  OBVIOUS
<1>2. /\ a \in Seq(S) /\ Len(a) = i - 1
      /\ \A j \in 1..(i - 1) : a[j] = q[j]
  BY <1>1
<1>3. /\ b \in Seq(S) /\ Len(b) = n - i
      /\ \A j \in 1..(n - i) : b[j] = q[j + i]
  BY <1>1
<1>4. r = a \o b
  BY DEF RemoveAt
<1> HIDE DEF a, b, n, r
<1>5. r \in Seq(S) /\ Len(r) = n - 1
  <2>1. r \in Seq(S) /\ Len(r) = Len(a) + Len(b)
    BY <1>2, <1>3, <1>4, ConcatProperties
  <2> QED BY <1>1, <1>2, <1>3, <2>1
<1>6. DOMAIN r = 1..(n - 1)
  BY <1>1, <1>5
<1>7. \A j \in 1..(n - 1) : From(j) \in 1..n /\ From(j) # i
  BY <1>1
<1>8. ASSUME NEW j \in 1..(n - 1) PROVE r[j] = q[From(j)]
  <2>1. CASE j < i
    <3>1. r[j] = a[j] /\ j \in 1..(i - 1)
      BY <1>1, <1>2, <1>3, <1>4, <2>1
    <3> QED BY <1>2, <2>1, <3>1
  <2>2. CASE ~(j < i)
    <3>1. r[j] = b[j - (i - 1)] /\ j - (i - 1) \in 1..(n - i)
      BY <1>1, <1>2, <1>3, <1>4, <2>2
    <3>2. (j - (i - 1)) + i = j + 1
      BY <1>1
    <3> QED BY <1>3, <2>2, <3>1, <3>2
  <2> QED BY <2>1, <2>2
<1>9. IsInjective(r)
  <2>1. ASSUME NEW j \in 1..(n - 1), NEW k \in 1..(n - 1), r[j] = r[k]
        PROVE  j = k
    <3>1. From(j) = From(k)
      BY <1>1, <1>7, <1>8, <2>1 DEF IsInjective
    <3> QED BY <1>1, <3>1
  <2> QED BY <1>6, <2>1 DEF IsInjective
<1>10. ASSUME NEW x
       PROVE  x \in ToSet(r) <=> x \in ToSet(q) /\ x # q[i]
  <2>1. ASSUME x \in ToSet(r) PROVE x \in ToSet(q) /\ x # q[i]
    <3>1. PICK j \in 1..(n - 1) : x = r[j]
      BY <1>6, <2>1 DEF ToSet
    <3>2. x = q[From(j)] /\ From(j) \in 1..n /\ From(j) # i
      BY <1>7, <1>8, <3>1
    <3> HIDE DEF From
    <3> QED BY <1>1, <3>2 DEF ToSet, IsInjective
  <2>2. ASSUME x \in ToSet(q), x # q[i] PROVE x \in ToSet(r)
    <3>1. PICK k \in 1..n : x = q[k]
      BY <1>1, <2>2 DEF ToSet
    <3> DEFINE j == IF k < i THEN k ELSE k - 1
    <3>2. k # i
      BY <2>2, <3>1
    <3>3. j \in 1..(n - 1) /\ From(j) = k
      BY <1>1, <3>2
    <3>4. r[j] = x
      BY <1>8, <3>1, <3>3
    <3> QED BY <1>6, <3>3, <3>4 DEF ToSet
  <2> QED BY <2>1, <2>2
<1> QED BY <1>5, <1>9, <1>10 DEF r

LEMMA ReplaceProperties ==
    ASSUME NEW S, NEW q \in Seq(S), IsInjective(q), NEW i \in DOMAIN q,
           NEW x \in S, x \notin ToSet(q),
           NEW r \in Seq(S), DOMAIN r = DOMAIN q,
           \A j \in DOMAIN q : r[j] = IF j = i THEN x ELSE q[j]
    PROVE  /\ IsInjective(r)
           /\ ToSet(r) = (ToSet(q) \ {q[i]}) \cup {x}
<1>1. \A j \in DOMAIN q : q[j] # x
  BY DEF ToSet
<1>2. IsInjective(r)
  BY <1>1 DEF IsInjective
<1>3. ASSUME NEW y
      PROVE  y \in ToSet(r) <=>
               (y \in ToSet(q) /\ y # q[i]) \/ y = x
  BY <1>1 DEF ToSet, IsInjective
<1> QED BY <1>2, <1>3

LEMMA PushProperties ==
    ASSUME NEW S, NEW q \in Seq(S), IsInjective(q), NEW x \in S,
           x \notin ToSet(q)
    PROVE  LET r == <<x>> \o q IN
           /\ r \in Seq(S) /\ IsInjective(r)
           /\ ToSet(r) = ToSet(q) \cup {x}
<1> DEFINE r == <<x>> \o q
           n == Len(q)
<1>1. n \in Nat /\ DOMAIN q = 1..n
  OBVIOUS
<1>2. r \in Seq(S) /\ Len(r) = n + 1 /\ r[1] = x
  OBVIOUS
<1>3. \A j \in 1..n : r[j + 1] = q[j]
  OBVIOUS
<1>4. DOMAIN r = 1..(n + 1)
  BY <1>2
<1>5. \A j \in 1..n : q[j] # x
  BY <1>1 DEF ToSet
<1> HIDE DEF r, n
<1>6. \A j \in 2..(n + 1) : j - 1 \in 1..n /\ r[j] = q[j - 1]
  <2> TAKE j \in 2..(n + 1)
  <2>1. j - 1 \in 1..n /\ (j - 1) + 1 = j
    BY <1>1
  <2> QED BY <1>3, <2>1
<1>7. IsInjective(r)
  <2>1. ASSUME NEW j \in 1..(n + 1), NEW k \in 1..(n + 1), r[j] = r[k], j # 1
        PROVE  j = k
    <3>1. j \in 2..(n + 1) /\ j - 1 \in 1..n /\ r[j] = q[j - 1]
      BY <1>1, <1>6, <2>1
    <3>2. k # 1
      BY <1>2, <1>5, <2>1, <3>1
    <3>3. k \in 2..(n + 1) /\ k - 1 \in 1..n /\ r[k] = q[k - 1]
      BY <1>1, <1>6, <3>2
    <3>4. j - 1 = k - 1
      BY <1>1, <2>1, <3>1, <3>3 DEF IsInjective
    <3> QED BY <1>1, <3>4
  <2>2. ASSUME NEW j \in 1..(n + 1), NEW k \in 1..(n + 1), r[j] = r[k]
        PROVE  j = k
    BY <2>1, <2>2
  <2> QED BY <1>4, <2>2 DEF IsInjective
<1>8. ASSUME NEW y PROVE y \in ToSet(r) <=> y \in ToSet(q) \/ y = x
  <2>1. ASSUME y \in ToSet(r) PROVE y \in ToSet(q) \/ y = x
    <3>1. PICK j \in 1..(n + 1) : y = r[j]
      BY <1>4, <2>1 DEF ToSet
    <3>2. CASE j = 1
      BY <1>2, <3>1, <3>2
    <3>3. CASE j # 1
      <4>1. j \in 2..(n + 1)
        BY <1>1, <3>3
      <4> QED BY <1>1, <1>6, <3>1, <4>1 DEF ToSet
    <3> QED BY <3>2, <3>3
  <2>2. ASSUME y \in ToSet(q) PROVE y \in ToSet(r)
    <3>1. PICK j \in 1..n : y = q[j]
      BY <1>1, <2>2 DEF ToSet
    <3>2. j + 1 \in 1..(n + 1) /\ r[j + 1] = y
      BY <1>1, <1>3, <3>1
    <3> QED BY <1>4, <3>2 DEF ToSet
  <2>3. x \in ToSet(r)
    <3>1. 1 \in 1..(n + 1)
      BY <1>1
    <3> QED BY <1>2, <1>4, <3>1 DEF ToSet
  <2> QED BY <2>1, <2>2, <2>3
<1> QED BY <1>2, <1>7, <1>8 DEF r

-----------------------------------------------------------------------------

(* lookupHandler finds the handler of a socket if it has one.              *)
LEMMA Lookup ==
    ASSUME NEW s, SelectSeesAll
    PROVE  /\ Contains(fHandlers, s) <=> s \in ToSet(fHandlers)
           /\ s \in ToSet(fHandlers) =>
                /\ lookupHandler(s) \in DOMAIN fHandlers
                /\ fHandlers[lookupHandler(s)] = s
<1>1. fHandlers \in Seq(Sockets)
  BY DEF SelectSeesAll, SchedulerTypeOK
<1>2. DOMAIN fHandlers = 1..Len(fHandlers)
  BY <1>1
<1>3. Contains(fHandlers, s) <=> s \in ToSet(fHandlers)
  BY <1>2 DEF Contains, ToSet
<1>4. ASSUME s \in ToSet(fHandlers)
      PROVE  \E i \in DOMAIN fHandlers : fHandlers[i] = s
  BY <1>4 DEF ToSet
<1> QED BY <1>3, <1>4, Zenon DEF lookupHandler

(* What the three operations of HandlerSet do to the set of sockets that   *)
(* have a handler.                                                         *)
LEMMA Assigning ==
    ASSUME NEW s \in Sockets, SelectSeesAll,
           assignHandler(s)
    PROVE  /\ fHandlers' \in Seq(Sockets)
           /\ IsInjective(fHandlers')
           /\ ToSet(fHandlers') = ToSet(fHandlers) \cup {s}
<1>1. fHandlers \in Seq(Sockets) /\ IsInjective(fHandlers)
  BY DEF SelectSeesAll, SchedulerTypeOK
<1>2. CASE s \in ToSet(fHandlers)
  <2>1. fHandlers' = fHandlers
    BY <1>2, Lookup, Zenon DEF assignHandler
  <2> QED BY <1>1, <1>2, <2>1
<1>3. CASE s \notin ToSet(fHandlers)
  <2>1. fHandlers' = <<s>> \o fHandlers
    BY <1>3, Lookup DEF assignHandler
  <2> QED BY <1>1, <1>3, <2>1, PushProperties
<1> QED BY <1>2, <1>3

LEMMA Clearing ==
    ASSUME NEW s \in Sockets, SelectSeesAll,
           clearHandler(s)
    PROVE  /\ fHandlers' \in Seq(Sockets)
           /\ IsInjective(fHandlers')
           /\ ToSet(fHandlers') = ToSet(fHandlers) \ {s}
<1>1. fHandlers \in Seq(Sockets) /\ IsInjective(fHandlers)
  BY DEF SelectSeesAll, SchedulerTypeOK
<1> DEFINE i == lookupHandler(s)
<1>2. CASE s \notin ToSet(fHandlers)
  <2>1. fHandlers' = fHandlers
    BY <1>2, Lookup, Zenon DEF clearHandler
  <2> QED BY <1>1, <1>2, <2>1
<1>3. CASE s \in ToSet(fHandlers)
  <2>1. fHandlers' = RemoveAt(fHandlers, i)
    BY <1>3, Lookup, Zenon DEF clearHandler
  <2>2. i \in DOMAIN fHandlers /\ fHandlers[i] = s
    BY <1>3, Lookup
  <2> HIDE DEF i
  <2> QED BY <1>1, <2>1, <2>2, RemoveAtProperties
<1> QED BY <1>2, <1>3

LEMMA Moving ==
    ASSUME NEW old \in Sockets, NEW new \in Sockets,
           new \notin ToSet(fHandlers),
           SelectSeesAll, moveHandler(old, new)
    PROVE  /\ fHandlers' \in Seq(Sockets)
           /\ IsInjective(fHandlers')
           /\ ToSet(fHandlers') =
                IF old \in ToSet(fHandlers)
                THEN (ToSet(fHandlers) \ {old}) \cup {new}
                ELSE ToSet(fHandlers)
<1>1. fHandlers \in Seq(Sockets) /\ IsInjective(fHandlers)
  BY DEF SelectSeesAll, SchedulerTypeOK
<1> DEFINE i == lookupHandler(old)
<1>2. CASE old \notin ToSet(fHandlers)
  <2>1. fHandlers' = fHandlers
    BY <1>2, Lookup, Zenon DEF moveHandler
  <2> QED BY <1>1, <1>2, <2>1
<1>3. CASE old \in ToSet(fHandlers)
  <2>1. fHandlers' = [fHandlers EXCEPT ![i] = new]
    BY <1>3, Lookup, Zenon DEF moveHandler
  <2>2. i \in DOMAIN fHandlers /\ fHandlers[i] = old
    BY <1>3, Lookup
  <2> HIDE DEF i
  <2> DEFINE r == [fHandlers EXCEPT ![i] = new]
  <2> HIDE DEF r
  <2>3. /\ r \in Seq(Sockets) /\ IsInjective(r)
        /\ ToSet(r)
             = (ToSet(fHandlers) \ {fHandlers[i]}) \cup {new}
    <3>1. DOMAIN r = DOMAIN fHandlers
      BY DEF r
    <3>2. \A j \in DOMAIN fHandlers :
            r[j] = IF j = i THEN new ELSE fHandlers[j]
      BY DEF r
    <3>3. r \in Seq(Sockets)
      BY <1>1, <2>2 DEF r
    <3> QED BY <1>1, <2>2, <3>1, <3>2, <3>3, ReplaceProperties
  <2>4. fHandlers' = r
    BY <2>1 DEF r
  <2> QED BY <1>3, <2>2, <2>3, <2>4
<1> QED BY <1>2, <1>3

(* fMaxNumSockets goes down by one only if the socket taken out was the    *)
(* highest possible one, so that no other socket of the set is lost.       *)
LEMMA LimitOfSets ==
    ASSUME NEW max \in 0..FD_SETSIZE, NEW s \in Nat
    PROVE  /\ Without(max, s) \in 0..FD_SETSIZE
           /\ \A t \in Nat : t < max /\ t # s => t < Without(max, s)
           /\ s < FD_SETSIZE => Within(max, s) \in 0..FD_SETSIZE
           /\ s < Within(max, s)
           /\ \A t \in Nat : t < max => t < Within(max, s)
  BY SchedulerAssumption DEF Without, Within

(* The list of handlers and the set agree, and fMaxNumSockets is above the *)
(* set.                                                                    *)
SetsAgree(open0, hs, set, max) ==
    /\ hs \in Seq(Sockets) /\ IsInjective(hs)
    /\ set = ToSet(hs) /\ set \subseteq open0
    /\ open0 \subseteq Sockets
    /\ max \in 0..FD_SETSIZE
    /\ \A s \in set : s < max

Others ==
    /\ ready \subseteq open
    /\ fLastHandledSocketNum \in Sockets \cup {-1}
    /\ handled \in Sockets \cup {-1}

(* SelectSeesAll is its own inductive invariant; a step is shown to keep   *)
(* its parts.                                                              *)
LEMMA SelectParts ==
    SelectSeesAll <=>
             SetsAgree(open, fHandlers, fReadSet, fMaxNumSockets) /\ Others
  BY DEF SelectSeesAll, SchedulerTypeOK, SetsAgree, Others

LEMMA SelectPartsNext ==
    ASSUME SetsAgree(open', fHandlers', fReadSet', fMaxNumSockets'), Others'
    PROVE  SelectSeesAll'
  BY DEF SelectSeesAll, SchedulerTypeOK, SetsAgree, Others

-----------------------------------------------------------------------------
LEMMA SocketsAreNumbers ==
    Sockets \subseteq Nat
  BY SchedulerAssumption DEF Sockets

(* The steps                                                               *)

(* setBackgroundHandling with a condition.                                 *)
LEMMA Setting ==
    ASSUME SelectSeesAll, NEW s \in Sockets,
           SetHandling(s)
    PROVE  SelectSeesAll'
<1>1. s \in Nat
  BY SchedulerAssumption DEF Sockets
<1>2. SetsAgree(open, fHandlers, fReadSet, fMaxNumSockets) /\ Others
  BY SelectParts
<1>3. /\ s \in open /\ s < FD_SETSIZE /\ assignHandler(s)
      /\ fReadSet' = fReadSet \cup {s}
      /\ fMaxNumSockets' = Within(fMaxNumSockets, s)
      /\ open' = open /\ Others'
  BY <1>2 DEF SetHandling, Others
<1>4. /\ fHandlers' \in Seq(Sockets)
      /\ IsInjective(fHandlers')
      /\ ToSet(fHandlers') = ToSet(fHandlers) \cup {s}
  BY <1>3, Assigning
<1>5. fReadSet \subseteq Nat
  BY <1>2, SocketsAreNumbers DEF SetsAgree
<1>6. /\ fMaxNumSockets' \in 0..FD_SETSIZE
      /\ \A t \in fReadSet' : t < fMaxNumSockets'
  BY <1>1, <1>2, <1>3, <1>5, LimitOfSets DEF SetsAgree
<1>7. SetsAgree(open', fHandlers', fReadSet', fMaxNumSockets')
  BY <1>2, <1>3, <1>4, <1>6 DEF SetsAgree
<1> QED BY <1>3, <1>7, SelectPartsNext

(* Without one; the socket may be closed in the same step.                 *)
LEMMA ClearingSets ==
    ASSUME SelectSeesAll, NEW s \in Sockets,
           ClearSets(s),
           open' \subseteq open, open \ {s} \subseteq open'
    PROVE  SetsAgree(open', fHandlers', fReadSet', fMaxNumSockets')
<1>1. s \in Nat
  BY SchedulerAssumption DEF Sockets
<1>2. SetsAgree(open, fHandlers, fReadSet, fMaxNumSockets)
  BY SelectParts
<1>3. /\ clearHandler(s)
      /\ fReadSet' = fReadSet \ {s}
      /\ fMaxNumSockets' = Without(fMaxNumSockets, s)
  BY DEF ClearSets
<1>4. /\ fHandlers' \in Seq(Sockets)
      /\ IsInjective(fHandlers')
      /\ ToSet(fHandlers') = ToSet(fHandlers) \ {s}
  BY <1>3, Clearing
<1>5. fReadSet \subseteq Nat
  BY <1>2, SocketsAreNumbers DEF SetsAgree
<1>6. /\ fMaxNumSockets' \in 0..FD_SETSIZE
      /\ \A t \in fReadSet' : t < fMaxNumSockets'
  BY <1>1, <1>2, <1>3, <1>5, LimitOfSets DEF SetsAgree
<1> QED BY <1>2, <1>3, <1>4, <1>6 DEF SetsAgree

(* moveSocketHandling to a socket that is not in the sets.                 *)
LEMMA MovingSets ==
    ASSUME SelectSeesAll,
           NEW old \in Sockets, NEW new \in Sockets,
           new \notin fReadSet, new < FD_SETSIZE,
           moveSocketHandling(old, new),
           open' = (open \ {old}) \cup {new}
    PROVE  SetsAgree(open', fHandlers', fReadSet', fMaxNumSockets')
<1>1. old \in Nat /\ new \in Nat
  BY SchedulerAssumption DEF Sockets
<1>2. SetsAgree(open, fHandlers, fReadSet, fMaxNumSockets)
  BY SelectParts
<1>3. /\ moveHandler(old, new)
      /\ fReadSet' = IF old \in fReadSet THEN (fReadSet \ {old}) \cup {new}
                     ELSE fReadSet
      /\ fMaxNumSockets'
           = Within(Without(fMaxNumSockets, old), new)
  BY DEF moveSocketHandling
<1>4. new \notin ToSet(fHandlers) /\ fReadSet = ToSet(fHandlers)
  BY <1>2 DEF SetsAgree
<1>5. /\ fHandlers' \in Seq(Sockets)
      /\ IsInjective(fHandlers')
      /\ fReadSet' = ToSet(fHandlers')
  BY <1>3, <1>4, Moving
<1>6. fReadSet \subseteq Nat
  BY <1>2, SocketsAreNumbers DEF SetsAgree
<1> DEFINE without == Without(fMaxNumSockets, old)
           after == Within(without, new)
<1>7. /\ without \in 0..FD_SETSIZE
      /\ \A t \in fReadSet : t # old => t < without
  BY <1>1, <1>2, <1>6, LimitOfSets DEF SetsAgree
<1> HIDE DEF without
<1>8. /\ after \in 0..FD_SETSIZE /\ new < after
      /\ \A t \in fReadSet : t # old => t < after
  BY <1>1, <1>6, <1>7, LimitOfSets
<1>9. fMaxNumSockets' = after
  BY <1>3 DEF without
<1> HIDE DEF after
<1>10. /\ fReadSet' \subseteq (fReadSet \ {old}) \cup {new}
       /\ fReadSet' \subseteq open'
       /\ open' \subseteq Sockets
  BY <1>2, <1>3 DEF SetsAgree
<1>11. \A t \in fReadSet' : t < fMaxNumSockets'
  BY <1>8, <1>9, <1>10
<1> QED BY <1>5, <1>8, <1>9, <1>10, <1>11 DEF SetsAgree

(* The new socket of changePort has the number of the old one or a lower   *)
(* one, hence fits the sets if the old one did; and being free it has no   *)
(* handler that moveHandler would double.                                  *)
LEMMA ChangingPort ==
    ASSUME SelectSeesAll, NEW s \in Sockets,
           ChangePort(s)
    PROVE  SelectSeesAll'
<1> DEFINE new == LowestFree(open \ {s})
<1>1. /\ new \in Sockets \ (open \ {s})
      /\ new <= s
  BY LowestFreeProperties
<1>2. SetsAgree(open, fHandlers, fReadSet, fMaxNumSockets) /\ Others
  BY SelectParts
<1>3. /\ s \in open
      /\ open' = (open \ {s}) \cup {new}
      /\ ready' = ready \ {s}
      /\ IF new = s \/ s >= FD_SETSIZE THEN UNCHANGED setVars
         ELSE moveSocketHandling(s, new)
      /\ UNCHANGED <<fLastHandledSocketNum, handled>>
  BY DEF ChangePort
<1> HIDE DEF new
<1>4. s \in Nat /\ new \in Nat
  BY <1>1, SchedulerAssumption DEF Sockets
<1>5. Others'
  BY <1>2, <1>3 DEF Others
<1>6. SetsAgree(open', fHandlers', fReadSet', fMaxNumSockets')
  <2>1. CASE new = s
    BY <1>2, <1>3, <2>1 DEF SetsAgree, setVars
  <2>2. CASE new # s /\ s >= FD_SETSIZE
    <3>1. s \notin fReadSet
      BY <1>2, <1>4, <2>2, SchedulerAssumption DEF SetsAgree
    <3> QED BY <1>1, <1>2, <1>3, <2>2, <3>1 DEF SetsAgree, setVars
  <2>3. CASE new # s /\ ~(s >= FD_SETSIZE)
    <3>1. new < FD_SETSIZE
      BY <1>1, <1>4, <2>3, SchedulerAssumption
    <3>2. new \notin fReadSet
      BY <1>1, <1>2, <2>3 DEF SetsAgree
    <3>3. moveSocketHandling(s, new)
      BY <1>3, <2>3
    <3> QED BY <1>1, <1>3, <3>1, <3>2, <3>3, MovingSets
  <2> QED BY <2>1, <2>2, <2>3
<1> QED BY <1>5, <1>6, SelectPartsNext

(* A socket that does not fit the sets is not in them.                     *)
LEMMA ClosingSockets ==
    ASSUME SelectSeesAll, NEW s \in Sockets, closeSockets(s)
    PROVE  SelectSeesAll'
<1>1. SetsAgree(open, fHandlers, fReadSet, fMaxNumSockets) /\ Others
  BY SelectParts
<1>2. /\ open' = open \ {s} /\ ready' = ready \ {s}
      /\ IF s >= FD_SETSIZE THEN UNCHANGED setVars
         ELSE ClearSets(s)
      /\ UNCHANGED <<fLastHandledSocketNum, handled>>
  BY DEF closeSockets
<1>3. Others'
  BY <1>1, <1>2 DEF Others
<1>4. s \in Nat
  BY SchedulerAssumption DEF Sockets
<1>5. SetsAgree(open', fHandlers', fReadSet', fMaxNumSockets')
  <2>1. CASE s >= FD_SETSIZE
    <3>1. s \notin fReadSet
      BY <1>1, <1>4, <2>1, SchedulerAssumption DEF SetsAgree
    <3> QED BY <1>1, <1>2, <2>1, <3>1 DEF SetsAgree, setVars
  <2>2. CASE ~(s >= FD_SETSIZE)
    <3>1. ClearSets(s)
      BY <1>2, <2>2
    <3> QED BY <1>2, <3>1, ClearingSets
  <2> QED BY <2>1, <2>2
<1> QED BY <1>3, <1>5, SelectPartsNext

(* The socket that SingleStep handles is one of the list.                  *)
LEMMA SteppingOnce ==
    ASSUME SelectSeesAll, SingleStep
    PROVE  SelectSeesAll'
<1>1. SetsAgree(open, fHandlers, fReadSet, fMaxNumSockets) /\ Others
  BY SelectParts
<1>2. PICK found \in {Readable, fReadSet} :
         handled' = IF Due(found) = {} THEN -1 ELSE InTurn[Min(Due(found))]
  BY DEF SingleStep
<1> DEFINE places == Due(found)
<1>3. places \subseteq DOMAIN InTurn
  BY DEF Due
<1>4. /\ handled' = IF places = {} THEN -1 ELSE InTurn[Min(places)]
      /\ fLastHandledSocketNum' = handled'
      /\ ready' \subseteq ready
      /\ open' = open /\ UNCHANGED setVars
  BY <1>2 DEF SingleStep
<1> HIDE DEF places
<1>5. handled' \in Sockets \cup {-1}
  <2>1. CASE places = {}
    BY <1>4, <2>1
  <2>2. CASE places # {}
    <3>1. /\ fHandlers \in Seq(Sockets)
          /\ fLastHandledSocketNum \in Sockets \cup {-1}
      BY <1>1 DEF SetsAgree, Others
    <3>2. InTurn \in Seq(Sockets)
      <4>1. CASE ~Contains(fHandlers, fLastHandledSocketNum)
        BY <3>1, <4>1 DEF InTurn
      <4>2. CASE Contains(fHandlers, fLastHandledSocketNum)
        <5> DEFINE i == lookupHandler(fLastHandledSocketNum)
                   tail == SubSeq(fHandlers, i + 1, Len(fHandlers))
        <5>1. i \in DOMAIN fHandlers
          BY <4>2, Lookup
        <5>2. InTurn = tail \o fHandlers
          BY <4>2 DEF InTurn
        <5> HIDE DEF i
        <5>3. tail \in Seq(Sockets)
          BY <3>1, <5>1
        <5> HIDE DEF tail
        <5> QED BY <3>1, <5>2, <5>3, ConcatProperties
      <4> QED BY <4>1, <4>2
    <3>3. places \in SUBSET Nat
      BY <1>3, <3>2
    <3>4. PICK m \in places : \A n \in places : m <= n
      BY <2>2, <3>3, HasMin
    <3>5. Min(places) \in places
      BY <3>4 DEF Min
    <3>6. handled' = InTurn[Min(places)]
      BY <1>4, <2>2
    <3> QED BY <1>3, <3>2, <3>5, <3>6
  <2> QED BY <2>1, <2>2
<1>6. Others'
  BY <1>1, <1>5, <1>4 DEF Others
<1>7. SetsAgree(open', fHandlers', fReadSet', fMaxNumSockets')
  BY <1>1, <1>4 DEF SetsAgree, setVars
<1> QED BY <1>6, <1>7, SelectPartsNext

(* What the system does with the sockets. One that is closed has no handler. *)
LEMMA SystemSteps ==
    ASSUME SelectSeesAll,
           \/ OpenSocket
           \/ \E s \in Sockets : Arrives(s) \/ CloseSocket(s)
    PROVE  SelectSeesAll'
<1>1. SetsAgree(open, fHandlers, fReadSet, fMaxNumSockets) /\ Others
  BY SelectParts
<1>2. CASE OpenSocket
  <2>1. /\ open' = open \cup {LowestFree(open)} /\ open # Sockets
        /\ UNCHANGED <<ready, setVars, fLastHandledSocketNum, handled>>
    BY <1>2 DEF OpenSocket
  <2>2. PICK s \in Sockets : s \notin open
    BY <1>1, <2>1 DEF SetsAgree
  <2>3. LowestFree(open) \in Sockets
    BY <2>2, LowestFreeProperties
  <2>4. Others'
    BY <1>1, <2>1 DEF Others
  <2>5. SetsAgree(open', fHandlers', fReadSet', fMaxNumSockets')
    BY <1>1, <2>1, <2>3 DEF SetsAgree, setVars
  <2> QED BY <2>4, <2>5, SelectPartsNext
<1>3. ASSUME NEW s \in Sockets, Arrives(s)
      PROVE  SelectSeesAll'
  <2>1. Others'
    BY <1>1, <1>3 DEF Others, Arrives
  <2>2. SetsAgree(open', fHandlers', fReadSet', fMaxNumSockets')
    BY <1>1, <1>3 DEF SetsAgree, Arrives, setVars
  <2> QED BY <2>1, <2>2, SelectPartsNext
<1>4. ASSUME NEW s \in Sockets, CloseSocket(s)
      PROVE  SelectSeesAll'
  <2>1. Others'
    BY <1>1, <1>4 DEF Others, CloseSocket
  <2>2. SetsAgree(open', fHandlers', fReadSet', fMaxNumSockets')
    BY <1>1, <1>4 DEF SetsAgree, CloseSocket, setVars
  <2> QED BY <2>1, <2>2, SelectPartsNext
<1> QED BY <1>2, <1>3, <1>4

(* Every socket in the set given to select is open, is below fMaxNumSockets, *)
(* and has exactly one handler, and no other socket has one: for any number *)
(* of sockets and any size of the sets, in whatever order the program sets, *)
(* moves and clears handlers and closes sockets.                           *)
THEOREM SelectCorrect ==
    SchedulerSpec => []SelectSeesAll
<1>1. SchedulerInit => SelectSeesAll
  <2> SUFFICES ASSUME SchedulerInit PROVE SelectSeesAll
    OBVIOUS
  <2>1. fHandlers = <<>> /\ ToSet(<<>>) = {} /\ IsInjective(<<>>)
    BY DEF SchedulerInit, ToSet, IsInjective
  <2>2. Others
    BY DEF SchedulerInit, Others
  <2>3. SetsAgree(open, fHandlers, fReadSet, fMaxNumSockets)
    BY <2>1, SchedulerAssumption DEF SchedulerInit, SetsAgree
  <2> QED BY <2>2, <2>3, SelectParts
<1>2. SelectSeesAll /\ [SchedulerNext]_schedulerVars
        => SelectSeesAll'
  <2> SUFFICES ASSUME SelectSeesAll, [SchedulerNext]_schedulerVars
               PROVE  SelectSeesAll'
    OBVIOUS
  <2>1. CASE OpenSocket
    BY <2>1, SystemSteps
  <2>2. CASE SingleStep
    BY <2>2, SteppingOnce
  <2>3. ASSUME NEW s \in Sockets, Arrives(s)
        PROVE  SelectSeesAll'
    BY <2>3, SystemSteps
  <2>4. ASSUME NEW s \in Sockets, Program(s)
        PROVE  SelectSeesAll'
    <3>1. CASE CloseSocket(s)
      BY <3>1, SystemSteps
    <3>2. CASE SetHandling(s)
      BY <3>2, Setting
    <3>3. CASE ClearHandling(s)
      <4>1. /\ ClearSets(s)
            /\ UNCHANGED <<open, ready, fLastHandledSocketNum, handled>>
        BY <3>3 DEF ClearHandling
      <4>2. SetsAgree(open', fHandlers', fReadSet', fMaxNumSockets')
        BY <4>1, ClearingSets
      <4>3. Others'
        BY <4>1, SelectParts DEF Others
      <4> QED BY <4>2, <4>3, SelectPartsNext
    <3>4. CASE ChangePort(s)
      BY <3>4, ChangingPort
    <3>5. CASE closeSockets(s)
      BY <3>5, ClosingSockets
    <3> QED BY <2>4, <3>1, <3>2, <3>3, <3>4, <3>5 DEF Program
  <2>5. CASE UNCHANGED schedulerVars
    BY <2>5 DEF SelectSeesAll, SchedulerTypeOK, schedulerVars, setVars
  <2> QED BY <2>1, <2>2, <2>3, <2>4, <2>5 DEF SchedulerNext
<1> QED BY <1>1, <1>2, PTL DEF SchedulerSpec

-----------------------------------------------------------------------------
(* RTP reception                                                           *)

(* Numbers that wrap around.                                               *)
LEMMA DivMod ==
    ASSUME NEW x \in Nat, NEW M \in Nat, M > 0
    PROVE  /\ x % M \in 0..(M - 1)
           /\ x \div M \in Int
           /\ x = M * (x \div M) + (x % M)
<1>1. x % M \in 0..(M - 1) /\ x \div M \in Int
  OBVIOUS
<1>2. x = M * (x \div M) + (x % M)
  BY Z3
<1> QED BY <1>1, <1>2

LEMMA SmallMultiple ==
    ASSUME NEW k \in Int, NEW M \in Nat, M > 0, M * k > -M, M * k < 2 * M
    PROVE  k = 0 \/ k = 1
  OBVIOUS

(* The remainder of a number that is d higher.                             *)
LEMMA ModPlus ==
    ASSUME NEW x \in Nat, NEW M \in Nat, M > 0, NEW d \in 0..(M - 1)
    PROVE  (x + d) % M = IF (x % M) + d < M THEN (x % M) + d
                          ELSE (x % M) + d - M
<1> DEFINE y == x + d
           q == x \div M
           p == y \div M
           r == x % M
           s == y % M
           k == p - q
<1>1. y \in Nat
  OBVIOUS
<1>2. r \in 0..(M - 1) /\ q \in Int /\ x = M * q + r
  BY DivMod
<1>3. s \in 0..(M - 1) /\ p \in Int /\ y = M * p + s
  BY <1>1, DivMod
<1>4. y = x + d
  OBVIOUS
<1> HIDE DEF y, q, p, r, s
<1>5. M * k = r + d - s /\ k \in Int
  <2>1. M * k = M * p - M * q
    BY <1>2, <1>3
  <2>2. M * p \in Int /\ M * q \in Int
    BY <1>2, <1>3
  <2> QED BY <1>2, <1>3, <1>4, <2>1, <2>2
<1> HIDE DEF k
<1>6. k = 0 \/ k = 1
  <2>1. M * k > -M /\ M * k < 2 * M
    BY <1>2, <1>3, <1>5
  <2> QED BY <1>5, <2>1, SmallMultiple
<1>7. M * k = 0 \/ M * k = M
  BY <1>6
<1>8. s = IF r + d < M THEN r + d ELSE r + d - M
  BY <1>2, <1>3, <1>5, <1>7
<1> QED BY <1>8 DEF r, s, y

(* Sequence numbers are compared as the packets were sent, if these are    *)
(* less than half the range apart.                                         *)
LEMMA Halves == Half \in Nat /\ Modulus = 2 * Half /\ Half > 1
<1>1. Modulus \in Nat /\ Modulus > 2 /\ Modulus % 2 = 0
  BY RtpAssumption
<1> QED BY <1>1 DEF Half

(* Of the sender whose packets are received, the first number.             *)
First == senders[fLastReceivedSSRC].firstSeqNo

LEMMA SeqNoType ==
    ASSUME First \in Nat, NEW n \in Nat
    PROVE  SeqNo(n) \in 0..(Modulus - 1)
<1>1. First + n \in Nat /\ Modulus \in Nat /\ Modulus > 0
  BY RtpAssumption
<1> QED BY <1>1, DivMod DEF SeqNo, SeqNoOf, First

LEMMA SeqNoPlus ==
    ASSUME First \in Nat, NEW m \in Nat, NEW n \in Nat, m <= n,
           n - m <= Half
    PROVE  SeqNo(n) = IF SeqNo(m) + (n - m) < Modulus
                      THEN SeqNo(m) + (n - m)
                      ELSE SeqNo(m) + (n - m) - Modulus
<1> DEFINE d == n - m
           x == First + m
<1>1. x \in Nat /\ Modulus \in Nat /\ Modulus > 0 /\ d \in 0..(Modulus - 1)
  BY Halves
<1>2. x + d = First + n
  OBVIOUS
<1>3. (x + d) % Modulus = IF (x % Modulus) + d < Modulus
                          THEN (x % Modulus) + d
                          ELSE (x % Modulus) + d - Modulus
  <2> HIDE DEF x, d
  <2> QED BY <1>1, ModPlus
<1> QED BY <1>2, <1>3 DEF SeqNo, SeqNoOf, First

LEMMA SeqNumOrder ==
    ASSUME First \in Nat, NEW m \in Nat, NEW n \in Nat,
           n - m < Half, m - n < Half
    PROVE  /\ SeqNo(m) = SeqNo(n) <=> m = n
           /\ seqNumLT(SeqNo(m), SeqNo(n)) <=> m < n
<1> DEFINE a == SeqNo(m)
           b == SeqNo(n)
<1>1. a \in 0..(Modulus - 1) /\ b \in 0..(Modulus - 1)
  BY SeqNoType
<1>2. m <= n => b = IF a + (n - m) < Modulus THEN a + (n - m)
                    ELSE a + (n - m) - Modulus
  <2> SUFFICES ASSUME m <= n
               PROVE  b = IF a + (n - m) < Modulus THEN a + (n - m)
                          ELSE a + (n - m) - Modulus
    OBVIOUS
  <2>1. n - m <= Half
    BY Halves
  <2> QED BY <2>1, SeqNoPlus
<1>3. n <= m => a = IF b + (m - n) < Modulus THEN b + (m - n)
                    ELSE b + (m - n) - Modulus
  <2> SUFFICES ASSUME n <= m
               PROVE  a = IF b + (m - n) < Modulus THEN b + (m - n)
                          ELSE b + (m - n) - Modulus
    OBVIOUS
  <2>1. m - n <= Half
    BY Halves
  <2> QED BY <2>1, SeqNoPlus
<1> HIDE DEF a, b
<1>4. (a = b <=> m = n) /\ (seqNumLT(a, b) <=> m < n)
  BY <1>1, <1>2, <1>3, Halves DEF seqNumLT
<1> QED BY <1>4 DEF a, b

(* The number after that of packet n.                                      *)
LEMMA SeqNoNext ==
    ASSUME First \in Nat, NEW n \in Nat
    PROVE  (SeqNo(n) + 1) % Modulus = SeqNo(n + 1)
<1> DEFINE r == SeqNo(n)
<1>1. r \in 0..(Modulus - 1)
  BY SeqNoType
<1>2. Modulus \in Nat /\ Modulus > 2
  BY RtpAssumption
<1>3. SeqNo(n + 1) = IF r + 1 < Modulus THEN r + 1 ELSE r + 1 - Modulus
  <2>1. (n + 1) - n = 1 /\ n <= n + 1 /\ 1 <= Half
    BY Halves
  <2> QED BY <2>1, SeqNoPlus
<1> HIDE DEF r
<1>4. (r + 1) % Modulus = IF (r % Modulus) + 1 < Modulus
                          THEN (r % Modulus) + 1
                          ELSE (r % Modulus) + 1 - Modulus
  BY <1>1, <1>2, ModPlus
<1>5. r % Modulus = r
  BY <1>1, <1>2, SMTT(30)
<1>6. (r + 1) % Modulus = SeqNo(n + 1)
  BY <1>3, <1>4, <1>5
<1> QED BY <1>6 DEF r

-----------------------------------------------------------------------------
(* The list                                                                *)

Packets ==
    [from : Sources, n : Nat, first : BOOLEAN, saved : BOOLEAN, uses : Nat]

Sorted(l, first) ==
    /\ \A i \in DOMAIN l : l[i].n >= first
    /\ \A i, j \in DOMAIN l : i < j => l[i].n < l[j].n

OneSaved(l, free) ==
    IF free THEN \A i \in DOMAIN l : ~l[i].saved
    ELSE \E i \in DOMAIN l :
           l[i].saved /\ \A j \in DOMAIN l : l[j].saved => j = i

(* Sequence r is q with x at place i.                                      *)
PutAt(r, q, i, x) ==
    /\ Len(r) = Len(q) + 1
    /\ \A j \in 1..(Len(q) + 1) :
         r[j] = IF j < i THEN q[j] ELSE IF j = i THEN x ELSE q[j - 1]

(* Packet n comes at place i of the list q.                                *)
Fits(q, i, n) ==
    /\ i \in 1..(Len(q) + 1)
    /\ \A j \in 1..Len(q) : j < i => q[j].n < n
    /\ \A j \in 1..Len(q) : j >= i => n < q[j].n

(* A packet is put in the list.                                            *)
LEMMA InsertedSaved ==
    ASSUME NEW l \in Seq(Packets), NEW p \in Packets,
           NEW i \in 1..(Len(l) + 1), NEW r \in Seq(Packets),
           PutAt(r, l, i, p), OneSaved(l, p.saved)
    PROVE  OneSaved(r, FALSE)
<1> DEFINE len == Len(l)
<1>1. /\ len \in Nat /\ i \in 1..(len + 1)
      /\ DOMAIN l = 1..len /\ DOMAIN r = 1..(len + 1)
      /\ \A j \in 1..(len + 1) :
           r[j] = IF j < i THEN l[j] ELSE IF j = i THEN p ELSE l[j - 1]
  BY DEF PutAt
<1> HIDE DEF len
<1>2. ASSUME NEW j \in 1..(len + 1)
      PROVE  \/ j < i /\ j \in 1..len /\ r[j] = l[j]
             \/ j = i /\ r[j] = p
             \/ j > i /\ j - 1 \in 1..len /\ r[j] = l[j - 1]
  BY <1>1
<1>3. CASE p.saved
  <2>1. \A j \in 1..len : ~l[j].saved
    BY <1>1, <1>3 DEF OneSaved
  <2>2. r[i].saved
    BY <1>1, <1>3
  <2>3. \A j \in 1..(len + 1) : r[j].saved => j = i
    BY <1>2, <2>1
  <2> QED BY <1>1, <2>2, <2>3 DEF OneSaved
<1>4. CASE ~p.saved
  <2>1. PICK k \in 1..len :
          l[k].saved /\ \A j \in 1..len : l[j].saved => j = k
    BY <1>1, <1>4 DEF OneSaved
  <2> DEFINE k1 == IF k < i THEN k ELSE k + 1
  <2>2. k1 \in 1..(len + 1) /\ k1 # i
    BY <1>1
  <2>3. r[k1].saved
    <3>1. CASE k < i
      <4>1. k1 = k /\ k1 < i
        BY <3>1
      <4> QED BY <1>1, <2>1, <2>2, <4>1
    <3>2. CASE ~(k < i)
      <4>1. k1 = k + 1 /\ k1 - 1 = k /\ ~(k1 < i) /\ k1 # i
        BY <1>1, <3>2
      <4>2. r[k1] = l[k1 - 1]
        BY <1>1, <2>2, <4>1
      <4> QED BY <2>1, <4>1, <4>2
    <3> QED BY <3>1, <3>2
  <2>4. ASSUME NEW j \in 1..(len + 1), r[j].saved PROVE j = k1
    <3>1. CASE j < i /\ j \in 1..len /\ r[j] = l[j]
      <4>1. j = k
        BY <2>1, <2>4, <3>1
      <4> QED BY <3>1, <4>1
    <3>2. CASE j = i /\ r[j] = p
      BY <1>4, <2>4, <3>2
    <3>3. CASE j > i /\ j - 1 \in 1..len /\ r[j] = l[j - 1]
      <4>1. j - 1 = k
        BY <2>1, <2>4, <3>3
      <4> QED BY <1>1, <3>3, <4>1
    <3> QED BY <1>2, <3>1, <3>2, <3>3
  <2> HIDE DEF k1
  <2> QED BY <1>1, <2>2, <2>3, <2>4 DEF OneSaved
<1> QED BY <1>3, <1>4

LEMMA InsertedSorted ==
    ASSUME NEW l \in Seq(Packets), NEW p \in Packets,
           NEW i, Fits(l, i, p.n), NEW r \in Seq(Packets),
           PutAt(r, l, i, p), NEW first \in Nat, Sorted(l, first),
           p.n >= first
    PROVE  /\ Sorted(r, first)
           /\ \A j \in DOMAIN r : \/ r[j] = p
                                  \/ \E k \in DOMAIN l : r[j] = l[k]
<1> DEFINE len == Len(l)
<1>1. /\ len \in Nat /\ i \in 1..(len + 1)
      /\ DOMAIN l = 1..len /\ DOMAIN r = 1..(len + 1)
      /\ \A j \in 1..(len + 1) :
           r[j] = IF j < i THEN l[j] ELSE IF j = i THEN p ELSE l[j - 1]
      /\ \A j \in 1..len : j < i => l[j].n < p.n
      /\ \A j \in 1..len : j >= i => p.n < l[j].n
  BY DEF PutAt, Fits
<1>2. \A j \in 1..len : l[j].n \in Nat
  <2>1. \A j \in 1..len : l[j] \in Packets
    BY <1>1
  <2> QED BY <2>1 DEF Packets
<1> HIDE DEF len
<1>3. ASSUME NEW j \in 1..(len + 1)
      PROVE  \/ j < i /\ j \in 1..len /\ r[j] = l[j]
             \/ j = i /\ r[j] = p
             \/ j > i /\ j - 1 \in 1..len /\ j - 1 >= i /\ r[j] = l[j - 1]
  BY <1>1
<1>4. p.n \in Nat
  BY DEF Packets
<1>5. \A j \in 1..(len + 1) : r[j].n >= first
  BY <1>1, <1>3 DEF Sorted
<1>6. \A j, k \in 1..len : j < k => l[j].n < l[k].n
  BY <1>1 DEF Sorted
<1>7. ASSUME NEW j \in 1..(len + 1), NEW k \in 1..(len + 1), j < k
      PROVE  r[j].n < r[k].n
  <2>1. CASE j < i /\ j \in 1..len /\ r[j] = l[j]
    <3>1. CASE k < i /\ k \in 1..len /\ r[k] = l[k]
      BY <1>6, <1>7, <2>1, <3>1
    <3>2. CASE k = i /\ r[k] = p
      BY <1>1, <2>1, <3>2
    <3>3. CASE k > i /\ k - 1 \in 1..len /\ k - 1 >= i /\ r[k] = l[k - 1]
      <4>1. j < k - 1
        BY <1>1, <2>1, <3>3
      <4> QED BY <1>6, <2>1, <3>3, <4>1
    <3> QED BY <1>3, <3>1, <3>2, <3>3
  <2>2. CASE j = i /\ r[j] = p
    <3>1. k > i /\ k - 1 \in 1..len /\ k - 1 >= i /\ r[k] = l[k - 1]
      BY <1>1, <1>3, <1>7, <2>2
    <3> QED BY <1>1, <2>2, <3>1
  <2>3. CASE j > i /\ j - 1 \in 1..len /\ j - 1 >= i /\ r[j] = l[j - 1]
    <3>1. k > i /\ k - 1 \in 1..len /\ k - 1 >= i /\ r[k] = l[k - 1]
      BY <1>1, <1>3, <1>7, <2>3
    <3>2. j - 1 < k - 1
      BY <1>7
    <3> QED BY <1>6, <2>3, <3>1, <3>2
  <2> QED BY <1>3, <2>1, <2>2, <2>3
<1>8. \A j \in 1..(len + 1) :
        r[j] = p \/ \E k \in 1..len : r[j] = l[k]
  BY <1>3
<1> QED BY <1>1, <1>5, <1>7, <1>8 DEF Sorted

(* The first packet is taken.                                              *)
LEMMA TakingHead ==
    ASSUME NEW l \in Seq(Packets), l # <<>>,
           NEW free \in BOOLEAN, OneSaved(l, free)
    PROVE  /\ Tail(l) \in Seq(Packets)
           /\ Head(l) \in Packets /\ Head(l) = l[1] /\ 1 \in DOMAIN l
           /\ \A j \in DOMAIN Tail(l) :
                j + 1 \in DOMAIN l /\ j + 1 # 1 /\ Tail(l)[j] = l[j + 1]
           /\ OneSaved(Tail(l), free \/ Head(l).saved)
           /\ \A first \in Nat : Sorted(l, first) =>
                Head(l).n >= first /\ Sorted(Tail(l), Head(l).n + 1)
<1> DEFINE len == Len(l)
           t == Tail(l)
<1>1. /\ len \in Nat /\ len > 0 /\ DOMAIN l = 1..len
      /\ t \in Seq(Packets) /\ Len(t) = len - 1
      /\ \A j \in 1..(len - 1) : t[j] = l[j + 1]
      /\ Head(l) = l[1]
  OBVIOUS
<1>2. DOMAIN t = 1..(len - 1) /\ 1 \in 1..len
  BY <1>1
<1>3. \A j \in 1..len : l[j] \in Packets
  BY <1>1
<1> HIDE DEF len, t
<1>4. \A j \in 1..len : l[j].n \in Nat /\ l[j].saved \in BOOLEAN
  BY <1>3 DEF Packets
<1>5. \A j \in 1..(len - 1) : j + 1 \in 1..len /\ t[j] = l[j + 1] /\ 1 < j + 1
  BY <1>1
<1>6. ASSUME NEW first \in Nat, Sorted(l, first)
      PROVE  l[1].n >= first /\ Sorted(t, l[1].n + 1)
  <2>1. /\ \A j \in 1..len : l[j].n >= first
        /\ \A j, k \in 1..len : j < k => l[j].n < l[k].n
    BY <1>1, <1>6 DEF Sorted
  <2>2. \A j \in 1..(len - 1) : t[j].n >= l[1].n + 1
    BY <1>2, <1>4, <1>5, <2>1
  <2>3. ASSUME NEW j \in 1..(len - 1), NEW k \in 1..(len - 1), j < k
        PROVE  t[j].n < t[k].n
    <3>1. j + 1 < k + 1
      BY <2>3
    <3> QED BY <1>5, <2>1, <3>1
  <2> QED BY <1>2, <2>1, <2>2, <2>3 DEF Sorted
<1>7. OneSaved(t, free \/ l[1].saved)
  <2>1. CASE free
    <3>1. \A j \in 1..len : ~l[j].saved
      BY <1>1, <2>1 DEF OneSaved
    <3> QED BY <1>2, <1>5, <2>1, <3>1 DEF OneSaved
  <2>2. CASE ~free
    <3>1. PICK k \in 1..len :
            l[k].saved /\ \A j \in 1..len : l[j].saved => j = k
      BY <1>1, <2>2 DEF OneSaved
    <3>2. CASE k = 1
      <4>1. l[1].saved
        BY <3>1, <3>2
      <4>2. \A j \in 1..(len - 1) : ~t[j].saved
        <5> TAKE j \in 1..(len - 1)
        <5>1. j + 1 # 1 /\ j + 1 \in 1..len /\ t[j] = l[j + 1]
          BY <1>5
        <5> QED BY <3>1, <3>2, <5>1
      <4> QED BY <1>2, <4>1, <4>2 DEF OneSaved
    <3>3. CASE k # 1
      <4>1. ~l[1].saved
        BY <1>2, <3>1, <3>3
      <4>2. k - 1 \in 1..(len - 1) /\ (k - 1) + 1 = k
        BY <1>1, <3>3
      <4>3. t[k - 1].saved
        BY <1>5, <3>1, <4>2
      <4>4. ASSUME NEW j \in 1..(len - 1), t[j].saved PROVE j = k - 1
        <5>1. j + 1 = k
          BY <1>5, <3>1, <4>4
        <5> QED BY <5>1
      <4>5. ~(free \/ l[1].saved)
        BY <2>2, <4>1
      <4> QED BY <1>2, <4>2, <4>3, <4>4, <4>5 DEF OneSaved
    <3> QED BY <3>2, <3>3
  <2> QED BY <2>1, <2>2
<1> QED BY <1>1, <1>2, <1>3, <1>5, <1>6, <1>7 DEF t

(* One more use is counted for the first packet.                           *)
OnceMore(l) == [l EXCEPT ![1].uses = @ + 1]

LEMMA CountingUse ==
    ASSUME NEW l \in Seq(Packets), l # <<>>, NEW r, r = OnceMore(l)
    PROVE  /\ r \in Seq(Packets) /\ DOMAIN r = DOMAIN l /\ Len(r) = Len(l)
           /\ r # <<>> /\ Head(r) = r[1] /\ r[1].uses = l[1].uses + 1
           /\ \A i \in DOMAIN l :
                /\ r[i].from = l[i].from /\ r[i].n = l[i].n
                /\ r[i].first = l[i].first /\ r[i].saved = l[i].saved
                /\ i # 1 => r[i].uses = l[i].uses
           /\ \A free : OneSaved(l, free) => OneSaved(r, free)
           /\ \A first \in Nat : Sorted(l, first) =>
                Head(l).n >= first /\ Sorted(r, Head(l).n)
<1>1. /\ Len(l) \in Nat /\ DOMAIN l = 1..Len(l) /\ 1 \in DOMAIN l
      /\ Head(l) = l[1] /\ \A i \in DOMAIN l : l[i] \in Packets
  OBVIOUS
<1> DEFINE x == [l[1] EXCEPT !.uses = @ + 1]
<1>2. /\ x \in Packets /\ x.from = l[1].from /\ x.n = l[1].n
      /\ x.first = l[1].first /\ x.saved = l[1].saved
      /\ x.uses = l[1].uses + 1
  <2>1. PICK y \in Packets : y = l[1]
    BY <1>1
  <2>2. y.uses + 1 \in Nat
    BY DEF Packets
  <2>3. [y EXCEPT !.uses = @ + 1] \in Packets
    BY <2>2 DEF Packets
  <2>4. /\ [y EXCEPT !.uses = @ + 1].from = y.from
        /\ [y EXCEPT !.uses = @ + 1].n = y.n
        /\ [y EXCEPT !.uses = @ + 1].first = y.first
        /\ [y EXCEPT !.uses = @ + 1].saved = y.saved
        /\ [y EXCEPT !.uses = @ + 1].uses = y.uses + 1
    BY DEF Packets
  <2> QED BY <2>1, <2>3, <2>4
<1>3. r = [i \in DOMAIN l |-> IF i = 1 THEN x ELSE l[i]]
  BY DEF OnceMore
<1> HIDE DEF x
<1>4. /\ DOMAIN r = DOMAIN l /\ r[1] = x
      /\ \A i \in DOMAIN l : i # 1 => r[i] = l[i]
      /\ \A i \in DOMAIN l : r[i] \in Packets
  BY <1>1, <1>2, <1>3
<1>5. r \in Seq(Packets) /\ Len(r) = Len(l)
  <2>1. r \in [1..Len(l) -> Packets]
    BY <1>1, <1>2, <1>3
  <2> QED BY <1>1, <2>1
<1>6. r # <<>> /\ Head(r) = r[1]
  <2>1. Len(r) # 0
    BY <1>1, <1>5
  <2> QED BY <1>5, <2>1
<1>7. \A i \in DOMAIN l :
        /\ r[i].from = l[i].from /\ r[i].n = l[i].n
        /\ r[i].first = l[i].first /\ r[i].saved = l[i].saved
        /\ i # 1 => r[i].uses = l[i].uses
  BY <1>2, <1>4
<1>8. \A free : OneSaved(l, free) => OneSaved(r, free)
  BY <1>4, <1>7 DEF OneSaved
<1>9. ASSUME NEW first \in Nat, Sorted(l, first)
      PROVE  l[1].n >= first /\ Sorted(r, l[1].n)
  <2>1. \A i \in DOMAIN l : l[i].n \in Nat /\ (i = 1 \/ 1 < i)
    BY <1>1 DEF Packets
  <2>2. \A i \in DOMAIN l : l[i].n >= l[1].n
    BY <1>1, <1>9, <2>1 DEF Sorted
  <2>3. \A i \in DOMAIN l : r[i].n >= l[1].n
    BY <1>7, <2>2
  <2>4. \A i, j \in DOMAIN l : i < j => r[i].n < r[j].n
    BY <1>7, <1>9 DEF Sorted
  <2> QED BY <1>1, <1>4, <1>9, <2>3, <2>4 DEF Sorted
<1> QED BY <1>1, <1>2, <1>4, <1>5, <1>6, <1>7, <1>8, <1>9


-----------------------------------------------------------------------------
(* Putting a packet in the list                                            *)

LEMMA InsertAtProperties ==
    ASSUME NEW S, NEW q \in Seq(S), NEW i \in 1..(Len(q) + 1), NEW x \in S
    PROVE  LET r == InsertAt(q, i, x) IN
           /\ r \in Seq(S) /\ Len(r) = Len(q) + 1
           /\ \A j \in 1..(Len(q) + 1) :
                r[j] = IF j < i THEN q[j] ELSE IF j = i THEN x ELSE q[j - 1]
<1> DEFINE len == Len(q)
           a == SubSeq(q, 1, i - 1)
           b == SubSeq(q, i, len)
           c == a \o <<x>>
           r == InsertAt(q, i, x)
<1>1. len \in Nat /\ i \in 1..(len + 1)
  OBVIOUS
<1>2. /\ a \in Seq(S) /\ Len(a) = i - 1
      /\ \A j \in 1..(i - 1) : a[j] = q[j]
  BY <1>1
<1>3. /\ b \in Seq(S) /\ Len(b) = len - i + 1
      /\ \A j \in 1..(len - i + 1) : b[j] = q[j + i - 1]
  BY <1>1
<1>4. r = c \o b
  BY DEF InsertAt
<1>5. <<x>> \in Seq(S) /\ Len(<<x>>) = 1 /\ <<x>>[1] = x
  OBVIOUS
<1> HIDE DEF a, b, r, len
<1>6. /\ c \in Seq(S) /\ Len(c) = i
      /\ \A j \in 1..(i - 1) : c[j] = q[j]
      /\ c[i] = x
  <2>1. /\ c \in Seq(S) /\ Len(c) = Len(a) + 1
        /\ \A j \in 1..Len(a) : c[j] = a[j]
        /\ \A j \in 1..1 : c[Len(a) + j] = <<x>>[j]
    BY <1>2, <1>5, ConcatProperties
  <2>2. Len(c) = i /\ i = Len(a) + 1
    BY <1>1, <1>2, <2>1
  <2>3. c[i] = x
    BY <1>5, <2>1, <2>2
  <2>4. \A j \in 1..(i - 1) : c[j] = q[j]
    BY <1>2, <2>1
  <2> QED BY <2>1, <2>2, <2>3, <2>4
<1> HIDE DEF c
<1>7. /\ r \in Seq(S) /\ Len(r) = i + Len(b)
      /\ \A j \in 1..i : r[j] = c[j]
      /\ \A j \in 1..Len(b) : r[i + j] = b[j]
  <2>1. /\ r \in Seq(S) /\ Len(r) = Len(c) + Len(b)
        /\ \A j \in 1..Len(c) : r[j] = c[j]
        /\ \A j \in 1..Len(b) : r[Len(c) + j] = b[j]
    <3>1. b \in Seq(S) /\ c \in Seq(S)
      BY <1>3, <1>6
    <3> QED BY ONLY <1>4, <3>1, ConcatProperties
  <2>2. Len(c) = i
    BY <1>6
  <2> QED BY <2>1, <2>2
<1>8. Len(r) = len + 1
  BY <1>1, <1>3, <1>7
<1>9. ASSUME NEW j \in 1..(len + 1)
      PROVE  r[j] = IF j < i THEN q[j] ELSE IF j = i THEN x ELSE q[j - 1]
  <2>1. CASE j < i
    <3>1. j \in 1..i /\ j \in 1..(i - 1)
      BY <1>1, <2>1
    <3> QED BY <1>6, <1>7, <2>1, <3>1
  <2>2. CASE j = i
    <3>1. i \in 1..i
      BY <1>1
    <3> QED BY <1>6, <1>7, <2>2, <3>1
  <2>3. CASE j > i
    <3> DEFINE k == j - i
    <3>1. /\ k \in 1..(len - i + 1) /\ i + k = j /\ k + i - 1 = j - 1
          /\ ~(j < i) /\ j # i
      BY <1>1, <2>3
    <3> HIDE DEF k
    <3>2. r[i + k] = b[k] /\ b[k] = q[k + i - 1]
      BY <1>3, <1>7, <3>1
    <3> QED BY <3>1, <3>2
  <2> QED BY <1>1, <2>1, <2>2, <2>3
<1> QED BY <1>7, <1>8, <1>9 DEF r, len

LEMMA PutBetween ==
    ASSUME NEW S, NEW q \in Seq(S), NEW i \in 1..(Len(q) + 1), NEW x \in S,
           NEW r, r = InsertAt(q, i, x)
    PROVE  r \in Seq(S) /\ PutAt(r, q, i, x)
<1>1. /\ InsertAt(q, i, x) \in Seq(S)
      /\ Len(InsertAt(q, i, x)) = Len(q) + 1
      /\ \A j \in 1..(Len(q) + 1) :
           InsertAt(q, i, x)[j] = IF j < i THEN q[j]
                                  ELSE IF j = i THEN x ELSE q[j - 1]
  BY InsertAtProperties
<1> QED BY <1>1, Zenon DEF PutAt


(* The types, and what relates the list to the numbers.                    *)
SenderTypes ==
    /\ senders \in [Sources -> [stream : Seq(Headers),
                                firstSeqNo : 0..(Modulus - 1),
                                sent : Nat]]
    /\ \A s \in Sources : senders[s].sent <= Len(senders[s].stream)
    /\ fLastReceivedSSRC \in Sources

BufferTypes ==
    /\ fHaveSeenFirstPacket \in BOOLEAN
    /\ fNextExpectedSeqNo \in 0..(Modulus - 1)
    /\ list \in Seq(Packets)
    /\ fSavedPacketFree \in BOOLEAN

FrameTypes ==
    /\ reading \in BOOLEAN
    /\ at \in {"event loop", "loop"}
    /\ fNeedDelivery \in BOOLEAN /\ lossInFrame \in BOOLEAN
    /\ frame \in Seq(Nat \cup {Old})
    /\ next \in Nat /\ used \subseteq Nat
    /\ delivered \in Seq([packets : Seq(Nat \cup {Old}), by : Nat,
                          part : Nat])
    /\ astray \in BOOLEAN

LEMMA RtpTypes == RtpTypeOK <=> SenderTypes /\ BufferTypes /\ FrameTypes
BY Zenon DEF RtpTypeOK, SenderTypes, BufferTypes, FrameTypes, Packets

LEMMA RtpTypesNext == SenderTypes' /\ BufferTypes' /\ FrameTypes' => RtpTypeOK'
BY Zenon DEF RtpTypeOK, SenderTypes, BufferTypes, FrameTypes, Packets

(* The list holds packets of the sender that were sent and not yet used,   *)
(* in order, and the sender is at most half the range ahead.               *)
Window ==
    /\ \A i \in DOMAIN list :
         list[i].from = fLastReceivedSSRC /\ list[i].n < sent
    /\ Sorted(list, next)
    /\ fHaveSeenFirstPacket => /\ fNextExpectedSeqNo = SeqNo(next)
                               /\ next <= sent /\ sent <= next + Half

Descriptors ==
    /\ OneSaved(list, fSavedPacketFree)
    /\ ~fHaveSeenFirstPacket => list = <<>>

ListInv == RtpTypeOK /\ Descriptors /\ (~astray => Window)

LEMMA NumberType ==
    ASSUME SenderTypes, NEW s \in Sources, NEW n \in Nat
    PROVE  /\ SeqNoOf(s, n) \in 0..(Modulus - 1)
           /\ First \in Nat /\ sent \in Nat
<1>1. /\ senders[s].firstSeqNo \in 0..(Modulus - 1)
      /\ First \in 0..(Modulus - 1) /\ sent \in Nat
  BY DEF SenderTypes, First, sent
<1>2. Modulus \in Nat /\ Modulus > 0
  BY RtpAssumption
<1>3. senders[s].firstSeqNo + n \in Nat
  BY <1>1, <1>2
<1> QED BY <1>1, <1>2, <1>3, DivMod DEF SeqNoOf

(* Where storePacket puts a packet that is not the last.                   *)
LEMMA PlaceIs ==
    ASSUME list \in Seq(Packets), NEW x
    PROVE  /\ Place(x) \in 1..(Len(list) + 1)
           /\ Place(x) <= Len(list) => \/ x = Number(list[Place(x)])
                                       \/ seqNumLT(x, Number(list[Place(x)]))
           /\ \A j \in 1..Len(list) :
                j < Place(x) => /\ x # Number(list[j])
                                /\ ~seqNumLT(x, Number(list[j]))
<1> DEFINE len == Len(list)
           After == {i \in 1..(len + 1) :
                       i <= len => \/ x = Number(list[i])
                                   \/ seqNumLT(x, Number(list[i]))}
<1>1. Place(x) = CHOOSE i \in After : \A j \in After : i <= j
  BY DEF Place, Min
<1>2. len \in Nat
  OBVIOUS
<1>3. After \in SUBSET Nat /\ len + 1 \in After
  BY <1>2
<1>4. /\ After \subseteq 1..(len + 1)
      /\ \A j \in 1..len : j \in After <=> \/ x = Number(list[j])
                                           \/ seqNumLT(x, Number(list[j]))
  BY <1>2
<1> HIDE DEF After, len
<1>5. \E i \in After : \A j \in After : i <= j
  <2>1. After # {}
    BY <1>3
  <2> QED BY <1>3, <2>1, HasMin
<1>6. Place(x) \in After /\ \A j \in After : Place(x) <= j
  BY <1>1, <1>5
<1>7. ASSUME NEW j \in 1..len, j < Place(x) PROVE j \notin After
  <2>1. Place(x) \in Nat
    BY <1>3, <1>6
  <2> QED BY <1>2, <1>6, <1>7, <2>1
<1>8. Place(x) <= len => Place(x) \in 1..len
  <2>1. Place(x) \in 1..(len + 1)
    BY <1>4, <1>6
  <2> QED BY <1>2, <2>1
<1> QED BY <1>4, <1>6, <1>7, <1>8 DEF len

(* What storePacket puts in the list, and where.                           *)
Descriptor(s, n, isFirst) ==
    [from |-> s, n |-> n, first |-> isFirst, saved |-> fSavedPacketFree,
     uses |-> 0]
Position(seqNo) == IF GoesLast(seqNo) THEN Len(list) + 1 ELSE Place(seqNo)

LEMMA Stored ==
    ASSUME BufferTypes, NEW s \in Sources, NEW n \in Nat,
           NEW isFirst \in BOOLEAN, storePacket(s, n, isFirst),
           ~seqNumLT(SeqNoOf(s, n), fNextExpectedSeqNo'),
           ~IsDuplicate(SeqNoOf(s, n))
    PROVE  /\ Descriptor(s, n, isFirst) \in Packets
           /\ Position(SeqNoOf(s, n)) \in 1..(Len(list) + 1)
           /\ list' \in Seq(Packets)
           /\ PutAt(list', list, Position(SeqNoOf(s, n)),
                    Descriptor(s, n, isFirst))
           /\ fSavedPacketFree' = FALSE
<1> DEFINE x == SeqNoOf(s, n)
           len == Len(list)
           p == Descriptor(s, n, isFirst)
           i == Position(x)
<1>1. list \in Seq(Packets) /\ fSavedPacketFree \in BOOLEAN /\ len \in Nat
  BY DEF BufferTypes
<1>2. p \in Packets
  BY <1>1 DEF Packets, Descriptor
<1>3. /\ list' = IF GoesLast(x) THEN Append(list, p)
                 ELSE InsertAt(list, Place(x), p)
      /\ fSavedPacketFree' = FALSE
      /\ i = IF GoesLast(x) THEN len + 1 ELSE Place(x)
  BY DEF storePacket, Descriptor, Position
<1> HIDE DEF x, p, i
<1>4. CASE GoesLast(x)
  <2> DEFINE r == Append(list, p)
  <2>1. i = len + 1 /\ list' = r
    BY <1>3, <1>4
  <2>2. /\ r \in Seq(Packets) /\ Len(r) = len + 1 /\ r[len + 1] = p
        /\ \A j \in 1..len : r[j] = list[j]
    BY <1>1, <1>2
  <2> HIDE DEF r
  <2>3. \A j \in 1..(len + 1) :
          r[j] = IF j < i THEN list[j] ELSE IF j = i THEN p ELSE list[j - 1]
    <3> TAKE j \in 1..(len + 1)
    <3>1. (j = len + 1 /\ j = i) \/ (j \in 1..len /\ j < i)
      BY <1>1, <2>1
    <3> QED BY <2>2, <3>1
  <2> QED BY <1>1, <1>2, <1>3, <2>1, <2>2, <2>3 DEF PutAt, x, p, i
<1>5. CASE ~GoesLast(x)
  <2>1. i = Place(x)
    BY <1>3, <1>5
  <2>2. i \in 1..(len + 1)
    BY <1>1, <2>1, PlaceIs
  <2>3. list' = InsertAt(list, i, p)
    BY <1>3, <1>5, <2>1
  <2>4. list' \in Seq(Packets) /\ PutAt(list', list, i, p)
    BY <1>1, <1>2, <2>2, <2>3, PutBetween
  <2> QED BY <1>2, <1>3, <2>2, <2>4 DEF x, p, i
<1> QED BY <1>4, <1>5 DEF x, p, i

(* How the numbers of packets that may be stored compare.                  *)
LEMMA Comparing ==
    ASSUME ListInv, ~astray, fHaveSeenFirstPacket,
           NEW n \in Nat, n < sent, n >= next, NEW i \in DOMAIN list
    PROVE  /\ SeqNo(n) = Number(list[i]) <=> n = list[i].n
           /\ seqNumLT(SeqNo(n), Number(list[i])) <=> n < list[i].n
           /\ seqNumLT(Number(list[i]), SeqNo(n)) <=> list[i].n < n
<1> DEFINE k == list[i].n
<1>1. SenderTypes /\ BufferTypes /\ FrameTypes /\ Window
  BY RtpTypes DEF ListInv
<1>2. k \in Nat
  <2>1. list[i] \in Packets
    BY <1>1 DEF BufferTypes
  <2> QED BY <2>1 DEF Packets
<1>3. Number(list[i]) = SeqNo(k)
  BY <1>1 DEF Window, Number, SeqNo
<1>4. k < sent /\ k >= next /\ sent <= next + Half /\ next \in Nat
  BY <1>1 DEF Window, Sorted, FrameTypes
<1>5. First \in Nat /\ sent \in Nat
  <2>1. fLastReceivedSSRC \in Sources
    BY <1>1 DEF SenderTypes
  <2> QED BY <1>1, <2>1, NumberType
<1> HIDE DEF k
<1>6. n - k < Half /\ k - n < Half
  BY <1>2, <1>4, <1>5, Halves
<1>7. /\ SeqNo(n) = SeqNo(k) <=> n = k
      /\ seqNumLT(SeqNo(n), SeqNo(k)) <=> n < k
      /\ seqNumLT(SeqNo(k), SeqNo(n)) <=> k < n
  BY <1>2, <1>5, <1>6, SeqNumOrder
<1> QED BY <1>3, <1>7 DEF k

(* The place fits, if the numbers tell the order.                          *)
LEMMA PlaceFits ==
    ASSUME ListInv, ~astray, fHaveSeenFirstPacket,
           NEW n \in Nat, n < sent, n >= next, ~IsDuplicate(SeqNo(n))
    PROVE  Fits(list, Position(SeqNo(n)), n)
<1> DEFINE len == Len(list)
           x == SeqNo(n)
           i == Position(x)
<1>1. /\ list \in Seq(Packets) /\ len \in Nat /\ DOMAIN list = 1..len
      /\ \A j, k \in 1..len : j < k => list[j].n < list[k].n
  BY RtpTypes DEF ListInv, BufferTypes, Window, Sorted
<1>2. \A j \in 1..len : list[j].n \in Nat
  <2>1. \A j \in 1..len : list[j] \in Packets
    BY <1>1
  <2> QED BY <2>1 DEF Packets
<1>3. \A j \in 1..len : /\ x = Number(list[j]) <=> n = list[j].n
                        /\ seqNumLT(x, Number(list[j])) <=> n < list[j].n
                        /\ seqNumLT(Number(list[j]), x) <=> list[j].n < n
  BY <1>1, Comparing
<1>4. list # <<>> => len \in 1..len /\ Last(list) = list[len]
  <2>1. list # <<>> => len # 0
    BY <1>1
  <2> QED BY <1>1, <2>1 DEF Last
<1>5. /\ Place(x) \in 1..(len + 1)
      /\ Place(x) <= len => \/ x = Number(list[Place(x)])
                            \/ seqNumLT(x, Number(list[Place(x)]))
      /\ \A j \in 1..len :
           j < Place(x) => /\ x # Number(list[j])
                           /\ ~seqNumLT(x, Number(list[j]))
  BY <1>1, PlaceIs
<1>6. GoesLast(x) => /\ list # <<>> /\ i = len + 1
                     /\ seqNumLT(Number(Last(list)), x)
  BY DEF GoesLast, Position
<1>7. ~GoesLast(x) => i = Place(x)
  BY DEF Position
<1>8. ~GoesLast(x) /\ Place(x) <= len => x # Number(list[Place(x)])
  <2>1. Place(x) <= len => list # <<>>
    BY <1>1, <1>5
  <2> QED BY <2>1 DEF IsDuplicate
<1> HIDE DEF len, x, i
<1>9. CASE GoesLast(x)
  <2>1. len \in 1..len /\ list[len].n < n
    BY <1>3, <1>4, <1>6, <1>9
  <2>2. \A j \in 1..len : list[j].n < n
    <3> TAKE j \in 1..len
    <3>1. j = len \/ j < len
      BY <1>1
    <3>2. j < len => list[j].n < list[len].n
      BY <1>1, <2>1
    <3> QED BY <1>2, <2>1, <3>1, <3>2
  <2>3. Fits(list, i, n)
    BY <1>1, <1>6, <1>9, <2>2 DEF Fits, len
  <2> QED BY <2>3 DEF i, x
<1>10. CASE ~GoesLast(x)
  <2>1. i \in 1..(len + 1)
    BY <1>5, <1>7, <1>10
  <2>2. ASSUME NEW j \in 1..len, j < i PROVE list[j].n < n
    <3>1. ~(n = list[j].n) /\ ~(n < list[j].n)
      BY <1>3, <1>5, <1>7, <1>10, <2>2
    <3> QED BY <1>2, <3>1
  <2>3. ASSUME NEW j \in 1..len, j >= i PROVE n < list[j].n
    <3>1. i \in 1..len
      BY <1>1, <2>1, <2>3
    <3>2. n < list[i].n
      BY <1>3, <1>5, <1>7, <1>8, <1>10, <3>1
    <3>3. i = j \/ i < j
      BY <2>3, <3>1
    <3>4. i < j => list[i].n < list[j].n
      BY <1>1, <3>1
    <3> QED BY <1>2, <3>1, <3>2, <3>3, <3>4
  <2>4. Fits(list, i, n)
    BY <2>1, <2>2, <2>3 DEF Fits, len
  <2> QED BY <2>4 DEF i, x
<1> QED BY <1>9, <1>10 DEF i, x

-----------------------------------------------------------------------------
(* The steps                                                               *)

LEMMA Sent ==
    ASSUME SenderTypes, NEW s \in Sources, Send(s)
    PROVE  /\ SenderTypes'
           /\ \A t \in Sources :
                /\ senders'[t].stream = senders[t].stream
                /\ senders'[t].firstSeqNo = senders[t].firstSeqNo
                /\ senders'[t].sent = IF t = s THEN senders[t].sent + 1
                                      ELSE senders[t].sent
<1> DEFINE Kinds == [stream : Seq(Headers), firstSeqNo : 0..(Modulus - 1),
                     sent : Nat]
           x == [senders[s] EXCEPT !.sent = @ + 1]
<1>1. /\ senders \in [Sources -> Kinds] /\ fLastReceivedSSRC \in Sources
      /\ \A t \in Sources : senders[t].sent <= Len(senders[t].stream)
  BY DEF SenderTypes
<1>2. senders[s].sent \in Nat /\ Len(senders[s].stream) \in Nat
  <2>1. senders[s].stream \in Seq(Headers) /\ senders[s].sent \in Nat
    BY <1>1
  <2> QED BY <2>1
<1>3. /\ senders[s].sent < Len(senders[s].stream)
      /\ senders' = [t \in Sources |-> IF t = s THEN x ELSE senders[t]]
      /\ fLastReceivedSSRC' = fLastReceivedSSRC
  BY <1>1 DEF Send
<1>4. /\ x \in Kinds /\ x.stream = senders[s].stream
      /\ x.firstSeqNo = senders[s].firstSeqNo
      /\ x.sent = senders[s].sent + 1
  <2>1. senders[s] \in Kinds
    BY <1>1
  <2> QED BY <2>1
<1> HIDE DEF x, Kinds
<1>5. senders' \in [Sources -> Kinds]
  BY <1>1, <1>3, <1>4
<1>6. \A t \in Sources :
        /\ senders'[t].stream = senders[t].stream
        /\ senders'[t].firstSeqNo = senders[t].firstSeqNo
        /\ senders'[t].sent = IF t = s THEN senders[t].sent + 1
                              ELSE senders[t].sent
  BY <1>3, <1>4
<1>7. \A t \in Sources : senders'[t].sent <= Len(senders'[t].stream)
  BY <1>1, <1>2, <1>3, <1>6
<1> QED BY <1>1, <1>3, <1>5, <1>6, <1>7 DEF SenderTypes, Kinds

LEMMA Sending ==
    ASSUME ListInv, NEW s \in Sources, Send(s)
    PROVE  ListInv'
<1>1. /\ SenderTypes /\ BufferTypes /\ FrameTypes
      /\ Descriptors /\ (~astray => Window)
  BY RtpTypes DEF ListInv
<1>2. /\ UNCHANGED <<fLastReceivedSSRC, reading, bufferVars, at, frameVars,
                     next, used, delivered>>
      /\ astray' = (astray \/ /\ s = fLastReceivedSSRC
                              /\ fHaveSeenFirstPacket
                              /\ senders[s].sent >= next + Half)
  BY DEF Send
<1>3. SenderTypes' /\ BufferTypes' /\ FrameTypes' /\ Descriptors'
  <2>1. SenderTypes'
    BY <1>1, Sent
  <2>2. BufferTypes' /\ Descriptors'
    BY <1>1, <1>2 DEF bufferVars, BufferTypes, Descriptors
  <2>3. FrameTypes'
    BY <1>1, <1>2 DEF frameVars, FrameTypes
  <2> QED BY <2>1, <2>2, <2>3
<1>4. ASSUME ~astray' PROVE Window'
  <2>1. /\ Window
        /\ s = fLastReceivedSSRC /\ fHaveSeenFirstPacket =>
             ~(sent >= next + Half)
    BY <1>1, <1>2, <1>4 DEF sent
  <2>2. /\ fLastReceivedSSRC \in Sources /\ next \in Nat /\ Half \in Nat
        /\ sent \in Nat
    <3>1. fLastReceivedSSRC \in Sources /\ next \in Nat
      BY <1>1 DEF SenderTypes, FrameTypes
    <3> QED BY <1>1, <3>1, NumberType, Halves
  <2>3. /\ sent' = IF s = fLastReceivedSSRC THEN sent + 1 ELSE sent
        /\ SeqNo(next)' = SeqNo(next)
        /\ fLastReceivedSSRC' = fLastReceivedSSRC /\ next' = next
        /\ list' = list /\ fHaveSeenFirstPacket' = fHaveSeenFirstPacket
        /\ fNextExpectedSeqNo' = fNextExpectedSeqNo
    BY <1>1, <1>2, <2>2, Sent DEF sent, SeqNo, SeqNoOf, bufferVars
  <2>4. \A i \in DOMAIN list :
          list[i].from = fLastReceivedSSRC /\ list[i].n < sent'
    <3> TAKE i \in DOMAIN list
    <3>1. list[i] \in Packets
      BY <1>1 DEF BufferTypes
    <3>2. list[i].n \in Nat
      BY <3>1 DEF Packets
    <3> QED BY <2>1, <2>2, <2>3, <3>2 DEF Window
  <2>5. fHaveSeenFirstPacket => /\ fNextExpectedSeqNo = SeqNo(next)
                                /\ next <= sent' /\ sent' <= next + Half
    BY <2>1, <2>2, <2>3 DEF Window
  <2> QED BY <2>1, <2>3, <2>4, <2>5 DEF Window
<1> QED BY <1>3, <1>4, RtpTypesNext DEF ListInv

(* The packet with which the reception begins.                             *)
LEMMA FirstStored ==
    ASSUME SenderTypes, BufferTypes, NEW s \in Sources, NEW n \in Nat,
           list = <<>>, storePacket(s, n, TRUE)
    PROVE  /\ list' \in Seq(Packets) /\ DOMAIN list' = {1}
           /\ list' # <<>> /\ Head(list') = list'[1]
           /\ list'[1] = [from |-> s, n |-> n, first |-> TRUE,
                          saved |-> fSavedPacketFree, uses |-> 0]
           /\ fHaveSeenFirstPacket' = TRUE
           /\ fNextExpectedSeqNo' = SeqNoOf(s, n)
           /\ fSavedPacketFree' = FALSE
<1> DEFINE x == SeqNoOf(s, n)
<1>1. x \in Int /\ Half \in Nat
  BY NumberType, Halves
<1>2. fNextExpectedSeqNo' = x /\ fHaveSeenFirstPacket' = TRUE
  BY DEF storePacket
<1>3. ~seqNumLT(x, x)
  <2> HIDE DEF x
  <2> QED BY <1>1 DEF seqNumLT
<1>4. ~IsDuplicate(x) /\ ~GoesLast(x)
  BY DEF IsDuplicate, GoesLast
<1>5. PICK p : p = Descriptor(s, n, TRUE)
  OBVIOUS
<1>6. PICK i : i = Position(x)
  OBVIOUS
<1>7. /\ i \in 1..(Len(list) + 1)
      /\ list' \in Seq(Packets) /\ PutAt(list', list, i, p)
      /\ fSavedPacketFree' = FALSE
  <2>1. ~seqNumLT(SeqNoOf(s, n), fNextExpectedSeqNo')
    BY <1>2, <1>3
  <2> QED BY <1>4, <1>5, <1>6, <2>1, Stored
<1>8. Len(list) = 0
  OBVIOUS
<1>9. Len(list') = 1 /\ list'[1] = p
  <2>1. i = 1
    BY <1>7, <1>8
  <2>2. /\ Len(list') = 1
        /\ \A j \in 1..1 : list'[j] = IF j < i THEN list[j]
                             ELSE IF j = i THEN p ELSE list[j - 1]
    BY <1>7, <1>8 DEF PutAt
  <2> QED BY <2>1, <2>2
<1>10. DOMAIN list' = {1} /\ list' # <<>> /\ Head(list') = list'[1]
  <2> DEFINE l == list'
  <2>1. l \in Seq(Packets) /\ Len(l) = 1
    BY <1>7, <1>9
  <2> HIDE DEF l
  <2>2. DOMAIN l = {1} /\ l # <<>> /\ Head(l) = l[1]
    BY <2>1
  <2> QED BY <2>2 DEF l
<1> QED BY <1>2, <1>5, <1>7, <1>9, <1>10 DEF Descriptor

(* Of a packet that arrives: whether it is stored or not.                  *)
LEMMA ReadTypes ==
    ASSUME ListInv, NEW s \in Sources, NEW n \in 0..(senders[s].sent - 1),
           networkReadHandler1(s, n)
    PROVE  RtpTypeOK' /\ Descriptors'
<1>1. /\ SenderTypes /\ BufferTypes /\ FrameTypes /\ Descriptors
  BY RtpTypes DEF ListInv
<1>2. n \in Nat
  OBVIOUS
<1> DEFINE changes == s # fLastReceivedSSRC
           isFirst == changes \/ ~fHaveSeenFirstPacket
           x == SeqNoOf(s, n)
<1>3. /\ fLastReceivedSSRC' = s
      /\ storePacket(s, n, isFirst)
      /\ next' = IF isFirst THEN n ELSE next
      /\ IF changes
         THEN /\ astray' = (list # <<>>)
              /\ used' = {} /\ delivered' = <<>>
              /\ frame' = IF frame = <<>> THEN <<>> ELSE <<Old>>
         ELSE UNCHANGED <<astray, used, delivered, frame>>
      /\ at' = "loop"
      /\ UNCHANGED <<senders, reading, fNeedDelivery, lossInFrame>>
  BY DEF networkReadHandler1
<1>4. isFirst \in BOOLEAN
  BY <1>1 DEF BufferTypes
<1> HIDE DEF changes, isFirst
<1>5. SenderTypes'
  BY <1>1, <1>3 DEF SenderTypes
<1>6. FrameTypes'
  <2>1. <<>> \in Seq(Nat \cup {Old}) /\ <<Old>> \in Seq(Nat \cup {Old})
        /\ <<>> \in Seq([packets : Seq(Nat \cup {Old}), by : Nat,
                         part : Nat])
    OBVIOUS
  <2> QED BY <1>1, <1>2, <1>3, <2>1 DEF FrameTypes
<1>7. /\ fHaveSeenFirstPacket' = TRUE
      /\ fNextExpectedSeqNo' = IF isFirst THEN x ELSE fNextExpectedSeqNo
      /\ IF seqNumLT(x, fNextExpectedSeqNo') \/ IsDuplicate(x)
         THEN UNCHANGED <<list, fSavedPacketFree>>
         ELSE /\ ~seqNumLT(x, fNextExpectedSeqNo') /\ ~IsDuplicate(x)
              /\ fSavedPacketFree' = FALSE
  BY <1>3 DEF storePacket
<1>8. fNextExpectedSeqNo' \in 0..(Modulus - 1)
  <2>1. x \in 0..(Modulus - 1)
    BY <1>1, <1>2, NumberType
  <2> HIDE DEF x
  <2> QED BY <1>1, <1>7, <2>1 DEF BufferTypes
<1>9. BufferTypes' /\ Descriptors'
  <2>1. CASE seqNumLT(x, fNextExpectedSeqNo') \/ IsDuplicate(x)
    BY <1>1, <1>7, <1>8, <2>1 DEF BufferTypes, Descriptors
  <2>2. CASE ~seqNumLT(x, fNextExpectedSeqNo') /\ ~IsDuplicate(x)
    <3> DEFINE p == Descriptor(s, n, isFirst)
               i == Position(x)
    <3>1. /\ p \in Packets /\ i \in 1..(Len(list) + 1)
          /\ list' \in Seq(Packets) /\ PutAt(list', list, i, p)
          /\ fSavedPacketFree' = FALSE
      BY <1>1, <1>2, <1>3, <1>4, <2>2, Stored
    <3>2. p.saved = fSavedPacketFree
      BY DEF Descriptor
    <3> HIDE DEF p, i
    <3>3. list \in Seq(Packets) /\ OneSaved(list, p.saved)
      BY <1>1, <3>2 DEF BufferTypes, Descriptors
    <3>4. OneSaved(list', FALSE)
      BY <3>1, <3>3, InsertedSaved
    <3> QED BY <1>7, <1>8, <3>1, <3>4 DEF BufferTypes, Descriptors
  <2> QED BY <2>1, <2>2
<1> QED BY <1>5, <1>6, <1>9, RtpTypesNext

(* When the reception begins with a packet, it is alone in the list.       *)
LEMMA Beginning ==
    ASSUME ListInv, NEW s \in Sources, NEW n \in 0..(senders[s].sent - 1),
           networkReadHandler1(s, n), list = <<>>,
           s # fLastReceivedSSRC \/ ~fHaveSeenFirstPacket
    PROVE  /\ list' \in Seq(Packets) /\ DOMAIN list' = {1}
           /\ list' # <<>> /\ Head(list') = list'[1]
           /\ list'[1].from = s /\ list'[1].n = n /\ list'[1].first
           /\ list'[1].uses = 0
           /\ fHaveSeenFirstPacket' = TRUE
           /\ fNextExpectedSeqNo' = SeqNoOf(s, n)
           /\ next' = n /\ fLastReceivedSSRC' = s /\ senders' = senders
           /\ Window'
<1>1. /\ SenderTypes /\ BufferTypes /\ FrameTypes
      /\ n \in Nat /\ senders[s].sent \in Nat
  <2>1. SenderTypes /\ BufferTypes /\ FrameTypes
    BY RtpTypes DEF ListInv
  <2> QED BY <2>1 DEF SenderTypes
<1>2. /\ storePacket(s, n, TRUE) /\ next' = n
      /\ fLastReceivedSSRC' = s /\ senders' = senders
      /\ n > senders[s].sent - Half
  BY DEF networkReadHandler1
<1>3. /\ list' \in Seq(Packets) /\ DOMAIN list' = {1}
      /\ list' # <<>> /\ Head(list') = list'[1]
      /\ list'[1] = [from |-> s, n |-> n, first |-> TRUE,
                     saved |-> fSavedPacketFree, uses |-> 0]
      /\ fHaveSeenFirstPacket' = TRUE
      /\ fNextExpectedSeqNo' = SeqNoOf(s, n)
  BY <1>1, <1>2, FirstStored
<1>4. /\ list'[1].from = s /\ list'[1].n = n /\ list'[1].first
      /\ list'[1].uses = 0
  BY <1>3
<1>5. sent' = senders[s].sent /\ SeqNo(next)' = SeqNoOf(s, n)
  BY <1>2 DEF sent, SeqNo, SeqNoOf
<1>6. n < senders[s].sent /\ n <= senders[s].sent
      /\ senders[s].sent <= n + Half
  BY <1>1, <1>2, Halves
<1>7. Window'
  <2>1. Sorted(list', next')
    BY <1>1, <1>2, <1>3, <1>4 DEF Sorted
  <2> QED BY <1>2, <1>3, <1>4, <1>5, <1>6, <2>1 DEF Window
<1> QED BY <1>2, <1>3, <1>4, <1>7

(* When it goes on, a packet before the one that is expected, or one that  *)
(* is in the list, changes nothing; another comes at its place.            *)
LEMMA GoingOn ==
    ASSUME ListInv, ~astray, NEW n \in 0..(sent - 1),
           networkReadHandler1(fLastReceivedSSRC, n), fHaveSeenFirstPacket
    PROVE  /\ UNCHANGED <<senders, fLastReceivedSSRC, fHaveSeenFirstPacket,
                          fNextExpectedSeqNo, next, used, delivered, frame,
                          astray>>
           /\ Window'
           /\ \/ UNCHANGED <<list, fSavedPacketFree>>
              \/ \E i, p : /\ Fits(list, i, n) /\ n >= next
                           /\ PutAt(list', list, i, p)
                           /\ p.n = n /\ p.from = fLastReceivedSSRC
                           /\ p.first = FALSE /\ p.uses = 0
<1> DEFINE s == fLastReceivedSSRC
           x == SeqNo(n)
<1>1. /\ SenderTypes /\ BufferTypes /\ FrameTypes /\ Window
      /\ Descriptors /\ s \in Sources
  <2>1. SenderTypes /\ BufferTypes /\ FrameTypes /\ Window /\ Descriptors
    BY RtpTypes DEF ListInv
  <2> QED BY <2>1 DEF SenderTypes
<1>2. /\ n \in Nat /\ sent \in Nat /\ next \in Nat /\ First \in Nat
      /\ n < sent
  <2>1. next \in Nat
    BY <1>1 DEF FrameTypes
  <2>2. First \in Nat /\ sent \in Nat
    BY <1>1, <2>1, NumberType
  <2> QED BY <2>1, <2>2
<1>3. /\ UNCHANGED <<senders, fLastReceivedSSRC, fHaveSeenFirstPacket,
                     fNextExpectedSeqNo, next, used, delivered, frame,
                     astray>>
      /\ n > sent - Half
      /\ storePacket(s, n, FALSE)
  BY DEF networkReadHandler1, storePacket, sent
<1>4. x = SeqNoOf(s, n)
  BY DEF SeqNo
<1>5. /\ fNextExpectedSeqNo = SeqNo(next)
      /\ next <= sent /\ sent <= next + Half /\ Sorted(list, next)
      /\ \A i \in DOMAIN list : list[i].from = s /\ list[i].n < sent
  BY <1>1 DEF Window
<1>6. seqNumLT(x, fNextExpectedSeqNo') <=> n < next
  <2>1. n - next < Half /\ next - n < Half
    BY <1>2, <1>3, <1>5, Halves
  <2> QED BY <1>2, <1>3, <1>5, <2>1, SeqNumOrder
<1>7. sent' = sent /\ SeqNo(next)' = SeqNo(next)
  BY <1>3 DEF sent, SeqNo, SeqNoOf
<1> HIDE DEF s, x
<1>8. CASE seqNumLT(x, fNextExpectedSeqNo') \/ IsDuplicate(x)
  <2>1. UNCHANGED <<list, fSavedPacketFree>>
    BY <1>3, <1>4, <1>8 DEF storePacket
  <2>2. Window'
    BY <1>1, <1>3, <1>7, <2>1 DEF Window
  <2> QED BY <1>3, <2>1, <2>2
<1>9. CASE ~seqNumLT(x, fNextExpectedSeqNo') /\ ~IsDuplicate(x)
  <2>1. n >= next
    BY <1>2, <1>6, <1>9
  <2> DEFINE p == Descriptor(s, n, FALSE)
             i == Position(x)
  <2>2. Fits(list, i, n)
    BY <1>2, <1>9, <2>1, PlaceFits DEF x
  <2>3. /\ p.n = n /\ p.from = s /\ p.first = FALSE /\ p.uses = 0
    BY DEF Descriptor
  <2>4. /\ p \in Packets
        /\ list' \in Seq(Packets) /\ PutAt(list', list, i, p)
    BY <1>1, <1>2, <1>3, <1>4, <1>9, Stored
  <2> HIDE DEF p, i
  <2>5. list \in Seq(Packets)
    BY <1>1 DEF BufferTypes
  <2>6. /\ Sorted(list', next)
        /\ \A j \in DOMAIN list' : \/ list'[j] = p
                                   \/ \E k \in DOMAIN list :
                                        list'[j] = list[k]
    BY <1>2, <1>5, <2>1, <2>2, <2>3, <2>4, <2>5, InsertedSorted
  <2>7. \A j \in DOMAIN list' : list'[j].from = s /\ list'[j].n < sent
    BY <1>2, <1>5, <2>3, <2>6
  <2>8. Window'
    BY <1>3, <1>5, <1>7, <2>6, <2>7 DEF Window, s
  <2> QED BY <1>3, <2>1, <2>2, <2>3, <2>4, <2>8 DEF s
<1> QED BY <1>8, <1>9

LEMMA Reading ==
    ASSUME ListInv, NEW s \in Sources, NEW n \in 0..(senders[s].sent - 1),
           networkReadHandler1(s, n)
    PROVE  ListInv'
<1>1. RtpTypeOK' /\ Descriptors'
  BY ReadTypes
<1>2. ASSUME ~astray' PROVE Window'
  <2>1. CASE s # fLastReceivedSSRC
    <3>1. list = <<>>
      BY <1>2, <2>1 DEF networkReadHandler1
    <3> QED BY <2>1, <3>1, Beginning
  <2>2. CASE s = fLastReceivedSSRC
    <3>1. ~astray
      BY <1>2, <2>2 DEF networkReadHandler1
    <3>2. CASE fHaveSeenFirstPacket
      BY <2>2, <3>1, <3>2, GoingOn DEF sent
    <3>3. CASE ~fHaveSeenFirstPacket
      BY <3>3, Beginning DEF ListInv, Descriptors
    <3> QED BY <3>2, <3>3
  <2> QED BY <2>1, <2>2
<1> QED BY <1>1, <1>2 DEF ListInv

(* The packet at the head of the list.                                     *)
LEMMA HeadIs ==
    ASSUME ListInv, list # <<>>
    PROVE  /\ Head(list) \in Packets /\ Head(list) = list[1]
           /\ 1 \in DOMAIN list
           /\ Head(list).from \in Sources /\ Head(list).n \in Nat
           /\ Head(list).uses \in Nat /\ Head(list).saved \in BOOLEAN
           /\ Number(Head(list)) \in 0..(Modulus - 1)
           /\ ~astray => /\ Head(list).from = fLastReceivedSSRC
                         /\ Number(Head(list)) = SeqNo(Head(list).n)
                         /\ Head(list).n >= next /\ Head(list).n < sent
<1>1. SenderTypes /\ BufferTypes /\ (~astray => Window)
  BY RtpTypes DEF ListInv
<1>2. Head(list) \in Packets /\ Head(list) = list[1] /\ 1 \in DOMAIN list
  <2>1. list \in Seq(Packets)
    BY <1>1 DEF BufferTypes
  <2> QED BY <2>1
<1>3. /\ Head(list).from \in Sources /\ Head(list).n \in Nat
      /\ Head(list).uses \in Nat /\ Head(list).saved \in BOOLEAN
  BY <1>2 DEF Packets
<1>4. Number(Head(list)) \in 0..(Modulus - 1)
  BY <1>1, <1>3, NumberType DEF Number
<1>5. ~astray => /\ Head(list).from = fLastReceivedSSRC
                 /\ Head(list).n >= next /\ Head(list).n < sent
  BY <1>1, <1>2 DEF Window, Sorted
<1> QED BY <1>2, <1>3, <1>4, <1>5 DEF Number, SeqNo

(* The used packet leaves the list.                                        *)
LEMMA UsedReleased ==
    ASSUME ListInv, list # <<>>, releaseUsedPacket,
           UNCHANGED <<senders, fLastReceivedSSRC, fHaveSeenFirstPacket>>
    PROVE  /\ BufferTypes' /\ Descriptors'
           /\ next' \in Nat /\ used' \subseteq Nat
           /\ ~astray => Window'
<1>1. /\ SenderTypes /\ BufferTypes /\ FrameTypes /\ Descriptors
  BY RtpTypes DEF ListInv
<1>2. /\ fNextExpectedSeqNo' = (Number(Head(list)) + 1) % Modulus
      /\ list' = Tail(list)
      /\ fSavedPacketFree' = (fSavedPacketFree \/ Head(list).saved)
      /\ IF astray THEN UNCHANGED <<next, used>>
         ELSE next' = Head(list).n + 1 /\ used' = used \cup {Head(list).n}
  BY DEF releaseUsedPacket
<1> DEFINE h == Head(list)
<1>3. /\ h.n \in Nat /\ h.saved \in BOOLEAN
      /\ Number(h) \in 0..(Modulus - 1)
      /\ ~astray => /\ Number(h) = SeqNo(h.n)
                    /\ h.n >= next /\ h.n < sent
  BY HeadIs
<1>4. fNextExpectedSeqNo' \in 0..(Modulus - 1)
  <2>1. Modulus \in Nat /\ Modulus > 0
    BY RtpAssumption
  <2>2. Number(h) + 1 \in Nat
    BY <1>3, <2>1
  <2> HIDE DEF h
  <2> QED BY <1>2, <2>1, <2>2, DivMod DEF h
<1>5. /\ list \in Seq(Packets) /\ OneSaved(list, fSavedPacketFree)
      /\ fSavedPacketFree \in BOOLEAN /\ fHaveSeenFirstPacket = TRUE
  BY <1>1 DEF BufferTypes, Descriptors
<1>6. /\ Tail(list) \in Seq(Packets)
      /\ \A j \in DOMAIN Tail(list) :
           j + 1 \in DOMAIN list /\ Tail(list)[j] = list[j + 1]
      /\ OneSaved(Tail(list), fSavedPacketFree \/ h.saved)
      /\ \A first \in Nat : Sorted(list, first) =>
           h.n >= first /\ Sorted(Tail(list), h.n + 1)
  BY <1>5, TakingHead
<1>7. BufferTypes' /\ Descriptors'
  BY <1>2, <1>3, <1>4, <1>5, <1>6 DEF BufferTypes, Descriptors
<1>8. next' \in Nat /\ used' \subseteq Nat /\ next \in Nat
  <2>1. next \in Nat /\ used \subseteq Nat
    BY <1>1 DEF FrameTypes
  <2>2. PICK k \in Nat : k = h.n
    BY <1>3
  <2>3. k + 1 \in Nat /\ used \cup {k} \subseteq Nat
    BY <2>1
  <2>4. /\ next' = next \/ next' = k + 1
        /\ used' = used \/ used' = used \cup {k}
    BY <1>2, <2>2
  <2> QED BY <2>1, <2>3, <2>4
<1>9. ASSUME ~astray PROVE Window'
  <2>1. Window /\ next' = h.n + 1
    BY <1>2, <1>9 DEF ListInv
  <2>2. Sorted(list', next')
    BY <1>2, <1>6, <1>8, <2>1 DEF Window
  <2>3. /\ sent' = sent /\ sent \in Nat /\ First \in Nat
        /\ SeqNo(next)' = SeqNo(h.n + 1)
    <3>1. fLastReceivedSSRC \in Sources
      BY <1>1 DEF SenderTypes
    <3>2. sent \in Nat /\ First \in Nat
      BY <1>1, <1>3, <3>1, NumberType
    <3> QED BY <2>1, <3>2 DEF sent, SeqNo, SeqNoOf
  <2>4. \A j \in DOMAIN list' :
          list'[j].from = fLastReceivedSSRC /\ list'[j].n < sent
    BY <1>2, <1>6, <2>1 DEF Window
  <2>5. fNextExpectedSeqNo' = SeqNo(h.n + 1)
    BY <1>2, <1>3, <1>9, <2>3, SeqNoNext
  <2>6. next' <= sent /\ sent <= next' + Half
    BY <1>3, <1>5, <1>8, <1>9, <2>1, <2>3, Halves DEF Window
  <2> QED BY <2>2, <2>3, <2>4, <2>5, <2>6 DEF Window
<1> QED BY <1>7, <1>8, <1>9

(* The packet is kept for its other frames.                                *)
LEMMA PacketKept ==
    ASSUME ListInv, list # <<>>, keepPacket,
           UNCHANGED <<senders, fLastReceivedSSRC, fHaveSeenFirstPacket>>
    PROVE  /\ BufferTypes' /\ Descriptors'
           /\ next' \in Nat /\ used' \subseteq Nat
           /\ ~astray => Window'
<1>1. /\ SenderTypes /\ BufferTypes /\ FrameTypes /\ Descriptors
  BY RtpTypes DEF ListInv
<1> DEFINE h == Head(list)
<1>2. /\ fNextExpectedSeqNo' = Number(h)
      /\ list' = [list EXCEPT ![1].uses = @ + 1]
      /\ next' = IF astray THEN next ELSE h.n
      /\ UNCHANGED <<fSavedPacketFree, used>>
  BY DEF keepPacket
<1>3. /\ h.n \in Nat
      /\ Number(h) \in 0..(Modulus - 1)
      /\ ~astray => /\ Number(h) = SeqNo(h.n)
                    /\ h.n >= next /\ h.n < sent
  BY HeadIs
<1>4. /\ list \in Seq(Packets) /\ OneSaved(list, fSavedPacketFree)
      /\ fSavedPacketFree \in BOOLEAN /\ fHaveSeenFirstPacket = TRUE
  BY <1>1 DEF BufferTypes, Descriptors
<1>5. /\ list' \in Seq(Packets) /\ DOMAIN list' = DOMAIN list
      /\ \A i \in DOMAIN list :
           list'[i].from = list[i].from /\ list'[i].n = list[i].n
      /\ OneSaved(list', fSavedPacketFree)
      /\ \A first \in Nat : Sorted(list, first) => Sorted(list', h.n)
  <2>1. PICK r : r = OnceMore(list)
    OBVIOUS
  <2>2. list' = r
    BY <1>2, <2>1 DEF OnceMore
  <2>3. /\ r \in Seq(Packets) /\ DOMAIN r = DOMAIN list
        /\ \A i \in DOMAIN list :
             r[i].from = list[i].from /\ r[i].n = list[i].n
        /\ \A free : OneSaved(list, free) => OneSaved(r, free)
        /\ \A first \in Nat : Sorted(list, first) => Sorted(r, h.n)
    BY <1>4, <2>1, CountingUse
  <2> QED BY <1>4, <2>2, <2>3
<1>6. BufferTypes' /\ Descriptors'
  BY <1>2, <1>3, <1>4, <1>5 DEF BufferTypes, Descriptors
<1>7. next' \in Nat /\ used' \subseteq Nat /\ next \in Nat
  BY <1>1, <1>2, <1>3 DEF FrameTypes
<1>8. ASSUME ~astray PROVE Window'
  <2>1. Window /\ next' = h.n
    BY <1>2, <1>8 DEF ListInv
  <2>2. Sorted(list', next')
    BY <1>5, <1>7, <2>1 DEF Window
  <2>3. /\ sent' = sent /\ sent \in Nat /\ SeqNo(next)' = SeqNo(h.n)
    <3>1. fLastReceivedSSRC \in Sources
      BY <1>1 DEF SenderTypes
    <3>2. sent \in Nat
      BY <1>1, <1>3, <3>1, NumberType
    <3> QED BY <2>1, <3>2 DEF sent, SeqNo, SeqNoOf
  <2>4. \A j \in DOMAIN list' :
          list'[j].from = fLastReceivedSSRC /\ list'[j].n < sent
    BY <1>5, <2>1 DEF Window
  <2>5. next' <= sent /\ sent <= next' + Half
    BY <1>3, <1>4, <1>7, <1>8, <2>1, <2>3, Halves DEF Window
  <2> QED BY <1>2, <1>3, <1>8, <2>2, <2>3, <2>4, <2>5 DEF Window
<1> QED BY <1>6, <1>7, <1>8

LEMMA Looping ==
    ASSUME ListInv, InLoop, releaseUsedPacket \/ keepPacket,
           UNCHANGED loopVars,
           fNeedDelivery' \in BOOLEAN, lossInFrame' \in BOOLEAN,
           frame' \in Seq(Nat \cup {Old}),
           delivered' \in Seq([packets : Seq(Nat \cup {Old}), by : Nat,
                               part : Nat])
    PROVE  ListInv'
<1>1. SenderTypes /\ FrameTypes
  BY RtpTypes DEF ListInv
<1>2. UNCHANGED <<senders, fLastReceivedSSRC, reading, fHaveSeenFirstPacket,
                  at, astray>>
  BY DEF loopVars
<1>3. /\ BufferTypes' /\ Descriptors'
      /\ next' \in Nat /\ used' \subseteq Nat
      /\ ~astray => Window'
  BY <1>2, UsedReleased, PacketKept DEF InLoop
<1>4. SenderTypes'
  BY <1>1, <1>2 DEF SenderTypes
<1>5. FrameTypes'
  BY <1>1, <1>2, <1>3 DEF FrameTypes
<1> QED BY <1>2, <1>3, <1>4, <1>5, RtpTypesNext DEF ListInv

LEMMA AppendType ==
    ASSUME NEW S, NEW q \in Seq(S), NEW x \in S
    PROVE  Append(q, x) \in Seq(S)
  OBVIOUS

LEMMA Using ==
    ASSUME ListInv, Use
    PROVE  ListInv'
<1> DEFINE S == Nat \cup {Old}
           got == [packets |-> frame', by |-> Head(list).n,
                   part |-> Head(list).uses]
<1>1. FrameTypes
  BY RtpTypes DEF ListInv
<1>2. /\ InLoop /\ UNCHANGED loopVars
      /\ releaseUsedPacket \/ keepPacket
      /\ frame' = FrameWithPacket
      /\ lossInFrame' = FALSE
      /\ \/ UNCHANGED <<fNeedDelivery, delivered>>
         \/ /\ fNeedDelivery' = FALSE
            /\ delivered' = IF astray THEN delivered
                            ELSE Append(delivered, got)
  BY DEF Use, Deliver
<1>3. /\ frame \in Seq(S) /\ fNeedDelivery \in BOOLEAN
      /\ delivered \in Seq([packets : Seq(S), by : Nat, part : Nat])
  BY <1>1 DEF FrameTypes
<1>4. Head(list).n \in Nat /\ Head(list).uses \in Nat
  BY <1>2, HeadIs DEF InLoop
<1>5. frame' \in Seq(S)
  <2>1. FrameBefore \in Seq(S)
    BY <1>3 DEF FrameBefore
  <2>2. Append(FrameBefore, Head(list).n) \in Seq(S)
    BY <1>4, <2>1
  <2>3. <<Old>> \in Seq(S)
    OBVIOUS
  <2> HIDE DEF S
  <2> QED BY <1>2, <2>1, <2>2, <2>3 DEF FrameWithPacket
<1>6. delivered' \in Seq([packets : Seq(S), by : Nat, part : Nat])
  <2> DEFINE Q == [packets : Seq(S), by : Nat, part : Nat]
  <2>1. got \in Q /\ delivered \in Seq(Q)
    BY <1>3, <1>4, <1>5
  <2> HIDE DEF Q, got
  <2>2. Append(delivered, got) \in Seq(Q)
    BY <2>1, AppendType
  <2> QED BY <1>2, <2>1, <2>2 DEF Q
<1>7. fNeedDelivery' \in BOOLEAN /\ lossInFrame' \in BOOLEAN
  BY <1>2, <1>3
<1> QED BY <1>2, <1>5, <1>6, <1>7, Looping DEF S

LEMMA Rejecting ==
    ASSUME ListInv, RejectHeader \/ RejectUnusable
    PROVE  ListInv'
<1>1. FrameTypes
  BY RtpTypes DEF ListInv
<1>2. /\ InLoop /\ releaseUsedPacket /\ UNCHANGED loopVars
      /\ fNeedDelivery' = fNeedDelivery /\ frame' = frame
      /\ delivered' = delivered
      /\ lossInFrame' \in {lossInFrame, TRUE}
  BY DEF RejectHeader, RejectUnusable, frameVars
<1> QED BY <1>1, <1>2, Looping DEF FrameTypes

(* Where the list does not change.                                         *)
LEMMA OtherSteps ==
    ASSUME ListInv,
           OtherArrives \/ LoopEnds \/ doGetNextFrame \/ UNCHANGED rtpVars
    PROVE  ListInv'
<1>1. /\ SenderTypes /\ BufferTypes /\ FrameTypes /\ Descriptors
      /\ (~astray => Window)
  BY RtpTypes DEF ListInv
<1>2. UNCHANGED <<senders, fLastReceivedSSRC, fHaveSeenFirstPacket,
                  fNextExpectedSeqNo, list, fSavedPacketFree, next, astray>>
  BY DEF OtherArrives, LoopEnds, doGetNextFrame, rtpVars, bufferVars,
         ghostVars
<1>3. SenderTypes' /\ BufferTypes' /\ Descriptors'
  BY <1>1, <1>2 DEF SenderTypes, BufferTypes, Descriptors
<1>4. ~astray' => Window'
  BY <1>1, <1>2 DEF Window, sent, SeqNo, SeqNoOf
<1>5. FrameTypes'
  <2>1. /\ used' = used /\ delivered' = delivered
        /\ lossInFrame' = lossInFrame
        /\ frame' \in {frame, <<>>}
        /\ fNeedDelivery' \in {fNeedDelivery, TRUE}
        /\ reading' \in {reading, TRUE}
        /\ at' \in {at, "loop", "event loop"}
    BY DEF OtherArrives, LoopEnds, doGetNextFrame, rtpVars, frameVars,
           ghostVars
  <2>2. <<>> \in Seq(Nat \cup {Old})
    OBVIOUS
  <2> QED BY <1>1, <1>2, <2>1, <2>2 DEF FrameTypes
<1> QED BY <1>3, <1>4, <1>5, RtpTypesNext DEF ListInv

LEMMA EmptyList ==
    ASSUME NEW first
    PROVE  /\ <<>> \in Seq(Packets) /\ DOMAIN <<>> = {}
           /\ Sorted(<<>>, first) /\ OneSaved(<<>>, TRUE)
<1>1. <<>> \in Seq(Packets) /\ DOMAIN <<>> = {}
  OBVIOUS
<1> QED BY <1>1 DEF Sorted, OneSaved

LEMMA Stopping ==
    ASSUME ListInv, doStopGettingFrames
    PROVE  ListInv'
<1>1. /\ SenderTypes /\ BufferTypes /\ FrameTypes
  BY RtpTypes DEF ListInv
<1>2. /\ reading' = FALSE /\ list' = <<>>
      /\ fHaveSeenFirstPacket' = FALSE /\ fSavedPacketFree' = TRUE
      /\ fNeedDelivery' = FALSE /\ lossInFrame' = FALSE
      /\ used' = {} /\ delivered' = <<>> /\ astray' = FALSE
      /\ UNCHANGED <<senders, fLastReceivedSSRC, fNextExpectedSeqNo, at,
                     frame, next>>
  BY DEF doStopGettingFrames
<1>3. SenderTypes' /\ BufferTypes' /\ Descriptors' /\ Window'
  BY <1>1, <1>2, EmptyList
     DEF SenderTypes, BufferTypes, Descriptors, Window
<1>4. FrameTypes'
  <2>1. <<>> \in Seq([packets : Seq(Nat \cup {Old}), by : Nat, part : Nat])
    OBVIOUS
  <2> QED BY <1>1, <1>2, <2>1 DEF FrameTypes
<1> QED BY <1>3, <1>4, RtpTypesNext DEF ListInv

LEMMA ListBegins ==
    ASSUME RtpInit
    PROVE  ListInv
<1>1. PICK st \in Streams, first \in [Sources -> FirstSeqNos] :
        senders = [s \in Sources |->
                     [stream |-> st[s], firstSeqNo |-> first[s],
                      sent |-> 0]]
  BY DEF RtpInit
<1>2. /\ fLastReceivedSSRC \in Sources /\ reading = FALSE
      /\ fHaveSeenFirstPacket = FALSE /\ fNextExpectedSeqNo = 0
      /\ list = <<>> /\ fSavedPacketFree = TRUE
      /\ at = "event loop"
      /\ fNeedDelivery = FALSE /\ lossInFrame = FALSE /\ frame = <<>>
      /\ next = 0 /\ used = {} /\ delivered = <<>> /\ astray = FALSE
  BY DEF RtpInit
<1>3. SenderTypes
  <2>1. /\ st \in [Sources -> Seq(Headers)]
        /\ first \in [Sources -> 0..(Modulus - 1)]
    BY RtpAssumption
  <2>2. \A s \in Sources : Len(st[s]) \in Nat /\ 0 <= Len(st[s])
    <3> TAKE s \in Sources
    <3>1. st[s] \in Seq(Headers)
      BY <2>1
    <3> QED BY <3>1
  <2> QED BY <1>1, <1>2, <2>1, <2>2 DEF SenderTypes
<1>4. BufferTypes /\ Descriptors /\ Window
  <2>1. 0 \in 0..(Modulus - 1)
    BY RtpAssumption
  <2> QED BY <1>2, <2>1, EmptyList DEF BufferTypes, Descriptors, Window
<1>5. FrameTypes
  <2>1. /\ <<>> \in Seq(Nat \cup {Old})
        /\ <<>> \in Seq([packets : Seq(Nat \cup {Old}), by : Nat,
                         part : Nat])
    OBVIOUS
  <2> QED BY <1>2, <2>1 DEF FrameTypes
<1> QED BY <1>3, <1>4, <1>5, RtpTypes DEF ListInv

LEMMA ListInvHolds == RtpSpec => []ListInv
<1>1. RtpInit => ListInv
  BY ListBegins
<1>2. ListInv /\ [RtpNext]_rtpVars => ListInv'
  <2> SUFFICES ASSUME ListInv, [RtpNext]_rtpVars PROVE ListInv'
    OBVIOUS
  <2>1. ASSUME NEW s \in Sources,
               NEW n \in 0..(senders[s].sent - 1), networkReadHandler1(s, n)
        PROVE  ListInv'
    BY <2>1, Reading
  <2>2. ASSUME NEW s \in Sources, Send(s) PROVE ListInv'
    BY <2>2, Sending
  <2> QED BY <2>1, <2>2, Rejecting, Using, OtherSteps, Stopping
          DEF RtpNext
<1> QED BY <1>1, <1>2, PTL DEF RtpSpec

(* The list of packets is in the order of sending, without repetition and  *)
(* nowhere before the packet that is expected, wherever the sequence       *)
(* numbers wrap around, and one packet at most has the saved descriptor:   *)
(* for all senders and streams, whatever the network loses, repeats and    *)
(* reorders; in order unless the sender changed while packets were waiting *)
(* or got half the range ahead.                                            *)
THEOREM ListCorrect == RtpSpec => []ListInOrder
<1>1. ListInv => ListInOrder
  <2> SUFFICES ASSUME ListInv PROVE ListInOrder
    OBVIOUS
  <2>1. RtpTypeOK /\ BufferTypes /\ Descriptors /\ (~astray => Window)
    BY RtpTypes DEF ListInv
  <2>2. Len(list) \in Nat /\ DOMAIN list = 1..Len(list)
    <3>1. list \in Seq(Packets)
      BY <2>1 DEF BufferTypes
    <3> QED BY <3>1
  <2> DEFINE saved == {i \in DOMAIN list : list[i].saved}
  <2>3. IF fSavedPacketFree THEN saved = {} ELSE \E i \in saved : saved = {i}
    <3>1. CASE fSavedPacketFree
      BY <2>1, <3>1 DEF Descriptors, OneSaved
    <3>2. CASE ~fSavedPacketFree
      <4>1. PICK i \in DOMAIN list :
              list[i].saved /\ \A j \in DOMAIN list : list[j].saved => j = i
        BY <2>1, <3>2 DEF Descriptors, OneSaved
      <4>2. i \in saved /\ saved = {i}
        BY <4>1
      <4> QED BY <3>2, <4>2
    <3> QED BY <3>1, <3>2
  <2>4. ASSUME ~astray
        PROVE  /\ \A i \in DOMAIN list :
                    list[i].from = fLastReceivedSSRC /\ list[i].n >= next
               /\ \A i \in 2..Len(list) : list[i - 1].n < list[i].n
               /\ fHaveSeenFirstPacket => fNextExpectedSeqNo = SeqNo(next)
    <3>1. \A i \in 2..Len(list) : list[i - 1].n < list[i].n
      <4> TAKE i \in 2..Len(list)
      <4>1. i - 1 \in DOMAIN list /\ i \in DOMAIN list /\ i - 1 < i
        BY <2>2
      <4> QED BY <2>1, <2>4, <4>1 DEF Window, Sorted
    <3> QED BY <2>1, <2>4, <3>1 DEF Window, Sorted
  <2> QED BY <2>1, <2>3, <2>4 DEF ListInOrder
<1> QED BY <1>1, ListInvHolds, PTL
-----------------------------------------------------------------------------
(* The timers                                                              *)

(* The entries of the list.                                                *)
Entries == [token : Nat, delta : Nat]

LEMMA EntryTypes ==
    ASSUME NEW q \in Seq(Entries), NEW i \in 1..Len(q)
    PROVE  q[i] \in Entries /\ q[i].token \in Nat /\ q[i].delta \in Nat
<1>1. q[i] \in Entries
  OBVIOUS
<1> QED BY <1>1 DEF Entries

LEMMA FunctionIsSequence ==
    ASSUME NEW S, NEW n \in Nat, NEW r \in [1..n -> S]
    PROVE  r \in Seq(S) /\ Len(r) = n
  OBVIOUS

(* f has the sums of the deltas.                                           *)
SumsUpTo(f, q, n) ==
    /\ f[0] = 0
    /\ \A i \in 1..n : f[i] = f[i - 1] + q[i].delta

LEMMA PartialSums ==
    ASSUME NEW q \in Seq(Entries), NEW n \in 0..Len(q)
    PROVE  \E f \in [0..n -> Nat] : SumsUpTo(f, q, n)
<1> DEFINE len == Len(q)
           S == {k \in 0..len : ~\E f \in [0..k -> Nat] : SumsUpTo(f, q, k)}
<1>1. len \in Nat
  OBVIOUS
<1>2. ASSUME S # {} PROVE FALSE
  <2>1. S \in SUBSET Nat
    BY <1>1
  <2> HIDE DEF S, len
  <2>2. PICK m \in S : \A k \in S : m <= k
    BY <1>2, <2>1, HasMin, Zenon
  <2>3. m \in 0..len /\ ~\E f \in [0..m -> Nat] : SumsUpTo(f, q, m)
    BY <2>2 DEF S
  <2>4. CASE m = 0
    <3> DEFINE f == [i \in 0..0 |-> 0]
    <3>1. f \in [0..0 -> Nat] /\ SumsUpTo(f, q, 0)
      BY DEF SumsUpTo
    <3> QED BY <2>3, <2>4, <3>1
  <2>5. CASE m # 0
    <3>1. m - 1 \in 0..len /\ m - 1 \notin S
      BY <1>1, <2>2, <2>3, <2>5
    <3>2. PICK g \in [0..(m - 1) -> Nat] : SumsUpTo(g, q, m - 1)
      BY <3>1 DEF S
    <3> DEFINE f == [i \in 0..m |-> IF i = m THEN g[m - 1] + q[m].delta
                                    ELSE g[i]]
    <3>3. m \in 1..len /\ q[m].delta \in Nat
      <4>1. m \in 1..len
        BY <1>1, <2>3, <2>5
      <4>2. \A i \in 1..len : q[i] \in Entries
        BY DEF len
      <4> QED BY <4>1, <4>2 DEF Entries
    <3>4. f \in [0..m -> Nat]
      BY <1>1, <3>2, <3>3
    <3>5. f[0] = 0
      BY <2>5, <3>2, <3>3 DEF SumsUpTo
    <3>6. ASSUME NEW i \in 1..m PROVE f[i] = f[i - 1] + q[i].delta
      <4>1. CASE i = m
        <5>1. m - 1 \in 0..m /\ m - 1 # m
          BY <3>3
        <5> QED BY <3>3, <4>1, <5>1
      <4>2. CASE i # m
        <5>1. i \in 1..(m - 1) /\ i - 1 \in 0..m /\ i \in 0..m /\ i - 1 # m
          BY <3>3, <4>2
        <5> QED BY <3>2, <4>2, <5>1 DEF SumsUpTo
      <4> QED BY <4>1, <4>2
    <3>7. SumsUpTo(f, q, m)
      BY <3>5, <3>6 DEF SumsUpTo
    <3> QED BY <2>3, <3>4, <3>7
  <2> QED BY <2>4, <2>5
<1>3. n \in 0..len /\ n \notin S
  BY <1>2
<1> QED BY <1>3

(* There is only one.                                                      *)
LEMMA SumsAgree ==
    ASSUME NEW q, NEW n \in Nat, NEW f, NEW g,
           SumsUpTo(f, q, n), SumsUpTo(g, q, n), NEW i \in 0..n
    PROVE  f[i] = g[i]
<1> DEFINE S == {k \in 0..n : f[k] # g[k]}
<1>1. ASSUME S # {} PROVE FALSE
  <2>1. S \in SUBSET Nat
    OBVIOUS
  <2> HIDE DEF S
  <2>2. PICK m \in S : \A k \in S : m <= k
    BY <1>1, <2>1, HasMin, Zenon
  <2>3. m \in 0..n /\ f[m] # g[m]
    BY <2>2 DEF S
  <2>4. m \in 1..n
    BY <2>3 DEF SumsUpTo
  <2>5. m - 1 \in 0..n /\ m - 1 \notin S
    BY <2>2, <2>4
  <2>6. f[m - 1] = g[m - 1]
    BY <2>5 DEF S
  <2> QED BY <2>3, <2>4, <2>6 DEF SumsUpTo
<1> QED BY <1>1

(* Sums is that one.                                                       *)
LEMMA SumsAre ==
    ASSUME NEW q \in Seq(Entries)
    PROVE  Sums(q) \in [0..Len(q) -> Nat] /\ SumsUpTo(Sums(q), q, Len(q))
<1> DEFINE n == Len(q)
           Step(f) == [i \in 0..n |-> IF i = 0 THEN 0
                                      ELSE f[i - 1] + q[i].delta]
<1>1. n \in Nat
  OBVIOUS
<1>2. PICK f \in [0..n -> Nat] : SumsUpTo(f, q, n)
  BY <1>1, PartialSums
<1>3. f = Step(f)
  <2>1. ASSUME NEW i \in 0..n PROVE f[i] = Step(f)[i]
    BY <1>1, <1>2, <2>1 DEF SumsUpTo
  <2> QED BY <1>2, <2>1
<1> DEFINE s == CHOOSE g : g = Step(g)
<1>4. s = Step(s)
  BY <1>3, Zenon
<1>5. Sums(q) = s
  BY DEF Sums
<1>6. s \in [0..n -> {s[i] : i \in 0..n}] /\ SumsUpTo(s, q, n)
  <2> HIDE DEF s
  <2>1. \A i \in 0..n : s[i] = Step(s)[i]
    BY <1>4
  <2>2. s[0] = 0
    BY <1>1, <2>1
  <2>3. \A i \in 1..n : s[i] = s[i - 1] + q[i].delta
    BY <1>1, <2>1
  <2>4. s \in [0..n -> {s[i] : i \in 0..n}]
    BY <1>4
  <2> QED BY <2>2, <2>3, <2>4 DEF SumsUpTo
<1> HIDE DEF s
<1>7. \A i \in 0..n : s[i] \in Nat
  BY <1>1, <1>2, <1>6, SumsAgree
<1> QED BY <1>5, <1>6, <1>7

LEMMA BeforeIs ==
    ASSUME NEW q \in Seq(Entries), NEW f, SumsUpTo(f, q, Len(q)),
           NEW i \in 0..Len(q)
    PROVE  Before(q, i) = f[i]
<1>1. Len(q) \in Nat
  OBVIOUS
<1>2. SumsUpTo(Sums(q), q, Len(q))
  BY SumsAre
<1> QED BY <1>1, <1>2, SumsAgree DEF Before

LEMMA BeforeSteps ==
    ASSUME NEW q \in Seq(Entries)
    PROVE  /\ \A i \in 0..Len(q) : Before(q, i) \in Nat
           /\ Before(q, 0) = 0
           /\ \A i \in 1..Len(q) : Before(q, i) = Before(q, i - 1) + q[i].delta
  BY SumsAre DEF Before, SumsUpTo

LEMMA BeforeRises ==
    ASSUME NEW q \in Seq(Entries), NEW i \in 0..Len(q), NEW j \in i..Len(q)
    PROVE  Before(q, i) <= Before(q, j)
<1> DEFINE n == Len(q)
           S == {k \in i..n : ~(Before(q, i) <= Before(q, k))}
<1>1. n \in Nat /\ \A k \in 1..n : q[k].delta \in Nat
  BY EntryTypes
<1>2. /\ \A k \in 0..n : Before(q, k) \in Nat
      /\ \A k \in 1..n : Before(q, k) = Before(q, k - 1) + q[k].delta
  BY BeforeSteps
<1>3. i \in 0..n /\ j \in i..n
  OBVIOUS
<1> HIDE DEF n
<1>4. ASSUME S # {} PROVE FALSE
  <2>1. S \in SUBSET Nat
    BY <1>1, <1>3
  <2> HIDE DEF S
  <2>2. PICK m \in S : \A k \in S : m <= k
    BY <1>4, <2>1, HasMin, Zenon
  <2>3. m \in i..n /\ ~(Before(q, i) <= Before(q, m))
    BY <2>2 DEF S
  <2>4. m # i
    BY <1>2, <1>3, <2>3
  <2>5. m - 1 \in i..n /\ m - 1 \notin S /\ m \in 1..n
    BY <1>1, <1>3, <2>2, <2>3, <2>4
  <2>6. Before(q, i) <= Before(q, m - 1)
    BY <2>5 DEF S
  <2>7. Before(q, m) = Before(q, m - 1) + q[m].delta
    BY <1>2, <2>5
  <2>8. m - 1 \in 0..n
    BY <1>3, <2>5
  <2> QED BY <1>1, <1>2, <1>3, <2>3, <2>5, <2>6, <2>7, <2>8
<1> QED BY <1>3, <1>4

LEMMA PassedIs ==
    ASSUME NEW q \in Seq(Entries), NEW t \in Nat
    PROVE  /\ Passed(q, t) \in 0..Len(q)
           /\ \A i \in 0..Len(q) : Before(q, i) <= t <=> i <= Passed(q, t)
<1> DEFINE n == Len(q)
           S == {i \in 0..n : Before(q, i) <= t}
           k == Passed(q, t)
<1>1. n \in Nat /\ \A i \in 0..n : Before(q, i) \in Nat
  BY BeforeSteps
<1>2. 0 \in S
  BY <1>1, BeforeSteps
<1>3. \A i \in 0..n : \A j \in i..n : Before(q, i) <= Before(q, j)
  BY BeforeRises
<1>4. k = Max(S)
  BY DEF Passed
<1> HIDE DEF n, k
<1>5. k \in S /\ \A i \in S : i <= k
  <2>1. S \in SUBSET (0..n) /\ S # {}
    BY <1>2
  <2> HIDE DEF S
  <2> QED BY <1>1, <1>4, <2>1, HasMax
<1>6. ASSUME NEW i \in 0..n PROVE Before(q, i) <= t <=> i <= k
  <2>1. ASSUME i <= k PROVE Before(q, i) <= t
    <3>1. k \in i..n /\ k \in 0..n /\ Before(q, k) <= t
      BY <1>1, <1>5, <2>1
    <3> QED BY <1>1, <1>3, <3>1
  <2> QED BY <1>5, <2>1
<1> QED BY <1>5, <1>6 DEF n, k

(* What is left of b when t has gone by.                                   *)
Left(b, t) == IF b > t THEN b - t ELSE 0

LEMMA SynchronizedSums ==
    ASSUME NEW q \in Seq(Entries), NEW t \in Nat,
           NEW r, r = Synchronized(q, t)
    PROVE  /\ r \in Seq(Entries) /\ Len(r) = Len(q)
           /\ \A i \in 1..Len(q) : r[i].token = q[i].token
           /\ \A i \in 0..Len(q) : Before(r, i) = Left(Before(q, i), t)
<1> DEFINE n == Len(q)
           k == Passed(q, t)
           B(i) == Before(q, i)
           D(i) == IF i <= k THEN 0
                   ELSE IF i = k + 1 THEN q[i].delta - (t - B(k))
                   ELSE q[i].delta
           f == [i \in 0..n |-> Left(B(i), t)]
<1>1. n \in Nat /\ DOMAIN q = 1..n
  OBVIOUS
<1>2. \A i \in 1..n : q[i] \in Entries
  OBVIOUS
<1>3. \A i \in 1..n : q[i].token \in Nat /\ q[i].delta \in Nat
  BY <1>2 DEF Entries
<1>4. /\ \A i \in 0..n : B(i) \in Nat
      /\ B(0) = 0
      /\ \A i \in 1..n : B(i) = B(i - 1) + q[i].delta
  BY BeforeSteps
<1>5. k \in 0..n /\ \A i \in 0..n : B(i) <= t <=> i <= k
  BY PassedIs
<1>6. r = [i \in 1..n |-> [q[i] EXCEPT !.delta = D(i)]]
  BY <1>1 DEF Synchronized
<1> HIDE DEF n, k, B
<1>7. ASSUME NEW i \in 1..n
      PROVE  /\ D(i) \in Nat
             /\ f[i] = f[i - 1] + D(i)
  <2>1. i \in 0..n /\ i - 1 \in 0..n
    BY <1>1
  <2>2. B(i) = B(i - 1) + q[i].delta
    BY <1>4
  <2>3. f[i] = Left(B(i), t) /\ f[i - 1] = Left(B(i - 1), t)
    BY <2>1
  <2>4. B(i) \in Nat /\ B(i - 1) \in Nat /\ q[i].delta \in Nat
    BY <1>3, <1>4, <2>1
  <2>5. CASE i <= k
    <3>1. B(i) <= t /\ B(i - 1) <= t
      BY <1>5, <2>1, <2>5
    <3> QED BY <2>3, <2>4, <2>5, <3>1 DEF Left
  <2>6. CASE i = k + 1
    <3>1. ~(B(i) <= t) /\ B(i - 1) <= t /\ B(k) = B(i - 1)
      BY <1>5, <2>1, <2>6
    <3>2. D(i) = q[i].delta - (t - B(i - 1))
      BY <1>5, <2>6, <3>1
    <3> HIDE DEF D, f
    <3> QED BY <2>2, <2>3, <2>4, <3>1, <3>2 DEF Left
  <2>7. CASE i > k + 1
    <3>1. ~(B(i) <= t) /\ ~(B(i - 1) <= t)
      BY <1>5, <2>1, <2>7
    <3>2. D(i) = q[i].delta
      BY <1>5, <2>7
    <3> HIDE DEF D, f
    <3> QED BY <2>2, <2>3, <2>4, <3>1, <3>2 DEF Left
  <2> QED BY <1>5, <2>1, <2>5, <2>6, <2>7
<1>8. ASSUME NEW i \in 1..n
      PROVE  /\ r[i] \in Entries
             /\ r[i].token = q[i].token /\ r[i].delta = D(i)
  <2>1. D(i) \in Nat /\ q[i] \in Entries
    BY <1>2, <1>7
  <2>2. r[i] = [q[i] EXCEPT !.delta = D(i)]
    BY <1>6
  <2> HIDE DEF D
  <2> QED BY <2>1, <2>2 DEF Entries
<1>9. r \in Seq(Entries) /\ Len(r) = n
  <2>1. r \in [1..n -> Entries]
    BY <1>6, <1>8
  <2> QED BY <1>1, <2>1, FunctionIsSequence
<1>10. SumsUpTo(f, r, n)
  <2>1. f[0] = 0
    BY <1>1, <1>4 DEF Left
  <2>2. \A i \in 1..n : f[i] = f[i - 1] + r[i].delta
    BY <1>7, <1>8
  <2> HIDE DEF f
  <2> QED BY <2>1, <2>2 DEF SumsUpTo
<1>11. \A i \in 0..n : Before(r, i) = f[i]
  BY <1>9, <1>10, BeforeIs
<1> QED BY <1>8, <1>9, <1>11 DEF n, B

LEMMA ThreeParts ==
    ASSUME NEW S, NEW a \in Seq(S), NEW m \in Seq(S), NEW b \in Seq(S),
           NEW r, r = a \o m \o b
    PROVE  /\ r \in Seq(S) /\ Len(r) = Len(a) + Len(m) + Len(b)
           /\ \A i \in 1..Len(a) : r[i] = a[i]
           /\ \A i \in 1..Len(m) : r[Len(a) + i] = m[i]
           /\ \A i \in 1..Len(b) : r[Len(a) + Len(m) + i] = b[i]
<1> DEFINE p == a \o m
           la == Len(a)
           lm == Len(m)
           lb == Len(b)
<1>1. la \in Nat /\ lm \in Nat /\ lb \in Nat
  OBVIOUS
<1>2. /\ p \in Seq(S) /\ Len(p) = la + lm
      /\ \A i \in 1..la : p[i] = a[i]
      /\ \A i \in 1..lm : p[la + i] = m[i]
  BY ConcatProperties
<1>3. r = p \o b
  OBVIOUS
<1> HIDE DEF p
<1>4. /\ p \o b \in Seq(S) /\ Len(p \o b) = Len(p) + lb
      /\ \A i \in 1..Len(p) : (p \o b)[i] = p[i]
      /\ \A i \in 1..lb : (p \o b)[Len(p) + i] = b[i]
  <2>1. p \in Seq(S) /\ b \in Seq(S)
    BY <1>2
  <2> QED BY ONLY <2>1, ConcatProperties DEF lb
<1> HIDE DEF la, lm, lb
<1>5. /\ r \in Seq(S) /\ Len(r) = la + lm + lb
      /\ \A i \in 1..(la + lm) : r[i] = p[i]
      /\ \A i \in 1..lb : r[la + lm + i] = b[i]
  BY ONLY <1>2, <1>3, <1>4
<1>6. \A i \in 1..la : i \in 1..(la + lm)
  BY ONLY <1>1
<1>7. \A i \in 1..lm : la + i \in 1..(la + lm)
  BY ONLY <1>1
<1>8. /\ \A i \in 1..la : r[i] = a[i]
      /\ \A i \in 1..lm : r[la + i] = m[i]
  BY ONLY <1>2, <1>5, <1>6, <1>7
<1> QED BY <1>5, <1>8 DEF la, lm, lb

LEMMA AddedSums ==
    ASSUME NEW q \in Seq(Entries), NEW new \in Entries,
           new.delta < Before(q, Len(q)),
           NEW k, k = Passed(q, new.delta), NEW r, r = Added(q, new)
    PROVE  /\ r \in Seq(Entries) /\ Len(r) = Len(q) + 1
           /\ k \in 0..(Len(q) - 1)
           /\ \A i \in 1..(Len(q) + 1) :
                r[i].token = IF i <= k THEN q[i].token
                             ELSE IF i = k + 1 THEN new.token
                             ELSE q[i - 1].token
           /\ \A i \in 0..(Len(q) + 1) :
                Before(r, i) = IF i <= k THEN Before(q, i)
                               ELSE IF i = k + 1 THEN new.delta
                               ELSE Before(q, i - 1)
<1> DEFINE n == Len(q)
           B(i) == Before(q, i)
           d == new.delta
           x == [new EXCEPT !.delta = @ - B(k)]
           y == [q[k + 1] EXCEPT !.delta = @ - x.delta]
           f == [i \in 0..(n + 1) |-> IF i <= k THEN B(i)
                                     ELSE IF i = k + 1 THEN d ELSE B(i - 1)]
<1>1. n \in Nat /\ d \in Nat /\ new.token \in Nat
  BY DEF Entries
<1>2. \A i \in 1..n : /\ q[i] \in Entries
                      /\ q[i].token \in Nat /\ q[i].delta \in Nat
  BY EntryTypes
<1>3. /\ \A i \in 0..n : B(i) \in Nat
      /\ B(0) = 0
      /\ \A i \in 1..n : B(i) = B(i - 1) + q[i].delta
  BY BeforeSteps
<1>4. k \in 0..n /\ \A i \in 0..n : B(i) <= d <=> i <= k
  BY <1>1, PassedIs
<1>5. r = SubSeq(q, 1, k) \o <<x, y>> \o SubSeq(q, k + 2, n)
  BY DEF Added, Inserted
<1>6. d < B(n)
  OBVIOUS
<1> HIDE DEF B, n, d
<1>7. /\ k \in 0..(n - 1) /\ k + 1 \in 1..n
      /\ B(k) <= d /\ ~(B(k + 1) <= d)
      /\ B(k + 1) = B(k) + q[k + 1].delta
  <2>1. B(n) \in Nat /\ ~(B(n) <= d) /\ n \in 0..n
    BY <1>1, <1>3, <1>6
  <2>2. k \in 0..(n - 1)
    BY <1>1, <1>4, <2>1
  <2>3. k + 1 \in 1..n /\ k \in 0..n /\ k + 1 \in 0..n /\ (k + 1) - 1 = k
    BY <1>1, <2>2
  <2>4. B(k) <= d /\ ~(B(k + 1) <= d)
    BY <1>4, <2>3
  <2>5. B(k + 1) = B(k) + q[k + 1].delta
    BY <1>3, <2>3
  <2> QED BY <2>2, <2>3, <2>4, <2>5
<1>8. B(k) \in Nat /\ B(k + 1) \in Nat /\ q[k + 1] \in Entries
  <2>1. k \in 0..n /\ k + 1 \in 0..n
    BY <1>1, <1>7
  <2> QED BY <1>2, <1>3, <1>7, <2>1
<1>9. x \in Entries /\ x.token = new.token /\ x.delta = d - B(k)
  <2>1. d - B(k) \in Nat
    BY <1>1, <1>7, <1>8
  <2>2. x = [new EXCEPT !.delta = d - B(k)]
    BY DEF d
  <2> HIDE DEF x
  <2> QED BY <2>1, <2>2 DEF Entries
<1>10. /\ y \in Entries /\ y.token = q[k + 1].token
       /\ y.delta = B(k + 1) - d
  <2>1. q[k + 1].delta - x.delta = B(k + 1) - d
    <3>1. q[k + 1].delta \in Nat
      BY <1>2, <1>7
    <3> HIDE DEF x
    <3> QED BY <1>1, <1>7, <1>8, <1>9, <3>1
  <2>2. B(k + 1) - d \in Nat
    BY <1>1, <1>7, <1>8
  <2>3. y = [q[k + 1] EXCEPT !.delta = B(k + 1) - d]
    BY <2>1
  <2> HIDE DEF y
  <2> QED BY <1>8, <2>2, <2>3 DEF Entries
<1> HIDE DEF x, y
<1>11. /\ r \in Seq(Entries) /\ Len(r) = n + 1
       /\ \A i \in 1..(n + 1) :
            r[i] = IF i <= k THEN q[i] ELSE IF i = k + 1 THEN x
                   ELSE IF i = k + 2 THEN y ELSE q[i - 1]
  <2> DEFINE m == <<x, y>>
             a == SubSeq(q, 1, k)
             b == SubSeq(q, k + 2, n)
  <2>1. m \in Seq(Entries) /\ Len(m) = 2 /\ m[1] = x /\ m[2] = y
    BY <1>9, <1>10
  <2>2. /\ a \in Seq(Entries) /\ Len(a) = k
        /\ \A i \in 1..k : a[i] = q[i]
    BY <1>7 DEF n
  <2>3. /\ b \in Seq(Entries) /\ Len(b) = n - (k + 1)
        /\ \A i \in 1..(n - (k + 1)) : b[i] = q[i + (k + 1)]
    BY <1>7 DEF n
  <2>4. r = a \o m \o b
    BY <1>5
  <2> HIDE DEF a, b, m
  <2>5. /\ r \in Seq(Entries) /\ Len(r) = k + 2 + (n - (k + 1))
        /\ \A i \in 1..k : r[i] = a[i]
        /\ \A i \in 1..2 : r[k + i] = m[i]
        /\ \A i \in 1..(n - (k + 1)) : r[k + 2 + i] = b[i]
    <3>1. /\ r \in Seq(Entries) /\ Len(r) = Len(a) + Len(m) + Len(b)
          /\ \A i \in 1..Len(a) : r[i] = a[i]
          /\ \A i \in 1..Len(m) : r[Len(a) + i] = m[i]
          /\ \A i \in 1..Len(b) : r[Len(a) + Len(m) + i] = b[i]
      <4>1. a \in Seq(Entries) /\ m \in Seq(Entries) /\ b \in Seq(Entries)
        BY <2>1, <2>2, <2>3
      <4> QED BY ONLY <2>4, <4>1, ThreeParts, SMTT(60)
    <3> QED BY ONLY <2>1, <2>2, <2>3, <3>1
  <2>6. Len(r) = n + 1
    BY ONLY <1>1, <1>7, <2>5
  <2>7. ASSUME NEW i \in 1..(n + 1)
        PROVE  r[i] = IF i <= k THEN q[i] ELSE IF i = k + 1 THEN x
                      ELSE IF i = k + 2 THEN y ELSE q[i - 1]
    <3>1. CASE i <= k
      <4>1. i \in 1..k
        BY <1>1, <1>7, <3>1
      <4> QED BY ONLY <2>2, <2>5, <3>1, <4>1
    <3>2. CASE i = k + 1 \/ i = k + 2
      <4>1. r[k + 1] = x /\ r[k + 2] = y
        BY ONLY <2>1, <2>5
      <4>2. ~(i <= k) /\ k + 1 # k + 2
        BY <1>7, <3>2
      <4> QED BY ONLY <3>2, <4>1, <4>2
    <3>3. CASE i > k + 2
      <4> DEFINE j == i - (k + 2)
      <4>1. /\ j \in 1..(n - (k + 1)) /\ k + 2 + j = i
            /\ j + (k + 1) = i - 1
        BY <1>1, <1>7, <3>3
      <4> HIDE DEF j
      <4>2. r[i] = b[j] /\ b[j] = q[i - 1]
        BY ONLY <2>3, <2>5, <4>1
      <4>3. ~(i <= k) /\ i # k + 1 /\ i # k + 2
        BY <1>1, <1>7, <3>3
      <4> QED BY ONLY <4>2, <4>3
    <3> QED BY <1>1, <1>7, <3>1, <3>2, <3>3
  <2> QED BY ONLY <2>5, <2>6, <2>7
<1>12. ASSUME NEW i \in 1..(n + 1)
       PROVE  /\ r[i].token = IF i <= k THEN q[i].token
                              ELSE IF i = k + 1 THEN new.token
                              ELSE q[i - 1].token
              /\ f[i] = f[i - 1] + r[i].delta
  <2>1. i \in 0..(n + 1) /\ i - 1 \in 0..(n + 1)
    BY <1>1
  <2>2. CASE i <= k
    <3>1. f[i] = B(i) /\ f[i - 1] = B(i - 1) /\ i \in 1..n
      BY <1>1, <1>7, <2>1, <2>2
    <3> QED BY <1>3, <1>11, <2>2, <3>1
  <2>3. CASE i = k + 1
    <3>1. f[i] = d /\ f[i - 1] = B(k) /\ r[i] = x
      BY <1>4, <1>11, <2>1, <2>3
    <3> HIDE DEF f
    <3> QED BY <1>1, <1>4, <1>8, <1>9, <2>3, <3>1
  <2>4. CASE i = k + 2
    <3>1. f[i] = B(k + 1) /\ f[i - 1] = d /\ r[i] = y /\ i - 1 = k + 1
      BY <1>4, <1>11, <2>1, <2>4
    <3> HIDE DEF f
    <3> QED BY <1>1, <1>4, <1>8, <1>10, <2>4, <3>1
  <2>5. CASE i > k + 2
    <3>1. /\ f[i] = B(i - 1) /\ f[i - 1] = B((i - 1) - 1)
          /\ r[i] = q[i - 1] /\ i - 1 \in 1..n
      BY <1>1, <1>7, <1>11, <2>1, <2>5
    <3> HIDE DEF f
    <3> QED BY <1>3, <1>7, <2>5, <3>1
  <2> QED BY <1>4, <2>2, <2>3, <2>4, <2>5
<1>13. SumsUpTo(f, r, n + 1)
  <2>1. f[0] = 0
    BY <1>1, <1>3, <1>4
  <2>2. \A i \in 1..(n + 1) : f[i] = f[i - 1] + r[i].delta
    BY <1>12
  <2> HIDE DEF f
  <2> QED BY <2>1, <2>2 DEF SumsUpTo
<1>14. \A i \in 0..(n + 1) : Before(r, i) = f[i]
  BY <1>11, <1>13, BeforeIs
<1> QED BY <1>7, <1>11, <1>12, <1>14 DEF n, B, d

LEMMA RemovingOne ==
    ASSUME NEW S, NEW q \in Seq(S), NEW i \in 1..Len(q)
    PROVE  /\ RemoveAt(q, i) \in Seq(S) /\ Len(RemoveAt(q, i)) = Len(q) - 1
           /\ \A j \in 1..(Len(q) - 1) :
                RemoveAt(q, i)[j] = IF j < i THEN q[j] ELSE q[j + 1]
<1> DEFINE n == Len(q)
           a == SubSeq(q, 1, i - 1)
           b == SubSeq(q, i + 1, n)
           r == RemoveAt(q, i)
<1>1. n \in Nat /\ i \in 1..n
  OBVIOUS
<1>2. /\ a \in Seq(S) /\ Len(a) = i - 1
      /\ \A j \in 1..(i - 1) : a[j] = q[j]
  BY <1>1
<1>3. /\ b \in Seq(S) /\ Len(b) = n - i
      /\ \A j \in 1..(n - i) : b[j] = q[j + i]
  BY <1>1
<1>4. r = a \o b
  BY DEF RemoveAt
<1> HIDE DEF a, b, n, r
<1>5. r \in Seq(S) /\ Len(r) = n - 1
  <2>1. r \in Seq(S) /\ Len(r) = Len(a) + Len(b)
    BY <1>2, <1>3, <1>4, ConcatProperties
  <2> QED BY <1>1, <1>2, <1>3, <2>1
<1>6. ASSUME NEW j \in 1..(n - 1)
      PROVE  r[j] = IF j < i THEN q[j] ELSE q[j + 1]
  <2>1. CASE j < i
    <3>1. r[j] = a[j] /\ j \in 1..(i - 1)
      BY <1>1, <1>2, <1>3, <1>4, <2>1
    <3> QED BY <1>2, <2>1, <3>1
  <2>2. CASE ~(j < i)
    <3>1. r[j] = b[j - (i - 1)] /\ j - (i - 1) \in 1..(n - i)
      BY <1>1, <1>2, <1>3, <1>4, <2>2
    <3>2. (j - (i - 1)) + i = j + 1
      BY <1>1
    <3> QED BY <1>3, <2>2, <3>1, <3>2
  <2> QED BY <2>1, <2>2
<1> QED BY <1>5, <1>6 DEF n, r

LEMMA RemovedSums ==
    ASSUME NEW q \in Seq(Entries), NEW i \in 1..(Len(q) - 1),
           NEW r, r = Removed(q, i)
    PROVE  /\ r \in Seq(Entries) /\ Len(r) = Len(q) - 1
           /\ \A j \in 1..(Len(q) - 1) :
                r[j].token = IF j < i THEN q[j].token ELSE q[j + 1].token
           /\ \A j \in 0..(Len(q) - 1) :
                Before(r, j) = IF j < i THEN Before(q, j)
                               ELSE Before(q, j + 1)
<1> DEFINE n == Len(q)
           B(j) == Before(q, j)
           p == [q EXCEPT ![i + 1].delta = @ + q[i].delta]
           y == [q[i + 1] EXCEPT !.delta = @ + q[i].delta]
           f == [j \in 0..(n - 1) |-> IF j < i THEN B(j) ELSE B(j + 1)]
<1>1. n \in Nat /\ i \in 1..(n - 1) /\ i + 1 \in 1..n /\ i \in 1..n
  OBVIOUS
<1>2. \A j \in 1..n : /\ q[j] \in Entries
                      /\ q[j].token \in Nat /\ q[j].delta \in Nat
  BY EntryTypes
<1>3. /\ \A j \in 0..n : B(j) \in Nat
      /\ B(0) = 0
      /\ \A j \in 1..n : B(j) = B(j - 1) + q[j].delta
  BY BeforeSteps
<1>4. r = RemoveAt(p, i)
  BY DEF Removed
<1>5. p = [q EXCEPT ![i + 1] = y]
  OBVIOUS
<1>6. /\ y \in Entries /\ y.token = q[i + 1].token
      /\ y.delta = q[i + 1].delta + q[i].delta
  <2>1. q[i + 1].delta + q[i].delta \in Nat /\ q[i + 1] \in Entries
    BY <1>1, <1>2
  <2> HIDE DEF n
  <2> QED BY <2>1 DEF Entries
<1> HIDE DEF y
<1>7. /\ p \in Seq(Entries) /\ Len(p) = n
      /\ \A j \in 1..n : p[j] = IF j = i + 1 THEN y ELSE q[j]
  BY <1>1, <1>5, <1>6
<1> HIDE DEF n, B, p
<1>8. /\ r \in Seq(Entries) /\ Len(r) = n - 1
      /\ \A j \in 1..(n - 1) : r[j] = IF j < i THEN p[j] ELSE p[j + 1]
  BY ONLY <1>1, <1>4, <1>7, RemovingOne
<1>9. ASSUME NEW j \in 1..(n - 1)
      PROVE  /\ r[j].token = IF j < i THEN q[j].token ELSE q[j + 1].token
             /\ f[j] = f[j - 1] + r[j].delta
  <2>1. /\ j \in 0..(n - 1) /\ j - 1 \in 0..(n - 1) /\ j \in 1..n
        /\ j + 1 \in 1..n /\ (j + 1) - 1 = j /\ (j - 1) + 1 = j
        /\ j \in 0..n /\ j - 1 \in 0..n /\ j + 1 \in 0..n
    BY <1>1
  <2>2. B(j) = B(j - 1) + q[j].delta /\ B(j + 1) = B(j) + q[j + 1].delta
    BY <1>3, <2>1
  <2>3. /\ B(j) \in Nat /\ B(j - 1) \in Nat /\ B(j + 1) \in Nat
        /\ q[j].delta \in Nat /\ q[j + 1].delta \in Nat
    BY <1>2, <1>3, <2>1
  <2>4. CASE j < i
    <3>1. f[j] = B(j) /\ f[j - 1] = B(j - 1) /\ r[j] = q[j]
      BY <1>1, <1>7, <1>8, <2>1, <2>4
    <3> QED BY <2>2, <2>4, <3>1
  <2>5. CASE j = i
    <3>1. f[j] = B(j + 1) /\ f[j - 1] = B(j - 1) /\ r[j] = y
      BY <1>1, <1>7, <1>8, <2>1, <2>5
    <3> HIDE DEF f
    <3> QED BY <1>6, <2>2, <2>3, <2>5, <3>1
  <2>6. CASE j > i
    <3>1. f[j] = B(j + 1) /\ f[j - 1] = B(j) /\ r[j] = q[j + 1]
      BY <1>1, <1>7, <1>8, <2>1, <2>6
    <3> QED BY <2>2, <2>6, <3>1
  <2> QED BY <1>1, <2>4, <2>5, <2>6
<1>10. SumsUpTo(f, r, n - 1)
  <2>1. f[0] = 0
    BY <1>1, <1>3
  <2>2. \A j \in 1..(n - 1) : f[j] = f[j - 1] + r[j].delta
    BY <1>9
  <2> HIDE DEF f
  <2> QED BY <2>1, <2>2 DEF SumsUpTo
<1>11. \A j \in 0..(n - 1) : Before(r, j) = f[j]
  BY <1>8, <1>10, BeforeIs
<1> QED BY <1>8, <1>9, <1>11 DEF n, B

(* The queue itself is due at Eternity.                                    *)
DueAt(d, t) == IF t = 0 THEN Eternity ELSE d[t]
Tokens(q) == {q[i].token : i \in 1..(Len(q) - 1)}
Precedes(d, t, u) == d[t] < d[u] \/ (d[t] = d[u] /\ t < u)

(* At time c the list q has the tasks that are due at d: in their order,   *)
(* with the time that is left to each.                                     *)
Listed(q, c, d) ==
    /\ q \in Seq(Entries) /\ Len(q) >= 1
    /\ \A i \in 1..Len(q) : q[i].token = 0 <=> i = Len(q)
    /\ c \in Nat /\ c < Eternity
    /\ d \in [Tokens(q) -> 0..(Eternity - 1)]
    /\ \A i, j \in 1..(Len(q) - 1) :
          i < j => Precedes(d, q[i].token, q[j].token)
    /\ \A i \in 1..Len(q) : Before(q, i) = Left(DueAt(d, q[i].token), c)

LEMMA Synchronizing ==
    ASSUME NEW q, NEW c, NEW d, Listed(q, c, d), NEW e \in Nat,
           c + e < Eternity, NEW r, r = Synchronized(q, e)
    PROVE  Listed(r, c + e, d) /\ Tokens(r) = Tokens(q)
<1> DEFINE n == Len(q)
<1>1. q \in Seq(Entries) /\ n \in Nat /\ n >= 1
  BY DEF Listed
<1>2. /\ r \in Seq(Entries) /\ Len(r) = n
      /\ \A i \in 1..n : r[i].token = q[i].token
      /\ \A i \in 0..n : Before(r, i) = Left(Before(q, i), e)
  BY <1>1, SynchronizedSums
<1> HIDE DEF n
<1>3. /\ \A i \in 1..n : q[i].token = 0 <=> i = n
      /\ c \in Nat /\ d \in [Tokens(q) -> 0..(Eternity - 1)]
      /\ \A i, j \in 1..(n - 1) :
            i < j => Precedes(d, q[i].token, q[j].token)
      /\ \A i \in 1..n : Before(q, i) = Left(DueAt(d, q[i].token), c)
  BY DEF Listed, n
<1>4. Tokens(r) = Tokens(q)
  <2>1. \A i \in 1..(n - 1) : i \in 1..n
    BY <1>1
  <2> QED BY <1>2, <2>1 DEF Tokens, n
<1>5. ASSUME NEW i \in 1..n
      PROVE  Before(r, i) = Left(DueAt(d, r[i].token), c + e)
  <2> DEFINE x == DueAt(d, q[i].token)
  <2>1. x \in Nat
    <3>1. CASE i = n
      BY <1>3, <3>1, DelayAssumption DEF DueAt
    <3>2. CASE i # n
      <4>1. i \in 1..(n - 1)
        BY <1>1, <3>2
      <4>2. q[i].token \in Tokens(q)
        BY <4>1 DEF Tokens, n
      <4> QED BY <1>3, <3>2, <4>2 DEF DueAt
    <3> QED BY <3>1, <3>2
  <2>2. Before(r, i) = Left(Left(x, c), e)
    BY <1>1, <1>2, <1>3
  <2> HIDE DEF x
  <2>3. Left(Left(x, c), e) = Left(x, c + e)
    BY <1>3, <2>1 DEF Left
  <2> QED BY <1>2, <2>2, <2>3 DEF x
<1>6. \A i \in 1..n : r[i].token = 0 <=> i = n
  BY <1>2, <1>3
<1>7. \A i, j \in 1..(n - 1) :
         i < j => Precedes(d, r[i].token, r[j].token)
  <2>1. \A i \in 1..(n - 1) : r[i].token = q[i].token
    BY <1>1, <1>2
  <2> QED BY <1>3, <2>1
<1>8. c + e \in Nat
  BY <1>3
<1> QED BY <1>1, <1>2, <1>3, <1>4, <1>5, <1>6, <1>7, <1>8 DEF Listed

LEMMA Scheduling ==
    ASSUME NEW q, NEW c, NEW d, Listed(q, c, d), NEW delay \in Nat,
           c + delay < Eternity,
           NEW t \in Nat, t > 0, \A u \in Tokens(q) : u < t,
           NEW f \in [Tokens(q) \cup {t} -> Nat], f[t] = c + delay,
           \A u \in Tokens(q) : f[u] = d[u],
           NEW r, r = Added(q, [token |-> t, delta |-> delay])
    PROVE  Listed(r, c, f) /\ Tokens(r) = Tokens(q) \cup {t}
<1> DEFINE n == Len(q)
           new == [token |-> t, delta |-> delay]
           k == Passed(q, delay)
           B(i) == Before(q, i)
           From(i) == IF i <= k THEN i ELSE i - 1
<1>1. q \in Seq(Entries) /\ n \in Nat /\ n >= 1 /\ n \in 1..n
  BY DEF Listed
<1>2. /\ \A i \in 1..n : q[i].token = 0 <=> i = n
      /\ c \in Nat /\ c < Eternity
      /\ d \in [Tokens(q) -> 0..(Eternity - 1)]
      /\ \A i, j \in 1..(n - 1) :
            i < j => Precedes(d, q[i].token, q[j].token)
      /\ \A i \in 1..n : B(i) = Left(DueAt(d, q[i].token), c)
  BY DEF Listed
<1>3. new \in Entries /\ new.token = t /\ new.delta = delay
  BY DEF Entries
<1>4. delay < B(n) /\ B(n) = Eternity - c
  <2>1. B(n) = Left(Eternity, c)
    BY <1>1, <1>2 DEF DueAt
  <2> QED BY <1>2, <2>1, DelayAssumption DEF Left
<1>5. /\ r \in Seq(Entries) /\ Len(r) = n + 1
      /\ k \in 0..(n - 1)
      /\ \A i \in 1..(n + 1) :
           r[i].token = IF i <= k THEN q[i].token
                        ELSE IF i = k + 1 THEN t ELSE q[i - 1].token
      /\ \A i \in 0..(n + 1) :
           Before(r, i) = IF i <= k THEN B(i)
                          ELSE IF i = k + 1 THEN delay ELSE B(i - 1)
  <2>1. delay < Before(q, Len(q))
    BY <1>4
  <2> HIDE DEF new
  <2>2. k = Passed(q, new.delta) /\ r = Added(q, new)
    BY <1>3 DEF new
  <2>3. q \in Seq(Entries) /\ new \in Entries /\ new.delta < Before(q, Len(q))
    BY <1>1, <1>3, <2>1
  <2> HIDE DEF k
  <2>4. /\ r \in Seq(Entries) /\ Len(r) = Len(q) + 1
        /\ k \in 0..(Len(q) - 1)
        /\ \A i \in 1..(Len(q) + 1) :
             r[i].token = IF i <= k THEN q[i].token
                          ELSE IF i = k + 1 THEN new.token ELSE q[i - 1].token
        /\ \A i \in 0..(Len(q) + 1) :
             Before(r, i) = IF i <= k THEN Before(q, i)
                            ELSE IF i = k + 1 THEN new.delta
                            ELSE Before(q, i - 1)
    BY ONLY <2>2, <2>3, AddedSums
  <2> QED BY ONLY <1>3, <2>4
<1>6. \A i \in 0..n : B(i) <= delay <=> i <= k
  BY <1>1, PassedIs
<1>7. \A i \in 1..(n - 1) : q[i].token \in Tokens(q) /\ i \in 1..n
  BY <1>1 DEF Tokens
<1>8. ASSUME NEW x
      PROVE  x \in Tokens(q) <=> \E i \in 1..(n - 1) : x = q[i].token
  BY DEF Tokens
<1>9. ASSUME NEW x
      PROVE  x \in Tokens(r) <=> \E i \in 1..n : x = r[i].token
  BY <1>1, <1>5 DEF Tokens
<1> HIDE DEF n, k, new, B
<1>10. \A i \in 1..(n + 1) :
         /\ i # k + 1 => From(i) \in 1..n /\ r[i].token = q[From(i)].token
         /\ i = k + 1 => r[i].token = t
  BY <1>1, <1>5
<1>11. ASSUME NEW x
       PROVE  x \in Tokens(r) <=> x \in Tokens(q) \/ x = t
  <2>1. ASSUME x \in Tokens(r) PROVE x \in Tokens(q) \/ x = t
    <3>1. PICK i \in 1..n : x = r[i].token
      BY <1>9, <2>1
    <3>2. CASE i # k + 1
      <4>1. From(i) \in 1..(n - 1) /\ i \in 1..(n + 1)
        BY <1>1, <1>5, <3>2
      <4> HIDE DEF From
      <4> QED BY <1>7, <1>10, <3>1, <3>2, <4>1
    <3> QED BY <1>1, <1>10, <3>1, <3>2
  <2>2. ASSUME x \in Tokens(q) PROVE x \in Tokens(r)
    <3>1. PICK i \in 1..(n - 1) : x = q[i].token
      BY <1>8, <2>2
    <3> DEFINE j == IF i <= k THEN i ELSE i + 1
    <3>2. j \in 1..n /\ j \in 1..(n + 1) /\ j # k + 1 /\ From(j) = i
      BY <1>1, <1>5, <3>1
    <3> HIDE DEF From, j
    <3> QED BY <1>9, <1>10, <3>1, <3>2
  <2>3. t \in Tokens(r)
    <3>1. k + 1 \in 1..n /\ k + 1 \in 1..(n + 1)
      BY <1>1, <1>5
    <3> QED BY <1>9, <1>10, <3>1
  <2> QED BY <2>1, <2>2, <2>3
<1>12. Tokens(r) = Tokens(q) \cup {t}
  BY <1>11
<1>13. f \in [Tokens(r) -> 0..(Eternity - 1)]
  <2>1. \A u \in Tokens(q) : f[u] \in 0..(Eternity - 1)
    BY <1>2
  <2>2. f[t] \in 0..(Eternity - 1)
    BY <1>2, DelayAssumption
  <2> QED BY <1>12, <2>1, <2>2
<1>14. \A i \in 1..(n + 1) : r[i].token = 0 <=> i = n + 1
  <2> TAKE i \in 1..(n + 1)
  <2>1. CASE i = k + 1
    BY <1>1, <1>5, <1>10, <2>1
  <2>2. CASE i # k + 1
    <3>1. From(i) = n <=> i = n + 1
      BY <1>1, <1>5, <2>2
    <3> HIDE DEF From
    <3> QED BY <1>2, <1>10, <2>2, <3>1
  <2> QED BY <2>1, <2>2
<1>15. ASSUME NEW i \in 1..(n + 1)
       PROVE  Before(r, i) = Left(DueAt(f, r[i].token), c)
  <2>1. CASE i = k + 1
    <3>1. Before(r, i) = delay
      BY <1>5, <2>1
    <3>2. DueAt(f, r[i].token) = c + delay
      BY <1>10, <2>1 DEF DueAt
    <3> QED BY <1>2, <3>1, <3>2 DEF Left
  <2>2. CASE i # k + 1
    <3>1. Before(r, i) = B(From(i))
      BY <1>1, <1>5, <2>2
    <3>2. From(i) \in 1..n /\ r[i].token = q[From(i)].token
      BY <1>10, <2>2
    <3> HIDE DEF From
    <3>3. DueAt(f, r[i].token) = DueAt(d, q[From(i)].token)
      <4>1. CASE q[From(i)].token = 0
        BY <3>2, <4>1 DEF DueAt
      <4>2. CASE q[From(i)].token # 0
        <5>1. From(i) \in 1..(n - 1)
          BY <1>1, <1>2, <3>2, <4>2
        <5> QED BY <1>7, <3>2, <4>2, <5>1 DEF DueAt
      <4> QED BY <4>1, <4>2
    <3> QED BY <1>2, <3>1, <3>2, <3>3
  <2> QED BY <2>1, <2>2
(* The new task comes after those that are due before it or with it.      *)
<1>16. \A i \in 1..(n - 1) : i <= k <=> d[q[i].token] <= c + delay
  <2> TAKE i \in 1..(n - 1)
  <2> DEFINE x == d[q[i].token]
  <2>1. i \in 1..n /\ i \in 0..n /\ q[i].token # 0 /\ x \in Nat
    BY <1>1, <1>2, <1>7
  <2>2. B(i) = Left(x, c)
    BY <1>2, <2>1 DEF DueAt
  <2>3. B(i) <= delay <=> i <= k
    BY <1>6, <2>1
  <2> HIDE DEF x
  <2>4. Left(x, c) <= delay <=> x <= c + delay
    BY <1>2, <2>1 DEF Left
  <2> QED BY <2>2, <2>3, <2>4 DEF x
<1>17. ASSUME NEW i \in 1..n, NEW j \in 1..n, i < j
       PROVE  Precedes(f, r[i].token, r[j].token)
  <2>1. i \in 1..(n + 1) /\ j \in 1..(n + 1)
    BY <1>1
  <2>2. ASSUME NEW l \in 1..n, l # k + 1
        PROVE  /\ From(l) \in 1..(n - 1)
               /\ r[l].token = q[From(l)].token
               /\ r[l].token \in Tokens(q)
               /\ f[r[l].token] = d[q[From(l)].token]
    <3>1. From(l) \in 1..(n - 1) /\ l \in 1..(n + 1)
      BY <1>1, <1>5, <2>2
    <3> HIDE DEF From
    <3> QED BY <1>7, <1>10, <2>2, <3>1
  <2>3. CASE i # k + 1 /\ j # k + 1
    <3>1. From(i) < From(j)
      BY <1>1, <1>5, <1>17, <2>3
    <3>2. Precedes(d, q[From(i)].token, q[From(j)].token)
      BY <1>2, <2>2, <2>3, <3>1
    <3> HIDE DEF From
    <3> QED BY <2>2, <2>3, <3>2 DEF Precedes
  <2>4. CASE j = k + 1
    <3>1. i # k + 1 /\ From(i) = i /\ i <= k /\ i \in 1..(n - 1)
      BY <1>1, <1>5, <1>17, <2>4
    <3>2. /\ r[i].token \in Tokens(q) /\ r[j].token = t
          /\ f[r[i].token] = d[q[i].token]
      BY <1>10, <2>1, <2>2, <2>4, <3>1
    <3>3. f[r[i].token] <= f[t]
      BY <1>16, <3>1, <3>2
    <3>4. r[i].token < t
      BY <3>2
    <3>5. f[r[i].token] \in Nat /\ f[t] \in Nat
      BY <3>2
    <3> QED BY <3>2, <3>3, <3>4, <3>5 DEF Precedes
  <2>5. CASE i = k + 1
    <3>1. j # k + 1 /\ From(j) = j - 1 /\ ~(j - 1 <= k)
      BY <1>1, <1>5, <1>17, <2>5
    <3>2. /\ j - 1 \in 1..(n - 1) /\ r[i].token = t
          /\ r[j].token \in Tokens(q)
          /\ f[r[j].token] = d[q[j - 1].token]
      BY <1>10, <2>1, <2>2, <2>5, <3>1
    <3>3. ~(f[r[j].token] <= f[t])
      BY <1>16, <3>1, <3>2
    <3>4. f[r[j].token] \in Nat /\ f[t] \in Nat
      BY <3>2
    <3> QED BY <3>2, <3>3, <3>4 DEF Precedes
  <2> QED BY <2>3, <2>4, <2>5
<1>18. Len(r) = n + 1 /\ n + 1 >= 1 /\ (n + 1) - 1 = n
  BY <1>1, <1>5
<1> QED BY <1>2, <1>5, <1>12, <1>13, <1>14, <1>15, <1>17, <1>18 DEF Listed

LEMMA Cancelling ==
    ASSUME NEW q, NEW c, NEW d, Listed(q, c, d),
           NEW i, i \in DOMAIN q, i # Len(q),
           NEW t, t = q[i].token, NEW S, S = Tokens(q) \ {t},
           NEW f \in [S -> Nat], \A u \in S : f[u] = d[u],
           NEW r, r = Removed(q, i)
    PROVE  Listed(r, c, f) /\ Tokens(r) = S
<1> DEFINE n == Len(q)
           B(j) == Before(q, j)
           From(j) == IF j < i THEN j ELSE j + 1
<1>1. q \in Seq(Entries) /\ n \in Nat /\ n >= 1 /\ i \in 1..(n - 1)
  BY DEF Listed
<1>2. /\ \A j \in 1..n : q[j].token = 0 <=> j = n
      /\ c \in Nat /\ c < Eternity
      /\ d \in [Tokens(q) -> 0..(Eternity - 1)]
      /\ \A j, k \in 1..(n - 1) :
            j < k => Precedes(d, q[j].token, q[k].token)
      /\ \A j \in 1..n : B(j) = Left(DueAt(d, q[j].token), c)
  BY DEF Listed
<1>3. /\ r \in Seq(Entries) /\ Len(r) = n - 1
      /\ \A j \in 1..(n - 1) :
           r[j].token = IF j < i THEN q[j].token ELSE q[j + 1].token
      /\ \A j \in 0..(n - 1) :
           Before(r, j) = IF j < i THEN B(j) ELSE B(j + 1)
  BY <1>1, RemovedSums
<1>4. \A j \in 1..(n - 1) : q[j].token \in Tokens(q) /\ j \in 1..n
  BY <1>1 DEF Tokens
<1>5. ASSUME NEW x
      PROVE  x \in Tokens(q) <=> \E j \in 1..(n - 1) : x = q[j].token
  BY DEF Tokens
<1>6. ASSUME NEW x
      PROVE  x \in Tokens(r) <=> \E j \in 1..((n - 1) - 1) : x = r[j].token
  BY <1>3 DEF Tokens
<1> HIDE DEF n, B
<1>7. \A j \in 1..(n - 1) :
         /\ From(j) \in 1..n /\ From(j) # i
         /\ r[j].token = q[From(j)].token
         /\ j # n - 1 => From(j) \in 1..(n - 1)
         /\ j = n - 1 => From(j) = n
  BY <1>1, <1>3
<1>8. \A j, k \in 1..(n - 1) : q[j].token = q[k].token => j = k
  <2>1. \A j, k \in 1..(n - 1) : j < k => q[j].token # q[k].token
    <3> TAKE j, k \in 1..(n - 1)
    <3>1. q[j].token \in Nat /\ d[q[j].token] \in Nat
      BY <1>1, <1>2, <1>4, EntryTypes DEF n
    <3> QED BY <1>2, <3>1 DEF Precedes
  <2> QED BY <2>1
<1>9. ASSUME NEW x
      PROVE  x \in Tokens(r) <=> x \in Tokens(q) /\ x # t
  <2>1. ASSUME x \in Tokens(r) PROVE x \in Tokens(q) /\ x # t
    <3>1. PICK j \in 1..((n - 1) - 1) : x = r[j].token
      BY <1>6, <2>1
    <3>2. j \in 1..(n - 1) /\ j # n - 1
      BY <1>1
    <3> HIDE DEF From
    <3>3. From(j) \in 1..(n - 1) /\ From(j) # i /\ x = q[From(j)].token
      BY <1>7, <3>1, <3>2
    <3> QED BY <1>1, <1>4, <1>8, <3>3
  <2>2. ASSUME x \in Tokens(q), x # t PROVE x \in Tokens(r)
    <3>1. PICK k \in 1..(n - 1) : x = q[k].token
      BY <1>5, <2>2
    <3> DEFINE j == IF k < i THEN k ELSE k - 1
    <3>2. k # i
      BY <2>2, <3>1
    <3>3. j \in 1..((n - 1) - 1) /\ j \in 1..(n - 1) /\ From(j) = k
      BY <1>1, <3>2
    <3> HIDE DEF From, j
    <3> QED BY <1>6, <1>7, <3>1, <3>3
  <2> QED BY <2>1, <2>2
<1>10. Tokens(r) = Tokens(q) \ {t}
  BY <1>9
<1>11. f \in [Tokens(r) -> 0..(Eternity - 1)]
  <2>1. \A u \in Tokens(r) : f[u] = d[u] /\ u \in Tokens(q)
    BY <1>10
  <2> QED BY <1>2, <1>10, <2>1
<1>12. \A j \in 1..(n - 1) : r[j].token = 0 <=> j = n - 1
  <2> HIDE DEF From
  <2>1. n \notin 1..(n - 1)
    BY <1>1
  <2> QED BY <1>2, <1>7, <2>1
<1>13. ASSUME NEW j \in 1..(n - 1)
       PROVE  Before(r, j) = Left(DueAt(f, r[j].token), c)
  <2>1. Before(r, j) = B(From(j))
    BY <1>1, <1>3
  <2> HIDE DEF From
  <2>2. DueAt(f, r[j].token) = DueAt(d, q[From(j)].token)
    <3>1. CASE j = n - 1
      BY <1>7, <1>12, <3>1 DEF DueAt
    <3>2. CASE j # n - 1
      <4>1. r[j].token = q[From(j)].token /\ r[j].token # 0
        BY <1>7, <1>12, <3>2
      <4>2. j \in 1..((n - 1) - 1)
        BY <1>1, <3>2
      <4>3. r[j].token \in Tokens(r)
        BY <1>6, <4>2
      <4>4. r[j].token \in Tokens(q) \ {t}
        BY <1>10, <4>3
      <4>5. f[r[j].token] = d[r[j].token]
        BY <4>4
      <4> QED BY <4>1, <4>5 DEF DueAt
    <3> QED BY <3>1, <3>2
  <2> QED BY <1>2, <1>7, <2>1, <2>2
<1>14. ASSUME NEW j \in 1..((n - 1) - 1), NEW k \in 1..((n - 1) - 1), j < k
       PROVE  Precedes(f, r[j].token, r[k].token)
  <2>1. From(j) < From(k)
    BY <1>1, <1>14
  <2>2. /\ j \in 1..(n - 1) /\ j # n - 1
        /\ k \in 1..(n - 1) /\ k # n - 1
    BY <1>1
  <2> HIDE DEF From
  <2>3. Precedes(d, q[From(j)].token, q[From(k)].token)
    BY <1>2, <1>7, <2>1, <2>2
  <2>4. r[j].token \in Tokens(r) /\ r[k].token \in Tokens(r)
    BY <1>6
  <2>5. r[j].token \in Tokens(q) \ {t} /\ r[k].token \in Tokens(q) \ {t}
    BY <1>10, <2>4
  <2>6. /\ f[r[j].token] = d[r[j].token] /\ f[r[k].token] = d[r[k].token]
        /\ r[j].token = q[From(j)].token /\ r[k].token = q[From(k)].token
    BY <1>7, <2>2, <2>5
  <2> QED BY <2>3, <2>6 DEF Precedes
<1>15. n - 1 \in Nat /\ n - 1 >= 1
  BY <1>1
<1> QED BY <1>2, <1>3, <1>10, <1>11, <1>12, <1>13, <1>14, <1>15 DEF Listed

(* The first task is the one that is due first.                            *)
LEMMA FirstTask ==
    ASSUME NEW q, NEW c, NEW d, Listed(q, c, d)
    PROVE  /\ Head(q) = q[1] /\ Head(q).delta \in Nat
           /\ \A t \in Tokens(q) : Head(q).delta <= Left(d[t], c)
           /\ Head(q).delta = 0 =>
                /\ 1 \in DOMAIN q /\ 1 # Len(q) /\ q[1].token \in Tokens(q)
                /\ d[q[1].token] <= c
                /\ \A u \in Tokens(q) \ {q[1].token} :
                      Precedes(d, q[1].token, u)
<1> DEFINE n == Len(q)
<1>1. q \in Seq(Entries) /\ n \in Nat /\ n >= 1 /\ 1 \in 1..n
  BY DEF Listed
<1>2. /\ \A i \in 1..n : q[i].token = 0 <=> i = n
      /\ c \in Nat /\ c < Eternity
      /\ d \in [Tokens(q) -> 0..(Eternity - 1)]
      /\ \A i, j \in 1..(n - 1) :
            i < j => Precedes(d, q[i].token, q[j].token)
      /\ \A i \in 1..n : Before(q, i) = Left(DueAt(d, q[i].token), c)
  BY DEF Listed
<1>3. Head(q) = q[1] /\ q[1].delta \in Nat
  BY <1>1, EntryTypes
<1>4. \A i \in 1..(n - 1) : q[i].token \in Tokens(q) /\ i \in 1..n
  BY <1>1 DEF Tokens
<1>5. ASSUME NEW t \in Tokens(q)
      PROVE  \E i \in 1..(n - 1) : t = q[i].token
  BY DEF Tokens
<1> HIDE DEF n
<1>6. Before(q, 1) = q[1].delta
  <2>1. Before(q, 1) = Before(q, 1 - 1) + q[1].delta /\ Before(q, 0) = 0
    BY <1>1, BeforeSteps DEF n
  <2> QED BY <1>3, <2>1
<1>7. ASSUME NEW t \in Tokens(q)
      PROVE  q[1].delta <= Left(d[t], c)
  <2>1. PICK i \in 1..(n - 1) : t = q[i].token
    BY <1>5
  <2>2. i \in 1..n /\ i # n
    BY <1>1
  <2>3. Before(q, i) = Left(d[t], c)
    BY <1>2, <2>1, <2>2 DEF DueAt
  <2>4. Before(q, 1) <= Before(q, i)
    <3>1. 1 \in 0..Len(q) /\ i \in 1..Len(q)
      BY <1>1, <2>2 DEF n
    <3> QED BY <1>1, <3>1, BeforeRises
  <2> QED BY <1>6, <2>3, <2>4
<1>8. ASSUME q[1].delta = 0
      PROVE  /\ 1 \in DOMAIN q /\ 1 # n /\ q[1].token \in Tokens(q)
             /\ d[q[1].token] <= c
             /\ \A u \in Tokens(q) \ {q[1].token} :
                   Precedes(d, q[1].token, u)
  <2>1. Left(DueAt(d, q[1].token), c) = 0
    BY <1>1, <1>2, <1>6, <1>8
  <2>2. n # 1
    <3>1. ASSUME n = 1 PROVE FALSE
      <4>1. q[1].token = 0
        BY <1>1, <1>2, <3>1
      <4> QED BY <1>2, <2>1, <4>1, DelayAssumption DEF DueAt, Left
    <3> QED BY <3>1
  <2>3. 1 \in 1..(n - 1) /\ q[1].token # 0
    BY <1>1, <1>2, <2>2
  <2>4. q[1].token \in Tokens(q)
    BY <1>4, <2>3
  <2>5. d[q[1].token] <= c
    <3>1. d[q[1].token] \in Nat
      BY <1>2, <2>4
    <3> QED BY <1>2, <2>1, <2>3, <3>1 DEF DueAt, Left
  <2>6. ASSUME NEW u \in Tokens(q) \ {q[1].token}
        PROVE  Precedes(d, q[1].token, u)
    <3>1. PICK i \in 1..(n - 1) : u = q[i].token
      BY <1>5
    <3>2. i # 1
      BY <2>6, <3>1
    <3>3. 1 < i
      BY <3>2
    <3> QED BY <1>2, <2>3, <3>1, <3>3
  <2> QED BY <1>1, <2>2, <2>4, <2>5, <2>6 DEF n
<1> QED BY <1>3, <1>7, <1>8 DEF n

-----------------------------------------------------------------------------

SinceSync == TimeNow - fLastSyncTime

DelayTypes ==
    /\ time \in 0..MaxTime /\ shift \in Int /\ settings \in 0..MaxSettings
    /\ fLastSyncTime \in Int /\ tokenCounter \in 0..MaxTokens
    /\ phase \in {"step", "select", "handlers", "task"} /\ wake \in Nat

TasksKnown ==
    /\ Listed(queue, counted, due)
    /\ \A t \in DOMAIN due : t \in 1..tokenCounter

(* By the queue's own count a task has as much time left as it has really, *)
(* but for what the time of day was set on and back.                       *)
TruthfulAt(t) ==
    /\ earliest[t] \in Int /\ latest[t] \in Int
    /\ earliest[t] + counted + Elapsed <= time + due[t]
    /\ time + due[t] <= latest[t] + counted + SinceSync

Truthful ==
    /\ earliest \in [DOMAIN due -> Int] /\ latest \in [DOMAIN due -> Int]
    /\ \A t \in DOMAIN due : TruthfulAt(t)

(* No more is counted than goes by or is set on.                           *)
CountBounded ==
    \E s \in Settings \cup {0} :
        s >= 0 /\ counted + Elapsed <= time + settings * s

DelayInv == DelayTypes /\ TasksKnown /\ Truthful /\ CountBounded

LEMMA DelayHalves ==
    DelayTypes' /\ TasksKnown' /\ Truthful' /\ CountBounded' => DelayInv'
  BY DEF DelayInv

LEMMA ElapsedType ==
    ASSUME DelayInv
    PROVE  /\ Elapsed \in Nat /\ SinceSync \in Int /\ SinceSync <= Elapsed
           /\ counted \in Nat /\ time \in Nat
           /\ DOMAIN due = Tokens(queue)
           /\ due \in [Tokens(queue) -> 0..(Eternity - 1)]
<1>1. /\ Listed(queue, counted, due) /\ time \in Nat
      /\ TimeNow \in Int /\ fLastSyncTime \in Int
  BY DelayAssumption DEF DelayInv, TasksKnown, DelayTypes, TimeNow
<1>2. /\ counted \in Nat /\ due \in [Tokens(queue) -> 0..(Eternity - 1)]
  BY <1>1 DEF Listed
<1>3. Elapsed \in Nat /\ SinceSync \in Int /\ SinceSync <= Elapsed
  BY <1>1 DEF Elapsed, SinceSync
<1> QED BY <1>1, <1>2, <1>3

LEMMA Products ==
    ASSUME NEW a \in Nat, NEW b \in Nat, a <= b, NEW s \in Nat
    PROVE  a * s <= b * s /\ s * a <= s * b /\ (a + 1) * s = a * s + s
<1> DEFINE c == b - a
<1>1. c \in Nat /\ b = a + c
  OBVIOUS
<1>2. c * s \in Nat /\ a * s \in Nat
  OBVIOUS
<1>3. (a + c) * s = a * s + c * s /\ s * (a + c) = s * a + s * c
  BY <1>1
<1>4. s * a = a * s /\ s * c = c * s
  BY <1>1
<1>5. (a + 1) * s = a * s + s
  OBVIOUS
<1> HIDE DEF c
<1> QED BY <1>1, <1>2, <1>3, <1>4, <1>5

(* The queue never counts up to Eternity.                                  *)
LEMMA BeforeEternity ==
    ASSUME DelayInv, NEW delay \in Delays \cup {0}
    PROVE  counted + Elapsed + delay < Eternity
<1>1. PICK s \in Settings \cup {0} :
        s >= 0 /\ counted + Elapsed <= time + settings * s
  BY DEF DelayInv, CountBounded
<1>2. delay + MaxTime + MaxSettings * s < Eternity
  BY DelayAssumption
<1>3. s \in Nat /\ delay \in Nat /\ MaxTime \in Nat /\ MaxSettings \in Nat
  BY <1>1, DelayAssumption
<1>4. settings \in Nat /\ settings <= MaxSettings /\ time <= MaxTime
      /\ time \in Nat
  BY <1>3 DEF DelayInv, DelayTypes
<1> DEFINE p == settings * s
           m == MaxSettings * s
<1>5. p <= m /\ p \in Nat /\ m \in Nat
  BY <1>3, <1>4, Products
<1>6. counted \in Nat /\ Elapsed \in Nat
  BY ElapsedType
<1>7. counted + Elapsed <= time + p /\ delay + MaxTime + m < Eternity
  BY <1>1, <1>2
<1>8. Eternity \in Nat
  BY DelayAssumption
<1> HIDE DEF p, m
<1> QED BY <1>3, <1>4, <1>5, <1>6, <1>7, <1>8

-----------------------------------------------------------------------------

(* When the queue is synchronized it has counted what has elapsed.         *)
LEMMA SyncEffect ==
    ASSUME DelayInv, synchronize, UNCHANGED clockVars
    PROVE  /\ counted' = counted + Elapsed
           /\ Elapsed' = 0 /\ SinceSync' = 0 /\ time' = time
<1>1. /\ counted' = counted + Elapsed /\ fLastSyncTime' = TimeNow
      /\ time' = time /\ shift' = shift /\ TimeNow \in Int
  BY DEF synchronize, clockVars, DelayInv, DelayTypes, TimeNow
<1>2. TimeNow' = TimeNow
  BY <1>1 DEF TimeNow
<1>3. Elapsed' = 0
  BY <1>1, <1>2 DEF Elapsed
<1>4. SinceSync' = 0
  BY <1>1, <1>2 DEF SinceSync
<1> QED BY <1>1, <1>3, <1>4

LEMMA NoSyncEffect ==
    ASSUME DelayInv, NotSynchronized, UNCHANGED clockVars
    PROVE  /\ counted' = counted
           /\ Elapsed' = Elapsed /\ SinceSync' = SinceSync /\ time' = time
  BY DEF NotSynchronized, clockVars, Elapsed, SinceSync, TimeNow

(* Either way.                                                             *)
LEMMA CountEffect ==
    ASSUME DelayInv, synchronize \/ NotSynchronized, UNCHANGED clockVars
    PROVE  /\ counted' + Elapsed' = counted + Elapsed
           /\ counted + SinceSync <= counted' + SinceSync'
           /\ counted' \in Nat /\ Elapsed' \in Nat /\ SinceSync' \in Int
           /\ time' = time
<1>1. /\ counted \in Nat /\ Elapsed \in Nat /\ SinceSync \in Int
      /\ SinceSync <= Elapsed
  BY ElapsedType
<1>2. CASE synchronize
  <2>1. /\ counted' = counted + Elapsed
        /\ Elapsed' = 0 /\ SinceSync' = 0 /\ time' = time
    BY <1>2, SyncEffect
  <2> QED BY <1>1, <2>1
<1>3. CASE NotSynchronized
  <2>1. /\ counted' = counted
        /\ Elapsed' = Elapsed /\ SinceSync' = SinceSync /\ time' = time
    BY <1>3, NoSyncEffect
  <2> QED BY <1>1, <2>1
<1> QED BY <1>2, <1>3

LEMMA BoundKept ==
    ASSUME DelayInv, synchronize \/ NotSynchronized, UNCHANGED clockVars
    PROVE  CountBounded'
<1>1. PICK s \in Settings \cup {0} :
        s >= 0 /\ counted + Elapsed <= time + settings * s
  BY DEF DelayInv, CountBounded
<1>2. counted' + Elapsed' = counted + Elapsed /\ time' = time
  BY CountEffect
<1>3. settings' = settings
  BY DEF clockVars
<1>4. counted' + Elapsed' <= time' + settings' * s
  BY <1>1, <1>2, <1>3
<1> QED BY <1>1, <1>4 DEF CountBounded

LEMMA TruthArithmetic ==
    ASSUME NEW e \in Int, NEW l \in Int, NEW d \in Nat, NEW now \in Nat,
           NEW c \in Nat, NEW x \in Nat, NEW y \in Int,
           NEW c1 \in Nat, NEW x1 \in Nat, NEW y1 \in Int,
           e + c + x <= now + d, now + d <= l + c + y,
           c1 + x1 = c + x, c + y <= c1 + y1
    PROVE  e + c1 + x1 <= now + d /\ now + d <= l + c1 + y1
  OBVIOUS

(* The tasks that stay are due as they were.                               *)
LEMMA TruthKept ==
    ASSUME DelayInv, synchronize \/ NotSynchronized, UNCHANGED clockVars,
           NEW t \in DOMAIN due, due'[t] = due[t],
           earliest'[t] = earliest[t], latest'[t] = latest[t]
    PROVE  TruthfulAt(t)'
<1>1. /\ counted' + Elapsed' = counted + Elapsed
      /\ counted + SinceSync <= counted' + SinceSync'
      /\ counted' \in Nat /\ Elapsed' \in Nat /\ SinceSync' \in Int
      /\ time' = time
  BY CountEffect
<1>2. /\ counted \in Nat /\ Elapsed \in Nat /\ SinceSync \in Int
      /\ time \in Nat
  BY ElapsedType
<1>3. TruthfulAt(t)
  BY DEF DelayInv, Truthful
<1>4. due[t] \in Nat
  BY ElapsedType
<1> DEFINE e == earliest[t]
           l == latest[t]
           d == due[t]
<1>5. /\ e \in Int /\ l \in Int /\ d \in Nat
      /\ e + counted + Elapsed <= time + d
      /\ time + d <= l + counted + SinceSync
  BY <1>3, <1>4 DEF TruthfulAt
<1> HIDE DEF e, l, d
<1> DEFINE c1 == counted'
           x1 == Elapsed'
           y1 == SinceSync'
<1>6. /\ c1 \in Nat /\ x1 \in Nat /\ y1 \in Int
      /\ c1 + x1 = counted + Elapsed /\ counted + SinceSync <= c1 + y1
  BY <1>1
<1> HIDE DEF c1, x1, y1
<1>7. e + c1 + x1 <= time + d /\ time + d <= l + c1 + y1
  BY <1>2, <1>5, <1>6, TruthArithmetic
<1>8. earliest'[t] = e /\ latest'[t] = l /\ due'[t] = d
  BY DEF e, l, d
<1> QED BY <1>1, <1>5, <1>7, <1>8 DEF TruthfulAt, c1, x1, y1

LEMMA SynchronizingNow ==
    ASSUME DelayInv, NEW r, r = Synchronized(queue, Elapsed)
    PROVE  /\ Listed(r, counted + Elapsed, due)
           /\ Tokens(r) = Tokens(queue)
<1>1. Elapsed \in Nat /\ counted \in Nat
  BY ElapsedType
<1>2. counted + Elapsed < Eternity
  <2>1. counted + Elapsed + 0 < Eternity
    BY BeforeEternity
  <2> QED BY <1>1, <2>1
<1>3. Listed(queue, counted, due)
  BY DEF DelayInv, TasksKnown
<1> HIDE DEF DelayInv
<1> QED BY <1>1, <1>2, <1>3, Synchronizing

-----------------------------------------------------------------------------
(* The steps                                                               *)

LEMMA Forgetting ==
    ASSUME NEW t, Forget(t)
    PROVE  /\ due' = [u \in DOMAIN due \ {t} |-> due[u]]
           /\ earliest' = [u \in DOMAIN due \ {t} |-> earliest[u]]
           /\ latest' = [u \in DOMAIN due \ {t} |-> latest[u]]
  BY DEF Forget

LEMMA TypesKept ==
    ASSUME DelayInv, UNCHANGED <<clockVars, tokenCounter>>,
           phase' \in {"step", "select", "handlers", "task"},
           wake' \in Nat, synchronize \/ NotSynchronized
    PROVE  DelayTypes'
<1>1. TimeNow \in Int /\ fLastSyncTime \in Int
  BY DelayAssumption DEF DelayInv, DelayTypes, TimeNow
<1>2. fLastSyncTime' \in Int
  BY <1>1 DEF synchronize, NotSynchronized
<1> QED BY <1>2 DEF DelayInv, DelayTypes, clockVars

(* The list is changed by nothing but what has elapsed.                    *)
LEMMA OnlyCounted ==
    ASSUME DelayInv, UNCHANGED <<clockVars, tokenCounter, due, earliest,
                                 latest>>,
           \/ UNCHANGED queue /\ NotSynchronized
           \/ queue' = Synchronized(queue, Elapsed) /\ synchronize
    PROVE  TasksKnown' /\ Truthful' /\ CountBounded'
<1>1. synchronize \/ NotSynchronized
  OBVIOUS
<1>2. UNCHANGED clockVars
  OBVIOUS
<1>3. Listed(queue', counted', due)
  <2>1. CASE UNCHANGED queue /\ NotSynchronized
    <3>1. queue' = queue /\ counted' = counted
      BY <2>1 DEF NotSynchronized
    <3> QED BY <3>1 DEF DelayInv, TasksKnown
  <2>2. CASE queue' = Synchronized(queue, Elapsed) /\ synchronize
    <3> DEFINE r == queue'
    <3>1. r = Synchronized(queue, Elapsed) /\ counted' = counted + Elapsed
      BY <2>2 DEF synchronize
    <3> HIDE DEF r
    <3>2. Listed(r, counted + Elapsed, due)
      BY <3>1, SynchronizingNow
    <3> QED BY <3>1, <3>2 DEF r
  <2> QED BY <2>1, <2>2
<1>4. TasksKnown'
  BY <1>3 DEF DelayInv, TasksKnown
<1>5. ASSUME NEW t \in DOMAIN due PROVE TruthfulAt(t)'
  <2>1. /\ due'[t] = due[t] /\ earliest'[t] = earliest[t]
        /\ latest'[t] = latest[t]
    OBVIOUS
  <2> QED BY <1>1, <1>2, <2>1, TruthKept
<1>6. Truthful'
  BY <1>5 DEF DelayInv, Truthful
<1>7. CountBounded'
  BY <1>1, <1>2, BoundKept
<1> QED BY <1>4, <1>6, <1>7

LEMMA NothingCounted ==
    ASSUME DelayInv, UNCHANGED <<clockVars, queueVars, dueVars>>,
           phase' \in {"step", "select", "handlers", "task"}, wake' = wake
    PROVE  DelayInv'
<1>1. /\ UNCHANGED <<clockVars, tokenCounter, due, earliest, latest>>
      /\ UNCHANGED queue /\ NotSynchronized /\ UNCHANGED clockVars
  BY DEF queueVars, dueVars, NotSynchronized
<1>2. wake' \in Nat
  BY DEF DelayInv, DelayTypes
<1> QED BY <1>1, <1>2, OnlyCounted, TypesKept, DelayHalves

(* A task is taken off the list q.                                         *)
LEMMA TakingOff ==
    ASSUME DelayInv, UNCHANGED <<clockVars, tokenCounter>>,
           synchronize \/ NotSynchronized,
           NEW q, Listed(q, counted', due), NEW i, i \in DOMAIN q, i # Len(q),
           queue' = Removed(q, i), Forget(q[i].token)
    PROVE  /\ TasksKnown' /\ Truthful' /\ CountBounded'
           /\ Tokens(queue') = Tokens(q) \ {q[i].token}
           /\ DOMAIN due = Tokens(q)
<1> DEFINE t == q[i].token
           r == queue'
           f == due'
           c == counted'
<1>1. /\ f = [u \in DOMAIN due \ {t} |-> due[u]]
      /\ earliest' = [u \in DOMAIN due \ {t} |-> earliest[u]]
      /\ latest' = [u \in DOMAIN due \ {t} |-> latest[u]]
  BY Forgetting
<1>2. due \in [Tokens(q) -> 0..(Eternity - 1)]
  BY DEF Listed
<1>3. /\ f \in [Tokens(q) \ {t} -> Nat]
      /\ \A u \in Tokens(q) \ {t} : f[u] = due[u]
  BY <1>1, <1>2
<1>4. Listed(q, c, due) /\ r = Removed(q, i)
  OBVIOUS
<1>5. UNCHANGED clockVars
  OBVIOUS
<1> HIDE DEF r, f, c
<1>6. Listed(r, c, f) /\ Tokens(r) = Tokens(q) \ {t}
  <2>1. i \in DOMAIN q /\ i # Len(q) /\ t = q[i].token
    OBVIOUS
  <2> HIDE DEF t
  <2> DEFINE S == Tokens(q) \ {t}
  <2>2. f \in [S -> Nat] /\ (\A u \in S : f[u] = due[u])
    BY <1>3
  <2>3. S = Tokens(q) \ {t}
    OBVIOUS
  <2> HIDE DEF S
  <2>4. Listed(r, c, f) /\ Tokens(r) = S
    BY ONLY <1>4, <2>1, <2>2, <2>3, Cancelling
  <2> QED BY <2>3, <2>4
<1>7. DOMAIN f = Tokens(q) \ {t} /\ DOMAIN due = Tokens(q)
  BY <1>2, <1>3
<1>8. TasksKnown'
  <2>1. \A u \in DOMAIN f : u \in 1..tokenCounter
    BY <1>7 DEF DelayInv, TasksKnown
  <2> QED BY <1>6, <2>1 DEF TasksKnown, r, f, c
<1>9. ASSUME NEW u \in DOMAIN f PROVE TruthfulAt(u)'
  <2>1. u \in DOMAIN due /\ u \in DOMAIN due \ {t}
    BY <1>7
  <2>2. /\ due'[u] = due[u] /\ earliest'[u] = earliest[u]
        /\ latest'[u] = latest[u]
    BY <1>1, <2>1 DEF f
  <2> QED BY <1>5, <2>1, <2>2, TruthKept
<1>10. earliest' \in [DOMAIN f -> Int] /\ latest' \in [DOMAIN f -> Int]
  BY <1>1, <1>7 DEF DelayInv, Truthful
<1>11. Truthful'
  BY <1>9, <1>10 DEF Truthful, f
<1>12. CountBounded'
  BY <1>5, BoundKept
<1> QED BY <1>6, <1>7, <1>8, <1>11, <1>12 DEF r

LEMMA ClockTicksStep ==
    ASSUME DelayInv, ClockTicks
    PROVE  DelayInv'
<1>1. /\ time < MaxTime /\ time' = time + 1
      /\ shift' = shift /\ settings' = settings
      /\ UNCHANGED <<queueVars, phase, wake, dueVars>>
  BY DEF ClockTicks
<1>2. /\ queue' = queue /\ fLastSyncTime' = fLastSyncTime
      /\ tokenCounter' = tokenCounter /\ counted' = counted /\ due' = due
      /\ earliest' = earliest /\ latest' = latest
      /\ phase' = phase /\ wake' = wake
  BY <1>1 DEF queueVars, dueVars
<1>3. /\ Elapsed \in Nat /\ SinceSync \in Int /\ counted \in Nat
      /\ time \in Nat /\ MaxTime \in Nat
      /\ due \in [DOMAIN due -> 0..(Eternity - 1)]
  BY ElapsedType, DelayAssumption
<1>4. TimeNow \in Int /\ TimeNow' = TimeNow + 1 /\ fLastSyncTime \in Int
  BY <1>1 DEF DelayInv, DelayTypes, TimeNow
<1>5. SinceSync' = SinceSync + 1
  BY <1>2, <1>4 DEF SinceSync
<1>6. Elapsed' \in Nat /\ Elapsed' <= Elapsed + 1
  BY <1>2, <1>4 DEF Elapsed
<1>7. DelayTypes'
  BY <1>1, <1>2, <1>3 DEF DelayInv, DelayTypes
<1>8. TasksKnown'
  BY <1>2 DEF DelayInv, TasksKnown
<1> DEFINE x1 == Elapsed'
           now1 == time'
           y1 == SinceSync'
<1>9. /\ x1 \in Nat /\ x1 <= Elapsed + 1 /\ now1 = time + 1
      /\ y1 = SinceSync + 1
  BY <1>1, <1>5, <1>6
<1> HIDE DEF x1, now1, y1
<1>10. ASSUME NEW t \in DOMAIN due PROVE TruthfulAt(t)'
  <2> DEFINE e == earliest[t]
             l == latest[t]
             d == due[t]
  <2>1. /\ e \in Int /\ l \in Int /\ d \in Nat
        /\ e + counted + Elapsed <= time + d
        /\ time + d <= l + counted + SinceSync
    BY <1>3 DEF DelayInv, Truthful, TruthfulAt
  <2> HIDE DEF e, l, d
  <2>2. e + counted + x1 <= now1 + d /\ now1 + d <= l + counted + y1
    <3>1. /\ now1 \in Nat /\ y1 \in Int
          /\ e + x1 + time <= e + Elapsed + now1
          /\ now1 + l + SinceSync <= time + l + y1
      BY <1>3, <1>9, <2>1
    <3> QED BY ONLY <1>3, <1>9, <2>1
  <2> QED BY <1>2, <2>1, <2>2 DEF TruthfulAt, e, l, d, x1, now1, y1
<1>11. Truthful'
  BY <1>2, <1>10 DEF DelayInv, Truthful
<1>12. CountBounded'
  <2>1. PICK s \in Settings \cup {0} :
          s >= 0 /\ counted + Elapsed <= time + settings * s
    BY DEF DelayInv, CountBounded
  <2> DEFINE p == settings * s
  <2>2. p \in Int
    BY <2>1, DelayAssumption DEF DelayInv, DelayTypes
  <2>3. counted + Elapsed <= time + p
    BY <2>1
  <2> HIDE DEF p
  <2>4. counted + x1 <= now1 + p
    BY <1>3, <1>9, <2>2, <2>3
  <2>5. counted' + Elapsed' <= time' + settings' * s
    BY <1>1, <1>2, <2>4 DEF x1, now1, p
  <2> QED BY <2>1, <2>5 DEF CountBounded
<1> QED BY <1>7, <1>8, <1>11, <1>12, DelayHalves

LEMMA SetTimeStep ==
    ASSUME DelayInv, NEW s \in Settings, SetTime(s)
    PROVE  DelayInv'
<1> DEFINE on == IF s > 0 THEN s ELSE 0
           back == IF s < 0 THEN s ELSE 0
<1>1. /\ settings < MaxSettings /\ settings' = settings + 1
      /\ shift' = shift + s /\ time' = time
      /\ earliest' = [t \in DOMAIN earliest |-> earliest[t] - on]
      /\ latest' = [t \in DOMAIN latest |-> latest[t] - back]
      /\ UNCHANGED <<queueVars, phase, wake, counted, due>>
  BY DEF SetTime
<1>2. /\ queue' = queue /\ fLastSyncTime' = fLastSyncTime
      /\ tokenCounter' = tokenCounter /\ counted' = counted /\ due' = due
      /\ phase' = phase /\ wake' = wake
  BY <1>1 DEF queueVars
<1>3. /\ Elapsed \in Nat /\ SinceSync \in Int /\ counted \in Nat
      /\ time \in Nat /\ MaxSettings \in Nat /\ s \in Int
      /\ due \in [DOMAIN due -> 0..(Eternity - 1)]
  BY ElapsedType, DelayAssumption
<1>4. TimeNow \in Int /\ TimeNow' = TimeNow + s /\ fLastSyncTime \in Int
  BY <1>1, <1>3 DEF DelayInv, DelayTypes, TimeNow
<1>5. on \in Nat /\ back \in Int /\ s = on + back /\ s <= on
  BY <1>3
<1> HIDE DEF on, back
<1>6. SinceSync' = SinceSync + s
  BY <1>2, <1>3, <1>4 DEF SinceSync
<1>7. Elapsed' \in Nat /\ Elapsed' <= Elapsed + on
  BY <1>2, <1>3, <1>4, <1>5 DEF Elapsed
<1>8. DelayTypes'
  BY <1>1, <1>2, <1>3 DEF DelayInv, DelayTypes
<1>9. TasksKnown'
  BY <1>2 DEF DelayInv, TasksKnown
<1> DEFINE x1 == Elapsed'
           y1 == SinceSync'
<1>10. x1 \in Nat /\ x1 <= Elapsed + on /\ y1 = SinceSync + on + back
  BY <1>3, <1>5, <1>6, <1>7
<1> HIDE DEF x1, y1
<1>11. ASSUME NEW t \in DOMAIN due PROVE TruthfulAt(t)'
  <2> DEFINE e == earliest[t]
             l == latest[t]
             d == due[t]
  <2>1. /\ e \in Int /\ l \in Int /\ d \in Nat
        /\ e + counted + Elapsed <= time + d
        /\ time + d <= l + counted + SinceSync
    BY <1>3 DEF DelayInv, Truthful, TruthfulAt
  <2>2. earliest'[t] = e - on /\ latest'[t] = l - back
    BY <1>1 DEF DelayInv, Truthful
  <2> HIDE DEF e, l, d
  <2>3. /\ (e - on) + counted + x1 <= time + d
        /\ time + d <= (l - back) + counted + y1
    <3>1. /\ y1 \in Int /\ e - on \in Int /\ l - back \in Int
          /\ (e - on) + x1 + time <= e + Elapsed + time
          /\ time + l + SinceSync <= time + (l - back) + y1
      BY <1>3, <1>5, <1>10, <2>1
    <3>2. time \in Nat /\ counted \in Nat /\ Elapsed \in Nat
      BY <1>3
    <3>3. (e - on) + x1 <= e + Elapsed
      BY ONLY <1>5, <1>10, <2>1, <3>2
    <3>4. (e - on) + counted + x1 <= e + counted + Elapsed
      BY ONLY <1>5, <1>10, <2>1, <3>2, <3>3
    <3>5. l + counted + SinceSync <= (l - back) + counted + y1
      BY ONLY <1>3, <1>5, <1>10, <2>1
    <3> QED BY ONLY <1>3, <1>5, <1>10, <2>1, <3>1, <3>4, <3>5
  <2>4. e - on \in Int /\ l - back \in Int
    BY <1>5, <2>1
  <2> QED BY <1>1, <1>2, <2>2, <2>3, <2>4 DEF TruthfulAt, d, x1, y1
<1>12. Truthful'
  <2>1. earliest' \in [DOMAIN due -> Int] /\ latest' \in [DOMAIN due -> Int]
    BY <1>1, <1>5 DEF DelayInv, Truthful
  <2> QED BY <1>2, <1>11, <2>1 DEF Truthful
<1>13. CountBounded'
  <2>1. PICK m \in Settings \cup {0} :
          m >= 0 /\ counted + Elapsed <= time + settings * m
    BY DEF DelayInv, CountBounded
  <2> DEFINE M == IF m > on THEN m ELSE on
  <2>2. m \in Nat /\ settings \in Nat
    BY <2>1, DelayAssumption DEF DelayInv, DelayTypes
  <2>3. M \in Settings \cup {0} /\ M \in Nat /\ m <= M /\ on <= M
    BY <1>3, <1>5, <2>1, <2>2 DEF on
  <2> HIDE DEF M
  <2> DEFINE p == settings * m
             P == settings * M
  <2>4. p <= P /\ p \in Nat /\ P \in Nat /\ (settings + 1) * M = P + M
    BY <2>2, <2>3, Products
  <2>5. counted + Elapsed <= time + p
    BY <2>1
  <2> HIDE DEF p, P
  <2>6. counted + x1 <= time + (P + M)
    BY <1>3, <1>5, <1>10, <2>3, <2>4, <2>5
  <2>7. counted' + Elapsed' <= time' + settings' * M
    BY <1>1, <1>2, <2>4, <2>6 DEF x1
  <2> QED BY <2>3, <2>7 DEF CountBounded
<1> QED BY <1>8, <1>9, <1>12, <1>13, DelayHalves

LEMMA ScheduleStep ==
    ASSUME DelayInv, NEW delay \in Delays, scheduleDelayedTask(delay)
    PROVE  DelayInv'
<1>. PICK t : t = tokenCounter + 1
  OBVIOUS
<1> DEFINE q == Synchronized(queue, Elapsed)
           c == counted + Elapsed
           r == Added(q, [token |-> t, delta |-> delay])
           f == With(due, t, c + delay)
<1>1. /\ tokenCounter < MaxTokens /\ tokenCounter' = t
      /\ synchronize /\ queue' = r /\ due' = f /\ counted' = c
      /\ earliest' = With(earliest, t, time + delay)
      /\ latest' = With(latest, t, time + delay)
      /\ UNCHANGED <<clockVars, phase, wake>>
  BY DEF scheduleDelayedTask, synchronize
<1>2. UNCHANGED clockVars /\ phase' = phase /\ wake' = wake
  BY <1>1
<1>3. /\ counted \in Nat /\ Elapsed \in Nat /\ time \in Nat
      /\ DOMAIN due = Tokens(queue)
      /\ due \in [Tokens(queue) -> 0..(Eternity - 1)]
      /\ delay \in Nat /\ Eternity \in Nat
  BY ElapsedType, DelayAssumption
<1>4. c \in Nat /\ c + delay \in Nat /\ c + delay < Eternity
  BY <1>3, BeforeEternity
<1>5. /\ t \in Nat /\ t > 0 /\ tokenCounter \in Nat
      /\ \A u \in Tokens(queue) : u \in 1..tokenCounter
  BY <1>3, DelayAssumption DEF DelayInv, DelayTypes, TasksKnown
<1>6. Listed(q, c, due) /\ Tokens(q) = Tokens(queue)
  BY SynchronizingNow
<1>7. \A u \in Tokens(queue) : u < t /\ u # t
  BY <1>5
<1> HIDE DEF c, q
<1>8. /\ f \in [Tokens(q) \cup {t} -> Nat] /\ f[t] = c + delay
      /\ \A u \in Tokens(q) : f[u] = due[u]
  <2>1. due \in [Tokens(queue) -> Nat]
    BY <1>3
  <2> DEFINE x == c + delay
  <2>2. x \in Nat
    BY <1>4
  <2> HIDE DEF x
  <2>3. /\ With(due, t, x) \in [Tokens(queue) \cup {t} -> Nat]
        /\ With(due, t, x)[t] = x
        /\ \A u \in Tokens(queue) : u # t => With(due, t, x)[u] = due[u]
    BY ONLY <2>1, <2>2 DEF With
  <2> QED BY <1>6, <1>7, <2>3 DEF x
<1>9. r = Added(q, [token |-> t, delta |-> delay])
  OBVIOUS
<1> HIDE DEF r, f
<1>10. Listed(r, c, f) /\ Tokens(r) = Tokens(q) \cup {t}
  BY <1>3, <1>4, <1>5, <1>6, <1>7, <1>8, <1>9, Scheduling
<1>11. DOMAIN f = Tokens(queue) \cup {t}
  BY <1>6, <1>8
<1>12. TasksKnown'
  <2>1. \A u \in DOMAIN f : u \in 1..t
    BY <1>5, <1>11
  <2> QED BY <1>1, <1>10, <2>1 DEF TasksKnown
<1>13. /\ earliest' \in [DOMAIN f -> Int] /\ earliest'[t] = time + delay
       /\ \A u \in Tokens(queue) : earliest'[u] = earliest[u]
  <2> DEFINE x == time + delay
  <2>1. earliest \in [Tokens(queue) -> Int] /\ x \in Int
    BY <1>3 DEF DelayInv, Truthful
  <2> HIDE DEF x
  <2>2. /\ With(earliest, t, x) \in [Tokens(queue) \cup {t} -> Int]
        /\ With(earliest, t, x)[t] = x
        /\ \A u \in Tokens(queue) :
             u # t => With(earliest, t, x)[u] = earliest[u]
    BY ONLY <2>1 DEF With
  <2> QED BY <1>1, <1>7, <1>11, <2>2 DEF x
<1>14. /\ latest' \in [DOMAIN f -> Int] /\ latest'[t] = time + delay
       /\ \A u \in Tokens(queue) : latest'[u] = latest[u]
  <2> DEFINE x == time + delay
  <2>1. latest \in [Tokens(queue) -> Int] /\ x \in Int
    BY <1>3 DEF DelayInv, Truthful
  <2> HIDE DEF x
  <2>2. /\ With(latest, t, x) \in [Tokens(queue) \cup {t} -> Int]
        /\ With(latest, t, x)[t] = x
        /\ \A u \in Tokens(queue) : u # t => With(latest, t, x)[u] = latest[u]
    BY ONLY <2>1 DEF With
  <2> QED BY <1>1, <1>7, <1>11, <2>2 DEF x
<1>15. ASSUME NEW u \in Tokens(queue) PROVE TruthfulAt(u)'
  <2>1. u \in DOMAIN due /\ due'[u] = due[u]
    BY <1>1, <1>3, <1>6, <1>8
  <2> QED BY <1>1, <1>2, <1>13, <1>14, <2>1, TruthKept
<1>16. TruthfulAt(t)'
  <2>1. counted' = c /\ Elapsed' = 0 /\ SinceSync' = 0 /\ time' = time
    BY <1>1, <1>2, SyncEffect
  <2>2. due'[t] = c + delay
    BY <1>1, <1>8
  <2>3. /\ (time + delay) + c + 0 <= time + (c + delay)
        /\ time + (c + delay) <= (time + delay) + c + 0
    BY <1>3, <1>4
  <2>4. time + delay \in Int
    BY <1>3
  <2> QED BY <1>13, <1>14, <2>1, <2>2, <2>3, <2>4 DEF TruthfulAt
<1>17. Truthful'
  <2>1. \A u \in DOMAIN f : TruthfulAt(u)'
    BY <1>11, <1>15, <1>16
  <2> QED BY <1>1, <1>13, <1>14, <2>1 DEF Truthful
<1>18. CountBounded'
  BY <1>1, <1>2, BoundKept
<1>19. DelayTypes'
  <2>1. tokenCounter' \in 0..MaxTokens
    BY <1>1, <1>5, DelayAssumption
  <2>2. fLastSyncTime' \in Int
    BY <1>1 DEF synchronize, TimeNow, DelayInv, DelayTypes
  <2> QED BY <1>1, <2>1, <2>2 DEF DelayInv, DelayTypes, clockVars
<1> QED BY <1>12, <1>17, <1>18, <1>19, DelayHalves

LEMMA UnscheduleStep ==
    ASSUME DelayInv, NEW t \in 1..tokenCounter, unscheduleDelayedTask(t)
    PROVE  DelayInv' /\ t \in DOMAIN due
<1>1. PICK i \in DOMAIN queue :
        queue[i].token = t /\ queue' = Removed(queue, i)
  BY DEF unscheduleDelayedTask
<1>2. /\ Forget(queue[i].token)
      /\ UNCHANGED <<clockVars, fLastSyncTime, tokenCounter, phase, wake,
                     counted>>
  BY <1>1 DEF unscheduleDelayedTask
<1>3. /\ UNCHANGED <<clockVars, tokenCounter>> /\ NotSynchronized
      /\ phase' = phase /\ wake' = wake /\ counted' = counted
  BY <1>2 DEF NotSynchronized
<1>4. Listed(queue, counted, due) /\ DOMAIN due = Tokens(queue)
  BY ElapsedType DEF DelayInv, TasksKnown
<1>5. i # Len(queue) /\ i \in 1..(Len(queue) - 1)
  <2>1. /\ queue \in Seq(Entries) /\ Len(queue) \in 1..Len(queue)
        /\ queue[Len(queue)].token = 0 /\ Len(queue) \in Nat
    BY <1>4 DEF Listed
  <2>2. i # Len(queue)
    BY <1>1, <2>1
  <2> QED BY <2>1, <2>2
<1>6. TasksKnown' /\ Truthful' /\ CountBounded'
  BY <1>1, <1>2, <1>3, <1>4, <1>5, TakingOff
<1>7. DelayTypes'
  BY <1>3, TypesKept DEF DelayInv, DelayTypes
<1>8. t \in DOMAIN due
  BY <1>1, <1>4, <1>5 DEF Tokens
<1> QED BY <1>6, <1>7, <1>8, DelayHalves

LEMMA SelectStep ==
    ASSUME DelayInv, Select
    PROVE  /\ DelayInv'
           /\ synchronize \/ NotSynchronized
           /\ UNCHANGED <<clockVars, tokenCounter, due>>
           /\ \A t \in DOMAIN due : wake' <= time \/ wake' <= latest[t]
<1>1. /\ \/ HeadIsDue /\ UNCHANGED queue /\ NotSynchronized
         \/ queue' = Synchronized(queue, Elapsed) /\ synchronize
      /\ wake' = time + Head(queue').delta /\ phase' = "select"
      /\ UNCHANGED <<clockVars, tokenCounter, due, earliest, latest>>
  BY DEF Select, timeToNextAlarm
<1>2. TasksKnown' /\ Truthful' /\ CountBounded'
  BY <1>1, OnlyCounted
<1>3. Listed(queue', counted', due) /\ UNCHANGED clockVars
  BY <1>1, <1>2 DEF TasksKnown
<1>4. /\ Head(queue').delta \in Nat
      /\ \A t \in Tokens(queue') : Head(queue').delta <= Left(due[t], counted')
  <2> DEFINE q == queue'
             c == counted'
  <2>1. Listed(q, c, due)
    BY <1>3
  <2> HIDE DEF q, c
  <2>2. /\ Head(q).delta \in Nat
        /\ \A t \in Tokens(q) : Head(q).delta <= Left(due[t], c)
    BY ONLY <2>1, FirstTask
  <2> QED BY <2>2 DEF q, c
<1>5. time \in Nat /\ wake' \in Nat
  BY <1>1, <1>4, ElapsedType
<1>6. DelayTypes'
  BY <1>1, <1>5, TypesKept
<1>7. ASSUME NEW t \in DOMAIN due
      PROVE  wake' <= time \/ wake' <= latest[t]
  <2>1. CASE HeadIsDue /\ UNCHANGED queue
    BY <1>1, <1>5, <2>1 DEF HeadIsDue
  <2>2. CASE queue' = Synchronized(queue, Elapsed) /\ synchronize
    <3>1. counted' = counted + Elapsed
      BY <2>2 DEF synchronize
    <3>2. /\ counted \in Nat /\ Elapsed \in Nat /\ SinceSync \in Int
          /\ SinceSync <= Elapsed
          /\ DOMAIN due = Tokens(queue) /\ due[t] \in Nat
      BY ElapsedType
    <3>3. Tokens(queue') = Tokens(queue)
      <4> DEFINE q == queue'
      <4>1. q = Synchronized(queue, Elapsed)
        BY <2>2
      <4> HIDE DEF q
      <4>2. Tokens(q) = Tokens(queue)
        BY <4>1, SynchronizingNow
      <4> QED BY <4>2 DEF q
    <3> DEFINE h == Head(queue').delta
               l == latest[t]
               d == due[t]
               w == wake'
    <3>4. /\ l \in Int /\ time + d <= l + counted + SinceSync /\ d \in Nat
      BY <3>2 DEF DelayInv, Truthful, TruthfulAt
    <3>5. h \in Nat /\ h <= Left(d, counted + Elapsed) /\ w = time + h
      BY <1>1, <1>4, <3>1, <3>2, <3>3
    <3> HIDE DEF h, l, d, w
    <3>6. w <= time \/ w <= l
      <4>1. CASE d > counted + Elapsed
        <5>1. w <= time + (d - (counted + Elapsed))
          BY <1>5, <3>2, <3>4, <3>5, <4>1 DEF Left
        <5>2. time + d <= l + (counted + Elapsed)
          BY <1>5, <3>2, <3>4
        <5> QED BY <1>5, <3>2, <3>4, <3>5, <5>1, <5>2
      <4>2. CASE ~(d > counted + Elapsed)
        <5>1. h <= 0
          BY <3>5, <4>2 DEF Left
        <5> QED BY <1>5, <3>5, <5>1
      <4> QED BY <4>1, <4>2
    <3> QED BY <3>6 DEF l, w
  <2> QED BY <1>1, <2>1, <2>2
<1> QED BY <1>1, <1>2, <1>6, <1>7, DelayHalves

(* What handleAlarm does when it finds a task that is due.                 *)
LEMMA TaskIsDue ==
    ASSUME DelayInv, handleAlarm, phase' = "task"
    PROVE  \E q : /\ Listed(q, counted', due) /\ Tokens(q) = Tokens(queue)
                  /\ Head(q).delta = 0 /\ DoTask(q)
                  /\ synchronize \/ NotSynchronized
<1>1. CASE HeadIsDue
  <2>1. NotSynchronized /\ DoTask(queue) /\ Head(queue).delta = 0
    BY <1>1 DEF handleAlarm, HeadIsDue
  <2>2. counted' = counted
    BY <2>1 DEF NotSynchronized
  <2>3. Listed(queue, counted', due)
    BY <2>2 DEF DelayInv, TasksKnown
  <2> QED BY <2>1, <2>3
<1>2. CASE ~HeadIsDue
  <2>1. PICK q : q = Synchronized(queue, Elapsed)
    OBVIOUS
  <2>2. /\ synchronize /\ Head(q).delta = 0 /\ DoTask(q)
    BY <1>2, <2>1 DEF handleAlarm
  <2>3. counted' = counted + Elapsed
    BY <2>2 DEF synchronize
  <2>4. Listed(q, counted + Elapsed, due) /\ Tokens(q) = Tokens(queue)
    BY <2>1, SynchronizingNow
  <2> QED BY <2>2, <2>3, <2>4
<1> QED BY <1>1, <1>2

LEMMA DoingTask ==
    ASSUME DelayInv, handleAlarm, phase' = "task"
    PROVE  /\ TasksKnown' /\ Truthful' /\ CountBounded'
           /\ synchronize \/ NotSynchronized
           /\ \E t \in DOMAIN due :
                /\ due[t] <= counted'
                /\ \A u \in DOMAIN due \ {t} : Precedes(due, t, u)
                /\ due' = [u \in DOMAIN due \ {t} |-> due[u]]
                /\ Tokens(queue') = DOMAIN due \ {t}
<1>1. PICK q : /\ Listed(q, counted', due) /\ Tokens(q) = Tokens(queue)
               /\ Head(q).delta = 0 /\ DoTask(q)
               /\ synchronize \/ NotSynchronized
  BY TaskIsDue
<1>2. UNCHANGED <<clockVars, tokenCounter>>
  BY DEF handleAlarm
<1>3. /\ Head(q) = q[1] /\ 1 \in DOMAIN q /\ 1 # Len(q)
      /\ q[1].token \in Tokens(q) /\ due[q[1].token] <= counted'
      /\ \A u \in Tokens(q) \ {q[1].token} : Precedes(due, q[1].token, u)
  <2> DEFINE c == counted'
  <2>1. Listed(q, c, due) /\ Head(q).delta = 0
    BY <1>1
  <2> HIDE DEF c
  <2>2. /\ Head(q) = q[1] /\ 1 \in DOMAIN q /\ 1 # Len(q)
        /\ q[1].token \in Tokens(q) /\ due[q[1].token] <= c
        /\ \A u \in Tokens(q) \ {q[1].token} : Precedes(due, q[1].token, u)
    BY ONLY <2>1, FirstTask
  <2> QED BY <2>2 DEF c
<1>4. queue' = Removed(q, 1) /\ Forget(q[1].token)
  BY <1>1, <1>3 DEF DoTask
<1> DEFINE i == 1
<1>5. /\ i \in DOMAIN q /\ i # Len(q)
      /\ queue' = Removed(q, i) /\ Forget(q[i].token)
  BY <1>3, <1>4
<1> HIDE DEF i
<1>6. /\ TasksKnown' /\ Truthful' /\ CountBounded'
      /\ Tokens(queue') = Tokens(q) \ {q[i].token} /\ DOMAIN due = Tokens(q)
  BY <1>1, <1>2, <1>5, TakingOff
<1>7. due' = [u \in DOMAIN due \ {q[i].token} |-> due[u]]
  BY <1>5, Forgetting
<1>8. q[i].token = q[1].token
  BY DEF i
<1> DEFINE t == q[1].token
<1>9. /\ t \in DOMAIN due /\ due[t] <= counted'
      /\ \A u \in DOMAIN due \ {t} : Precedes(due, t, u)
      /\ due' = [u \in DOMAIN due \ {t} |-> due[u]]
      /\ Tokens(queue') = DOMAIN due \ {t}
  BY <1>3, <1>6, <1>7, <1>8
<1> HIDE DEF t
<1> QED BY <1>1, <1>6, <1>9

LEMMA AlarmStep ==
    ASSUME DelayInv, handleAlarm
    PROVE  /\ DelayInv'
           /\ synchronize \/ NotSynchronized
           /\ phase' # "task" => due' = due
<1>1. /\ UNCHANGED <<clockVars, tokenCounter, wake>>
      /\ phase' \in {"task", "step"}
      /\ phase' # "task" => /\ queue' = Synchronized(queue, Elapsed)
                            /\ synchronize
                            /\ UNCHANGED <<due, earliest, latest>>
  BY DEF handleAlarm, DoTask
<1>2. /\ TasksKnown' /\ Truthful' /\ CountBounded'
      /\ synchronize \/ NotSynchronized
  <2>1. CASE phase' = "task"
    BY <2>1, DoingTask
  <2>2. CASE phase' # "task"
    <3>1. /\ UNCHANGED <<clockVars, tokenCounter, due, earliest, latest>>
          /\ queue' = Synchronized(queue, Elapsed) /\ synchronize
      BY <1>1, <2>2
    <3> QED BY <3>1, OnlyCounted
  <2> QED BY <2>1, <2>2
<1>3. DelayTypes'
  <2>1. wake' \in Nat
    BY <1>1 DEF DelayInv, DelayTypes
  <2>2. phase' \in {"step", "select", "handlers", "task"}
    BY <1>1
  <2> QED BY <1>1, <1>2, <2>1, <2>2, TypesKept
<1> QED BY <1>1, <1>2, <1>3, DelayHalves

LEMMA DelayStep ==
    ASSUME DelayInv, [DelayNext]_delayVars
    PROVE  DelayInv'
<1>1. ASSUME ClockTicks PROVE DelayInv'
  BY <1>1, ClockTicksStep
<1>2. ASSUME NEW s \in Settings, SetTime(s) PROVE DelayInv'
  BY <1>2, SetTimeStep
<1>3. ASSUME Select PROVE DelayInv'
  BY <1>3, SelectStep
<1>4. ASSUME SelectReturns \/ TaskReturns PROVE DelayInv'
  <2>1. /\ UNCHANGED <<clockVars, queueVars, dueVars>> /\ wake' = wake
        /\ phase' \in {"step", "select", "handlers", "task"}
    BY <1>4 DEF SelectReturns, TaskReturns
  <2> QED BY <2>1, NothingCounted
<1>5. ASSUME handleAlarm PROVE DelayInv'
  BY <1>5, AlarmStep
<1>6. ASSUME NEW delay \in Delays, scheduleDelayedTask(delay) PROVE DelayInv'
  BY <1>6, ScheduleStep
<1>7. ASSUME NEW t \in 1..tokenCounter, unscheduleDelayedTask(t)
      PROVE  DelayInv'
  BY <1>7, UnscheduleStep
<1>8. ASSUME UNCHANGED delayVars PROVE DelayInv'
  <2>1. /\ UNCHANGED <<clockVars, queueVars, dueVars>> /\ wake' = wake
        /\ phase' \in {"step", "select", "handlers", "task"}
    BY <1>8 DEF delayVars, DelayInv, DelayTypes
  <2> QED BY <2>1, NothingCounted
<1> QED BY <1>1, <1>2, <1>3, <1>4, <1>5, <1>6, <1>7, <1>8 DEF DelayNext

LEMMA DelayStart == DelayInit => DelayInv
<1> SUFFICES ASSUME DelayInit PROVE DelayInv
  OBVIOUS
<1>1. /\ time = 0 /\ shift = 0 /\ settings = 0
      /\ queue = <<[token |-> 0, delta |-> Eternity]>>
      /\ fLastSyncTime = 0 /\ tokenCounter = 0
      /\ phase = "handlers" /\ wake = 0
      /\ counted = 0 /\ due = <<>> /\ earliest = <<>> /\ latest = <<>>
  BY DEF DelayInit
<1>2. /\ MaxTime \in Nat /\ MaxSettings \in Nat /\ MaxTokens \in Nat
      /\ Eternity \in Nat
  BY DelayAssumption
<1>3. 0 < Eternity
  <2>1. 0 + MaxTime + MaxSettings * 0 < Eternity
    BY DelayAssumption
  <2> QED BY <1>2, <2>1
<1>4. DelayTypes
  BY <1>1, <1>2 DEF DelayTypes
<1>5. Elapsed = 0 /\ SinceSync = 0
  BY <1>1 DEF Elapsed, SinceSync, TimeNow
<1>6. CountBounded
  <2>1. 0 \in Settings \cup {0} /\ 0 >= 0
    OBVIOUS
  <2>2. settings * 0 = 0 /\ counted + Elapsed = 0 /\ time = 0
    BY <1>1, <1>5
  <2>3. counted + Elapsed <= time + settings * 0
    BY <2>2
  <2> QED BY <2>1, <2>3 DEF CountBounded
<1>7. /\ queue \in Seq(Entries) /\ Len(queue) = 1 /\ queue[1].token = 0
      /\ queue[1].delta = Eternity
  BY <1>1, <1>2 DEF Entries
<1>8. Tokens(queue) = {} /\ DOMAIN due = {}
  BY <1>1, <1>7 DEF Tokens
<1>9. Before(queue, 1) = Eternity
  <2>1. /\ \A i \in 1..1 :
             Before(queue, i) = Before(queue, i - 1) + queue[i].delta
        /\ Before(queue, 0) = 0
    BY <1>7, BeforeSteps
  <2>2. Before(queue, 1) = Before(queue, 1 - 1) + queue[1].delta
    BY <2>1
  <2> QED BY <1>2, <1>7, <2>1, <2>2
<1>10. Listed(queue, counted, due)
  <2>1. \A i \in 1..Len(queue) : i = 1 /\ Len(queue) = i
    BY <1>7
  <2>2. \A i \in 1..Len(queue) :
           Before(queue, i) = Left(DueAt(due, queue[i].token), counted)
    <3>1. DueAt(due, queue[1].token) = Eternity
      BY <1>7 DEF DueAt
    <3>2. Left(Eternity, counted) = Eternity
      BY <1>1, <1>2, <1>3 DEF Left
    <3>3. Before(queue, 1) = Left(DueAt(due, queue[1].token), counted)
      BY <1>9, <3>1, <3>2
    <3> QED BY <2>1, <3>3
  <2>3. due \in [Tokens(queue) -> 0..(Eternity - 1)]
    BY <1>1, <1>8
  <2> QED BY <1>1, <1>3, <1>7, <2>1, <2>2, <2>3 DEF Listed
<1>11. Truthful
  BY <1>1, <1>8 DEF Truthful
<1> QED BY <1>4, <1>6, <1>8, <1>10, <1>11 DEF DelayInv, TasksKnown

LEMMA DelayInvHolds == DelaySpec => []DelayInv
<1>1. DelayInit => DelayInv
  BY DelayStart
<1>2. DelayInv /\ [DelayNext]_delayVars => DelayInv'
  BY DelayStep
<1> QED BY <1>1, <1>2, PTL DEF DelaySpec

LEMMA DeltasStep ==
    ASSUME DelayInv
    PROVE  DeltasAddUp
<1> DEFINE n == Len(queue)
<1>1. /\ queue \in Seq(Entries) /\ n \in Nat /\ n >= 1
      /\ \A i \in 1..n : queue[i].token = 0 <=> i = n
      /\ counted \in Nat /\ counted < Eternity
      /\ \A i \in 1..n :
           Before(queue, i) = Left(DueAt(due, queue[i].token), counted)
  BY DEF DelayInv, TasksKnown, Listed
<1>2. /\ DOMAIN due = Tokens(queue) /\ Tasks = Tokens(queue)
      /\ due \in [Tokens(queue) -> 0..(Eternity - 1)]
      /\ \A t \in Tokens(queue) : t \in 1..tokenCounter
  BY ElapsedType DEF DelayInv, TasksKnown, Tasks, Tokens
<1>3. Eternity \in Nat /\ tokenCounter \in Nat
  BY DelayAssumption DEF DelayInv, DelayTypes
<1> HIDE DEF n
<1>4. \A i \in 1..(n - 1) : queue[i].token \in Tokens(queue)
  BY DEF Tokens, n
<1>5. ASSUME NEW i \in 1..n
      PROVE  queue[i] \in [token : 0..tokenCounter, delta : Nat]
  <2>1. queue[i] \in Entries
    BY <1>1 DEF n
  <2>2. queue[i].token \in 0..tokenCounter
    <3>1. CASE i = n
      BY <1>1, <1>3, <3>1
    <3>2. CASE i # n
      BY <1>1, <1>2, <1>3, <1>4, <3>2
    <3> QED BY <3>1, <3>2
  <2> QED BY <2>1, <2>2 DEF Entries
<1>6. queue \in Seq([token : 0..tokenCounter, delta : Nat])
  <2>1. queue \in [1..n -> [token : 0..tokenCounter, delta : Nat]]
    BY <1>1, <1>5 DEF n
  <2> QED BY <1>1, <2>1, FunctionIsSequence
<1>7. Last(queue) = queue[n]
  BY DEF Last, n
<1>8. queue[n].token = 0
  BY <1>1
<1>9. queue[n].delta > 0
  <2> DEFINE b == Before(queue, n)
             a == Before(queue, n - 1)
             last == queue[n].delta
  <2>1. n \in 1..n /\ n - 1 \in 0..n
    BY <1>1
  <2>2. b = a + last /\ a \in Nat /\ last \in Nat
    BY <1>1, <2>1, BeforeSteps, EntryTypes DEF n
  <2>3. b = Eternity - counted
    BY <1>1, <1>3, <1>8, <2>1 DEF DueAt, Left
  <2>4. a < Eternity - counted
    <3>1. CASE n = 1
      <4>1. a = 0
        BY <1>1, <3>1, BeforeSteps
      <4> QED BY <1>1, <1>3, <4>1
    <3>2. CASE n # 1
      <4> DEFINE d == due[queue[n - 1].token]
      <4>1. n - 1 \in 1..(n - 1) /\ n - 1 \in 1..n /\ n - 1 # n
        BY <1>1, <3>2
      <4>2. queue[n - 1].token # 0 /\ d \in 0..(Eternity - 1)
        BY <1>1, <1>2, <1>4, <4>1
      <4>3. a = Left(d, counted)
        BY <1>1, <4>1, <4>2 DEF DueAt
      <4> HIDE DEF a, d
      <4> QED BY <1>1, <1>3, <4>2, <4>3 DEF Left
    <3> QED BY <3>1, <3>2
  <2> HIDE DEF a, b, last
  <2>5. last > 0
    BY <1>1, <1>3, <2>2, <2>3, <2>4
  <2> QED BY <2>5 DEF last
<1>10. /\ due \in [Tasks -> Nat] /\ DOMAIN due = Tasks
       /\ earliest \in [Tasks -> Int] /\ latest \in [Tasks -> Int]
  <2>1. \A t \in Tasks : due[t] \in Nat
    BY <1>2, <1>3
  <2>2. due \in [Tasks -> Nat]
    BY <1>2, <2>1
  <2> QED BY <1>2, <2>2 DEF DelayInv, Truthful
<1>11. DelayTypeOK
  BY <1>1, <1>6, <1>7, <1>8, <1>9, <1>10
     DEF DelayTypeOK, DelayInv, DelayTypes
<1>12. ASSUME NEW i \in 1..(n - 1)
       PROVE  Before(queue, i) = Left(due[queue[i].token], counted)
  <2>1. i \in 1..n /\ i # n
    BY <1>1
  <2> QED BY <1>1, <2>1 DEF DueAt
<1>13. \A i \in 1..(n - 1) :
         LET left == due[queue[i].token] - counted IN
         Before(queue, i) = IF left > 0 THEN left ELSE 0
  <2> SUFFICES ASSUME NEW i \in 1..(n - 1)
               PROVE  LET left == due[queue[i].token] - counted IN
                      Before(queue, i) = IF left > 0 THEN left ELSE 0
    OBVIOUS
  <2> DEFINE d == due[queue[i].token]
  <2>1. d \in Int /\ counted \in Int
    BY <1>1, <1>2, <1>3, <1>4
  <2>2. Before(queue, i) = Left(d, counted)
    BY <1>12
  <2> HIDE DEF d
  <2>3. Left(d, counted) = IF d - counted > 0 THEN d - counted ELSE 0
    BY <2>1 DEF Left
  <2> QED BY <2>2, <2>3 DEF d
<1> QED BY <1>11, <1>13 DEF DeltasAddUp, n

(* The deltas always add up to the time until each task is due.            *)
THEOREM DeltasCorrect == DelaySpec => []DeltasAddUp
<1>1. DelayInv => DeltasAddUp
  BY DeltasStep
<1> QED BY <1>1, DelayInvHolds, PTL

LEMMA EarlyStep ==
    ASSUME DelayInv, [DelayNext]_delayVars
    PROVE  [\A t \in Done : earliest[t] <= time]_delayVars
<1> SUFFICES ASSUME NEW t \in Done PROVE earliest[t] <= time
  OBVIOUS
<1>1. /\ phase = "handlers" /\ phase' = "task" /\ t \in Tasks
      /\ t \notin {queue'[i].token : i \in DOMAIN queue'}
  BY DEF Done
<1>2. handleAlarm
  BY <1>1 DEF DelayNext, delayVars, ClockTicks, SetTime, Select,
     SelectReturns, TaskReturns, scheduleDelayedTask, unscheduleDelayedTask
<1>3. PICK u \in DOMAIN due :
        due[u] <= counted' /\ Tokens(queue') = DOMAIN due \ {u}
  BY <1>1, <1>2, DoingTask
<1>4. /\ synchronize \/ NotSynchronized
      /\ TasksKnown'
  BY <1>1, <1>2, DoingTask
<1>5. UNCHANGED clockVars
  BY <1>2 DEF handleAlarm
<1>6. t \in DOMAIN due
  BY <1>1, ElapsedType DEF Tasks, Tokens
<1>7. t = u
  <2> DEFINE q == queue'
  <2>1. q \in Seq(Entries)
    BY <1>4 DEF TasksKnown, Listed
  <2>2. \A i \in 1..(Len(q) - 1) : i \in DOMAIN q
    BY <2>1
  <2>3. t \notin Tokens(q)
    BY <1>1, <2>2 DEF Tokens
  <2> QED BY <1>3, <1>6, <2>3
<1> DEFINE e == earliest[t]
           d == due[t]
           c == counted'
           x == Elapsed'
<1>8. /\ e \in Int /\ d \in Nat /\ e + counted + Elapsed <= time + d
      /\ time \in Nat /\ counted \in Nat /\ Elapsed \in Nat
  BY <1>6, ElapsedType DEF DelayInv, Truthful, TruthfulAt
<1>9. c + x = counted + Elapsed /\ c \in Nat /\ x \in Nat /\ d <= c
  BY <1>3, <1>4, <1>5, <1>7, CountEffect
<1> HIDE DEF e, d, c, x
<1>10. e <= time
  BY <1>8, <1>9
<1> QED BY <1>10 DEF e

(* No task is done before its delay has really gone by, less what the time *)
(* of day has been set on.                                                 *)
THEOREM EarlyCorrect == DelaySpec => NotEarly
<1>1. DelayInv /\ [DelayNext]_delayVars
     => [\A t \in Done : earliest[t] <= time]_delayVars
  BY EarlyStep
<1> QED BY <1>1, DelayInvHolds, PTL DEF DelaySpec, NotEarly

LEMMA SleepStep ==
    ASSUME DelayInv, [DelayNext]_delayVars
    PROVE  [phase # "select" /\ phase' = "select" =>
                   \A t \in Tasks : wake' <= time \/ wake' <= latest[t]
                ]_delayVars
<1> SUFFICES ASSUME phase # "select", phase' = "select",
                    NEW t \in Tasks
             PROVE  wake' <= time \/ wake' <= latest[t]
  OBVIOUS
<1>1. Select
  BY DEF DelayNext, delayVars, ClockTicks, SetTime, handleAlarm, DoTask,
     SelectReturns, TaskReturns, scheduleDelayedTask, unscheduleDelayedTask
<1>2. t \in DOMAIN due
  BY ElapsedType DEF Tasks, Tokens
<1> QED BY <1>1, <1>2, SelectStep

(* The event loop never sleeps past the time at which a task is due.       *)
THEOREM SleepCorrect == DelaySpec => SleepsUntilDue
<1>1. DelayInv /\ [DelayNext]_delayVars
     => [phase # "select" /\ phase' = "select" =>
            \A t \in Tasks : wake' <= time \/ wake' <= latest[t]
        ]_delayVars
  BY SleepStep
<1> QED BY <1>1, DelayInvHolds, PTL DEF DelaySpec, SleepsUntilDue

LEMMA TimersStep ==
    ASSUME DelayInv, [DelayNext]_delayVars
    PROVE  [Abstract!Next]_Abstract!vars
<1>1. counted \in Nat /\ Elapsed \in Nat /\ DOMAIN due = Tokens(queue)
  BY ElapsedType
<1>2. ASSUME UNCHANGED dueVars, UNCHANGED tokenCounter
      PROVE  UNCHANGED Abstract!vars
  BY <1>2 DEF dueVars, Abstract!vars
<1>3. ASSUME UNCHANGED clockVars, synchronize \/ NotSynchronized
      PROVE  Abstract!Passes
  <2>1. counted' = counted + Elapsed \/ counted' = counted
    BY <1>3 DEF synchronize, NotSynchronized
  <2> QED BY <1>1, <2>1 DEF Abstract!Passes
<1>4. ASSUME UNCHANGED <<clockVars, tokenCounter, due>>,
             synchronize \/ NotSynchronized
      PROVE  Abstract!Advance
  BY <1>3, <1>4 DEF Abstract!Advance
<1>5. CASE UNCHANGED delayVars
  BY <1>2, <1>5 DEF delayVars, queueVars
<1>6. CASE ClockTicks
  BY <1>2, <1>6 DEF ClockTicks, queueVars
<1>7. ASSUME NEW s \in Settings, SetTime(s)
      PROVE  UNCHANGED Abstract!vars
  BY <1>7 DEF SetTime, queueVars, Abstract!vars
<1>8. CASE SelectReturns \/ TaskReturns
  BY <1>2, <1>8 DEF SelectReturns, TaskReturns, queueVars
<1>9. CASE Select
  <2>1. Abstract!Advance
    BY <1>4, <1>9, SelectStep
  <2> QED BY <2>1 DEF Abstract!Next
<1>10. CASE handleAlarm
  <2>1. UNCHANGED clockVars /\ UNCHANGED tokenCounter
    BY <1>10 DEF handleAlarm
  <2>2. CASE phase' # "task"
    <3>1. Abstract!Advance
      BY <1>4, <1>10, <2>1, <2>2, AlarmStep
    <3> QED BY <3>1 DEF Abstract!Next
  <2>3. CASE phase' = "task"
    <3>1. synchronize \/ NotSynchronized
      BY <1>10, <2>3, DoingTask
    <3>2. PICK t \in DOMAIN due :
            /\ due[t] <= counted'
            /\ \A u \in DOMAIN due \ {t} : Precedes(due, t, u)
            /\ due' = [u \in DOMAIN due \ {t} |-> due[u]]
      BY <1>10, <2>3, DoingTask
    <3>3. Abstract!Passes
      BY <1>3, <2>1, <3>1
    <3>4. Abstract!IsNext(t)
      BY <3>2 DEF Abstract!IsNext, Precedes
    <3>5. Abstract!Do(t)
      BY <2>1, <3>2, <3>3, <3>4 DEF Abstract!Do, Abstract!Without
    <3> QED BY <3>5 DEF Abstract!Next
  <2> QED BY <2>2, <2>3
<1>11. ASSUME NEW delay \in Delays, scheduleDelayedTask(delay)
       PROVE  Abstract!Next
  <2>1. /\ synchronize /\ UNCHANGED clockVars
        /\ tokenCounter' = tokenCounter + 1
        /\ due' = With(due, tokenCounter', counted' + delay)
    BY <1>11 DEF scheduleDelayedTask
  <2>2. Abstract!Passes
    BY <1>3, <2>1
  <2>3. Abstract!Schedule(delay)
    BY <2>1, <2>2 DEF Abstract!Schedule, Abstract!With, With
  <2> QED BY <2>3 DEF Abstract!Next
<1>12. ASSUME NEW t \in 1..tokenCounter, unscheduleDelayedTask(t)
       PROVE  Abstract!Next
  <2>1. Forget(t) /\ counted' = counted /\ tokenCounter' = tokenCounter
    BY <1>12 DEF unscheduleDelayedTask
  <2>2. t \in DOMAIN due
    BY <1>12, UnscheduleStep
  <2>3. due' = [u \in DOMAIN due \ {t} |-> due[u]]
    BY <2>1, Forgetting
  <2>4. Abstract!Unschedule(t)
    BY <2>1, <2>3 DEF Abstract!Unschedule, Abstract!Without
  <2> QED BY <2>2, <2>4 DEF Abstract!Next
<1> QED BY <1>5, <1>6, <1>7, <1>8, <1>9, <1>10, <1>11, <1>12
        DEF DelayNext

(* The queue does what Timers promises.                                    *)
THEOREM TimersCorrect == DelaySpec => ImplementsTimers
<1>1. DelayInit => Abstract!Init
  BY DEF DelayInit, Abstract!Init
<1>2. DelayInv /\ [DelayNext]_delayVars => [Abstract!Next]_Abstract!vars
  BY TimersStep
<1> QED BY <1>1, <1>2, DelayInvHolds, PTL
        DEF DelaySpec, ImplementsTimers, Abstract!Spec
=============================================================================
