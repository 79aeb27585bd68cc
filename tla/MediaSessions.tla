--------------------------- MODULE MediaSessions ---------------------------
(***************************************************************************)
(* The streams of the server and the clients that use them (live555,       *)
(* DynamicRTSPServer over GenericMediaServer and RTSPServer).  A           *)
(* ServerMediaSession stands for a file that is streamed.  The table of    *)
(* the server has the one that new clients get; it is made anew whenever a *)
(* client asks for the file first, and the one before it lives on until    *)
(* the last client session that uses it is deleted.                        *)
(*                                                                         *)
(* There is one file.  Looking at it may take a while: DynamicRTSPServer   *)
(* (for Matroska and Ogg) and the description of a session (for H.264)     *)
(* enter the event loop again, in which other requests and timeouts are    *)
(* handled from beginning to end; so the calls under way are a stack.  A   *)
(* client session may be deleted there that waits below, in its SETUP: the *)
(* SETUP then goes on with memory that was freed.                          *)
(***************************************************************************)
EXTENDS Integers, Sequences, FiniteSets

CONSTANTS
    Media,                  \* where ServerMediaSession objects may be
    Sessions,               \* the ids of client sessions
    NumTracks,              \* how many tracks the file has
    None,                   \* NULL
    fReclamationSeconds,
    MaxNested               \* how many calls may be under way

ASSUME MediaAssumption ==
    /\ None \notin Media \cup Sessions
    /\ IsFiniteSet(Sessions)
    /\ NumTracks \in Nat \ {0}
    /\ fReclamationSeconds \in Nat \ {0}
    /\ MaxNested \in Nat

VARIABLES
    fileExists,
    objects,        \* the ServerMediaSession objects and the table
    clientSessions, \* fClientSessions
    media,          \* fOurServerMediaSession of each
    streams,        \* how many of its subsessions are not NULL yet
    idle,           \* the time since noteLiveness of each
    calls           \* the stack of calls under way, the last one on top

sessionVars == <<clientSessions, media, streams, idle>>
vars == <<fileExists, objects, sessionVars, calls>>

(* A call that looks for the file, for a DESCRIBE or for the SETUP of a    *)
(* session (None: of one that was deleted since), and one that makes a     *)
(* description of an object.                                               *)
Calls ==
    [request : {"DESCRIBE"}, step : {"look up"}, session : {None},
     object : {None}] \cup
    [request : {"SETUP"}, step : {"look up"},
     session : Sessions \cup {None}, object : {None}] \cup
    [request : {"DESCRIBE"}, step : {"describe"}, session : {None},
     object : Media]

(* The operators called Mutant... are broken versions of the definition    *)
(* that follows them; PROJECT.json names the property each must violate.   *)

Init ==
    /\ fileExists \in BOOLEAN
    /\ objects = [table |-> None, alive |-> {},
                  references |-> [m \in Media |-> 0], deleteWhen |-> {},
                  pushedOut |-> {}, strays |-> {}]
    /\ clientSessions = {}
    /\ media = [s \in Sessions |-> None]
    /\ streams = [s \in Sessions |-> 0]
    /\ idle = [s \in Sessions |-> 0]
    /\ calls = <<>>

-----------------------------------------------------------------------------
(* ServerMediaSession objects.  Two fields are not in the code: pushedOut  *)
(* has those that lost their place in the table when another of the name   *)
(* was removed, strays those with a reference that nothing will release.   *)

(* The object is taken out of the table by its name, even if the table has *)
(* another of that name by now.                                            *)
removeServerMediaSession(o, m) ==
    IF m = None THEN o
    ELSE [o EXCEPT !.table = None,
                   !.pushedOut = @ \cup ({o.table} \ {m, None}),
                   !.alive = IF o.references[m] = 0 THEN @ \ {m} ELSE @,
                   !.deleteWhen = IF o.references[m] = 0 THEN @ \ {m}
                                  ELSE @ \cup {m}]

(* A new object at m.                                                      *)
addServerMediaSession(o, m) ==
    [removeServerMediaSession(o, o.table) EXCEPT
        !.table = m, !.alive = @ \cup {m}, !.references[m] = 0,
        !.deleteWhen = @ \ {m}, !.pushedOut = @ \ {m}, !.strays = @ \ {m}]

incrementReferenceCount(o, m) == [o EXCEPT !.references[m] = @ + 1]

(* An object that was removed before is left alone.                        *)
MutantRelease(o, m) ==
    IF m = None THEN o ELSE [o EXCEPT !.references[m] = @ - 1]

(* decrementReferenceCount and what its callers do after it.               *)
Release(o, m) ==
    IF m = None THEN o
    ELSE LET less == [o EXCEPT !.references[m] = @ - 1] IN
         IF less.references[m] = 0 /\ m \in o.deleteWhen
         THEN removeServerMediaSession(less, m) ELSE less

-----------------------------------------------------------------------------
(* The calls                                                               *)

Top == calls[Len(calls)]
Below == SubSeq(calls, 1, Len(calls) - 1)

(* No object is counted for a description that is being made.              *)
MutantDescribe(m, o, below) ==
    /\ objects' = o
    /\ calls' = Append(below, [request |-> "DESCRIBE", step |-> "describe",
                               session |-> None, object |-> m])
    /\ UNCHANGED sessionVars

(* handleCmd_DESCRIBE, after lookupServerMediaSession returned m.          *)
Describe(m, o, below) ==
    /\ objects' = incrementReferenceCount(o, m)
    /\ calls' = Append(below, [request |-> "DESCRIBE", step |-> "describe",
                               session |-> None, object |-> m])
    /\ UNCHANGED sessionVars

(* handleCmd_SETUP, after lookupServerMediaSession returned m: a session   *)
(* that had another one before is refused.                                 *)
SetUp(s, m, o, below) ==
    /\ calls' = below
    /\ IF media[s] = None
       THEN /\ objects' = incrementReferenceCount(o, m)
            /\ media' = [media EXCEPT ![s] = m]
            /\ streams' = [streams EXCEPT ![s] = NumTracks]
       ELSE objects' = o /\ UNCHANGED <<media, streams>>

(* The same when the session was deleted: the test is of freed memory,     *)
(* which may still have an object, or nothing, or belong to a session that *)
(* was made since.                                                         *)
SetUpDeleted(m, o, below) ==
    \/ objects' = o /\ calls' = below /\ UNCHANGED <<media, streams>>
    \/ /\ objects' = [incrementReferenceCount(o, m) EXCEPT
                        !.strays = @ \cup {m}]
       /\ calls' = below
       /\ UNCHANGED <<media, streams>>
    \/ \E s \in clientSessions : SetUp(s, m, o, below)

LookUpCall(request, s) ==
    [request |-> request, step |-> "look up", session |-> s, object |-> None]

(* lookupServerMediaSession up to the creation of a new object.  The old   *)
(* one is removed already.                                                 *)
StartLookUp(call) ==
    /\ Len(calls) < MaxNested
    /\ objects' = removeServerMediaSession(objects, objects.table)
    /\ calls' = Append(calls, call)

(* No file of the name, or of no kind that createNewSMS knows: the table   *)
(* never has an object of such a name.                                     *)
NoSuchFile ==
    /\ objects' = removeServerMediaSession(objects, objects.table)
    /\ UNCHANGED <<media, streams, calls>>

(* The references to m that nothing will release.                          *)
Stray(m) == IF m \in objects.strays THEN 1 ELSE 0

(* Objects that will never be deleted, and that nothing uses any more.     *)
Lost == {m \in (objects.pushedOut \cup objects.strays) \ {objects.table} :
           objects.references[m] = Stray(m)}

(* There is always memory for another object: here, that of one that is    *)
(* lost first.                                                             *)
Free == IF Lost # {} THEN Lost ELSE Media \ objects.alive

(* createNewSMS returns.  It does not matter where the object is.          *)
LookUpReturns ==
    /\ calls # <<>> /\ Top.step = "look up"
    /\ Free # {}
    /\ LET m == CHOOSE m \in Free : TRUE
           o == addServerMediaSession(objects, m)
       IN  IF Top.request = "DESCRIBE" THEN Describe(m, o, Below)
           ELSE /\ IF Top.session = None THEN SetUpDeleted(m, o, Below)
                   ELSE SetUp(Top.session, m, o, Below)
                /\ UNCHANGED <<clientSessions, idle>>
    /\ UNCHANGED fileExists

-----------------------------------------------------------------------------
(* The requests                                                            *)

handleCmd_DESCRIBE ==
    /\ IF fileExists THEN StartLookUp(LookUpCall("DESCRIBE", None))
       ELSE NoSuchFile
    /\ UNCHANGED <<fileExists, clientSessions, media, streams, idle>>

DescriptionIsMade ==
    /\ calls # <<>> /\ Top.step = "describe"
    /\ objects' = Release(objects, Top.object)
    /\ calls' = Below
    /\ UNCHANGED <<fileExists, sessionVars>>

(* SETUP of any track.  The first one makes the client session.  Its       *)
(* answer has the id if the file exists: without it the client can ask     *)
(* nothing more of it.  Later ones may come while another waits.           *)
handleCmd_SETUP(s) ==
    /\ s \in clientSessions => media[s] # None
    /\ clientSessions' = clientSessions \cup {s}
    /\ idle' = [idle EXCEPT ![s] = 0]
    /\ \/ fileExists /\ (objects.table = None \/ media[s] = None)
          /\ StartLookUp(LookUpCall("SETUP", s))
          /\ UNCHANGED <<media, streams>>
       \/ fileExists /\ objects.table # None /\ media[s] # None
          /\ SetUp(s, objects.table, objects, calls)
       \/ ~fileExists /\ NoSuchFile
    /\ UNCHANGED fileExists

(* PLAY, PAUSE, GET_PARAMETER, SET_PARAMETER, and the RTCP reports.        *)
noteLiveness(s) ==
    /\ s \in clientSessions /\ media[s] # None
    /\ idle' = [idle EXCEPT ![s] = 0]
    /\ UNCHANGED <<fileExists, objects, clientSessions, media, streams, calls>>

(* ~ClientSession, also while a SETUP of the session waits.                *)
Delete(s) ==
    /\ clientSessions' = clientSessions \ {s}
    /\ objects' = Release(objects, media[s])
    /\ media' = [media EXCEPT ![s] = None]
    /\ streams' = [streams EXCEPT ![s] = 0]
    /\ idle' = [idle EXCEPT ![s] = 0]
    /\ calls' = [i \in DOMAIN calls |->
                   IF calls[i].session = s
                   THEN [calls[i] EXCEPT !.session = None] ELSE calls[i]]

(* Of one track or of all that are left.                                    *)
handleCmd_TEARDOWN(s, n) ==
    /\ s \in clientSessions /\ media[s] # None
    /\ IF streams[s] = n THEN Delete(s)
       ELSE /\ streams' = [streams EXCEPT ![s] = @ - n]
            /\ idle' = [idle EXCEPT ![s] = 0]
            /\ UNCHANGED <<objects, clientSessions, media, calls>>
    /\ UNCHANGED fileExists

(* Only a session that is set up is checked.                               *)
MutantLivenessTimeoutTask(s) ==
    /\ s \in clientSessions /\ idle[s] = fReclamationSeconds
    /\ media[s] # None
    /\ Delete(s)
    /\ UNCHANGED fileExists

livenessTimeoutTask(s) ==
    /\ s \in clientSessions /\ idle[s] = fReclamationSeconds
    /\ Delete(s)
    /\ UNCHANGED fileExists

(* Time goes by: a timer that is due counts no further.                    *)
Tick ==
    /\ \E s \in clientSessions : idle[s] < fReclamationSeconds
    /\ idle' = [s \in Sessions |->
                  IF s \in clientSessions /\ idle[s] < fReclamationSeconds
                  THEN idle[s] + 1 ELSE idle[s]]
    /\ UNCHANGED <<fileExists, objects, clientSessions, media, streams, calls>>

(* The file is made or deleted.                                            *)
FileChanges ==
    /\ fileExists' = ~fileExists
    /\ UNCHANGED <<objects, sessionVars, calls>>

-----------------------------------------------------------------------------

Next ==
    \/ handleCmd_DESCRIBE \/ LookUpReturns \/ DescriptionIsMade
    \/ Tick \/ FileChanges
    \/ \E s \in Sessions :
          \/ handleCmd_SETUP(s)
          \/ handleCmd_TEARDOWN(s, 1) \/ handleCmd_TEARDOWN(s, streams[s])
          \/ noteLiveness(s) \/ livenessTimeoutTask(s)

(* Time goes by, and the event loop does the tasks that are due, also the  *)
(* one that is entered while a file is looked at.                          *)
Fairness ==
    /\ WF_vars(Tick)
    /\ \A s \in Sessions : WF_vars(livenessTimeoutTask(s))

Spec == Init /\ [][Next]_vars
FairSpec == Spec /\ Fairness

-----------------------------------------------------------------------------

TypeOK ==
    /\ fileExists \in BOOLEAN
    /\ objects \in [table : Media \cup {None}, alive : SUBSET Media,
                    references : [Media -> Nat], deleteWhen : SUBSET Media,
                    pushedOut : SUBSET Media, strays : SUBSET Media]
    /\ clientSessions \subseteq Sessions
    /\ media \in [Sessions -> Media \cup {None}]
    /\ streams \in [Sessions -> 0..NumTracks]
    /\ \A s \in Sessions : media[s] # None => streams[s] # 0
    /\ idle \in [Sessions -> 0..fReclamationSeconds]
    /\ calls \in Seq(Calls) /\ Len(calls) <= MaxNested

SessionsOf(m) == {s \in Sessions : media[s] = m}
CallsOf(m) == {i \in DOMAIN calls : calls[i].object = m}
Used(m) == SessionsOf(m) # {} \/ CallsOf(m) # {}

(* Every object that the table, a client session or a description refers   *)
(* to is alive, whoever removed it meanwhile, and its count is the number  *)
(* of those that use it ("in case someone removes it while we're using     *)
(* it", RTSPServer.cpp:340); one higher if it was made for the SETUP of a  *)
(* session that was deleted while it waited, and counted for nobody.       *)
ReferencesExact ==
    /\ TypeOK
    /\ objects.table \in objects.alive \cup {None}
    /\ \A m \in Media :
         /\ objects.references[m] =
              Cardinality(SessionsOf(m)) + Cardinality(CallsOf(m)) + Stray(m)
         /\ Used(m) => m \in objects.alive

(* An object that new clients cannot get any more is in use, and will be   *)
(* deleted with its last user.  Two kinds are exceptions and are never     *)
(* deleted: those that were pushed out of the table by the end of an older *)
(* one of the name, and those counted for a SETUP whose session was        *)
(* deleted while it waited.                                                *)
NotLeaked ==
    \A m \in objects.alive
             \ ({objects.table} \cup objects.pushedOut \cup objects.strays) :
        Used(m) /\ m \in objects.deleteWhen

(* A client session whose client gives no sign of life is deleted ("will   *)
(* get reclaimed if no activity from the client is detected",              *)
(* GenericMediaServer.hh:73), also one that was never set up.  idle is 0   *)
(* again after a sign of life, and without a session.                      *)
Reclaimed ==
    \A s \in Sessions :
        idle[s] > 0 ~> idle[s] = 0
=============================================================================
