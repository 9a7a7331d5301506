------------------------ MODULE RecordingViewProofs ------------------------
(***************************************************************************)
(* Proofs about RecordingView, for any number of sessions and of matches,  *)
(* any responses, and whatever the engine and the run loop guarantee; then *)
(* for an engine whose stop waits for the callback in progress, and for a  *)
(* run loop that performs the queued requests before the next touch.       *)
(***************************************************************************)
EXTENDS RecordingView, TLAPS

(***************************************************************************)
(* The inductive invariant.                                                *)
(***************************************************************************)

\* A callback in progress serves a match that has been counted.
MatchCounted == \A e \in Obj : thread[e].at # "idle" => hits[e] \in 1..MaxHits

\* A handle to a metering timer always has a timer behind it.
TimerBehindHandle == audioLevelTimer => meterTimers > 0

TypeInv == TypeOK /\ MatchCounted /\ TimerBehindHandle

(***************************************************************************)
(* The activation of a callback keeps its type in every step.              *)
(***************************************************************************)
LEMMA ReturnedType == Returned \in Activation
BY DEF Returned, Activation, CallbackStep, Token

LEMMA ThreadUpdate ==
  ASSUME NEW e \in Obj, thread \in [Obj -> Activation], NEW a \in Activation,
         thread' = [thread EXCEPT ![e] = a]
  PROVE  /\ thread' \in [Obj -> Activation]
         /\ thread'[e] = a
         /\ \A o \in Obj \ {e} : thread'[o] = thread[o]
OBVIOUS

LEMMA ProceedType ==
  ASSUME NEW e \in Obj, NEW step \in CallbackStep, thread \in [Obj -> Activation], Proceed(e, step)
  PROVE  /\ thread' \in [Obj -> Activation]
         /\ \A o \in Obj \ {e} : thread'[o] = thread[o]
<1>1. [thread[e] EXCEPT !.at = step, !.pointer = Unread] \in Activation
  BY DEF Activation
<1> QED BY <1>1, ThreadUpdate DEF Proceed

LEMMA ReturnType ==
  ASSUME NEW e \in Obj, thread \in [Obj -> Activation], Return(e)
  PROVE  /\ thread' \in [Obj -> Activation]
         /\ thread'[e].at = "idle"
         /\ \A o \in Obj \ {e} : thread'[o] = thread[o]
BY ReturnedType DEF Return, Returned

\* The step of a callback's message leaves everything else typed.
LEMMA CallbackType ==
  ASSUME TypeInv, NEW e \in Obj, CallbackThread(e), UNCHANGED <<main, amObject, viewVars, fed>>
  PROVE  TypeInv'
<1> USE DEF TypeInv, TypeOK, MatchCounted, TimerBehindHandle, viewVars, wrapperVars
<1>0. thread[e] \in Activation
  OBVIOUS
<1>1. CASE ReadMyObj(e)
  <2>1. [thread[e] EXCEPT !.pointer = myObj] \in Activation
    BY DEF Activation
  <2>2. [thread[e] EXCEPT !.pointer = myObj].at = thread[e].at
    BY DEF Activation
  <2> QED BY <1>1, <2>1, <2>2, ThreadUpdate DEF ReadMyObj
<1>2. CASE MessageFreed(e)
  BY <1>2 DEF MessageFreed
<1>3. ASSUME NEW step, NEW token, NEW found \in CallbackStep \ {"idle"}, step # "idle",
             Extract(e, step, token, found)
      PROVE  TypeInv'
  <2>1. CASE Proceed(e, found)
    BY <1>3, <2>1, ProceedType DEF Extract, CallbackUnchanged, Sending
  <2>2. CASE Return(e)
    BY <1>3, <2>2, ReturnType DEF Extract, CallbackUnchanged
  <2> QED BY <1>3, <2>1, <2>2 DEF Extract
<1>4. ASSUME NEW step, NEW token \in {"SigOffset", "MatchDuration"},
             NEW next \in CallbackStep \ {"idle"}, step # "idle",
             ExtractPart(e, step, token, next)
      PROVE  TypeInv'
  <2> PICK p \in Obj \union {None} :
        /\ Sending(e, step, p)
        /\ thread' = [thread EXCEPT ![e] =
             [@ EXCEPT !.at = next, !.pointer = Unread,
                       !.parts = thread[e].parts \union {t \in thread[e].response : p # None /\ t = token}]]
    BY <1>4 DEF ExtractPart
  <2> DEFINE a == [thread[e] EXCEPT !.at = next, !.pointer = Unread,
                     !.parts = thread[e].parts \union {t \in thread[e].response : p # None /\ t = token}]
  <2>1. a \in Activation
    BY <1>0 DEF Activation
  <2>2. thread' = [thread EXCEPT ![e] = a]
    BY <1>0
  <2>3. thread[e].at # "idle"
    BY <1>4 DEF Sending
  <2> HIDE DEF a
  <2> QED BY <1>4, <2>1, <2>2, <2>3, ThreadUpdate DEF ExtractPart, CallbackUnchanged
<1>5. CASE SetAmItemId(e)
  <2>1. CurrentMatch(e) \in Match
    BY <1>5 DEF SetAmItemId, Sending, CurrentMatch, Match
  <2>2. amItemId' \in [Obj -> Match \union {None}]
    BY <1>5, <2>1 DEF SetAmItemId
  <2>3. /\ thread' \in [Obj -> Activation]
        /\ \A o \in Obj \ {e} : thread'[o] = thread[o]
    BY <1>5, ProceedType DEF SetAmItemId, CallbackStep
  <2>4. hits[e] \in 1..MaxHits
    BY <1>5 DEF SetAmItemId, Sending
  <2> QED
    BY <1>5, <2>2, <2>3, <2>4 DEF SetAmItemId, CallbackUnchanged
<1>6. CASE SetSigOffset(e)
  <2>1. [match |-> CurrentMatch(e), parts |-> thread[e].parts] \in Offset
    BY <1>6 DEF SetSigOffset, Sending, CurrentMatch, Match, Offset, Activation
  <2>2. sigOffsetSeconds' \in [Obj -> Offset \union {None}]
    BY <1>6, <2>1 DEF SetSigOffset
  <2>3. /\ thread' \in [Obj -> Activation]
        /\ \A o \in Obj \ {e} : thread'[o] = thread[o]
    BY <1>6, ProceedType DEF SetSigOffset, CallbackStep
  <2>4. hits[e] \in 1..MaxHits
    BY <1>6 DEF SetSigOffset, Sending
  <2> QED
    BY <1>6, <2>2, <2>3, <2>4 DEF SetSigOffset, CallbackUnchanged
<1>7. CASE ReadCallbackObject(e)
  <2> PICK p \in Obj \union {None} :
        thread' = [thread EXCEPT ![e] = [@ EXCEPT !.at = "callbackSelector", !.pointer = Unread,
                                                  !.receiver = (p # None /\ callback[p])]]
    BY <1>7 DEF ReadCallbackObject
  <2> DEFINE a == [thread[e] EXCEPT !.at = "callbackSelector", !.pointer = Unread,
                                    !.receiver = (p # None /\ callback[p])]
  <2>1. a \in Activation
    BY <1>0 DEF Activation, CallbackStep
  <2>2. thread' = [thread EXCEPT ![e] = a]
    BY <1>0
  <2>3. thread[e].at # "idle"
    BY <1>7 DEF ReadCallbackObject, Sending
  <2> HIDE DEF a
  <2> QED BY <1>7, <2>1, <2>2, <2>3, ThreadUpdate DEF ReadCallbackObject, CallbackUnchanged
<1>8. CASE ReadCallbackSelector(e)
  <2> PICK p \in Obj \union {None} :
        thread' = [thread EXCEPT ![e] = [@ EXCEPT !.at = "perform", !.pointer = Unread,
                                                  !.selector = (p # None /\ callback[p])]]
    BY <1>8 DEF ReadCallbackSelector
  <2> DEFINE a == [thread[e] EXCEPT !.at = "perform", !.pointer = Unread,
                                    !.selector = (p # None /\ callback[p])]
  <2>1. a \in Activation
    BY <1>0 DEF Activation, CallbackStep
  <2>2. thread' = [thread EXCEPT ![e] = a]
    BY <1>0
  <2>3. thread[e].at # "idle"
    BY <1>8 DEF ReadCallbackSelector, Sending
  <2> HIDE DEF a
  <2> QED BY <1>8, <2>1, <2>2, <2>3, ThreadUpdate DEF ReadCallbackSelector, CallbackUnchanged
<1>9. CASE PerformOnMainThread(e)
  <2> PICK p \in Obj \union {None} :
        mainQueue' = IF thread[e].receiver
                       THEN Append(mainQueue, [selector |-> thread[e].selector, object |-> p])
                       ELSE mainQueue
    BY <1>9 DEF PerformOnMainThread
  <2>1. [selector |-> thread[e].selector, object |-> p] \in Request
    BY DEF Request, Activation
  <2>2. mainQueue' \in Seq(Request)
    BY <2>1
  <2> QED BY <1>9, <2>2, ReturnType DEF PerformOnMainThread, CallbackUnchanged
<1> QED
  BY <1>1, <1>2, <1>3, <1>4, <1>5, <1>6, <1>7, <1>8, <1>9
  DEF CallbackThread, CallbackMessage, GetXMLFromResponse, ExtractAMItemId,
      ExtractSigOffset, ExtractMatchDuration, CallbackStep

(***************************************************************************)
(* Every step of the main thread and of the engines keeps the types.       *)
(***************************************************************************)
LEMMA EngineType ==
  ASSUME TypeInv, NEW e \in Obj, EngineHit(e), UNCHANGED <<main, amObject, viewVars, fed>>
  PROVE  TypeInv'
<1>1. PICK r \in Responses :
        thread' = [thread EXCEPT ![e] = [Returned EXCEPT !.at = "getXML", !.response = r]]
  BY DEF EngineHit
<1>2. [Returned EXCEPT !.at = "getXML", !.response = r] \in Activation
  BY ResponsesAreTokens DEF Returned, Activation, CallbackStep
<1>3. /\ thread' \in [Obj -> Activation]
      /\ \A o \in Obj \ {e} : thread'[o] = thread[o]
  BY <1>1, <1>2, ThreadUpdate DEF TypeInv, TypeOK
<1>4. hits' \in [Obj -> 0..MaxHits] /\ hits'[e] \in 1..MaxHits
  BY BoundsAreNaturals DEF EngineHit, TypeInv, TypeOK
<1> QED
  BY <1>3, <1>4 DEF EngineHit, TypeInv, TypeOK, MatchCounted, TimerBehindHandle, viewVars, wrapperVars

\* While Identify: runs, it has an object.
IdentifyHasObject == main \in {"create", "database", "start"} => amObject # None

LEMMA MainType ==
  ASSUME TypeInv, IdentifyHasObject, MainThread \/ User
  PROVE  TypeInv'
<1> USE DEF TypeInv, TypeOK, MatchCounted, TimerBehindHandle, IdentifyHasObject,
            viewVars, wrapperVars, engineVars
<1>1. CASE ViewDidLoad
  BY <1>1 DEF ViewDidLoad, ResetUI, syncVars
<1>2. CASE Identify
  <2>1. allocated + 1 \in Obj /\ allocated' \in 0..MaxObjects
    BY <1>2, BoundsAreNaturals DEF Identify, Obj
  <2>2. freed' \subseteq Obj /\ myObj' \in Obj \union {None} /\ main' \in MainStep
    BY <1>2, <2>1 DEF Identify, MainStep
  <2> QED BY <1>2, <2>1, <2>2 DEF Identify
<1>3. CASE CreateMediaID
  BY <1>3 DEF CreateMediaID, MainStep, EngineState
<1>4. CASE SetLocalDatabase
  BY <1>4 DEF SetLocalDatabase, RegisterCallback, MainStep
<1>5. CASE StartListening
  <2>1. mediaID' \in [Obj -> EngineState] /\ isMfcbrListening' \in [Obj -> BOOLEAN]
    BY <1>5 DEF StartListening, EngineState
  <2>2. meterTimers' \in Nat /\ meterTimers' > 0
    BY <1>5 DEF StartListening, StartMetering
  <2> QED BY <1>5, <2>1, <2>2 DEF StartListening, StartMetering, MainStep
<1>6. ASSUME StopListening, main' \in MainStep PROVE TypeInv'
  BY <1>6 DEF StopListening, EngineState
<1>7. CASE CancelButton
  BY <1>6, <1>7 DEF CancelButton, MainStep
<1>8. CASE ViewDidUnload
  BY <1>6, <1>8 DEF ViewDidUnload, MainStep
<1>9. CASE MfcbrTerminate
  <2>1. mediaID' \in [Obj -> EngineState]
    BY <1>9 DEF MfcbrTerminate, DestroyMediaID, EngineState
  <2>2. /\ viewLoaded' \in BOOLEAN /\ btnCancel' \in BOOLEAN /\ audioLevelTimer' \in BOOLEAN
        /\ meterTimers' \in Nat /\ (audioLevelTimer' => meterTimers' > 0)
    <3>1. CASE main = "cancel"
      <4>1. /\ audioLevelTimer' = FALSE /\ btnCancel' = FALSE /\ viewLoaded' = viewLoaded
            /\ meterTimers' = IF audioLevelTimer THEN meterTimers - 1 ELSE meterTimers
        BY <1>9, <3>1 DEF MfcbrTerminate, DestroyMediaID, ResetUI
      <4>2. meterTimers' \in Nat
        BY <4>1
      <4> QED BY <4>1, <4>2
    <3>2. CASE main # "cancel"
      BY <1>9, <3>2 DEF MfcbrTerminate
    <3> QED BY <3>1, <3>2
  <2> QED BY <1>9, <2>1, <2>2 DEF MfcbrTerminate, ReleaseAMObject, MainStep
<1>10. CASE IdMade
  <2>1. Head(mainQueue) \in Request /\ Tail(mainQueue) \in Seq(Request)
    BY <1>10 DEF IdMade
  <2>2. \/ crashed' = TRUE /\ UNCHANGED <<mainQueue, fed, freed, myObj>>
        \/ /\ Head(mainQueue).object \in Obj
           /\ mainQueue' = Tail(mainQueue)
           /\ fed' = fed \union {sigOffsetSeconds[Head(mainQueue).object]}
           /\ freed' \in {freed, freed \union {Head(mainQueue).object}}
           /\ myObj' \in {myObj, None}
           /\ UNCHANGED crashed
    BY <1>10, <2>1 DEF IdMade, Request
  <2> QED BY <1>10, <2>1, <2>2 DEF IdMade
<1> QED
  BY <1>1, <1>2, <1>3, <1>4, <1>5, <1>7, <1>8, <1>9, <1>10 DEF MainThread, User

(***************************************************************************)
(* The session invariant.  The properties of the runs are not inductive as *)
(* they stand: that a new object is not among the freed ones needs the     *)
(* numbering, and that Record meets no object needs to know which handler  *)
(* is running.                                                             *)
(***************************************************************************)

\* Every object anything refers to has been allocated.
Numbered ==
  /\ freed \subseteq 1..allocated
  /\ amObject # None => amObject \in 1..allocated
  /\ \A i \in DOMAIN mainQueue : mainQueue[i].object \in 1..allocated \union {None}
  /\ \A e \in Obj : thread[e].pointer \in 1..allocated \union {None, Unread}

\* Only viewDidUnload's handler may find the view unloaded when it is done.
HandlerInView == main \in {"create", "database", "start", "cancel"} => viewLoaded

SessionInv ==
  /\ IdentifyHasObject
  /\ OneSession
  /\ CancelHasSession
  /\ HandlerInView
  /\ Numbered
  /\ NoneFreedInUse
  /\ MeteringFollowsSession

IInv == TypeInv /\ SessionInv

(***************************************************************************)
(* What queueing and performing a request do to the objects in the queue.  *)
(***************************************************************************)
LEMMA AppendObjects ==
  ASSUME NEW q \in Seq(Request), NEW r \in Request
  PROVE  \A i \in DOMAIN Append(q, r) :
           Append(q, r)[i].object = r.object \/ \E j \in DOMAIN q : q[j] = Append(q, r)[i]
OBVIOUS

LEMMA TailObjects ==
  ASSUME NEW q \in Seq(Request), q # <<>>
  PROVE  /\ \E j \in DOMAIN q : q[j] = Head(q)
         /\ \A i \in DOMAIN Tail(q) : \E j \in DOMAIN q : q[j] = Tail(q)[i]
OBVIOUS

\* A step of a callback's thread moves that thread only, and the only object
\* it can come to hold is the one in the global.
LEMMA CallbackPointer ==
  ASSUME TypeInv, NEW e \in Obj, CallbackThread(e)
  PROVE  /\ \A o \in Obj \ {e} : thread'[o] = thread[o]
         /\ thread'[e].pointer \in {thread[e].pointer, Unread, myObj}
<1>1. thread \in [Obj -> Activation]
  BY DEF TypeInv, TypeOK
<1>2. \A o \in Obj \ {e} : thread'[o] = thread[o]
  BY <1>1
  DEF CallbackThread, ReadMyObj, MessageFreed, CallbackMessage, Proceed, Return,
      GetXMLFromResponse, ExtractAMItemId, Extract, SetAmItemId, ExtractSigOffset,
      ExtractMatchDuration, ExtractPart, SetSigOffset, ReadCallbackObject,
      ReadCallbackSelector, PerformOnMainThread
<1>3. thread'[e].pointer \in {thread[e].pointer, Unread, myObj}
  <2>1. thread[e] \in Activation
    BY <1>1
  <2>2. \A step : Proceed(e, step) => thread'[e].pointer = Unread
    BY <1>1, <2>1 DEF Proceed, Activation
  <2>3. Return(e) => thread'[e].pointer = Unread
    BY <1>1 DEF Return, Returned
  <2>4. CASE ReadMyObj(e)
    BY <1>1, <2>1, <2>4 DEF ReadMyObj, Activation
  <2>5. CASE MessageFreed(e)
    BY <2>5 DEF MessageFreed
  <2>6. ASSUME NEW step, NEW token, NEW found, Extract(e, step, token, found)
        PROVE  thread'[e].pointer = Unread
    BY <2>2, <2>3, <2>6 DEF Extract
  <2>7. ASSUME NEW step, NEW token, NEW next, ExtractPart(e, step, token, next)
        PROVE  thread'[e].pointer = Unread
    BY <1>1, <2>1, <2>7 DEF ExtractPart, Activation
  <2>8. CASE SetAmItemId(e) \/ SetSigOffset(e) \/ PerformOnMainThread(e)
    BY <2>2, <2>3, <2>8 DEF SetAmItemId, SetSigOffset, PerformOnMainThread
  <2>9. ASSUME NEW step, NEW v, thread' = [thread EXCEPT ![e] =
                  [@ EXCEPT !.at = step, !.pointer = Unread, !.receiver = v]]
        PROVE  thread'[e].pointer = Unread
    BY <1>1, <2>1, <2>9 DEF Activation
  <2>10. CASE ReadCallbackObject(e)
    BY <2>9, <2>10 DEF ReadCallbackObject
  <2>11. ASSUME NEW step, NEW v, thread' = [thread EXCEPT ![e] =
                  [@ EXCEPT !.at = step, !.pointer = Unread, !.selector = v]]
        PROVE  thread'[e].pointer = Unread
    BY <1>1, <2>1, <2>11 DEF Activation
  <2>12. CASE ReadCallbackSelector(e)
    BY <2>11, <2>12 DEF ReadCallbackSelector
  <2> QED
    BY <2>4, <2>5, <2>6, <2>7, <2>8, <2>10, <2>12
    DEF CallbackThread, CallbackMessage, GetXMLFromResponse, ExtractAMItemId,
        ExtractSigOffset, ExtractMatchDuration
<1> QED BY <1>2, <1>3

LEMMA CallbackSession ==
  ASSUME IInv, NEW e \in Obj, CallbackThread(e), UNCHANGED <<main, amObject, viewVars, fed>>
  PROVE  SessionInv'
<1> USE DEF IInv, viewVars, wrapperVars
<1>1. UNCHANGED <<main, amObject, viewLoaded, btnCancel, audioLevelTimer, meterTimers,
                  myObj, mediaID, freed, allocated>>
  BY DEF CallbackThread, ReadMyObj, MessageFreed, CallbackMessage, CallbackUnchanged,
         GetXMLFromResponse, ExtractAMItemId, Extract, SetAmItemId, ExtractSigOffset,
         ExtractMatchDuration, ExtractPart, SetSigOffset, ReadCallbackObject,
         ReadCallbackSelector, PerformOnMainThread
<1>2. IdentifyHasObject' /\ OneSession' /\ CancelHasSession' /\ HandlerInView' /\ MeteringFollowsSession'
  BY <1>1 DEF SessionInv, IdentifyHasObject, OneSession, CancelHasSession, HandlerInView,
              MeteringFollowsSession
<1>3. \A i \in DOMAIN mainQueue' :
        /\ mainQueue'[i].object \in 1..allocated \union {None}
        /\ mainQueue'[i].object \notin freed
  <2>1. CASE PerformOnMainThread(e) /\ thread[e].receiver
    <3> PICK p \in Obj \union {None} :
          /\ Sending(e, "perform", p)
          /\ mainQueue' = Append(mainQueue, [selector |-> thread[e].selector, object |-> p])
      BY <2>1 DEF PerformOnMainThread
    <3> DEFINE r == [selector |-> thread[e].selector, object |-> p]
    <3>1. r \in Request
      BY DEF TypeInv, TypeOK, Activation, Request
    <3>2. r.object = p /\ p \notin freed /\ p \in 1..allocated \union {None}
      BY NilIsNoObject DEF Sending, SessionInv, Numbered
    <3>3. mainQueue \in Seq(Request)
      BY DEF TypeInv, TypeOK
    <3> HIDE DEF r
    <3>4. \A i \in DOMAIN mainQueue' :
            mainQueue'[i].object = p \/ \E j \in DOMAIN mainQueue : mainQueue[j] = mainQueue'[i]
      BY <3>1, <3>2, <3>3, AppendObjects DEF r
    <3> QED BY <3>2, <3>4 DEF SessionInv, Numbered, NoneFreedInUse
  <2>2. CASE mainQueue' = mainQueue
    BY <2>2 DEF SessionInv, Numbered, NoneFreedInUse
  <2> QED
    BY <2>1, <2>2
    DEF CallbackThread, ReadMyObj, MessageFreed, CallbackMessage, CallbackUnchanged,
        GetXMLFromResponse, ExtractAMItemId, Extract, SetAmItemId, ExtractSigOffset,
        ExtractMatchDuration, ExtractPart, SetSigOffset, ReadCallbackObject,
        ReadCallbackSelector, PerformOnMainThread
<1>4. \A o \in Obj : thread'[o].pointer \in 1..allocated \union {None, Unread}
  BY CallbackPointer DEF SessionInv, Numbered, OneSession
<1> QED
  BY <1>1, <1>2, <1>3, <1>4 DEF SessionInv, Numbered, NoneFreedInUse

LEMMA EngineSession ==
  ASSUME IInv, NEW e \in Obj, EngineHit(e), UNCHANGED <<main, amObject, viewVars, fed>>
  PROVE  SessionInv'
<1>1. UNCHANGED <<main, amObject, viewLoaded, btnCancel, audioLevelTimer, meterTimers,
                  myObj, mediaID, freed, allocated, mainQueue>>
  BY DEF EngineHit, viewVars
<1>2. \A o \in Obj : thread'[o].pointer \in {thread[o].pointer, Unread}
  BY DEF EngineHit, IInv, TypeInv, TypeOK, Returned
<1> QED
  BY <1>1, <1>2
  DEF IInv, SessionInv, IdentifyHasObject, OneSession, CancelHasSession, HandlerInView, Numbered,
      NoneFreedInUse, MeteringFollowsSession

(***************************************************************************)
(* One step of the main thread at a time.                                  *)
(***************************************************************************)
LEMMA ViewDidLoadSession ==
  ASSUME IInv, ViewDidLoad
  PROVE  SessionInv'
BY DEF ViewDidLoad, ResetUI, IInv, SessionInv, IdentifyHasObject, OneSession, CancelHasSession,
       HandlerInView, Numbered, NoneFreedInUse, MeteringFollowsSession, syncVars

\* Record is on screen, so there is no object and the new one is registered.
LEMMA IdentifySession ==
  ASSUME IInv, Identify
  PROVE  SessionInv'
<1>1. amObject = None /\ myObj = None /\ main = "loop" /\ viewLoaded
  BY DEF Identify, Touch, IInv, SessionInv, CancelHasSession
<1>2. /\ amObject' = allocated + 1 /\ myObj' = allocated + 1 /\ allocated' = allocated + 1
      /\ freed' = freed /\ main' = "create" /\ mediaID' = mediaID /\ mainQueue' = mainQueue
      /\ thread' = thread /\ viewLoaded' = viewLoaded
  BY <1>1 DEF Identify, engineVars, viewVars
<1>3. allocated \in Nat /\ allocated + 1 \in Obj /\ allocated + 1 # None
  BY NilIsNoObject, BoundsAreNaturals DEF Identify, IInv, TypeInv, TypeOK, Obj
<1>4. Numbered'
  BY <1>2, <1>3 DEF IInv, SessionInv, Numbered
<1>5. NoneFreedInUse'
  BY <1>2, <1>3 DEF IInv, SessionInv, Numbered, NoneFreedInUse
<1>6. OneSession'
  BY <1>1, <1>2, NilIsNoObject DEF IInv, SessionInv, OneSession
<1> QED
  BY <1>1, <1>2, <1>3, <1>4, <1>5, <1>6
  DEF SessionInv, IdentifyHasObject, CancelHasSession, HandlerInView, MeteringFollowsSession

LEMMA CreateMediaIDSession ==
  ASSUME IInv, CreateMediaID
  PROVE  SessionInv'
<1>1. main' \in {"database", "start"} /\ viewLoaded /\ amObject # None
  BY DEF CreateMediaID, IInv, SessionInv, IdentifyHasObject, HandlerInView
<1>2. OneSession'
  BY DEF CreateMediaID, IInv, SessionInv, OneSession, TypeInv, TypeOK
<1> QED
  BY <1>1, <1>2
  DEF CreateMediaID, IInv, SessionInv, IdentifyHasObject, CancelHasSession, HandlerInView,
      Numbered, NoneFreedInUse, MeteringFollowsSession, viewVars

LEMMA SetLocalDatabaseSession ==
  ASSUME IInv, SetLocalDatabase
  PROVE  SessionInv'
BY DEF SetLocalDatabase, IInv, SessionInv, IdentifyHasObject, OneSession, CancelHasSession,
       HandlerInView, Numbered, NoneFreedInUse, MeteringFollowsSession, viewVars

LEMMA StartListeningSession ==
  ASSUME IInv, StartListening
  PROVE  SessionInv'
<1>1. main = "start" /\ main' = "loop" /\ viewLoaded /\ viewLoaded' /\ btnCancel' = TRUE /\ amObject # None
  BY DEF StartListening, IInv, SessionInv, IdentifyHasObject, HandlerInView
<1>2. OneSession'
  BY DEF StartListening, IInv, SessionInv, OneSession, TypeInv, TypeOK
<1>3. audioLevelTimer' = TRUE /\ meterTimers' > 0
  BY DEF StartListening, StartMetering, IInv, TypeInv, TypeOK, TimerBehindHandle
<1> QED
  BY <1>1, <1>2, <1>3
  DEF StartListening, IInv, SessionInv, IdentifyHasObject, CancelHasSession, HandlerInView,
      Numbered, NoneFreedInUse, MeteringFollowsSession

LEMMA StopListeningSession ==
  ASSUME IInv, StopListening, viewLoaded, main' \in {"cancel", "unload"}
  PROVE  SessionInv'
<1>1. OneSession'
  BY DEF StopListening, IInv, SessionInv, OneSession, TypeInv, TypeOK
<1> QED
  BY <1>1
  DEF StopListening, IInv, SessionInv, IdentifyHasObject, CancelHasSession, HandlerInView,
      Numbered, NoneFreedInUse, MeteringFollowsSession, viewVars

\* The one engine that can be open is destroyed, and the object is freed only
\* if no request refers to it.
LEMMA MfcbrTerminateSession ==
  ASSUME IInv, MfcbrTerminate
  PROVE  SessionInv'
<1>1. amObject' = None /\ myObj' = None /\ main' = "loop" /\ mainQueue' = mainQueue
  BY DEF MfcbrTerminate, ReleaseAMObject, IInv, SessionInv, OneSession
<1>2. OneSession'
  BY <1>1 DEF MfcbrTerminate, DestroyMediaID, IInv, SessionInv, OneSession, TypeInv, TypeOK
<1>3. \/ freed' = freed
      \/ amObject # None /\ freed' = freed \union {amObject} /\ ~Queued(amObject, mainQueue)
  BY DEF MfcbrTerminate, ReleaseAMObject
<1>4. None \notin freed'
  BY <1>3, NilIsNoObject DEF IInv, TypeInv, TypeOK
<1>5. NoneFreedInUse'
  BY <1>1, <1>3, <1>4 DEF Queued, IInv, SessionInv, NoneFreedInUse
<1>6. Numbered'
  BY <1>1, <1>3 DEF MfcbrTerminate, IInv, SessionInv, Numbered
<1>7. IF main = "cancel" THEN viewLoaded' /\ btnCancel' = FALSE /\ audioLevelTimer' = FALSE
                         ELSE viewLoaded' = FALSE
  BY DEF MfcbrTerminate, DestroyMediaID, ResetUI, IInv, SessionInv, HandlerInView
<1> QED
  BY <1>1, <1>2, <1>5, <1>6, <1>7
  DEF SessionInv, IdentifyHasObject, CancelHasSession, HandlerInView, MeteringFollowsSession

\* Releasing a request's object frees it only if nothing else refers to it.
LEMMA IdMadeSession ==
  ASSUME IInv, IdMade
  PROVE  SessionInv'
<1> DEFINE obj == Head(mainQueue).object
           rest == Tail(mainQueue)
<1>1. CASE UNCHANGED <<mainQueue, freed, myObj>>
  BY <1>1 DEF IdMade, IInv, SessionInv, IdentifyHasObject, OneSession, CancelHasSession,
      HandlerInView, Numbered, NoneFreedInUse, MeteringFollowsSession, engineVars, viewVars
<1>2. CASE mainQueue' = rest
  <2>1. mainQueue \in Seq(Request) /\ mainQueue # <<>>
    BY DEF IdMade, IInv, TypeInv, TypeOK
  <2>2. \A i \in DOMAIN rest : \E j \in DOMAIN mainQueue : mainQueue[j] = rest[i]
    BY <2>1, TailObjects
  <2>3. \/ freed' = freed /\ myObj' = myObj
        \/ /\ freed' = freed \union {obj} /\ myObj' = None
           /\ obj \notin {amObject, myObj} /\ ~Queued(obj, rest)
    BY <2>1, <1>2 DEF IdMade
  <2>4. obj # None => obj \in 1..allocated
    BY <2>1, TailObjects DEF IInv, SessionInv, Numbered
  <2>5. freed' # freed => obj # None
    BY <2>1, <1>2 DEF IdMade
  <2>6. None \notin freed'
    BY <2>3, <2>5, NilIsNoObject DEF IInv, TypeInv, TypeOK
  <2>7. UNCHANGED <<main, amObject, mediaID, allocated, thread, viewVars>>
    BY DEF IdMade, engineVars
  <2>8. NoneFreedInUse'
    BY <1>2, <2>2, <2>3, <2>6, <2>7 DEF Queued, IInv, SessionInv, NoneFreedInUse
  <2>9. Numbered'
    BY <1>2, <2>2, <2>3, <2>4, <2>5, <2>7 DEF IInv, SessionInv, Numbered
  <2> QED
    BY <2>3, <2>7, <2>8, <2>9
    DEF IInv, SessionInv, IdentifyHasObject, OneSession, CancelHasSession, HandlerInView,
        MeteringFollowsSession, viewVars
<1> QED BY <1>1, <1>2 DEF IdMade

(***************************************************************************)
(* The theorems.                                                           *)
(***************************************************************************)
LEMMA InitInv == Init => IInv
<1> SUFFICES ASSUME Init PROVE IInv
  OBVIOUS
<1> USE BoundsAreNaturals, NilIsNoObject DEF Init, SyncInit
<1>1. TypeInv
  <2>1. mainQueue \in Seq(Request)
    OBVIOUS
  <2>2. /\ thread \in [Obj -> Activation]
        /\ mediaID \in [Obj -> EngineState]
        /\ hits \in [Obj -> 0..MaxHits]
    BY ReturnedType DEF EngineState
  <2>3. /\ amItemId \in [Obj -> Match \union {None}]
        /\ sigOffsetSeconds \in [Obj -> Offset \union {None}]
        /\ myObj \in Obj \union {None} /\ amObject \in Obj \union {None}
    OBVIOUS
  <2>4. main \in MainStep /\ meterTimers \in Nat /\ allocated \in 0..MaxObjects
    BY DEF MainStep
  <2>5. MatchCounted
    BY DEF MatchCounted, Returned
  <2>6. TimerBehindHandle
    BY DEF TimerBehindHandle
  <2> QED
    BY <2>1, <2>2, <2>3, <2>4, <2>5, <2>6 DEF TypeInv, TypeOK
<1>2. SessionInv
  BY DEF SessionInv, IdentifyHasObject, OneSession, CancelHasSession, HandlerInView, Numbered,
         NoneFreedInUse, MeteringFollowsSession, Returned
<1> QED BY <1>1, <1>2 DEF IInv

LEMMA StepInv == IInv /\ [Next]_vars => IInv'
<1> SUFFICES ASSUME IInv, [Next]_vars PROVE IInv'
  OBVIOUS
<1>1. CASE MainThread \/ User
  <2>1. TypeInv'
    BY <1>1, MainType DEF IInv, SessionInv
  <2>2. SessionInv'
    BY <1>1, ViewDidLoadSession, IdentifySession, CreateMediaIDSession, SetLocalDatabaseSession,
       StartListeningSession, StopListeningSession, MfcbrTerminateSession, IdMadeSession
    DEF MainThread, User, CancelButton, ViewDidUnload, Touch
  <2> QED BY <2>1, <2>2 DEF IInv
<1>2. CASE Engines
  BY <1>2, EngineType, EngineSession DEF Engines, IInv
<1>3. CASE Callbacks
  BY <1>3, CallbackType, CallbackSession DEF Callbacks, IInv
<1>4. CASE UNCHANGED vars
  BY <1>4
  DEF vars, syncVars, viewVars, IInv, TypeInv, TypeOK, MatchCounted, TimerBehindHandle, SessionInv,
      IdentifyHasObject, OneSession, CancelHasSession, HandlerInView, Numbered, NoneFreedInUse,
      MeteringFollowsSession
<1> QED BY <1>1, <1>2, <1>3, <1>4 DEF Next

THEOREM InvariantHolds == Spec => []IInv
BY InitInv, StepInv, PTL DEF Spec

\* Every variable keeps its type: in particular the count of metering timers
\* never goes below zero.
THEOREM TypeCorrect == Spec => []TypeOK
BY InvariantHolds, PTL DEF IInv, TypeInv

\* The global myObj is nil or the object of the session on screen, and only
\* that object has an engine that is open.
THEOREM OneSessionHolds == Spec => []OneSession
BY InvariantHolds, PTL DEF IInv, SessionInv

\* Cancel is on screen exactly during a session, and Record never finds an
\* object left in myObj.
THEOREM CancelHasSessionHolds == Spec => []CancelHasSession
BY InvariantHolds, PTL DEF IInv, SessionInv

\* The main thread never uses an object that has been deallocated.
THEOREM NoneFreedInUseHolds == Spec => []NoneFreedInUse
BY InvariantHolds, PTL DEF IInv, SessionInv

\* The view's metering handle is set exactly during a session, and always has
\* a timer behind it.
THEOREM MeteringFollowsSessionHolds == Spec => []MeteringFollowsSession
BY InvariantHolds, PTL DEF IInv, SessionInv

(***************************************************************************)
(* Sessions kept apart by the engine.                                      *)
(***************************************************************************)

\* A callback in progress is the one of the session on screen, and finds
\* either that session's object in the global or none.
OwnCallback ==
  \A e \in Obj : /\ thread[e].at # "idle" => e = amObject
                 /\ thread[e].pointer \in {Unread, None, e}

JoinedInv == IInv /\ OwnCallback /\ OwnMatches

\* Only an activation that has begun goes on.
LEMMA CallbackActive ==
  ASSUME NEW e \in Obj, CallbackThread(e)
  PROVE  thread[e].at # "idle" \/ (MessageFreed(e) /\ UNCHANGED <<thread, mainQueue>>)
BY DEF CallbackThread, ReadMyObj, MessageFreed, CallbackMessage, GetXMLFromResponse,
       ExtractAMItemId, Extract, SetAmItemId, ExtractSigOffset, ExtractMatchDuration,
       ExtractPart, SetSigOffset, ReadCallbackObject, ReadCallbackSelector,
       PerformOnMainThread, Sending

LEMMA CallbackJoined ==
  ASSUME JoinedInv, NEW e \in Obj, CallbackThread(e), UNCHANGED <<main, amObject, viewVars, fed>>
  PROVE  OwnCallback' /\ OwnMatches'
<1> USE DEF JoinedInv, IInv
<1>1. OwnCallback'
  <2>1. \A o \in Obj \ {e} : thread'[o] = thread[o]
    BY CallbackPointer
  <2>2. thread'[e].at # "idle" => e = amObject
    BY CallbackActive DEF OwnCallback, MessageFreed
  <2>3. CASE thread[e].at # "idle"
    BY <2>1, <2>2, <2>3, CallbackPointer DEF OwnCallback, SessionInv, OneSession
  <2>4. CASE thread' = thread
    BY <2>4 DEF OwnCallback
  <2> QED
    BY <2>3, <2>4, CallbackActive
<1>2. CASE SetAmItemId(e)
  <2>1. PICK p \in Obj \union {None} :
          /\ p \in {Unread, None, e}
          /\ amItemId' = [o \in Obj |-> IF o = p THEN CurrentMatch(e) ELSE amItemId[o]]
          /\ sigOffsetSeconds' = sigOffsetSeconds
    BY <1>2 DEF SetAmItemId, Sending, OwnCallback
  <2>2. p \in Obj => p = e
    BY <2>1, NilIsNoObject
  <2> QED
    BY <1>1, <2>1, <2>2 DEF OwnMatches, CurrentMatch
<1>3. CASE SetSigOffset(e)
  <2>1. PICK p \in Obj \union {None} :
          /\ p \in {Unread, None, e}
          /\ sigOffsetSeconds' = [o \in Obj |-> IF o = p THEN [match |-> CurrentMatch(e), parts |-> thread[e].parts]
                                                         ELSE sigOffsetSeconds[o]]
          /\ amItemId' = amItemId
    BY <1>3 DEF SetSigOffset, Sending, OwnCallback
  <2>2. p \in Obj => p = e
    BY <2>1, NilIsNoObject
  <2> QED
    BY <1>1, <2>1, <2>2 DEF OwnMatches, CurrentMatch
<1>4. CASE UNCHANGED <<amItemId, sigOffsetSeconds>>
  BY <1>1, <1>4 DEF OwnMatches
<1> QED
  BY <1>2, <1>3, <1>4
  DEF CallbackThread, ReadMyObj, MessageFreed, CallbackMessage, wrapperVars,
      GetXMLFromResponse, ExtractAMItemId, Extract, ExtractSigOffset, ExtractMatchDuration,
      ExtractPart, ReadCallbackObject, ReadCallbackSelector, PerformOnMainThread

\* An engine that listens is the one of the session on screen.
LEMMA EngineJoined ==
  ASSUME JoinedInv, NEW e \in Obj, EngineHit(e), UNCHANGED <<main, amObject, viewVars, fed>>
  PROVE  OwnCallback' /\ OwnMatches'
<1>1. e = amObject
  BY DEF EngineHit, JoinedInv, IInv, SessionInv, OneSession
<1>2. \A o \in Obj \ {e} : thread'[o] = thread[o]
  BY DEF EngineHit, JoinedInv, IInv, TypeInv, TypeOK
<1>3. thread'[e].pointer = Unread
  BY DEF EngineHit, JoinedInv, IInv, TypeInv, TypeOK, Returned
<1> QED
  BY <1>1, <1>2, <1>3 DEF EngineHit, JoinedInv, OwnCallback, OwnMatches, wrapperVars

\* The view's object changes when there is no session, or when the callback
\* of the session has been waited for.
LEMMA MainJoined ==
  ASSUME StopWaitsForCallback, JoinedInv, MainThread \/ User
  PROVE  OwnCallback' /\ OwnMatches'
<1>1. UNCHANGED <<thread, amItemId, sigOffsetSeconds>>
  BY DEF MainThread, User, ViewDidLoad, Identify, CreateMediaID, SetLocalDatabase, StartListening,
         CancelButton, ViewDidUnload, StopListening, MfcbrTerminate, IdMade, syncVars, wrapperVars
<1>2. CASE Identify
  <2>1. amObject = None
    BY <1>2 DEF Identify, Touch, JoinedInv, IInv, SessionInv, CancelHasSession
  <2>2. \A e \in Obj : thread[e].at = "idle"
    BY <2>1, NilIsNoObject DEF JoinedInv, OwnCallback
  <2> QED
    BY <1>1, <2>2 DEF JoinedInv, OwnCallback, OwnMatches
<1>3. CASE MfcbrTerminate
  <2>1. \A e \in Obj : thread[e].at = "idle"
    BY <1>3, NilIsNoObject DEF MfcbrTerminate, DestroyMediaID, CallbackSettled, JoinedInv, OwnCallback
  <2> QED
    BY <1>1, <2>1 DEF JoinedInv, OwnCallback, OwnMatches
<1>4. CASE amObject' = amObject
  BY <1>1, <1>4 DEF JoinedInv, OwnCallback, OwnMatches
<1> QED
  BY <1>2, <1>3, <1>4
  DEF MainThread, User, ViewDidLoad, CreateMediaID, SetLocalDatabase, StartListening,
      CancelButton, ViewDidUnload, StopListening, IdMade

LEMMA JoinedStep == ASSUME StopWaitsForCallback PROVE JoinedInv /\ [Next]_vars => JoinedInv'
<1> SUFFICES ASSUME JoinedInv, [Next]_vars PROVE OwnCallback' /\ OwnMatches'
  BY StepInv DEF JoinedInv
<1>1. CASE MainThread \/ User
  BY <1>1, MainJoined
<1>2. CASE Engines
  BY <1>2, EngineJoined DEF Engines
<1>3. CASE Callbacks
  BY <1>3, CallbackJoined DEF Callbacks
<1>4. CASE UNCHANGED vars
  BY <1>4 DEF vars, syncVars, JoinedInv, OwnCallback, OwnMatches
<1> QED
  BY <1>1, <1>2, <1>3, <1>4 DEF Next

LEMMA JoinedInit == Init => JoinedInv
BY InitInv DEF JoinedInv, OwnCallback, OwnMatches, Init, SyncInit, Returned

\* The match and the offset an object holds come from its own engine, for any
\* number of sessions.
THEOREM OwnMatchesHolds == ASSUME StopWaitsForCallback PROVE Spec => []OwnMatches
<1>1. JoinedInv /\ [Next]_vars => JoinedInv'
  BY JoinedStep
<1>2. JoinedInv => OwnMatches
  BY DEF JoinedInv
<1> QED
  BY JoinedInit, <1>1, <1>2, PTL DEF Spec

\* Without a session on screen no callback is in progress, so none is left to
\* queue a request.
LEMMA QuietStep ==
  ASSUME JoinedInv, [Next]_vars, amObject = None
  PROVE  Len(mainQueue') <= Len(mainQueue)
<1>1. mainQueue \in Seq(Request)
  BY DEF JoinedInv, IInv, TypeInv, TypeOK
<1>2. CASE mainQueue' = mainQueue
  BY <1>1, <1>2
<1>3. CASE IdMade
  BY <1>1, <1>3 DEF IdMade
<1>4. CASE Callbacks
  <2>1. \A e \in Obj : thread[e].at = "idle"
    BY NilIsNoObject DEF JoinedInv, OwnCallback
  <2>2. mainQueue' = mainQueue
    BY <1>4, <2>1, CallbackActive DEF Callbacks
  <2> QED
    BY <1>2, <2>2
<1> QED
  BY <1>2, <1>3, <1>4
  DEF Next, MainThread, User, Engines, EngineHit, ViewDidLoad, Identify, CreateMediaID,
      SetLocalDatabase, StartListening, CancelButton, ViewDidUnload, StopListening,
      MfcbrTerminate, vars, syncVars

\* Once a session is disposed of, nothing more is queued for the screen.
THEOREM QuietAfterDisposeHolds == ASSUME StopWaitsForCallback PROVE Spec => QuietAfterDispose
<1>1. JoinedInv /\ [Next]_vars => JoinedInv'
  BY JoinedStep
<1>2. JoinedInv /\ [Next]_vars => [amObject = None => Len(mainQueue') <= Len(mainQueue)]_vars
  BY QuietStep
<1> QED
  BY JoinedInit, <1>1, <1>2, PTL DEF Spec, QuietAfterDispose

(***************************************************************************)
(* Sessions whose requests are performed before the next touch: with an    *)
(* engine whose stop waits for the callback in progress, the nine reads of *)
(* myObj all find the session's object, which is what the callback was     *)
(* written for.                                                            *)
(***************************************************************************)

\* An engine is given its database together with its object's callback.
Registered == \A o \in armed : callback[o]

\* During a session the global holds the session's object.
SessionRegistered == amObject # None => myObj = amObject

\* A request can be performed, and is the current session's if there is one.
OwnRequests ==
  \A i \in DOMAIN mainQueue :
    /\ mainQueue[i].selector
    /\ mainQueue[i].object # None
    /\ amObject # None => mainQueue[i].object = amObject

Parts == {"SigOffset", "MatchDuration"}

\* What an activation of the callback has found, by the message it is at.
Progress(e, a) ==
  /\ a.pointer # Unread => a.at # "idle" /\ a.pointer = e
  /\ a.at # "idle" => e \in armed
  /\ a.at \in {"getXML", "extractItem", "setAmItemId", "extractOffset"} => a.parts = {}
  /\ a.at = "extractDuration" => a.parts = a.response \intersect {"SigOffset"}
  /\ a.at = "setSigOffset" => a.parts = a.response \intersect Parts
  /\ a.at \in {"callbackSelector", "perform"} => a.receiver
  /\ a.at = "perform" => a.selector

PromptInv ==
  /\ JoinedInv
  /\ Registered
  /\ SessionRegistered
  /\ OwnRequests
  /\ \A e \in Obj : Progress(e, thread[e])
  /\ NoCrash

(***************************************************************************)
(* The callback's messages.                                                *)
(***************************************************************************)

\* A message of the callback goes to the session's object.
LEMMA SendsToOwn ==
  ASSUME PromptInv, NEW e \in Obj, NEW step, NEW p \in Obj \union {None},
         Sending(e, step, p)
  PROVE  p = e /\ callback[e] /\ e = amObject
<1>1. p # Unread /\ thread[e].pointer = p
  BY NilIsNoObject DEF Sending
<1>2. p = e /\ thread[e].at # "idle" /\ e \in armed
  BY <1>1 DEF PromptInv, Progress
<1> QED
  BY <1>2 DEF PromptInv, Registered, JoinedInv, OwnCallback

LEMMA ProceedFields ==
  ASSUME thread \in [Obj -> Activation], NEW e \in Obj, NEW step, Proceed(e, step)
  PROVE  /\ thread'[e].at = step /\ thread'[e].pointer = Unread
         /\ thread'[e].response = thread[e].response /\ thread'[e].parts = thread[e].parts
         /\ thread'[e].receiver = thread[e].receiver /\ thread'[e].selector = thread[e].selector
<1>1. thread[e] \in Activation
  OBVIOUS
<1> QED BY <1>1 DEF Proceed, Activation

LEMMA ExtractPartFields ==
  ASSUME PromptInv, NEW e \in Obj, NEW step, NEW token, NEW next, ExtractPart(e, step, token, next)
  PROVE  /\ thread'[e].at = next /\ thread'[e].pointer = Unread
         /\ thread'[e].response = thread[e].response
         /\ thread'[e].parts = thread[e].parts \union (thread[e].response \intersect {token})
         /\ thread'[e].receiver = thread[e].receiver /\ thread'[e].selector = thread[e].selector
<1>1. thread \in [Obj -> Activation] /\ thread[e] \in Activation
  BY DEF PromptInv, JoinedInv, IInv, TypeInv, TypeOK
<1>2. thread' = [thread EXCEPT ![e] =
                   [@ EXCEPT !.at = next, !.pointer = Unread,
                             !.parts = thread[e].parts \union {t \in thread[e].response : t = token}]]
  <2>1. PICK p \in Obj \union {None} :
          /\ Sending(e, step, p)
          /\ thread' = [thread EXCEPT ![e] =
                   [@ EXCEPT !.at = next, !.pointer = Unread,
                             !.parts = thread[e].parts \union
                                         {t \in thread[e].response : p # None /\ t = token}]]
    BY DEF ExtractPart
  <2>2. p # None
    BY <2>1, SendsToOwn, NilIsNoObject
  <2> QED
    BY <2>1, <2>2
<1>3. {t \in thread[e].response : t = token} = thread[e].response \intersect {token}
  OBVIOUS
<1> QED
  BY <1>1, <1>2, <1>3 DEF Activation

\* A text that is there is found, for the object is there.
LEMMA ExtractFound ==
  ASSUME PromptInv, NEW e \in Obj, NEW step, NEW token, NEW found, Extract(e, step, token, found)
  PROVE  IF token \in thread[e].response THEN Proceed(e, found) ELSE Return(e)
<1>1. PICK p \in Obj \union {None} :
        /\ Sending(e, step, p)
        /\ IF p # None /\ token \in thread[e].response THEN Proceed(e, found) ELSE Return(e)
  BY DEF Extract
<1>2. p # None
  BY <1>1, SendsToOwn, NilIsNoObject
<1> QED
  BY <1>1, <1>2

LEMMA ReturnFields ==
  ASSUME thread \in [Obj -> Activation], NEW e \in Obj, Return(e)
  PROVE  thread'[e].at = "idle" /\ thread'[e].pointer = Unread
BY DEF Return, Returned

\* Each message leaves the activation where the next one expects it, and none
\* of them finds its object freed.
LEMMA CallbackProgress ==
  ASSUME PromptInv, NEW e \in Obj, CallbackThread(e), UNCHANGED <<main, amObject, viewVars, fed>>
  PROVE  Progress(e, thread[e])' /\ crashed' = crashed
<1> DEFINE a == thread[e]
           b == thread'[e]
<1>0. thread \in [Obj -> Activation] /\ a \in Activation /\ Progress(e, a)
  BY DEF PromptInv, JoinedInv, IInv, TypeInv, TypeOK
<1>1. ~MessageFreed(e)
  <2>1. a.pointer \in {Unread, e}
    BY <1>0 DEF Progress
  <2>2. Unread \notin freed
    BY NilIsNoObject DEF PromptInv, JoinedInv, IInv, TypeInv, TypeOK
  <2>3. a.pointer = e => e = amObject
    BY <1>0, NilIsNoObject DEF Progress, PromptInv, JoinedInv, OwnCallback
  <2>4. amObject \notin freed
    BY DEF PromptInv, JoinedInv, IInv, SessionInv, NoneFreedInUse
  <2> QED
    BY <2>1, <2>2, <2>3, <2>4 DEF MessageFreed
<1>2. crashed' = crashed /\ armed' = armed
  BY <1>1 DEF CallbackThread, ReadMyObj, CallbackMessage, CallbackUnchanged, GetXMLFromResponse,
      ExtractAMItemId, Extract, SetAmItemId, ExtractSigOffset, ExtractMatchDuration, ExtractPart,
      SetSigOffset, ReadCallbackObject, ReadCallbackSelector, PerformOnMainThread
<1>3. CASE ReadMyObj(e)
  <2>1. myObj = e
    BY <1>3, NilIsNoObject DEF ReadMyObj, PromptInv, JoinedInv, OwnCallback, SessionRegistered
  <2>2. b.pointer = e /\ b.at = a.at /\ b.parts = a.parts /\ b.response = a.response
        /\ b.receiver = a.receiver /\ b.selector = a.selector /\ a.at # "idle"
    BY <1>0, <1>3, <2>1 DEF ReadMyObj, Activation
  <2> QED
    BY <1>0, <1>2, <2>2 DEF Progress
<1>4. CASE GetXMLFromResponse(e)
  BY <1>0, <1>2, <1>4, ExtractFound, ProceedFields, ReturnFields
  DEF GetXMLFromResponse, Extract, Sending, Progress
<1>5. CASE ExtractAMItemId(e)
  BY <1>0, <1>2, <1>5, ExtractFound, ProceedFields, ReturnFields
  DEF ExtractAMItemId, Extract, Sending, Progress
<1>6. CASE SetAmItemId(e)
  BY <1>0, <1>2, <1>6, ProceedFields DEF SetAmItemId, Sending, Progress
<1>7. CASE ExtractSigOffset(e)
  <2>1. a.at = "extractOffset" /\ b.at = "extractDuration" /\ b.pointer = Unread
        /\ b.parts = a.parts \union (a.response \intersect {"SigOffset"}) /\ b.response = a.response
    <3>1. ExtractPart(e, "extractOffset", "SigOffset", "extractDuration")
      BY <1>7 DEF ExtractSigOffset
    <3>2. a.at = "extractOffset"
      BY <3>1 DEF ExtractPart, Sending
    <3> QED
      BY <3>1, <3>2, ExtractPartFields
  <2> QED
    BY <1>0, <1>2, <2>1 DEF Progress
<1>8. CASE ExtractMatchDuration(e)
  <2>1. a.at = "extractDuration" /\ b.at = "setSigOffset" /\ b.pointer = Unread
        /\ b.parts = a.parts \union (a.response \intersect {"MatchDuration"}) /\ b.response = a.response
    <3>1. ExtractPart(e, "extractDuration", "MatchDuration", "setSigOffset")
      BY <1>8 DEF ExtractMatchDuration
    <3>2. a.at = "extractDuration"
      BY <3>1 DEF ExtractPart, Sending
    <3> QED
      BY <3>1, <3>2, ExtractPartFields
  <2> QED
    BY <1>0, <1>2, <2>1 DEF Progress, Parts
<1>9. CASE SetSigOffset(e)
  BY <1>0, <1>2, <1>9, ProceedFields DEF SetSigOffset, Sending, Progress
<1>10. CASE ReadCallbackObject(e)
  <2>1. PICK p \in Obj \union {None} :
          /\ Sending(e, "callbackObject", p)
          /\ thread' = [thread EXCEPT ![e] = [@ EXCEPT !.at = "callbackSelector", !.pointer = Unread,
                                                       !.receiver = (p # None /\ callback[p])]]
    BY <1>10 DEF ReadCallbackObject
  <2>2. p = e /\ callback[e] /\ e # None
    BY <2>1, SendsToOwn, NilIsNoObject
  <2>3. (p # None /\ callback[p]) = TRUE
    BY <2>2
  <2>4. thread' = [thread EXCEPT ![e] = [@ EXCEPT !.at = "callbackSelector", !.pointer = Unread,
                                                  !.receiver = TRUE]]
    BY <2>1, <2>3
  <2>5. b.at = "callbackSelector" /\ b.pointer = Unread /\ b.receiver = TRUE
    BY <1>0, <2>4 DEF Activation
  <2> QED
    BY <1>0, <1>2, <2>1, <2>5 DEF Progress, Sending
<1>11. CASE ReadCallbackSelector(e)
  <2>1. PICK p \in Obj \union {None} :
          /\ Sending(e, "callbackSelector", p)
          /\ thread' = [thread EXCEPT ![e] = [@ EXCEPT !.at = "perform", !.pointer = Unread,
                                                       !.selector = (p # None /\ callback[p])]]
    BY <1>11 DEF ReadCallbackSelector
  <2>2. p = e /\ callback[e] /\ e # None
    BY <2>1, SendsToOwn, NilIsNoObject
  <2>3. (p # None /\ callback[p]) = TRUE
    BY <2>2
  <2>4. thread' = [thread EXCEPT ![e] = [@ EXCEPT !.at = "perform", !.pointer = Unread,
                                                  !.selector = TRUE]]
    BY <2>1, <2>3
  <2>5. b.at = "perform" /\ b.pointer = Unread /\ b.receiver = a.receiver /\ b.selector = TRUE
    BY <1>0, <2>4 DEF Activation
  <2> QED
    BY <1>0, <1>2, <2>1, <2>5 DEF Progress, Sending
<1>12. CASE PerformOnMainThread(e)
  BY <1>0, <1>2, <1>12, ReturnFields DEF PerformOnMainThread, Progress
<1> QED
  BY <1>1, <1>2, <1>3, <1>4, <1>5, <1>6, <1>7, <1>8, <1>9, <1>10, <1>11, <1>12
  DEF CallbackThread, CallbackMessage

\* A request that is queued can be performed.
LEMMA CallbackRequests ==
  ASSUME PromptInv, NEW e \in Obj, CallbackThread(e), UNCHANGED <<main, amObject, viewVars, fed>>
  PROVE  OwnRequests'
<1>0. mainQueue \in Seq(Request)
  BY DEF PromptInv, JoinedInv, IInv, TypeInv, TypeOK
<1>1. CASE PerformOnMainThread(e)
  <2>1. PICK p \in Obj \union {None} :
          /\ Sending(e, "perform", p)
          /\ mainQueue' = IF thread[e].receiver
                            THEN Append(mainQueue, [selector |-> thread[e].selector, object |-> p])
                            ELSE mainQueue
    BY <1>1 DEF PerformOnMainThread
  <2>2. p = e /\ p # None /\ p = amObject
    BY <2>1, SendsToOwn, NilIsNoObject
  <2>3. thread[e].selector
    BY <2>1 DEF Sending, PromptInv, Progress
  <2> DEFINE r == [selector |-> thread[e].selector, object |-> p]
  <2>4. r \in Request /\ r.selector /\ r.object = p
    BY <2>3, <1>0 DEF Request, PromptInv, JoinedInv, IInv, TypeInv, TypeOK, Activation
  <2>5. \A i \in DOMAIN mainQueue' : mainQueue'[i] = r \/ \E j \in DOMAIN mainQueue : mainQueue[j] = mainQueue'[i]
    <3> HIDE DEF r
    <3> QED BY <1>0, <2>1, <2>4 DEF r
  <2> QED
    BY <2>2, <2>4, <2>5 DEF PromptInv, OwnRequests
<1>2. CASE mainQueue' = mainQueue
  BY <1>2 DEF PromptInv, OwnRequests
<1> QED
  BY <1>1, <1>2
  DEF CallbackThread, ReadMyObj, MessageFreed, CallbackMessage, GetXMLFromResponse,
      ExtractAMItemId, Extract, SetAmItemId, ExtractSigOffset, ExtractMatchDuration,
      ExtractPart, SetSigOffset, ReadCallbackObject, ReadCallbackSelector

LEMMA CallbackPrompt ==
  ASSUME PromptInv, NEW e \in Obj, CallbackThread(e), UNCHANGED <<main, amObject, viewVars, fed>>
  PROVE  Registered' /\ SessionRegistered' /\ OwnRequests' /\ (\A o \in Obj : Progress(o, thread[o]))' /\ NoCrash'
<1>1. UNCHANGED <<myObj, armed, callback, amObject>>
  BY DEF CallbackThread, ReadMyObj, MessageFreed, CallbackMessage, CallbackUnchanged, wrapperVars,
         GetXMLFromResponse, ExtractAMItemId, Extract, SetAmItemId, ExtractSigOffset,
         ExtractMatchDuration, ExtractPart, SetSigOffset, ReadCallbackObject,
         ReadCallbackSelector, PerformOnMainThread
<1>2. \A o \in Obj \ {e} : thread'[o] = thread[o]
  BY CallbackPointer DEF PromptInv, JoinedInv, IInv
<1>3. \A o \in Obj : Progress(o, thread[o])'
  BY <1>1, <1>2, CallbackProgress DEF PromptInv, Progress
<1> QED
  BY <1>1, <1>3, CallbackProgress, CallbackRequests
  DEF PromptInv, Registered, SessionRegistered, NoCrash

\* A match is reported by an engine that has its database, hence its callback.
LEMMA EnginePrompt ==
  ASSUME PromptInv, NEW e \in Obj, EngineHit(e), UNCHANGED <<main, amObject, viewVars, fed>>
  PROVE  Registered' /\ SessionRegistered' /\ OwnRequests' /\ (\A o \in Obj : Progress(o, thread[o]))' /\ NoCrash'
<1>1. \A o \in Obj \ {e} : thread'[o] = thread[o]
  BY DEF EngineHit, PromptInv, JoinedInv, IInv, TypeInv, TypeOK
<1>2. thread'[e].at = "getXML" /\ thread'[e].pointer = Unread /\ thread'[e].parts = {}
  BY DEF EngineHit, PromptInv, JoinedInv, IInv, TypeInv, TypeOK, Returned
<1>3. UNCHANGED <<myObj, armed, callback, amObject, mainQueue, crashed>> /\ e \in armed
  BY DEF EngineHit, wrapperVars
<1>4. \A o \in Obj : Progress(o, thread[o])'
  BY <1>1, <1>2, <1>3 DEF PromptInv, Progress
<1> QED
  BY <1>3, <1>4 DEF PromptInv, Registered, SessionRegistered, OwnRequests, NoCrash

\* The main thread ends a session with no callback in progress and begins the
\* next with nothing queued; performing a request never frees the object of
\* the session on screen.
LEMMA MainPrompt ==
  ASSUME PerformsBeforeTouches, PromptInv, MainThread \/ User
  PROVE  Registered' /\ SessionRegistered' /\ OwnRequests' /\ (\A o \in Obj : Progress(o, thread[o]))' /\ NoCrash'
<1> USE DEF PromptInv
<1>1. UNCHANGED thread /\ armed \subseteq armed' /\ Registered'
  <2>1. CASE SetLocalDatabase
    <3>1. callback \in [Obj -> BOOLEAN] /\ armed \subseteq Obj
      BY DEF JoinedInv, IInv, TypeInv, TypeOK
    <3>2. UNCHANGED thread /\ armed' \in {armed, armed \union {amObject}}
      BY <2>1 DEF SetLocalDatabase
    <3>3. armed \subseteq armed' /\ armed' \subseteq armed \union {amObject}
      BY <3>2
    <3>4. callback' = [callback EXCEPT ![amObject] = TRUE]
      BY <2>1 DEF SetLocalDatabase, RegisterCallback
    <3>5. \A o \in armed : o \in Obj /\ callback[o]
      BY <3>1 DEF Registered
    <3>6. amObject \in Obj
      BY <2>1 DEF SetLocalDatabase, JoinedInv, IInv, TypeInv, TypeOK, SessionInv, IdentifyHasObject
    <3>7. \A o \in armed \union {amObject} : callback'[o] = TRUE
      BY <3>1, <3>4, <3>5, <3>6
    <3>8. Registered'
      BY <3>3, <3>7 DEF Registered
    <3> QED
      BY <3>2, <3>3, <3>8
  <2>2. CASE UNCHANGED <<thread, armed, callback>>
    BY <2>2 DEF Registered
  <2> QED
    BY <2>1, <2>2 DEF MainThread, User, ViewDidLoad, Identify, CreateMediaID, StartListening,
         CancelButton, ViewDidUnload, StopListening, MfcbrTerminate, IdMade, syncVars, wrapperVars,
         engineVars
<1>2. (\A o \in Obj : Progress(o, thread[o]))'
  BY <1>1 DEF Progress
<1>3. CASE Identify
  <2>1. amObject = None /\ myObj = None /\ mainQueue = <<>>
    BY <1>3 DEF Identify, Touch, JoinedInv, IInv, SessionInv, CancelHasSession
  <2>2. myObj' = amObject' /\ mainQueue' = <<>> /\ crashed' = crashed
    BY <1>3, <2>1 DEF Identify
  <2> QED
    BY <1>1, <1>2, <2>2 DEF SessionRegistered, OwnRequests, NoCrash
<1>4. CASE MfcbrTerminate
  BY <1>1, <1>2, <1>4 DEF MfcbrTerminate, ReleaseAMObject, SessionRegistered, OwnRequests, NoCrash
<1>5. CASE IdMade
  <2>1. mainQueue \in Seq(Request) /\ mainQueue # <<>>
    BY <1>5 DEF IdMade, JoinedInv, IInv, TypeInv, TypeOK
  <2>2. Head(mainQueue).selector /\ Head(mainQueue).object # None
        /\ (amObject # None => Head(mainQueue).object = amObject)
    BY <2>1 DEF OwnRequests
  <2>3. mainQueue' = Tail(mainQueue) /\ crashed' = crashed /\ amObject' = amObject
        /\ (amObject # None => myObj' = myObj)
    BY <1>5, <2>2 DEF IdMade
  <2>4. OwnRequests'
    BY <2>1, <2>3, TailObjects DEF OwnRequests
  <2> QED
    BY <1>1, <1>2, <2>3, <2>4 DEF SessionRegistered, NoCrash
<1>6. CASE UNCHANGED <<myObj, amObject, mainQueue, crashed>>
  BY <1>1, <1>2, <1>6 DEF SessionRegistered, OwnRequests, NoCrash
<1> QED
  BY <1>3, <1>4, <1>5, <1>6
  DEF MainThread, User, ViewDidLoad, CreateMediaID, SetLocalDatabase, StartListening,
      CancelButton, ViewDidUnload, StopListening, syncVars

LEMMA PromptStep ==
  ASSUME StopWaitsForCallback, PerformsBeforeTouches
  PROVE  PromptInv /\ [Next]_vars => PromptInv'
<1> SUFFICES ASSUME PromptInv, [Next]_vars
             PROVE  Registered' /\ SessionRegistered' /\ OwnRequests'
                    /\ (\A o \in Obj : Progress(o, thread[o]))' /\ NoCrash'
  BY JoinedStep DEF PromptInv
<1>1. CASE MainThread \/ User
  BY <1>1, MainPrompt
<1>2. CASE Engines
  BY <1>2, EnginePrompt DEF Engines
<1>3. CASE Callbacks
  BY <1>3, CallbackPrompt DEF Callbacks
<1>4. CASE UNCHANGED vars
  BY <1>4 DEF vars, syncVars, wrapperVars, PromptInv, Registered, SessionRegistered, OwnRequests,
              Progress, NoCrash
<1> QED
  BY <1>1, <1>2, <1>3, <1>4 DEF Next

LEMMA PromptInit == Init => PromptInv
BY JoinedInit DEF PromptInv, Registered, SessionRegistered, OwnRequests, Progress, NoCrash, Init,
                  SyncInit, Returned

\* The process is not killed: the callback never uses a freed object, and
\* idMade: always has an object and a selector.
THEOREM NoCrashHolds ==
  ASSUME StopWaitsForCallback, PerformsBeforeTouches PROVE Spec => []NoCrash
<1>1. PromptInv /\ [Next]_vars => PromptInv'
  BY PromptStep
<1>2. PromptInv => NoCrash
  BY DEF PromptInv
<1> QED
  BY PromptInit, <1>1, <1>2, PTL DEF Spec

\* The offset adds up every part of the response, though each part is asked
\* of the object found by a new read of the global.
THEOREM WholeOffsetsHolds ==
  ASSUME StopWaitsForCallback, PerformsBeforeTouches PROVE Spec => []WholeOffsets
<1>1. PromptInv /\ [Next]_vars => PromptInv'
  BY PromptStep
<1>2. PromptInv => WholeOffsets
  BY DEF PromptInv, Progress, Parts, WholeOffsets
<1> QED
  BY PromptInit, <1>1, <1>2, PTL DEF Spec

\* A callback that has been given both texts only comes back by handing over
\* its request: no message on the way finds nil and returns early.
LEMMA ReturnQueues ==
  ASSUME PromptInv, NEW e \in Obj, CallbackThread(e), UNCHANGED <<main, amObject, viewVars, fed>>,
         thread[e].at # "idle", thread'[e].at = "idle",
         "xml" \in thread[e].response, "AMItemId" \in thread[e].response
  PROVE  Len(mainQueue') = Len(mainQueue) + 1
<1>0. /\ thread \in [Obj -> Activation] /\ thread[e] \in Activation
      /\ mainQueue \in Seq(Request) /\ Progress(e, thread[e])
  BY DEF PromptInv, JoinedInv, IInv, TypeInv, TypeOK
<1>1. CASE PerformOnMainThread(e)
  <2>1. thread[e].receiver
    BY <1>0, <1>1 DEF PerformOnMainThread, Sending, Progress
  <2> QED
    BY <1>0, <1>1, <2>1 DEF PerformOnMainThread
<1>2. ASSUME NEW step, NEW token, NEW found, Extract(e, step, token, found),
             token \in thread[e].response, found # "idle"
      PROVE  FALSE
  BY <1>0, <1>2, ExtractFound, ProceedFields
<1>3. CASE GetXMLFromResponse(e) \/ ExtractAMItemId(e)
  BY <1>2, <1>3 DEF GetXMLFromResponse, ExtractAMItemId
<1>4. CASE SetAmItemId(e) \/ SetSigOffset(e)
  BY <1>0, <1>4, ProceedFields DEF SetAmItemId, SetSigOffset
<1>5. CASE ExtractSigOffset(e) \/ ExtractMatchDuration(e)
  BY <1>5, ExtractPartFields DEF ExtractSigOffset, ExtractMatchDuration
<1>6. CASE ReadCallbackObject(e)
  <2>1. PICK v : thread' = [thread EXCEPT ![e] =
                   [@ EXCEPT !.at = "callbackSelector", !.pointer = Unread, !.receiver = v]]
    BY <1>6 DEF ReadCallbackObject
  <2> QED
    BY <1>0, <2>1 DEF Activation
<1>7. CASE ReadCallbackSelector(e)
  <2>1. PICK v : thread' = [thread EXCEPT ![e] =
                   [@ EXCEPT !.at = "perform", !.pointer = Unread, !.selector = v]]
    BY <1>7 DEF ReadCallbackSelector
  <2> QED
    BY <1>0, <2>1 DEF Activation
<1>8. CASE ReadMyObj(e) \/ MessageFreed(e)
  BY <1>0, <1>8 DEF ReadMyObj, MessageFreed, Activation
<1> QED
  BY <1>1, <1>3, <1>4, <1>5, <1>6, <1>7, <1>8 DEF CallbackThread, CallbackMessage

\* Only a callback's own thread takes it back to the engine.
LEMMA CallsBackStep ==
  ASSUME PromptInv, [Next]_vars, NEW e \in Obj,
         thread[e].at # "idle", thread'[e].at = "idle",
         {"xml", "AMItemId"} \subseteq thread[e].response
  PROVE  Len(mainQueue') = Len(mainQueue) + 1
<1>1. CASE MainThread \/ User \/ UNCHANGED vars
  BY <1>1 DEF MainThread, User, ViewDidLoad, Identify, CreateMediaID, SetLocalDatabase,
              StartListening, CancelButton, ViewDidUnload, StopListening, MfcbrTerminate,
              IdMade, vars, syncVars
<1>2. CASE Engines
  <2>1. PICK o \in Obj : EngineHit(o)
    BY <1>2 DEF Engines
  <2>2. thread[o].at = "idle" /\ \E b : thread' = [thread EXCEPT ![o] = b]
    BY <2>1 DEF EngineHit
  <2> QED
    BY <2>2 DEF PromptInv, JoinedInv, IInv, TypeInv, TypeOK
<1>3. CASE Callbacks
  <2>1. PICK o \in Obj : CallbackThread(o) /\ UNCHANGED <<main, amObject, viewVars, fed>>
    BY <1>3 DEF Callbacks
  <2>2. o = e
    BY <2>1, CallbackPointer DEF PromptInv, JoinedInv, IInv
  <2> QED
    BY <2>1, <2>2, ReturnQueues
<1> QED
  BY <1>1, <1>2, <1>3 DEF Next

\* Every identification made while the object listens queues its idMade:.
THEOREM EveryIdentificationCallsBackHolds ==
  ASSUME StopWaitsForCallback, PerformsBeforeTouches PROVE Spec => EveryIdentificationCallsBack
<1> DEFINE CallsBack ==
      \A e \in Obj :
        /\ thread[e].at # "idle" /\ thread'[e].at = "idle"
        /\ {"xml", "AMItemId"} \subseteq thread[e].response
        /\ isMfcbrListening[e]
        => Len(mainQueue') = Len(mainQueue) + 1
<1>1. PromptInv /\ [Next]_vars => PromptInv'
  BY PromptStep
<1>2. PromptInv /\ [Next]_vars => [CallsBack]_vars
  BY CallsBackStep
<1> QED
  BY PromptInit, <1>1, <1>2, PTL DEF Spec, EveryIdentificationCallsBack
=============================================================================
