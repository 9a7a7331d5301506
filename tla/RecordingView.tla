--------------------------- MODULE RecordingView ---------------------------
(***************************************************************************)
(* The recording screen, RecordingView.m, driving one AudibleMagicSmartSync *)
(* object per press of Record: the handlers the main thread runs for the   *)
(* Record and Cancel buttons, for loading and unloading the view, and for  *)
(* the idMade: requests the callback queues.                               *)
(*                                                                         *)
(* Handlers run one at a time on the main thread, but the callback thread  *)
(* of an engine runs beside them, so a handler that calls the engine is    *)
(* split at the points where the callback can see what it has done.  The   *)
(* other two positions of the operation selector (segments 0 and 1 of      *)
(* Identify:) return before any of this state is touched.                  *)
(***************************************************************************)
EXTENDS SmartSync

CONSTANT
  PerformsBeforeTouches  \* are queued selectors performed before the next touch is handled?

ASSUME PerformsIsBoolean == PerformsBeforeTouches \in BOOLEAN

VARIABLES
  main,             \* where the main thread is: "loop" is its run loop
  amObject,         \* the object of the current session, or nil
  viewLoaded,
  btnCancel,        \* Cancel is on screen, and Record is not
  audioLevelTimer,  \* is the metering timer's handle set?
  meterTimers,      \* metering timers scheduled on the run loop
  fed               \* the offsets handed to the real-time feed

viewVars == <<viewLoaded, btnCancel, audioLevelTimer, meterTimers>>
vars == <<syncVars, main, amObject, viewVars, fed>>

MainStep == {"loop", "create", "database", "start", "cancel", "unload"}

TypeOK ==
  /\ myObj \in Obj \union {None}
  /\ allocated \in 0..MaxObjects
  /\ freed \subseteq Obj
  /\ mediaID \in [Obj -> EngineState]
  /\ armed \subseteq Obj
  /\ isMfcbrListening \in [Obj -> BOOLEAN]
  /\ callback \in [Obj -> BOOLEAN]
  /\ amItemId \in [Obj -> Match \union {None}]
  /\ sigOffsetSeconds \in [Obj -> Offset \union {None}]
  /\ thread \in [Obj -> Activation]
  /\ hits \in [Obj -> 0..MaxHits]
  /\ mainQueue \in Seq(Request)
  /\ crashed \in BOOLEAN
  /\ main \in MainStep
  /\ amObject \in Obj \union {None}
  /\ viewLoaded \in BOOLEAN
  /\ btnCancel \in BOOLEAN
  /\ audioLevelTimer \in BOOLEAN
  /\ meterTimers \in Nat
  /\ fed \subseteq Offset \union {None}

Init ==
  /\ SyncInit
  /\ main = "loop"
  /\ amObject = None
  /\ viewLoaded = FALSE
  /\ btnCancel = FALSE
  /\ audioLevelTimer = FALSE
  /\ meterTimers = 0
  /\ fed = {}

(***************************************************************************)
(* Metering and the controls.                                              *)
(***************************************************************************)
StartMetering ==
  /\ audioLevelTimer' = TRUE
  /\ meterTimers' = IF audioLevelTimer THEN meterTimers ELSE meterTimers + 1

\* Mutants of ResetUI: the handle is kept after the timer is invalidated, and
\* the timer is counted out even if there is none.
ResetUIKeepingHandle(handle) ==
  /\ UNCHANGED audioLevelTimer
  /\ meterTimers' = IF handle THEN meterTimers - 1 ELSE meterTimers
  /\ btnCancel' = FALSE

ResetUIUnchecked(handle) ==
  /\ audioLevelTimer' = FALSE
  /\ meterTimers' = meterTimers - 1
  /\ btnCancel' = FALSE

\* ResetUI, with handle as the timer's handle: stopMetering invalidates the
\* timer it has a handle to, Record is shown again and Cancel hidden.
ResetUI(handle) ==
  /\ audioLevelTimer' = FALSE
  /\ meterTimers' = IF handle THEN meterTimers - 1 ELSE meterTimers
  /\ btnCancel' = FALSE

(***************************************************************************)
(* viewDidLoad forgets the metering timer before ResetUI could stop it.    *)
(***************************************************************************)
ViewDidLoad ==
  /\ main = "loop" /\ ~viewLoaded
  /\ viewLoaded' = TRUE
  /\ ResetUI(FALSE)
  /\ UNCHANGED <<syncVars, main, amObject, fed>>

Touch == /\ main = "loop" /\ viewLoaded
         /\ PerformsBeforeTouches => mainQueue = <<>>

(***************************************************************************)
(* Identify: with the selector on real identification.  newAMObject first  *)
(* allocates an object and initializes it, which the object refuses while  *)
(* another one is in myObj.                                                *)
(***************************************************************************)
\* Assigning amObject releases the object it held; deallocating an object
\* clears myObj whichever object that holds.
Identify ==
  LET new == allocated + 1
      dropped == amObject # None /\ myObj # amObject /\ ~Queued(amObject, mainQueue)
      registered == IF dropped THEN None ELSE myObj
  IN /\ Touch /\ ~btnCancel
     /\ allocated < MaxObjects
     /\ allocated' = new
     /\ amObject' = new
     /\ freed' = IF dropped THEN freed \union {amObject} ELSE freed
     /\ IF registered = None
          THEN myObj' = new /\ main' = "create"
          ELSE myObj' = registered /\ main' = "start"
     /\ UNCHANGED <<engineVars, wrapperVars, thread, mainQueue, crashed, viewVars, fed>>

\* Mutant of CreateMediaID: Identify: returns when the initialization fails.
CreateMediaIDReturning ==
  /\ main = "create"
  /\ \E created, registered \in BOOLEAN :
       /\ registered => created
       /\ mediaID' = [mediaID EXCEPT ![amObject] = IF created THEN "created" ELSE "none"]
       /\ main' = IF registered THEN "database" ELSE "loop"
  /\ UNCHANGED <<myObj, allocated, freed, armed, hits, wrapperVars, thread, mainQueue,
                 crashed, amObject, viewVars, fed>>

\* The rest of mfcbrInitialize: create the engine, register the callback.
\* Either call may fail; newAMObject then returns early.
CreateMediaID ==
  /\ main = "create"
  /\ \E created, registered \in BOOLEAN :
       /\ registered => created
       /\ mediaID' = [mediaID EXCEPT ![amObject] = IF created THEN "created" ELSE "none"]
       /\ main' = IF registered THEN "database" ELSE "start"
  /\ UNCHANGED <<myObj, allocated, freed, armed, hits, wrapperVars, thread, mainQueue,
                 crashed, amObject, viewVars, fed>>

\* setLocalDatabase and registerCallback.  The result of the first is ignored.
SetLocalDatabase ==
  /\ main = "database"
  /\ armed' \in {armed, armed \union {amObject}}
  /\ RegisterCallback(amObject)
  /\ main' = "start"
  /\ UNCHANGED <<myObj, allocated, freed, mediaID, hits, isMfcbrListening, amItemId,
                 sigOffsetSeconds, thread, mainQueue, crashed, amObject, viewVars, fed>>

\* The rest of Identify:, which does not look at what newAMObject returned.
StartListening ==
  /\ main = "start"
  /\ \E started \in IF mediaID[amObject] = "created" THEN BOOLEAN ELSE {FALSE} :
       /\ mediaID' = IF started THEN [mediaID EXCEPT ![amObject] = "listening"] ELSE mediaID
       /\ isMfcbrListening' = [isMfcbrListening EXCEPT ![amObject] = started]
  /\ StartMetering
  /\ btnCancel' = TRUE
  /\ main' = "loop"
  /\ UNCHANGED <<myObj, allocated, freed, armed, hits, callback, amItemId, sigOffsetSeconds,
                 thread, mainQueue, crashed, amObject, viewLoaded, fed>>

(***************************************************************************)
(* disposeAMObject, from Cancel and from viewDidUnload.  The object clears *)
(* its flag before it asks the engine to stop, and the answer is ignored.  *)
(* The check of wasIdentified in CancelButton always passes: nothing that  *)
(* can run sets it.                                                        *)
(***************************************************************************)
StopListening ==
  /\ isMfcbrListening' = [o \in Obj |-> IF o = amObject THEN FALSE ELSE isMfcbrListening[o]]
  /\ \E stopped \in BOOLEAN :
       mediaID' = [o \in Obj |-> IF /\ o = amObject /\ isMfcbrListening[o]
                                    /\ mediaID[o] = "listening" /\ stopped
                                   THEN "created" ELSE mediaID[o]]
  /\ UNCHANGED <<myObj, allocated, freed, armed, hits, callback, amItemId, sigOffsetSeconds,
                 thread, mainQueue, crashed, amObject, viewVars, fed>>

CancelButton ==
  /\ Touch /\ btnCancel
  /\ main' = "cancel"
  /\ StopListening

ViewDidUnload ==
  /\ main = "loop" /\ viewLoaded
  /\ main' = "unload"
  /\ StopListening

\* Mutants of ReleaseAMObject: mfcbrTerminate leaves the global alone, and the
\* object is deallocated although a request retains it.
ReleaseKeepingGlobal ==
  /\ amObject' = None
  /\ UNCHANGED <<myObj, freed>>

ReleaseIgnoringQueue ==
  /\ myObj' = IF amObject = None THEN myObj ELSE None
  /\ amObject' = None
  /\ freed' = IF amObject = None THEN freed ELSE freed \union {amObject}

\* The object deallocates itself once the queue does not retain it either.
ReleaseAMObject ==
  /\ myObj' = IF amObject = None THEN myObj ELSE None
  /\ amObject' = None
  /\ freed' = IF amObject = None \/ Queued(amObject, mainQueue) THEN freed
                                                               ELSE freed \union {amObject}

\* Mutant of DestroyMediaID: mfcbrTerminate leaves the engine as it is.
KeepMediaID == UNCHANGED mediaID

\* The engine is stopped and destroyed, if there is one.
DestroyMediaID ==
  /\ amObject # None => CallbackSettled(amObject)
  /\ mediaID' = [o \in Obj |-> IF o = amObject /\ mediaID[o] # "none" THEN "destroyed"
                                                                     ELSE mediaID[o]]

MfcbrTerminate ==
  /\ main \in {"cancel", "unload"}
  /\ DestroyMediaID
  /\ ReleaseAMObject
  /\ main' = "loop"
  /\ IF main = "cancel" THEN ResetUI(audioLevelTimer) /\ UNCHANGED viewLoaded
                        ELSE viewLoaded' = FALSE /\ UNCHANGED <<btnCancel, audioLevelTimer, meterTimers>>
  /\ UNCHANGED <<allocated, armed, hits, wrapperVars, thread, mainQueue, crashed, fed>>

(***************************************************************************)
(* idMade: reads the object it is given when it runs, not when it was      *)
(* queued.  Without an object, or without a selector to perform, the       *)
(* process dies.  Afterwards the request releases the object.              *)
(***************************************************************************)
IdMade ==
  /\ main = "loop" /\ mainQueue # <<>>
  /\ LET request == Head(mainQueue)
         obj == request.object
         last == obj \notin {amObject, myObj} /\ ~Queued(obj, Tail(mainQueue))
     IN IF obj = None \/ ~request.selector
          THEN /\ crashed' = TRUE
               /\ UNCHANGED <<mainQueue, fed, freed, myObj>>
          ELSE /\ mainQueue' = Tail(mainQueue)
               /\ fed' = fed \union {sigOffsetSeconds[obj]}
               /\ freed' = IF last THEN freed \union {obj} ELSE freed
               /\ myObj' = IF last THEN None ELSE myObj
               /\ UNCHANGED crashed
  /\ UNCHANGED <<allocated, engineVars, wrapperVars, thread, main, amObject, viewVars>>

(***************************************************************************)
(* The specification.                                                      *)
(***************************************************************************)
MainThread == CreateMediaID \/ SetLocalDatabase \/ StartListening \/ MfcbrTerminate \/ IdMade
User == ViewDidLoad \/ Identify \/ CancelButton \/ ViewDidUnload
Engines == \E e \in Obj : EngineHit(e) /\ UNCHANGED <<main, amObject, viewVars, fed>>
Callbacks == \E e \in Obj : CallbackThread(e) /\ UNCHANGED <<main, amObject, viewVars, fed>>

Next == ~crashed /\ (MainThread \/ User \/ Engines \/ Callbacks)

\* A handler that has begun runs to its end, every pass of the run loop
\* performs what is queued, and the callback threads keep running.  Nobody
\* has to touch the screen, and no engine has to find a match.
Fairness ==
  /\ WF_vars(~crashed /\ (CreateMediaID \/ SetLocalDatabase \/ StartListening \/ MfcbrTerminate))
  /\ SF_vars(~crashed /\ IdMade)
  /\ \A e \in Obj : WF_vars(~crashed /\ CallbackThread(e) /\ UNCHANGED <<main, amObject, viewVars, fed>>)

Spec == Init /\ [][Next]_vars
FairSpec == Spec /\ Fairness
(***************************************************************************)
(* What holds whatever the engine and the run loop do.                     *)
(***************************************************************************)

\* The global the callbacks use is nil or the object Cancel would dispose of,
\* and no other object has an engine that is still open: disposeAMObject and
\* mfcbrTerminate leave no microphone open behind the screen.
OneSession ==
  /\ myObj \in {None, amObject}
  /\ \A o \in Obj : mediaID[o] \in {"created", "listening"} => o = amObject

\* Between handlers Cancel is on screen exactly while there is an object to
\* dispose of, whatever failed in newAMObject or startListening, and without
\* one myObj is nil, so mfcbrInitialize never finds a left-over object.
CancelHasSession ==
  main = "loop" =>
    /\ viewLoaded => (btnCancel <=> amObject # None)
    /\ ~viewLoaded => amObject = None
    /\ amObject = None => myObj = None

\* No object is deallocated while the view, the global or a request queued for
\* the main thread still refers to it, so idMade: never reads a freed object.
NoneFreedInUse ==
  /\ {amObject, myObj} \intersect freed = {}
  /\ \A i \in DOMAIN mainQueue : mainQueue[i].object \notin freed

\* While the view is loaded its metering handle is set exactly during a
\* session, and then a timer is running: ResetUI always has a timer to stop,
\* and no press of Record leaves the level meter dead.
MeteringFollowsSession ==
  main = "loop" /\ viewLoaded =>
    /\ audioLevelTimer <=> amObject # None
    /\ audioLevelTimer => meterTimers > 0

(***************************************************************************)
(* What holds if stopping the engine waits for its callback.               *)
(***************************************************************************)

\* The match and the offset an object holds come from its own engine, never
\* from the engine of a session that was cancelled before it.
OwnMatches ==
  \A o \in Obj :
    /\ amItemId[o] # None => amItemId[o][1] = o
    /\ sigOffsetSeconds[o] # None => sigOffsetSeconds[o].match[1] = o

\* Once a session is disposed of, its callback queues no further request
\* until Record is pressed again.
QuietAfterDispose == [][amObject = None => Len(mainQueue') <= Len(mainQueue)]_vars

\* The main thread gets out of disposeAMObject: it waits for the callback, and
\* the callback never waits for the main thread.
DisposeReturns == main \in {"cancel", "unload"} ~> main = "loop"

(***************************************************************************)
(* What holds if, moreover, queued requests are performed before the next  *)
(* touch is handled, so that no request outlives its session.              *)
(***************************************************************************)

\* The callback never uses a freed object and idMade: is never performed
\* without an object, although the callback reads myObj nine times.
NoCrash == ~crashed

\* The offset the callback sets adds up every part the response holds: none
\* of it is lost because myObj changed between two of the callback's messages.
WholeOffsets ==
  \A e \in Obj : thread[e].at = "setSigOffset" =>
    thread[e].parts = thread[e].response \intersect {"SigOffset", "MatchDuration"}

\* RecordingView.m:141, "the selector that will be called each time an
\* identification is made": a callback that comes back from a complete
\* response while its object is listening has queued idMade:.
EveryIdentificationCallsBack ==
  [][\A e \in Obj :
       /\ thread[e].at # "idle" /\ thread'[e].at = "idle"
       /\ {"xml", "AMItemId"} \subseteq thread[e].response
       /\ isMfcbrListening[e]
       => Len(mainQueue') = Len(mainQueue) + 1]_vars

\* The offset of a match, or of a later match of the same session, reaches
\* the feed, even if the session is cancelled meanwhile.
EveryMatchFed ==
  \A e \in Obj, n \in 1..MaxHits :
    /\ thread[e].at = "getXML" /\ hits[e] = n
    /\ {"xml", "AMItemId"} \subseteq thread[e].response
    ~> \E k \in n..MaxHits, parts \in SUBSET {"SigOffset", "MatchDuration"} :
         [match |-> <<e, k>>, parts |-> parts] \in fed
=============================================================================
