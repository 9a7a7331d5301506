----------------------------- MODULE SmartSync -----------------------------
(***************************************************************************)
(* The Objective-C wrapper around the audio identification engine,         *)
(* AudibleMagicSmartSync.m, together with the engine (libmfcbroem, a       *)
(* binary whose contract is MF_MediaID_api.h) and the main thread's queue  *)
(* of performSelectorOnMainThread requests.                                *)
(*                                                                         *)
(* Objects of the class are numbered in the order they are allocated.  The *)
(* engine calls mfcbrMediaIDCallback on a thread of its own, one           *)
(* activation at a time per engine.  The callback does not know which      *)
(* object it serves: it reads the global myObj again for every message it  *)
(* sends, so each of its nine messages is two steps here, the read of the  *)
(* global and the message itself.  The main thread's steps are in module   *)
(* RecordingView, which owns the remaining reference to the object.        *)
(***************************************************************************)
EXTENDS Naturals, Sequences

CONSTANTS
  MaxObjects,            \* bound: objects allocated, one for each press of Record
  MaxHits,               \* bound: matches one engine reports
  Responses,             \* the responses the engine may hand to the callback
  StopWaitsForCallback,  \* does MFMediaID_StopListening wait for a callback in progress?
  None,                  \* nil
  Unread                 \* the callback has not read myObj yet

Obj == 1..MaxObjects
Token == {"xml", "AMItemId", "SigOffset", "MatchDuration"}
Match == Obj \X (1..MaxHits)      \* the n-th match reported by the engine of an object

ASSUME BoundsAreNaturals == MaxObjects \in Nat \ {0} /\ MaxHits \in Nat \ {0}
ASSUME ResponsesAreTokens == Responses \subseteq SUBSET Token
ASSUME StopIsBoolean == StopWaitsForCallback \in BOOLEAN
ASSUME NilIsNoObject == None \notin Obj /\ Unread \notin Obj /\ None # Unread /\ None \notin Match

VARIABLES
  myObj,             \* the global the callback finds its object in (a strong reference)
  allocated,         \* how many objects have been allocated
  freed,             \* the objects that have been deallocated
  mediaID,           \* the engine behind each object's handle
  armed,             \* the objects whose engine has a reference database to match against
  isMfcbrListening,
  callback,          \* are callbackObject and callbackSelector set?
  amItemId,
  sigOffsetSeconds,
  thread,            \* the activation of mfcbrMediaIDCallback on each engine's thread
  hits,              \* matches reported so far by each engine
  mainQueue,         \* selectors waiting to be performed on the main thread
  crashed            \* the process has been killed by a memory fault

wrapperVars == <<isMfcbrListening, callback, amItemId, sigOffsetSeconds>>
engineVars == <<mediaID, armed, hits>>
syncVars == <<myObj, allocated, freed, mediaID, armed, isMfcbrListening, callback,
              amItemId, sigOffsetSeconds, thread, hits, mainQueue, crashed>>

EngineState == {"none", "created", "listening", "destroyed"}
CallbackStep == {"idle", "getXML", "extractItem", "setAmItemId", "extractOffset",
                 "extractDuration", "setSigOffset", "callbackObject",
                 "callbackSelector", "perform"}

\* The offset string set by the callback: the match it comes from and the
\* parts of the sum that were there when it was computed.
Offset == [match : Match, parts : SUBSET {"SigOffset", "MatchDuration"}]
Activation == [at : CallbackStep, pointer : Obj \union {None, Unread}, response : SUBSET Token,
               parts : SUBSET {"SigOffset", "MatchDuration"},
               receiver : BOOLEAN, selector : BOOLEAN]
Request == [selector : BOOLEAN, object : Obj \union {None}]

Returned == [at |-> "idle", pointer |-> Unread, response |-> {}, parts |-> {},
             receiver |-> FALSE, selector |-> FALSE]

SyncInit ==
  /\ myObj = None
  /\ allocated = 0
  /\ freed = {}
  /\ mediaID = [o \in Obj |-> "none"]
  /\ armed = {}
  /\ isMfcbrListening = [o \in Obj |-> FALSE]
  /\ callback = [o \in Obj |-> FALSE]
  /\ amItemId = [o \in Obj |-> None]
  /\ sigOffsetSeconds = [o \in Obj |-> None]
  /\ thread = [o \in Obj |-> Returned]
  /\ hits = [o \in Obj |-> 0]
  /\ mainQueue = <<>>
  /\ crashed = FALSE

(***************************************************************************)
(* Reference counting.  An object is kept alive by myObj, by the recording *)
(* view's amObject, and by the requests queued for the main thread, which  *)
(* retain their argument.  The pointer a callback has just read is not     *)
(* retained until the message is sent.                                     *)
(***************************************************************************)
Queued(o, queue) == \E i \in DOMAIN queue : queue[i].object = o

(***************************************************************************)
(* The engine (external).                                                  *)
(***************************************************************************)

\* A lookup results in a positive identification: the engine invokes the
\* callback with a response, on the thread of that engine.
EngineHit(e) ==
  /\ mediaID[e] = "listening" /\ e \in armed
  /\ thread[e].at = "idle"
  /\ hits[e] < MaxHits
  /\ hits' = [hits EXCEPT ![e] = @ + 1]
  /\ \E r \in Responses :
       thread' = [thread EXCEPT ![e] = [Returned EXCEPT !.at = "getXML", !.response = r]]
  /\ UNCHANGED <<myObj, allocated, freed, mediaID, armed, mainQueue, crashed, wrapperVars>>

\* The engine's thread has left the callback, or need not be waited for.
CallbackSettled(e) == StopWaitsForCallback => thread[e].at = "idle"

(***************************************************************************)
(* registerCallback.                                                       *)
(***************************************************************************)
\* Mutant of RegisterCallback: the registration is lost.
RegisterCallbackLost(o) == callback' = callback

RegisterCallback(o) == callback' = [callback EXCEPT ![o] = TRUE]

(***************************************************************************)
(* mfcbrMediaIDCallback, one message at a time.                            *)
(***************************************************************************)
\* Mutant of CurrentMatch: only the first match of a session is kept.
FirstMatch(e) == <<e, 1>>

CurrentMatch(e) == <<e, hits[e]>>

\* The callback reads the global myObj to send its next message.
ReadMyObj(e) ==
  /\ thread[e].at # "idle" /\ thread[e].pointer = Unread
  /\ thread' = [thread EXCEPT ![e] = [@ EXCEPT !.pointer = myObj]]
  /\ UNCHANGED <<myObj, allocated, freed, hits, mediaID, armed, mainQueue, crashed, wrapperVars>>

\* The object was deallocated between the read and the message.
MessageFreed(e) ==
  /\ thread[e].pointer \in freed
  /\ crashed' = TRUE
  /\ UNCHANGED <<myObj, allocated, freed, hits, mediaID, armed, thread, mainQueue, wrapperVars>>

\* The callback has read p for the message it is about to send.
Sending(e, step, p) ==
  /\ thread[e].at = step
  /\ thread[e].pointer = p
  /\ p \notin freed

Proceed(e, step) ==
  thread' = [thread EXCEPT ![e] = [@ EXCEPT !.at = step, !.pointer = Unread]]

Return(e) == thread' = [thread EXCEPT ![e] = Returned]

CallbackUnchanged == UNCHANGED <<myObj, allocated, freed, hits, mediaID, armed, crashed>>

\* A message to nil yields nil, and so does a response that lacks the text.
Extract(e, step, token, found) ==
  \E p \in Obj \union {None} :
    /\ Sending(e, step, p)
    /\ IF p # None /\ token \in thread[e].response THEN Proceed(e, found) ELSE Return(e)
    /\ CallbackUnchanged /\ UNCHANGED <<mainQueue, wrapperVars>>

GetXMLFromResponse(e) == Extract(e, "getXML", "xml", "extractItem")
ExtractAMItemId(e) == Extract(e, "extractItem", "AMItemId", "setAmItemId")

SetAmItemId(e) ==
  \E p \in Obj \union {None} :
    /\ Sending(e, "setAmItemId", p)
    /\ amItemId' = [o \in Obj |-> IF o = p THEN CurrentMatch(e) ELSE amItemId[o]]
    /\ Proceed(e, "extractOffset")
    /\ CallbackUnchanged
    /\ UNCHANGED <<mainQueue, isMfcbrListening, callback, sigOffsetSeconds>>

\* A token that is missing, or asked of nil, counts as zero seconds.
ExtractPart(e, step, token, next) ==
  \E p \in Obj \union {None} :
    /\ Sending(e, step, p)
    /\ thread' = [thread EXCEPT ![e] =
                    [@ EXCEPT !.at = next, !.pointer = Unread,
                              !.parts = thread[e].parts \union
                                          {t \in thread[e].response : p # None /\ t = token}]]
    /\ CallbackUnchanged /\ UNCHANGED <<mainQueue, wrapperVars>>

ExtractSigOffset(e) == ExtractPart(e, "extractOffset", "SigOffset", "extractDuration")
ExtractMatchDuration(e) == ExtractPart(e, "extractDuration", "MatchDuration", "setSigOffset")

SetSigOffset(e) ==
  \E p \in Obj \union {None} :
    /\ Sending(e, "setSigOffset", p)
    /\ sigOffsetSeconds' = [o \in Obj |-> IF o = p THEN [match |-> CurrentMatch(e), parts |-> thread[e].parts]
                                                    ELSE sigOffsetSeconds[o]]
    /\ Proceed(e, "callbackObject")
    /\ CallbackUnchanged
    /\ UNCHANGED <<mainQueue, isMfcbrListening, callback, amItemId>>

ReadCallbackObject(e) ==
  \E p \in Obj \union {None} :
    /\ Sending(e, "callbackObject", p)
    /\ thread' = [thread EXCEPT ![e] =
                    [@ EXCEPT !.at = "callbackSelector", !.pointer = Unread,
                              !.receiver = (p # None /\ callback[p])]]
    /\ CallbackUnchanged /\ UNCHANGED <<mainQueue, wrapperVars>>

ReadCallbackSelector(e) ==
  \E p \in Obj \union {None} :
    /\ Sending(e, "callbackSelector", p)
    /\ thread' = [thread EXCEPT ![e] =
                    [@ EXCEPT !.at = "perform", !.pointer = Unread,
                              !.selector = (p # None /\ callback[p])]]
    /\ CallbackUnchanged /\ UNCHANGED <<mainQueue, wrapperVars>>

\* Mutant of PerformOnMainThread: waitUntilDone is YES, and the callback does
\* not return before its request has been performed.
PerformAndWait(e) ==
  \E p \in Obj \union {None} :
    /\ Sending(e, "perform", p)
    /\ IF thread[e].receiver
         THEN /\ mainQueue' = Append(mainQueue, [selector |-> thread[e].selector, object |-> p])
              /\ thread' = [thread EXCEPT ![e] = [@ EXCEPT !.receiver = FALSE]]
         ELSE ~Queued(p, mainQueue) /\ Return(e) /\ UNCHANGED mainQueue
    /\ CallbackUnchanged /\ UNCHANGED wrapperVars

\* performSelectorOnMainThread, without waiting.  It retains its argument; a
\* message to a nil receiver queues nothing.
PerformOnMainThread(e) ==
  \E p \in Obj \union {None} :
    /\ Sending(e, "perform", p)
    /\ mainQueue' = IF thread[e].receiver
                      THEN Append(mainQueue, [selector |-> thread[e].selector, object |-> p])
                      ELSE mainQueue
    /\ Return(e)
    /\ CallbackUnchanged /\ UNCHANGED wrapperVars

CallbackMessage(e) ==
  \/ GetXMLFromResponse(e)
  \/ ExtractAMItemId(e)
  \/ SetAmItemId(e)
  \/ ExtractSigOffset(e)
  \/ ExtractMatchDuration(e)
  \/ SetSigOffset(e)
  \/ ReadCallbackObject(e)
  \/ ReadCallbackSelector(e)
  \/ PerformOnMainThread(e)

CallbackThread(e) == ReadMyObj(e) \/ MessageFreed(e) \/ CallbackMessage(e)
=============================================================================
