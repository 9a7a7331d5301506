---------------------------- MODULE RealTimeFeed ----------------------------
(***************************************************************************)
(* The feed of events, RealTimeFeedView.m, and its two clocks: the offsets *)
(* of the identifications (idMade: of RecordingView.m), and the timers     *)
(* that Record starts when the operation selector is on its segment 1.     *)
(* Everything here runs on the main thread, one step at a time, but the    *)
(* clocks, the screen's appearances and the memory warnings come in any    *)
(* order.                                                                  *)
(***************************************************************************)
EXTENDS EventCatalog

CONSTANTS
  Offsets,        \* the offsets, in seconds, that identifications report
  MaxIdentified,  \* bound: identifications
  MaxTimers,      \* bound: presses of Record with segment 1
  LastSecond,     \* bound: where the timers stop being followed
  Unloaded        \* the table's state while the view is not loaded

ASSUME OffsetsAreSeconds == Offsets \subseteq Nat
ASSUME BoundsAreNatural == MaxIdentified \in Nat /\ MaxTimers \in Nat /\ LastSecond \in Nat
ASSUME UnloadedIsNoCount == Unloaded \notin Nat

VARIABLES
  currentMinute,
  dicEventsForMinute,
  aDataSource,       \* the sections; "at", the second each was fed for, is history
  badge,             \* is "+" shown on the feed's tab?
  onScreen,          \* is the view in a window?
  tvRealTimeFeed,    \* the sections the table counts, or Unloaded
  realTimeElapsed,
  timers,            \* timers started; none is ever invalidated
  identified,        \* identifications so far
  position,          \* history: the offset the feed was last called for, or -1
  seen               \* history: the sections there were when the view was last on screen

vars == <<currentMinute, dicEventsForMinute, aDataSource, badge, onScreen, tvRealTimeFeed,
          realTimeElapsed, timers, identified, position, seen>>
clocks == <<realTimeElapsed, timers, identified>>
feed == <<currentMinute, dicEventsForMinute, aDataSource, position>>

\* The dictionaries of all the minutes that can come up.
Seconds == Offsets \union 0..LastSecond
Feeds == [Minute \in {t \div 60 : t \in Seconds} |-> FeedsForMinute(Minute)]

ContentItem == [class : {"General", "Friend", "Video", "Song", "Biography"}, Id : Nat]
Event == [type : {EventTypesEnum[i] : i \in DOMAIN EventTypesEnum},
          eventTime : [Minute : Nat, Second : 0..59],
          aContentTypes : Seq(ContentItem)]
Section == [at : Nat, events : Seq(Event)]

TypeOK ==
  /\ currentMinute \in Nat \union {-1}
  /\ DOMAIN dicEventsForMinute \subseteq Nat
  /\ aDataSource \in Seq(Section)
  /\ badge \in BOOLEAN
  /\ onScreen \in BOOLEAN
  /\ tvRealTimeFeed \in Nat \union {Unloaded}
  /\ realTimeElapsed \in Nat
  /\ timers \in 0..MaxTimers
  /\ identified \in 0..MaxIdentified
  /\ position \in Seconds \union {-1}
  /\ seen \in Nat

Init ==
  /\ currentMinute = -1
  /\ dicEventsForMinute = <<>>
  /\ aDataSource = <<>>
  /\ badge = FALSE
  /\ onScreen = FALSE
  /\ tvRealTimeFeed = Unloaded
  /\ realTimeElapsed = 0
  /\ timers = 0
  /\ identified = 0
  /\ position = -1
  /\ seen = 0

(***************************************************************************)
(* FeedForSecondsOffset.                                                   *)
(***************************************************************************)

\* Mutant of GetMinute: the dictionary is only fetched when time moves on.
GetMinuteForward(Minute) ==
  IF currentMinute < Minute
    THEN /\ currentMinute' = Minute
         /\ dicEventsForMinute' = [m \in DOMAIN dicEventsForMinute \union {Minute} |->
              IF m = Minute THEN Feeds[m] ELSE dicEventsForMinute[m]]
    ELSE UNCHANGED <<currentMinute, dicEventsForMinute>>

\* A change of minute, in either direction, generates the minute's events anew.
GetMinute(Minute) ==
  IF currentMinute # Minute
    THEN /\ currentMinute' = Minute
         /\ dicEventsForMinute' = [m \in DOMAIN dicEventsForMinute \union {Minute} |->
              IF m = Minute THEN Feeds[m] ELSE dicEventsForMinute[m]]
    ELSE UNCHANGED <<currentMinute, dicEventsForMinute>>

\* Mutant of InsertSection: a view that is not on screen only gets its badge.
InsertSectionUnlessHidden(section) ==
  /\ aDataSource' = <<section>> \o aDataSource
  /\ tvRealTimeFeed' = IF onScreen THEN tvRealTimeFeed + 1 ELSE tvRealTimeFeed
  /\ badge' = (badge \/ ~onScreen)

\* The table is told of one more section if there is a table.
InsertSection(section) ==
  /\ aDataSource' = <<section>> \o aDataSource
  /\ tvRealTimeFeed' = IF tvRealTimeFeed = Unloaded THEN Unloaded ELSE tvRealTimeFeed + 1
  /\ badge' = (badge \/ ~onScreen)

FeedForSecondsOffset(SecondsOffset) ==
  LET Minute == SecondsOffset \div 60
      Second == SecondsOffset % 60
  IN /\ GetMinute(Minute)
     /\ LET dic == dicEventsForMinute'[currentMinute']
        IN IF Second \in DOMAIN dic
             THEN InsertSection([at |-> SecondsOffset, events |-> dic[Second]])
             ELSE UNCHANGED <<aDataSource, tvRealTimeFeed, badge>>
     /\ position' = SecondsOffset
     /\ seen' = IF onScreen THEN Len(aDataSource') ELSE seen
     /\ UNCHANGED onScreen

(***************************************************************************)
(* The clocks.                                                             *)
(***************************************************************************)

\* idMade: hands the offset of an identification to the feed.
IdMade ==
  /\ identified < MaxIdentified
  /\ identified' = identified + 1
  /\ \E SecondsOffset \in Offsets : FeedForSecondsOffset(SecondsOffset)
  /\ UNCHANGED <<realTimeElapsed, timers>>

\* Mutant of StartRealTime: the counter starts at the first second to show.
StartRealTimeAtFirst == realTimeElapsed' = 121 /\ timers' = timers + 1

\* Segment 1 of Identify:, two minutes into the broadcast.
StartRealTime == realTimeElapsed' = 120 /\ timers' = timers + 1

Identify ==
  /\ timers < MaxTimers
  /\ StartRealTime
  /\ UNCHANGED <<feed, badge, onScreen, tvRealTimeFeed, identified, seen>>

\* One of the timers fires: they all advance the same counter.
DoRealTimeFeedUpdate ==
  /\ timers > 0 /\ realTimeElapsed < LastSecond
  /\ realTimeElapsed' = realTimeElapsed + 1
  /\ FeedForSecondsOffset(realTimeElapsed + 1)
  /\ UNCHANGED <<timers, identified>>

(***************************************************************************)
(* The screen.                                                             *)
(***************************************************************************)

\* Mutant of ClearBadge: the badge is cleared only by the view's first load.
ClearBadgeOnLoad == badge' = (badge /\ tvRealTimeFeed # Unloaded)

ClearBadge == badge' = FALSE

\* The table of a view that had to be loaded counts the sections there are.
ViewWillAppear ==
  /\ ~onScreen
  /\ onScreen' = TRUE
  /\ ClearBadge
  /\ tvRealTimeFeed' = IF tvRealTimeFeed = Unloaded THEN Len(aDataSource) ELSE tvRealTimeFeed
  /\ seen' = Len(aDataSource)
  /\ UNCHANGED <<feed, clocks>>

\* Another tab is selected.
ViewWillDisappear ==
  /\ onScreen
  /\ onScreen' = FALSE
  /\ UNCHANGED <<feed, badge, tvRealTimeFeed, clocks, seen>>

\* A row of the table is touched: its contents, if any, are pushed on top.
DidSelectRow ==
  /\ onScreen
  /\ \E section \in 1..tvRealTimeFeed : \E row \in DOMAIN aDataSource[section].events :
       aDataSource[section].events[row].aContentTypes # <<>>
  /\ onScreen' = FALSE
  /\ UNCHANGED <<feed, badge, tvRealTimeFeed, clocks, seen>>

ViewDidUnload ==
  /\ ~onScreen /\ tvRealTimeFeed # Unloaded
  /\ tvRealTimeFeed' = Unloaded
  /\ UNCHANGED <<feed, badge, onScreen, clocks, seen>>

Next ==
  \/ IdMade
  \/ Identify
  \/ DoRealTimeFeedUpdate
  \/ ViewWillAppear
  \/ ViewWillDisappear
  \/ DidSelectRow
  \/ ViewDidUnload

\* The run loop keeps a repeating timer firing.
Fairness == WF_vars(DoRealTimeFeedUpdate)

Spec == Init /\ [][Next]_vars
FairSpec == Spec /\ Fairness

(***************************************************************************)
(* Properties.                                                             *)
(***************************************************************************)

\* The seconds at which something happens, and what.
EventSeconds == {t \in Seconds : t % 60 \in DOMAIN Feeds[t \div 60]}
BroadcastEvents == [t \in EventSeconds |-> Feeds[t \div 60][t % 60]]
Promise == INSTANCE Broadcast
             WITH Events <- BroadcastEvents, shown <- aDataSource

\* The dictionary kept for the current minute never leaks an event of another
\* minute into the feed nor hides one of this minute, whatever order the two
\* clocks and the presses of Record move the broadcast in; and the feed only
\* grows, newest first.
FeedFollowsBroadcast == Promise!Spec

\* The table and its data source agree on the number of sections whenever
\* there is a table, though sections arrive while the view is unloaded: UIKit
\* raises an exception at the next insertion otherwise.
TableAgrees ==
  /\ tvRealTimeFeed # Unloaded => tvRealTimeFeed = Len(aDataSource)
  /\ onScreen => tvRealTimeFeed # Unloaded

\* "+" is on the tab exactly while the feed has sections that arrived since
\* the view was last on screen.
BadgeTellsNews == badge <=> seen < Len(aDataSource)

\* Every section has a row to take its header's time from, and the cells of
\* introductions, songs and biographies find the content they read first.
FirstContent == [Introduction |-> "General", Song |-> "Song", Biography |-> "Biography"]
RowsRenderable ==
  \A i \in DOMAIN aDataSource :
    /\ aDataSource[i].events # <<>>
    /\ \A j \in DOMAIN aDataSource[i].events :
         LET event == aDataSource[i].events[j]
         IN event.type \in DOMAIN FirstContent =>
              /\ event.aContentTypes # <<>>
              /\ event.aContentTypes[1].class = FirstContent[event.type]

\* Once Record has started a timer, every event from then on is shown, even if
\* further presses restart the counter and identifications change the minute.
EveryEventShown ==
  timers > 0 ~> \A t \in EventSeconds \intersect 121..LastSecond :
                  \E i \in DOMAIN aDataSource : aDataSource[i].at = t
=============================================================================
