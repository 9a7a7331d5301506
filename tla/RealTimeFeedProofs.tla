------------------------- MODULE RealTimeFeedProofs -------------------------
(***************************************************************************)
(* Proofs about RealTimeFeed, for any offsets of the identifications and   *)
(* any number of them and of timers.  The first part holds whatever events *)
(* the catalog has; the second one looks at what they are.                 *)
(***************************************************************************)
EXTENDS RealTimeFeed, TLAPS

(***************************************************************************)
(* The inductive invariant.                                                *)
(***************************************************************************)

\* The entries the broadcast can put into the feed.
Entries == {[at |-> t, events |-> BroadcastEvents[t]] : t \in EventSeconds}

\* The dictionary kept for the current minute is that minute's.
CacheCurrent ==
  currentMinute # -1 =>
    /\ currentMinute \in DOMAIN dicEventsForMinute
    /\ dicEventsForMinute[currentMinute] = Feeds[currentMinute]

\* What is seen is never ahead of the feed, and on screen never behind it.
SeenBounded ==
  /\ seen \in Nat /\ seen <= Len(aDataSource)
  /\ onScreen => seen = Len(aDataSource)

IInv ==
  /\ aDataSource \in Seq(Entries)
  /\ realTimeElapsed \in Nat
  /\ badge \in BOOLEAN /\ onScreen \in BOOLEAN
  /\ CacheCurrent
  /\ TableAgrees
  /\ BadgeTellsNews
  /\ SeenBounded

(***************************************************************************)
(* One call of FeedForSecondsOffset.                                       *)
(***************************************************************************)

\* The dictionary consulted is the one of the minute asked for.
LEMMA GetMinuteCurrent ==
  ASSUME NEW Minute \in Nat, Minute \in DOMAIN Feeds, CacheCurrent, GetMinute(Minute)
  PROVE  /\ currentMinute' = Minute
         /\ dicEventsForMinute'[Minute] = Feeds[Minute]
         /\ CacheCurrent'
<1>1. CASE currentMinute = Minute
  BY <1>1 DEF GetMinute, CacheCurrent
<1>2. CASE currentMinute # Minute
  <2>1. /\ currentMinute' = Minute
        /\ dicEventsForMinute' = [m \in DOMAIN dicEventsForMinute \union {Minute} |->
              IF m = Minute THEN Feeds[m] ELSE dicEventsForMinute[m]]
    BY <1>2 DEF GetMinute
  <2> QED BY <2>1 DEF CacheCurrent
<1> QED BY <1>1, <1>2

\* The feed gets the events of the second it is called for, or stays as it is.
LEMMA FeedInserts ==
  ASSUME NEW SecondsOffset \in Nat, SecondsOffset \in Seconds, CacheCurrent,
         FeedForSecondsOffset(SecondsOffset)
  PROVE  /\ CacheCurrent'
         /\ IF SecondsOffset \in EventSeconds
              THEN InsertSection([at |-> SecondsOffset, events |-> BroadcastEvents[SecondsOffset]])
              ELSE UNCHANGED <<aDataSource, tvRealTimeFeed, badge>>
<1> DEFINE Minute == SecondsOffset \div 60
           Second == SecondsOffset % 60
<1>1. Minute \in Nat /\ Minute \in DOMAIN Feeds
  BY DEF Feeds
<1>2. GetMinute(Minute)
  BY DEF FeedForSecondsOffset
<1>3. /\ currentMinute' = Minute
      /\ dicEventsForMinute'[Minute] = Feeds[Minute]
      /\ CacheCurrent'
  BY <1>1, <1>2, GetMinuteCurrent
<1>4. IF Second \in DOMAIN Feeds[Minute]
        THEN InsertSection([at |-> SecondsOffset, events |-> Feeds[Minute][Second]])
        ELSE UNCHANGED <<aDataSource, tvRealTimeFeed, badge>>
  BY <1>3 DEF FeedForSecondsOffset
<1>5. SecondsOffset \in EventSeconds <=> Second \in DOMAIN Feeds[Minute]
  BY DEF EventSeconds
<1>6. SecondsOffset \in EventSeconds => BroadcastEvents[SecondsOffset] = Feeds[Minute][Second]
  BY DEF BroadcastEvents
<1> QED BY <1>3, <1>4, <1>5, <1>6

\* A call of FeedForSecondsOffset preserves the invariant, and is a step of
\* the broadcast.
LEMMA FeedStep ==
  ASSUME IInv, NEW SecondsOffset \in Nat, SecondsOffset \in Seconds,
         FeedForSecondsOffset(SecondsOffset), realTimeElapsed' \in Nat
  PROVE  IInv' /\ [Promise!Next]_<<position, aDataSource>>
<1> USE DEF IInv
<1>1. UNCHANGED onScreen /\ seen' = IF onScreen THEN Len(aDataSource') ELSE seen
  BY DEF FeedForSecondsOffset
<1>0. position' = SecondsOffset
  BY DEF FeedForSecondsOffset
<1>2. CASE SecondsOffset \in EventSeconds
  <2> DEFINE entry == [at |-> SecondsOffset, events |-> BroadcastEvents[SecondsOffset]]
  <2>1. CacheCurrent' /\ InsertSection(entry)
    BY <1>2, FeedInserts
  <2>2. entry \in Entries
    BY <1>2 DEF Entries
  <2>3. aDataSource' = <<entry>> \o aDataSource
    BY <2>1 DEF InsertSection
  <2>4. aDataSource' \in Seq(Entries) /\ Len(aDataSource') = Len(aDataSource) + 1
    BY <2>2, <2>3
  <2>5. TableAgrees'
    BY <1>1, <2>1, <2>4, UnloadedIsNoCount DEF InsertSection, TableAgrees
  <2>6. BadgeTellsNews' /\ SeenBounded'
    <3>1. badge' <=> badge \/ ~onScreen
      BY <2>1 DEF InsertSection
    <3>2. CASE onScreen
      <4>1. seen' = Len(aDataSource') /\ ~badge
        BY <1>1, <3>2 DEF BadgeTellsNews, SeenBounded
      <4> QED BY <1>1, <2>4, <3>1, <3>2, <4>1 DEF BadgeTellsNews, SeenBounded
    <3>3. CASE ~onScreen
      BY <1>1, <2>4, <3>1, <3>3 DEF BadgeTellsNews, SeenBounded
    <3> QED BY <3>2, <3>3
  <2>7. Promise!Next
    BY <1>0, <1>2, <2>3 DEF Promise!Next, Promise!Reach, BroadcastEvents
  <2>8. badge' \in BOOLEAN
    BY <2>1 DEF InsertSection
  <2> QED BY <1>1, <2>1, <2>4, <2>5, <2>6, <2>7, <2>8
<1>3. CASE SecondsOffset \notin EventSeconds
  <2>1. CacheCurrent' /\ UNCHANGED <<aDataSource, tvRealTimeFeed, badge>>
    BY <1>3, FeedInserts
  <2>2. Promise!Next
    BY <1>0, <1>3, <2>1 DEF Promise!Next, Promise!Reach, BroadcastEvents
  <2> QED BY <1>1, <2>1, <2>2 DEF TableAgrees, BadgeTellsNews, SeenBounded
<1> QED BY <1>2, <1>3

(***************************************************************************)
(* Every step preserves the invariant and implements the broadcast.        *)
(***************************************************************************)
LEMMA InitInv == Init => IInv /\ Promise!Init
<1> SUFFICES ASSUME Init PROVE IInv /\ Promise!Init
  OBVIOUS
<1>1. aDataSource \in Seq(Entries) /\ Len(aDataSource) = 0
  BY DEF Init
<1>2. CacheCurrent /\ TableAgrees
  BY DEF Init, CacheCurrent, TableAgrees
<1>3. BadgeTellsNews /\ SeenBounded
  BY <1>1 DEF Init, BadgeTellsNews, SeenBounded
<1> QED BY <1>1, <1>2, <1>3 DEF Init, IInv, Promise!Init

LEMMA StepInv == IInv /\ [Next]_vars => IInv' /\ [Promise!Next]_<<position, aDataSource>>
<1> SUFFICES ASSUME IInv, [Next]_vars PROVE IInv' /\ [Promise!Next]_<<position, aDataSource>>
  OBVIOUS
<1> USE DEF clocks, feed
<1>1. CASE IdMade
  <2> PICK SecondsOffset \in Offsets : FeedForSecondsOffset(SecondsOffset)
    BY <1>1 DEF IdMade
  <2>1. SecondsOffset \in Nat /\ SecondsOffset \in Seconds /\ realTimeElapsed' \in Nat
    BY <1>1, OffsetsAreSeconds DEF IdMade, Seconds, IInv
  <2> QED BY <2>1, FeedStep
<1>2. CASE DoRealTimeFeedUpdate
  <2>1. /\ realTimeElapsed + 1 \in Nat /\ realTimeElapsed + 1 \in Seconds
        /\ realTimeElapsed' \in Nat
    BY <1>2, BoundsAreNatural DEF DoRealTimeFeedUpdate, Seconds, IInv
  <2> QED BY <1>2, <2>1, FeedStep DEF DoRealTimeFeedUpdate
<1>3. CASE Identify
  BY <1>3 DEF Identify, StartRealTime, IInv, CacheCurrent, TableAgrees, BadgeTellsNews, SeenBounded
<1>4. CASE ViewWillAppear
  <2>1. UNCHANGED <<position, aDataSource, currentMinute, dicEventsForMinute, realTimeElapsed>>
    BY <1>4 DEF ViewWillAppear
  <2>2. Len(aDataSource) \in Nat /\ Len(aDataSource') = Len(aDataSource)
    BY <2>1 DEF IInv
  <2>3. onScreen' = TRUE /\ badge' = FALSE /\ seen' = Len(aDataSource)
    BY <1>4 DEF ViewWillAppear, ClearBadge
  <2>4. TableAgrees'
    BY <1>4, <2>2, UnloadedIsNoCount DEF ViewWillAppear, TableAgrees, IInv
  <2>5. BadgeTellsNews' /\ SeenBounded'
    BY <2>2, <2>3 DEF BadgeTellsNews, SeenBounded
  <2> QED BY <2>1, <2>3, <2>4, <2>5 DEF IInv, CacheCurrent
<1>5. CASE ViewWillDisappear \/ DidSelectRow \/ ViewDidUnload \/ UNCHANGED vars
  <2>1. UNCHANGED <<position, aDataSource, currentMinute, dicEventsForMinute, realTimeElapsed, badge, seen>>
    BY <1>5 DEF ViewWillDisappear, DidSelectRow, ViewDidUnload, vars
  <2>2. \/ onScreen' = FALSE /\ tvRealTimeFeed' = tvRealTimeFeed
        \/ onScreen' = onScreen /\ ~onScreen /\ tvRealTimeFeed' = Unloaded
        \/ UNCHANGED <<onScreen, tvRealTimeFeed>>
    BY <1>5 DEF ViewWillDisappear, DidSelectRow, ViewDidUnload, vars
  <2>3. TableAgrees' /\ SeenBounded'
    BY <2>1, <2>2 DEF IInv, TableAgrees, SeenBounded
  <2>4. onScreen' \in BOOLEAN
    BY <2>2 DEF IInv
  <2> QED BY <2>1, <2>3, <2>4 DEF IInv, CacheCurrent, BadgeTellsNews
<1> QED BY <1>1, <1>2, <1>3, <1>4, <1>5 DEF Next

\* What the table counts, what the badge tells and what the cache holds agree
\* with the feed in every reachable state.
THEOREM InvariantHolds == Spec => []IInv
BY InitInv, StepInv, PTL DEF Spec

\* UIKit's count of the sections is the data source's, however the insertions
\* and the view's loads and unloads interleave.
THEOREM TableAgreesHolds == Spec => []TableAgrees
BY InvariantHolds, PTL DEF IInv

\* The tab's badge tells exactly whether there is news.
THEOREM BadgeTellsNewsHolds == Spec => []BadgeTellsNews
BY InvariantHolds, PTL DEF IInv

\* The feed with its cached minute implements the broadcast, which looks every
\* second up anew: for any catalog and any order of the clocks.
THEOREM FeedFollowsBroadcastHolds == Spec => FeedFollowsBroadcast
<1>1. IInv /\ [Next]_vars => IInv' /\ [Promise!Next]_<<position, aDataSource>>
  BY StepInv
<1>2. Init => IInv /\ Promise!Init
  BY InitInv
<1> QED BY <1>1, <1>2, PTL DEF Spec, FeedFollowsBroadcast, Promise!Spec

(***************************************************************************)
(* The events of the catalog, whichever minute they are generated for.     *)
(***************************************************************************)

\* A cell that reads the first content finds it of the class it expects.
FindsFirst(type, contents) ==
  type \in DOMAIN FirstContent => contents # <<>> /\ contents[1].class = FirstContent[type]
Renderable(event) == FindsFirst(event.type, event.aContentTypes)

\* What the seconds of a dictionary of events may hold.
RenderableEvent == {event \in Event : Renderable(event)}
SectionRows == Seq(RenderableEvent) \ {<<>>}
WellFormed(dic) == \A s \in DOMAIN dic : dic[s] \in SectionRows

LEMMA MergeWellFormed ==
  ASSUME NEW main, NEW dic, WellFormed(main), WellFormed(dic)
  PROVE  WellFormed(Merge(main, dic))
<1> DEFINE E == RenderableEvent
           old(s) == IF s \in DOMAIN main THEN main[s] ELSE <<>>
           new(s) == IF s \in DOMAIN dic THEN dic[s] ELSE <<>>
<1> SUFFICES ASSUME NEW s \in DOMAIN main \union DOMAIN dic
             PROVE  old(s) \o new(s) \in Seq(E) \ {<<>>}
  BY DEF WellFormed, Merge, SectionRows
<1> HIDE DEF E
<1>1. <<>> \in Seq(E) /\ SectionRows = Seq(E) \ {<<>>}
  BY DEF SectionRows, E
<1>2. old(s) \in Seq(E) /\ (s \in DOMAIN main => old(s) # <<>>)
  BY <1>1 DEF WellFormed
<1>3. new(s) \in Seq(E) /\ (s \in DOMAIN dic => new(s) # <<>>)
  BY <1>1 DEF WellFormed
<1>4. old(s) # <<>> \/ new(s) # <<>>
  BY <1>2, <1>3
<1> HIDE DEF old, new
<1> QED BY <1>2, <1>3, <1>4

LEMMA ContentType ==
  ASSUME NEW class \in {"General", "Friend", "Video", "Song", "Biography"}, NEW Id \in Nat
  PROVE  Content(class, Id) \in ContentItem /\ Content(class, Id).class = class
BY DEF Content, ContentItem

EventTypes == {EventTypesEnum[i] : i \in DOMAIN EventTypesEnum}

\* An event is rendered if a cell that reads the first content finds it.
LEMMA EventRenderable ==
  ASSUME NEW type \in EventTypes, NEW Minute \in Nat, NEW Second \in 0..59, NEW contents \in Seq(ContentItem),
         FindsFirst(type, contents)
  PROVE  EventAt(type, Minute, Second, contents) \in RenderableEvent
<1> DEFINE event == EventAt(type, Minute, Second, contents)
<1>1. event.type = type /\ event.aContentTypes = contents
  BY DEF EventAt
<1>2. event \in Event
  BY DEF Event, EventAt, ContentItem, EventTypes
<1> HIDE DEF event
<1>3. Renderable(event)
  BY <1>1 DEF Renderable, FindsFirst
<1>4. event \in RenderableEvent
  BY <1>2, <1>3 DEF RenderableEvent
<1> QED BY <1>4 DEF event

LEMMA ClassesWellFormed ==
  ASSUME NEW Minute \in Nat
  PROVE  /\ WellFormed(Introductions(Minute)) /\ WellFormed(Comments(Minute)) /\ WellFormed(Coupons(Minute))
         /\ WellFormed(Songs(Minute)) /\ WellFormed(Biographies(Minute))
<1>1. {"Introduction", "Comment", "Coupon", "Song", "Biography"} \subseteq EventTypes
  <2>1. \A i \in 1..5 : EventTypesEnum[i] \in EventTypes
    BY DEF EventTypes, EventTypesEnum
  <2> QED BY <2>1 DEF EventTypesEnum
<1>2. ASSUME NEW contents, contents # <<>>
      PROVE  /\ contents[1].class = "General" => FindsFirst("Introduction", contents)
             /\ contents[1].class = "Song" => FindsFirst("Song", contents)
             /\ contents[1].class = "Biography" => FindsFirst("Biography", contents)
  <2>1. FirstContent["Introduction"] = "General" /\ FirstContent["Song"] = "Song" /\ FirstContent["Biography"] = "Biography"
    BY DEF FirstContent
  <2> QED BY <1>2, <2>1 DEF FindsFirst
<1>3. FindsFirst("Comment", <<>>) /\ FindsFirst("Coupon", <<>>) /\ <<>> \in Seq(ContentItem)
  BY DEF FindsFirst, FirstContent
<1>4. \A event \in RenderableEvent : \A one : one = <<event>> => one \in SectionRows
  BY DEF SectionRows
<1>5. 0 \in Nat /\ 1 \in 0..59 /\ 4 \in 0..59 /\ 58 \in 0..59
  OBVIOUS
<1> DEFINE video == Content("Video", 1)
           second == Content("Video", 2)
<1>6. video \in ContentItem /\ second \in ContentItem
  BY ContentType
<1> HIDE DEF video, second
<1>7. WellFormed(Introductions(Minute))
  <2> DEFINE general == Content("General", 1)
             friend == Content("Friend", 1)
  <2>1. general \in ContentItem /\ general.class = "General" /\ friend \in ContentItem
    BY ContentType
  <2> HIDE DEF general, friend
  <2>2. <<general, friend, video>> \in Seq(ContentItem) /\ FindsFirst("Introduction", <<general, friend, video>>)
    BY <1>2, <1>6, <2>1
  <2>3. EventAt("Introduction", 0, 1, <<general, friend, video>>) \in RenderableEvent
    BY <1>1, <1>5, <2>2, EventRenderable, Zenon
  <2> QED BY <1>4, <2>3 DEF Introductions, WellFormed, general, friend, video
<1>8. WellFormed(Comments(Minute))
  <2>1. \A s \in {5, 32, 40} : EventAt("Comment", Minute, s, <<>>) \in RenderableEvent
    <3> TAKE s \in {5, 32, 40}
    <3>1. s \in 0..59
      OBVIOUS
    <3> QED BY <1>1, <1>3, <3>1, EventRenderable
  <2> QED BY <1>4, <2>1 DEF Comments, WellFormed
<1>9. WellFormed(Coupons(Minute))
  <2>1. EventAt("Coupon", Minute, 58, <<>>) \in RenderableEvent
    BY <1>1, <1>3, <1>5, EventRenderable, Zenon
  <2> QED BY <1>4, <2>1 DEF Coupons, WellFormed
<1>10. WellFormed(Songs(Minute))
  <2> DEFINE song == Content("Song", 1)
  <2>1. song \in ContentItem /\ song.class = "Song"
    BY ContentType
  <2> HIDE DEF song
  <2>2. <<song, video>> \in Seq(ContentItem) /\ FindsFirst("Song", <<song, video>>)
    BY <1>2, <1>6, <2>1
  <2>3. EventAt("Song", 0, 4, <<song, video>>) \in RenderableEvent
    BY <1>1, <1>5, <2>2, EventRenderable, Zenon
  <2> QED BY <1>4, <2>3 DEF Songs, WellFormed, song, video
<1>11. WellFormed(Biographies(Minute))
  <2> SUFFICES ASSUME Minute = 2, NEW s \in {19, 30}
               PROVE  EventAt("Biography", Minute, s, BiographyContents(Minute, s)) \in RenderableEvent
    BY <1>4 DEF Biographies, WellFormed
  <2> DEFINE b1 == Content("Biography", 1)
             b2 == Content("Biography", 2)
             contents == IF s = 19 THEN <<b1, video, second>> ELSE <<b2>>
  <2>1. BiographyContents(Minute, s) = contents
    BY DEF BiographyContents, video, second
  <2>2. b1 \in ContentItem /\ b1.class = "Biography" /\ b2 \in ContentItem /\ b2.class = "Biography"
    BY ContentType
  <2> HIDE DEF b1, b2
  <2>3. contents \in Seq(ContentItem) /\ contents # <<>> /\ contents[1].class = "Biography"
    BY <1>6, <2>2
  <2> HIDE DEF contents
  <2>4. FindsFirst("Biography", contents) /\ contents \in Seq(ContentItem) /\ s \in 0..59
    BY <1>2, <2>3
  <2>5. EventAt("Biography", Minute, s, contents) \in RenderableEvent
    BY <1>1, <2>4, EventRenderable, Zenon
  <2> QED BY <2>1, <2>5
<1> QED BY <1>7, <1>8, <1>9, <1>10, <1>11

\* What the loop over the enumeration builds.
LEMMA FeedsMerged ==
  ASSUME NEW Minute
  PROVE  FeedsForMinute(Minute) =
           Merge(Merge(Merge(Merge(Merge(<<>>, Introductions(Minute)), Comments(Minute)), Coupons(Minute)),
                       Songs(Minute)), Biographies(Minute))
<1> DEFINE n == Len(EventTypesEnum)
           dic(i) == GenerateByMinute(Minute)[EventTypesEnum[i]]
           loop(f) == [i \in 0..n |-> IF i = 0 THEN <<>> ELSE Merge(f[i - 1], dic(i))]
           merged == CHOOSE f : f = loop(f)
           m1 == Merge(<<>>, Introductions(Minute))
           m2 == Merge(m1, Comments(Minute))
           m3 == Merge(m2, Coupons(Minute))
           m4 == Merge(m3, Songs(Minute))
           m5 == Merge(m4, Biographies(Minute))
           unfolded == [i \in 0..5 |-> CASE i = 0 -> <<>> [] i = 1 -> m1 [] i = 2 -> m2 [] i = 3 -> m3 [] i = 4 -> m4
                                         [] OTHER -> m5]
<1>1. FeedsForMinute(Minute) = merged[n]
  BY Zenon DEF FeedsForMinute
<1>2. /\ n = 5 /\ dic(1) = Introductions(Minute) /\ dic(2) = Comments(Minute) /\ dic(3) = Coupons(Minute)
      /\ dic(4) = Songs(Minute) /\ dic(5) = Biographies(Minute)
  BY DEF EventTypesEnum, GenerateByMinute
<1> HIDE DEF n, dic, m1, m2, m3, m4, m5
<1>3. /\ m1 = Merge(<<>>, dic(1)) /\ m2 = Merge(m1, dic(2)) /\ m3 = Merge(m2, dic(3)) /\ m4 = Merge(m3, dic(4))
      /\ m5 = Merge(m4, dic(5))
  BY <1>2 DEF m1, m2, m3, m4, m5
<1>4. loop(unfolded) = unfolded
  <2>1. \A i \in 0..5 : loop(unfolded)[i] = unfolded[i]
    BY <1>2, <1>3
  <2> QED BY <1>2, <2>1
<1> HIDE DEF loop
<1>5. merged = loop(merged)
  BY <1>4
<1> HIDE DEF merged, unfolded
<1>6. \A i \in 0..5 : merged[i] = IF i = 0 THEN <<>> ELSE Merge(merged[i - 1], dic(i))
  BY <1>2, <1>5 DEF loop
<1>7. merged[5] = m5
  <2>1. merged[1] = m1
    BY <1>3, <1>6
  <2>2. merged[2] = m2
    BY <1>3, <1>6, <2>1
  <2>3. merged[3] = m3
    BY <1>3, <1>6, <2>2
  <2>4. merged[4] = m4
    BY <1>3, <1>6, <2>3
  <2> QED BY <1>3, <1>6, <2>4
<1> QED BY <1>1, <1>2, <1>7 DEF m1, m2, m3, m4, m5

LEMMA FeedsWellFormed == ASSUME NEW Minute \in Nat PROVE WellFormed(FeedsForMinute(Minute))
<1>1. WellFormed(<<>>)
  BY DEF WellFormed
<1> QED BY <1>1, FeedsMerged, ClassesWellFormed, MergeWellFormed

\* Every second at which something happens has rows to show.
LEMMA BroadcastRows == \A t \in EventSeconds : t \in Nat /\ BroadcastEvents[t] \in SectionRows
<1> SUFFICES ASSUME NEW t \in EventSeconds PROVE t \in Nat /\ BroadcastEvents[t] \in SectionRows
  OBVIOUS
<1>1. t \in Seconds /\ t \in Nat /\ t \div 60 \in Nat /\ t % 60 \in DOMAIN Feeds[t \div 60]
  BY OffsetsAreSeconds, BoundsAreNatural DEF EventSeconds, Seconds
<1>2. Feeds[t \div 60] = FeedsForMinute(t \div 60)
  BY <1>1 DEF Feeds
<1> QED BY <1>1, <1>2, FeedsWellFormed DEF WellFormed, BroadcastEvents

(***************************************************************************)
(* The sections' rows, and the types.                                      *)
(***************************************************************************)
Counters ==
  /\ currentMinute \in Nat \union {-1} /\ DOMAIN dicEventsForMinute \subseteq Nat
  /\ timers \in 0..MaxTimers /\ identified \in 0..MaxIdentified /\ position \in Seconds \union {-1}

LEMMA CountersStep == IInv /\ Counters /\ [Next]_vars => Counters'
<1> SUFFICES ASSUME IInv, Counters, [Next]_vars PROVE Counters'
  OBVIOUS
<1> USE DEF clocks, feed
<1>1. ASSUME NEW t \in Nat, t \in Seconds, FeedForSecondsOffset(t)
      PROVE  /\ currentMinute' \in Nat \union {-1} /\ DOMAIN dicEventsForMinute' \subseteq Nat
             /\ position' \in Seconds \union {-1}
  <2>1. t \div 60 \in Nat /\ GetMinute(t \div 60) /\ position' = t
    BY <1>1 DEF FeedForSecondsOffset
  <2> QED BY <1>1, <2>1 DEF GetMinute, Counters
<1>2. CASE IdMade
  <2>1. PICK t \in Offsets : FeedForSecondsOffset(t)
    BY <1>2 DEF IdMade
  <2>2. t \in Nat /\ t \in Seconds
    BY OffsetsAreSeconds DEF Seconds
  <2>3. identified' \in 0..MaxIdentified /\ timers' = timers
    BY <1>2, BoundsAreNatural DEF IdMade, Counters
  <2> QED BY <1>1, <2>1, <2>2, <2>3 DEF Counters
<1>3. CASE DoRealTimeFeedUpdate
  <2>1. realTimeElapsed + 1 \in Nat /\ realTimeElapsed + 1 \in Seconds
    BY <1>3, BoundsAreNatural DEF DoRealTimeFeedUpdate, Seconds, IInv
  <2> QED BY <1>1, <1>3, <2>1 DEF DoRealTimeFeedUpdate, Counters
<1>4. CASE Identify
  BY <1>4, BoundsAreNatural DEF Identify, StartRealTime, Counters
<1>5. CASE ViewWillAppear \/ ViewWillDisappear \/ DidSelectRow \/ ViewDidUnload \/ UNCHANGED vars
  BY <1>5 DEF ViewWillAppear, ViewWillDisappear, DidSelectRow, ViewDidUnload, vars, Counters
<1> QED BY <1>2, <1>3, <1>4, <1>5 DEF Next

THEOREM CountersHold == Spec => []Counters
<1>1. Init => Counters
  BY BoundsAreNatural DEF Init, Counters
<1> QED BY <1>1, CountersStep, InvariantHolds, PTL DEF Spec

\* RealTimeFeedView.m:226 and EventTypeViewFactory.m: every section of the feed
\* has a row, and each row the content its cell reads first, for any minute.
THEOREM RowsRenderableHolds == Spec => []RowsRenderable
<1>1. IInv => RowsRenderable
  <2> SUFFICES ASSUME IInv, NEW i \in DOMAIN aDataSource PROVE
         /\ aDataSource[i].events # <<>>
         /\ \A j \in DOMAIN aDataSource[i].events : Renderable(aDataSource[i].events[j])
    BY DEF RowsRenderable, Renderable, FindsFirst
  <2>1. aDataSource[i] \in Entries
    BY DEF IInv
  <2>2. aDataSource[i].events \in SectionRows
    BY <2>1, BroadcastRows DEF Entries
  <2> QED BY <2>2 DEF SectionRows, RenderableEvent
<1> QED BY <1>1, InvariantHolds, PTL

\* The sections of the feed are made of events whose seconds are of a minute.
THEOREM TypeOKHolds == Spec => []TypeOK
<1>1. IInv /\ Counters => TypeOK
  <2> SUFFICES ASSUME IInv, Counters PROVE TypeOK
    OBVIOUS
  <2>1. Entries \subseteq Section
    <3>1. SectionRows \subseteq Seq(Event)
      BY DEF SectionRows, RenderableEvent
    <3> QED BY <3>1, BroadcastRows DEF Entries, Section
  <2>2. aDataSource \in Seq(Section)
    BY <2>1 DEF IInv
  <2>3. tvRealTimeFeed \in Nat \union {Unloaded}
    BY <2>2 DEF IInv, TableAgrees
  <2> QED BY <2>2, <2>3 DEF IInv, Counters, SeenBounded, TypeOK
<1> QED BY <1>1, CountersHold, InvariantHolds, PTL
=============================================================================
