---------------------------- MODULE EventCatalog ----------------------------
(***************************************************************************)
(* The events of a broadcast, as the classes EventTypeIntroduction,        *)
(* EventTypeComment, EventTypeCoupon, EventTypeSong and EventTypeBiography *)
(* generate them, and the merge of their dictionaries that                 *)
(* RealTimeFeedView.m keeps for each minute.  A dictionary of events is a  *)
(* function from seconds of the minute to sequences of events.             *)
(***************************************************************************)
EXTENDS Integers, Sequences

\* EventTypesEnum, in the order in which the feed merges them.
EventTypesEnum == <<"Introduction", "Comment", "Coupon", "Song", "Biography">>

\* An item of content, by its class and its Id.
Content(class, Id) == [class |-> class, Id |-> Id]

\* Mutant of EventAt: the second is counted from the start of the broadcast.
EventAtTotal(type, Minute, Second, contents) ==
  [type |-> type, eventTime |-> [Minute |-> Minute, Second |-> Minute * 60 + Second],
   aContentTypes |-> contents]

EventAt(type, Minute, Second, contents) ==
  [type |-> type, eventTime |-> [Minute |-> Minute, Second |-> Second],
   aContentTypes |-> contents]

(***************************************************************************)
(* GenerateByMinute of each class.  An introduction and a song are         *)
(* generated for every minute, stamped with minute 0.                      *)
(***************************************************************************)
Introductions(Minute) ==
  [s \in {1} |-> <<EventAt("Introduction", 0, s, <<Content("General", 1), Content("Friend", 1),
                                                   Content("Video", 1)>>)>>]

\* A comment and a coupon have no list of contents.
Comments(Minute) ==
  [s \in CASE Minute = 0 -> {5} [] Minute = 2 -> {32, 40} [] OTHER -> {}
     |-> <<EventAt("Comment", Minute, s, <<>>)>>]

Coupons(Minute) ==
  [s \in {t \in {58} : Minute = 2} |-> <<EventAt("Coupon", Minute, s, <<>>)>>]

Songs(Minute) ==
  [s \in {4} |-> <<EventAt("Song", 0, s, <<Content("Song", 1), Content("Video", 1)>>)>>]

\* Mutant of BiographyContents: the second biography is looked for a second late.
BiographyContentsLate(Minute, Second) ==
  CASE Minute = 2 /\ Second = 19 ->
         <<Content("Biography", 1), Content("Video", 1), Content("Video", 2)>>
    [] Minute = 2 /\ Second = 31 -> <<Content("Biography", 2)>>
    [] OTHER -> <<>>

\* The contents of a biography are found again from its time.
BiographyContents(Minute, Second) ==
  CASE Minute = 2 /\ Second = 19 ->
         <<Content("Biography", 1), Content("Video", 1), Content("Video", 2)>>
    [] Minute = 2 /\ Second = 30 -> <<Content("Biography", 2)>>
    [] OTHER -> <<>>

Biographies(Minute) ==
  [s \in {t \in {19, 30} : Minute = 2}
     |-> <<EventAt("Biography", Minute, s, BiographyContents(Minute, s))>>]

GenerateByMinute(Minute) ==
  [Introduction |-> Introductions(Minute), Comment |-> Comments(Minute),
   Coupon |-> Coupons(Minute), Song |-> Songs(Minute), Biography |-> Biographies(Minute)]

(***************************************************************************)
(* GetAndMergeFeedsForMinute: events of the same second are appended to    *)
(* those already merged.                                                   *)
(***************************************************************************)
Merge(main, dic) ==
  [s \in DOMAIN main \union DOMAIN dic |->
     (IF s \in DOMAIN main THEN main[s] ELSE <<>>) \o (IF s \in DOMAIN dic THEN dic[s] ELSE <<>>)]

\* One class after the other, in the order of the enumeration.
FeedsForMinute(Minute) ==
  LET merged[i \in 0..Len(EventTypesEnum)] ==
        IF i = 0 THEN <<>> ELSE Merge(merged[i - 1], GenerateByMinute(Minute)[EventTypesEnum[i]])
  IN merged[Len(EventTypesEnum)]
=============================================================================
