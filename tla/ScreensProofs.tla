---------------------------- MODULE ScreensProofs ---------------------------
(***************************************************************************)
(* Proofs about the screens that reuse the cells of their tables.  The     *)
(* comments of the feed: for any number of rows, cells and loads.  My      *)
(* Content and Content details: for any number of rows on screen, any      *)
(* amount of content collected, and any events of which few enough         *)
(* contents are listed.                                                    *)
(***************************************************************************)
EXTENDS MCScreens, FiniteSetTheorems, SequenceTheorems, TLAPS

(***************************************************************************)
(* The comments of the feed.  If a row stays on screen until its loads are *)
(* over, a cell has loads in progress only for the row it shows, which is  *)
(* what makes the reset of a reused cell enough.                           *)
(***************************************************************************)
\* Only created cells show rows, and a load in progress is for the row shown.
LoadsAreOfRows ==
  /\ \A c \in Cells : row[c] # None => c \in created
  /\ \A c \in Cells, r \in Rows : loading[<<c, r>>] > 0 => row[c] = r

CommentsInv == TypeOK /\ LoadsAreOfRows /\ NoForeignPicture

\* The types alone, which do not need the assumption.
LEMMA CommentsTypeStep == TypeOK /\ [Next]_vars => TypeOK'
<1> SUFFICES ASSUME TypeOK, [Next]_vars PROVE TypeOK'
  OBVIOUS
<1> USE MaxLoadsIsPositive
<1>1. ASSUME NEW r \in Rows, CellForRow(r) PROVE TypeOK'
  <2>1. PICK c \in Cells : /\ loading[<<c, r>>] < MaxLoads
                           /\ CellFor(c) /\ LoadPicture(c, r) /\ ResetPicture(c)
                           /\ row' = [row EXCEPT ![c] = r]
    BY <1>1 DEF CellForRow
  <2>2. created' \subseteq Cells /\ row' \in [Cells -> Rows \union {None}]
        /\ ivUser' \in [Cells -> Picture]
    BY <2>1 DEF TypeOK, CellFor, ResetPicture, Picture
  <2>3. loading' \in [Cells \X Rows -> 0..MaxLoads]
    BY <2>1 DEF TypeOK, LoadPicture
  <2> QED
    BY <2>2, <2>3 DEF TypeOK
<1>2. ASSUME NEW r \in Rows, RowLeaves(r) PROVE TypeOK'
  BY <1>2 DEF RowLeaves, TypeOK
<1>3. ASSUME NEW c \in Cells, NEW r \in Rows, PictureLoaded(c, r) PROVE TypeOK'
  <2>1. loading' \in [Cells \X Rows -> 0..MaxLoads]
    BY <1>3 DEF PictureLoaded, TypeOK
  <2>2. ivUser' \in [Cells -> Picture]
    BY <1>3 DEF PictureLoaded, TypeOK, Picture
  <2> QED
    BY <1>3, <2>1, <2>2 DEF PictureLoaded, TypeOK
<1>4. CASE UNCHANGED vars
  BY <1>4 DEF vars, TypeOK
<1> QED
  BY <1>1, <1>2, <1>3, <1>4 DEF Next

LEMMA CommentsInitially == Init => CommentsInv
  BY MaxLoadsIsPositive DEF Init, CommentsInv, TypeOK, LoadsAreOfRows, NoForeignPicture, Picture

\* A reused or new cell has no load in progress, so the only load that can set
\* its picture is the one started with it.
LEMMA CommentsStep == ASSUME LoadsBeforeReuse PROVE CommentsInv /\ [Next]_vars => CommentsInv'
<1> SUFFICES ASSUME CommentsInv, [Next]_vars PROVE LoadsAreOfRows' /\ NoForeignPicture'
  BY CommentsTypeStep DEF CommentsInv
<1> USE MaxLoadsIsPositive, PicturesDiffer DEF CommentsInv, TypeOK
<1>1. ASSUME NEW r \in Rows, CellForRow(r) PROVE LoadsAreOfRows' /\ NoForeignPicture'
  <2>1. PICK c \in Cells : /\ loading[<<c, r>>] < MaxLoads
                           /\ CellFor(c) /\ LoadPicture(c, r) /\ ResetPicture(c)
                           /\ row' = [row EXCEPT ![c] = r]
    BY <1>1 DEF CellForRow
  <2>2. row[c] = None
    BY <2>1 DEF CellFor, Reusable, LoadsAreOfRows
  <2>3. \A s \in Rows : ~(loading[<<c, s>>] > 0)
    BY <2>2 DEF LoadsAreOfRows
  <2>4. ASSUME NEW d \in Cells, NEW s \in Rows, loading'[<<d, s>>] > 0 PROVE row'[d] = s
    <3>1. CASE d = c
      BY <3>1, <2>1, <2>3, <2>4 DEF LoadPicture
    <3>2. CASE d # c
      BY <3>2, <2>1, <2>4 DEF LoadPicture, LoadsAreOfRows
    <3> QED
      BY <3>1, <3>2
  <2>5. \A d \in Cells : row'[d] # None => d \in created'
    BY <2>1 DEF CellFor, LoadsAreOfRows
  <2>6. NoForeignPicture'
    BY <2>1 DEF NoForeignPicture, ResetPicture
  <2> QED
    BY <2>4, <2>5, <2>6 DEF LoadsAreOfRows
<1>2. ASSUME NEW r \in Rows, RowLeaves(r) PROVE LoadsAreOfRows' /\ NoForeignPicture'
  <2>1. PICK c \in Cells : /\ row[c] = r /\ \A s \in Rows : loading[<<c, s>>] = 0
                           /\ row' = [row EXCEPT ![c] = None]
                           /\ UNCHANGED <<created, ivUser, loading>>
    BY <1>2 DEF RowLeaves
  <2>2. LoadsAreOfRows'
    BY <2>1 DEF LoadsAreOfRows
  <2>3. NoForeignPicture'
    BY <2>1 DEF NoForeignPicture
  <2> QED
    BY <2>2, <2>3
<1>3. ASSUME NEW c \in Cells, NEW r \in Rows, PictureLoaded(c, r)
      PROVE LoadsAreOfRows' /\ NoForeignPicture'
  <2>1. row[c] = r
    BY <1>3 DEF PictureLoaded, LoadsAreOfRows
  <2>2. LoadsAreOfRows'
    <3>1. \A d \in Cells, s \in Rows : loading'[<<d, s>>] > 0 => loading[<<d, s>>] > 0
      BY <1>3 DEF PictureLoaded
    <3> QED
      BY <1>3, <3>1 DEF PictureLoaded, LoadsAreOfRows
  <2>3. NoForeignPicture'
    BY <1>3, <2>1 DEF PictureLoaded, NoForeignPicture
  <2> QED
    BY <2>2, <2>3
<1>4. CASE UNCHANGED vars
  BY <1>4 DEF vars, LoadsAreOfRows, NoForeignPicture
<1> QED
  BY <1>1, <1>2, <1>3, <1>4 DEF Next

\* Every variable keeps its type, whether or not cells are reused early.
THEOREM TypeCorrect == Spec => []TypeOK
<1>1. Init => TypeOK
  BY CommentsInitially DEF CommentsInv
<1> QED
  BY <1>1, CommentsTypeStep, PTL DEF Spec

\* RealTimeFeedView.m:334, a row never shows another user's picture if its loads end
\* while it is on screen, whatever the number of cells and the order of the loads.
THEOREM CommentsSoundHolds == ASSUME LoadsBeforeReuse PROVE ScreensSpec => []CommentsSound
<1>1. ScreensInit => CommentsInv
  BY CommentsInitially DEF ScreensInit
<1>2. CommentsInv /\ [ScreensNext]_screenVars => CommentsInv'
  <2>1. [ScreensNext]_screenVars => [Next]_vars
    BY DEF ScreensNext, screenVars
  <2> QED BY <2>1, CommentsStep
<1>3. CommentsInv => CommentsSound
  BY DEF CommentsInv, CommentsSound
<1> QED
  BY <1>1, <1>2, <1>3, PTL DEF ScreensSpec

\* A table is laid out from its first row without a cell.
LEMMA LeastNatural ==
  ASSUME NEW S \in SUBSET Nat, S # {}
  PROVE  \E x \in S : \A y \in S : x <= y
<1> DEFINE R == OpToRel(<, Nat)
<1>1. R = {ss \in Nat \X Nat : ss[1] < ss[2]}
  BY DEF OpToRel
<1>2. IsWellFoundedOn(R, Nat)
  BY NatLessThanWellFounded
<1> HIDE DEF R
<1>3. PICK x \in S : \A y \in S : <<y, x>> \notin R
  BY <1>2, WFMin
<1>4. \A y \in S : x \in Nat /\ y \in Nat /\ ~(y < x)
  BY <1>1, <1>3
<1> QED BY <1>4

(***************************************************************************)
(* My Content.                                                             *)
(***************************************************************************)

\* The table has cells for rows that were on screen, in one part of the content.
MyTable ==
  /\ rows \in Nat /\ my_top \in Nat /\ rows <= count
  /\ my_top > 0 => my_top + Screen <= rows
  /\ my_shown \in [DOMAIN my_shown -> My!Blank..MaxContent - 1]
  /\ view = "unloaded" => DOMAIN my_shown = {} /\ rows = 0 /\ my_top = 0

\* Rows that only came from the bottom have moved the iterator on by one each.
IteratorAtNextRow ==
  straight /\ view # "unloaded" =>
    /\ DOMAIN my_shown = {r \in My!Window : r < contentIterator}
    /\ my_top <= contentIterator /\ contentIterator <= my_top + Screen /\ contentIterator <= rows

\* What arrives while the tab is hidden adds to a count that already has all
\* that has not been seen.
NewContentCounted ==
  /\ seen <= count /\ numOfNewContent <= count /\ badgeValue <= count
  /\ view # "appearing" => numOfNewContent >= count - seen
  /\ view = "displayed" => seen = count

MyInv ==
  /\ My!TypeOK /\ MyTable /\ IteratorAtNextRow /\ NewContentCounted
  /\ My!RowsShowTheirOwn /\ My!BadgeCountsNews

\* The rows on screen that have no cell yet begin with a first one.
LEMMA FirstMissing ==
  ASSUME MyInv, ~My!LaidOut
  PROVE  My!Min(My!Missing) \in My!Missing /\ \A r \in My!Missing : My!Min(My!Missing) <= r
<1>1. My!Missing \in SUBSET Nat /\ My!Missing # {}
  BY ScreensAssumption DEF MyInv, MyTable, My!LaidOut, My!Missing, My!Window, My!MyContentAssumption
<1>2. \E x \in My!Missing : \A y \in My!Missing : x <= y
  BY <1>1, LeastNatural
<1> QED BY <1>2 DEF My!Min

LEMMA MyCardinality == \A S : My!Cardinality(S) = Cardinality(S)
BY DEF My!Cardinality, Cardinality

\* The cells on screen can be taken back.
LEMMA TakenBackType ==
  ASSUME MyInv, My!TakenBack
  PROVE  reusable' \in Seq(My!Blank..MaxContent - 1)
<1> DEFINE C == My!Blank..MaxContent - 1
           n == Cardinality(DOMAIN my_shown)
           back(cells) == [k \in DOMAIN cells |-> my_shown[cells[k]]]
<1>1. DOMAIN my_shown \subseteq My!Window /\ my_shown \in [DOMAIN my_shown -> C] /\ reusable \in Seq(C)
  BY DEF MyInv, My!TypeOK, MyTable
<1>2. my_top \in Int /\ my_top + Screen - 1 \in Int
  BY ScreensAssumption DEF MyInv, MyTable, My!MyContentAssumption
<1>3. DOMAIN my_shown \subseteq my_top..my_top + Screen - 1
  BY <1>1 DEF My!Window
<1>4. n \in Nat
  BY <1>2, <1>3, FS_Interval, FS_Subset, FS_CardinalityType
<1>5. PICK cells \in My!SetToSeqs(DOMAIN my_shown) : reusable' = reusable \o back(cells)
  BY DEF My!TakenBack
<1>6. cells \in [1..n -> DOMAIN my_shown]
  BY <1>5, MyCardinality DEF My!SetToSeqs
<1> HIDE DEF n, C
<1>7. back(cells) \in [1..n -> C]
  BY <1>1, <1>6
<1>8. back(cells) \in Seq(C)
  BY <1>4, <1>7
<1> HIDE DEF back
<1> QED BY <1>1, <1>5, <1>8 DEF C

\* What holds of the table before a step, for the steps' proofs.
LEMMA MyFacts ==
  ASSUME MyInv
  PROVE  /\ MaxContent \in Nat /\ Screen \in Nat /\ Screen > 0 /\ my_top \in Nat /\ rows \in Nat /\ count \in Nat
         /\ contentIterator \in Nat /\ numOfNewContent \in Nat /\ badgeValue \in Nat /\ seen \in Nat
         /\ rows <= count /\ count <= MaxContent /\ contentIterator <= MaxContent
         /\ numOfNewContent <= MaxContent /\ badgeValue <= MaxContent /\ seen <= MaxContent
<1>1. /\ count \in 0..MaxContent /\ numOfNewContent \in 0..MaxContent /\ badgeValue \in 0..MaxContent
      /\ seen \in 0..MaxContent /\ contentIterator \in 0..MaxContent /\ rows \in 0..MaxContent
  BY DEF MyInv, My!TypeOK
<1>2. my_top \in Nat /\ rows <= count
  BY DEF MyInv, MyTable
<1>3. MaxContent \in Nat /\ Screen \in Nat /\ Screen > 0
  BY ScreensAssumption DEF My!MyContentAssumption
<1> QED BY <1>1, <1>2, <1>3

\* Content that arrives while another tab is shown.
LEMMA MyNewContent == MyInv /\ My!HandleNewContent => MyInv'
<1> SUFFICES ASSUME MyInv, My!HandleNewContent PROVE MyInv'
  OBVIOUS
<1>1. /\ view \in {"unloaded", "hidden"} /\ count < MaxContent
      /\ count' = count + 1 /\ numOfNewContent' = numOfNewContent + 1 /\ badgeValue' = numOfNewContent + 1
      /\ UNCHANGED <<view, contentIterator, rows, my_top, my_shown, reusable, seen, straight>>
  BY DEF My!HandleNewContent
<1>2. My!Window' = My!Window
  BY <1>1 DEF My!Window
<1>3. numOfNewContent <= count /\ seen <= count /\ numOfNewContent >= count - seen
  BY <1>1 DEF MyInv, NewContentCounted
<1>4. My!TypeOK'
  BY <1>1, <1>2, <1>3, MyFacts DEF MyInv, My!TypeOK
<1>5. MyTable' /\ IteratorAtNextRow' /\ My!RowsShowTheirOwn'
  BY <1>1, <1>2, MyFacts DEF MyInv, MyTable, IteratorAtNextRow, My!RowsShowTheirOwn
<1>6. NewContentCounted' /\ My!BadgeCountsNews'
  BY <1>1, <1>3, MyFacts DEF NewContentCounted, My!BadgeCountsNews
<1> QED BY <1>4, <1>5, <1>6 DEF MyInv

\* The table begins anew, with no row shown and the iterator at the first one.
LEMMA MyReloaded ==
  ASSUME MyInv, rows' = count, count' = count, my_shown' = My!Nothing, contentIterator' = 0,
         view' # "unloaded", straight' => my_top' = 0, straight' \in BOOLEAN,
         my_top' = 0 \/ (my_top' = my_top /\ view # "unloaded"),
         reusable' \in Seq(My!Blank..MaxContent - 1)
  PROVE  /\ MyTable' /\ IteratorAtNextRow' /\ My!RowsShowTheirOwn'
         /\ contentIterator' \in 0..MaxContent /\ rows' \in 0..MaxContent
         /\ DOMAIN my_shown' \subseteq My!Window' /\ reusable' \in Seq(My!Blank..MaxContent - 1)
<1>1. DOMAIN my_shown' = {} /\ my_shown' \in [DOMAIN my_shown' -> My!Blank..MaxContent - 1]
  BY DEF My!Nothing
<1>2. my_top > 0 => my_top + Screen <= rows
  BY DEF MyInv, MyTable
<1>3. MyTable'
  BY <1>1, <1>2, MyFacts DEF MyTable
<1>4. my_top' = 0 => {r \in My!Window' : r < contentIterator'} = {}
  BY MyFacts DEF My!Window
<1>5. IteratorAtNextRow'
  BY <1>1, <1>4, MyFacts DEF IteratorAtNextRow
<1> QED BY <1>1, <1>3, <1>5, MyFacts DEF My!RowsShowTheirOwn

LEMMA MyLoads == MyInv /\ My!viewDidLoad => MyInv'
<1> SUFFICES ASSUME MyInv, My!viewDidLoad PROVE MyInv'
  OBVIOUS
<1>1. /\ view = "unloaded" /\ view' = "appearing" /\ contentIterator' = 0 /\ numOfNewContent' = 0
      /\ rows' = count /\ my_top' = 0 /\ my_shown' = My!Nothing /\ reusable' = <<>> /\ straight' = TRUE
      /\ UNCHANGED <<count, badgeValue, seen>>
  BY DEF My!viewDidLoad
<1>2. reusable' \in Seq(My!Blank..MaxContent - 1)
  BY <1>1
<1>3. NewContentCounted' /\ My!BadgeCountsNews'
  BY <1>1, MyFacts DEF MyInv, NewContentCounted, My!BadgeCountsNews
<1>4. My!TypeOK'
  BY <1>1, <1>2, MyReloaded, MyFacts DEF MyInv, My!TypeOK
<1> QED BY <1>1, <1>2, <1>3, <1>4, MyReloaded DEF MyInv

\* The steps that change only which view is shown.
LEMMA MyTabs == MyInv /\ (My!viewWillAppear \/ My!Disappear) => MyInv'
<1> SUFFICES ASSUME MyInv, My!viewWillAppear \/ My!Disappear PROVE MyInv'
  OBVIOUS
<1>1. /\ \/ view = "hidden" /\ view' = "appearing"
         \/ view = "displayed" /\ view' = "hidden"
      /\ UNCHANGED <<count, numOfNewContent, badgeValue, seen, contentIterator, rows, my_top, my_shown, reusable, straight>>
  BY DEF My!viewWillAppear, My!Disappear, My!badge
<1>2. My!Window' = My!Window
  BY <1>1 DEF My!Window
<1>3. My!TypeOK' /\ MyTable' /\ IteratorAtNextRow' /\ My!RowsShowTheirOwn'
  BY <1>1, <1>2 DEF MyInv, My!TypeOK, MyTable, IteratorAtNextRow, My!RowsShowTheirOwn
<1>4. NewContentCounted' /\ My!BadgeCountsNews'
  BY <1>1, MyFacts DEF MyInv, NewContentCounted, My!BadgeCountsNews
<1> QED BY <1>3, <1>4 DEF MyInv

\* The steps that have the table ask for its rows again.
LEMMA MyReloads == MyInv /\ (My!viewDidAppear \/ My!SegmentedControlTouched) => MyInv'
<1> SUFFICES ASSUME MyInv, My!viewDidAppear \/ My!SegmentedControlTouched PROVE MyInv'
  OBVIOUS
<1>1. /\ view \in {"appearing", "displayed"} /\ view' = "displayed" /\ contentIterator' = 0
      /\ rows' = count /\ my_shown' = My!Nothing /\ My!TakenBack /\ straight' = (my_top = 0)
      /\ UNCHANGED <<count, numOfNewContent, my_top>>
  BY DEF My!viewDidAppear, My!SegmentedControlTouched, My!reloadData, My!badge
<1>2. \/ badgeValue' = 0 /\ seen' = count
      \/ view = "displayed" /\ UNCHANGED <<badgeValue, seen>>
  BY DEF My!viewDidAppear, My!SegmentedControlTouched, My!badge
<1>3. reusable' \in Seq(My!Blank..MaxContent - 1)
  BY <1>1, TakenBackType
<1>4. NewContentCounted' /\ My!BadgeCountsNews'
  BY <1>1, <1>2, MyFacts DEF MyInv, NewContentCounted, My!BadgeCountsNews
<1>5. view' # "unloaded" /\ view # "unloaded" /\ (straight' => my_top' = 0) /\ straight' \in BOOLEAN
  BY <1>1
<1>6. MyTable' /\ IteratorAtNextRow' /\ My!RowsShowTheirOwn' /\ contentIterator' \in 0..MaxContent
      /\ rows' \in 0..MaxContent /\ DOMAIN my_shown' \subseteq My!Window'
  BY <1>1, <1>3, <1>5, MyReloaded
<1>7. My!TypeOK'
  BY <1>1, <1>2, <1>3, <1>5, <1>6, MyFacts DEF MyInv, My!TypeOK
<1> QED BY <1>4, <1>6, <1>7 DEF MyInv

\* The row that gets a cell is the first without one; while rows come in their
\* order it is the row the iterator is at.
LEMMA MyCell == MyInv /\ My!cellForRowAtIndexPath => MyInv'
<1> SUFFICES ASSUME MyInv, My!cellForRowAtIndexPath PROVE MyInv'
  OBVIOUS
<1> DEFINE m == My!Min(My!Missing)
           next == IF contentIterator < count THEN contentIterator + 1 ELSE contentIterator
<1>1. PICK k \in DOMAIN reusable \union {0} :
        /\ k = 0 <=> reusable = <<>>
        /\ reusable' = IF k = 0 THEN reusable ELSE My!RemoveAt(reusable, k)
        /\ LET content == IF contentIterator < count THEN contentIterator
                           ELSE IF k = 0 THEN My!Blank ELSE reusable[k]
           IN my_shown' = [r \in DOMAIN my_shown \union {m} |-> IF r \in DOMAIN my_shown THEN my_shown[r] ELSE content]
  BY DEF My!cellForRowAtIndexPath
<1> DEFINE content == IF contentIterator < count THEN contentIterator ELSE IF k = 0 THEN My!Blank ELSE reusable[k]
<1>2. /\ view \in {"appearing", "displayed"} /\ ~My!LaidOut /\ contentIterator' = next
      /\ UNCHANGED <<view, count, numOfNewContent, badgeValue, seen, rows, my_top, straight>>
  BY DEF My!cellForRowAtIndexPath, My!badge
<1>3. m \in My!Window /\ m \notin DOMAIN my_shown /\ \A r \in My!Window \ DOMAIN my_shown : m <= r
  BY <1>2, FirstMissing DEF My!Missing
<1>4. my_shown' = [r \in DOMAIN my_shown \union {m} |-> IF r \in DOMAIN my_shown THEN my_shown[r] ELSE content]
  BY <1>1
<1>5. reusable \in Seq(My!Blank..MaxContent - 1)
  BY DEF MyInv, My!TypeOK
<1>6. content \in My!Blank..MaxContent - 1
  <2>1. CASE contentIterator < count
    BY <2>1, MyFacts DEF My!Blank
  <2>2. CASE ~(contentIterator < count) /\ k = 0
    BY <2>2, MyFacts DEF My!Blank
  <2>3. CASE ~(contentIterator < count) /\ k # 0
    <3>1. k \in 1..Len(reusable)
      BY <1>1, <1>5, <2>3
    <3>2. reusable[k] \in My!Blank..MaxContent - 1
      BY <1>5, <3>1, ElementOfSeq
    <3> QED BY <2>3, <3>2
  <2> QED BY <2>1, <2>2, <2>3
<1>7. reusable' \in Seq(My!Blank..MaxContent - 1)
  <2> DEFINE C == My!Blank..MaxContent - 1
  <2> HIDE DEF C
  <2>1. reusable \in Seq(C)
    BY <1>5 DEF C
  <2>2. k # 0 => SubSeq(reusable, 1, k - 1) \in Seq(C) /\ SubSeq(reusable, k + 1, Len(reusable)) \in Seq(C)
    BY <2>1, SubSeqProperties
  <2>3. k # 0 => My!RemoveAt(reusable, k) \in Seq(C)
    BY <2>2 DEF My!RemoveAt
  <2> QED BY <1>1, <2>1, <2>3 DEF C
<1>8. My!Window' = My!Window
  BY <1>2 DEF My!Window
<1>9. contentIterator' \in 0..MaxContent
  BY <1>2, MyFacts
<1>10. ASSUME straight
       PROVE  m = contentIterator /\ contentIterator < rows /\ contentIterator < my_top + Screen /\ my_top <= contentIterator
  <2>1. /\ DOMAIN my_shown = {r \in My!Window : r < contentIterator}
        /\ my_top <= contentIterator /\ contentIterator <= my_top + Screen /\ contentIterator <= rows
    BY <1>2, <1>10 DEF MyInv, IteratorAtNextRow
  <2>2. m \in my_top..my_top + Screen - 1 /\ m < rows /\ contentIterator <= m
    BY <1>3, <2>1, MyFacts DEF My!Window
  <2>3. contentIterator \in My!Window \ DOMAIN my_shown
    BY <2>1, <2>2, MyFacts DEF My!Window
  <2>4. m <= contentIterator
    BY <1>3, <2>3
  <2> QED BY <2>1, <2>2, <2>4, MyFacts
<1> HIDE DEF m, content
<1>11. DOMAIN my_shown' = DOMAIN my_shown \union {m} /\ DOMAIN my_shown' \subseteq My!Window'
  BY <1>3, <1>4, <1>8 DEF MyInv, My!TypeOK
<1>12. My!TypeOK'
  BY <1>2, <1>7, <1>9, <1>11 DEF MyInv, My!TypeOK
<1>13. MyTable'
  <2>1. my_shown' \in [DOMAIN my_shown' -> My!Blank..MaxContent - 1]
    BY <1>4, <1>6 DEF MyInv, MyTable
  <2> QED BY <1>2, <2>1 DEF MyInv, MyTable
<1>14. IteratorAtNextRow' /\ My!RowsShowTheirOwn'
  <2> SUFFICES ASSUME straight
               PROVE  IteratorAtNextRow' /\ My!RowsShowTheirOwn'
    BY <1>2 DEF IteratorAtNextRow, My!RowsShowTheirOwn
  <2>1. DOMAIN my_shown = {r \in My!Window : r < contentIterator} /\ \A r \in DOMAIN my_shown : my_shown[r] = r
    BY <1>2 DEF MyInv, IteratorAtNextRow, My!RowsShowTheirOwn
  <2>2. contentIterator < count /\ contentIterator' = contentIterator + 1 /\ content = m
    BY <1>2, <1>10, MyFacts DEF content
  <2>3. DOMAIN my_shown' = {r \in My!Window' : r < contentIterator'}
    BY <1>3, <1>8, <1>10, <1>11, <2>1, <2>2, MyFacts DEF My!Window
  <2>4. IteratorAtNextRow'
    BY <1>2, <1>10, <2>2, <2>3, MyFacts DEF IteratorAtNextRow
  <2>5. \A r \in DOMAIN my_shown' : my_shown'[r] = r
    BY <1>4, <2>1, <2>2
  <2> QED BY <2>4, <2>5 DEF My!RowsShowTheirOwn
<1>15. NewContentCounted' /\ My!BadgeCountsNews'
  BY <1>2 DEF MyInv, NewContentCounted, My!BadgeCountsNews
<1> QED BY <1>12, <1>13, <1>14, <1>15 DEF MyInv

\* Scrolling by a row: down, to the row the iterator is at, or up again.
LEMMA MyScrolls == MyInv /\ (My!Scroll(1) \/ My!Scroll(-1)) => MyInv'
<1> SUFFICES ASSUME MyInv, NEW by \in {1, -1}, My!Scroll(by) PROVE MyInv'
  OBVIOUS
<1> DEFINE leaving == IF by = 1 THEN my_top ELSE my_top + Screen - 1
<1>1. /\ view = "displayed" /\ My!Missing = {} /\ my_top + by \in 0..rows - Screen
      /\ my_shown' = [r \in DOMAIN my_shown \ {leaving} |-> my_shown[r]]
      /\ reusable' = Append(reusable, my_shown[leaving])
      /\ my_top' = my_top + by /\ straight' = (straight /\ by = 1)
      /\ UNCHANGED <<view, count, numOfNewContent, badgeValue, seen, contentIterator, rows>>
  BY DEF My!Scroll, My!LaidOut, My!badge
<1>2. my_top + Screen <= rows
  BY <1>1, MyFacts DEF MyInv, MyTable
<1>3. DOMAIN my_shown = My!Window
  BY <1>1 DEF MyInv, My!TypeOK, My!Missing
<1>4. leaving \in My!Window
  BY <1>2, MyFacts DEF My!Window
<1>5. my_shown[leaving] \in My!Blank..MaxContent - 1
  BY <1>3, <1>4 DEF MyInv, MyTable
<1> HIDE DEF leaving
<1>6. reusable' \in Seq(My!Blank..MaxContent - 1)
  BY <1>1, <1>5 DEF MyInv, My!TypeOK
<1>7. DOMAIN my_shown' = My!Window \ {leaving}
  BY <1>1, <1>3
<1>8. DOMAIN my_shown' \subseteq My!Window'
  <2>1. CASE by = 1
    BY <2>1, <1>1, <1>7, MyFacts DEF My!Window, leaving
  <2>2. CASE by = -1
    BY <2>2, <1>1, <1>7, MyFacts DEF My!Window, leaving
  <2> QED BY <2>1, <2>2
<1>9. My!TypeOK'
  BY <1>1, <1>6, <1>8 DEF MyInv, My!TypeOK
<1>10. MyTable'
  <2>1. my_shown' \in [DOMAIN my_shown' -> My!Blank..MaxContent - 1]
    BY <1>1 DEF MyInv, MyTable
  <2> QED BY <1>1, <2>1, MyFacts DEF MyInv, MyTable
<1>11. IteratorAtNextRow' /\ My!RowsShowTheirOwn'
  <2> SUFFICES ASSUME straight, by = 1
               PROVE  IteratorAtNextRow' /\ My!RowsShowTheirOwn'
    BY <1>1 DEF IteratorAtNextRow, My!RowsShowTheirOwn
  <2>1. DOMAIN my_shown = {r \in My!Window : r < contentIterator} /\ contentIterator <= my_top + Screen
    BY <1>1 DEF MyInv, IteratorAtNextRow
  <2>2. contentIterator = my_top + Screen
    <3>1. my_top + Screen - 1 \in My!Window
      BY <1>2, MyFacts DEF My!Window
    <3> QED BY <1>3, <2>1, <3>1, MyFacts
  <2>3. DOMAIN my_shown' = {r \in My!Window' : r < contentIterator'}
    <3>1. My!Window = {r \in my_top..my_top + Screen - 1 : r < rows}
      BY DEF My!Window
    <3>2. My!Window' = {r \in my_top + 1..my_top + Screen : r < rows}
      BY <1>1, MyFacts DEF My!Window
    <3>3. DOMAIN my_shown' = My!Window \ {my_top}
      BY <1>7 DEF leaving
    <3>4. contentIterator' = my_top + Screen
      BY <1>1, <2>2
    <3> QED BY <1>2, <3>1, <3>2, <3>3, <3>4, MyFacts
  <2> QED BY <1>1, <1>7, <2>2, <2>3, <1>3, MyFacts DEF MyInv, IteratorAtNextRow, My!RowsShowTheirOwn
<1>12. NewContentCounted' /\ My!BadgeCountsNews'
  BY <1>1 DEF MyInv, NewContentCounted, My!BadgeCountsNews
<1> QED BY <1>9, <1>10, <1>11, <1>12 DEF MyInv

\* Without a view there is no table.
LEMMA MyUnloads == MyInv /\ My!viewDidUnload => MyInv'
<1> SUFFICES ASSUME MyInv, My!viewDidUnload PROVE MyInv'
  OBVIOUS
<1>1. /\ view = "hidden" /\ view' = "unloaded" /\ rows' = 0 /\ my_top' = 0 /\ my_shown' = My!Nothing /\ reusable' = <<>>
      /\ UNCHANGED <<count, numOfNewContent, badgeValue, seen, contentIterator, straight>>
  BY DEF My!viewDidUnload, My!badge
<1>2. DOMAIN my_shown' = {} /\ my_shown' \in [DOMAIN my_shown' -> My!Blank..MaxContent - 1]
  BY <1>1 DEF My!Nothing
<1>3. My!TypeOK'
  BY <1>1, <1>2, MyFacts DEF MyInv, My!TypeOK
<1>4. MyTable'
  BY <1>1, <1>2, MyFacts DEF MyTable
<1>5. IteratorAtNextRow' /\ My!RowsShowTheirOwn'
  BY <1>1 DEF IteratorAtNextRow, My!RowsShowTheirOwn
<1>6. NewContentCounted' /\ My!BadgeCountsNews'
  BY <1>1 DEF MyInv, NewContentCounted, My!BadgeCountsNews
<1> QED BY <1>3, <1>4, <1>5, <1>6 DEF MyInv

LEMMA MyInitially == My!Init => MyInv
<1> SUFFICES ASSUME My!Init PROVE MyInv
  OBVIOUS
<1>1. /\ view = "unloaded" /\ count = 0 /\ numOfNewContent = 0 /\ badgeValue = 0 /\ contentIterator = 0
      /\ rows = 0 /\ my_top = 0 /\ my_shown = My!Nothing /\ reusable = <<>> /\ seen = 0 /\ straight = TRUE
  BY DEF My!Init
<1>2. DOMAIN my_shown = {} /\ my_shown \in [DOMAIN my_shown -> My!Blank..MaxContent - 1]
  BY <1>1 DEF My!Nothing
<1>3. My!TypeOK
  BY <1>1, <1>2, ScreensAssumption DEF My!TypeOK, My!MyContentAssumption
<1>4. MyTable /\ NewContentCounted
  BY <1>1, <1>2 DEF MyTable, NewContentCounted
<1> QED BY <1>1, <1>3, <1>4 DEF MyInv, IteratorAtNextRow, My!RowsShowTheirOwn, My!BadgeCountsNews

LEMMA MyUnchanged == MyInv /\ UNCHANGED myContentVars => MyInv'
<1> SUFFICES ASSUME MyInv, UNCHANGED myContentVars PROVE MyInv'
  OBVIOUS
<1>1. UNCHANGED <<view, count, numOfNewContent, badgeValue, contentIterator, rows, my_top, my_shown, reusable, seen, straight>>
  BY DEF myContentVars
<1>2. My!Window' = My!Window
  BY <1>1 DEF My!Window
<1> QED BY <1>1, <1>2 DEF MyInv, My!TypeOK, MyTable, IteratorAtNextRow, NewContentCounted, My!RowsShowTheirOwn, My!BadgeCountsNews

\* MyContentView.m:160, :79: with any number of rows on screen, rows that come in
\* their turn show their own content, and the badge tells what has not been seen.
THEOREM MyContentSoundHolds == ScreensSpec => []MyContentSound
<1>1. ScreensInit => MyInv
  BY MyInitially DEF ScreensInit
<1>2. MyInv /\ [ScreensNext]_screenVars => MyInv'
  <2>1. MyInv /\ My!Next => MyInv'
    BY MyNewContent, MyLoads, MyTabs, MyReloads, MyCell, MyScrolls, MyUnloads DEF My!Next
  <2> QED BY <2>1, MyUnchanged DEF ScreensNext, screenVars
<1>3. MyInv => MyContentSound
  BY DEF MyInv, MyContentSound, My!MyContentSound
<1> QED BY <1>1, <1>2, <1>3, PTL DEF ScreensSpec

(***************************************************************************)
(* Content details.                                                        *)
(***************************************************************************)

\* The rows that can leave the screen, of an event with one row more than fit.
EdgeRows == {1, Screen + 1}

\* The cell of another row is lent from one edge to the other.
CellsLentAtEdges ==
  \A r \in DOMAIN shown :
    /\ shown[r] \in Details!AllRows /\ EventType[shown[r]] = EventType[r]
    /\ shown[r] # r => r \in EdgeRows /\ shown[r] \in EdgeRows

\* Cells are taken back only from a table that was laid out.
QueueFromEdges ==
  /\ reuseQueue \subseteq EdgeRows
  /\ reuseQueue # {} => 2..Screen \subseteq DOMAIN shown

\* The table is at its first or at its second row, the latter in an event of
\* one row more than fit.
DetailsTable ==
  /\ top = 1 \/ (top = 2 /\ Len(EventType) = Screen + 1)
  /\ IF loaded THEN aCells = Details!AllRows ELSE DOMAIN shown = {} /\ reuseQueue = {}
  /\ Len(EventType) <= Screen => reuseQueue = {}

DetailsInv ==
  Details!TypeOK /\ DetailsTable /\ CellsLentAtEdges /\ QueueFromEdges /\ Details!NothingReused

LEMMA DetailsFacts ==
  ASSUME Details!TypeOK
  PROVE  /\ Screen \in Nat /\ Screen > 0 /\ Len(EventType) \in Nat /\ Len(EventType) <= Screen + 1
         /\ DOMAIN shown \subseteq Details!Window
BY ScreensAssumption DEF Details!TypeOK, Details!ContentDetailsAssumption, Details!FewContents

LEMMA FirstMissingDetail ==
  ASSUME Details!TypeOK, Details!Missing # {}
  PROVE  Details!Min(Details!Missing) \in Details!Missing
<1>1. Details!Missing \in SUBSET Nat
  BY DetailsFacts DEF Details!Missing, Details!Window, Details!AllRows
<1>2. \E x \in Details!Missing : \A y \in Details!Missing : x <= y
  BY <1>1, LeastNatural
<1> QED BY <1>2 DEF Details!Min

LEMMA DetailsInitially == Details!Init => DetailsInv
<1> SUFFICES ASSUME Details!Init PROVE DetailsInv
  OBVIOUS
<1>1. /\ EventType \in Events /\ loaded = FALSE /\ aCells = {} /\ top = 1 /\ DOMAIN shown = {} /\ reuseQueue = {}
  BY DEF Details!Init, Details!NoCells
<1>2. Len(EventType) \in Nat
  BY <1>1, ScreensAssumption DEF Details!ContentDetailsAssumption
<1>3. Details!TypeOK
  <2>1. top \in 1..Len(EventType) + 1 /\ {shown[r] : r \in DOMAIN shown} = {}
    BY <1>1, <1>2
  <2> QED BY <1>1, <2>1 DEF Details!TypeOK
<1> QED BY <1>1, <1>3 DEF DetailsInv, DetailsTable, CellsLentAtEdges, QueueFromEdges, Details!NothingReused

\* A table without cells, as the view is loaded or unloaded.
LEMMA DetailsEmptied == DetailsInv /\ (Details!viewDidLoad \/ Details!viewDidUnload) => DetailsInv'
<1> SUFFICES ASSUME DetailsInv, Details!viewDidLoad \/ Details!viewDidUnload PROVE DetailsInv'
  OBVIOUS
<1>1. /\ DOMAIN shown' = {} /\ reuseQueue' = {} /\ EventType' = EventType
      /\ \/ loaded' = TRUE /\ aCells' = Details!AllRows /\ top' = 1
         \/ loaded' = FALSE /\ aCells' = aCells /\ top' = top
  BY DEF Details!viewDidLoad, Details!viewDidUnload, Details!PopulateCellsArray, Details!NoCells
<1>2. Details!AllRows' = Details!AllRows
  BY <1>1 DEF Details!AllRows
<1>3. Details!TypeOK'
  <2>1. top' \in 1..Len(EventType') + 1
    BY <1>1, DetailsFacts DEF DetailsInv, Details!TypeOK
  <2>2. {shown'[r] : r \in DOMAIN shown'} = {} /\ aCells' \in {{}, Details!AllRows'}
    BY <1>1, <1>2 DEF DetailsInv, Details!TypeOK
  <2> QED BY <1>1, <2>1, <2>2 DEF DetailsInv, Details!TypeOK
<1> QED BY <1>1, <1>2, <1>3 DEF DetailsInv, DetailsTable, CellsLentAtEdges, QueueFromEdges, Details!NothingReused

\* A row that finds a cell to reuse is at an edge, as all others have theirs.
LEMMA DetailsCell == DetailsInv /\ Details!cellForRowAtIndexPath => DetailsInv'
<1> SUFFICES ASSUME DetailsInv, Details!cellForRowAtIndexPath PROVE DetailsInv'
  OBVIOUS
<1> DEFINE m == Details!Min(Details!Missing)
<1>1. PICK cell \in IF Details!Dequeued(m) # {} THEN Details!Dequeued(m) ELSE {m} :
        /\ shown' = [other \in DOMAIN shown \union {m} |-> IF other = m THEN cell ELSE shown[other]]
        /\ reuseQueue' = reuseQueue \ {cell}
  BY DEF Details!cellForRowAtIndexPath
<1>2. loaded /\ Details!Missing # {} /\ UNCHANGED <<EventType, loaded, aCells, top>>
  BY DEF Details!cellForRowAtIndexPath
<1>3. m \in Details!Window /\ m \notin DOMAIN shown
  BY <1>2, FirstMissingDetail DEF Details!Missing, DetailsInv
<1> HIDE DEF m
<1>4. Details!AllRows' = Details!AllRows /\ Details!Window' = Details!Window
  BY <1>2 DEF Details!AllRows, Details!Window
<1>5. m \in Details!AllRows /\ m \in Int /\ 1 <= m /\ m <= Screen + 1
  BY <1>3, DetailsFacts DEF DetailsInv, DetailsTable, Details!Window, Details!AllRows
<1>6. \/ cell \in reuseQueue /\ EventType[cell] = EventType[m]
      \/ cell = m
  BY <1>1 DEF Details!Dequeued, Details!GetCellIdentifierForEventType
<1>7. aCells = Details!AllRows /\ reuseQueue \subseteq Details!AllRows
  BY <1>2 DEF DetailsInv, DetailsTable, Details!TypeOK
<1>8. cell # m => m \in EdgeRows /\ cell \in EdgeRows /\ cell \in reuseQueue
  <2> SUFFICES ASSUME cell # m
               PROVE  m \in EdgeRows /\ cell \in EdgeRows /\ cell \in reuseQueue
    OBVIOUS
  <2>1. cell \in reuseQueue /\ cell \in EdgeRows /\ m \notin 2..Screen
    BY <1>3, <1>6 DEF DetailsInv, QueueFromEdges
  <2> QED BY <1>5, <2>1, DetailsFacts DEF DetailsInv, EdgeRows
<1>9. DOMAIN shown' = DOMAIN shown \union {m} /\ shown'[m] = cell /\ \A r \in DOMAIN shown : r # m /\ shown'[r] = shown[r]
  BY <1>1, <1>3
<1>10. Details!TypeOK'
  <2>1. DOMAIN shown' \subseteq Details!Window' /\ reuseQueue' \subseteq aCells'
    BY <1>1, <1>2, <1>3, <1>4, <1>9 DEF DetailsInv, Details!TypeOK
  <2>2. \A r \in DOMAIN shown' : shown'[r] \in aCells'
    BY <1>2, <1>5, <1>6, <1>7, <1>9 DEF DetailsInv, CellsLentAtEdges
  <2> QED BY <1>2, <1>4, <2>1, <2>2 DEF DetailsInv, Details!TypeOK
<1>11. CellsLentAtEdges'
  BY <1>2, <1>4, <1>5, <1>6, <1>7, <1>8, <1>9 DEF DetailsInv, CellsLentAtEdges, EdgeRows
<1>12. DetailsTable' /\ QueueFromEdges'
  BY <1>1, <1>2, <1>4, <1>9 DEF DetailsInv, DetailsTable, QueueFromEdges, EdgeRows
<1>13. Details!NothingReused'
  BY <1>2, <1>6, <1>9 DEF DetailsInv, DetailsTable, Details!NothingReused
<1> QED BY <1>10, <1>11, <1>12, <1>13 DEF DetailsInv

\* Scrolling takes back the cell of the row at the edge that leaves.
LEMMA DetailsScrolls == DetailsInv /\ Details!Scroll => DetailsInv'
<1> SUFFICES ASSUME DetailsInv, Details!Scroll PROVE DetailsInv'
  OBVIOUS
<1>1. PICK to \in Details!AllRows :
        /\ to # top /\ to + Screen - 1 \in Details!AllRows /\ top' = to
        /\ LET leaving == {r \in DOMAIN shown : r \notin to..to + Screen - 1}
           IN /\ reuseQueue' = reuseQueue \union {shown[r] : r \in leaving}
              /\ shown' = [r \in DOMAIN shown \ leaving |-> shown[r]]
  BY DEF Details!Scroll
<1> DEFINE leaving == {r \in DOMAIN shown : r \notin to..to + Screen - 1}
<1>2. /\ reuseQueue' = reuseQueue \union {shown[r] : r \in leaving}
      /\ shown' = [r \in DOMAIN shown \ leaving |-> shown[r]]
      /\ loaded /\ Details!Missing = {} /\ UNCHANGED <<EventType, loaded, aCells>>
  BY <1>1 DEF Details!Scroll
<1>3. Details!AllRows' = Details!AllRows /\ aCells = Details!AllRows
  BY <1>2 DEF Details!AllRows, DetailsInv, DetailsTable
<1>4. Screen \in Nat /\ Screen > 0 /\ Len(EventType) = Screen + 1 /\ to \in {1, 2} /\ top \in {1, 2}
  BY <1>1, DetailsFacts DEF DetailsInv, DetailsTable, Details!AllRows
<1>5. DOMAIN shown = top..top + Screen - 1
  <2>1. Details!Window = top..top + Screen - 1
    BY <1>4 DEF Details!Window, Details!AllRows
  <2> QED BY <1>2, <2>1, DetailsFacts DEF DetailsInv, Details!Missing
<1>6. leaving \subseteq EdgeRows
  BY <1>4, <1>5 DEF EdgeRows
<1>7. 2..Screen \subseteq DOMAIN shown \ leaving /\ DOMAIN shown \ leaving \subseteq to..to + Screen - 1
  BY <1>4, <1>5
<1> HIDE DEF leaving
<1>8. DOMAIN shown' = DOMAIN shown \ leaving /\ \A r \in DOMAIN shown' : shown'[r] = shown[r]
  BY <1>2
<1>9. \A r \in leaving : r \in DOMAIN shown
  BY DEF leaving
<1>10. reuseQueue' \subseteq EdgeRows /\ reuseQueue' \subseteq Details!AllRows
  BY <1>2, <1>3, <1>6, <1>9 DEF DetailsInv, CellsLentAtEdges, QueueFromEdges, Details!TypeOK
<1>11. DOMAIN shown' \subseteq Details!Window'
  BY <1>1, <1>3, <1>4, <1>5, <1>7, <1>8 DEF Details!Window, Details!AllRows
<1>12. CellsLentAtEdges' /\ QueueFromEdges'
  BY <1>2, <1>3, <1>7, <1>8, <1>10 DEF DetailsInv, CellsLentAtEdges, QueueFromEdges, EdgeRows
<1>13. Details!TypeOK'
  BY <1>1, <1>2, <1>3, <1>4, <1>8, <1>10, <1>11 DEF DetailsInv, Details!TypeOK, CellsLentAtEdges
<1>14. DetailsTable' /\ Details!NothingReused'
  BY <1>1, <1>2, <1>3, <1>4 DEF DetailsInv, DetailsTable, Details!NothingReused
<1> QED BY <1>12, <1>13, <1>14 DEF DetailsInv

LEMMA DetailsUnchanged == DetailsInv /\ UNCHANGED contentDetailsVars => DetailsInv'
<1> SUFFICES ASSUME DetailsInv, UNCHANGED contentDetailsVars PROVE DetailsInv'
  OBVIOUS
<1>1. UNCHANGED <<EventType, loaded, aCells, top, shown, reuseQueue>>
  BY DEF contentDetailsVars
<1>2. Details!AllRows' = Details!AllRows /\ Details!Window' = Details!Window
  BY <1>1 DEF Details!AllRows, Details!Window
<1> QED BY <1>1, <1>2 DEF DetailsInv, Details!TypeOK, DetailsTable, CellsLentAtEdges, QueueFromEdges, Details!NothingReused, EdgeRows

\* Both edges are never on screen at once.
LEMMA NoCellTwiceOnScreen == DetailsInv => Details!NoCellTwice
<1> SUFFICES ASSUME DetailsInv, NEW r \in DOMAIN shown, NEW o \in DOMAIN shown, shown[r] = shown[o], r # o
             PROVE  FALSE
  BY DEF Details!NoCellTwice
<1>1. r \in top..top + Screen - 1 /\ o \in top..top + Screen - 1 /\ top \in {1, 2}
  BY DetailsFacts DEF DetailsInv, DetailsTable, Details!Window
<1>2. r \in EdgeRows /\ o \in EdgeRows
  BY DEF DetailsInv, CellsLentAtEdges
<1> QED BY <1>1, <1>2, DetailsFacts DEF DetailsInv, EdgeRows

\* ContentDetailsView.m:216, :222: for any events that have at most one content
\* more than fit on the screen, a row's cell is its own or of its class, and no
\* cell is given to two rows.
THEOREM DetailsSoundHolds == ScreensSpec => []DetailsSound
<1>1. ScreensInit => DetailsInv
  BY DetailsInitially DEF ScreensInit
<1>2. DetailsInv /\ [ScreensNext]_screenVars => DetailsInv'
  <2>1. DetailsInv /\ Details!Next => DetailsInv'
    BY DetailsEmptied, DetailsCell, DetailsScrolls DEF Details!Next
  <2> QED BY <2>1, DetailsUnchanged DEF ScreensNext, screenVars
<1>3. DetailsInv => DetailsSound
  <2> SUFFICES ASSUME DetailsInv PROVE DetailsSound
    OBVIOUS
  <2>1. Details!RowsShowTheirOwn
    BY DEF DetailsInv, CellsLentAtEdges, Details!RowsShowTheirOwn
  <2> QED BY <2>1, NoCellTwiceOnScreen DEF DetailsInv, DetailsSound, Details!ContentDetailsSound
<1> QED BY <1>1, <1>2, <1>3, PTL DEF ScreensSpec
=============================================================================
