------------------------------ MODULE MyContent ------------------------------
(***************************************************************************)
(* The screen of collected content, MyContentView.m.  Content arrives      *)
(* while another tab is shown; the rows are filled from an iterator that   *)
(* every request for a cell moves on, not from the row that is asked for.  *)
(* The table asks for the cells of the rows on screen when it is laid out, *)
(* after the handler that reloaded it has returned.                        *)
(***************************************************************************)
EXTENDS Integers, Sequences, SequencesExt, FiniteSetsExt

CONSTANTS
  MaxContent,  \* bound: content collected
  Screen       \* rows that fit on the screen

MyContentAssumption == MaxContent \in Nat /\ Screen \in Nat \ {0}

VARIABLES
  view,                       \* unloaded, hidden, appearing or displayed
  count,                      \* of ContentArray; content k is the k-th collected, from 0
  numOfNewContent, badgeValue, \* no badge is 0
  contentIterator,
  rows,                       \* how many the table was told of
  top,                        \* first row on screen
  shown,                      \* the content in the cell of each row that has one
  reusable,                   \* what the cells in the reuse queue show
  seen,                       \* history: content collected when the view appeared last
  straight                    \* history: rows have only come from the bottom since the last layout from the top

myContentVars == <<view, count, numOfNewContent, badgeValue, contentIterator, rows, top, shown, reusable, seen, straight>>
badge == <<numOfNewContent, badgeValue, seen>>

Blank == -1
Nothing == [row \in {} |-> Blank]
Window == {row \in top..top + Screen - 1 : row < rows}
Missing == Window \ DOMAIN shown
LaidOut == Missing = {}

TypeOK ==
  /\ view \in {"unloaded", "hidden", "appearing", "displayed"}
  /\ count \in 0..MaxContent /\ {numOfNewContent, badgeValue, seen, contentIterator, rows} \subseteq 0..MaxContent
  /\ DOMAIN shown \subseteq Window /\ reusable \in Seq(Blank..MaxContent - 1) /\ straight \in BOOLEAN

Init ==
  /\ view = "unloaded" /\ count = 0 /\ numOfNewContent = 0 /\ badgeValue = 0 /\ contentIterator = 0
  /\ rows = 0 /\ top = 0 /\ shown = Nothing /\ reusable = <<>> /\ seen = 0 /\ straight = TRUE

\* Pressing Record with segment 0, on another tab.
HandleNewContent ==
  /\ view \in {"unloaded", "hidden"} /\ count < MaxContent
  /\ count' = count + 1 /\ numOfNewContent' = numOfNewContent + 1 /\ badgeValue' = numOfNewContent'
  /\ UNCHANGED <<view, contentIterator, rows, top, shown, reusable, seen, straight>>

\* The view is loaded to be shown, with a new table.
viewDidLoad ==
  /\ view = "unloaded" /\ view' = "appearing"
  /\ contentIterator' = 0 /\ numOfNewContent' = 0
  /\ rows' = count /\ top' = 0 /\ shown' = Nothing /\ reusable' = <<>> /\ straight' = TRUE
  /\ UNCHANGED <<count, badgeValue, seen>>

viewWillAppear ==
  /\ view = "hidden" /\ view' = "appearing"
  /\ UNCHANGED <<count, badge, contentIterator, rows, top, shown, reusable, straight>>

\* The cells on screen are taken back, in any order.
TakenBack == \E cells \in SetToSeqs(DOMAIN shown) : reusable' = reusable \o [k \in DOMAIN cells |-> shown[cells[k]]]
reloadData ==
  /\ rows' = count /\ shown' = Nothing /\ TakenBack /\ straight' = (top = 0)

\* Mutant of viewDidAppear: the iterator stays at the end of what was shown before.
viewDidAppearGoingOn ==
  /\ view = "appearing" /\ LaidOut /\ view' = "displayed"
  /\ badgeValue' = 0 /\ seen' = count /\ reloadData
  /\ UNCHANGED <<count, numOfNewContent, contentIterator, top>>

viewDidAppear ==
  /\ view = "appearing" /\ LaidOut /\ view' = "displayed"
  /\ badgeValue' = 0 /\ seen' = count /\ reloadData /\ contentIterator' = 0
  /\ UNCHANGED <<count, numOfNewContent, top>>

\* The segments "All" and "Expiring", which show the same.
SegmentedControlTouched ==
  /\ view = "displayed" /\ LaidOut /\ reloadData /\ contentIterator' = 0
  /\ UNCHANGED <<view, count, badge, top>>

\* A reused cell keeps what it showed when the iterator has reached the end.
cellForRowAtIndexPath ==
  /\ view \in {"appearing", "displayed"} /\ ~LaidOut
  /\ \E k \in DOMAIN reusable \union {0} :
       /\ k = 0 <=> reusable = <<>>
       /\ reusable' = IF k = 0 THEN reusable ELSE RemoveAt(reusable, k)
       /\ LET content == IF contentIterator < count THEN contentIterator ELSE IF k = 0 THEN Blank ELSE reusable[k]
          IN shown' = [row \in DOMAIN shown \union {Min(Missing)} |-> IF row \in DOMAIN shown THEN shown[row] ELSE content]
  /\ contentIterator' = IF contentIterator < count THEN contentIterator + 1 ELSE contentIterator
  /\ UNCHANGED <<view, count, badge, rows, top, straight>>

\* Scrolling by a row takes back the cell of the row that leaves.
Scroll(by) ==
  /\ view = "displayed" /\ LaidOut /\ top + by \in 0..rows - Screen
  /\ LET leaving == IF by = 1 THEN top ELSE top + Screen - 1
     IN /\ shown' = [row \in DOMAIN shown \ {leaving} |-> shown[row]]
        /\ reusable' = Append(reusable, shown[leaving])
  /\ top' = top + by /\ straight' = (straight /\ by = 1)
  /\ UNCHANGED <<view, count, badge, contentIterator, rows>>

Disappear ==
  /\ view = "displayed" /\ LaidOut /\ view' = "hidden"
  /\ UNCHANGED <<count, badge, contentIterator, rows, top, shown, reusable, straight>>

viewDidUnload ==
  /\ view = "hidden" /\ view' = "unloaded"
  /\ rows' = 0 /\ top' = 0 /\ shown' = Nothing /\ reusable' = <<>>
  /\ UNCHANGED <<count, badge, contentIterator, straight>>

Next ==
  \/ HandleNewContent \/ viewDidLoad \/ viewWillAppear \/ viewDidAppear \/ SegmentedControlTouched
  \/ cellForRowAtIndexPath \/ Scroll(1) \/ Scroll(-1) \/ Disappear \/ viewDidUnload

Spec == Init /\ [][Next]_myContentVars

(***************************************************************************)
(* Properties.                                                             *)
(***************************************************************************)
\* MyContentView.m:160: while rows come in their order, from the first one on, the
\* iterator is at the row that comes next and each row shows its own content.
RowsShowTheirOwn ==
  straight /\ view # "unloaded" => \A row \in DOMAIN shown : shown[row] = row

\* MyContentView.m:79: there is a badge exactly while there is content the user has
\* not been shown, and it never counts less than there is.
BadgeCountsNews == (badgeValue > 0 <=> count > seen) /\ badgeValue >= count - seen

MyContentSound == TypeOK /\ RowsShowTheirOwn /\ BadgeCountsNews
=============================================================================
