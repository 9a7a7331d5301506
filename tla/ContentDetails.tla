--------------------------- MODULE ContentDetails ---------------------------
(***************************************************************************)
(* The details of an event, ContentDetailsView.m.  The view generates the  *)
(* cell of every row when it loads, and keeps them all; but when the table *)
(* asks for a row it first looks for a reused cell of the row's class of   *)
(* content, and returns it with whatever it shows.                         *)
(***************************************************************************)
EXTENDS Integers, Sequences, FiniteSetsExt

CONSTANTS
  Events,  \* of the feed, each the classes of its aContentTypes
  Screen   \* rows that fit on the screen

\* A cell's own row and the row it is lent to are never both on screen in an
\* event of so few contents; no event of the catalog has more than three.
FewContents == \A event \in Events : Len(event) <= Screen + 1

ContentDetailsAssumption ==
  /\ Screen \in Nat \ {0} /\ \A event \in Events : Len(event) \in Nat
  /\ FewContents

VARIABLES
  EventType, loaded,
  aCells,       \* rows whose cell was generated; a cell is named by the row it was generated for
  top,          \* first row on screen
  shown,        \* the cell each row on screen has
  reuseQueue    \* cells the table has taken back

contentDetailsVars == <<EventType, loaded, aCells, top, shown, reuseQueue>>

AllRows == 1..Len(EventType)
Window == {row \in top..top + Screen - 1 : row \in AllRows}
Missing == Window \ DOMAIN shown
NoCells == [row \in {} |-> 0]

\* The class of the content a row or a cell is for.
GetCellIdentifierForEventType(row) == EventType[row]

TypeOK ==
  /\ EventType \in Events /\ loaded \in BOOLEAN /\ aCells \in {{}, AllRows} /\ top \in 1..Len(EventType) + 1
  /\ DOMAIN shown \subseteq Window /\ {shown[row] : row \in DOMAIN shown} \subseteq aCells
  /\ reuseQueue \subseteq aCells

Init ==
  /\ EventType \in Events /\ loaded = FALSE /\ aCells = {} /\ top = 1 /\ shown = NoCells /\ reuseQueue = {}

PopulateCellsArray == aCells' = AllRows
viewDidLoad ==
  /\ ~loaded /\ loaded' = TRUE
  /\ PopulateCellsArray /\ top' = 1 /\ shown' = NoCells /\ reuseQueue' = {}
  /\ UNCHANGED EventType

\* Mutant of Dequeued: whatever cell the table has taken back.
DequeuedOfAny(row) == reuseQueue

Dequeued(row) == {cell \in reuseQueue : GetCellIdentifierForEventType(cell) = GetCellIdentifierForEventType(row)}

cellForRowAtIndexPath ==
  /\ loaded /\ Missing # {}
  /\ LET row == Min(Missing)
     IN \E cell \in IF Dequeued(row) # {} THEN Dequeued(row) ELSE {row} :
          /\ shown' = [other \in DOMAIN shown \union {row} |-> IF other = row THEN cell ELSE shown[other]]
          /\ reuseQueue' = reuseQueue \ {cell}
  /\ UNCHANGED <<EventType, loaded, aCells, top>>

\* Scrolling takes back the cells of the rows that leave.
Scroll ==
  /\ loaded /\ Missing = {}
  /\ \E to \in AllRows :
       /\ to # top /\ to + Screen - 1 \in AllRows /\ top' = to
       /\ LET leaving == {row \in DOMAIN shown : row \notin to..to + Screen - 1}
          IN /\ reuseQueue' = reuseQueue \union {shown[row] : row \in leaving}
             /\ shown' = [row \in DOMAIN shown \ leaving |-> shown[row]]
  /\ UNCHANGED <<EventType, loaded, aCells>>

\* Under another screen, when memory runs low.
viewDidUnload ==
  /\ loaded /\ Missing = {} /\ loaded' = FALSE
  /\ shown' = NoCells /\ reuseQueue' = {} /\ UNCHANGED <<EventType, aCells, top>>

Next == viewDidLoad \/ cellForRowAtIndexPath \/ Scroll \/ viewDidUnload

Spec == Init /\ [][Next]_contentDetailsVars

(***************************************************************************)
(* Properties.                                                             *)
(***************************************************************************)
\* ContentDetailsView.m:216: however the table is scrolled, a row whose class of
\* content no other row has shows its own cell, and others one of their class.
RowsShowTheirOwn ==
  \A row \in DOMAIN shown :
    /\ EventType[shown[row]] = EventType[row]
    /\ shown[row] # row => \E other \in AllRows \ {row} : EventType[other] = EventType[row]

\* ContentDetailsView.m:222: no cell is given to two rows on screen, of which one
\* would remain empty.
NoCellTwice == \A row, other \in DOMAIN shown : shown[row] = shown[other] => row = other

\* As long as all rows fit on the screen each shows its own.
NothingReused == Len(EventType) <= Screen => \A row \in DOMAIN shown : shown[row] = row

ContentDetailsSound == TypeOK /\ RowsShowTheirOwn /\ NoCellTwice /\ NothingReused
=============================================================================
