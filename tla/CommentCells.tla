---------------------------- MODULE CommentCells ----------------------------
(***************************************************************************)
(* The comment rows of the real-time feed, RealTimeFeedView.m.  A row that *)
(* scrolls onto the screen is given a cell, a reused one if the table has  *)
(* any, and the user's picture is loaded on a global dispatch queue; the   *)
(* block holds the image view of the cell, and sets it on the main thread  *)
(* when the load completes, whichever row the cell shows by then.          *)
(*                                                                         *)
(* The handler runs on the main thread, so no picture is set before it     *)
(* returns: dispatching the load and then setting the default image is one *)
(* step.  Loads run concurrently and complete in any order.                *)
(***************************************************************************)
EXTENDS Naturals

CONSTANTS
  Rows,              \* the comments of the feed
  Cells,             \* bound: cells the table creates
  MaxLoads,          \* bound: loads in progress for one cell and row
  LoadsBeforeReuse,  \* does a row stay on screen until its cell's loads are over?
  None,              \* the row of a cell that is in the table's reuse queue
  DefaultPicture,    \* DefaultFacebookProfile
  NoPicture          \* the image of a load that failed: nil

ASSUME MaxLoadsIsPositive == MaxLoads \in Nat \ {0}
ASSUME LoadsIsBoolean == LoadsBeforeReuse \in BOOLEAN
ASSUME PicturesDiffer == None \notin Rows /\ DefaultPicture \notin Rows /\ NoPicture \notin Rows

VARIABLES
  created,  \* the cells instantiated so far
  row,      \* the row each cell shows
  ivUser,   \* the image of each cell: the picture of a row's user, or none of them
  loading   \* loads in progress, by the cell and the row they were started for

vars == <<created, row, ivUser, loading>>

Picture == Rows \union {DefaultPicture, NoPicture}

TypeOK ==
  /\ created \subseteq Cells
  /\ row \in [Cells -> Rows \union {None}]
  /\ ivUser \in [Cells -> Picture]
  /\ loading \in [Cells \X Rows -> 0..MaxLoads]

Init ==
  /\ created = {}
  /\ row = [c \in Cells |-> None]
  /\ ivUser = [c \in Cells |-> NoPicture]
  /\ loading = [l \in Cells \X Rows |-> 0]

OnScreen(r) == \E c \in Cells : row[c] = r
Reusable == {c \in created : row[c] = None}

\* dequeueReusableCellWithIdentifier, or a new cell of the nib if it has none.
CellFor(c) ==
  /\ c \in IF Reusable # {} THEN Reusable ELSE Cells \ created
  /\ created' = created \union {c}

\* Mutant of LoadPicture: only a cell that is created loads a picture.
LoadPictureOnce(c, r) ==
  loading' = IF c \in created THEN loading ELSE [loading EXCEPT ![<<c, r>>] = @ + 1]

LoadPicture(c, r) == loading' = [loading EXCEPT ![<<c, r>>] = @ + 1]

\* Mutant of ResetPicture: a reused cell keeps the image it has.
KeepPicture(c) == UNCHANGED ivUser

ResetPicture(c) == ivUser' = [ivUser EXCEPT ![c] = DefaultPicture]

\* generateCellForEventTypeComment, for a row that comes onto the screen.
CellForRow(r) ==
  /\ ~OnScreen(r)
  /\ \E c \in Cells :
       /\ loading[<<c, r>>] < MaxLoads
       /\ CellFor(c)
       /\ LoadPicture(c, r)
       /\ ResetPicture(c)
       /\ row' = [row EXCEPT ![c] = r]

\* The table takes back the cell of a row that leaves the screen.
RowLeaves(r) ==
  \E c \in Cells :
    /\ row[c] = r
    /\ LoadsBeforeReuse => \A s \in Rows : loading[<<c, s>>] = 0
    /\ row' = [row EXCEPT ![c] = None]
    /\ UNCHANGED <<created, ivUser, loading>>

\* The end of a load, on the main thread.
PictureLoaded(c, r) ==
  /\ loading[<<c, r>>] > 0
  /\ loading' = [loading EXCEPT ![<<c, r>>] = @ - 1]
  /\ \E image \in {r, NoPicture} : ivUser' = [ivUser EXCEPT ![c] = image]
  /\ UNCHANGED <<created, row>>

Next ==
  \/ \E r \in Rows : CellForRow(r) \/ RowLeaves(r)
  \/ \E c \in Cells, r \in Rows : PictureLoaded(c, r)

\* Every load ends, well or badly.
Fairness == \A c \in Cells, r \in Rows : WF_vars(PictureLoaded(c, r))

Spec == Init /\ [][Next]_vars
FairSpec == Spec /\ Fairness

\* RealTimeFeedView.m:334, "Async load user picture": a row on screen never
\* shows the picture of another comment's user, whatever its cell showed before.
NoForeignPicture ==
  \A c \in Cells : row[c] # None => ivUser[c] \in {row[c], DefaultPicture, NoPicture}

CommentsSound == TypeOK /\ NoForeignPicture

\* A row that stays on screen does not keep the default image: the load
\* started for it sets its user's picture, or none if it fails.
EveryRowLoaded ==
  \A c \in Cells, r \in Rows :
    row[c] = r /\ ivUser[c] = DefaultPicture ~> row[c] # r \/ ivUser[c] \in {r, NoPicture}
=============================================================================
