------------------------------- MODULE YPipe -------------------------------
(***************************************************************************)
(* ypipe_t over yqueue_t: the lock-free queue between one writer thread    *)
(* and one reader thread.  Items lie in chunks of N cells that the writer  *)
(* allocates and the reader frees, keeping one as a spare that the writer  *)
(* may use again, so that a cell's address can come back while pointers to *)
(* it are still compared.  The threads meet only in the pointer c and in   *)
(* the spare chunk, both atomic.                                           *)
(***************************************************************************)
EXTENDS Integers, Sequences, FiniteSets

CONSTANTS
  Value,
  Chunk,    \* the addresses malloc can return
  N,        \* cells in a chunk
  MaxCells, \* bound: cells in use at a time
  NULL

YPipeAssumption ==
  /\ N \in Nat \ {0, 1}
  /\ MaxCells \in Nat
  /\ NULL \notin Chunk \union (Chunk \X (0..N - 1))

VARIABLES
  heap,                     \* the chunks allocated
  values, prev, next,       \* what the chunks hold; an item taken out is not kept
  begin_chunk, begin_pos, back_chunk, back_pos, end_chunk, end_pos,
  spare_chunk,
  w, f, r, c,               \* pointers to cells
  flushing,                 \* the writer is between the failed swap and c.set
  reader                    \* is the reader awake, asleep, or being woken?

memory == <<heap, values, prev, next>>
frontVars == <<begin_chunk, begin_pos>>
backVars == <<back_chunk, back_pos, end_chunk, end_pos>>
pointers == <<w, f, r, c>>
vars == <<memory, frontVars, backVars, spare_chunk, pointers, flushing, reader>>

Pos == 0..N - 1
Cell == Chunk \X Pos

FrontCell == <<begin_chunk, begin_pos>>
BackCell == <<back_chunk, back_pos>>

TypeOK ==
  /\ heap \subseteq Chunk
  /\ values \in [Cell -> Value \union {NULL}]
  /\ prev \in [Chunk -> Chunk \union {NULL}] /\ next \in [Chunk -> Chunk \union {NULL}]
  /\ FrontCell \in Cell /\ BackCell \in Cell /\ <<end_chunk, end_pos>> \in Cell
  /\ spare_chunk \in Chunk \union {NULL}
  /\ {w, f, r} \subseteq Cell /\ c \in Cell \union {NULL}
  /\ flushing \in BOOLEAN
  /\ reader \in {"awake", "asleep", "signalled"}

\* The constructors: one chunk, and the terminator in its first cell.
Init ==
  \E first \in Chunk :
    /\ heap = {first}
    /\ values = [cell \in Cell |-> NULL]
    /\ prev = [k \in Chunk |-> NULL] /\ next = [k \in Chunk |-> NULL]
    /\ begin_chunk = first /\ begin_pos = 0
    /\ back_chunk = first /\ back_pos = 0
    /\ end_chunk = first /\ end_pos = 1
    /\ spare_chunk = NULL
    /\ w = <<first, 0>> /\ f = <<first, 0>> /\ r = <<first, 0>> /\ c = <<first, 0>>
    /\ flushing = FALSE
    /\ reader = "awake"

(***************************************************************************)
(* yqueue_t.                                                               *)
(***************************************************************************)

\* The cell after another in the list of chunks.
After(cell) == IF cell[2] + 1 # N THEN <<cell[1], cell[2] + 1>> ELSE <<next[cell[1]], 0>>

\* The cells from the front to the terminator.
walk[j \in Nat] == IF j = 0 THEN FrontCell ELSE After(walk[j - 1])
Live ==
  LET length == CHOOSE j \in 0..MaxCells : walk[j] = BackCell /\ \A k \in 0..j - 1 : walk[k] # BackCell
  IN [j \in 1..length + 1 |-> walk[j - 1]]

\* back and end move one cell on; a chunk that is full is followed by the
\* spare one, or by a new one.
Push ==
  /\ back_chunk' = end_chunk /\ back_pos' = end_pos
  /\ IF end_pos + 1 # N
       THEN /\ end_pos' = end_pos + 1
            /\ UNCHANGED <<heap, prev, next, end_chunk, spare_chunk>>
       ELSE /\ end_pos' = 0
            /\ \E k \in IF spare_chunk # NULL THEN {spare_chunk} ELSE Chunk \ heap :
                 /\ heap' = heap \union {k}
                 /\ next' = [next EXCEPT ![end_chunk] = k]
                 /\ prev' = [prev EXCEPT ![k] = end_chunk]
                 /\ end_chunk' = k
            /\ spare_chunk' = NULL

Unpush ==
  /\ IF back_pos # 0 THEN back_pos' = back_pos - 1 /\ UNCHANGED back_chunk
                     ELSE back_pos' = N - 1 /\ back_chunk' = prev[back_chunk]
  /\ IF end_pos # 0
       THEN end_pos' = end_pos - 1 /\ UNCHANGED <<end_chunk, heap, next>>
       ELSE /\ end_pos' = N - 1
            /\ end_chunk' = prev[end_chunk]
            /\ heap' = heap \ {next[prev[end_chunk]]}
            /\ next' = [next EXCEPT ![prev[end_chunk]] = NULL]
  /\ UNCHANGED prev

\* The chunk left behind becomes the spare one, and the old spare is freed.
Pop ==
  IF begin_pos + 1 # N
    THEN begin_pos' = begin_pos + 1 /\ UNCHANGED <<heap, prev, begin_chunk, spare_chunk>>
    ELSE /\ begin_pos' = 0
         /\ begin_chunk' = next[begin_chunk]
         /\ prev' = [prev EXCEPT ![next[begin_chunk]] = NULL]
         /\ spare_chunk' = begin_chunk
         /\ heap' = heap \ {spare_chunk}

(***************************************************************************)
(* The writer.                                                             *)
(***************************************************************************)
WriterUnchanged == UNCHANGED <<frontVars, r, reader>>

Write(v, incomplete) ==
  /\ ~flushing /\ Len(Live) < MaxCells
  /\ values' = [values EXCEPT ![BackCell] = v]
  /\ Push
  /\ f' = IF incomplete THEN f ELSE <<back_chunk', back_pos'>>
  /\ WriterUnchanged /\ UNCHANGED <<w, c, flushing>>

Unwrite ==
  /\ ~flushing /\ f # BackCell
  /\ Unpush
  /\ values' = [values EXCEPT ![<<back_chunk', back_pos'>>] = NULL]
  /\ WriterUnchanged /\ UNCHANGED <<spare_chunk, w, f, c, flushing>>

\* atomic_ptr_t::cas, which returns what c was.
cas(cmp, val) == c' = IF c = cmp THEN val ELSE c

\* Mutant of FlushSwap: the reader is woken before c is set.
FlushSignalling ==
  /\ ~flushing /\ w # f
  /\ IF c = w THEN c' = f /\ w' = f /\ UNCHANGED <<flushing, reader>>
              ELSE flushing' = TRUE /\ reader' = "signalled" /\ UNCHANGED <<c, w>>
  /\ UNCHANGED <<frontVars, r, memory, backVars, spare_chunk, f>>

\* flush, up to its compare-and-swap.  If c is not w, the reader is asleep.
FlushSwap ==
  /\ ~flushing /\ w # f /\ cas(w, f)
  /\ IF c = w THEN w' = f /\ UNCHANGED flushing ELSE flushing' = TRUE /\ UNCHANGED w
  /\ WriterUnchanged /\ UNCHANGED <<memory, backVars, spare_chunk, f>>

\* The rest of flush for a reader that sleeps, and the caller's wake-up call.
FlushSet ==
  /\ flushing
  /\ c' = f /\ w' = f
  /\ flushing' = FALSE
  /\ reader' = "signalled"
  /\ UNCHANGED <<memory, frontVars, backVars, spare_chunk, f, r>>

(***************************************************************************)
(* The reader, which leaves the pipe alone while it sleeps.                *)
(***************************************************************************)
Prefetched == FrontCell # r

ReaderUnchanged == UNCHANGED <<next, backVars, w, f, flushing>>

\* check_read with nothing prefetched.
CheckRead ==
  /\ reader = "awake" /\ ~Prefetched
  /\ r' = c /\ cas(FrontCell, NULL)
  /\ reader' = IF c = FrontCell \/ c = NULL THEN "asleep" ELSE "awake"
  /\ ReaderUnchanged /\ UNCHANGED <<heap, values, prev, frontVars, spare_chunk>>

Read ==
  /\ reader = "awake" /\ Prefetched
  /\ Pop
  /\ values' = [values EXCEPT ![FrontCell] = NULL]
  /\ ReaderUnchanged /\ UNCHANGED <<r, c, reader>>

Wake ==
  /\ reader = "signalled"
  /\ reader' = "awake"
  /\ ReaderUnchanged /\ UNCHANGED <<heap, values, prev, frontVars, spare_chunk, r, c>>

Next ==
  \/ \E v \in Value, incomplete \in BOOLEAN : Write(v, incomplete)
  \/ Unwrite \/ FlushSwap \/ FlushSet
  \/ CheckRead \/ Read \/ Wake

Spec == Init /\ [][Next]_vars

(***************************************************************************)
(* Properties.                                                             *)
(***************************************************************************)
LiveCells == LET cells == Live IN {cells[j] : j \in DOMAIN cells}
LiveChunks == {cell[1] : cell \in LiveCells} \union {end_chunk}

\* yqueue.hpp neither leaks nor reuses what is in use: the chunks allocated
\* are those of the list and the spare one, the spare one is not in the list,
\* and the list can be walked back as far as the writer may have to.
ChunksOwned ==
  LET live == LiveChunks
  IN /\ spare_chunk \notin live
     /\ heap = live \union ({spare_chunk} \ {NULL})
     /\ \A k \in live \ {begin_chunk} : prev[k] \in live /\ next[prev[k]] = k

\* A cell's address identifies it: the pointers compared for equality all
\* point into the queue, so a chunk that was freed and reused never makes two
\* different cells look the same.
PointersLive ==
  LET cells == LiveCells
  IN {w, f, r} \subseteq cells /\ (c # NULL => c \in cells)

\* ypipe.hpp:132, "during pipe's lifetime r should never be NULL": the reader
\* is always awake when it looks, however late the wake-up call comes.
PrefetchNeverNull == r # NULL

\* The pipe keeps the promise of FlushedQueue: nothing incomplete or unflushed
\* is read, nothing is lost or repeated, and a flush reports a sleeping reader
\* exactly when there is one.
Between(from, to) ==
  LET cells == Live
      At(cell) == CHOOSE j \in DOMAIN cells : cells[j] = cell
      first == At(from)
  IN [j \in 1..At(to) - first |-> values[cells[first + j - 1]]]

Promise == INSTANCE FlushedQueue WITH
  partial <- Between(f, BackCell), unflushed <- Between(w, f), flushed <- Between(FrontCell, w)

ImplementsFlushedQueue == Promise!Spec

YPipeSound == TypeOK /\ ChunksOwned /\ PointersLive /\ PrefetchNeverNull
=============================================================================
