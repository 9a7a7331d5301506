---------------------------- MODULE FlushedQueue ----------------------------
(***************************************************************************)
(* What ypipe_t promises its two threads.  The writer's items become       *)
(* visible to the reader when it flushes, never the items of an incomplete *)
(* message.  A reader that finds nothing goes to sleep; the flush that     *)
(* ends its sleep tells the writer so, who then has to wake the reader.    *)
(***************************************************************************)
EXTENDS Integers, Sequences

CONSTANT Value

VARIABLES
  partial,    \* the items of the message being written
  unflushed,  \* complete messages the writer has not flushed yet
  flushed,    \* items the reader can read
  reader      \* "awake", "asleep", or "signalled": asleep, and being woken

queueVars == <<partial, unflushed, flushed, reader>>

QueueTypeOK ==
  /\ partial \in Seq(Value)
  /\ unflushed \in Seq(Value)
  /\ flushed \in Seq(Value)
  /\ reader \in {"awake", "asleep", "signalled"}

Init ==
  /\ partial = <<>>
  /\ unflushed = <<>>
  /\ flushed = <<>>
  /\ reader = "awake"

Write(v, incomplete) ==
  /\ IF incomplete
       THEN partial' = Append(partial, v) /\ UNCHANGED unflushed
       ELSE partial' = <<>> /\ unflushed' = unflushed \o Append(partial, v)
  /\ UNCHANGED <<flushed, reader>>

Unwrite ==
  /\ partial # <<>>
  /\ partial' = SubSeq(partial, 1, Len(partial) - 1)
  /\ UNCHANGED <<unflushed, flushed, reader>>

\* Flushing tells whether the reader was asleep.
Flush ==
  /\ unflushed # <<>>
  /\ flushed' = flushed \o unflushed
  /\ unflushed' = <<>>
  /\ reader' = IF reader = "asleep" THEN "signalled" ELSE reader
  /\ UNCHANGED partial

Sleep ==
  /\ reader = "awake" /\ flushed = <<>>
  /\ reader' = "asleep"
  /\ UNCHANGED <<partial, unflushed, flushed>>

Read ==
  /\ reader = "awake" /\ flushed # <<>>
  /\ flushed' = Tail(flushed)
  /\ UNCHANGED <<partial, unflushed, reader>>

Wake ==
  /\ reader = "signalled"
  /\ reader' = "awake"
  /\ UNCHANGED <<partial, unflushed, flushed>>

Next ==
  \/ \E v \in Value, incomplete \in BOOLEAN : Write(v, incomplete)
  \/ Unwrite \/ Flush \/ Sleep \/ Read \/ Wake

Spec == Init /\ [][Next]_queueVars
=============================================================================
