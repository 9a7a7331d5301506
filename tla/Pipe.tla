-------------------------------- MODULE Pipe --------------------------------
(***************************************************************************)
(* reader_t and writer_t: the two ends of a pipe of messages between two   *)
(* threads.  The messages lie in a ypipe_t; beside it the ends send each   *)
(* other commands through the mailboxes of their threads, which keep the   *)
(* order.  The writer may hold messages back in a swap when the pipe is    *)
(* full.  Either end may ask for the termination of the pipe at any time.  *)
(***************************************************************************)
EXTENDS Integers, Sequences, FiniteSets

CONSTANTS
  PipeKinds,      \* what create_pipe is asked for: [hwm, swap_size, batches]
  max_wm_delta,
  MaxMessages,    \* bound: messages written
  MaxParts,       \* parts of a message
  Delimiter

VARIABLES
  created,                                                      \* one of the kinds
  partial, unflushed, flushed, reader,                          \* the ypipe_t
  reader_active, reader_read, reader_terminating, reader_gone,  \* reader_t
  writer_active, msgs_read, msgs_written, swapping,             \* writer_t
  pending_delimiter, writer_terminating, writer_gone,
  swap,           \* the parts in the swap
  commit,         \* where the swap's commit_pos is, from its read_pos on
  rollback_ok,    \* no rollback has left the swap wrong: what follows is not modelled
  toReader, toWriter,                                           \* commands
  last_written, last_read                                       \* parts

ypipeVars == <<partial, unflushed, flushed, reader>>
readerVars == <<reader_active, reader_read, reader_terminating, reader_gone, last_read>>
swapVars == <<swap, commit, rollback_ok>>
countVars == <<msgs_read, msgs_written>>
modeVars == <<swapping, pending_delimiter, writer_terminating, writer_gone>>
writerVars == <<swapVars, countVars, modeVars, writer_active, last_written>>
vars == <<created, ypipeVars, readerVars, writerVars, toReader, toWriter>>

hwm == created.hwm             \* high watermark, 0 for none
SwapSize == created.swap_size  \* message parts the swap holds, 0 for no swap
Batches == created.batches     \* the writer flushes a batch of messages: it is a session

\* A part: the number of its message, its own number, and is there MORE?
Part == (1..MaxMessages) \X (1..MaxParts) \X BOOLEAN
More(p) == p[3]
NoPart == <<0, 1, FALSE>>

PipeAssumption ==
  /\ PipeKinds # {} /\ PipeKinds \subseteq [hwm : Nat, swap_size : Nat, batches : BOOLEAN]
  /\ {max_wm_delta, MaxMessages, MaxParts} \subseteq Nat \ {0} /\ Delimiter \notin Part \union {NoPart}

ypipe == INSTANCE FlushedQueue WITH Value <- Part \union {Delimiter}

Command == {<<"activate_writer", n>> : n \in 0..MaxMessages} \union {<<"pipe_term">>}

TypeOK ==
  /\ created \in PipeKinds /\ ypipe!QueueTypeOK
  /\ {reader_active, reader_terminating, reader_gone, writer_active, swapping,
      pending_delimiter, writer_terminating, writer_gone, rollback_ok} \subseteq BOOLEAN
  /\ {reader_read, msgs_read, msgs_written} \subseteq 0..MaxMessages
  /\ swap \in Seq(Part) /\ Len(swap) <= SwapSize
  /\ commit \in Int
  /\ toReader \in Seq({"activate_reader", "pipe_term_ack"})
  /\ toWriter \in Seq(Command)
  /\ {last_written, last_read} \subseteq Part \union {NoPart}

lwm == IF hwm > max_wm_delta * 2 THEN hwm - max_wm_delta ELSE (hwm + 1) \div 2

\* The swap's constructor leaves commit_pos as it finds it.
Init ==
  /\ created \in PipeKinds /\ ypipe!Init
  /\ reader_active = TRUE /\ reader_read = 0
  /\ reader_terminating = FALSE /\ reader_gone = FALSE
  /\ writer_active = TRUE /\ msgs_read = 0 /\ msgs_written = 0
  /\ swapping = FALSE /\ pending_delimiter = FALSE
  /\ writer_terminating = FALSE /\ writer_gone = FALSE
  /\ swap = <<>> /\ commit \in {-1, 0} /\ rollback_ok = TRUE
  /\ toReader = <<>> /\ toWriter = <<>>
  /\ last_written = NoPart /\ last_read = NoPart

(***************************************************************************)
(* The writer.                                                             *)
(***************************************************************************)
ReaderUnchanged == UNCHANGED <<created, readerVars, toWriter>>

pipe_full == hwm > 0 /\ msgs_written - msgs_read = hwm

Fits == Len(swap) < SwapSize

\* check_write says no: nothing is written until the reader catches up.
CheckWriteFails ==
  /\ ~writer_gone /\ writer_active
  /\ IF swapping THEN ~Fits ELSE pipe_full /\ SwapSize = 0
  /\ writer_active' = FALSE
  /\ ReaderUnchanged
  /\ UNCHANGED <<ypipeVars, swapVars, countVars, modeVars, last_written, toReader>>

NextParts ==
  LET k == IF More(last_written) THEN last_written[2] + 1 ELSE 1
      id == IF More(last_written) THEN last_written[1] ELSE last_written[1] + 1
  IN {<<id, k, more>> : more \in {b \in BOOLEAN : b => k < MaxParts}} \intersect Part

\* write, check_write allowing it: into the pipe, or into the swap once the
\* pipe has been found full.  A socket flushes every message.
Write(p) ==
  /\ ~writer_gone /\ writer_active
  /\ Batches \/ unflushed = <<>>
  /\ IF swapping THEN Fits ELSE pipe_full => SwapSize > 0
  /\ swapping' = (swapping \/ pipe_full)
  /\ IF swapping'
       THEN /\ swap' = Append(swap, p)
            /\ commit' = IF More(p) THEN commit ELSE Len(swap')
            /\ UNCHANGED <<ypipeVars, msgs_written>>
       ELSE /\ ypipe!Write(p, More(p))
            /\ msgs_written' = IF More(p) THEN msgs_written ELSE msgs_written + 1
            /\ UNCHANGED <<swap, commit>>
  /\ last_written' = p
  /\ ReaderUnchanged
  /\ UNCHANGED <<writer_active, pending_delimiter, writer_terminating, writer_gone, rollback_ok,
                 msgs_read, toReader>>

\* What flush does about the reader, when something was unflushed.
Wakes(queued) ==
  IF reader = "asleep" /\ queued
    THEN reader' = "signalled" /\ toReader' = Append(toReader, "activate_reader")
    ELSE UNCHANGED <<reader, toReader>>

Flush ==
  /\ ~writer_gone /\ ~swapping /\ unflushed # <<>>
  /\ flushed' = flushed \o unflushed /\ unflushed' = <<>>
  /\ Wakes(TRUE)
  /\ ReaderUnchanged /\ UNCHANGED <<partial, writerVars>>

\* The last part of the last complete message.  The swap's rollback takes away the
\* parts after it, or leaves the swap with others or its assertion fails: which of
\* these depends on where its blocks are (Swap).
LastComplete == IF More(last_written) THEN <<last_written[1] - 1, 1, FALSE>> ELSE last_written
NothingToRollback == commit = Len(swap) \/ swap = <<>>

RollbackSwap ==
  IF NothingToRollback
    THEN UNCHANGED swapVars
    ELSE /\ UNCHANGED commit
         /\ \/ commit >= 0 /\ swap' = SubSeq(swap, 1, commit) /\ UNCHANGED rollback_ok
            \/ rollback_ok' = FALSE /\ UNCHANGED swap

\* The incomplete message is taken back, here in terminate or by the session
\* whose engine went away in the middle of a message.
Rollback ==
  /\ ~writer_gone /\ More(last_written)
  /\ IF swapping THEN RollbackSwap /\ UNCHANGED partial
                 ELSE partial' = <<>> /\ UNCHANGED swapVars
  /\ last_written' = LastComplete
  /\ ReaderUnchanged
  /\ UNCHANGED <<unflushed, flushed, reader, countVars, modeVars, writer_active, toReader>>

\* Mutant of TerminateWriter: nothing is rolled back.
TerminateWriterPartial ==
  /\ ~writer_gone /\ ~writer_terminating
  /\ writer_terminating' = TRUE /\ writer_active' = FALSE
  /\ partial' = <<>> /\ unflushed' = <<>>
  /\ flushed' = flushed \o unflushed \o partial \o <<Delimiter>>
  /\ Wakes(TRUE)
  /\ ReaderUnchanged
  /\ UNCHANGED <<swapVars, pending_delimiter, countVars, swapping, writer_gone, last_written>>

\* writer_t::terminate: what is incomplete is rolled back, and the delimiter
\* put in behind the rest, even if the pipe is full.
TerminateWriter ==
  /\ ~writer_gone /\ ~writer_terminating
  /\ writer_terminating' = TRUE /\ writer_active' = FALSE
  /\ last_written' = LastComplete
  /\ IF swapping
       THEN /\ RollbackSwap
            /\ pending_delimiter' = TRUE
            /\ UNCHANGED <<ypipeVars, toReader>>
       ELSE /\ partial' = <<>> /\ unflushed' = <<>>
            /\ flushed' = flushed \o unflushed \o <<Delimiter>>
            /\ Wakes(TRUE)
            /\ UNCHANGED <<swapVars, pending_delimiter>>
  /\ ReaderUnchanged
  /\ UNCHANGED <<countVars, swapping, writer_gone>>

\* How many parts of the swap there is room for in the pipe.
Completed(s) == Cardinality({j \in DOMAIN s : ~More(s[j])})
Movable(room) ==
  CHOOSE k \in 0..Len(swap) :
    /\ k = Len(swap) \/ Completed(SubSeq(swap, 1, k)) = room
    /\ \A j \in 0..k - 1 : Completed(SubSeq(swap, 1, j)) < room

\* The parts moved from the swap into the pipe, and the delimiter after them.
Unswap(n) ==
  LET k == Movable(hwm - (msgs_written - n))
      moved == unflushed \o partial \o SubSeq(swap, 1, k)
      emptied == k = Len(swap)
      whole == CHOOSE j \in 0..Len(moved) :
                 (j = 0 \/ ~More(moved[j])) /\ \A i \in j + 1..Len(moved) : More(moved[i])
  IN /\ swap' = SubSeq(swap, k + 1, Len(swap))
     /\ commit' = commit - k
     /\ msgs_written' = msgs_written + Completed(SubSeq(swap, 1, k))
     /\ swapping' = ~emptied
     /\ partial' = SubSeq(moved, whole + 1, Len(moved))
     /\ unflushed' = <<>>
     /\ flushed' = flushed \o SubSeq(moved, 1, whole)
          \o (IF emptied /\ pending_delimiter THEN <<Delimiter>> ELSE <<>>)
     /\ Wakes(flushed' # flushed)

\* Having written the delimiter, the code returns: the writer terminates.
ProcessActivateWriter ==
  /\ toWriter # <<>> /\ Head(toWriter)[1] = "activate_writer"
  /\ toWriter' = Tail(toWriter)
  /\ msgs_read' = Head(toWriter)[2]
  /\ IF swapping
       THEN Unswap(Head(toWriter)[2])
       ELSE UNCHANGED <<ypipeVars, swap, commit, msgs_written, swapping, toReader>>
  /\ writer_active' = (writer_active \/ ~writer_terminating)
  /\ UNCHANGED <<created, readerVars, rollback_ok, pending_delimiter, writer_terminating, writer_gone, last_written>>

\* Mutant of ProcessPipeTerm: a writer that terminates does not answer.
ProcessPipeTermOnce ==
  /\ toWriter # <<>> /\ Head(toWriter)[1] = "pipe_term"
  /\ toWriter' = Tail(toWriter)
  /\ toReader' = IF writer_terminating THEN toReader ELSE Append(toReader, "pipe_term_ack")
  /\ writer_gone' = TRUE
  /\ UNCHANGED <<created, ypipeVars, readerVars, swapVars, countVars, swapping, pending_delimiter,
                 writer_terminating, writer_active, last_written>>

ProcessPipeTerm ==
  /\ toWriter # <<>> /\ Head(toWriter)[1] = "pipe_term"
  /\ toWriter' = Tail(toWriter)
  /\ toReader' = Append(toReader, "pipe_term_ack")
  /\ writer_gone' = TRUE
  /\ UNCHANGED <<created, ypipeVars, readerVars, swapVars, countVars, swapping, pending_delimiter,
                 writer_terminating, writer_active, last_written>>

(***************************************************************************)
(* The reader.  Its sink, a socket or a session, does not read any more    *)
(* once it has asked for the termination.                                  *)
(***************************************************************************)
WriterUnchanged == UNCHANGED <<created, writerVars, toReader>>

Reading == ~reader_gone /\ reader_active /\ ~reader_terminating

\* check_read or read with nothing to read.
FindNothing ==
  /\ Reading /\ flushed = <<>>
  /\ ypipe!Sleep
  /\ reader_active' = FALSE
  /\ WriterUnchanged
  /\ UNCHANGED <<reader_read, reader_terminating, reader_gone, last_read, toWriter>>

\* reader_t::terminate.
TerminateReader ==
  IF reader_terminating
    THEN UNCHANGED <<reader_active, reader_terminating, toWriter>>
    ELSE /\ reader_active' = FALSE /\ reader_terminating' = TRUE
         /\ toWriter' = Append(toWriter, <<"pipe_term">>)

\* check_read or read finding the delimiter.
FindDelimiter ==
  /\ Reading /\ flushed # <<>> /\ Head(flushed) = Delimiter
  /\ ypipe!Read
  /\ TerminateReader
  /\ WriterUnchanged
  /\ UNCHANGED <<reader_read, reader_gone, last_read>>

\* read with a message part; the count is sent with every part while it is a
\* multiple of the low watermark.
ReadPart ==
  /\ Reading /\ flushed # <<>> /\ Head(flushed) # Delimiter
  /\ ypipe!Read
  /\ last_read' = Head(flushed)
  /\ reader_read' = IF More(Head(flushed)) THEN reader_read ELSE reader_read + 1
  /\ toWriter' = IF lwm > 0 /\ reader_read' % lwm = 0
                   THEN Append(toWriter, <<"activate_writer", reader_read'>>)
                   ELSE toWriter
  /\ WriterUnchanged
  /\ UNCHANGED <<reader_active, reader_terminating, reader_gone>>

\* The sink closes its end; it may do so again.
CloseReader ==
  /\ ~reader_gone
  /\ TerminateReader
  /\ WriterUnchanged
  /\ UNCHANGED <<ypipeVars, reader_read, reader_gone, last_read>>

ProcessActivateReader ==
  /\ toReader # <<>> /\ Head(toReader) = "activate_reader"
  /\ toReader' = Tail(toReader)
  /\ reader_active' = TRUE
  /\ ypipe!Wake
  /\ UNCHANGED <<created, writerVars, toWriter, reader_read, reader_terminating, reader_gone, last_read>>

\* The destructor closes the messages left in the pipe, and deletes it.
ProcessPipeTermAck ==
  /\ toReader # <<>> /\ Head(toReader) = "pipe_term_ack"
  /\ toReader' = Tail(toReader)
  /\ reader_gone' = TRUE
  /\ partial' = <<>> /\ unflushed' = <<>> /\ flushed' = <<>>
  /\ UNCHANGED <<created, reader, writerVars, toWriter, reader_active, reader_read, reader_terminating, last_read>>

WriterNext ==
  \/ CheckWriteFails \/ \E p \in NextParts : Write(p)
  \/ Flush \/ Rollback \/ TerminateWriter
  \/ ProcessActivateWriter \/ ProcessPipeTerm
ReaderNext ==
  \/ FindNothing \/ FindDelimiter \/ ReadPart \/ CloseReader
  \/ ProcessActivateReader \/ ProcessPipeTermAck
Next == rollback_ok /\ (WriterNext \/ ReaderNext)

Spec == Init /\ [][Next]_vars

\* Commands are processed, and both ends use the pipe: the reader reads what
\* it can, the writer completes and flushes what it has begun.
WriterProcesses == ProcessActivateWriter \/ ProcessPipeTerm
ReaderProcesses == ProcessActivateReader \/ ProcessPipeTermAck
Reads == FindNothing \/ FindDelimiter \/ ReadPart
Fairness == WF_vars(WriterProcesses) /\ WF_vars(ReaderProcesses) /\ WF_vars(Reads) /\ WF_vars(Flush)

FairSpec == Spec /\ Fairness

(***************************************************************************)
(* Properties.                                                             *)
(***************************************************************************)

\* pipe.cpp:370 asks whether the difference equals the high watermark: it
\* must never have jumped over it, or the pipe would grow without bound.
WatermarkKept ==
  hwm > 0 => /\ msgs_read <= reader_read /\ reader_read <= msgs_written
             /\ msgs_written - msgs_read <= hwm

\* The messages arrive whole and in order, whatever is rolled back, moved
\* through the swap or cut off by a termination: each part follows the one
\* before it, from the last part read to the last one written.
InPipe == <<last_read>> \o flushed \o unflushed \o partial \o swap
Follows(q, p) ==
  /\ p # Delimiter
  /\ IF q = Delimiter THEN ~More(p)
     ELSE IF More(p) THEN q[1] = p[1] /\ q[2] = p[2] + 1
                     ELSE q[1] = p[1] + 1 /\ q[2] = 1
MessagesWhole ==
  ~reader_gone /\ rollback_ok =>
    /\ \A j \in 1..Len(InPipe) - 1 : Follows(InPipe[j + 1], InPipe[j])
    /\ flushed # <<>> => flushed[Len(flushed)] = Delimiter \/ ~More(flushed[Len(flushed)])

\* pipe.cpp:355, the ends delete themselves: neither sends the other a command
\* it would not live to process, and the writer is the first to go.
EndsAlive ==
  /\ writer_gone => toWriter = <<>>
  /\ reader_gone => writer_gone /\ toReader = <<>>

\* pipe.cpp:269, a writer that swaps does not flush: what it has written to the pipe
\* and not flushed before stays there until the reader reports what it has read.
Stuck == swapping /\ unflushed # <<>>

\* A writer that was told to wait is told to go on, if the reader reads and the
\* writer has left nothing unflushed behind the swap.
WriterReactivated ==
  []<>(writer_active \/ writer_terminating \/ reader_terminating \/ Stuck \/ ~rollback_ok)

\* Both ends go away when either is terminated, no command being lost.
Terminates ==
  <>[](reader_terminating \/ writer_terminating =>
         (reader_gone /\ writer_gone) \/ (Stuck /\ ~reader_terminating) \/ ~rollback_ok)

\* What has been put in the swap gets into the pipe and is read, without the writer
\* writing or flushing any more, if it has left nothing unflushed behind the swap.
AllRead ==
  reader_read = msgs_written \/ writer_terminating \/ reader_terminating \/ ~rollback_ok
WrittenIsRead == <>[](SwapSize = 0 \/ AllRead \/ Stuck)

\* pipe.cpp:269, "flushing is automatically handled by swap object": what a writer
\* that swaps has written is read, whether it was flushed or not.
SwapFlushes == <>[](~swapping \/ AllRead)

PipeSound == TypeOK /\ WatermarkKept /\ MessagesWhole /\ EndsAlive
=============================================================================
