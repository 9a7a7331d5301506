-------------------------------- MODULE Swap --------------------------------
(***************************************************************************)
(* swap_t: the file a pipe's writer keeps messages in while the pipe is    *)
(* full.  The file is a ring, read and written through two buffers of one  *)
(* block each, which are one and the same while both ends of the ring lie  *)
(* in the same block.  A message, one part of what a user calls so, takes  *)
(* one unit for its size and flags and as many units as its body has.  The *)
(* pipe's writer commits the swap after a part without MORE, and rolls it  *)
(* back to take away the parts stored since.                               *)
(***************************************************************************)
EXTENDS Integers, Sequences

CONSTANTS
  FileSizes,    \* the sizes tried
  block_size,
  MaxBody,      \* units in the body of a message
  Leftovers,    \* what the constructor may find where commit_pos lies
  Garbage

\* Of a message, the units in its body, and is there MORE?  A unit says which one
\* of which message it is.
Message == (0..MaxBody) \X BOOLEAN
UnitsOf(msg) == [k \in 1..msg[1] + 1 |-> <<msg, k>>]
Unit == Message \X (Nat \ {0})
IsHead(unit) == unit # Garbage /\ unit[2] = 1

SwapAssumption ==
  /\ FileSizes \subseteq Nat \ {0} /\ FileSizes # {}
  /\ block_size \in Nat \ {0} /\ MaxBody \in Nat
  /\ Leftovers \subseteq Int /\ Leftovers # {}
  /\ Garbage \notin Unit  \* what was never written is no part of a message

VARIABLES
  filesize,
  file,                \* what the file holds
  bufs,                \* buf1 and buf2
  read_buf, write_buf, \* which of them
  read_pos, write_pos, commit_pos,
  write_buf_start_addr,
  aborted,             \* the assertion of rollback has failed
  stored,              \* the messages that should be in the swap
  settled,             \* how many of them a commit has seen, -1 if commit_pos is nowhere
  in_order,            \* has each fetch given the message stored first?
  astray               \* has a rollback gone wrong?

ioVars == <<file, bufs, read_buf, write_buf, write_buf_start_addr>>
historyVars == <<stored, settled, in_order, astray>>
vars == <<filesize, ioVars, read_pos, write_pos, commit_pos, aborted, historyVars>>

TypeOK ==
  /\ filesize \in FileSizes
  /\ \A i \in 0..filesize - 1 : file[i] = Garbage \/ file[i][1] \in Message
  /\ {read_buf, write_buf} \subseteq {1, 2}
  /\ {read_pos, write_pos} \subseteq 0..filesize - 1
  /\ write_buf_start_addr \in 0..filesize - 1
  /\ stored \in Seq(Message) /\ settled \in -1..Len(stored) /\ in_order \in BOOLEAN

\* commit_pos is not initialized.
Init ==
  /\ filesize \in FileSizes
  /\ file = [i \in 0..filesize - 1 |-> Garbage]
  /\ bufs = [b \in {1, 2} |-> [i \in 0..block_size - 1 |-> Garbage]]
  /\ read_buf = 1 /\ write_buf = 1
  /\ read_pos = 0 /\ write_pos = 0 /\ commit_pos \in Leftovers
  /\ write_buf_start_addr = 0
  /\ stored = <<>> /\ settled = (IF commit_pos = 0 THEN 0 ELSE -1)
  /\ in_order = TRUE /\ aborted = FALSE /\ astray = FALSE

Lesser(a, b) == IF a < b THEN a ELSE b

\* The state of the input and output at one moment of a copy.
IO == [file |-> file, bufs |-> bufs, rbuf |-> read_buf, wbuf |-> write_buf,
       start |-> write_buf_start_addr, rpos |-> read_pos, wpos |-> write_pos, got |-> <<>>]

Becomes(io) ==
  /\ file' = io.file /\ bufs' = io.bufs
  /\ read_buf' = io.rbuf /\ write_buf' = io.wbuf
  /\ write_buf_start_addr' = io.start
  /\ read_pos' = io.rpos /\ write_pos' = io.wpos

\* A block, or what there is of it before the end of the file, to or from the
\* file at the position given.
Octets(pos) == Lesser(block_size, filesize - pos)
Saved(io) ==
  [i \in 0..filesize - 1 |->
     IF i - io.start \in 0..Octets(io.start) - 1 THEN io.bufs[io.wbuf][i - io.start] ELSE io.file[i]]
Filled(io, b, pos) ==
  [io.bufs EXCEPT ![b] = [i \in 0..block_size - 1 |-> IF i < Octets(pos) THEN io.file[pos + i] ELSE io.bufs[b][i]]]

Block(pos) == pos \div block_size

\* One unit of copy_to_file.  At the end of a block, the buffer is saved.
WriteUnit(io, unit) ==
  LET pos == (io.wpos + 1) % filesize
      put == [io EXCEPT !.bufs[io.wbuf][io.wpos % block_size] = unit, !.wpos = pos]
  IN IF pos % block_size # 0
       THEN put
       ELSE [put EXCEPT !.file = Saved(put), !.start = pos,
                        !.wbuf = IF io.wbuf = io.rbuf THEN 3 - io.rbuf ELSE io.wbuf]

\* One unit of copy_from_file.  The next block is the one being written, or
\* is filled from the file.
ReadUnit(io) ==
  LET pos == (io.rpos + 1) % filesize
      got == [io EXCEPT !.got = Append(@, io.bufs[io.rbuf][io.rpos % block_size]), !.rpos = pos]
  IN IF pos % block_size # 0 THEN got
     ELSE IF Block(pos) = Block(io.wpos) THEN [got EXCEPT !.rbuf = io.wbuf]
     ELSE [got EXCEPT !.bufs = Filled(got, got.rbuf, pos)]

CopyToFile(msg) ==
  LET after[k \in 0..msg[1] + 1] == IF k = 0 THEN IO ELSE WriteUnit(after[k - 1], UnitsOf(msg)[k])
  IN after[msg[1] + 1]

\* The size comes first, and says how much to read after it.
CopyFromFile ==
  LET head == ReadUnit(IO)
      size == IF IsHead(head.got[1]) THEN head.got[1][1][1] ELSE 0
      after[k \in 0..size] == IF k = 0 THEN head ELSE ReadUnit(after[k - 1])
  IN after[size]

buffer_space == IF write_pos < read_pos THEN read_pos - write_pos ELSE filesize - (write_pos - read_pos)

\* Mutant of Fits: no unit is kept open.
FitsExactly(msg) == buffer_space >= msg[1] + 1

\* One unit is always kept open.
Fits(msg) == buffer_space > msg[1] + 1

\* With commit, after the last part.
Store(msg) ==
  /\ Fits(msg)
  /\ Becomes(CopyToFile(msg))
  /\ stored' = Append(stored, msg)
  /\ IF msg[2] THEN UNCHANGED <<commit_pos, settled>>
               ELSE commit_pos' = write_pos' /\ settled' = Len(stored')
  /\ UNCHANGED <<filesize, in_order, aborted, astray>>

\* Parts of a message that is not complete are fetched as well, and then commit_pos
\* is left behind.
Fetch ==
  /\ read_pos # write_pos
  /\ Becomes(CopyFromFile)
  /\ in_order' = (stored # <<>> /\ CopyFromFile.got = UnitsOf(Head(stored)))
  /\ stored' = IF stored = <<>> THEN <<>> ELSE Tail(stored)
  /\ settled' = IF settled < 0 THEN settled ELSE settled - 1
  /\ UNCHANGED <<filesize, commit_pos, aborted, astray>>

\* The assertion of rollback.
CommitPosBetween ==
  IF write_pos > read_pos THEN read_pos <= commit_pos /\ commit_pos <= write_pos
                          ELSE read_pos <= commit_pos \/ commit_pos <= write_pos

\* The buffer for writing becomes that of the block of commit_pos, which starts, so
\* rollback says, at commit_pos % block_size.
MoveBack ==
  /\ write_pos' = commit_pos
  /\ IF Block(commit_pos) = Block(read_pos)
       THEN write_buf_start_addr' = commit_pos % block_size /\ write_buf' = read_buf /\ UNCHANGED bufs
     ELSE IF Block(commit_pos) # Block(write_pos)
       THEN /\ write_buf_start_addr' = commit_pos % block_size
            /\ bufs' = Filled(IO, write_buf, commit_pos % block_size)
            /\ UNCHANGED write_buf
     ELSE UNCHANGED <<write_buf_start_addr, bufs, write_buf>>
  /\ UNCHANGED <<file, read_buf>>

\* A rollback with something to take away goes wrong if commit_pos is not where the
\* last commit was, or is in the block that is read from but before the place, or
\* is in a block of its own.
GoesAstray ==
  /\ settled < Len(stored) /\ stored # <<>>
  /\ settled < 0 \/ (IF Block(commit_pos) = Block(read_pos) THEN commit_pos < read_pos
                     ELSE Block(commit_pos) # Block(write_pos))

Rollback ==
  /\ IF commit_pos = write_pos \/ read_pos = write_pos THEN UNCHANGED <<ioVars, write_pos, aborted>>
     ELSE IF CommitPosBetween THEN MoveBack /\ UNCHANGED aborted
     ELSE aborted' = TRUE /\ UNCHANGED <<ioVars, write_pos>>
  /\ stored' = SubSeq(stored, 1, settled)
  /\ astray' = (astray \/ GoesAstray)
  /\ UNCHANGED <<filesize, read_pos, commit_pos, settled, in_order>>

\* The model ends where the process aborts, a position is outside of the file, or
\* a message fetched is not the one that was stored.
Next ==
  /\ ~aborted /\ write_pos \in 0..filesize - 1 /\ in_order
  /\ (\E msg \in Message : Store(msg)) \/ Fetch \/ Rollback

Spec == Init /\ [][Next]_vars

(***************************************************************************)
(* Properties.                                                             *)
(***************************************************************************)

\* swap.hpp:32, "Messages are retrieved from the swap in the same order as
\* they entered it": and unchanged, wherever the blocks and the file end.
RetrievedInOrder == in_order

\* buffer_space tells a ring that is full from one that is empty: the space
\* it finds is what the messages stored leave, and never all of it is used.
Size(s) ==
  LET sum[k \in 0..Len(s)] == IF k = 0 THEN 0 ELSE sum[k - 1] + s[k][1] + 1
  IN sum[Len(s)]
SpaceAccounted ==
  /\ buffer_space = filesize - Size(stored)
  /\ Size(stored) < filesize

\* swap.cpp:171 and 173: the assertions of rollback hold.
NeverAborts == ~aborted

\* All this until a rollback goes astray; and only such a one fails an assertion.
SwapSound == astray \/ (TypeOK /\ RetrievedInOrder /\ SpaceAccounted /\ NeverAborts)
=============================================================================
