----------------------------- MODULE ZmqSockets -----------------------------
(***************************************************************************)
(* The parts of ZeroMQ that hold messages and give them to sockets: the    *)
(* lock-free queue, the swap file, the messages themselves, and what each  *)
(* type of socket does with them.  A behaviour is one of one part; when    *)
(* used names none of them, they stay as they are.                         *)
(***************************************************************************)
EXTENDS Integers, Sequences

CONSTANTS
  Item, Chunk, ChunkCells, MaxCells, NoChunk,        \* YPipe
  FileSizes, block_size, MaxBody, Leftovers, Garbage,           \* Swap
  Structures, Buffers,                               \* Message
  Pipes, MaxSkipped, MaxParts,                       \* Balance; MaxParts of the others as well
  Peers, NoPeer,                                     \* Pair
  Clients, Rude,                                     \* ReqRep
  Prefixes, Topics, MaxCopies,                       \* Subscriptions
  DeviceCalls, MaxMessages, NoSocket                 \* Device

VARIABLES
  used,
  heap, values, prev, next, begin_chunk, begin_pos, back_chunk, back_pos, end_chunk, end_pos,
  spare_chunk, w, f, r, c, flushing, reader,
  filesize, swap_file, bufs, read_buf, write_buf, read_pos, write_pos, commit_pos,
  write_buf_start_addr, swap_aborted, stored, settled, in_order, astray,
  msg, refcnt, memory, doomed, refusals, refused,
  kind, pipes, active, current, eligible, more, dropping, terminating, acks, end, got, part,
  doing, skipped, spoilt, failed,
  receiving_reply, message_begins, outgoing, requests, replies, connection, sending_reply,
  request_begins, inpipes, active_in, current_in, prefetched, unread, current_out, more_out,
  partial, calling, served, no_way_back, unanswered,
  trie, subscribed, has_message, sub_more, remaining,
  inpipe, outpipe, inpipe_alive, outpipe_alive, pair_terminating, pair_acks, in_end, out_end,
  part_in, part_out, sent_to, torn, cut, pair_aborted,
  call, device_phase, errno, revents, turn, device_msg, arrived, device_got, sent, full, terminated, waited

yPipeVars == <<heap, values, prev, next, begin_chunk, begin_pos, back_chunk, back_pos, end_chunk,
  end_pos, spare_chunk, w, f, r, c, flushing, reader>>
swapVars == <<filesize, swap_file, bufs, read_buf, write_buf, read_pos, write_pos, commit_pos,
  write_buf_start_addr, swap_aborted, stored, settled, in_order, astray>>
messageVars == <<msg, refcnt, memory, doomed, refusals, refused>>
balanceVars == <<kind, pipes, active, current, eligible, more, dropping, terminating, acks, end,
  got, part, doing, skipped, spoilt, failed>>
reqRepVars == <<receiving_reply, message_begins, outgoing, requests, replies, connection,
  sending_reply, request_begins, inpipes, active_in, current_in, prefetched, unread, current_out,
  more_out, partial, calling, served, no_way_back, unanswered>>
subscriptionsVars == <<trie, subscribed, has_message, sub_more, remaining>>
pairVars == <<inpipe, outpipe, inpipe_alive, outpipe_alive, pair_terminating, pair_acks, in_end,
  out_end, part_in, part_out, sent_to, torn, cut, pair_aborted>>
deviceVars == <<call, device_phase, errno, revents, turn, device_msg, arrived, device_got, sent, full,
  terminated, waited>>
socketsVars == <<used, yPipeVars, swapVars, messageVars, balanceVars, reqRepVars, subscriptionsVars,
  pairVars, deviceVars>>

(***************************************************************************)
(* The parts.                                                              *)
(***************************************************************************)
Y == INSTANCE YPipe WITH Value <- Item, N <- ChunkCells, NULL <- NoChunk
Sw == INSTANCE Swap WITH file <- swap_file, aborted <- swap_aborted
Msg == INSTANCE Message
Bal == INSTANCE Balance
Pa == INSTANCE Pair WITH None <- NoPeer,
  terminating <- pair_terminating, acks <- pair_acks, aborted <- pair_aborted
Req == INSTANCE ReqRep
Sub == INSTANCE Subscriptions WITH more <- sub_more
Dev == INSTANCE Device WITH
  NULL <- NoSocket, phase <- device_phase, msg <- device_msg, got <- device_got

ASSUME SocketsAssumption ==
  /\ Y!YPipeAssumption /\ Sw!SwapAssumption /\ Msg!MessageAssumption /\ Bal!BalanceAssumption
  /\ Pa!PairAssumption /\ Req!ReqRepAssumption /\ Sub!SubscriptionsAssumption /\ Dev!DeviceAssumption

\* A part that is not used is in one of its initial states.
SocketsInit ==
  /\ Y!Init /\ (used # "ypipe" => begin_chunk = CHOOSE some \in Chunk : TRUE)
  /\ Sw!Init /\ (used # "swap" => filesize = CHOOSE some \in FileSizes : TRUE)
             /\ (used # "swap" => commit_pos = CHOOSE some \in Leftovers : TRUE)
  /\ Msg!Init /\ Pa!Init /\ Req!Init /\ Sub!Init
  /\ Bal!Init /\ (used # "balance" => kind = "lb")
  /\ Dev!Init /\ (used # "device" => call = CHOOSE some \in DeviceCalls : TRUE)

Rests(part_name, its_vars) == used # part_name => UNCHANGED its_vars
OtherSockets ==
  /\ UNCHANGED used
  /\ Rests("ypipe", yPipeVars)
  /\ Rests("swap", swapVars)
  /\ Rests("message", messageVars)
  /\ Rests("balance", balanceVars)
  /\ Rests("pair", pairVars)
  /\ Rests("reqrep", reqRepVars)
  /\ Rests("subscriptions", subscriptionsVars)
  /\ Rests("device", deviceVars)

SocketsNext ==
  \/ used = "ypipe" /\ Y!Next /\ OtherSockets
  \/ used = "swap" /\ Sw!Next /\ OtherSockets
  \/ used = "message" /\ Msg!Next /\ OtherSockets
  \/ used = "balance" /\ Bal!Next /\ OtherSockets
  \/ used = "pair" /\ Pa!Next /\ OtherSockets
  \/ used = "reqrep" /\ Req!Next /\ OtherSockets
  \/ used = "subscriptions" /\ Sub!Next /\ OtherSockets
  \/ used = "device" /\ Dev!Next /\ OtherSockets

SocketsSpec == SocketsInit /\ [][SocketsNext]_socketsVars

(***************************************************************************)
(* Properties.                                                             *)
(***************************************************************************)
\* ypipe.hpp: the lock-free queue is as good as one that is locked: its writer
\* is told when the reader sleeps, and only what was flushed is read.
QueuePromiseKept ==
  /\ Y!Promise!Init
  /\ [][used = "ypipe" => UNCHANGED Y!Promise!queueVars \/ Y!Promise!Next]_socketsVars

\* yqueue.hpp, swap.cpp, zmq.cpp: chunks, blocks and buffers are used by no one
\* after they were freed and freed when no one uses them, and hold what was put
\* there; of the swap only until a rollback goes astray (see Swap).
StorageSound ==
  /\ used = "ypipe" => Y!YPipeSound
  /\ used = "swap" => Sw!SwapSound
  /\ used = "message" => Msg!MessagesSound

=============================================================================
