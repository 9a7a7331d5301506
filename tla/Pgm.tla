-------------------------------- MODULE Pgm --------------------------------
(***************************************************************************)
(* Publishing by multicast: pgm_sender_t packs the messages of a session   *)
(* into packets, pgm_receiver_t has a decoder for every sender it hears    *)
(* and writes what they decode into the one pipe of its session.  Packets  *)
(* of a sender arrive in order (OpenPGM repairs what it can); a packet     *)
(* that cannot be repaired is reported, and the receiver forgets its       *)
(* decoder until it sees the beginning of a message.                       *)
(***************************************************************************)
EXTENDS Integers, Sequences, SequencesExt, FiniteSetsExt

CONSTANTS
  NULL, Sender,
  Scenes,         \* what is sent, the limit of the receiver's pipe, and whether packets get lost
  tsdu, msgv_len  \* bytes of a packet, packets received at a time

Frame == [size : Nat \ {0}, more : BOOLEAN]
PgmAssumption ==
  /\ {tsdu, msgv_len} \subseteq Nat \ {0}
  /\ \A s \in Scenes :
       DOMAIN s.frames = Sender /\ (\A p \in Sender : s.frames[p] \in Seq(Frame)) /\ s.hwm \in Nat /\ s.lossy \in BOOLEAN

VARIABLES
  scene,
  sender,         \* pgm_sender_t, its encoder and the socket it sends for
  channel,        \* packets under way from each sender
  receiver,       \* pgm_receiver_t with its pgm_socket_t and decoders
  pipe            \* what the receiver's session has written, and how much of it is flushed and read

pgmVars == <<scene, sender, channel, receiver, pipe>>

(***************************************************************************)
(* A byte is <<n, k>>: the k-th of frame n of its sender, the first stands *)
(* for its header.  The encoder takes a frame's first byte for the         *)
(* beginning of a message if no more frames follow it.                     *)
(***************************************************************************)
Frames(p) == scene.frames[p]
Bytes(p, n) == [k \in 1..Frames(p)[n].size |-> <<n, k>>]
BytesUpto(p, n) == FlattenSeq([i \in 1..n |-> Bytes(p, i)])
Beginning(p, byte) == byte[2] = 1 /\ ~Frames(p)[byte[1]].more
Completes(p, got) == got # <<>> /\ Len(got) = Frames(p)[got[1][1]].size

\* The offset is 0, the code's 0xffff, when no message begins in the data.
Offset(p, data) == Min({k \in DOMAIN data : Beginning(p, data[k])} \union {Len(data) + 1}) % (Len(data) + 1)
Packet(p, data) == [from |-> p, data |-> data, offset |-> Offset(p, data)]
Lost == [from |-> NULL]

TypeOK ==
  /\ scene \in Scenes
  /\ \A p \in Sender :
       /\ sender[p].flushed \in 0..Len(Frames(p)) /\ sender[p].at \in 0..Len(BytesUpto(p, sender[p].flushed))
       /\ Len(sender[p].out) <= tsdu
       /\ {sender[p].asleep, sender[p].pollout, sender[p].has_tx_timer, sender[p].has_rx_timer, sender[p].gone} \subseteq BOOLEAN
       /\ receiver.decoder[p] = NULL \/ receiver.decoder[p] \in Seq(Nat \X Nat)
  /\ receiver.mru_decoder \in Sender \union {NULL} /\ Len(receiver.msgv) < msgv_len
  /\ pipe.taken <= pipe.flushed /\ pipe.flushed <= Len(pipe.parts)

pgm_sender_t ==
  [flushed |-> 0, at |-> 0, asleep |-> FALSE, out |-> <<>>, pollout |-> TRUE, has_tx_timer |-> FALSE,
   has_rx_timer |-> FALSE, gone |-> FALSE]
pgm_receiver_t ==
  [decoder |-> [p \in Sender |-> NULL], mru_decoder |-> NULL, msgv |-> <<>>, received |-> FALSE, pending |-> <<>>,
   pollin |-> TRUE, has_rx_timer |-> FALSE, heard |-> {}, second |-> FALSE, again |-> FALSE, aborted |-> FALSE, gone |-> FALSE]

\* Both are plugged in and poll.
Init ==
  /\ scene \in Scenes /\ sender = [p \in Sender |-> pgm_sender_t] /\ channel = [p \in Sender |-> <<>>]
  /\ receiver = pgm_receiver_t
  /\ pipe = [parts |-> <<>>, flushed |-> 0, taken |-> 0, refused |-> FALSE]

(***************************************************************************)
(* The sender.  Its encoder finds no more data when it asks for a frame    *)
(* and there is none, which is when a packet remains short.                *)
(***************************************************************************)
get_data(p) ==
  LET bytes == BytesUpto(p, sender[p].flushed)
      upto == sender[p].at + tsdu
  IN SubSeq(bytes, sender[p].at + 1, IF upto < Len(bytes) THEN upto ELSE Len(bytes))
Loaded(p, s) ==
  LET data == get_data(p)
  IN [s EXCEPT !.at = @ + Len(data), !.asleep = Len(data) < tsdu, !.out = data]

\* pgm_send takes all of a packet, is limited by the rate, or would block.
Send(p, s) ==
  \/ /\ channel' = [channel EXCEPT ![p] = Append(@, Packet(p, s.out))]
     /\ sender' = [sender EXCEPT ![p] = [s EXCEPT !.out = <<>>, !.has_tx_timer = FALSE]]
  \/ \E limited \in BOOLEAN :
       sender' = [sender EXCEPT ![p] = [s EXCEPT !.has_tx_timer = limited]] /\ UNCHANGED channel

out_event(p, s) ==
  LET loaded == IF s.out = <<>> THEN Loaded(p, s) ELSE s
  IN /\ IF loaded.out = <<>>
          THEN sender' = [sender EXCEPT ![p] = [loaded EXCEPT !.pollout = FALSE]] /\ UNCHANGED channel
          ELSE Send(p, loaded)
     /\ UNCHANGED <<scene, receiver, pipe>>

OutEvent(p) == ~sender[p].gone /\ sender[p].pollout /\ out_event(p, sender[p])
TxTimer(p) == sender[p].has_tx_timer /\ out_event(p, [sender[p] EXCEPT !.has_tx_timer = FALSE])
activate_out(p) ==
  /\ ~sender[p].gone /\ sender[p].asleep /\ sender[p].at < Len(BytesUpto(p, sender[p].flushed))
  /\ out_event(p, [sender[p] EXCEPT !.asleep = FALSE, !.pollout = TRUE])

\* NAKs and SPM requests of receivers, or a timer: OpenPGM repairs, and may ask
\* to be called again.
process_upstream == BOOLEAN
SenderInEvent(p) ==
  /\ ~sender[p].gone
  /\ \E again \in process_upstream : sender' = [sender EXCEPT ![p].has_rx_timer = again]
  /\ UNCHANGED <<scene, channel, receiver, pipe>>

TerminateSender(p) ==
  /\ ~sender[p].gone
  /\ sender' = [sender EXCEPT ![p].gone = TRUE, ![p].has_tx_timer = FALSE, ![p].has_rx_timer = FALSE]
  /\ UNCHANGED <<scene, channel, receiver, pipe>>

\* The publisher flushes a message, with all of its parts.
SocketSends(p) ==
  LET rest == {n \in DOMAIN Frames(p) : n > sender[p].flushed /\ ~Frames(p)[n].more}
  IN /\ rest # {} /\ ~sender[p].gone
     /\ sender' = [sender EXCEPT ![p].flushed = Min(rest)]
     /\ UNCHANGED <<scene, channel, receiver, pipe>>

(***************************************************************************)
(* The receiver's pipe: its limit counts messages, not their parts.        *)
(***************************************************************************)
Ends(part) == ~Frames(part[1])[part[2]].more
Messages(parts) == Len(SelectSeq(parts, Ends))
HasRoom(pp) == scene.hwm = 0 \/ Messages(pp.parts) - Messages(SubSeq(pp.parts, 1, pp.taken)) < scene.hwm
Accepts(pp) == ~pp.refused /\ HasRoom(pp)
Flush(pp) ==
  [pp EXCEPT !.flushed = Max({n \in DOMAIN pp.parts : Ends(pp.parts[n])} \union {pp.flushed})]

(***************************************************************************)
(* A decoder has the bytes of one frame.  It stops at a frame the pipe     *)
(* does not accept and then takes no byte until it is rid of it.           *)
(***************************************************************************)
Deliver(p, d) ==
  IF ~Completes(p, d.got) THEN d
  ELSE IF Accepts(d.pipe) THEN [d EXCEPT !.pipe.parts = Append(@, <<p, d.got[1][1]>>), !.got = <<>>]
  ELSE [d EXCEPT !.pipe.refused = TRUE]
Take(p, d, byte) ==
  IF Completes(p, d.got) THEN [d EXCEPT !.left = Append(@, byte)]
  ELSE Deliver(p, [d EXCEPT !.got = Append(@, byte)])
process_buffer(p, got, pp, data) ==
  FoldLeft(LAMBDA d, byte : Take(p, d, byte), Deliver(p, [got |-> got, pipe |-> pp, left |-> <<>>]), data)

(***************************************************************************)
(* The receiver.                                                           *)
(***************************************************************************)
\* A packet goes to its sender's decoder; one is made when a message begins.
Decoded(st, packet) ==
  LET p == packet.from
      joined == st.rec.decoder[p] # NULL
      done == process_buffer(p, IF joined THEN st.rec.decoder[p] ELSE <<>>, st.pipe,
                IF joined THEN packet.data ELSE SubSeq(packet.data, packet.offset, Len(packet.data)))
      rest == [st.rec EXCEPT !.msgv = Tail(@)]
  IN IF ~joined /\ packet.offset = 0 THEN [st EXCEPT !.rec = rest]
     ELSE [rec |-> [rest EXCEPT !.decoder[p] = done.got, !.mru_decoder = p, !.pending = done.left,
                                !.pollin = @ /\ done.left = <<>>],
           pipe |-> done.pipe]

\* The loop of in_event: it stops at a packet that is not taken as a whole.
Processed(r, pp) ==
  LET step(st, packet) == IF st.rec.pending # <<>> THEN st ELSE Decoded(st, packet)
      done == FoldLeft(step, [rec |-> r, pipe |-> pp], r.msgv)
  IN [rec |-> [done.rec EXCEPT !.received = done.rec.pending # <<>>], pipe |-> Flush(done.pipe)]

Arrived(p) == SubSeq(channel[p], 1, Min({n \in DOMAIN channel[p] : channel[p][n] = Lost} \union {Len(channel[p]) + 1}) - 1)
Among(order, p) == Len(SelectSeq(order, LAMBDA q : q = p))
Orders ==
  {order \in UNION {[1..k -> Sender] : k \in 1..msgv_len} : \A p \in Sender : Among(order, p) <= Len(Arrived(p))}
Vector(order) == [i \in DOMAIN order |-> channel[order[i]][Among(SubSeq(order, 1, i), order[i])]]

Become(done) == receiver' = done.rec /\ pipe' = done.pipe

\* Packets of several senders are received at a time; a loss is reported alone;
\* and without either OpenPGM may want to be called again.
ReceivePackets(r, pp) ==
  \E order \in Orders :
    /\ Become(Processed([r EXCEPT !.msgv = Vector(order), !.received = TRUE, !.heard = @ \union Range(order)], pp))
    /\ channel' = [p \in Sender |-> SubSeq(channel[p], Among(order, p) + 1, Len(channel[p]))]
ReceiveLoss(r, pp) ==
  \E p \in Sender :
    /\ channel[p] # <<>> /\ Head(channel[p]) = Lost
    /\ channel' = [channel EXCEPT ![p] = Tail(@)]
    /\ Become([rec |-> [r EXCEPT !.decoder[p] = NULL, !.mru_decoder = IF @ = p THEN NULL ELSE @],
               pipe |-> Flush(pp)])
get_rx_timeout == BOOLEAN
ReceiveNothing(r, pp) ==
  /\ \E again \in get_rx_timeout : Become([rec |-> [r EXCEPT !.has_rx_timer = again], pipe |-> Flush(pp)])
  /\ UNCHANGED channel

in_event(r, pp) ==
  LET idle == [r EXCEPT !.has_rx_timer = FALSE, !.again = FALSE]
  IN CASE r.pending # <<>> -> receiver' = [r EXCEPT !.aborted = TRUE] /\ UNCHANGED <<pipe, channel>>
       [] r.pending = <<>> /\ r.received -> Become(Processed(idle, pp)) /\ UNCHANGED channel
       [] OTHER -> ReceivePackets(idle, pp) \/ ReceiveLoss(idle, pp) \/ ReceiveNothing(idle, pp)

Runs == ~receiver.gone /\ ~receiver.aborted

\* The other descriptor may be reported as well: the poller calls once more, polled
\* for or not.
InEvent ==
  /\ Runs /\ (receiver.pollin \/ receiver.second)
  /\ \E second \in {FALSE, ~receiver.second} :
       in_event([receiver EXCEPT !.second = second, !.again = receiver.second], pipe)
  /\ UNCHANGED <<scene, sender>>
RxTimer ==
  /\ Runs /\ receiver.has_rx_timer /\ in_event([receiver EXCEPT !.has_rx_timer = FALSE], pipe)
  /\ UNCHANGED <<scene, sender>>

\* The pipe has room again: the decoder that was used last goes on.
activate_in ==
  LET p == receiver.mru_decoder
      pp == [pipe EXCEPT !.refused = FALSE]
      done == process_buffer(p, receiver.decoder[p], pp, receiver.pending)
      fed == [receiver EXCEPT !.decoder[p] = done.got, !.pending = done.left]
  IN /\ Runs /\ pipe.refused /\ HasRoom(pipe) /\ UNCHANGED <<scene, sender>>
     /\ IF p = NULL THEN Become([rec |-> receiver, pipe |-> pp]) /\ UNCHANGED channel
        ELSE IF receiver.pending = <<>> \/ done.left # <<>>
          THEN Become([rec |-> fed, pipe |-> done.pipe]) /\ UNCHANGED channel
        ELSE in_event([fed EXCEPT !.pollin = TRUE], done.pipe)

TerminateReceiver ==
  /\ Runs
  /\ receiver' = [receiver EXCEPT !.decoder = [p \in Sender |-> NULL], !.mru_decoder = NULL, !.pending = <<>>,
                                  !.has_rx_timer = FALSE, !.gone = TRUE]
  /\ UNCHANGED <<scene, sender, channel, pipe>>

SocketReceives ==
  /\ pipe.taken < pipe.flushed /\ pipe' = [pipe EXCEPT !.taken = @ + 1]
  /\ UNCHANGED <<scene, sender, channel, receiver>>

\* A packet is lost for good: noticed once something was heard from its sender.
LosePacket(p) ==
  /\ scene.lossy /\ channel[p] # <<>> /\ Head(channel[p]) # Lost
  /\ channel' = [channel EXCEPT ![p] = (IF p \in receiver.heard THEN <<Lost>> ELSE <<>>) \o Tail(@)]
  /\ UNCHANGED <<scene, sender, receiver, pipe>>

Next ==
  \/ \E p \in Sender :
       OutEvent(p) \/ TxTimer(p) \/ activate_out(p) \/ SenderInEvent(p) \/ TerminateSender(p)
       \/ SocketSends(p) \/ LosePacket(p)
  \/ InEvent \/ RxTimer \/ activate_in \/ TerminateReceiver \/ SocketReceives

Spec == Init /\ [][Next]_pgmVars

(***************************************************************************)
(* Properties.                                                             *)
(***************************************************************************)
\* However packets are cut and lost, a decoder is fed with one frame from its
\* first byte on, so that no size is read from the middle of a message.
WellFed ==
  \A p \in Sender : receiver.decoder[p] # NULL =>
    LET got == receiver.decoder[p] IN \A k \in DOMAIN got : got[k] = <<got[1][1], k>>

\* The frames of a sender are written once and in its order; when nothing gets
\* lost there is no gap between them.
WrittenInOrder ==
  \A p \in Sender : LET its == SelectSeq(pipe.parts, LAMBDA part : part[1] = p) IN
    \A i \in 1..Len(its) - 1 :
      its[i][2] < its[i + 1][2] /\ (~scene.lossy => its[i + 1][2] = its[i][2] + 1)

\* Without loss, a message is received that everybody has sent and nobody holds,
\* unless the pipe has refused it.
NothingHeldBack ==
  ~scene.lossy /\ Runs /\ ~receiver.received => \A p \in Sender : channel[p] = <<>> =>
    \A n \in 1..sender[p].flushed :
      Len(BytesUpto(p, n)) <= sender[p].at - Len(sender[p].out) =>
        <<p, n>> \in Range(pipe.parts) \/ (pipe.refused /\ receiver.decoder[p] = Bytes(p, n))

\* What is left of a packet belongs to the decoder that will be asked to go on,
\* nothing is polled for meanwhile, and the reader is not waiting as well.
LeftIsResumed ==
  Runs /\ receiver.pending # <<>> =>
    /\ ~receiver.pollin /\ ~receiver.has_rx_timer
    /\ receiver.mru_decoder # NULL /\ Completes(receiver.mru_decoder, receiver.decoder[receiver.mru_decoder])
    /\ pipe.refused /\ (pipe.taken < pipe.flushed \/ HasRoom(pipe))
PollsForPackets == Runs /\ ~receiver.pollin => receiver.pending # <<>>

\* The sender stops polling when it has nothing to send, and its timer repeats a
\* packet that was refused.
SenderGoesOn ==
  \A p \in Sender : ~sender[p].gone =>
    /\ ~sender[p].pollout => sender[p].asleep /\ sender[p].out = <<>>
    /\ sender[p].has_tx_timer => sender[p].out # <<>>

\* pgm_receiver.cpp:142: nothing is left of a packet when more is to be received.
NeverAborts == ~receiver.aborted

\* The one call that finds something left is that for the second descriptor of a
\* pass, when the call for the first has stopped the polling of both.
AbortsOnlyAgain == receiver.aborted => receiver.again /\ ~receiver.pollin

PgmSound ==
  TypeOK /\ WellFed /\ WrittenInOrder /\ NothingHeldBack /\ LeftIsResumed /\ PollsForPackets /\ SenderGoesOn /\ AbortsOnlyAgain
=============================================================================
