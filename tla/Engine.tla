------------------------------- MODULE Engine -------------------------------
(***************************************************************************)
(* zmq_engine_t with its encoder and its decoder: bytes of a TCP           *)
(* connection become messages and messages become bytes.  It is plugged    *)
(* first to a zmq_init_t, which exchanges the identities, then to a        *)
(* session, and takes over whatever is in its buffers.  Data are read and  *)
(* written in batches, except that a large message is not copied: it is    *)
(* filled from the connection, or written to it, in place.                 *)
(***************************************************************************)
EXTENDS Integers, Sequences, SequencesExt

CONSTANTS
  in_batch_size, out_batch_size,
  Base, Wide,     \* a byte is one of Base values; a long size takes Wide of them
  Streams,        \* what the peer may send: sequences of messages, its identity first
  Identity, Sent, \* the messages of this side
  Room            \* bound: messages the session accepts before one is taken from it

EngineAssumption ==
  /\ {in_batch_size, out_batch_size} \subseteq Nat \ {0} /\ out_batch_size > Wide + 2
  /\ Base \in Nat \ {0, 1} /\ Wide \in Nat \ {0} /\ Room \in Nat \ {0}

Byte == 0..Base - 1
Message == [body : Seq(Byte), more : BOOLEAN]
Empty == [body |-> <<>>, more |-> FALSE]

VARIABLES
  stream,         \* what this peer sends, and whether rubbish follows it
  arriving, wire, \* bytes under way in either direction
  hung_up,        \* the peer has closed the connection
  engine,         \* zmq_engine_t with its encoder and decoder
  inout           \* what it is plugged to, and the pipes behind it

engineVars == <<stream, arriving, wire, hung_up, engine, inout>>

(***************************************************************************)
(* The framing: the size in one byte, or an escape and the size in Wide    *)
(* bytes; the flags; the body.  The size counts the flags.                 *)
(***************************************************************************)
Escape == Base - 1
put_uint64(n) == [k \in 1..Wide |-> (n \div Base^(Wide - k)) % Base]
get_uint64(bytes) == FoldLeft(LAMBDA n, byte : n * Base + byte, 0, bytes)

\* Mutant of Header: a size that needs the escape in one byte.
HeaderShort(msg) ==
  LET size == Len(msg.body) + 1
  IN (IF size <= Escape THEN <<size>> ELSE <<Escape>> \o put_uint64(size))
     \o <<IF msg.more THEN 1 ELSE 0>>

Header(msg) ==
  LET size == Len(msg.body) + 1
  IN (IF size < Escape THEN <<size>> ELSE <<Escape>> \o put_uint64(size))
     \o <<IF msg.more THEN 1 ELSE 0>>
Frames(msgs) == FlattenSeq([i \in 1..Len(msgs) |-> Header(msgs[i]) \o msgs[i].body])

LeastOf(m, n) == IF m < n THEN m ELSE n
Upto(bytes, k) == SubSeq(bytes, 1, k)
From(bytes, k) == SubSeq(bytes, k, Len(bytes))

Decoder ==
  [next : {"one_byte_size_ready", "eight_byte_size_ready", "flags_ready", "message_ready", "error"},
   to_read : Nat, got : Seq(Byte), msg : Message]
Encoder == [next : {"message_ready", "size_ready"}, write : Seq(Byte), msg : Message]
Inout ==
  [to : {"init", "none", "session", "gone"}, sent : BOOLEAN, received : BOOLEAN, asleep : BOOLEAN,
   refused : BOOLEAN, room : 0..Room, unsent : Seq(Message), queue : Seq(Message), delivered : Seq(Message)]
decoder_t == [next |-> "one_byte_size_ready", to_read |-> 1, got |-> <<>>, msg |-> Empty]
encoder_t == [next |-> "message_ready", write |-> <<>>, msg |-> Empty]

TypeOK ==
  /\ stream \in [messages : Streams, rubbish : BOOLEAN]
  /\ {arriving, wire, engine.in, engine.buf} \subseteq Seq(Byte) /\ hung_up \in BOOLEAN
  /\ {engine.pollin, engine.pollout, engine.zero} \subseteq BOOLEAN
  /\ engine.outsize \in 0..Len(IF engine.zero THEN engine.enc.msg.body ELSE engine.buf)
  /\ engine.dec \in Decoder /\ engine.enc \in Encoder /\ inout \in Inout

\* The engine as zmq_init_t::process_plug leaves it; plug's speculative read
\* finds nothing yet.
Init ==
  /\ stream \in [messages : Streams, rubbish : BOOLEAN]
  /\ arriving = Frames(stream.messages) \o (IF stream.rubbish THEN <<0>> ELSE <<>>)
  /\ wire = <<>> /\ hung_up = FALSE
  /\ engine = [pollin |-> TRUE, pollout |-> TRUE, in |-> <<>>, dec |-> decoder_t,
               outsize |-> 0, zero |-> FALSE, buf |-> <<>>, enc |-> encoder_t]
  /\ inout = [to |-> "init", sent |-> FALSE, received |-> FALSE, unsent |-> Sent, queue |-> <<>>,
              asleep |-> FALSE, room |-> Room, refused |-> FALSE, delivered |-> <<>>]

(***************************************************************************)
(* i_inout: the init object, nothing, or the session.  When both           *)
(* identities are exchanged the init object unplugs the engine.            *)
(***************************************************************************)
finalise_initialisation(io) == IF io.sent /\ io.received THEN [io EXCEPT !.to = "none"] ELSE io

Accepts(io) == (io.to = "init" /\ ~io.received) \/ (io.to = "session" /\ io.room > 0)
Write(io, msg) ==
  IF io.to = "init" THEN finalise_initialisation([io EXCEPT !.received = TRUE])
  ELSE [io EXCEPT !.room = @ - 1, !.delivered = Append(@, msg)]
Refuse(io) == [io EXCEPT !.refused = @ \/ io.to = "session"]

Supplies(io) == (io.to = "init" /\ ~io.sent) \/ (io.to = "session" /\ io.queue # <<>>)
Next_in(io) == IF io.to = "init" THEN Identity ELSE Head(io.queue)
Read(io) ==
  IF io.to = "init" THEN finalise_initialisation([io EXCEPT !.sent = TRUE])
  ELSE [io EXCEPT !.queue = Tail(@)]
Sleep(io) == [io EXCEPT !.asleep = @ \/ io.to = "session"]

(***************************************************************************)
(* The decoder.                                                            *)
(***************************************************************************)
Expect(d, next, n) == [d EXCEPT !.next = next, !.to_read = n, !.got = <<>>]
Sized(d, size) ==
  IF size = 0 THEN [d EXCEPT !.next = "error"]
  ELSE Expect([d EXCEPT !.msg.body = [k \in 1..size - 1 |-> 0]], "flags_ready", 1)
Step(d) ==
  CASE d.next = "one_byte_size_ready" ->
         IF d.got[1] = Escape THEN Expect(d, "eight_byte_size_ready", Wide) ELSE Sized(d, d.got[1])
    [] d.next = "eight_byte_size_ready" -> Sized(d, get_uint64(d.got))
    [] d.next = "flags_ready" ->
         Expect([d EXCEPT !.msg.more = d.got[1] = 1], "message_ready", Len(d.msg.body))
    [] d.next = "message_ready" -> Expect([d EXCEPT !.msg = Empty], "one_byte_size_ready", 1)

Completed(d) == [d.msg EXCEPT !.body = d.got]
Stuck(d, io) == d.next = "error" \/ (d.next = "message_ready" /\ ~Accepts(io))

\* The state machine runs while no byte is needed for it.
Run[d \in Decoder, io \in Inout] ==
  IF d.to_read > 0 THEN [dec |-> d, io |-> io]
  ELSE IF Stuck(d, io) THEN [dec |-> d, io |-> Refuse(io)]
  ELSE Run[Step(d), IF d.next = "message_ready" THEN Write(io, Completed(d)) ELSE io]

Take(d, bytes) == [d EXCEPT !.got = @ \o bytes, !.to_read = @ - Len(bytes)]
Failed(d) == d.next = "error"

Copy[d \in Decoder, io \in Inout, bytes \in Seq(Byte)] ==
  LET run == Run[d, io]
      n == LeastOf(run.dec.to_read, Len(bytes))
  IN IF n = 0 \/ Failed(run.dec) THEN [dec |-> run.dec, io |-> run.io, left |-> bytes]
     ELSE Copy[Take(run.dec, Upto(bytes, n)), run.io, From(bytes, n + 1)]

\* Bytes that were read to where the message wants them: only the count moves on.
Fill_in(d, io, bytes) ==
  LET run == Run[Take(d, bytes), io] IN [dec |-> run.dec, io |-> run.io, left |-> <<>>]

process_buffer(d, io, bytes, inplace) ==
  IF Failed(d) THEN [dec |-> d, io |-> io, left |-> bytes]
  ELSE IF inplace THEN Fill_in(d, io, bytes) ELSE Copy[d, io, bytes]

(***************************************************************************)
(* The encoder: a batch of data, copied, or one large message as it is.    *)
(***************************************************************************)
get_data[e \in Encoder, io \in Inout, buf \in Seq(Byte)] ==
  IF e.write = <<>> THEN
    IF e.next = "size_ready" THEN get_data[[e EXCEPT !.write = e.msg.body, !.next = "message_ready"], io, buf]
    ELSE IF Supplies(io)
      THEN get_data[[next |-> "size_ready", write |-> Header(Next_in(io)), msg |-> Next_in(io)], Read(io), buf]
      ELSE [enc |-> [e EXCEPT !.msg = Empty], io |-> Sleep(io), data |-> buf, zero |-> FALSE]
  ELSE IF buf = <<>> /\ Len(e.write) >= out_batch_size THEN
    [enc |-> [e EXCEPT !.write = <<>>], io |-> io, data |-> e.write, zero |-> TRUE]
  ELSE
    LET n == LeastOf(Len(e.write), out_batch_size - Len(buf))
        full == buf \o Upto(e.write, n)
        rest == [e EXCEPT !.write = From(@, n + 1)]
    IN IF Len(full) = out_batch_size THEN [enc |-> rest, io |-> io, data |-> full, zero |-> FALSE]
       ELSE get_data[rest, io, full]

(***************************************************************************)
(* The engine.                                                             *)
(***************************************************************************)
\* What a read from the connection finds: some of what has arrived, which may be
\* nothing yet, or its end.
Reads(size) ==
  {[bytes |-> Upto(arriving, k), closed |-> FALSE] : k \in 0..LeastOf(size, Len(arriving))}
  \union (IF hung_up /\ arriving = <<>> THEN {[bytes |-> <<>>, closed |-> TRUE]} ELSE {})

InPlace(en) == en.dec.to_read >= in_batch_size
BufferSize(en) == IF InPlace(en) THEN en.dec.to_read ELSE in_batch_size

\* Everything in_event does.
in_event(en, io) ==
  \E r \in IF en.in = <<>> THEN Reads(BufferSize(en)) ELSE {[bytes |-> <<>>, closed |-> FALSE]} :
    LET done == process_buffer(en.dec, io, en.in \o r.bytes, en.in = <<>> /\ InPlace(en))
        lost == (r.closed \/ Failed(done.dec)) /\ done.io.to # "none"
    IN /\ arriving' = From(arriving, Len(r.bytes) + 1)
       /\ engine' = [en EXCEPT !.dec = done.dec, !.in = done.left,
                               !.pollin = @ /\ (done.left = <<>> \/ Failed(done.dec))]
       /\ inout' = IF lost THEN [done.io EXCEPT !.to = "gone"] ELSE done.io

OutBytes(en) ==
  LET data == IF en.zero THEN en.enc.msg.body ELSE en.buf IN From(data, Len(data) - en.outsize + 1)

\* The connection takes some of the data, or turns out to be broken.
WriteOut(en, io) ==
  \/ \E k \in 0..en.outsize :
       /\ wire' = wire \o Upto(OutBytes(en), k)
       /\ engine' = [en EXCEPT !.outsize = @ - k] /\ inout' = io
  \/ hung_up /\ engine' = en /\ inout' = [io EXCEPT !.to = "gone"] /\ UNCHANGED wire

out_event(en, io) ==
  LET batch == get_data[en.enc, io, <<>>]
      filled == [en EXCEPT !.enc = batch.enc, !.outsize = Len(batch.data), !.zero = batch.zero,
                           !.buf = IF batch.zero THEN @ ELSE batch.data]
  IN IF en.outsize > 0 THEN WriteOut(en, io)
     ELSE IF batch.io.to = "none" THEN engine' = filled /\ inout' = batch.io /\ UNCHANGED wire
     ELSE IF batch.data = <<>>
       THEN engine' = [filled EXCEPT !.pollout = FALSE] /\ inout' = batch.io /\ UNCHANGED wire
     ELSE WriteOut(filled, batch.io)

Plugged == inout.to \in {"init", "session"}

InEvent ==
  /\ Plugged /\ engine.pollin /\ (arriving # <<>> \/ hung_up)
  /\ in_event(engine, inout) /\ UNCHANGED <<stream, wire, hung_up>>

OutEvent ==
  /\ Plugged /\ engine.pollout /\ out_event(engine, inout)
  /\ UNCHANGED <<stream, arriving, hung_up>>

\* The session takes the engine over from the init object.
plug ==
  /\ inout.to = "none"
  /\ in_event([engine EXCEPT !.pollin = TRUE, !.pollout = TRUE], [inout EXCEPT !.to = "session"])
  /\ UNCHANGED <<stream, wire, hung_up>>

activate_in ==
  /\ inout.to = "session" /\ inout.refused /\ inout.room > 0
  /\ in_event([engine EXCEPT !.pollin = TRUE], [inout EXCEPT !.refused = FALSE])
  /\ UNCHANGED <<stream, wire, hung_up>>

activate_out ==
  /\ inout.to = "session" /\ inout.asleep /\ inout.queue # <<>>
  /\ out_event([engine EXCEPT !.pollout = TRUE], [inout EXCEPT !.asleep = FALSE])
  /\ UNCHANGED <<stream, arriving, hung_up>>

\* The session, or the init object, is terminated.
terminate ==
  /\ inout.to # "gone" /\ inout' = [inout EXCEPT !.to = "gone"]
  /\ UNCHANGED <<stream, arriving, wire, hung_up, engine>>

\* The socket at the other end of the pipes.
SocketSends ==
  /\ inout.unsent # <<>>
  /\ inout' = [inout EXCEPT !.unsent = Tail(@), !.queue = Append(@, Head(inout.unsent))]
  /\ UNCHANGED <<stream, arriving, wire, hung_up, engine>>
SocketReceives ==
  /\ inout.room < Room /\ inout' = [inout EXCEPT !.room = @ + 1]
  /\ UNCHANGED <<stream, arriving, wire, hung_up, engine>>

\* The peer closes: what it has sent arrives yet, or is lost.
PeerCloses ==
  /\ ~hung_up /\ hung_up' = TRUE /\ arriving' \in {arriving, <<>>}
  /\ UNCHANGED <<stream, wire, engine, inout>>

Next ==
  \/ InEvent \/ OutEvent \/ plug \/ activate_in \/ activate_out \/ terminate
  \/ SocketSends \/ SocketReceives \/ PeerCloses

Spec == Init /\ [][Next]_engineVars

(***************************************************************************)
(* Properties.                                                             *)
(***************************************************************************)
\* Every byte of every message taken from this side is written, is in the
\* batch, or is with the encoder: in that order, and once.
Taken == (IF inout.sent THEN <<Identity>> ELSE <<>>)
         \o Upto(Sent, Len(Sent) - Len(inout.unsent) - Len(inout.queue))
NothingLostOut ==
  wire \o OutBytes(engine) \o engine.enc.write
    \o (IF engine.enc.next = "size_ready" THEN engine.enc.msg.body ELSE <<>>)
  = Frames(Taken)

\* The session gets the messages that the peer sent after its identity, whole
\* and in order, however the bytes arrive.
ReceivedAsSent == IsPrefix(inout.delivered, Tail(stream.messages))

\* It gets all of them: when nothing more arrives, a message is held back only
\* while there is no room for it.
NothingHeldBack ==
  inout.to = "session" /\ ~inout.refused /\ arriving = <<>> /\ ~hung_up /\ ~stream.rubbish
    => inout.delivered = Tail(stream.messages)

\* The engine stops polling only when somebody will wake it up.
PollsOrIsWoken ==
  inout.to = "session" =>
    /\ ~engine.pollin => inout.refused /\ engine.in # <<>>
    /\ ~engine.pollout => inout.asleep /\ engine.outsize = 0 /\ engine.enc.write = <<>>

EngineSound == TypeOK /\ NothingLostOut /\ ReceivedAsSent /\ NothingHeldBack /\ PollsOrIsWoken
=============================================================================
