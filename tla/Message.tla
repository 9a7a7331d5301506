------------------------------- MODULE Message ------------------------------
(***************************************************************************)
(* ZeroMQ messages: zmq_msg_t structures, each in the hands of one thread  *)
(* or in a pipe, that refer to buffers (msg_content_t).  A buffer may be   *)
(* shared by several structures; its references are counted, but only once *)
(* there is a second one.  A call uses the counter of a buffer once, so    *)
(* calls of several threads come one after the other; the release of a     *)
(* buffer is a step of its own.                                            *)
(***************************************************************************)
EXTENDS Integers, FiniteSets

CONSTANTS Structures, Buffers

MessageAssumption ==
  /\ IsFiniteSet(Structures) /\ IsFiniteSet(Buffers)
  /\ {"invalid", "vsm"} \intersect Buffers = {}  \* no buffer is where the marks ZMQ_VSM, ZMQ_DELIMITER would point

VARIABLES
  msg,       \* the structures: their content and their ZMQ_MSG_SHARED flag
  refcnt,
  memory,    \* the buffers: unused, allocated or freed
  doomed,    \* buffers whose counter a zmq_msg_close has found at zero
  refusals,  \* references that distribute has counted for pipes that refused them
  refused    \* buffers a pipe has refused

messageVars == <<msg, refcnt, memory, doomed, refusals, refused>>

\* Very small messages and delimiters have no buffer.
Invalid == [content |-> "invalid", shared |-> FALSE]
Vsm == [content |-> "vsm", shared |-> FALSE]
Counts == 0..2 * Cardinality(Structures)

TypeOK ==
  /\ msg \in [Structures -> [content : Buffers \union {"invalid", "vsm"}, shared : BOOLEAN]]
  /\ refcnt \in [Buffers -> Counts]
  /\ memory \in [Buffers -> {"unused", "allocated", "freed"}]
  /\ doomed \subseteq Buffers /\ refused \subseteq Buffers
  /\ refusals \in [Buffers -> Counts]

Init ==
  /\ msg = [s \in Structures |-> Invalid]
  /\ refcnt = [b \in Buffers |-> 0]
  /\ memory = [b \in Buffers |-> "unused"]
  /\ doomed = {} /\ refused = {}
  /\ refusals = [b \in Buffers |-> 0]

Valid(s) == msg[s] # Invalid
HasBuffer(m) == m.content \in Buffers

(***************************************************************************)
(* The calls.                                                              *)
(***************************************************************************)
InitSize(s) ==
  /\ ~Valid(s)
  /\ msg' = [msg EXCEPT ![s] = Vsm]
  /\ UNCHANGED <<refcnt, memory, doomed, refusals, refused>>

\* zmq_msg_init_data, and zmq_msg_init_size of a large message.
InitData(s, b) ==
  /\ ~Valid(s) /\ memory[b] = "unused"
  /\ msg' = [msg EXCEPT ![s] = [content |-> b, shared |-> FALSE]]
  /\ memory' = [memory EXCEPT ![b] = "allocated"]
  /\ UNCHANGED <<refcnt, doomed, refusals, refused>>

\* What zmq_msg_close does to the counters, and which buffers it releases.
Dropped(s, counters) ==
  IF HasBuffer(msg[s]) /\ msg[s].shared THEN [counters EXCEPT ![msg[s].content] = @ - 1] ELSE counters
Released(s) ==
  {b \in Buffers : msg[s].content = b /\ (msg[s].shared => refcnt[b] = 1)}

Close(s) ==
  /\ Valid(s)
  /\ msg' = [msg EXCEPT ![s] = Invalid]
  /\ refcnt' = Dropped(s, refcnt) /\ doomed' = doomed \union Released(s)
  /\ UNCHANGED <<memory, refusals, refused>>

Free(b) ==
  /\ b \in doomed
  /\ memory' = [memory EXCEPT ![b] = "freed"] /\ doomed' = doomed \ {b}
  /\ UNCHANGED <<msg, refcnt, refusals, refused>>

\* Also how a structure passes through a pipe: it is written as it is, and the
\* writer's is initialised.
Move(d, s) ==
  /\ d # s /\ Valid(s)
  /\ msg' = [msg EXCEPT ![d] = msg[s], ![s] = Vsm]
  /\ refcnt' = Dropped(d, refcnt) /\ doomed' = doomed \union Released(d)
  /\ UNCHANGED <<memory, refusals, refused>>

\* The counter of a buffer with one more reference, or with n in all.
Counted(s, n, counters) ==
  LET b == msg[s].content
  IN IF ~HasBuffer(msg[s]) THEN counters
     ELSE IF msg[s].shared THEN [counters EXCEPT ![b] = @ + n - 1]
     ELSE [counters EXCEPT ![b] = n]
AsShared(m) == IF HasBuffer(m) THEN [m EXCEPT !.shared = TRUE] ELSE m

Copy(d, s) ==
  /\ d # s /\ Valid(s) /\ Valid(d)
  /\ msg' = [msg EXCEPT ![d] = AsShared(msg[s]), ![s] = AsShared(msg[s])]
  /\ refcnt' = Counted(s, 2, Dropped(d, refcnt)) /\ doomed' = doomed \union Released(d)
  /\ UNCHANGED <<memory, refusals, refused>>

(***************************************************************************)
(* dist_t::distribute: the message goes into the pipes in "taken"; those   *)
(* in "full" refuse it, which is seen while others already read theirs.    *)
(***************************************************************************)
\* Without a pipe, or when the only one refuses it, the message is closed.
DropMessage(s) ==
  /\ msg' = [msg EXCEPT ![s] = Vsm]
  /\ refcnt' = Dropped(s, refcnt) /\ doomed' = doomed \union Released(s)
  /\ UNCHANGED <<memory, refusals, refused>>

SpreadMessage(s, taken, full) ==
  LET several == Cardinality(taken \union full) > 1
      m == IF several THEN AsShared(msg[s]) ELSE msg[s]
      b == m.content
  IN /\ msg' = [t \in Structures |-> IF t \in taken THEN m ELSE IF t = s THEN Vsm ELSE msg[t]]
     /\ refcnt' = IF several THEN Counted(s, Cardinality(taken \union full), refcnt) ELSE refcnt
     /\ refusals' = IF HasBuffer(m) THEN [refusals EXCEPT ![b] = @ + Cardinality(full)] ELSE refusals
     /\ refused' = IF HasBuffer(m) /\ full # {} THEN refused \union {b} ELSE refused
     /\ UNCHANGED <<memory, doomed>>

\* A place in a pipe holds no message.  Bound: one distribution that is refused
\* goes on at a time.
Distribute(s) ==
  /\ Valid(s)
  /\ \E places \in SUBSET {t \in Structures \ {s} : ~Valid(t)} : \E full \in SUBSET places :
       /\ full # {} => \A b \in Buffers : refusals[b] = 0
       /\ IF places = full /\ Cardinality(full) <= 1 THEN DropMessage(s)
          ELSE SpreadMessage(s, places \ full, full)

\* The reference a refused message would have been is counted off again;
\* distribute does not look whether it was the last.
Refused(b) ==
  /\ refusals[b] > 0
  /\ refusals' = [refusals EXCEPT ![b] = @ - 1] /\ refcnt' = [refcnt EXCEPT ![b] = @ - 1]
  /\ UNCHANGED <<msg, memory, doomed, refused>>

Next ==
  \/ \E s \in Structures :
       InitSize(s) \/ Close(s) \/ Distribute(s) \/ \E d \in Structures : Move(d, s) \/ Copy(d, s)
  \/ \E b \in Buffers : Free(b) \/ Refused(b) \/ \E s \in Structures : InitData(s, b)

Spec == Init /\ [][Next]_messageVars

(***************************************************************************)
(* Properties.                                                             *)
(***************************************************************************)
Holders(b) == {s \in Structures : msg[s].content = b}

\* msg_content.hpp:36: if a buffer is shared, by two references or more, the
\* counter contains their number; one without the flag has a single reference.
CountIsReferences ==
  \A b \in Buffers, s \in Structures : msg[s].content = b =>
    IF msg[s].shared THEN refcnt[b] = Cardinality(Holders(b)) + refusals[b] ELSE Holders(b) = {s}

\* No message refers to a buffer that has been or is being released.
NoneDangles == \A b \in Buffers : Holders(b) # {} => memory[b] = "allocated" /\ b \notin doomed

\* A buffer nobody refers to is released, unless a pipe has refused it.
NoneLeaks ==
  \A b \in Buffers \ refused : memory[b] = "allocated" => Holders(b) # {} \/ b \in doomed

\* This does not hold for those: the reference distribute takes back may be
\* the last one, when all pipes refuse the message or the others have read it.
NoneLeaksAtAll == \A b \in Buffers : memory[b] = "allocated" => Holders(b) # {} \/ b \in doomed \/ refusals[b] > 0

MessagesSound == TypeOK /\ CountIsReferences /\ NoneDangles /\ NoneLeaks
=============================================================================
