------------------------------- MODULE Device -------------------------------
(***************************************************************************)
(* zmq_device: a thread that passes messages between two sockets, part by  *)
(* part and in both directions, one message of either end in turn.  Which  *)
(* kind of device it is makes no difference but for the types of the       *)
(* sockets: some cannot be read from, and some drop what they cannot send  *)
(* instead of waiting.                                                     *)
(***************************************************************************)
EXTENDS Integers, Sequences, SequencesExt

CONSTANTS
  NULL,
  DeviceCalls,  \* arguments: the kind of device, the types of its sockets or NULL
  MaxMessages,  \* that come to an end
  MaxParts


Ends == {"insocket", "outsocket"}
Other(end) == IF end = "insocket" THEN "outsocket" ELSE "insocket"
DeviceAssumption == MaxMessages \in [Ends -> Nat] /\ MaxParts \in Nat

Readable == {"xrep", "xreq", "sub", "pull"}
Waiting == {"xreq", "push"}

VARIABLES
  call, phase, errno,
  revents, turn,  \* what zmq_poll has reported, and the end whose message is passed on
  msg,            \* the part that was received last, if it is not sent yet
  arrived, got,   \* messages that come to an end, each its number of parts; how many parts were received
  sent,           \* parts sent at an end, with their ZMQ_SNDMORE
  full,           \* every peer's pipe at an end is
  terminated,     \* zmq_term was called
  waited          \* messages passed on since an end has had one

deviceVars == <<call, phase, errno, revents, turn, msg, arrived, got, sent, full, terminated, waited>>
loop == <<call, errno, revents, turn>>
outside == <<arrived, full, terminated>>

\* Part k of message n.
Parts(end) == FlattenSeq([n \in DOMAIN arrived[end] |-> [k \in 1..arrived[end][n] |-> <<n, k>>]])
HasIn(end) == got[end] < Len(Parts(end))
RcvMore(end, part) == part[2] < arrived[end][part[1]]

TypeOK ==
  /\ call \in DeviceCalls /\ phase \in {"called", "poll", "recv", "send", "returned"} /\ errno \in {"none", "EFAULT", "EINVAL", "ETERM"}
  /\ revents \subseteq Ends /\ turn \in Ends /\ msg \in {NULL} \union ((DOMAIN arrived[turn]) \X (1..MaxParts))
  /\ {full[end] : end \in Ends} \union {terminated} \subseteq BOOLEAN

Init ==
  /\ call \in DeviceCalls /\ phase = "called" /\ errno = "none" /\ revents = {} /\ turn = "insocket" /\ msg = NULL
  /\ arrived = [end \in Ends |-> <<>>] /\ got = [end \in Ends |-> 0] /\ sent = [end \in Ends |-> <<>>]
  /\ full = [end \in Ends |-> FALSE] /\ terminated = FALSE /\ waited = [end \in Ends |-> 0]

Returns(error) ==
  /\ phase' = "returned" /\ errno' = error
  /\ UNCHANGED <<call, revents, turn, msg, arrived, got, sent, full, terminated, waited>>

zmq_device ==
  /\ phase = "called"
  /\ IF NULL \in {call.insocket, call.outsocket} THEN Returns("EFAULT")
     ELSE IF call.device \notin {"FORWARDER", "QUEUE", "STREAMER"} THEN Returns("EINVAL")
     ELSE phase' = "poll" /\ UNCHANGED <<loop, msg, got, sent, waited, outside>>

\* Requests go first, each time that both ends have some.
Poll ==
  /\ phase = "poll" /\ \E end \in Ends : HasIn(end)
  /\ revents' = {end \in Ends : HasIn(end)}
  /\ turn' = IF "insocket" \in revents' THEN "insocket" ELSE "outsocket"
  /\ phase' = "recv" /\ UNCHANGED <<call, errno, msg, got, sent, waited, outside>>

Recv ==
  /\ phase = "recv" /\ HasIn(turn)
  /\ msg' = Parts(turn)[got[turn] + 1] /\ got' = [got EXCEPT ![turn] = @ + 1] /\ phase' = "send"
  /\ UNCHANGED <<loop, sent, waited, outside>>

\* A socket that waits does so before a message, not within one.
Blocks(end) == full[end] /\ call[end] \in Waiting /\ msg[2] = 1
PassedOn == waited' = [end \in Ends |-> IF end # turn /\ HasIn(end) THEN waited[end] + 1 ELSE 0]
Send ==
  /\ phase = "send" /\ ~Blocks(Other(turn))
  /\ sent' = [sent EXCEPT ![Other(turn)] = Append(@, [part |-> msg, more |-> RcvMore(turn, msg)])] /\ msg' = NULL
  /\ IF RcvMore(turn, msg) THEN phase' = "recv" /\ UNCHANGED <<turn, waited>>
     ELSE /\ PassedOn
          /\ turn' = Other(turn)
          /\ phase' = IF turn = "insocket" /\ "outsocket" \in revents THEN "recv" ELSE "poll"
  /\ UNCHANGED <<call, errno, revents, got, outside>>

\* Any call fails once it has heard that the context is terminated.
Fail == phase \in {"poll", "recv", "send"} /\ terminated /\ Returns("ETERM")

(***************************************************************************)
(* The peers, and the thread that terminates the context.                  *)
(***************************************************************************)
Arrive(end) ==
  /\ call[end] \in Readable /\ Len(arrived[end]) < MaxMessages[end]
  /\ \E parts \in 1..MaxParts : arrived' = [arrived EXCEPT ![end] = Append(@, parts)]
  /\ UNCHANGED <<loop, phase, msg, got, sent, full, terminated, waited>>
Congest(end) ==
  /\ call[end] \in Waiting /\ full' = [full EXCEPT ![end] = ~@]
  /\ UNCHANGED <<loop, phase, msg, arrived, got, sent, terminated, waited>>
zmq_term == ~terminated /\ terminated' = TRUE /\ UNCHANGED <<loop, phase, msg, arrived, got, sent, full, waited>>

Next == zmq_device \/ Poll \/ Recv \/ Send \/ Fail \/ zmq_term \/ \E end \in Ends : Arrive(end) \/ Congest(end)

Spec == Init /\ [][Next]_deviceVars

(***************************************************************************)
(* Properties.                                                             *)
(***************************************************************************)
\* device.cpp: what an end receives is sent at the other, whole and in its order.
PassesOn ==
  \A end \in Ends :
    LET its == sent[Other(end)]
        held == IF msg # NULL /\ turn = end THEN <<msg>> ELSE <<>>
    IN /\ [k \in DOMAIN its |-> its[k].part] \o held = SubSeq(Parts(end), 1, got[end])
       /\ \A k \in DOMAIN its : its[k].more <=> RcvMore(end, its[k].part)

\* device.cpp: recv never waits, which would hold up what comes from the other
\* end: there is a message when it is called, and the rest of one comes with it.
NeverWaitsForPart == phase = "recv" => HasIn(turn)

\* device.cpp: neither end is flooded by the other: who has a message waits for
\* two at most.
TakesTurns == waited["insocket"] <= 1 /\ waited["outsocket"] <= 2

DeviceSound == TypeOK /\ PassesOn /\ NeverWaitsForPart /\ TakesTurns
=============================================================================
