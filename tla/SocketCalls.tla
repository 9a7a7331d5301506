---------------------------- MODULE SocketCalls -----------------------------
(***************************************************************************)
(* The calls an application makes on a socket, socket_base_t's send and    *)
(* recv and zmq_poll, beside the threads that fill its inbound pipe, empty *)
(* its outbound pipe and stop it.  A pipe that was found empty or full is  *)
(* used again only after a command from its other end, and commands are    *)
(* processed only now and then: recv looks for them after every            *)
(* inbound_poll_rate messages, send when some time has passed.             *)
(***************************************************************************)
EXTENDS Integers, Sequences, FiniteSets

CONSTANTS
  inbound_poll_rate,
  MaxHeld,          \* bound: messages in the inbound pipe
  Room,             \* messages the outbound pipe takes
  MaxSignals        \* bound: signals that interrupt a call

SocketCallsAssumption == inbound_poll_rate \in Nat \ {0} /\ {MaxHeld, Room, MaxSignals} \subseteq Nat

VARIABLES
  in_pipe,          \* the messages in the inbound pipe: [end, held]
  out_pipe,         \* the outbound pipe: [end, room]
  written, returned,       \* the last message that was, in a cycle of numbers
  commands,         \* the mailbox
  told_to_stop, stopped,   \* stop has been sent; ctx_terminated
  ticks,
  call,             \* the call in progress, where it is, and what it holds
  signals_left,     \* to come
  lost              \* messages that were, since the last returned

vars == <<in_pipe, out_pipe, written, returned, commands, told_to_stop, stopped, ticks, call, signals_left, lost>>

\* Messages are numbered in a cycle.
Message == 0..MaxHeld + MaxSignals + 1
NoMessage == MaxHeld + MaxSignals + 2
After(n) == (n + 1) % NoMessage

\* An end of a pipe is awake, asleep, or asleep with a command on its way.
End == {"awake", "asleep", "signalled"}
NoCall == [name |-> "none", at |-> "none", block |-> FALSE, held |-> NoMessage]

TypeOK ==
  /\ in_pipe \in [end : End, held : Seq(Message)]
  /\ out_pipe \in [end : End, room : 0..Room]
  /\ {written, returned} \subseteq Message
  /\ commands \subseteq {"stop", "activate_reader", "activate_writer"}
  /\ {told_to_stop, stopped} \subseteq BOOLEAN /\ ticks \in 0..inbound_poll_rate + 1
  /\ call.name \in {"none", "recv", "send", "poll_in", "poll_out"} /\ call.block \in BOOLEAN
  /\ call.at \in {"none", "tick", "retry", "look", "wait", "fetch", "put", "check"}
  /\ call.held \in Message \union {NoMessage} /\ {signals_left, lost} \subseteq 0..MaxSignals

Init ==
  /\ in_pipe = [end |-> "awake", held |-> <<>>]
  /\ out_pipe = [end |-> "awake", room |-> Room]
  /\ written = 0 /\ returned = 0 /\ commands = {}
  /\ told_to_stop = FALSE /\ stopped = FALSE /\ ticks = 0 /\ call = NoCall
  /\ signals_left = MaxSignals /\ lost = 0

(***************************************************************************)
(* Other threads.                                                          *)
(***************************************************************************)
Signalled(end) == IF end = "asleep" THEN "signalled" ELSE end

PeerWrites ==
  /\ Len(in_pipe.held) < MaxHeld
  /\ written' = After(written)
  /\ in_pipe' = [end |-> Signalled(in_pipe.end), held |-> Append(in_pipe.held, written')]
  /\ commands' = IF in_pipe.end = "asleep" THEN commands \union {"activate_reader"} ELSE commands
  /\ UNCHANGED <<out_pipe, returned, told_to_stop, stopped, ticks, call, signals_left, lost>>

PeerReads ==
  /\ out_pipe.room < Room
  /\ out_pipe' = [end |-> Signalled(out_pipe.end), room |-> out_pipe.room + 1]
  /\ commands' = IF out_pipe.end = "asleep" THEN commands \union {"activate_writer"} ELSE commands
  /\ UNCHANGED <<in_pipe, written, returned, told_to_stop, stopped, ticks, call, signals_left, lost>>

Stop ==
  /\ ~told_to_stop /\ told_to_stop' = TRUE
  /\ commands' = commands \union {"stop"}
  /\ UNCHANGED <<in_pipe, out_pipe, written, returned, stopped, ticks, call, signals_left, lost>>

(***************************************************************************)
(* What the calls are made of.                                             *)
(***************************************************************************)
Readable == in_pipe.end = "awake" /\ in_pipe.held # <<>>
Writable == out_pipe.end = "awake" /\ out_pipe.room > 0

Asleep(end) == IF end = "awake" THEN "asleep" ELSE end

\* xrecv takes a message or puts the reader to sleep, xsend likewise.
Xrecv == in_pipe' = IF Readable THEN [in_pipe EXCEPT !.held = Tail(@)] ELSE [in_pipe EXCEPT !.end = Asleep(@)]
Xsend == out_pipe' = IF Writable THEN [out_pipe EXCEPT !.room = @ - 1] ELSE [out_pipe EXCEPT !.end = Asleep(@)]

\* process_commands: whatever is in the mailbox, then ETERM.  A signal ends it, before
\* or after the commands.  It may wait for a command.
Process ==
  /\ in_pipe' = IF "activate_reader" \in commands THEN [in_pipe EXCEPT !.end = "awake"] ELSE in_pipe
  /\ out_pipe' = IF "activate_writer" \in commands THEN [out_pipe EXCEPT !.end = "awake"] ELSE out_pipe
  /\ stopped' = (stopped \/ "stop" \in commands)
  /\ commands' = {}
ProcessCommands(ok, waits) ==
  \/ Process /\ ok = ~stopped' /\ (waits => commands # {}) /\ UNCHANGED signals_left
  \/ /\ ~ok /\ signals_left > 0 /\ signals_left' = signals_left - 1
     /\ Process \/ UNCHANGED <<in_pipe, out_pipe, stopped, commands>>

Return == call' = NoCall
Returned(message) == returned' = message /\ lost' = 0
NoneReturned == UNCHANGED <<returned, lost>>
At(name, place) == call.name = name /\ call.at = place
Goes(place) == call' = [call EXCEPT !.at = place]

(***************************************************************************)
(* recv.                                                                   *)
(***************************************************************************)
\* Where a recv that has no message goes on: in the loop of a blocking one it
\* waits for a command at once, unless the commands have just been processed.
Onwards(block, processed) ==
  call' = [name |-> "recv", block |-> block, held |-> NoMessage,
           at |-> IF ~block THEN "retry" ELSE IF processed THEN "look" ELSE "wait"]

\* Mutant of RecvStart: calls that have a message at once are not counted.
RecvStartUncounted(block) ==
  /\ call = NoCall /\ ~stopped
  /\ Xrecv
  /\ IF Readable THEN Return /\ Returned(Head(in_pipe.held)) ELSE Onwards(block, FALSE) /\ NoneReturned
  /\ UNCHANGED <<out_pipe, written, commands, told_to_stop, stopped, ticks, signals_left>>

\* Beyond inbound_poll_rate, where they are not equal any more, ticks are not counted.
RecvStart(block) ==
  /\ call = NoCall /\ ~stopped
  /\ Xrecv
  /\ ticks' = IF ticks > inbound_poll_rate THEN ticks ELSE ticks + 1
  /\ LET message == IF Readable THEN Head(in_pipe.held) ELSE NoMessage
     IN IF ticks' = inbound_poll_rate
          THEN /\ call' = [name |-> "recv", at |-> "tick", block |-> block, held |-> message]
               /\ NoneReturned
          ELSE IF message # NoMessage THEN Return /\ Returned(message)
          ELSE Onwards(block, FALSE) /\ NoneReturned
  /\ UNCHANGED <<out_pipe, written, commands, told_to_stop, stopped, signals_left>>

\* When this fails the message that was fetched is lost, and ticks stay as they are.
RecvTick ==
  /\ At("recv", "tick")
  /\ \E ok \in BOOLEAN :
       /\ ProcessCommands(ok, FALSE)
       /\ ticks' = IF ok THEN 0 ELSE ticks
       /\ IF ~ok THEN /\ Return /\ UNCHANGED returned
                      /\ lost' = IF call.held # NoMessage /\ ~stopped' THEN lost + 1 ELSE lost
          ELSE IF call.held # NoMessage THEN Return /\ Returned(call.held)
          ELSE Onwards(call.block, TRUE) /\ NoneReturned
  /\ UNCHANGED <<written, told_to_stop>>

RecvProcess ==
  /\ call.name = "recv" /\ call.at \in {"retry", "look", "wait"}
  /\ \E ok \in BOOLEAN :
       /\ ProcessCommands(ok, call.at = "wait")
       /\ IF ok THEN Goes("fetch") ELSE Return
       /\ ticks' = IF ok /\ call.at = "retry" THEN 0 ELSE ticks
  /\ UNCHANGED <<written, returned, lost, told_to_stop>>

RecvFetch ==
  /\ At("recv", "fetch")
  /\ Xrecv
  /\ IF Readable THEN Return /\ Returned(Head(in_pipe.held))
     ELSE NoneReturned /\ (IF call.block THEN Goes("wait") ELSE Return)
  /\ ticks' = IF Readable /\ call.block THEN 0 ELSE ticks
  /\ UNCHANGED <<out_pipe, written, commands, told_to_stop, stopped, signals_left>>

(***************************************************************************)
(* send.  Commands are not looked for when they were a moment ago.         *)
(***************************************************************************)
SendStart(block, throttled) ==
  /\ call = NoCall /\ ~stopped
  /\ IF throttled
       THEN /\ call' = [name |-> "send", at |-> "put", block |-> block, held |-> NoMessage]
            /\ UNCHANGED <<in_pipe, out_pipe, commands, stopped, signals_left>>
       ELSE \E ok \in BOOLEAN :
              /\ ProcessCommands(ok, FALSE)
              /\ call' = IF ok THEN [name |-> "send", at |-> "put", block |-> block, held |-> NoMessage] ELSE NoCall
  /\ UNCHANGED <<written, returned, lost, told_to_stop, ticks>>

SendPut ==
  /\ At("send", "put")
  /\ Xsend
  /\ IF Writable \/ ~call.block THEN Return ELSE Goes("wait")
  /\ UNCHANGED <<in_pipe, written, returned, lost, commands, told_to_stop, stopped, ticks, signals_left>>

SendWait ==
  /\ At("send", "wait")
  /\ \E ok \in BOOLEAN : ProcessCommands(ok, TRUE) /\ (IF ok THEN Goes("put") ELSE Return)
  /\ UNCHANGED <<written, returned, lost, told_to_stop, ticks>>

(***************************************************************************)
(* zmq_poll, without a timeout, for messages to read or room to write: the *)
(* mailbox is polled for input, in the first pass without waiting for it,  *)
(* and the socket is asked for its ZMQ_EVENTS.                             *)
(***************************************************************************)
PollStart(name) ==
  /\ call = NoCall /\ ~stopped
  /\ call' = [name |-> name, at |-> "retry", block |-> TRUE, held |-> NoMessage]
  /\ UNCHANGED <<in_pipe, out_pipe, written, returned, lost, commands, told_to_stop, stopped, ticks, signals_left>>

PollCommands ==
  /\ call.name \in {"poll_in", "poll_out"} /\ call.at \in {"retry", "wait"}
  /\ \E ok \in BOOLEAN : ProcessCommands(ok, call.at = "wait") /\ (IF ok THEN Goes("check") ELSE Return)
  /\ UNCHANGED <<written, returned, lost, told_to_stop, ticks>>

\* has_out and has_in put the ends to sleep that are of no use.
PollEvents ==
  /\ call.at = "check"
  /\ out_pipe' = IF Writable THEN out_pipe ELSE [out_pipe EXCEPT !.end = Asleep(@)]
  /\ in_pipe' = IF Readable THEN in_pipe ELSE [in_pipe EXCEPT !.end = Asleep(@)]
  /\ IF (call.name = "poll_in" /\ Readable) \/ (call.name = "poll_out" /\ Writable)
       THEN Return ELSE Goes("wait")
  /\ UNCHANGED <<written, returned, lost, commands, told_to_stop, stopped, ticks, signals_left>>

Calling == \E block \in BOOLEAN : RecvStart(block) \/ \E throttled \in BOOLEAN : SendStart(block, throttled)
Proceeding ==
  RecvTick \/ RecvProcess \/ RecvFetch \/ SendPut \/ SendWait \/ PollCommands \/ PollEvents

Next ==
  \/ PeerWrites \/ PeerReads \/ Stop
  \/ Calling \/ PollStart("poll_in") \/ PollStart("poll_out") \/ Proceeding

Spec == Init /\ [][Next]_vars

\* A call goes on when it can without a signal, and the application calls recv again
\* and again; its pipe need never be found empty.
CallsRecv == RecvStart(FALSE) \/ RecvStart(TRUE)
Unsignalled == Proceeding /\ signals_left' = signals_left
Fairness == WF_vars(Unsignalled) /\ SF_vars(CallsRecv)
FairSpec == Spec /\ Fairness

(***************************************************************************)
(* Properties.                                                             *)
(***************************************************************************)
\* Messages come out in order, until the socket is stopped, and none is skipped but
\* those fetched by a recv whose process_commands was interrupted.
InFlight == (IF call.held # NoMessage THEN <<call.held>> ELSE <<>>) \o in_pipe.held
NoneLost ==
  ~stopped =>
    /\ InFlight = [k \in 1..(written - returned - lost) % NoMessage |-> (returned + lost + k) % NoMessage]
    /\ signals_left + lost <= MaxSignals

\* An end that sleeps has nothing to do, or a command is in the mailbox.
NoSleepOverWork ==
  /\ in_pipe.end = "asleep" => in_pipe.held = <<>>
  /\ in_pipe.end = "signalled" => "activate_reader" \in commands
  /\ out_pipe.end = "asleep" => out_pipe.room = 0
  /\ out_pipe.end = "signalled" => "activate_writer" \in commands

\* A call waits for a command only when one will come with what it waits for.
WaitsOnlyAsleep ==
  call.at = "wait" =>
    IF call.name \in {"recv", "poll_in"} THEN in_pipe.end # "awake" ELSE out_pipe.end # "awake"

\* socket_base.cpp:767: zmq_term reaches the socket also when there is always a
\* message to receive: within so many messages commands are looked for, unless they
\* were once, a signal came, and ticks passed over their limit.
StopHeard == <>[](told_to_stop => stopped \/ ticks > inbound_poll_rate)

CallsSound == TypeOK /\ NoneLost /\ NoSleepOverWork /\ WaitsOnlyAsleep
=============================================================================
