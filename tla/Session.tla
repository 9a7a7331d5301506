------------------------------- MODULE Session ------------------------------
(***************************************************************************)
(* A session_t between a socket and the engine of a connection, in one of  *)
(* its three kinds: one that connects, with the zmq_connecter_t and the    *)
(* zmq_init_t that it owns one after the other; a named one, which waits   *)
(* for its peer to connect again; and a transient one, which goes with its *)
(* connection.  When the socket closes, the session lingers until what was *)
(* sent is on its way.  All this happens in the session's I/O thread, in   *)
(* the order the commands, the timers and the connection happen to come.   *)
(***************************************************************************)
EXTENDS Integers, Sequences, FiniteSets

CONSTANT MaxQueue  \* bound: parts that wait in the pipe

SessionAssumption == MaxQueue \in Nat \ {0, 1}

VARIABLES
  options,        \* the kind of the session, and the options that matter
  session,        \* session_t
  queue,          \* the parts in the pipe from the socket
  connecter, init,
  attaches,       \* attach commands to the session, of an engine or of none
  closed,         \* the socket has closed its ends of the pipes
  told            \* the term command has been sent

vars == <<options, session, queue, connecter, init, attaches, closed, told>>
connectVars == <<connecter, init>>
socketVars == <<closed, told>>

Options ==
  [kind : {"connect", "named", "transient"}, immediate_connect : BOOLEAN,
   requires_out : BOOLEAN, linger : {"zero", "finite", "infinite"}]
PipeEnd == {"none", "open", "closing"}

TypeOK ==
  /\ options \in Options
  /\ session.state \in {"active", "pending", "terminating", "gone"}
  /\ {session.in_pipe, session.out_pipe} \subseteq PipeEnd
  /\ {session.pipes_attached, session.incomplete_in, session.incomplete_out, session.delimiter_processed,
      session.force_terminate, session.has_linger_timer, session.engine, session.stranded, session.aborted} \subseteq BOOLEAN
  /\ queue \in Seq({"part", "last", "delimiter"}) /\ Len(queue) <= MaxQueue + 1
  /\ connecter \in {"none", "unplugged", "waiting", "polling"}
  /\ init \in SUBSET {"plugged", "sent", "received"}
  /\ attaches \in Seq({"engine", "none"}) /\ Len(attaches) <= 2
  /\ {closed, told} \subseteq BOOLEAN

\* Only when it connects can a session have its pipes at once.
Init ==
  /\ options \in Options /\ (options.kind # "connect" => options.immediate_connect)
  /\ LET early == options.kind = "connect" /\ options.immediate_connect
     IN session = [state |-> "active",
                   in_pipe |-> IF early /\ options.requires_out THEN "open" ELSE "none",
                   out_pipe |-> IF early THEN "open" ELSE "none", pipes_attached |-> early,
                   incomplete_in |-> FALSE, incomplete_out |-> FALSE, delimiter_processed |-> FALSE,
                   force_terminate |-> FALSE, has_linger_timer |-> FALSE,
                   engine |-> FALSE, stranded |-> FALSE, aborted |-> FALSE]
  /\ queue = <<>> /\ init = {}
  /\ connecter = IF options.kind = "connect" THEN "unplugged" ELSE "none"
  /\ attaches = IF options.kind = "connect" THEN <<>> ELSE <<"engine">>
  /\ closed = FALSE /\ told = FALSE

(***************************************************************************)
(* What the handlers of the session are made of: the session afterwards.   *)
(***************************************************************************)
Closing(end) == IF end = "open" THEN "closing" ELSE end

proceed_with_term(s) ==
  IF s.state = "terminating" THEN s
  ELSE [s EXCEPT !.state = "terminating", !.has_linger_timer = FALSE, !.incomplete_out = FALSE,
                 !.in_pipe = Closing(@), !.out_pipe = Closing(@),
                 !.aborted = @ \/ s.state # "pending"]

\* The delimiter has been read.
delimited(s) ==
  LET read == [s EXCEPT !.delimiter_processed = TRUE, !.in_pipe = "closing",
                        !.aborted = @ \/ s.delimiter_processed]
  IN IF s.state = "pending" THEN proceed_with_term(read) ELSE read

\* reader_t::check_read finds a delimiter that comes next.
OnlyDelimiter(s, parts) == s.in_pipe = "open" /\ parts # <<>> /\ Head(parts) = "delimiter"
check_read(s, parts) == IF OnlyDelimiter(s, parts) THEN delimited(s) ELSE s

\* The rest of a message that has been read in part.
Rest(parts) == SubSeq(parts, (CHOOSE k \in 1..Len(parts) : parts[k] = "last" /\ \A j \in 1..k - 1 : parts[j] # "last") + 1, Len(parts))

\* Mutant of clean_pipes: the rest of a message stays in the pipe.
clean_pipesOut(s) == [s EXCEPT !.incomplete_out = FALSE]

\* clean_pipes asserts that the rest is there to be read; from a pipe that is told to
\* go nothing is read.
clean_pipes(s) ==
  [s EXCEPT !.incomplete_out = FALSE,
            !.incomplete_in = @ /\ s.in_pipe # "open",
            !.stranded = s.incomplete_in /\ s.in_pipe = "closing"]
Cleaned(s, parts) == IF s.incomplete_in /\ s.in_pipe = "open" THEN Rest(parts) ELSE parts

\* What detached() does: connect again, nothing, or ask to be terminated.
Detached ==
  /\ connecter' = IF options.kind = "connect" THEN "waiting" ELSE connecter
  /\ told' = (told \/ options.kind = "transient")
Forced(s) == IF options.kind = "transient" THEN [s EXCEPT !.force_terminate = TRUE] ELSE s

(***************************************************************************)
(* The connecter and the init object.                                      *)
(***************************************************************************)
\* The connection is attempted at once when the session is plugged, later again
\* after a while; opening the socket may fail.
start_connecting ==
  /\ connecter \in {"unplugged", "waiting"} /\ session.state # "gone"
  /\ connecter' \in {"polling", "waiting"}
  /\ UNCHANGED <<options, session, queue, init, attaches, socketVars>>

\* zmq_connecter_t::out_event: the connecter gives way to an init object, or
\* waits to try again.
ConnecterOut(ok) ==
  /\ connecter = "polling"
  /\ connecter' = IF ok THEN "none" ELSE "waiting"
  /\ init' = IF ok THEN {"plugged"} ELSE {}
  /\ UNCHANGED <<options, session, queue, attaches, socketVars>>

\* The identities are exchanged; then the engine is for the session.
Exchanged(what) ==
  /\ init # {} /\ what \notin init
  /\ IF init \union {what} = {"plugged", "sent", "received"}
       THEN init' = {} /\ attaches' = Append(attaches, "engine")
       ELSE init' = init \union {what} /\ UNCHANGED attaches
  /\ UNCHANGED <<options, session, queue, connecter, socketVars>>
InitRead == Exchanged("sent")
InitWrite == Exchanged("received")

InitDetach ==
  /\ init # {} /\ init' = {}
  /\ attaches' = Append(attaches, "none")
  /\ UNCHANGED <<options, session, queue, connecter, socketVars>>

\* The owner's termination reaches the connecter, or the init object.
ChildTerminated ==
  /\ session.state = "terminating" /\ (connecter # "none" \/ init # {})
  /\ connecter' = "none" /\ init' = {}
  /\ UNCHANGED <<options, session, queue, attaches, socketVars>>

\* The listener's init object finds a named session for another connection.
Arrives ==
  /\ options.kind = "named" /\ session.state # "gone" /\ Len(attaches) < 2
  /\ attaches' = Append(attaches, "engine")
  /\ UNCHANGED <<options, session, queue, connectVars, socketVars>>

(***************************************************************************)
(* The handlers of the session.                                            *)
(***************************************************************************)
process_attach ==
  /\ attaches # <<>> /\ attaches' = Tail(attaches)
  /\ IF Head(attaches) = "none"
       THEN session' = [Forced(session) EXCEPT !.aborted = @ \/ session.engine] /\ Detached
       ELSE /\ UNCHANGED <<connecter, told>>
            /\ session' =
                 IF session.state = "terminating" \/ session.engine THEN session
                 ELSE IF session.pipes_attached THEN [session EXCEPT !.engine = TRUE]
                 ELSE [session EXCEPT !.engine = TRUE, !.pipes_attached = TRUE, !.out_pipe = "open",
                                      !.in_pipe = IF options.requires_out THEN "open" ELSE "none"]
  /\ queue' = IF closed /\ session.in_pipe = "none" /\ session'.in_pipe = "open" THEN <<"delimiter">> ELSE queue
  /\ UNCHANGED <<options, init, closed>>

\* The engine fails, whenever it may.
detach ==
  LET cleaned == clean_pipes(session)
      rest == Cleaned(session, queue)
      after == check_read(Forced([cleaned EXCEPT !.engine = FALSE]), rest)
  IN /\ session.engine
     /\ session' = after /\ queue' = IF after.in_pipe = "closing" THEN <<>> ELSE rest
     /\ Detached
     /\ UNCHANGED <<options, init, attaches, closed>>

\* The engine takes a part from the pipe, or finds the delimiter.
read ==
  /\ session.engine /\ session.in_pipe = "open" /\ queue # <<>>
  /\ session' = IF Head(queue) = "delimiter" THEN delimited(session)
                ELSE [session EXCEPT !.incomplete_in = Head(queue) = "part"]
  /\ queue' = Tail(queue)
  /\ UNCHANGED <<options, connectVars, attaches, socketVars>>

write(more) ==
  /\ session.engine /\ session.out_pipe = "open"
  /\ session' = [session EXCEPT !.incomplete_out = more]
  /\ UNCHANGED <<options, queue, connectVars, attaches, socketVars>>

\* Without an engine only the delimiter is looked for.
activated ==
  /\ ~session.engine /\ OnlyDelimiter(session, queue)
  /\ session' = check_read(session, queue) /\ queue' = <<>>
  /\ UNCHANGED <<options, connectVars, attaches, socketVars>>

Gate(s) ==
  \/ ~options.requires_out \/ s.delimiter_processed \/ s.force_terminate
  \/ ~options.immediate_connect /\ s.in_pipe = "none"

process_term ==
  /\ told /\ session.state = "active"
  /\ LET pending == [session EXCEPT !.state = "pending", !.has_linger_timer = options.linger = "finite"]
         checked == check_read(pending, queue)
     IN session' = IF options.linger = "zero" THEN proceed_with_term(pending)
                   ELSE IF Gate(checked) THEN proceed_with_term(checked) ELSE checked
  /\ queue' = IF session'.in_pipe = "closing" THEN <<>> ELSE queue
  /\ UNCHANGED <<options, connectVars, attaches, socketVars>>

timer_event ==
  /\ session.has_linger_timer
  /\ session' = proceed_with_term([session EXCEPT !.has_linger_timer = FALSE])
  /\ queue' = IF session'.in_pipe = "closing" THEN <<>> ELSE queue
  /\ UNCHANGED <<options, connectVars, attaches, socketVars>>

\* The socket's end has followed, or begun.
InTerminated ==
  /\ session.in_pipe = "closing" /\ session' = [session EXCEPT !.in_pipe = "none"]
  /\ UNCHANGED <<options, queue, connectVars, attaches, socketVars>>
OutTerminated ==
  /\ session.out_pipe = "closing" \/ (session.out_pipe = "open" /\ closed)
  /\ session' = [session EXCEPT !.out_pipe = "none", !.incomplete_out = FALSE]
  /\ UNCHANGED <<options, queue, connectVars, attaches, socketVars>>

\* The destructor, when everything has been acknowledged.
Destroyed ==
  /\ session.state = "terminating" /\ session.in_pipe = "none" /\ session.out_pipe = "none"
  /\ connecter = "none" /\ init = {} /\ attaches = <<>>
  /\ session' = [session EXCEPT !.state = "gone", !.engine = FALSE]
  /\ UNCHANGED <<options, queue, connectVars, attaches, socketVars>>

(***************************************************************************)
(* The socket.                                                             *)
(***************************************************************************)
SocketSends(parts) ==
  /\ ~closed /\ session.in_pipe = "open" /\ Len(queue) + Len(parts) <= MaxQueue
  /\ queue' = queue \o parts
  /\ UNCHANGED <<options, session, connectVars, attaches, socketVars>>

SocketCloses ==
  /\ ~closed /\ closed' = TRUE /\ told' = TRUE
  /\ queue' = IF session.in_pipe = "open" THEN Append(queue, "delimiter") ELSE queue
  /\ UNCHANGED <<options, session, connectVars, attaches>>

OfConnection ==
  start_connecting \/ InitRead \/ InitWrite \/ InitDetach \/ ChildTerminated \/ Arrives
  \/ \E ok \in BOOLEAN : ConnecterOut(ok)
OfSession ==
  process_attach \/ detach \/ read \/ activated \/ process_term \/ timer_event \/ InTerminated
  \/ OutTerminated \/ Destroyed \/ \E more \in BOOLEAN : write(more)

\* The process aborts where clean_pipes cannot do its work.
Next ==
  /\ ~session.stranded
  /\ \/ OfConnection \/ OfSession
     \/ SocketCloses \/ \E parts \in {<<"last">>, <<"part", "last">>} : SocketSends(parts)

Spec == Init /\ [][Next]_vars

(***************************************************************************)
(* Properties.                                                             *)
(***************************************************************************)
\* session.cpp:126: the rest of a message that was read in part can be read when the
\* connection fails.
NeverStranded == ~session.stranded

\* It cannot once the pipe has been told to go in the middle of the message, which a
\* session does that stops lingering, and never one that lingers without a limit.
StrandedByLinger ==
  session.stranded => session.state = "terminating" /\ options.linger # "infinite" /\ ~session.delimiter_processed

\* None of the other assertions of session.cpp fails.
NeverAborts == ~session.aborted

\* A connecting session is always connected or trying to be, and in one way
\* only, until it terminates.
OneAttempt ==
  LET ways == (IF session.engine THEN 1 ELSE 0) + (IF connecter # "none" THEN 1 ELSE 0)
              + (IF init # {} THEN 1 ELSE 0) + Len(attaches)
  IN options.kind = "connect" =>
       IF session.state \in {"active", "pending"} THEN ways = 1 ELSE ways <= 1

\* A connection begins with a whole message in either direction, and a session
\* that has none does not hold the beginning of one back.
CleanStart ==
  ~session.engine =>
    /\ ~session.incomplete_out
    /\ session.in_pipe = "open" => ~session.incomplete_in

\* With an infinite linger, a session that its connection does not take away
\* terminates only when everything that was sent has been read.
NothingUnsent ==
  options.linger = "infinite" /\ options.kind # "transient" /\ session.state \in {"terminating", "gone"}
    => queue = <<>> /\ (session.pipes_attached /\ options.requires_out => session.delimiter_processed)

SessionSound == TypeOK /\ StrandedByLinger /\ NeverAborts /\ OneAttempt /\ CleanStart /\ NothingUnsent
=============================================================================
