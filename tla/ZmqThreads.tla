---------------------------- MODULE ZmqThreads ------------------------------
(***************************************************************************)
(* The parts of ZeroMQ that run in several threads, side by side: each     *)
(* behaviour is one of one part, chosen in the beginning, and the others   *)
(* keep their initial state.  The parts share nothing here, so that what   *)
(* holds of all behaviours is what holds of each part.                     *)
(***************************************************************************)
EXTENDS Mailbox

CONSTANTS
  None,
  PipeKinds, max_wm_delta, MaxMessages, MaxParts, Delimiter,            \* pipes
  Object, Root, Thread, Layouts,                                        \* trees of objects
  Socket, Log, max_sockets, Endpoint, SysLog, MaxConnects, MaxInterrupts,  \* the context
  inbound_poll_rate, MaxHeld, Room, MaxSignals                          \* calls

VARIABLES
  part,
  created, pipe_partial, pipe_unflushed, pipe_flushed, pipe_reader,
  reader_active, reader_read, reader_terminating, reader_gone,
  writer_active, msgs_read, msgs_written, swapping,
  pending_delimiter, writer_terminating, writer_gone,
  swap, commit, rollback_ok, toReader, toWriter, last_written, last_read,
  layout, phase, owner, owned, plugged, terminating, term_acks, sent_seqnum, processed_seqnum,
  requested, inbox, doing, endpoint, promised, finds,
  ctx_terminating, sockets, empty_slots, slots, endpoints, term, term_mailbox, interrupts,
  life, tid, mailbox, ctx_terminated, owns, pending, joining,
  reaper_mailbox, reaper_sockets, reaper_terminating, reaper_doing, connects,
  in_pipe, out_pipe, written, returned, commands, told_to_stop, stopped, ticks, call, signals_left, lost

mailboxVars == vars
pipeEndVars == <<created, pipe_partial, pipe_unflushed, pipe_flushed, pipe_reader, reader_active, reader_read,
  reader_terminating, reader_gone, writer_active, msgs_read, msgs_written, swapping, pending_delimiter,
  writer_terminating, writer_gone, swap, commit, rollback_ok, toReader, toWriter, last_written, last_read>>
ownVars == <<layout, phase, owner, owned, plugged, terminating, term_acks, sent_seqnum, processed_seqnum,
  requested, inbox, doing, endpoint, promised, finds>>
contextVars == <<ctx_terminating, sockets, empty_slots, slots, endpoints, term, term_mailbox, interrupts,
  life, tid, mailbox, ctx_terminated, owns, pending, joining, reaper_mailbox, reaper_sockets,
  reaper_terminating, reaper_doing, connects>>
callVars == <<in_pipe, out_pipe, written, returned, commands, told_to_stop, stopped, ticks, call, signals_left, lost>>
partVars == <<part, mailboxVars, pipeEndVars, ownVars, contextVars, callVars>>

Pi == INSTANCE Pipe WITH
  partial <- pipe_partial, unflushed <- pipe_unflushed, flushed <- pipe_flushed, reader <- pipe_reader
Tree == INSTANCE Own
Ctx == INSTANCE Context
Calls == INSTANCE SocketCalls

ASSUME PartsAssumption ==
  /\ Pi!PipeAssumption /\ Tree!OwnAssumption /\ Ctx!ContextAssumption /\ Calls!SocketCallsAssumption

\* A part that is not the one has but one of its initial states.
PartsInit ==
  /\ part \in {"mailbox", "pipe", "own", "context", "calls"}
  /\ Init /\ Pi!Init /\ Tree!Init /\ Ctx!Init /\ Calls!Init
  /\ part # "pipe" => commit = 0 /\ created = CHOOSE some \in PipeKinds : TRUE
  /\ part # "own" => layout = CHOOSE some \in Layouts : TRUE

Others(mine) ==
  UNCHANGED part /\ \A others \in {"mailbox", "pipe", "own", "context", "calls"} \ {mine} :
    CASE others = "mailbox" -> UNCHANGED mailboxVars
      [] others = "pipe" -> UNCHANGED pipeEndVars
      [] others = "own" -> UNCHANGED ownVars
      [] others = "context" -> UNCHANGED contextVars
      [] others = "calls" -> UNCHANGED callVars

PartsNext ==
  \/ part = "mailbox" /\ Next /\ Others("mailbox")
  \/ part = "pipe" /\ Pi!Next /\ Others("pipe")
  \/ part = "own" /\ Tree!Next /\ Others("own")
  \/ part = "context" /\ Ctx!Next /\ Others("context")
  \/ part = "calls" /\ Calls!Next /\ Others("calls")

\* Each part is as fair as its module says.
PipeFairness ==
  /\ WF_pipeEndVars(part = "pipe" /\ Pi!WriterProcesses) /\ WF_pipeEndVars(part = "pipe" /\ Pi!ReaderProcesses)
  /\ WF_pipeEndVars(part = "pipe" /\ Pi!Reads) /\ WF_pipeEndVars(part = "pipe" /\ Pi!Flush)
OwnFairness ==
  /\ \A t \in Thread :
       /\ WF_ownVars(part = "own" /\ Tree!Finishing(t))
       /\ WF_ownVars(part = "own" /\ Tree!Processing(t))
  /\ WF_ownVars(part = "own" /\ Tree!Bind)
ContextFairness ==
  /\ WF_contextVars(part = "context" /\ Ctx!Reaper) /\ WF_contextVars(part = "context" /\ Ctx!TermGoesOn)
  /\ \A s \in Socket :
       /\ WF_contextVars(part = "context" /\ Ctx!SendBind(s))
       /\ WF_contextVars(part = "context" /\ Ctx!TreeGone(s))
       /\ WF_contextVars(part = "context" /\ Ctx!ProcessCommand(s))
       /\ WF_contextVars(part = "context" /\ Ctx!CloseWhenTold(s))
MailboxFairness ==
  /\ \A s \in Sender : WF_mailboxVars(part = "mailbox" /\ SendGoesOn(s))
  /\ WF_mailboxVars(part = "mailbox" /\ RecvGoesOn) /\ SF_mailboxVars(part = "mailbox" /\ WaitSignalled)
CallsFairness ==
  WF_callVars(part = "calls" /\ Calls!Unsignalled) /\ SF_callVars(part = "calls" /\ Calls!CallsRecv)

PartsFairness == MailboxFairness /\ PipeFairness /\ OwnFairness /\ ContextFairness /\ CallsFairness

PartsSpec == PartsInit /\ [][PartsNext]_partVars /\ PartsFairness

(***************************************************************************)
(* Properties, beside those of Mailbox.                                    *)
(***************************************************************************)
\* pipe.cpp: until a rollback leaves the swap wrong, messages arrive whole and in
\* order, the watermark is kept, and the ends send no command to one that is gone;
\* socket_base.cpp, zmq.cpp: calls skip no message but those a signal makes a recv
\* lose, one at the most for each signal, and none waits without a command to come.
TrafficSound ==
  /\ part = "pipe" => Pi!PipeSound
  /\ part = "calls" => Calls!CallsSound

\* own.cpp: the children of an object go before it does, no command is sent to one
\* that is gone, and with one I/O thread no session's name outlives its socket;
\* ctx.cpp, reaper.cpp: a slot belongs to one socket, a socket that was found
\* stays until it is sent the bind, and the reaper ends after the last of all.
LifetimesSound ==
  /\ part = "own" => Tree!OwnSound
  /\ part = "context" => Ctx!ContextSound

\* pipe.cpp: a writer that was told to wait is told to go on, what is in a swap
\* is read in the end, and both ends go when either is terminated: all of it unless
\* the writer left something unflushed behind the swap.
PipeProgresses == Pi!WriterReactivated /\ Pi!Terminates /\ Pi!WrittenIsRead

\* pipe.cpp:269, "flushing is automatically handled by swap object": what a writer
\* that swaps has written is read, whether it was flushed or not.
SwapFlushes == Pi!SwapFlushes

\* own.cpp: a socket that is closed goes, and all below it; with one I/O thread
\* every object that asks to be terminated is.
TreeGoes == Tree!AllDestroyed /\ Tree!RequestHonoured

\* ctx.cpp: zmq_term, called again when a signal has interrupted it, returns.
TermReturns == Ctx!TermReturns

\* socket_base.cpp: a socket that never runs out of messages still hears that it
\* is told to stop, unless a signal came while it looked for commands.
StopHeard == Calls!StopHeard
=============================================================================
