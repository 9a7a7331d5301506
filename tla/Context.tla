------------------------------ MODULE Context -------------------------------
(***************************************************************************)
(* ctx_t and reaper_t: application threads create, use and close sockets,  *)
(* the reaper's thread takes each closed socket over and deletes it when   *)
(* its objects and the commands announced to it are gone, and zmq_term     *)
(* stops the sockets that are still open and waits for the reaper, which   *)
(* is told to stop with the last socket.  A signal may interrupt the wait, *)
(* and zmq_term is then called again.                                      *)
(***************************************************************************)
EXTENDS Integers, Sequences, FiniteSets, SequencesExt

CONSTANTS
  Socket, Log,      \* the sockets ever created, and the context's own
  max_sockets,
  Endpoint, SysLog, \* inproc addresses, and the one of the log socket
  MaxConnects,      \* bound: inproc connects
  MaxInterrupts,    \* bound: times the wait of zmq_term is interrupted
  None

ContextAssumption ==
  /\ Log \in Socket /\ SysLog \in Endpoint /\ None \notin Socket /\ IsFiniteSet(Socket)
  /\ max_sockets \in Nat \ {0} /\ MaxConnects \in Nat /\ MaxInterrupts \in Nat

VARIABLES
  ctx_terminating, sockets, empty_slots, slots, endpoints,  \* ctx_t
  term, term_mailbox, interrupts,                       \* the thread in zmq_term
  life, tid, mailbox, ctx_terminated,                  \* of each socket
  owns,                                   \* the socket has objects in an I/O thread
  pending,                                \* commands and acknowledgements it waits for
  joining,                                \* whom it has found and not sent bind yet
  reaper_mailbox, reaper_sockets, reaper_terminating,   \* reaper_t
  reaper_doing,                                  \* what the reaper is in the middle of
  connects

ctxVars == <<ctx_terminating, sockets, empty_slots, slots>>
termVars == <<term, term_mailbox, interrupts>>
ownVars == <<owns, pending>>
joinVars == <<joining, connects>>
reaperVars == <<reaper_mailbox, reaper_sockets, reaper_terminating, reaper_doing>>
vars == <<ctxVars, endpoints, termVars, life, tid, mailbox, ctx_terminated, ownVars, joinVars,
          reaperVars>>

Slot == 1..max_sockets + 1

TypeOK ==
  /\ ctx_terminating \in BOOLEAN /\ sockets \subseteq Socket
  /\ empty_slots \in Seq(Slot) /\ slots \in [Slot -> Socket \union {None}]
  /\ endpoints \in [Endpoint -> Socket \union {None}]
  /\ term \in {"idle", "stopping", "waiting", "interrupted", "deleting", "returned"}
  /\ term_mailbox \in {<<>>, <<"done">>} /\ interrupts \in 0..MaxInterrupts
  /\ life \in [Socket -> {"unborn", "open", "closed", "reaping", "leaving", "destroyed", "gone"}]
  /\ tid \in [Socket -> Slot] /\ {ctx_terminated, owns} \subseteq [Socket -> BOOLEAN]
  /\ mailbox \in [Socket -> Seq({"stop", "bind", "term_ack"})]
  /\ pending \in [Socket -> 0..MaxConnects + 1]
  /\ joining \in [Socket -> Socket \union {None}] /\ connects \in 0..MaxConnects
  /\ reaper_sockets \in 0..Cardinality(Socket) /\ reaper_terminating \in BOOLEAN
  /\ reaper_doing \in {"nothing", "reaping", "polling", "finished"} \X (Socket \union {None})

Idle == <<"nothing", None>>

\* The constructor has created the log socket in the first of the slots, and
\* bound it.
Init ==
  /\ ctx_terminating = FALSE /\ sockets = {Log}
  /\ empty_slots = [k \in 1..max_sockets |-> max_sockets + 2 - k]
  /\ slots = [k \in Slot |-> IF k = 1 THEN Log ELSE None]
  /\ endpoints = [e \in Endpoint |-> IF e = SysLog THEN Log ELSE None]
  /\ term = "idle" /\ term_mailbox = <<>> /\ interrupts = 0
  /\ life = [s \in Socket |-> IF s = Log THEN "open" ELSE "unborn"]
  /\ tid = [s \in Socket |-> 1] /\ mailbox = [s \in Socket |-> <<>>]
  /\ ctx_terminated = [s \in Socket |-> FALSE] /\ owns = [s \in Socket |-> FALSE]
  /\ pending = [s \in Socket |-> 0]
  /\ joining = [s \in Socket |-> None] /\ connects = 0
  /\ reaper_mailbox = <<>> /\ reaper_sockets = 0 /\ reaper_terminating = FALSE /\ reaper_doing = Idle

(***************************************************************************)
(* Application threads.                                                    *)
(***************************************************************************)
\* ETERM once zmq_term was called, EMFILE when there is no slot.
CreateSocket(s) ==
  /\ life[s] = "unborn" /\ ~ctx_terminating /\ empty_slots # <<>>
  /\ tid' = [tid EXCEPT ![s] = Last(empty_slots)]
  /\ slots' = [slots EXCEPT ![Last(empty_slots)] = s]
  /\ empty_slots' = Front(empty_slots)
  /\ sockets' = sockets \union {s}
  /\ life' = [life EXCEPT ![s] = "open"]
  /\ UNCHANGED <<ctx_terminating, endpoints, termVars, mailbox, ctx_terminated, ownVars, joinVars, reaperVars>>

\* The application may call the socket: it is not in the middle of a call.
Usable(s) == s # Log /\ life[s] = "open" /\ joining[s] = None

\* bind or connect to another host launches an object in an I/O thread.
LaunchChild(s) ==
  /\ Usable(s) /\ ~ctx_terminated[s] /\ ~owns[s]
  /\ owns' = [owns EXCEPT ![s] = TRUE]
  /\ UNCHANGED <<ctxVars, endpoints, termVars, life, tid, mailbox, ctx_terminated, pending, joinVars,
                 reaperVars>>

\* register_endpoint, EADDRINUSE when the address is taken.
Bind(s, e) ==
  /\ Usable(s) /\ ~ctx_terminated[s] /\ endpoints[e] = None
  /\ endpoints' = [endpoints EXCEPT ![e] = s]
  /\ UNCHANGED <<ctxVars, termVars, life, tid, mailbox, ctx_terminated, ownVars, joinVars, reaperVars>>

\* connect to an endpoint of this context: find_endpoint announces the bind to
\* the peer, which may be closed before it is sent.
Connect(s, e) ==
  /\ Usable(s) /\ ~ctx_terminated[s] /\ endpoints[e] # None /\ connects < MaxConnects
  /\ pending' = [pending EXCEPT ![endpoints[e]] = @ + 1]
  /\ joining' = [joining EXCEPT ![s] = endpoints[e]] /\ connects' = connects + 1
  /\ UNCHANGED <<ctxVars, endpoints, termVars, life, tid, mailbox, ctx_terminated, owns, reaperVars>>

\* Commands go to the mailbox that is in the peer's slot.
SendBind(s) ==
  /\ joining[s] # None
  /\ LET peer == slots[tid[joining[s]]]
     IN mailbox' = IF peer = None THEN mailbox ELSE [mailbox EXCEPT ![peer] = Append(@, "bind")]
  /\ joining' = [joining EXCEPT ![s] = None]
  /\ UNCHANGED <<ctxVars, endpoints, termVars, life, tid, ctx_terminated, ownVars, connects, reaperVars>>

Close(s) ==
  /\ Usable(s)
  /\ life' = [life EXCEPT ![s] = "closed"]
  /\ reaper_mailbox' = Append(reaper_mailbox, <<"reap", s>>)
  /\ UNCHANGED <<ctxVars, endpoints, termVars, tid, mailbox, ctx_terminated, ownVars, joinVars,
                 reaper_sockets, reaper_terminating, reaper_doing>>

(***************************************************************************)
(* zmq_term.                                                               *)
(***************************************************************************)
\* The log socket is closed, unless zmq_term was interrupted.
StartTerm ==
  /\ term \in {"idle", "interrupted"}
  /\ IF ctx_terminating
       THEN term' = "waiting" /\ UNCHANGED <<life, reaper_mailbox>>
       ELSE /\ life' = [life EXCEPT ![Log] = "closed"]
            /\ reaper_mailbox' = Append(reaper_mailbox, <<"reap", Log>>)
            /\ term' = "stopping"
  /\ UNCHANGED <<ctxVars, endpoints, term_mailbox, interrupts, tid, mailbox, ctx_terminated,
                 ownVars, joinVars, reaper_sockets, reaper_terminating, reaper_doing>>

StopSockets ==
  /\ term = "stopping"
  /\ ctx_terminating' = TRUE
  /\ mailbox' = [s \in Socket |-> IF s \in sockets THEN Append(mailbox[s], "stop") ELSE mailbox[s]]
  /\ reaper_mailbox' = IF sockets = {} THEN Append(reaper_mailbox, <<"stop", None>>) ELSE reaper_mailbox
  /\ term' = "waiting"
  /\ UNCHANGED <<sockets, empty_slots, slots, endpoints, term_mailbox, interrupts, life, tid,
                 ctx_terminated, ownVars, joinVars, reaper_sockets, reaper_terminating, reaper_doing>>

Interrupt ==
  /\ term = "waiting" /\ interrupts < MaxInterrupts
  /\ term' = "interrupted" /\ interrupts' = interrupts + 1
  /\ UNCHANGED <<ctxVars, endpoints, term_mailbox, life, tid, mailbox, ctx_terminated, ownVars,
                 joinVars, reaperVars>>

\* done comes when the last socket is gone; the context is then deleted.
ReceiveDone ==
  /\ term = "waiting" /\ term_mailbox # <<>>
  /\ term_mailbox' = <<>> /\ term' = "deleting"
  /\ UNCHANGED <<ctxVars, endpoints, interrupts, life, tid, mailbox, ctx_terminated, ownVars,
                 joinVars, reaperVars>>

\* The destructor ends when the threads of the I/O and of the reaper have.
DeleteContext ==
  /\ term = "deleting" /\ reaper_doing[1] = "finished"
  /\ term' = "returned"
  /\ UNCHANGED <<ctxVars, endpoints, term_mailbox, interrupts, life, tid, mailbox, ctx_terminated,
                 ownVars, joinVars, reaperVars>>

(***************************************************************************)
(* The thread that owns a socket processes its commands.                   *)
(***************************************************************************)
\* The objects of a socket that is being terminated go away in their thread.
TreeGone(s) ==
  /\ life[s] = "reaping" /\ owns[s]
  /\ owns' = [owns EXCEPT ![s] = FALSE]
  /\ mailbox' = [mailbox EXCEPT ![s] = Append(@, "term_ack")]
  /\ UNCHANGED <<ctxVars, endpoints, termVars, life, tid, ctx_terminated, pending, joinVars, reaperVars>>

\* check_term_acks: nothing is left to wait for.
Leaves(ph, awaited) == IF ph = "reaping" /\ awaited = 0 THEN "leaving" ELSE ph

ProcessCommand(s) ==
  /\ mailbox[s] # <<>>
  /\ \/ life[s] = "open" /\ joining[s] = None
     \/ life[s] \in {"reaping", "leaving"} /\ reaper_doing = Idle
  /\ LET cmd == Head(mailbox[s])
         awaited == IF cmd = "stop" THEN pending[s] ELSE pending[s] - 1
     IN /\ pending' = [pending EXCEPT ![s] = awaited]
        /\ ctx_terminated' = [ctx_terminated EXCEPT ![s] = @ \/ cmd = "stop"]
        /\ life' = [life EXCEPT ![s] = Leaves(@, awaited)]
  /\ mailbox' = [mailbox EXCEPT ![s] = Tail(@)]
  /\ UNCHANGED <<ctxVars, endpoints, termVars, tid, owns, joinVars, reaperVars>>

(***************************************************************************)
(* The reaper.                                                             *)
(***************************************************************************)
ReaperGets(type) == reaper_doing = Idle /\ reaper_mailbox # <<>> /\ Head(reaper_mailbox)[1] = type

\* process_reap terminates the socket: it cannot be found any more, and goes
\* away at once when it waits for nothing.
ProcessReap ==
  /\ ReaperGets("reap")
  /\ LET s == Head(reaper_mailbox)[2]
         awaited == pending[s] + IF owns[s] THEN 1 ELSE 0
     IN /\ endpoints' = [e \in Endpoint |-> IF endpoints[e] = s THEN None ELSE endpoints[e]]
        /\ pending' = [pending EXCEPT ![s] = awaited]
        /\ life' = [life EXCEPT ![s] = Leaves("reaping", awaited)]
        /\ IF Leaves("reaping", awaited) = "leaving"
             THEN reaper_doing' = <<"reaping", s>> /\ UNCHANGED reaper_sockets
             ELSE reaper_sockets' = reaper_sockets + 1 /\ UNCHANGED reaper_doing
  /\ reaper_mailbox' = Tail(reaper_mailbox)
  /\ UNCHANGED <<ctxVars, termVars, tid, mailbox, ctx_terminated, owns, joinVars, reaper_terminating>>

\* The handler in which check_destroy finds s destroyed: process_reap, or
\* in_event, when it has processed all commands of the socket.
Destroying(s) ==
  /\ life[s] = "leaving"
  /\ \/ reaper_doing = <<"reaping", s>> /\ UNCHANGED reaper_doing
     \/ reaper_doing = Idle /\ mailbox[s] = <<>> /\ reaper_doing' = <<"polling", s>>

\* Mutant of DestroySocket: the reaper is not stopped with the last socket.
DestroySocketOnly(s) ==
  /\ Destroying(s)
  /\ life' = [life EXCEPT ![s] = "destroyed"]
  /\ empty_slots' = Append(empty_slots, tid[s]) /\ slots' = [slots EXCEPT ![tid[s]] = None]
  /\ sockets' = sockets \ {s}
  /\ UNCHANGED <<ctx_terminating, endpoints, termVars, tid, mailbox, ctx_terminated, ownVars, joinVars,
                 reaper_mailbox, reaper_sockets, reaper_terminating>>

DestroySocket(s) ==
  /\ Destroying(s)
  /\ life' = [life EXCEPT ![s] = "destroyed"]
  /\ empty_slots' = Append(empty_slots, tid[s]) /\ slots' = [slots EXCEPT ![tid[s]] = None]
  /\ sockets' = sockets \ {s}
  /\ reaper_mailbox' = IF ctx_terminating /\ sockets = {s}
                         THEN Append(reaper_mailbox, <<"stop", None>>) ELSE reaper_mailbox
  /\ UNCHANGED <<ctx_terminating, endpoints, termVars, tid, mailbox, ctx_terminated, ownVars, joinVars,
                 reaper_sockets, reaper_terminating>>

\* send_reaped, and the socket is deleted.  process_reap counts it only now.
Deallocate ==
  /\ reaper_doing[2] # None /\ life[reaper_doing[2]] = "destroyed"
  /\ life' = [life EXCEPT ![reaper_doing[2]] = "gone"]
  /\ reaper_mailbox' = Append(reaper_mailbox, <<"reaped", None>>)
  /\ reaper_sockets' = IF reaper_doing[1] = "reaping" THEN reaper_sockets + 1 ELSE reaper_sockets
  /\ reaper_doing' = Idle
  /\ UNCHANGED <<ctxVars, endpoints, termVars, tid, mailbox, ctx_terminated, ownVars, joinVars,
                 reaper_terminating>>

\* done is sent, and the thread of the reaper ends.
FinishIf(finished) ==
  /\ term_mailbox' = IF finished THEN Append(term_mailbox, "done") ELSE term_mailbox
  /\ reaper_doing' = IF finished THEN <<"finished", None>> ELSE reaper_doing
  /\ reaper_mailbox' = Tail(reaper_mailbox)
  /\ UNCHANGED <<ctxVars, endpoints, term, interrupts, life, tid, mailbox, ctx_terminated, ownVars,
                 joinVars>>

ProcessStop ==
  /\ ReaperGets("stop")
  /\ reaper_terminating' = TRUE
  /\ UNCHANGED reaper_sockets /\ FinishIf(reaper_sockets = 0)

ProcessReaped ==
  /\ ReaperGets("reaped")
  /\ reaper_sockets' = reaper_sockets - 1
  /\ UNCHANGED reaper_terminating /\ FinishIf(reaper_sockets' = 0 /\ reaper_terminating)

Reaper ==
  \/ ProcessReap \/ ProcessStop \/ ProcessReaped \/ Deallocate
  \/ \E s \in Socket : DestroySocket(s)

Term == StartTerm \/ StopSockets \/ ReceiveDone \/ DeleteContext

Next ==
  \/ \E s \in Socket : CreateSocket(s) \/ LaunchChild(s) \/ SendBind(s) \/ Close(s)
  \/ \E s \in Socket, e \in Endpoint : Bind(s, e) \/ Connect(s, e)
  \/ \E s \in Socket : ProcessCommand(s) \/ TreeGone(s)
  \/ Term \/ Interrupt \/ Reaper

Spec == Init /\ [][Next]_vars

\* The threads of the library run, a call of zmq_term that was interrupted is
\* repeated, the application calls its sockets, and closes those that tell it
\* that the context is terminated.
TermGoesOn == term # "idle" /\ Term
CloseWhenTold(s) == ctx_terminated[s] /\ Close(s)
Fairness ==
  /\ WF_vars(Reaper) /\ WF_vars(TermGoesOn)
  /\ \A s \in Socket :
       WF_vars(SendBind(s)) /\ WF_vars(TreeGone(s)) /\ WF_vars(ProcessCommand(s)) /\ WF_vars(CloseWhenTold(s))

FairSpec == Spec /\ Fairness

(***************************************************************************)
(* Properties.                                                             *)
(***************************************************************************)
\* A slot belongs to one socket, from its creation to destroy_socket, and the
\* empty ones are listed once.
SlotsExclusive ==
  /\ \A s \in sockets : slots[tid[s]] = s
  /\ IsInjective(empty_slots)
  /\ \A k \in Slot : (slots[k] = None) = (\E j \in DOMAIN empty_slots : empty_slots[j] = k)

\* ctx.cpp:290, a peer that was found is not deallocated "until bind command is
\* issued by the caller", and its slot still leads to its mailbox.
FoundStaysUntilBound ==
  \A s \in Socket : joining[s] # None =>
    life[joining[s]] \in {"open", "closed", "reaping"} /\ slots[tid[joining[s]]] = joining[s]

\* No endpoint leads to a socket that is past its termination.
EndpointsAlive == \A e \in Endpoint : endpoints[e] # None => life[endpoints[e]] \in {"open", "closed"}

\* The reaper is told to stop once, whoever finds that no socket is left, and
\* by then none can come; it is done only when it has seen the end of each.
StoppedOnce ==
  LET stops == {j \in DOMAIN reaper_mailbox : reaper_mailbox[j][1] = "stop"}
  IN /\ Cardinality(stops) + (IF reaper_terminating THEN 1 ELSE 0) <= 1
     /\ stops # {} => sockets = {} /\ ctx_terminating

DoneWhenAllGone ==
  reaper_doing[1] = "finished" => reaper_mailbox = <<>> /\ \A s \in Socket : life[s] \in {"unborn", "gone"}

\* zmq_term, repeated when interrupted, returns: every socket is interrupted,
\* closed and deleted, the reaper ends and so do the threads.
TermReturns == <>[](term # "idle" => term = "returned")

\* config.hpp:31, max_sockets is "Maximum number of sockets that can be opened
\* at the same time": with fewer open another can be.
MaxCanBeOpen ==
  ~ctx_terminating /\ Cardinality({s \in Socket \ {Log} : life[s] = "open"}) < max_sockets
    => empty_slots # <<>>

ContextSound ==
  TypeOK /\ SlotsExclusive /\ FoundStaysUntilBound /\ EndpointsAlive /\ StoppedOnce /\ DoneWhenAllGone
=============================================================================
