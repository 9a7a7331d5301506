------------------------------ MODULE Transport ------------------------------
(***************************************************************************)
(* How connections come about in an I/O thread: zmq_connecter_t with its   *)
(* tcp_connecter_t, which tries again by the timers of poller_base_t, and  *)
(* zmq_listener_t with its tcp_listener_t.  Each attempt may fail at every *)
(* step and at any time the object may be destroyed; descriptors, timers   *)
(* and the file of a UNIX domain socket must go with it.                   *)
(***************************************************************************)
EXTENDS Integers, Sequences, FiniteSets, SequencesExt, FiniteSetsExt

CONSTANTS
  Connecter, Listener,
  reconnect_ivl, reconnect_ivl_max,
  Spread,         \* (pid * 13) % reconnect_ivl
  Precision,      \* by how much a time that clock_t keeps may be old
  MaxTime, MaxFd, \* bounds
  StepsBack,      \* is the clock set back now and then?
  Shares,         \* may two listeners be bound to one path?
  None

TransportAssumption ==
  /\ {reconnect_ivl, reconnect_ivl_max, Spread, Precision, MaxTime, MaxFd} \subseteq Nat
  /\ reconnect_ivl > 0 /\ Spread < reconnect_ivl /\ {StepsBack, Shares} \subseteq BOOLEAN
  /\ IsFiniteSet(Listener) /\ Connecter \cap Listener = {}
  /\ {None, "engine"} \cap (Connecter \union Listener) = {} /\ None # "engine"

VARIABLES
  time, last_time,        \* the clock, and the time that clock_t remembers
  timers,                 \* the multimap of poller_base_t, in its order
  executing, current, it, \* execute_timers: running, its time, the timers it has passed
  timeout,                \* what the poller waits for: 0 is for ever
  connecter, listener,
  descriptor,             \* whose each open descriptor is
  file                    \* whose the file of the path is

clockVars == <<time, last_time, timers, executing, current, it, timeout>>
vars == <<clockVars, connecter, listener, descriptor, file>>

Fd == 1..MaxFd
retired_fd == 0 - 1
Owner == Connecter \union Listener \union {"engine", None}

TypeOK ==
  /\ {time, last_time, current, timeout} \subseteq Int /\ executing \in BOOLEAN /\ it \in 0..Len(timers)
  /\ timers \in Seq([at : Int, sink : Connecter])
  /\ connecter \in [Connecter -> [wait : BOOLEAN, handle_valid : BOOLEAN, s : Fd \union {retired_fd},
                                  current_reconnect_ivl : Nat,
                                  state : {"unplugged", "plugged", "done", "gone"}, aborted : BOOLEAN]]
  /\ listener \in [Listener -> [s : Fd \union {retired_fd}, has_file : BOOLEAN,
                                family : {"tcp", "ipc"}, state : {"unbound", "bound", "plugged", "terminating", "gone"}]]
  /\ descriptor \in [Fd -> Owner] /\ file \in Listener \union {None}

Init ==
  /\ time = 0 /\ last_time = 0 /\ timers = <<>> /\ executing = FALSE /\ current = 0 /\ it = 0 /\ timeout = 0
  /\ connecter \in [Connecter -> {[wait |-> w, handle_valid |-> FALSE, s |-> retired_fd,
                                   current_reconnect_ivl |-> reconnect_ivl,
                                   state |-> "unplugged", aborted |-> FALSE] : w \in BOOLEAN}]
  /\ listener \in [Listener -> {[s |-> retired_fd, has_file |-> FALSE, family |-> f, state |-> "unbound"] : f \in {"tcp", "ipc"}}]
  /\ ~Shares => Cardinality({l \in Listener : listener[l].family = "ipc"}) <= 1
  /\ descriptor = [fd \in Fd |-> None] /\ file = None

(***************************************************************************)
(* clock_t::now_ms and the timers.                                         *)
(***************************************************************************)
Now == {time} \union IF time - last_time \in 0..Precision THEN {last_time} ELSE {}

Later(at) == {k \in 1..Len(timers) : timers[k].at > at}
\* Equal ones stay in the order in which they were added.
Place(at) == IF Later(at) = {} THEN Len(timers) + 1 ELSE Min(Later(at))
\* Mutant of Inserted: the timer is put behind all others.
InsertedLast(at, sink) == Append(timers, [at |-> at, sink |-> sink])

Inserted(at, sink) == InsertAt(timers, Place(at), [at |-> at, sink |-> sink])
PlaceOf(sink) == CHOOSE k \in 1..Len(timers) : timers[k].sink = sink
HasTimer(sink) == \E k \in 1..Len(timers) : timers[k].sink = sink

(***************************************************************************)
(* zmq_connecter_t.  In execute_timers the timer that fired is erased once *)
(* its handler has returned: fired is 1 in a handler and 0 elsewhere.      *)
(***************************************************************************)
Doubled(ivl) == IF 2 * ivl >= reconnect_ivl_max THEN reconnect_ivl_max ELSE 2 * ivl

Next_ivl(ivl) == IF reconnect_ivl_max > reconnect_ivl THEN Doubled(ivl) ELSE ivl

\* The timers when the one that fired is gone and another may have been added.
Erased(ts, k) == RemoveAt(ts, k)
Unchanged_timers(fired) ==
  /\ timers' = IF fired = 1 THEN Erased(timers, it + 1) ELSE timers
  /\ UNCHANGED <<it, last_time>>
add_reconnect_timer(c, fired) ==
  \E now \in Now :
    LET at == now + connecter[c].current_reconnect_ivl + Spread
        before == IF fired = 1 /\ Place(at) <= it + 1 THEN 1 ELSE 0
    IN /\ timers' = IF fired = 1 THEN Erased(Inserted(at, c), it + 1 + before) ELSE Inserted(at, c)
       /\ it' = it + before /\ last_time' = now

Waiting(c, fired) ==
  /\ add_reconnect_timer(c, fired)
  /\ connecter' = [connecter EXCEPT ![c] = [@ EXCEPT !.wait = TRUE, !.handle_valid = FALSE, !.s = retired_fd,
                                                      !.state = "plugged",
                                                      !.current_reconnect_ivl = Next_ivl(connecter[c].current_reconnect_ivl)]]

Free == {fd \in Fd : descriptor[fd] = None}
Opens(owner, fd) == descriptor' = [descriptor EXCEPT ![fd] = owner]

\* The new connection is for an init object, and the connecter has done its work.
Hands_over(c, fd, fired) ==
  /\ Opens("engine", fd) /\ Unchanged_timers(fired)
  /\ connecter' = [connecter EXCEPT ![c] = [@ EXCEPT !.wait = FALSE, !.handle_valid = FALSE,
                                                      !.s = retired_fd, !.state = "done"]]

\* Connected at once; under way; or failed, with or without a descriptor to close.
start_connecting(c, fired) ==
  \/ \E fd \in Free : Hands_over(c, fd, fired)
  \/ /\ Free # {} /\ Opens(c, Min(Free)) /\ Unchanged_timers(fired)
     /\ connecter' = [connecter EXCEPT ![c] = [@ EXCEPT !.wait = FALSE, !.handle_valid = TRUE, !.s = Min(Free),
                                                        !.state = "plugged",
                                                        !.aborted = connecter[c].aborted \/ connecter[c].s # retired_fd]]
  \/ Waiting(c, fired) /\ UNCHANGED descriptor

process_plug(c) ==
  /\ ~executing /\ connecter[c].state = "unplugged"
  /\ IF connecter[c].wait THEN Waiting(c, 0) /\ UNCHANGED descriptor ELSE start_connecting(c, 0)
  /\ UNCHANGED <<time, executing, current, timeout, listener, file>>

\* in_event and out_event: the attempt has come to an end.
out_event(c) ==
  /\ ~executing /\ connecter[c].handle_valid
  /\ \/ Hands_over(c, connecter[c].s, 0)
     \/ Waiting(c, 0) /\ descriptor' = [descriptor EXCEPT ![connecter[c].s] = None]
  /\ UNCHANGED <<time, executing, current, timeout, listener, file>>

\* The destructor, which asserts that the timer it cancels is there.
Destroyed(c) ==
  /\ ~executing /\ connecter[c].state # "gone" /\ connecter[c].state # "unplugged"
  /\ timers' = IF connecter[c].wait /\ HasTimer(c) THEN RemoveAt(timers, PlaceOf(c)) ELSE timers
  /\ descriptor' = [fd \in Fd |-> IF descriptor[fd] = c THEN None ELSE descriptor[fd]]
  /\ connecter' = [connecter EXCEPT ![c] = [@ EXCEPT !.state = "gone", !.wait = FALSE, !.handle_valid = FALSE, !.s = retired_fd,
                                                     !.aborted = connecter[c].aborted \/ (connecter[c].wait /\ ~HasTimer(c))]]
  /\ UNCHANGED <<time, last_time, executing, current, it, timeout, listener, file>>

(***************************************************************************)
(* execute_timers, one timer in a step, and the wait that follows.         *)
(***************************************************************************)
ExecuteTimers ==
  /\ ~executing /\ timers # <<>> /\ executing' = TRUE /\ it' = 0
  /\ \E now \in Now : current' = now /\ last_time' = now
  /\ UNCHANGED <<time, timers, timeout, connecter, listener, descriptor, file>>

timer_event ==
  /\ executing /\ it < Len(timers) /\ timers[it + 1].at <= current
  /\ start_connecting(timers[it + 1].sink, 1)
  /\ UNCHANGED <<time, executing, current, timeout, listener, file>>

Executed ==
  /\ executing /\ it < Len(timers) => timers[it + 1].at > current
  /\ executing /\ executing' = FALSE /\ it' = 0
  /\ timeout' = IF it < Len(timers) THEN timers[it + 1].at - current ELSE 0
  /\ UNCHANGED <<time, last_time, timers, current, connecter, listener, descriptor, file>>

\* Time passes while the loop waits; a clock that is set back is so at any time.
Tick ==
  /\ time' \in (IF ~executing /\ time < MaxTime THEN {time + 1} ELSE {})
               \union (IF StepsBack /\ time > 0 THEN {time - 1} ELSE {})
  /\ UNCHANGED <<last_time, timers, executing, current, it, timeout, connecter, listener, descriptor, file>>

(***************************************************************************)
(* zmq_listener_t and tcp_listener_t.                                      *)
(***************************************************************************)
Ipc(l) == listener[l].family = "ipc"

\* set_address succeeds, or fails before there is a descriptor or after it.
set_address(l) ==
  /\ listener[l].state = "unbound"
  /\ \/ /\ Free # {} /\ Opens(l, Min(Free))
        /\ listener' = [listener EXCEPT ![l] = [@ EXCEPT !.s = Min(Free), !.has_file = Ipc(l), !.state = "bound"]]
        /\ file' = IF Ipc(l) THEN l ELSE file
     \/ /\ listener' = [listener EXCEPT ![l].state = "gone"]
        /\ file' = IF Ipc(l) THEN None ELSE file
        /\ UNCHANGED descriptor
  /\ UNCHANGED <<clockVars, connecter>>

Plug_listener(l) ==
  /\ listener[l].state = "bound" /\ listener' = [listener EXCEPT ![l].state = "plugged"]
  /\ UNCHANGED <<clockVars, connecter, descriptor, file>>

\* A connection is there to be accepted; the descriptor is for an engine.
accept == Free # {} /\ Opens("engine", Min(Free))

\* zmq_listener_t::in_event; nothing happens when the connection was gone again.
in_event(l) ==
  /\ listener[l].state = "plugged" /\ accept
  /\ UNCHANGED <<clockVars, connecter, listener, file>>

process_term(l) ==
  /\ listener[l].state = "plugged" /\ listener' = [listener EXCEPT ![l].state = "terminating"]
  /\ UNCHANGED <<clockVars, connecter, descriptor, file>>

\* Mutant of Close: the file is left behind.
CloseOnly(l) ==
  /\ listener[l].state = "terminating"
  /\ descriptor' = [descriptor EXCEPT ![listener[l].s] = None]
  /\ listener' = [listener EXCEPT ![l].state = "gone", ![l].s = retired_fd]
  /\ UNCHANGED <<clockVars, connecter, file>>

Close(l) ==
  /\ listener[l].state = "terminating"
  /\ descriptor' = [descriptor EXCEPT ![listener[l].s] = None]
  /\ file' = IF listener[l].has_file THEN None ELSE file
  /\ listener' = [listener EXCEPT ![l].state = "gone", ![l].s = retired_fd]
  /\ UNCHANGED <<clockVars, connecter>>

\* tcp_socket_t::close, when an engine is deleted.
EngineClosed(fd) ==
  /\ descriptor[fd] = "engine" /\ descriptor' = [descriptor EXCEPT ![fd] = None]
  /\ UNCHANGED <<clockVars, connecter, listener, file>>

Next ==
  \/ \E c \in Connecter : process_plug(c) \/ out_event(c) \/ Destroyed(c)
  \/ ExecuteTimers \/ timer_event \/ Executed \/ Tick
  \/ \E l \in Listener : set_address(l) \/ Plug_listener(l) \/ in_event(l) \/ process_term(l) \/ Close(l)
  \/ \E fd \in Fd : EngineClosed(fd)

Spec == Init /\ [][Next]_vars

(***************************************************************************)
(* Properties.                                                             *)
(***************************************************************************)
\* A connecter has one timer exactly while it waits, and none when it is gone:
\* a timer never fires on an object that was destroyed.
TimerWhileWaiting ==
  \A c \in Connecter :
    Cardinality({k \in 1..Len(timers) : timers[k].sink = c})
      = IF connecter[c].wait /\ connecter[c].state = "plugged" THEN 1 ELSE 0

\* No assertion fails: a socket is opened only when there is none, and the timer
\* that is cancelled exists.
NeverAborts == \A c \in Connecter : ~connecter[c].aborted

\* Every descriptor is open for the one object that will close it.
DescriptorsOwned ==
  /\ \A c \in Connecter : connecter[c].s # retired_fd => descriptor[connecter[c].s] = c
  /\ \A fd \in Fd : \A c \in Connecter : descriptor[fd] = c => connecter[c].s = fd /\ connecter[c].handle_valid
  /\ \A fd \in Fd : \A l \in Listener : descriptor[fd] = l => listener[l].s = fd

\* The file is there as long as the listener that it leads to, and no longer.
FileLeadsToListener ==
  \A l \in Listener : Ipc(l) => (listener[l].s # retired_fd <=> file = l)

\* The poller waits for ever only if no timer is due some time, and otherwise
\* no longer than until the first is due.
NoneForgotten ==
  [][executing /\ ~executing' /\ timers # <<>> =>
       timeout' > 0 /\ \A k \in 1..Len(timers) : timeout' <= timers[k].at - current]_vars

\* Attempts become rarer, up to the maximum.
BackoffBounded ==
  \A c \in Connecter :
    connecter[c].current_reconnect_ivl \in reconnect_ivl..Max({reconnect_ivl, reconnect_ivl_max})

TransportSound ==
  TypeOK /\ TimerWhileWaiting /\ NeverAborts /\ DescriptorsOwned /\ FileLeadsToListener /\ BackoffBounded
=============================================================================
