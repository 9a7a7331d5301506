--------------------------- MODULE ZmqConnections ---------------------------
(***************************************************************************)
(* The parts of ZeroMQ that make connections: sessions, options and        *)
(* addresses, the pollers, connecters and listeners, and multicast.  A     *)
(* behaviour is one of one part; when running names none of them, they     *)
(* stay as they are.                                                       *)
(***************************************************************************)
EXTENDS Integers, Sequences

CONSTANTS
  None, NULL, ANY,
  MaxQueue,                                                  \* Session
  Reactor, MaxCalls, MaxFd,                                  \* Poller
  Connecter, Listener, reconnect_ivl, reconnect_ivl_max,     \* Transport, and MaxFd
  Spread, Precision, MaxTime,
  Socket, Types, Thread, Width, Narrow, Value, MaxSets, MaxObjects,    \* Endpoints
  Configs, Networks, IntWidth,                               \* Multicast
  Address, literal, atoi, is_number, nics, Names             \* Addresses

VARIABLES
  running,
  options, session, queue, session_connecter, init, attaches, closed, told,
  build, entry, table, slots, source, ready, pending, retired, load, stopping, pc, batch, i,
  handling, calls, seen, moved, dangling,
  time, last_time, timers, executing, timers_current, it, timeout, connecter, listener,
  descriptor, file,
  socket_options, type, accepted, endpoint, attached, objects, sets, ctx_terminated, aborted,
  multicast_options, network, phase, left, sock, res, pgm_error, set, buffer, fds,
  given, given_type, io_threads, names, binds, connects, given_listener, given_session

sessionVars == <<options, session, queue, session_connecter, init, attaches, closed, told>>
pollerVars == <<build, entry, table, slots, source, ready, pending, retired, load, stopping, pc,
  batch, i, handling, calls, seen, moved, dangling>>
transportVars == <<time, last_time, timers, executing, timers_current, it, timeout, connecter,
  listener, descriptor, file>>
endpointsVars == <<socket_options, type, accepted, endpoint, attached, objects, sets,
  ctx_terminated, aborted>>
multicastVars == <<multicast_options, network, phase, left, sock, res, pgm_error, set, buffer, fds>>
addressVars == <<given, given_type, io_threads, names, binds, connects, given_listener, given_session>>
connectionsVars == <<running, sessionVars, pollerVars, transportVars, endpointsVars, multicastVars, addressVars>>

(***************************************************************************)
(* The parts.                                                              *)
(***************************************************************************)
Ses == INSTANCE Session WITH connecter <- session_connecter

Builds == {"kqueue", "epoll", "poll", "select", "devpoll"}
Pol == INSTANCE Poller WITH Kind <- Builds, kind <- build
Tr == INSTANCE Transport WITH StepsBack <- FALSE, Shares <- FALSE, current <- timers_current
Ep == INSTANCE Endpoints WITH options <- socket_options
Mc == INSTANCE Multicast WITH
  Width <- IntWidth, pgm_max_tpdu <- 1500, in_batch_size <- 8192, max_tsdu <- 1460, options <- multicast_options
Ad == INSTANCE Addresses WITH type <- given_type, listener <- given_listener, session <- given_session

ASSUME ConnectionsAssumption ==
  /\ Ses!SessionAssumption /\ Pol!PollerAssumption /\ Tr!TransportAssumption /\ Ep!EndpointsAssumption
  /\ Mc!MulticastAssumption /\ Ad!AddressesAssumption

\* A part that does not run is in one of its initial states.
ConnectionsInit ==
  /\ Ses!Init /\ (running # "session" => options = CHOOSE some \in Ses!Options : some.kind = "connect" /\ some.immediate_connect)
  /\ Pol!Init /\ (running # "poller" => build = "poll")
  /\ Tr!Init
  /\ running # "transport" => (\A ct \in Connecter : ~connecter[ct].wait) /\ \A li \in Listener : listener[li].family = "tcp"
  /\ Ep!Init /\ (running # "endpoints" => type = CHOOSE some \in Types : TRUE)
  /\ Mc!Init /\ (running # "multicast" => multicast_options = CHOOSE some \in Configs : TRUE)
             /\ (running # "multicast" => network = CHOOSE some \in Networks : TRUE)
  /\ Ad!Init /\ (running # "addresses" => given.protocol = NULL /\ given_type = "req" /\ io_threads /\ names = <<>>)

Stays(part_name, its_vars) == running # part_name => UNCHANGED its_vars
OtherConnections ==
  /\ UNCHANGED running
  /\ Stays("session", sessionVars)
  /\ Stays("poller", pollerVars)
  /\ Stays("transport", transportVars)
  /\ Stays("endpoints", endpointsVars)
  /\ Stays("multicast", multicastVars)
  /\ Stays("addresses", addressVars)

ConnectionsNext ==
  \/ running = "session" /\ Ses!Next /\ OtherConnections
  \/ running = "poller" /\ Pol!Next /\ OtherConnections
  \/ running = "transport" /\ Tr!Next /\ OtherConnections
  \/ running = "endpoints" /\ Ep!Next /\ OtherConnections
  \/ running = "multicast" /\ Mc!Next /\ OtherConnections
  \/ running = "addresses" /\ Ad!Next /\ OtherConnections

ConnectionsSpec == ConnectionsInit /\ [][ConnectionsNext]_connectionsVars

(***************************************************************************)
(* Properties.                                                             *)
(***************************************************************************)
\* session.cpp, options.cpp, ctx.cpp, socket_base.cpp, ip.cpp: a session has one
\* connection or one attempt at it, begins each with a whole message and is left
\* with the rest of one only when it stopped lingering; either side of a connection
\* gets the ends, limits and thread it asked for; bind and connect do all of what
\* they are asked for or nothing.
ConnectionsSound ==
  /\ running = "session" => Ses!SessionSound
  /\ running = "endpoints" => Ep!EndpointsSound
  /\ running = "addresses" => Ad!AddressesSound

\* kqueue.cpp, epoll.cpp, poll.cpp, select.cpp, devpoll.cpp: an event reaches the
\* object it is for, although handlers add and remove descriptors meanwhile.
PollerSound == running = "poller" => Pol!PollerSound

\* tcp_connecter.cpp, tcp_listener.cpp, poller_base.cpp, pgm_socket.cpp: a timer is
\* there exactly while it is waited for, a descriptor has one owner who closes it,
\* and a connection that cannot be opened leaves nothing behind.
TransportSound ==
  /\ running = "transport" => Tr!TransportSound
  /\ running = "multicast" => Mc!MulticastSound

\* poller_base.cpp: the poller does not sleep longer than until the next timer.
NoneForgotten == Tr!NoneForgotten
=============================================================================
