------------------------------ MODULE Addresses ------------------------------
(***************************************************************************)
(* What the address given to zmq_bind or zmq_connect stands for.  The two  *)
(* read it in different ways: what a listener binds to is looked for among *)
(* the network interfaces, at the last colon; what is connected to is a    *)
(* host name, up to the first colon, and is resolved by the call, again by *)
(* the connecter the session starts, and again for every reconnection.     *)
(***************************************************************************)
EXTENDS Integers, Sequences, SequencesExt

CONSTANTS
  NULL, ANY,
  Address,       \* what is given: a protocol, or NULL, and the rest of it, cut at its colons
  literal, atoi, \* of a part of an address: the IP address it is in digits, if it is one; its leading digits
  is_number,     \* it is a number and nothing else
  nics,          \* IP addresses of the interfaces there are
  Names          \* what the name server may know: functions from names to IP addresses

Part == DOMAIN atoi
AddressesAssumption ==
  /\ NULL # ANY
  /\ DOMAIN literal = Part /\ DOMAIN is_number = Part /\ DOMAIN nics \subseteq Part
  /\ \A part \in Part : atoi[part] \in Nat /\ is_number[part] \in BOOLEAN
  /\ \A known \in Names : \A name \in DOMAIN known : known[name] # NULL
  /\ \A ad \in Address : ad.rest \in Seq(Part) /\ ad.long \in BOOLEAN

VARIABLES
  given, type, io_threads, \* the address, the type of the sockets, and whether the context has an I/O thread
  names,                   \* what the name server knows
  binds, connects,         \* what has become of the two calls
  listener,                \* zmq_listener_t and its tcp_listener_t
  session                  \* connect_session_t and its connecter

addressVars == <<given, type, io_threads, names, binds, connects, listener, session>>
world == <<given, type, io_threads>>

Outcomes == {"none", "ok", "EINVAL", "ENODEV", "EPROTONOSUPPORT", "ENOCOMPATPROTO", "ENAMETOOLONG", "EMTHREAD", "failed"}

TypeOK ==
  /\ given \in Address /\ type \in {"pub", "req"} /\ io_threads \in BOOLEAN
  /\ {binds, connects} \subseteq Outcomes
  /\ listener.phase \in {"none", "resolved", "open", "bound", "listening"} /\ {listener.s, listener.has_file} \subseteq BOOLEAN
  /\ session.phase \in {"none", "launched", "connecting", "aborted"}

Init ==
  /\ given \in Address /\ type \in {"pub", "req"} /\ io_threads \in BOOLEAN /\ names \in Names
  /\ binds = "none" /\ connects = "none"
  /\ listener = [phase |-> "none", s |-> FALSE, has_file |-> FALSE, addr |-> NULL]
  /\ session = [phase |-> "none", addr |-> NULL]

(***************************************************************************)
(* Both calls begin by taking the address apart.                           *)
(***************************************************************************)
parse_uri == IF given.protocol = NULL \/ given.rest = <<>> THEN "EINVAL" ELSE "ok"
check_protocol ==
  IF given.protocol \notin {"tcp", "ipc", "pgm"} THEN "EPROTONOSUPPORT"
  ELSE IF given.protocol = "pgm" /\ type # "pub" THEN "ENOCOMPATPROTO" ELSE "ok"
Refused == IF parse_uri # "ok" THEN parse_uri ELSE check_protocol

(***************************************************************************)
(* Resolving: an outcome and a place.                                      *)
(***************************************************************************)
At(ip, port) == [rc |-> "ok", addr |-> [ip |-> ip, port |-> port]]
Error(errno) == [rc |-> errno, addr |-> NULL]

\* A port that getaddrinfo takes as a service in digits.
Service(part) == is_number[part] /\ atoi[part] <= 65535

resolve_nic_name(name) == IF name \in DOMAIN nics THEN nics[name] ELSE NULL

\* The port is what its digits make of 16 bits; the interface is "*", the name
\* of one, or an address in digits, for which the port must be digits only.
resolve_ip_interface ==
  LET parts == given.rest
      port == atoi[Last(parts)] % 65536
      iface == Front(parts)
  IN IF Len(parts) < 2 \/ port = 0 THEN Error("EINVAL")
     ELSE IF iface = <<"*">> THEN At(ANY, port)
     ELSE IF Len(iface) = 1 /\ resolve_nic_name(iface[1]) # NULL THEN At(resolve_nic_name(iface[1]), port)
     ELSE IF Len(iface) = 1 /\ literal[iface[1]] # NULL /\ Service(Last(parts)) THEN At(literal[iface[1]], port)
     ELSE Error("ENODEV")

\* All after the first colon is the service, which is digits only.
resolve_ip_hostname ==
  LET parts == given.rest
      host == Head(parts)
      ip == IF literal[host] # NULL THEN literal[host] ELSE IF host \in DOMAIN names THEN names[host] ELSE NULL
  IN IF Len(parts) # 2 \/ ~Service(parts[2]) \/ ip = NULL THEN Error("EINVAL") ELSE At(ip, atoi[parts[2]])

resolve_local_path == IF given.long THEN Error("ENAMETOOLONG") ELSE [rc |-> "ok", addr |-> given.rest]

set_address ==
  CASE given.protocol = "tcp" -> resolve_ip_hostname
    [] given.protocol = "ipc" -> resolve_local_path
    [] OTHER -> [rc |-> "ok", addr |-> NULL]

(***************************************************************************)
(* zmq_bind: a listener is opened step by step; pgm connects instead.      *)
(***************************************************************************)
Launched(outcome) == IF outcome = "ok" /\ session.phase = "none" THEN [session EXCEPT !.phase = "launched"] ELSE session
bind ==
  LET found == IF given.protocol = "tcp" THEN resolve_ip_interface ELSE resolve_local_path
  IN /\ binds = "none" /\ listener.phase = "none" /\ UNCHANGED <<world, names, connects>>
     /\ IF Refused # "ok" THEN binds' = Refused /\ UNCHANGED <<listener, session>>
        ELSE IF ~io_threads THEN binds' = "EMTHREAD" /\ UNCHANGED <<listener, session>>
        ELSE IF given.protocol = "pgm" THEN binds' = "ok" /\ session' = Launched("ok") /\ UNCHANGED listener
        ELSE IF found.rc # "ok" THEN binds' = found.rc /\ UNCHANGED <<listener, session>>
        ELSE listener' = [listener EXCEPT !.phase = "resolved", !.addr = found.addr] /\ UNCHANGED <<binds, session>>

\* A step fails: the socket is closed, with its file, and the listener deleted.
Close == listener' = [phase |-> "none", s |-> FALSE, has_file |-> FALSE, addr |-> NULL] /\ binds' = "failed"
Open ==
  /\ listener.phase = "resolved" /\ UNCHANGED <<world, names, connects, session>>
  /\ \/ listener' = [listener EXCEPT !.phase = "open", !.s = TRUE] /\ UNCHANGED binds
     \/ Close
Bind ==
  /\ listener.phase = "open" /\ UNCHANGED <<world, names, connects, session>>
  /\ \/ listener' = [listener EXCEPT !.phase = "bound", !.has_file = given.protocol = "ipc"] /\ UNCHANGED binds
     \/ Close
Listen ==
  /\ listener.phase = "bound" /\ UNCHANGED <<world, names, connects, session>>
  /\ \/ listener' = [listener EXCEPT !.phase = "listening"] /\ binds' = "ok"
     \/ Close

(***************************************************************************)
(* zmq_connect, and the session it launches.                               *)
(***************************************************************************)
connect ==
  /\ connects = "none" /\ UNCHANGED <<world, names, binds, listener>>
  /\ connects' = IF Refused # "ok" THEN Refused
                 ELSE IF set_address.rc # "ok" THEN set_address.rc
                 ELSE IF ~io_threads THEN "EMTHREAD" ELSE "ok"
  /\ session' = Launched(connects')

\* A connecter is made when the session is plugged in, and after each connection;
\* it asserts that the address still stands for something.
start_connecting ==
  /\ session.phase \in {"launched", "connecting"} /\ UNCHANGED <<world, names, binds, connects, listener>>
  /\ session' = IF set_address.rc = "ok" THEN [phase |-> "connecting", addr |-> set_address.addr]
                ELSE [phase |-> "aborted", addr |-> NULL]

\* The name server is set up anew, or does not answer.
ChangeNames ==
  /\ names' \in Names \ {names}
  /\ UNCHANGED <<world, binds, connects, listener, session>>

\* The process ends when the assertion fails.
Next ==
  /\ session.phase # "aborted"
  /\ bind \/ Open \/ Bind \/ Listen \/ connect \/ start_connecting \/ ChangeNames

Spec == Init /\ [][Next]_addressVars

\* No interface has an address for its name, and neither is "*" one.
NicsNamed == \A part \in Part : part = "*" \/ part \in DOMAIN nics => literal[part] = NULL

(***************************************************************************)
(* Properties.                                                             *)
(***************************************************************************)
\* A call that fails leaves no descriptor, no file and no listener or session; one
\* that succeeds has one, and its socket has a file if it is of that kind.
AllOrNothing ==
  /\ binds \notin {"none", "ok"} => ~listener.s /\ ~listener.has_file /\ listener.phase = "none"
  /\ binds = "ok" =>
       IF given.protocol = "pgm" THEN session.phase # "none"
       ELSE listener.s /\ (listener.has_file <=> given.protocol = "ipc")
  /\ connects # "ok" /\ given.protocol # "pgm" => session.phase = "none"

\* Who connects to an address in digits, or through a file, gets to whoever has
\* bound to the same address.
SamePlace ==
  session.phase = "connecting" /\ listener.phase = "listening" =>
    \/ session.addr = listener.addr
    \/ given.protocol = "tcp" /\ literal[Head(given.rest)] = NULL

\* What is bound to has a port.
PortGiven == listener.phase = "listening" /\ given.protocol = "tcp" => listener.addr.port > 0 /\ listener.addr.port < 65536

\* An address that zmq_connect has taken ends the process afterwards only if it has a
\* host's name that is not known any more.
NeverAborts ==
  session.phase = "aborted" =>
    given.protocol = "tcp" /\ literal[Head(given.rest)] = NULL /\ Head(given.rest) \notin DOMAIN names

AddressesSound == TypeOK /\ AllOrNothing /\ SamePlace /\ PortGiven /\ NeverAborts
=============================================================================
