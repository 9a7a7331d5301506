---------------------------- MODULE MCZmqParts ------------------------------
(***************************************************************************)
(* The other parts of ZeroMQ, side by side as in MCZmqThreads: a behaviour *)
(* is one of one part, chosen in the beginning.                            *)
(***************************************************************************)
EXTENDS ZmqConnections, ZmqSockets, TLC

CONSTANTS
  x1, x2,  \* senders of multicast
  s1, s2   \* sockets

VARIABLES
  stream, arriving, wire, hung_up, engine, inout,
  scene, sender, channel, receiver, pipe

engineVars == <<stream, arriving, wire, hung_up, engine, inout>>
pgmVars == <<scene, sender, channel, receiver, pipe>>
partVars == <<connectionsVars, socketsVars, engineVars, pgmVars>>

(***************************************************************************)
(* The values of the constants of ZmqConnections and ZmqSockets.           *)
(***************************************************************************)
SocketTypes == {s1 :> "xreq" @@ s2 :> "xrep", s1 :> "sub" @@ s2 :> "pub"}
Values == {-1, 0, 2, 4}

MulticastConfigs ==
  [rate : {0, 4, 60}, recovery_ivl : {10}, recovery_ivl_msec : {-1, 20}, rcvbuf : {0, 1}, sndbuf : {0},
   type : {"pub", "sub"}, multicast_loop : {TRUE}]
MulticastNetworks ==
  {net \in [port : BOOLEAN, short : {TRUE}, udp : BOOLEAN, ipv6 : BOOLEAN, groups : {2}, works : BOOLEAN] :
     net.ipv6 # net.udp /\ (net.port \/ net.udp)}

Hosts == {"*", "lo", "10.0.0.1", "host"}
Ports == {"5555", "0", "70000", "12a"}
Parts == Hosts \union Ports \union {"/f"}
LeadingDigits == [pt \in Parts |->
  CASE pt = "10.0.0.1" -> 10 [] pt = "5555" -> 5555 [] pt = "70000" -> 70000 [] pt = "12a" -> 12 [] OTHER -> 0]
Literals == [pt \in Parts |-> IF pt = "10.0.0.1" THEN "ip1" ELSE NULL]
Numbers == [pt \in Parts |-> pt \in Ports \ {"12a"}]
Interfaces == "lo" :> "ip0"
KnownNames == {"host" :> "ip1", "host" :> "ip2", <<>>}
Given(protocol, rest) == [protocol |-> protocol, rest |-> rest, long |-> FALSE]
GivenAddresses ==
  {Given("tcp", <<host, port>>) : host \in Hosts, port \in Ports}
  \union {Given("tcp", <<"host">>), Given("tcp", <<"lo", "10.0.0.1", "5555">>), Given("tcp", <<>>),
          Given(NULL, <<"host">>), Given("pgm", <<"10.0.0.1", "5555">>), Given("udp", <<"host", "5555">>),
          Given("ipc", <<"/f">>), [Given("ipc", <<"/f">>) EXCEPT !.long = TRUE]}

SubscribedPrefixes == {<<>>, <<1>>, <<0, 1>>, <<2>>, <<2, 0>>}
SentTopics == {<<1, 0>>, <<0, 1>>, <<2, 0>>, <<2, 2>>}

DeviceCall(device, insocket, outsocket) == [device |-> device, insocket |-> insocket, outsocket |-> outsocket]
DevicesCalled ==
  {DeviceCall("QUEUE", "xrep", "xreq"), DeviceCall("FORWARDER", "sub", "pub"),
   DeviceCall("STREAMER", "pull", "push"), DeviceCall("STREAMER", NoSocket, "push"),
   DeviceCall("PUMP", "pull", "push")}
MessagesComing == "insocket" :> 3 @@ "outsocket" :> 2

(***************************************************************************)
(* The parts that put messages on the wire.                                *)
(***************************************************************************)
\* Sizes from 3 on take the long form, and some bodies are longer than a batch.
Message(body, with_more) == [body |-> body, more |-> with_more]
Streams ==
  {<<Message(<<>>, FALSE), Message(<<1>>, TRUE), Message(<<2, 1, 2, 1, 2>>, FALSE), Message(<<>>, FALSE)>>,
   <<Message(<<1, 2>>, FALSE), Message(<<2, 1>>, TRUE), Message(<<2, 1, 2, 1, 2>>, FALSE)>>}
Eng == INSTANCE Engine WITH
  in_batch_size <- 4, out_batch_size <- 6, Base <- 4, Wide <- 2, Streams <- Streams,
  Identity <- Message(<<2>>, FALSE),
  Sent <- <<Message(<<1>>, TRUE), Message(<<2, 1, 2, 1, 2, 1>>, FALSE)>>, Room <- 1

\* What gets through whole, with a pipe that fills up; packets that get lost, from
\* two senders or with a full pipe.
One(size) == [size |-> size, more |-> FALSE]
Scene(first, second, hwm, lossy) == [frames |-> x1 :> first @@ x2 :> second, hwm |-> hwm, lossy |-> lossy]
Scenes ==
  {Scene(<<One(1), One(1), [size |-> 1, more |-> TRUE], One(1), One(1), One(1)>>, <<>>, 2, FALSE),
   Scene(<<One(3), One(3)>>, <<One(1)>>, 0, TRUE),
   Scene(<<One(3), One(3), One(1)>>, <<>>, 1, TRUE)}
Pg == INSTANCE Pgm WITH Sender <- {x1, x2}, tsdu <- 5, msgv_len <- 2

ASSUME PartsAssumption ==
  Eng!EngineAssumption /\ Pg!PgmAssumption /\ Mc!WindowsFit /\ Ep!ValuesFit /\ Ep!TypesMatch /\ Ad!NicsNamed

PartsInit ==
  /\ \/ used = None
        /\ running \in {"session", "poller", "transport", "endpoints", "multicast", "addresses", "engine", "pgm"}
     \/ running = None
        /\ used \in {"ypipe", "swap", "message", "balance", "pair", "reqrep", "subscriptions", "device"}
  /\ ConnectionsInit /\ SocketsInit
  /\ Eng!Init /\ (running # "engine" => ~stream.rubbish /\ Len(stream.messages) = 3)
  /\ Pg!Init /\ (running # "pgm" => scene.hwm = 0)

OnTheWire == Stays("engine", engineVars) /\ Stays("pgm", pgmVars)
NoConnection == UNCHANGED connectionsVars
NoSocketUsed == UNCHANGED socketsVars

PartsNext ==
  \/ ConnectionsNext /\ NoSocketUsed /\ OnTheWire
  \/ SocketsNext /\ NoConnection /\ OnTheWire
  \/ running = "engine" /\ Eng!Next /\ NoConnection /\ NoSocketUsed /\ OnTheWire
  \/ running = "pgm" /\ Pg!Next /\ NoConnection /\ NoSocketUsed /\ OnTheWire

PartsSpec == PartsInit /\ [][PartsNext]_partVars

(***************************************************************************)
(* Properties.                                                             *)
(***************************************************************************)
\* zmq_engine.cpp, pgm_sender.cpp, pgm_receiver.cpp: however the bytes are cut, what
\* is received is what was sent, and neither side waits for an event that does not
\* come.
EngineSound ==
  /\ running = "engine" => Eng!EngineSound
  /\ running = "pgm" => Pg!PgmSound
=============================================================================
