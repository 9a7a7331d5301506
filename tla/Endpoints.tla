------------------------------ MODULE Endpoints ------------------------------
(***************************************************************************)
(* Options, bind and connect: options_t of each socket, what an inproc     *)
(* connection makes of the options of its two sides, and the I/O thread    *)
(* that is chosen for the object of a listener or a connection.            *)
(***************************************************************************)
EXTENDS Integers, FiniteSets

CONSTANTS
  Socket,
  Types,          \* the pairs of socket types that are tried
  Thread,         \* the I/O threads: 0 .. n - 1, bits of the affinity
  Width, Narrow,  \* an option has Width bits; where it is cut, Narrow remain
  Value,          \* what the application tries to set
  MaxSets, MaxObjects     \* bounds: calls of setsockopt; objects in the I/O threads

Type == {"pair", "pub", "sub", "push", "pull", "xreq", "xrep"}
requires_in(t) == t \in {"pair", "sub", "pull", "xreq", "xrep"}
requires_out(t) == t \in {"pair", "pub", "push", "xreq", "xrep"}

EndpointsAssumption ==
  /\ {Width, Narrow, MaxSets, MaxObjects} \subseteq Nat /\ Value \subseteq Int /\ 0 \in Value
  /\ {2^Width, 2^Narrow} \subseteq Nat /\ IsFiniteSet(Socket)
  /\ IsFiniteSet(Thread) /\ Thread \subseteq Nat /\ Types \subseteq [Socket -> Type]

VARIABLES
  options, type,  \* of each socket
  accepted,       \* what setsockopt was given last and accepted
  endpoint,       \* the options with which a socket is registered, if it is
  attached,       \* the connections of each socket: their ends and their watermarks
  objects,        \* listeners and sessions: their thread, and whether they poll already
  sets, ctx_terminated, aborted

vars == <<options, type, accepted, endpoint, attached, objects, sets, ctx_terminated, aborted>>

\* Of the options that are checked or cut as one of these is, this one stands for all.
Option == {"hwm", "swap", "affinity", "rate", "mcast_loop"}
options_t == [hwm |-> 0, swap |-> 0, affinity |-> 0, rate |-> 1, mcast_loop |-> 1]

TypeOK ==
  /\ options \in [Socket -> [Option -> Int]] /\ accepted \in [Socket -> [Option -> Int]] /\ type \in Types
  /\ \A s \in Socket : endpoint[s].registered \in BOOLEAN
  /\ \A s \in Socket : \A p \in attached[s] : {p.inpipe, p.outpipe} \subseteq BOOLEAN
  /\ \A o \in objects : o.thread \in Thread /\ o.polls \in BOOLEAN
  /\ sets \in 0..MaxSets /\ {ctx_terminated, aborted} \subseteq BOOLEAN

Init ==
  /\ options = [s \in Socket |-> options_t] /\ accepted = options /\ type \in Types
  /\ endpoint = [s \in Socket |-> [registered |-> FALSE, options |-> options_t]]
  /\ attached = [s \in Socket |-> {}] /\ objects = {}
  /\ sets = 0 /\ ctx_terminated = FALSE /\ aborted = FALSE

(***************************************************************************)
(* setsockopt.                                                             *)
(***************************************************************************)
\* Unsigned options take every pattern of bits; others must not be negative, and
\* the directory must be writable for a swap.
Accepts(option, value) ==
  CASE option \in {"hwm", "affinity"} -> TRUE
    [] option \in {"swap", "rate"} -> value >= 0
    [] option = "mcast_loop" -> value \in {0, 1}
Stored(option, value) ==
  CASE option \in {"hwm", "affinity"} -> value % 2^Width
    [] option = "rate" -> value % 2^Narrow
    [] OTHER -> value

setsockopt(s, option, value) ==
  /\ ~ctx_terminated /\ sets < MaxSets /\ sets' = sets + 1
  /\ IF Accepts(option, value)
       THEN /\ options' = [options EXCEPT ![s][option] = Stored(option, value)]
            /\ accepted' = [accepted EXCEPT ![s][option] = value]
       ELSE UNCHANGED <<options, accepted>>
  /\ UNCHANGED <<type, endpoint, attached, objects, ctx_terminated, aborted>>

getsockopt(s, option) == options[s][option]

(***************************************************************************)
(* The choice of a thread.                                                 *)
(***************************************************************************)
Eligible(affinity) == {t \in Thread : affinity = 0 \/ (affinity \div 2^t) % 2 = 1}
get_load(t) == Cardinality({o \in objects : o.thread = t /\ o.polls})

\* The first of those with the least load.
choose_io_thread(affinity) ==
  CHOOSE t \in Eligible(affinity) :
    \A u \in Eligible(affinity) : get_load(t) < get_load(u) \/ (get_load(t) = get_load(u) /\ t <= u)

\* A listener or a session is launched: it counts in its thread only once it has
\* been plugged there.
Launch(s) ==
  LET affinity == options[s].affinity
  IN IF Thread = {} THEN UNCHANGED <<objects, aborted>>
     ELSE IF Eligible(affinity) = {} THEN aborted' = TRUE /\ UNCHANGED objects
     ELSE /\ objects' = objects \union {[id |-> CHOOSE n \in 1..MaxObjects : \A o \in objects : o.id # n,
                                         affinity |-> affinity, thread |-> choose_io_thread(affinity),
                                         polls |-> FALSE]}
          /\ UNCHANGED aborted

(***************************************************************************)
(* bind and connect.                                                       *)
(***************************************************************************)
bind(s, protocol) ==
  /\ ~ctx_terminated
  /\ \/ /\ protocol = "inproc" /\ ~endpoint[s].registered
        /\ endpoint' = [endpoint EXCEPT ![s] = [registered |-> TRUE, options |-> options[s]]]
        /\ UNCHANGED <<objects, aborted>>
     \/ protocol = "tcp" /\ Cardinality(objects) < MaxObjects /\ Launch(s) /\ UNCHANGED endpoint
  /\ UNCHANGED <<options, type, accepted, attached, sets, ctx_terminated>>

\* Both watermarks together; no limit on a side is no limit for the pipe.
sum_hwm(mine, peers) == IF mine = 0 \/ peers = 0 THEN 0 ELSE (mine + peers) % 2^Width
sum_swap(mine, peers) == mine + peers

\* Does a socket of this type take these ends?
Takes(t, ends) ==
  t = "xrep" \/ (ends.inpipe = requires_in(t) /\ ends.outpipe = requires_out(t))

\* What the peer is sent: it reads where the socket writes.
PeerEnds(t) == [inpipe |-> requires_out(t), outpipe |-> requires_in(t)]

Connect_inproc(s, peer) ==
  LET theirs == endpoint[peer].options
      Pipe(ends) ==
        [inpipe |-> ends.inpipe, outpipe |-> ends.outpipe, hwm |-> sum_hwm(options[s].hwm, theirs.hwm),
         swap |-> sum_swap(options[s].swap, theirs.swap), limits |-> {options[s].hwm, theirs.hwm}]
      ends == [inpipe |-> requires_in(type[s]), outpipe |-> requires_out(type[s])]
  IN /\ endpoint[peer].registered /\ s # peer /\ attached[s] = {}
     /\ attached' = [attached EXCEPT ![s] = @ \union {Pipe(ends)}, ![peer] = @ \union {Pipe(PeerEnds(type[s]))}]
     /\ aborted' = (aborted \/ ~Takes(type[peer], PeerEnds(type[s])))

connect(s, protocol) ==
  /\ ~ctx_terminated
  /\ \/ protocol = "inproc" /\ (\E peer \in Socket : Connect_inproc(s, peer)) /\ UNCHANGED objects
     \/ protocol = "tcp" /\ Cardinality(objects) < MaxObjects /\ Launch(s) /\ UNCHANGED attached
  /\ UNCHANGED <<options, type, accepted, endpoint, sets, ctx_terminated>>

\* The object adds its descriptor in its thread; later it goes.
Plugged ==
  /\ \E o \in objects : ~o.polls /\ objects' = (objects \ {o}) \union {[o EXCEPT !.polls = TRUE]}
  /\ UNCHANGED <<options, type, accepted, endpoint, attached, sets, ctx_terminated, aborted>>
Gone ==
  /\ \E o \in objects : o.polls /\ objects' = objects \ {o}
  /\ UNCHANGED <<options, type, accepted, endpoint, attached, sets, ctx_terminated, aborted>>

Terminate ==
  /\ ~ctx_terminated /\ ctx_terminated' = TRUE
  /\ UNCHANGED <<options, type, accepted, endpoint, attached, objects, sets, aborted>>

\* What the application sets: no negative value of an unsigned option.
Sensible(option, value) == option \in {"hwm", "affinity"} => value >= 0

\* The process ends when an assertion fails.
Next ==
  /\ ~aborted
  /\ \/ \E s \in Socket :
          \/ \E option \in Option, value \in Value : Sensible(option, value) /\ setsockopt(s, option, value)
          \/ \E protocol \in {"inproc", "tcp"} : bind(s, protocol) \/ connect(s, protocol)
     \/ Plugged \/ Gone \/ Terminate

Spec == Init /\ [][Next]_vars

\* What the code leaves to the application: that twice an option's value still
\* fits, and that the two ends of an inproc connection are of types that match.
ValuesFit == \A value \in Value : value + value < 2^Width /\ value < 2^Narrow
TypesMatch == \A some \in Types : \A s, peer \in Socket : s # peer => Takes(some[peer], PeerEnds(some[s]))

(***************************************************************************)
(* Properties.                                                             *)
(***************************************************************************)
\* An inproc pipe is unlimited exactly if one of its sides is.
LimitsKept == \A s \in Socket : \A p \in attached[s] : p.hwm = 0 <=> 0 \in p.limits

\* A socket is given the ends that its type works with, and a thread is found: of
\* the assertions about them only that of ctx.cpp about the load may fail, namely
\* when the application's affinity is for threads that do not exist.
NeverAborts == aborted => \E s \in Socket : accepted[s].affinity # 0 /\ Eligible(accepted[s].affinity) = {}

\* Either side of a connection writes where the other reads.
EndsMeet ==
  \A s, t \in Socket : s # t /\ Cardinality(Socket) = 2 =>
    \A p \in attached[s] : \E q \in attached[t] : p.inpipe = q.outpipe /\ p.outpipe = q.inpipe

\* An object runs only in a thread that its affinity allows.
AffinityKept == \A o \in objects : o.thread \in Eligible(o.affinity)

\* getsockopt returns what setsockopt was given.
SetIsGot == \A s \in Socket, option \in Option : getsockopt(s, option) = accepted[s][option]

EndpointsSound == TypeOK /\ LimitsKept /\ NeverAborts /\ EndsMeet /\ AffinityKept /\ SetIsGot
=============================================================================
