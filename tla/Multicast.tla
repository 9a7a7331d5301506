------------------------------ MODULE Multicast ------------------------------
(***************************************************************************)
(* How a connect_session_t opens a multicast connection: it makes a sender *)
(* or a receiver, whose pgm_socket_t::init makes a row of calls to OpenPGM *)
(* each of which may fail, and sends it to itself to be plugged in.        *)
(***************************************************************************)
EXTENDS Integers, Sequences, SequencesExt

CONSTANTS
  NULL,
  Configs,              \* options of the socket
  Networks,             \* addresses given: whether they parse, what they stand for, and whether OpenPGM
                        \* takes every call for them
  Width,                \* bits of an int
  pgm_max_tpdu, in_batch_size, max_tsdu

MulticastAssumption ==
  /\ Width \in {16, 32} /\ {pgm_max_tpdu, in_batch_size, max_tsdu} \subseteq Nat \ {0}
  /\ NULL # "owned" /\ NULL \notin Nat
  /\ \A o \in Configs :
       /\ {o.rate, o.recovery_ivl, o.rcvbuf, o.sndbuf} \subseteq Nat /\ o.recovery_ivl_msec \in Int
       /\ o.type \in {"pub", "sub"} /\ o.multicast_loop \in BOOLEAN
  /\ \A net \in Networks : {net.port, net.short, net.udp, net.ipv6, net.works} \subseteq BOOLEAN /\ net.groups \in Nat \ {0}

VARIABLES
  options, network,
  phase,        \* what the session is about: "new", "opening", "attaching", "plugged", "deleted" or "aborted"
  left,         \* calls of init that are still to be made
  sock, res, pgm_error,
  set,          \* what was set on the socket, with its value
  buffer,       \* pgm_msgv of a receiver, out_buffer of a sender
  fds           \* descriptors the poller has for it

multicastVars == <<options, network, phase, left, sock, res, pgm_error, set, buffer, fds>>
resources == <<sock, res, pgm_error, set, buffer>>

receiver == options.type = "sub"

TypeOK ==
  /\ options \in Configs /\ network \in Networks
  /\ phase \in {"new", "opening", "attaching", "plugged", "deleted", "aborted"}
  /\ {sock, res, pgm_error} \subseteq {NULL, "owned"} /\ buffer \in {NULL} \union (Nat \ {0})
  /\ fds \in SUBSET {"receive", "pending", "send", "repair"}

Init ==
  /\ options \in Configs /\ network \in Networks /\ phase = "new" /\ left = <<>>
  /\ sock = NULL /\ res = NULL /\ pgm_error = NULL /\ set = <<>> /\ buffer = NULL /\ fds = {}

(***************************************************************************)
(* Values that are computed from the options, as the code's ints.          *)
(***************************************************************************)
AsUnsigned(n) == n % 2^Width
AsInt(n) == ((n + 2^(Width - 1)) % 2^Width) - 2^(Width - 1)

compute_sqns(o) ==
  LET interval == IF o.recovery_ivl_msec >= 0 THEN o.recovery_ivl_msec ELSE AsUnsigned(o.recovery_ivl * 1000)
      sqns == (interval * (o.rate \div 8)) \div pgm_max_tpdu
  IN AsInt(IF sqns = 0 THEN 1 ELSE sqns)
max_rte(o) == AsInt(AsUnsigned(o.rate * 1000) \div 8)

\* Whole packets for a batch, the last of which need not be full.
pgm_msgv_len == (in_batch_size \div max_tsdu) + (IF in_batch_size % max_tsdu > 0 THEN 1 ELSE 0)

(***************************************************************************)
(* The calls of init, in their order.                                      *)
(***************************************************************************)
Set(name, value) == [call |-> "setsockopt", name |-> name, value |-> value]
Only(condition, calls) == IF condition THEN calls ELSE <<>>

ReceiverOptions ==
  <<Set("RECV_ONLY", 1), Set("RXW_SQNS", compute_sqns(options)), Set("PEER_EXPIRY", 300), Set("SPMR_EXPIRY", 25),
    Set("NAK_BO_IVL", 50), Set("NAK_RPT_IVL", 200), Set("NAK_RDATA_IVL", 200), Set("NAK_DATA_RETRIES", 50),
    Set("NAK_NCF_RETRIES", 50)>>
SenderOptions ==
  <<Set("SEND_ONLY", 1), Set("ODATA_MAX_RTE", max_rte(options)), Set("TXW_SQNS", compute_sqns(options)),
    Set("AMBIENT_SPM", 30), Set("HEARTBEAT_SPM", 9)>>
BeforeBind ==
  Only(network.udp, <<Set("UDP_ENCAP_UCAST_PORT", 1), Set("UDP_ENCAP_MCAST_PORT", 1)>>)
  \o Only(options.rcvbuf # 0, <<Set("RCVBUF", options.rcvbuf)>>)
  \o Only(options.sndbuf # 0, <<Set("SNDBUF", options.sndbuf)>>)
  \o <<Set("MTU", pgm_max_tpdu)>> \o (IF receiver THEN ReceiverOptions ELSE SenderOptions)
AfterBind ==
  [n \in 1..network.groups |-> Set("JOIN_GROUP", n)] \o <<Set("SEND_GROUP", 1), [call |-> "freeaddrinfo"]>>
  \o <<Set("MULTICAST_LOOP", IF options.multicast_loop THEN 1 ELSE 0), Set("MULTICAST_HOPS", 16)>>
  \o Only(~network.ipv6, <<Set("TOS", 184)>>) \o <<Set("NOBLOCK", 1)>>
Calls ==
  <<[call |-> "getaddrinfo"], [call |-> "socket"]>> \o BeforeBind
  \o <<[call |-> "gsi_create"], [call |-> "bind3"]>> \o AfterBind \o <<[call |-> "connect"]>>

Valid ==
  /\ network.port /\ network.short
  /\ options.rate > 0 /\ (options.recovery_ivl > 0 \/ options.recovery_ivl_msec > 0)

\* What the code after a failure releases; connect_session_t asserts that there was none.
err_abort ==
  /\ sock' = NULL /\ res' = NULL /\ pgm_error' = NULL /\ set' = <<>>
  /\ phase' = "aborted" /\ left' = <<>> /\ UNCHANGED buffer

start_connecting ==
  /\ phase = "new" /\ UNCHANGED <<options, network, fds>>
  /\ \/ Valid /\ phase' = "opening" /\ left' = Calls /\ UNCHANGED resources
     \/ ~Valid /\ phase' = "aborted" /\ UNCHANGED <<left, resources>>

\* A call succeeds.
Done(c) ==
  /\ sock' = IF c.call = "socket" THEN "owned" ELSE sock
  /\ res' = IF c.call = "getaddrinfo" THEN "owned" ELSE IF c.call = "freeaddrinfo" THEN NULL ELSE res
  /\ set' = IF c.call \in {"setsockopt", "bind3"} THEN Append(set, c) ELSE set
  /\ buffer' = IF c.call # "connect" THEN buffer ELSE IF receiver THEN pgm_msgv_len ELSE max_tsdu
  /\ left' = Tail(left) /\ UNCHANGED pgm_error
  /\ phase' = IF Tail(left) = <<>> THEN "attaching" ELSE phase

Reports(c) == c.call \in {"getaddrinfo", "socket", "bind3", "connect"}

\* A call that fails leaves an error, except one for options and the identity;
\* init goes to err_abort at once.
Fails(c) == ~network.works /\ c.call # "freeaddrinfo" /\ pgm_error = NULL

Call ==
  /\ phase = "opening" /\ pgm_error = NULL /\ UNCHANGED <<options, network, fds>>
  /\ \/ Done(Head(left))
     \/ Fails(Head(left)) /\ Reports(Head(left)) /\ pgm_error' = "owned" /\ UNCHANGED <<phase, left, sock, res, set, buffer>>
     \/ Fails(Head(left)) /\ ~Reports(Head(left)) /\ err_abort
Abort == phase = "opening" /\ pgm_error # NULL /\ err_abort /\ UNCHANGED <<options, network, fds>>

(***************************************************************************)
(* The session plugs the engine in, unless it was terminated meanwhile.    *)
(***************************************************************************)
get_fds == IF receiver THEN {"receive", "pending"} ELSE {"send", "receive", "repair", "pending"}
process_attach ==
  /\ phase = "attaching" /\ phase' = "plugged" /\ fds' = get_fds
  /\ UNCHANGED <<options, network, left, resources>>

\* ~pgm_socket_t, with ~pgm_sender_t, whether the engine was plugged or not.
terminate ==
  /\ phase \in {"attaching", "plugged"} /\ phase' = "deleted"
  /\ sock' = NULL /\ set' = <<>> /\ buffer' = NULL /\ fds' = {}
  /\ UNCHANGED <<options, network, left, res, pgm_error>>

Next == start_connecting \/ Call \/ Abort \/ process_attach \/ terminate

Spec == Init /\ [][Next]_multicastVars

(***************************************************************************)
(* Properties.                                                             *)
(***************************************************************************)
SetTo(name, value) == \E i \in DOMAIN set : set[i] = Set(name, value)
Place(c) == CHOOSE i \in DOMAIN set : set[i] = c
Bound == [call |-> "bind3"]

\* Wherever init fails, and when the engine is deleted, nothing of OpenPGM's is
\* held; an open connection holds its socket only.
NothingLeaks ==
  /\ phase \in {"aborted", "deleted"} => sock = NULL /\ res = NULL /\ pgm_error = NULL /\ buffer = NULL
  /\ phase \in {"attaching", "plugged"} => sock # NULL /\ res = NULL /\ pgm_error = NULL

\* The poller gets the descriptors of a socket that does not block, is in every
\* group, and whose window was set before it was bound; it has a buffer.
PluggedWhole ==
  fds # {} =>
    /\ SetTo("NOBLOCK", 1) /\ SetTo("SEND_GROUP", 1) /\ \A n \in 1..network.groups : SetTo("JOIN_GROUP", n)
    /\ \E window \in {"RXW_SQNS", "TXW_SQNS"} :
         SetTo(window, compute_sqns(options)) /\ Place(Set(window, compute_sqns(options))) < Place(Bound)
    /\ buffer # NULL /\ (receiver => buffer * max_tsdu >= in_batch_size)

\* The window holds what is sent in the interval that was asked for, and one
\* packet at least.
Asked(o) == IF o.recovery_ivl_msec > 0 THEN o.recovery_ivl_msec ELSE o.recovery_ivl * 1000
WindowHoldsInterval ==
  LET sqns == compute_sqns(options)
  IN fds # {} =>
       sqns >= 1 /\ max_rte(options) > 0 /\ Asked(options) * (options.rate \div 8) < (sqns + 1) * pgm_max_tpdu

\* The options for which it does: an interval of 0 ms, which hides that in
\* seconds, and what is too large for an int are not among them.
WindowsFit ==
  \A o \in Configs :
    /\ o.recovery_ivl_msec # 0 /\ o.recovery_ivl * 1000 < 2^Width /\ o.rate * 1000 < 2^Width
    /\ (Asked(o) * (o.rate \div 8)) \div pgm_max_tpdu < 2^(Width - 1)

\* The address of a network that works does not end the process.
NeverAborts == Valid /\ network.works => phase # "aborted"

MulticastSound == TypeOK /\ NothingLeaks /\ PluggedWhole /\ WindowHoldsInterval /\ NeverAborts
=============================================================================
