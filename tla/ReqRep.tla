------------------------------- MODULE ReqRep -------------------------------
(***************************************************************************)
(* A rep_t socket and its clients: req_t sockets, and "rude" ones, which   *)
(* need not wait for replies nor send the empty part that separates the    *)
(* addresses from the body.  req_t and rep_t keep their application to the *)
(* order of request and reply; rep_t sends a reply where the request came from by   *)
(* copying the address into the reply at once, through xrep_t, which finds *)
(* the pipe by it.  What a pipe holds is whole messages; the parts of the  *)
(* one being written are not seen by its reader yet.                       *)
(***************************************************************************)
EXTENDS Integers, Sequences, FiniteSets

CONSTANTS Clients, Rude

ReqRepAssumption == IsFiniteSet(Clients) /\ Rude \subseteq Clients

VARIABLES
  receiving_reply, message_begins,    \* req_t
  outgoing, requests, replies,        \* messages on their way
  connection,                         \* a client's pipes: which the server has
  sending_reply, request_begins,      \* rep_t
  inpipes, active_in, current_in, prefetched, unread,     \* xrep_t
  current_out, more_out, partial,
  calling,                            \* a recv of the server is going on
  served,                             \* whose request the server has read last
  no_way_back,                        \* was the pipe back gone or full, when looked for last?
  unanswered                          \* those whose request was read without looking for it

reqVars == <<receiving_reply, message_begins, outgoing>>
repVars == <<sending_reply, request_begins, served>>
inVars == <<inpipes, active_in, current_in, prefetched, unread>>
outVars == <<current_out, more_out, partial>>
historyVars == <<no_way_back, unanswered>>
vars == <<reqVars, requests, replies, connection, repVars, inVars, outVars, calling, historyVars>>

Nobody == "nobody"
\* A message is its parts.  A part of the body is whose request it is, or answers.
Part == Clients \union {"empty"}

TypeOK ==
  /\ receiving_reply \in [Clients -> BOOLEAN] /\ message_begins \in [Clients -> BOOLEAN]
  /\ \A c \in Clients : outgoing[c] \in Seq(Part)
  /\ \A c \in Clients : requests[c] \in Seq(Seq(Part)) /\ replies[c] \in Seq(Seq(Part))
  /\ connection \in [Clients -> SUBSET {"client", "in", "out"}]
  /\ {sending_reply, request_begins, prefetched, more_out, calling, no_way_back} \subseteq BOOLEAN
  /\ inpipes \in Seq(Clients) /\ active_in \in [Clients -> BOOLEAN]
  /\ current_in \in 1..Cardinality(Clients)
  /\ unread \in Seq(Part) /\ partial \in Seq(Part)
  /\ {current_out, served} \subseteq Clients \union {Nobody} /\ unanswered \subseteq Clients

Init ==
  /\ receiving_reply = [c \in Clients |-> FALSE] /\ message_begins = [c \in Clients |-> TRUE]
  /\ outgoing = [c \in Clients |-> <<>>]
  /\ requests = [c \in Clients |-> <<>>] /\ replies = [c \in Clients |-> <<>>]
  /\ connection = [c \in Clients |-> {}]
  /\ sending_reply = FALSE /\ request_begins = TRUE /\ served = Nobody
  /\ inpipes = <<>> /\ active_in = [c \in Clients |-> FALSE] /\ current_in = 1
  /\ prefetched = FALSE /\ unread = <<>>
  /\ current_out = Nobody /\ more_out = FALSE /\ partial = <<>> /\ calling = FALSE
  /\ no_way_back = FALSE /\ unanswered = {}

(***************************************************************************)
(* Clients.                                                                *)
(***************************************************************************)
Connected(c) == "client" \in connection[c]

\* xattach_pipes, for a client that is new.
xattach_pipes(c) ==
  /\ ~calling /\ connection[c] = {}
  /\ connection' = [connection EXCEPT ![c] = {"client", "in", "out"}]
  /\ inpipes' = Append(inpipes, c) /\ active_in' = [active_in EXCEPT ![c] = TRUE]
  /\ UNCHANGED <<reqVars, requests, replies, repVars, current_in, prefetched, unread, outVars, calling, historyVars>>

\* req_t::xsend of a part.  The first one goes after an empty one.
ReqSend(c, more) ==
  /\ c \notin Rude /\ Connected(c) /\ ~receiving_reply[c]
  /\ more => Len(outgoing[c]) < 2
  /\ LET parts == (IF message_begins[c] THEN <<"empty">> ELSE outgoing[c]) \o <<c>>
     IN IF more
          THEN /\ outgoing' = [outgoing EXCEPT ![c] = parts]
               /\ message_begins' = [message_begins EXCEPT ![c] = FALSE]
               /\ UNCHANGED <<receiving_reply, requests>>
          ELSE /\ outgoing' = [outgoing EXCEPT ![c] = <<>>]
               /\ requests' = [requests EXCEPT ![c] = Append(@, parts)]
               /\ receiving_reply' = [receiving_reply EXCEPT ![c] = TRUE]
               /\ message_begins' = [message_begins EXCEPT ![c] = TRUE]
  /\ UNCHANGED <<replies, connection, repVars, inVars, outVars, calling, historyVars>>

\* A rude client reads replies at once, or never, which its pipe is full for.
RudeSend(c) ==
  /\ c \in Rude /\ Connected(c) /\ requests[c] = <<>>
  /\ \E parts \in {<<"empty", c>>, <<c>>, <<c, c>>} : requests' = [requests EXCEPT ![c] = <<parts>>]
  /\ UNCHANGED <<reqVars, replies, connection, repVars, inVars, outVars, calling, historyVars>>

\* req_t::xrecv of a part; the first one read goes after the empty one.
ReqRecv(c) ==
  /\ receiving_reply[c] /\ replies[c] # <<>>
  /\ LET parts == Head(replies[c])
         rest == IF message_begins[c] THEN Tail(Tail(parts)) ELSE Tail(parts)
     IN /\ replies' = [replies EXCEPT ![c] = IF rest = <<>> THEN Tail(@) ELSE <<rest>> \o Tail(@)]
        /\ receiving_reply' = [receiving_reply EXCEPT ![c] = rest # <<>>]
        /\ message_begins' = [message_begins EXCEPT ![c] = rest = <<>>]
  /\ UNCHANGED <<outgoing, requests, connection, repVars, inVars, outVars, calling, historyVars>>

\* The client goes: what it has not finished is rolled back, what it has not
\* read is lost, and what it sent is followed by a delimiter.
Leave(c) ==
  /\ Connected(c)
  /\ connection' = [connection EXCEPT ![c] = @ \ {"client"}]
  /\ outgoing' = [outgoing EXCEPT ![c] = <<>>] /\ replies' = [replies EXCEPT ![c] = <<>>]
  /\ receiving_reply' = [receiving_reply EXCEPT ![c] = FALSE]
  /\ message_begins' = [message_begins EXCEPT ![c] = TRUE]
  /\ UNCHANGED <<requests, repVars, inVars, outVars, calling, historyVars>>

\* The server's ends of the pipes follow.
OutTerminated(c) ==
  /\ ~calling /\ ~Connected(c) /\ "out" \in connection[c]
  /\ connection' = [connection EXCEPT ![c] = @ \ {"out"}]
  /\ current_out' = IF current_out = c THEN Nobody ELSE current_out
  /\ partial' = IF current_out = c THEN <<>> ELSE partial
  /\ UNCHANGED <<reqVars, requests, replies, repVars, inVars, more_out, calling, historyVars>>

Index(c) == CHOOSE i \in 1..Len(inpipes) : inpipes[i] = c

\* A reader has read the delimiter before, and is passive since.
InTerminated(c) ==
  /\ ~calling /\ ~Connected(c) /\ "in" \in connection[c] /\ ~active_in[c] /\ requests[c] = <<>>
  /\ connection' = [connection EXCEPT ![c] = @ \ {"in"}]
  /\ inpipes' = SelectSeq(inpipes, LAMBDA d : d # c)
  /\ LET index == IF Index(c) < current_in THEN current_in - 1 ELSE current_in
     IN current_in' = IF index > Len(inpipes') THEN 1 ELSE index
  /\ UNCHANGED <<reqVars, requests, replies, repVars, active_in, prefetched, unread, outVars, calling, historyVars>>

InActivated(c) ==
  /\ ~calling /\ "in" \in connection[c] /\ ~active_in[c] /\ requests[c] # <<>>
  /\ active_in' = [active_in EXCEPT ![c] = TRUE]
  /\ UNCHANGED <<reqVars, requests, replies, connection, repVars, inpipes, current_in, prefetched,
                 unread, outVars, calling, historyVars>>

(***************************************************************************)
(* xrep_t.                                                                 *)
(***************************************************************************)
More == Len(unread) > 1

\* Where pipe number k after the current one is.
At(k) == ((current_in + k - 1) % Len(inpipes)) + 1
Readable(c) == active_in[c] /\ requests[c] # <<>>

\* A prefix with the address is followed by the message.
XrecvPrefix ==
  /\ ~prefetched /\ unread = <<>>
  /\ \E k \in 0..Len(inpipes) - 1 :
       /\ Readable(inpipes[At(k)]) /\ \A j \in 0..k - 1 : ~Readable(inpipes[At(j)])
       /\ LET c == inpipes[At(k)]
          IN /\ unread' = Head(requests[c]) /\ requests' = [requests EXCEPT ![c] = Tail(@)]
             /\ served' = c
       /\ active_in' = [c \in Clients |-> active_in[c] /\ \A j \in 0..k - 1 : inpipes[At(j)] # c]
       /\ current_in' = At(k)
  /\ prefetched' = TRUE /\ UNCHANGED inpipes

XrecvNothing ==
  /\ ~prefetched /\ unread = <<>> /\ \A c \in Clients : ~Readable(c)
  /\ active_in' = [c \in Clients |-> FALSE]
  /\ UNCHANGED <<inpipes, current_in, prefetched, unread, requests, served>>

\* The turn goes on after a message, unless it had a single part.
XrecvPart ==
  /\ unread # <<>>
  /\ unread' = Tail(unread) /\ prefetched' = FALSE
  /\ current_in' = IF prefetched \/ More THEN current_in ELSE At(1)
  /\ UNCHANGED <<inpipes, active_in, requests, served>>

\* The prefix selects the pipe.  A pipe that is full is not: then the part that
\* comes next is taken for the prefix.  A rude client's may be full.
XsendPrefix(c) ==
  IF more_out
    THEN unanswered' = unanswered \union {c} /\ UNCHANGED <<outVars, no_way_back>>   \* current_out being nobody
    ELSE \E full \in {f \in BOOLEAN : f => c \in Rude /\ "out" \in connection[c]} :
           /\ more_out' = ~full
           /\ current_out' = IF "out" \in connection[c] /\ ~full THEN c ELSE Nobody
           /\ no_way_back' = (current_out' = Nobody)
           /\ UNCHANGED <<partial, unanswered>>

\* A part with more after it.
XsendPart(part) ==
  /\ more_out' = TRUE /\ UNCHANGED current_out
  /\ partial' = IF current_out = Nobody THEN <<>> ELSE Append(partial, part)

rollback ==
  IF current_out = Nobody THEN UNCHANGED outVars
  ELSE partial' = <<>> /\ current_out' = Nobody /\ more_out' = FALSE

(***************************************************************************)
(* rep_t: a recv copies the addresses of a request, then returns its first *)
(* part, or the next one if it has returned parts of it before.            *)
(***************************************************************************)
RepRecv ==
  /\ ~calling /\ ~sending_reply /\ calling' = TRUE
  /\ UNCHANGED <<reqVars, requests, replies, connection, repVars, inVars, outVars, historyVars>>

RepPrefix ==
  /\ calling /\ request_begins /\ XrecvPrefix /\ XsendPrefix(served')
  /\ UNCHANGED <<reqVars, replies, connection, sending_reply, request_begins, calling>>

RepNothing ==
  /\ calling /\ XrecvNothing /\ calling' = FALSE
  /\ UNCHANGED <<reqVars, replies, connection, sending_reply, request_begins, outVars, historyVars>>

\* The empty part is the last of the addresses; without it the message is
\* discarded.
RepStack ==
  /\ calling /\ request_begins /\ XrecvPart
  /\ IF More THEN XsendPart(Head(unread)) ELSE rollback
  /\ request_begins' = ~(More /\ Head(unread) = "empty")
  /\ UNCHANGED <<reqVars, replies, connection, sending_reply, calling, historyVars>>

RepBody ==
  /\ calling /\ ~request_begins /\ XrecvPart /\ calling' = FALSE
  /\ sending_reply' = ~More /\ request_begins' = ~More
  /\ UNCHANGED <<reqVars, replies, connection, outVars, historyVars>>

\* rep_t::xsend: a part of the reply goes where the addresses went.
RepSend(more) ==
  /\ ~calling /\ sending_reply
  /\ more => Len(partial) < 2
  /\ sending_reply' = more /\ more_out' = more
  /\ LET parts == Append(partial, served)
     IN IF current_out = Nobody THEN UNCHANGED <<partial, replies, current_out>>
        ELSE IF more THEN partial' = parts /\ UNCHANGED <<replies, current_out>>
        ELSE /\ replies' = IF Connected(current_out) /\ current_out \notin Rude
                             THEN [replies EXCEPT ![current_out] = Append(@, parts)] ELSE replies
             /\ partial' = <<>> /\ current_out' = Nobody
  /\ UNCHANGED <<reqVars, requests, connection, request_begins, served, inVars, calling, historyVars>>

Next ==
  \/ \E c \in Clients :
       \/ xattach_pipes(c) \/ RudeSend(c) \/ ReqRecv(c) \/ Leave(c)
       \/ OutTerminated(c) \/ InTerminated(c) \/ InActivated(c)
       \/ \E more \in BOOLEAN : ReqSend(c, more)
  \/ RepRecv \/ RepPrefix \/ RepNothing \/ RepStack \/ RepBody
  \/ \E more \in BOOLEAN : RepSend(more)

Spec == Init /\ [][Next]_vars

(***************************************************************************)
(* Properties.                                                             *)
(***************************************************************************)
BodiesOf(c, parts) == \A i \in 1..Len(parts) : parts[i] # "empty" => parts[i] = c

\* A reply goes to the client whose request it answers.
RepliesGoHome ==
  /\ \A c \in Clients : \A i \in 1..Len(replies[c]) : BodiesOf(c, replies[c][i])
  /\ partial # <<>> => current_out = served /\ BodiesOf(served, partial)

\* The parts of a request come from one client.
RequestWhole == unread # <<>> => inpipes[current_in] = served /\ BodiesOf(served, unread)

\* Nothing is kept of a message once the server turns to the next one, but that one
\* has begun if the last had no addresses and its pipe back was gone or full.
NothingLeft == (~sending_reply /\ request_begins /\ unread = <<>>) =>
  current_out = Nobody /\ partial = <<>> /\ (more_out => no_way_back /\ served \in Rude)

\* A client that waits has one request, or reply, somewhere; if what a rude client
\* sent before did not cost it the reply.
Underway(c) ==
  Len(requests[c]) + Len(replies[c])
    + (IF served = c /\ (unread # <<>> \/ ~request_begins \/ sending_reply) THEN 1 ELSE 0)
OneUnderway ==
  \A c \in Clients \ Rude : Connected(c) =>
    \/ Underway(c) = IF receiving_reply[c] THEN 1 ELSE 0
    \/ receiving_reply[c] /\ c \in unanswered /\ Underway(c) = 0

ReqRepSound == TypeOK /\ RepliesGoHome /\ RequestWhole /\ NothingLeft /\ OneUnderway
=============================================================================
