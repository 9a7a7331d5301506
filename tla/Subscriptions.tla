---------------------------- MODULE Subscriptions ---------------------------
(***************************************************************************)
(* xsub_t and sub_t: which messages a subscriber gets.  The subscriptions  *)
(* are counted in a trie_t, whose nodes have tables of the characters      *)
(* between the least and the greatest that follow; the tables grow at      *)
(* either end and never shrink.  A node is named by the characters that    *)
(* lead to it, and an entry of a table by the character of its node.       *)
(***************************************************************************)
EXTENDS Integers, Sequences, FiniteSets

CONSTANTS
  Prefixes,      \* what is subscribed to
  Topics,        \* what messages begin with
  MaxCopies,     \* bound: subscriptions to the same prefix
  MaxParts

SubscriptionsAssumption ==
  /\ Prefixes \subseteq Seq(Nat) /\ Topics \subseteq Seq(Nat) /\ <<>> \in Prefixes
  /\ MaxCopies \in Nat \ {0} /\ MaxParts \in Nat \ {0}

VARIABLES
  trie,
  subscribed,            \* how often, for each prefix
  has_message, more,
  remaining              \* parts of the message that fq_t has not returned

vars == <<trie, subscribed, has_message, more, remaining>>
recvVars == <<has_message, more, remaining>>

NoNode == -1
NewNode == [refcnt |-> 0, min |-> 0, table |-> <<>>]

TypeOK ==
  /\ DOMAIN trie \subseteq Seq(Nat) /\ <<>> \in DOMAIN trie
  /\ \A p \in DOMAIN trie : trie[p].refcnt \in 0..MaxCopies /\ trie[p].min \in Nat
                            /\ trie[p].table \in Seq(Nat \union {NoNode})
  /\ subscribed \in [Prefixes -> 0..MaxCopies]
  /\ {has_message, more} \subseteq BOOLEAN /\ remaining \in 0..MaxParts

Init ==
  /\ trie = [p \in {<<>>} |-> NewNode]
  /\ subscribed = [p \in Prefixes |-> 0]
  /\ has_message = FALSE /\ more = FALSE /\ remaining = 0

(***************************************************************************)
(* trie_t.                                                                 *)
(***************************************************************************)
Begins(p, s) == Len(p) <= Len(s) /\ p = SubSeq(s, 1, Len(p))
NoNodes(n) == [i \in 1..n |-> NoNode]

\* A node whose table has an entry for c.
Extended(n, c) ==
  LET t == n.table
  IN IF t = <<>> THEN [n EXCEPT !.min = c, !.table = <<c>>]
     ELSE IF c < n.min THEN [n EXCEPT !.min = c, !.table = <<c>> \o NoNodes(n.min - c - 1) \o t]
     ELSE [n EXCEPT !.table = [t \o NoNodes(c - n.min + 1 - Len(t)) EXCEPT ![c - n.min + 1] = c]]

add(prefix) ==
  LET path == {SubSeq(prefix, 1, k) : k \in 0..Len(prefix)}
      Node(p) == IF p \in DOMAIN trie THEN trie[p] ELSE NewNode
  IN trie' = [p \in DOMAIN trie \union path |->
                IF p = prefix THEN [Node(p) EXCEPT !.refcnt = @ + 1]
                ELSE IF p \in path THEN Extended(Node(p), prefix[Len(p) + 1])
                ELSE trie[p]]

\* Where the characters of a string lead to, one after the other.
Follow(p, c) ==
  LET t == trie[p].table
      i == c - trie[p].min + 1
  IN IF i \in 1..Len(t) /\ t[i] # NoNode THEN Append(p, t[i]) ELSE <<NoNode>>
Path(s) ==
  LET walk[k \in 0..Len(s)] ==
        IF k = 0 THEN <<>>
        ELSE IF walk[k - 1] \notin DOMAIN trie THEN <<NoNode>> ELSE Follow(walk[k - 1], s[k])
  IN walk

rm(prefix) ==
  LET node == Path(prefix)[Len(prefix)]
  IN trie' = IF node \in DOMAIN trie /\ trie[node].refcnt > 0
               THEN [trie EXCEPT ![node].refcnt = @ - 1] ELSE trie

check(s) == \E k \in 0..Len(s) : Path(s)[k] \in DOMAIN trie /\ trie[Path(s)[k]].refcnt > 0

(***************************************************************************)
(* sub_t::xsetsockopt, through xsub_t::xsend.  An unsubscription of what   *)
(* is not subscribed to is ignored.                                        *)
(***************************************************************************)
Subscribe(prefix) ==
  /\ subscribed[prefix] < MaxCopies
  /\ add(prefix)
  /\ subscribed' = [subscribed EXCEPT ![prefix] = @ + 1]
  /\ UNCHANGED recvVars

Unsubscribe(prefix) ==
  /\ rm(prefix)
  /\ subscribed' = [subscribed EXCEPT ![prefix] = IF @ = 0 THEN 0 ELSE @ - 1]
  /\ UNCHANGED recvVars

(***************************************************************************)
(* xsub_t::xrecv and xhas_in.  Messages that do not match are taken from   *)
(* the pipe with all their parts and forgotten: then another one is tried. *)
(***************************************************************************)
\* The first part of a message that matches.
Fetches(topic, parts) ==
  /\ ~has_message /\ ~more /\ check(topic)
  /\ remaining' = parts - 1

XrecvFirst(topic, parts) ==
  /\ Fetches(topic, parts)
  /\ more' = (parts > 1)
  /\ UNCHANGED <<has_message, trie, subscribed>>

XhasIn(topic, parts) ==
  /\ Fetches(topic, parts)
  /\ has_message' = TRUE
  /\ UNCHANGED <<more, trie, subscribed>>

XrecvPrepared ==
  /\ has_message /\ has_message' = FALSE
  /\ more' = (remaining > 0)
  /\ UNCHANGED <<remaining, trie, subscribed>>

XrecvMore ==
  /\ ~has_message /\ more
  /\ remaining' = remaining - 1 /\ more' = (remaining' > 0)
  /\ UNCHANGED <<has_message, trie, subscribed>>

Next ==
  \/ \E p \in Prefixes : Subscribe(p) \/ Unsubscribe(p)
  \/ \E topic \in Topics, parts \in 1..MaxParts : XrecvFirst(topic, parts) \/ XhasIn(topic, parts)
  \/ XrecvPrepared \/ XrecvMore

Spec == Init /\ [][Next]_vars

(***************************************************************************)
(* Properties.                                                             *)
(***************************************************************************)
\* A message matches exactly if it begins with a prefix that has been subscribed
\* to more often than it has been unsubscribed from.
MatchesSubscriptions ==
  \A t \in Topics : check(t) <=> \E p \in Prefixes : subscribed[p] > 0 /\ Begins(p, t)

\* What has not been received of a message is in the pipe until it has been,
\* also when zmq_poll has taken the first part and subscriptions have changed.
PartsFollow == ~has_message => (remaining > 0 <=> more)

SubscriptionsSound == TypeOK /\ MatchesSubscriptions /\ PartsFollow
=============================================================================
