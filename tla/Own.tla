-------------------------------- MODULE Own ---------------------------------
(***************************************************************************)
(* own_t and the commands of object_t: the tree in which a socket owns its *)
(* listeners and sessions, those their connecters and inits, and so on,    *)
(* each object living in some thread.  An object is launched with two      *)
(* commands, asks its owner to be terminated, is terminated only by its    *)
(* owner, and goes away when everything it owns has, and when all commands *)
(* that were announced to it (sent_seqnum) have been processed.            *)
(***************************************************************************)
EXTENDS Integers, Sequences, FiniteSets, SequencesExt

CONSTANTS
  Object, Root,
  Thread,
  Layouts,    \* [home, named, finds]: where objects live, and which are named
  None

VARIABLES
  layout,             \* one of them
  phase,              \* an object is "unborn", "alive", "leaving" or "gone"
  owner, owned,
  plugged,            \* the object has processed plug
  terminating, term_acks,
  sent_seqnum, processed_seqnum,
  requested,          \* the objects that have asked to be terminated
  inbox,              \* the mailbox of each thread
  doing,              \* what a thread is in the middle of
  endpoint,           \* the root's inproc endpoint is registered
  promised,           \* binds that were announced and are not sent yet
  finds

treeVars == <<owner, owned>>
termVars == <<terminating, term_acks>>
findVars == <<layout, endpoint, promised, finds>>
vars == <<phase, treeVars, plugged, termVars, sent_seqnum, processed_seqnum,
          requested, inbox, doing, findVars>>

Home == layout.home       \* the thread an object lives in
Named == layout.named     \* named sessions: others find them until their destructor ran
MaxFinds == layout.finds  \* bound: times the endpoint of the root is found

\* A named session is found by objects of its own thread: with two I/O threads it
\* could be found, and sent to, by one while it is being deleted by the other.
OwnAssumption ==
  /\ Root \in Object /\ IsFiniteSet(Object) /\ None \notin Object /\ Layouts # {}
  /\ Layouts \subseteq [home : [Object -> Thread], named : SUBSET (Object \ {Root}), finds : Nat]
  /\ \A l \in Layouts : l.named = {} \/ \A o, p \in Object \ {Root} : l.home[o] = l.home[p]

Nothing == <<"nothing">>
Command == {"plug", "own", "term_req", "term", "term_ack", "bind"} \X Object \X (Object \union {None})
To(cmd) == cmd[2]

TypeOK ==
  /\ layout \in Layouts /\ phase \in [Object -> {"unborn", "alive", "leaving", "gone"}]
  /\ owner \in [Object -> Object \union {None}] /\ owned \in [Object -> SUBSET Object]
  /\ {plugged, terminating} \subseteq [Object -> BOOLEAN]
  /\ {term_acks, sent_seqnum, processed_seqnum} \subseteq [Object -> Nat]
  /\ \A o \in Object : processed_seqnum[o] <= sent_seqnum[o]
  /\ requested \subseteq Object
  /\ inbox \in [Thread -> Seq(Command)]
  /\ \A t \in Thread : doing[t] = Nothing \/ doing[t][1] \in {"launching", "deleting"}
  /\ endpoint \in BOOLEAN /\ {promised, finds} \subseteq 0..MaxFinds

Init ==
  /\ layout \in Layouts /\ phase = [o \in Object |-> IF o = Root THEN "alive" ELSE "unborn"]
  /\ owner = [o \in Object |-> None] /\ owned = [o \in Object |-> {}]
  /\ plugged = [o \in Object |-> o = Root]
  /\ terminating = [o \in Object |-> FALSE] /\ term_acks = [o \in Object |-> 0]
  /\ sent_seqnum = [o \in Object |-> 0] /\ processed_seqnum = [o \in Object |-> 0]
  /\ requested = {}
  /\ inbox = [t \in Thread |-> <<>>]
  /\ doing = [t \in Thread |-> Nothing]
  /\ endpoint = TRUE /\ promised = 0 /\ finds = 0

\* What is posted to each thread: a command goes to that of its object.
Post(cmd) == [t \in Thread |-> IF t = Home[To(cmd)] THEN <<cmd>> ELSE <<>>]
NoPost == [t \in Thread |-> <<>>]
Deliver(box, posts) == [t \in Thread |-> box[t] \o posts[t]]
Send(cmd) == inbox' = Deliver(inbox, Post(cmd))

Bump(counter, o) == [counter EXCEPT ![o] = @ + 1]

\* The thread of o is free to run one of its handlers.
Runs(o) == phase[o] = "alive" /\ plugged[o] /\ doing[Home[o]] = Nothing

(***************************************************************************)
(* launch_child and launch_sibling: plug to the new object, own to its     *)
(* owner, each after announcing it.  Other threads run in between.         *)
(***************************************************************************)

\* Mutant of Launch: the owner is told before the object is plugged in.
LaunchOwning(o, parent, c) ==
  /\ Runs(o) /\ phase[c] = "unborn"
  /\ phase' = [phase EXCEPT ![c] = "alive"]
  /\ owner' = [owner EXCEPT ![c] = parent]
  /\ sent_seqnum' = Bump(sent_seqnum, parent)
  /\ Send(<<"own", parent, c>>)
  /\ doing' = [doing EXCEPT ![Home[o]] = <<"launching", <<"plug", c, None>>>>]
  /\ UNCHANGED <<owned, plugged, termVars, processed_seqnum, requested, findVars>>

Launch(o, parent, c) ==
  /\ Runs(o) /\ phase[c] = "unborn"
  /\ phase' = [phase EXCEPT ![c] = "alive"]
  /\ owner' = [owner EXCEPT ![c] = parent]
  /\ sent_seqnum' = Bump(sent_seqnum, c)
  /\ Send(<<"plug", c, None>>)
  /\ doing' = [doing EXCEPT ![Home[o]] = <<"launching", <<"own", parent, c>>>>]
  /\ UNCHANGED <<owned, plugged, termVars, processed_seqnum, requested, findVars>>

\* A socket launches nothing any more once it is closed.  Named sessions come
\* from the inits of the connections a listener accepts.
LaunchChild(o, c) == c \notin Named /\ (o = Root => ~terminating[o]) /\ Launch(o, o, c)
LaunchSibling(o, c) ==
  o # Root /\ (c \in Named => owner[o] # Root) /\ ~terminating[o] /\ Launch(o, owner[o], c)

LaunchRest(t) ==
  /\ doing[t][1] = "launching"
  /\ sent_seqnum' = Bump(sent_seqnum, To(doing[t][2]))
  /\ Send(doing[t][2])
  /\ doing' = [doing EXCEPT ![t] = Nothing]
  /\ UNCHANGED <<phase, treeVars, plugged, termVars, processed_seqnum, requested, findVars>>

(***************************************************************************)
(* terminate.                                                              *)
(***************************************************************************)
\* The objects that belong to a session or listener ask to be terminated, when
\* their work is done; they do so once.
Terminate(o) ==
  /\ o # Root /\ owner[o] # Root /\ Runs(o) /\ o \notin requested
  /\ requested' = requested \union {o}
  /\ IF terminating[o] THEN UNCHANGED inbox ELSE Send(<<"term_req", owner[o], o>>)
  /\ UNCHANGED <<phase, treeVars, plugged, termVars, sent_seqnum, processed_seqnum, doing, findVars>>

\* check_term_acks: with nothing left to wait for, the object acknowledges its
\* termination and is on its way to be deleted.  posts is what the handler sent,
\* and box the mailboxes without the command it handled.
Complete(o) ==
  terminating'[o] /\ processed_seqnum'[o] = sent_seqnum'[o] /\ term_acks'[o] = 0

CheckTermAcks(o, box, posts) ==
  LET sent == Deliver(box, posts)
  IN /\ phase' = IF Complete(o) THEN [phase EXCEPT ![o] = "leaving"] ELSE phase
     /\ doing' = IF Complete(o) THEN [doing EXCEPT ![Home[o]] = <<"deleting", o>>] ELSE doing
     /\ inbox' = IF Complete(o) /\ owner[o] # None THEN Deliver(sent, Post(<<"term_ack", owner[o], None>>)) ELSE sent

\* The destructor, with which a named session's name disappears.
Delete(t) ==
  /\ doing[t][1] = "deleting"
  /\ phase' = [phase EXCEPT ![doing[t][2]] = "gone"]
  /\ doing' = [doing EXCEPT ![t] = Nothing]
  /\ UNCHANGED <<treeVars, plugged, termVars, sent_seqnum, processed_seqnum, requested, inbox, findVars>>

TermTo(os) == [t \in Thread |-> SetToSeq({<<"term", c, None>> : c \in {p \in os : Home[p] = t}})]

\* own_t::process_term, and before it what a socket does: no other socket
\* finds its endpoint any more.
TermOwned(o, box) ==
  /\ term_acks' = [term_acks EXCEPT ![o] = @ + Cardinality(owned[o])]
  /\ owned' = [owned EXCEPT ![o] = {}]
  /\ terminating' = [terminating EXCEPT ![o] = TRUE]
  /\ endpoint' = (endpoint /\ o # Root)
  /\ UNCHANGED <<layout, owner, plugged, sent_seqnum, processed_seqnum, requested, promised, finds>>
  /\ CheckTermAcks(o, box, TermTo(owned[o]))

\* The socket is closed: it has no owner, and terminates itself.
Close == Runs(Root) /\ ~terminating[Root] /\ TermOwned(Root, inbox)

(***************************************************************************)
(* A thread processes the commands in its mailbox.                         *)
(***************************************************************************)
Processes(t, type) == doing[t] = Nothing /\ inbox[t] # <<>> /\ Head(inbox[t])[1] = type
Rest(t) == [inbox EXCEPT ![t] = Tail(@)]

ProcessPlug(t) ==
  /\ Processes(t, "plug")
  /\ LET o == To(Head(inbox[t]))
     IN /\ plugged' = [plugged EXCEPT ![o] = TRUE]
        /\ processed_seqnum' = Bump(processed_seqnum, o)
        /\ UNCHANGED <<treeVars, termVars, sent_seqnum, requested, findVars>>
        /\ CheckTermAcks(o, Rest(t), NoPost)

\* Mutant of ProcessOwn: a late child is kept for a termination that is over.
ProcessOwnLate(t) ==
  /\ Processes(t, "own")
  /\ LET o == To(Head(inbox[t])) c == Head(inbox[t])[3]
     IN /\ processed_seqnum' = Bump(processed_seqnum, o)
        /\ owned' = [owned EXCEPT ![o] = @ \union {c}]
        /\ UNCHANGED <<owner, plugged, termVars, sent_seqnum, requested, findVars>>
        /\ CheckTermAcks(o, Rest(t), NoPost)

\* A child that comes when its owner is being terminated is terminated at once.
ProcessOwn(t) ==
  /\ Processes(t, "own")
  /\ LET o == To(Head(inbox[t])) c == Head(inbox[t])[3]
     IN /\ processed_seqnum' = Bump(processed_seqnum, o)
        /\ IF terminating[o]
             THEN term_acks' = Bump(term_acks, o) /\ UNCHANGED owned
             ELSE owned' = [owned EXCEPT ![o] = @ \union {c}] /\ UNCHANGED term_acks
        /\ UNCHANGED <<owner, plugged, terminating, sent_seqnum, requested, findVars>>
        /\ CheckTermAcks(o, Rest(t), IF terminating[o] THEN Post(<<"term", c, None>>) ELSE NoPost)

\* A request is ignored from an object that is unknown or being terminated.
ProcessTermReq(t) ==
  /\ Processes(t, "term_req")
  /\ LET o == To(Head(inbox[t])) c == Head(inbox[t])[3]
         known == ~terminating[o] /\ c \in owned[o]
     IN /\ owned' = [owned EXCEPT ![o] = IF known THEN @ \ {c} ELSE @]
        /\ term_acks' = IF known THEN Bump(term_acks, o) ELSE term_acks
        /\ inbox' = Deliver(Rest(t), IF known THEN Post(<<"term", c, None>>) ELSE NoPost)
  /\ UNCHANGED <<phase, doing, owner, plugged, terminating, sent_seqnum, processed_seqnum,
                 requested, findVars>>

ProcessTerm(t) == Processes(t, "term") /\ TermOwned(To(Head(inbox[t])), Rest(t))

ProcessTermAck(t) ==
  /\ Processes(t, "term_ack")
  /\ LET o == To(Head(inbox[t]))
     IN /\ term_acks' = [term_acks EXCEPT ![o] = @ - 1]
        /\ UNCHANGED <<treeVars, plugged, terminating, sent_seqnum, processed_seqnum, requested, findVars>>
        /\ CheckTermAcks(o, Rest(t), NoPost)

\* bind to a socket, attach to a session.
ProcessBind(t) ==
  /\ Processes(t, "bind")
  /\ LET o == To(Head(inbox[t]))
     IN /\ processed_seqnum' = Bump(processed_seqnum, o)
        /\ UNCHANGED <<treeVars, plugged, termVars, sent_seqnum, requested, findVars>>
        /\ CheckTermAcks(o, Rest(t), NoPost)

(***************************************************************************)
(* Commands from objects outside the tree.                                 *)
(***************************************************************************)

\* Another socket finds the endpoint, which announces its bind, and sends it.
FindEndpoint ==
  /\ endpoint /\ finds < MaxFinds
  /\ sent_seqnum' = Bump(sent_seqnum, Root)
  /\ finds' = finds + 1 /\ promised' = promised + 1
  /\ UNCHANGED <<phase, treeVars, plugged, termVars, processed_seqnum, requested, inbox, doing, layout, endpoint>>

Bind ==
  /\ promised > 0
  /\ promised' = promised - 1
  /\ Send(<<"bind", Root, None>>)
  /\ UNCHANGED <<phase, treeVars, plugged, termVars, sent_seqnum, processed_seqnum, requested, doing,
                 layout, endpoint, finds>>

\* A named session is found by the init of a new connection of the same peer,
\* under the same owner, which sends it the engine and terminates.
Registered == {o \in Named : phase[o] \in {"alive", "leaving"}}

FindSession(i, o) ==
  /\ Runs(i) /\ i \notin requested \union Named
  /\ owner[i] = owner[o] /\ o \in Registered
  /\ sent_seqnum' = Bump(sent_seqnum, o)
  /\ requested' = requested \union {i}
  /\ inbox' = Deliver(Deliver(inbox, Post(<<"bind", o, None>>)),
                       IF terminating[i] THEN NoPost ELSE Post(<<"term_req", owner[i], i>>))
  /\ UNCHANGED <<phase, treeVars, plugged, termVars, processed_seqnum, doing, findVars>>

Processing(t) ==
  \/ ProcessPlug(t) \/ ProcessOwn(t) \/ ProcessTermReq(t) \/ ProcessTerm(t)
  \/ ProcessTermAck(t) \/ ProcessBind(t)

Next ==
  \/ \E o, c \in Object : LaunchChild(o, c) \/ LaunchSibling(o, c) \/ FindSession(o, c)
  \/ \E o \in Object : Terminate(o)
  \/ Close \/ FindEndpoint \/ Bind
  \/ \E t \in Thread : LaunchRest(t) \/ Delete(t) \/ Processing(t)

Spec == Init /\ [][Next]_vars

\* Threads finish their handlers and process the commands they are sent.
Finishing(t) == LaunchRest(t) \/ Delete(t)
Fairness == (\A t \in Thread : WF_vars(Finishing(t)) /\ WF_vars(Processing(t))) /\ WF_vars(Bind)

FairSpec == Spec /\ Fairness

(***************************************************************************)
(* Properties.                                                             *)
(***************************************************************************)
Underway == {cmd \in Command : \E t \in Thread : \E j \in DOMAIN inbox[t] : inbox[t][j] = cmd}

\* own.hpp:53, "it should not shut down before the command is delivered": no
\* command is under way, or announced, to an object that is being deleted.
NoCommandToGone ==
  /\ \A cmd \in Underway : phase[To(cmd)] = "alive"
  /\ promised > 0 => phase[Root] = "alive"
  /\ \A t \in Thread : doing[t][1] = "launching" => phase[To(doing[t][2])] = "alive"

\* own.cpp:85, an object is plugged in "before its owner has a chance to
\* terminate it", or anything else reaches it.
PluggedFirst ==
  \A t \in Thread : inbox[t] # <<>> /\ Head(inbox[t])[1] # "plug" => plugged[To(Head(inbox[t]))]

\* What own.cpp asserts: no object is terminated twice, none is acknowledged
\* more often than it waits for, and none is deleted that still owns another.
AssertionsHold ==
  /\ \A t \in Thread : inbox[t] # <<>> =>
       LET cmd == Head(inbox[t])
       IN /\ cmd[1] = "term" => ~terminating[To(cmd)]
          /\ cmd[1] = "term_ack" => term_acks[To(cmd)] > 0
  /\ \A o \in Object : phase[o] = "leaving" => owned[o] = {}

\* An object acknowledges only when everything below it has.
ChildrenFirst ==
  \A o, c \in Object :
    phase[o] \in {"leaving", "gone"} /\ owner[c] = o => phase[c] \in {"leaving", "gone"}

\* Once the socket is closed the whole tree goes away.
AllDestroyed ==
  <>[](terminating[Root] => \A o \in Object : phase[o] \in {"unborn", "gone"})

\* There is one I/O thread.
OneThread == \A o, p \in Object \ {Root} : Home[o] = Home[p]

\* own.hpp:74, terminate asks the owner "to terminate this object.  It may
\* take a while", but it happens.
RequestHonoured == <>[](OneThread => \A o \in requested : phase[o] \in {"leaving", "gone"})

\* socket_base.cpp:131, "Check whether there are no session leaks": with one I/O
\* thread the names of all sessions are unregistered when their socket is deleted.
NoSessionLeaks == OneThread /\ phase[Root] = "gone" => Registered = {}

OwnSound == TypeOK /\ NoCommandToGone /\ PluggedFirst /\ AssertionsHold /\ ChildrenFirst /\ NoSessionLeaks
=============================================================================
