------------------------------- MODULE Poller -------------------------------
(***************************************************************************)
(* The event loop of an I/O thread in its five builds: kqueue_t, epoll_t,  *)
(* poll_t, select_t and devpoll_t.  While a batch of events is delivered,  *)
(* the handlers add and remove descriptors; a descriptor that was closed   *)
(* comes back as the next one that is opened.  An event must not reach     *)
(* anybody but the object it was meant for.                                *)
(***************************************************************************)
EXTENDS Integers, Sequences, FiniteSets, SequencesExt, FiniteSetsExt

CONSTANTS
  Kind,           \* the builds: of "kqueue", "epoll", "poll", "select", "devpoll"
  Reactor,        \* i_poll_events objects; each is added once
  MaxFd,          \* descriptors are 1..MaxFd
  MaxCalls,       \* bound: calls of the poller that the handlers make
  None

Fd == 1..MaxFd
retired_fd == 0 - 1
PollerAssumption ==
  /\ Kind \subseteq {"kqueue", "epoll", "poll", "select", "devpoll"} /\ Kind # {}
  /\ {MaxFd, MaxCalls} \subseteq Nat /\ None \notin Reactor /\ IsFiniteSet(Reactor)

VARIABLES
  kind,
  entry,          \* poll_entry_t of a reactor: its fd and the events it asked for
  table,          \* fd_table of poll_t and devpoll_t
  slots,          \* pollset of poll_t, fds of select_t
  source, ready,  \* the sets of select_t
  pending,        \* pending_list of devpoll_t
  retired,        \* what rm_fd left for later: the entries, or that there are slots
  load, stopping,
  pc, batch, i,   \* where the loop is: each report is looked at three times
  handling,       \* the reactor whose handler runs, and the one the event was for
  calls,
  seen,           \* whose a descriptor was when the events were collected
  moved, dangling \* the table has left the loop's fd_ptr behind, and the loop has used that

tables == <<entry, table, slots, source, ready, pending, retired, load, moved>>
loopVars == <<pc, batch, i, seen>>
vars == <<kind, tables, stopping, loopVars, handling, calls, dangling>>

Direction == {"in", "out"}
Event == Direction \union {"err"}
Entry == [fd : Fd \union {0, retired_fd}, events : SUBSET Direction, freed : BOOLEAN]
FdEntry == [reactor : Reactor \union {None}, events : SUBSET Direction, index : Int, valid : BOOLEAN, accepted : BOOLEAN]
Slot == [fd : Fd \union {retired_fd}, reactor : Reactor, events : SUBSET Direction, revents : SUBSET Event]
Sets == [Event -> SUBSET Fd]

TypeOK ==
  /\ kind \in Kind /\ entry \in [Reactor -> Entry] /\ table \in [Fd -> FdEntry] /\ slots \in Seq(Slot)
  /\ source \in Sets /\ ready \in Sets /\ pending \in Seq(Fd) /\ retired \subseteq Reactor
  /\ load \in 0..MaxFd /\ stopping \in BOOLEAN /\ pc \in {"wait", "dispatch", "done"}
  /\ i \in 1..3 * (Len(batch) + Len(slots)) + 1 /\ calls \in 0..MaxCalls
  /\ handling = None \/ handling.to \in Reactor
  /\ {moved, dangling} \subseteq BOOLEAN

Init ==
  /\ kind \in Kind
  /\ entry = [r \in Reactor |-> [fd |-> 0, events |-> {}, freed |-> FALSE]]
  /\ table = [fd \in Fd |-> [reactor |-> None, events |-> {}, index |-> retired_fd, valid |-> FALSE, accepted |-> FALSE]]
  /\ slots = <<>> /\ source = [e \in Event |-> {}] /\ ready = [e \in Event |-> {}]
  /\ pending = <<>> /\ retired = {} /\ load = 0 /\ stopping = FALSE
  /\ pc = "wait" /\ batch = <<>> /\ i = 1
  /\ handling = None /\ calls = 0 /\ seen = [fd \in Fd |-> None] /\ moved = FALSE /\ dangling = FALSE

Registered == {r \in Reactor : entry[r].fd \in Fd}
Owner(fd) == IF \E r \in Registered : entry[r].fd = fd THEN CHOOSE r \in Registered : entry[r].fd = fd ELSE None
FreeFd == CHOOSE fd \in Fd : Owner(fd) = None /\ \A g \in 1..fd - 1 : Owner(g) # None
\* The slot of a descriptor, as poll_t finds it and as select_t looks for it.
SlotOf(fd) == IF kind = "poll" THEN table[fd].index ELSE CHOOSE k \in 1..Len(slots) : slots[k].fd = fd

(***************************************************************************)
(* add_fd, rm_fd and the four that say what to poll for.                   *)
(***************************************************************************)
\* Every object says at once, when it adds its descriptor, what to poll for.
Asked == {{"in"}, {"in", "out"}}
kqueue_add_fd(r, fd, asked) == UNCHANGED <<table, slots, source, ready, pending, moved>>
epoll_add_fd(r, fd, asked) == UNCHANGED <<table, slots, source, ready, pending, moved>>
poll_add_fd(r, fd, asked) ==
  /\ slots' = Append(slots, [fd |-> fd, reactor |-> r, events |-> asked, revents |-> {}])
  /\ table' = [table EXCEPT ![fd].index = Len(slots) + 1, ![fd].reactor = r]
  /\ UNCHANGED <<source, ready, pending, moved>>
select_add_fd(r, fd, asked) ==
  /\ slots' = Append(slots, [fd |-> fd, reactor |-> r, events |-> {}, revents |-> {}])
  /\ source' = [e \in Event |-> IF e \in asked \union {"err"} THEN source[e] \union {fd} ELSE source[e]]
  /\ UNCHANGED <<table, ready, pending, moved>>
\* The table, empty at first, grows when it is too small for the descriptor, and may
\* move then.
devpoll_add_fd(r, fd, asked) ==
  /\ table' = [table EXCEPT ![fd] = [table[fd] EXCEPT !.events = asked, !.reactor = r, !.valid = TRUE, !.accepted = FALSE]]
  /\ pending' = Append(pending, fd)
  /\ moved' \in {moved, moved \/ (handling # None /\ \A g \in fd..MaxFd : table[g].reactor = None)}
  /\ UNCHANGED <<slots, source, ready>>

add_fd(r, asked) ==
  /\ entry[r].fd = 0 /\ Cardinality(Registered) < MaxFd
  /\ LET fd == FreeFd
     IN /\ entry' = [entry EXCEPT ![r].fd = fd, ![r].events = asked]
        /\ CASE kind = "kqueue" -> kqueue_add_fd(r, fd, asked) [] kind = "epoll" -> epoll_add_fd(r, fd, asked)
             [] kind = "poll" -> poll_add_fd(r, fd, asked) [] kind = "select" -> select_add_fd(r, fd, asked)
             [] kind = "devpoll" -> devpoll_add_fd(r, fd, asked)
  /\ load' = load + 1 /\ UNCHANGED retired

kqueue_rm_fd(r, fd) == retired' = retired \union {r} /\ UNCHANGED <<table, slots, source, ready, pending>>
epoll_rm_fd(r, fd) == retired' = retired \union {r} /\ UNCHANGED <<table, slots, source, ready, pending>>
poll_rm_fd(r, fd) ==
  /\ slots' = [slots EXCEPT ![table[fd].index].fd = retired_fd]
  /\ table' = [table EXCEPT ![fd].index = retired_fd]
  /\ retired' = {r} /\ UNCHANGED <<source, ready, pending>>

select_rm_fd(r, fd) ==
  /\ slots' = [slots EXCEPT ![SlotOf(fd)].fd = retired_fd]
  /\ source' = [e \in Event |-> source[e] \ {fd}] /\ ready' = [e \in Event |-> ready[e] \ {fd}]
  /\ retired' = {r} /\ UNCHANGED <<table, pending>>
devpoll_rm_fd(r, fd) ==
  /\ table' = [table EXCEPT ![fd].valid = FALSE]
  /\ UNCHANGED <<slots, source, ready, pending, retired>>

\* The descriptor is closed after it was removed: its number is free again.
rm_fd(r) ==
  /\ r \in Registered
  /\ LET fd == entry[r].fd
     IN CASE kind = "kqueue" -> kqueue_rm_fd(r, fd) [] kind = "epoll" -> epoll_rm_fd(r, fd)
          [] kind = "poll" -> poll_rm_fd(r, fd) [] kind = "select" -> select_rm_fd(r, fd)
          [] kind = "devpoll" -> devpoll_rm_fd(r, fd)
  /\ entry' = [entry EXCEPT ![r].fd = retired_fd]
  /\ load' = load - 1 /\ UNCHANGED moved

\* set_pollin, reset_pollin, set_pollout and reset_pollout.
Changed(events, added, removed) == (events \union added) \ removed
Adjust(r, added, removed) ==
  /\ r \in Registered
  /\ entry' = [entry EXCEPT ![r].events = Changed(@, added, removed)]
  /\ LET fd == entry[r].fd
     IN /\ slots' = IF kind = "poll" THEN [slots EXCEPT ![table[fd].index].events = Changed(@, added, removed)] ELSE slots
        /\ source' = IF kind # "select" THEN source
                     ELSE [e \in Event |-> IF e = "err" THEN source[e]
                             ELSE IF e \in Changed({d \in Direction : fd \in source[d]}, added, removed)
                               THEN source[e] \union {fd} ELSE source[e] \ {fd}]
        /\ table' = IF kind = "devpoll" THEN [table EXCEPT ![fd].events = Changed(@, added, removed)] ELSE table
  /\ UNCHANGED <<ready, pending, retired, load, moved>>
set_pollin(r) == Adjust(r, {"in"}, {})
reset_pollin(r) == Adjust(r, {}, {"in"})
set_pollout(r) == Adjust(r, {"out"}, {})
reset_pollout(r) == Adjust(r, {}, {"out"})

\* Handlers call the poller, and those of timers do so before the loop waits.
Running == handling # None \/ pc = "wait"
Call ==
  /\ Running /\ calls < MaxCalls /\ calls' = calls + 1
  /\ \E r \in Reactor :
       \/ \E asked \in Asked : add_fd(r, asked)
       \/ rm_fd(r) \/ set_pollin(r) \/ reset_pollin(r) \/ set_pollout(r) \/ reset_pollout(r)
  /\ UNCHANGED <<kind, stopping, loopVars, handling, dangling>>

\* io_thread_t::process_stop, in a handler.
stop ==
  /\ handling # None /\ ~stopping /\ stopping' = TRUE
  /\ UNCHANGED <<kind, tables, loopVars, handling, calls, dangling>>

(***************************************************************************)
(* The loop.                                                               *)
(***************************************************************************)
\* devpoll_t accepts what was added in the round before, ahead of the timers.
Accept ==
  /\ table' = IF kind = "devpoll" THEN [fd \in Fd |-> IF fd \in Range(pending) THEN [table[fd] EXCEPT !.accepted = TRUE]
                                                     ELSE table[fd]] ELSE table
  /\ pending' = <<>>

\* What the kernel is asked to report of a reactor.
Wanted(r) ==
  LET fd == entry[r].fd
  IN CASE kind \in {"kqueue", "epoll"} -> entry[r].events
       [] kind = "poll" -> slots[table[fd].index].events
       [] kind = "select" -> {d \in Direction : fd \in source[d]}
       [] kind = "devpoll" -> table[fd].events

\* The reports, by entry or by descriptor; kqueue reports each filter by itself.
Reported(of) ==
  LET some == {r \in Registered : of[r] # {}}
  IN CASE kind = "kqueue" -> UNION {{[key |-> r, revents |-> {d} \union (of[r] \cap {"err"})] : d \in of[r] \cap Direction} : r \in some}
       [] kind = "epoll" -> {[key |-> r, revents |-> of[r]] : r \in some}
       [] kind = "devpoll" -> {[key |-> entry[r].fd, revents |-> of[r]] : r \in some}
       [] OTHER -> {}

Wait ==
  /\ pc = "wait"
  /\ \E of \in [Registered -> SUBSET Event] :
       /\ \A r \in Registered : of[r] \subseteq Wanted(r) \union {"err"}
       /\ \E r \in Registered : of[r] # {}
       /\ \E b \in SetToSeqs(Reported(of)) : batch' = b
       /\ slots' = IF kind # "poll" THEN slots
                   ELSE [k \in 1..Len(slots) |->
                          [slots[k] EXCEPT !.revents = IF slots[k].fd = retired_fd THEN {} ELSE of[Owner(slots[k].fd)]]]
       /\ ready' = IF kind # "select" THEN ready
                   ELSE [e \in Event |-> {entry[r].fd : r \in {q \in Registered : e \in of[q]}}]
  /\ pc' = "dispatch" /\ i' = 1 /\ seen' = [fd \in Fd |-> Owner(fd)]
  /\ UNCHANGED <<kind, entry, table, source, pending, retired, load, moved, stopping, handling, calls, dangling>>

\* A signal: the loop begins again, and what was retired stays for now.
Interrupted ==
  /\ pc = "wait" /\ Accept
  /\ UNCHANGED <<kind, entry, slots, source, ready, retired, load, moved, stopping, loopVars, handling, calls, dangling>>

Count == IF kind \in {"poll", "select"} THEN Len(slots) ELSE Len(batch)
Key(k) == batch[k].key

\* Mutant of Live: events of a descriptor that was opened anew are not told apart.
LiveAnew(k) ==
  CASE kind \in {"kqueue", "epoll"} -> entry[Key(k)].fd # retired_fd
    [] kind \in {"poll", "select"} -> slots[k].fd # retired_fd
    [] kind = "devpoll" -> table[Key(k)].valid

\* The check before each of the three calls.
Live(k) ==
  CASE kind \in {"kqueue", "epoll"} -> entry[Key(k)].fd # retired_fd
    [] kind \in {"poll", "select"} -> slots[k].fd # retired_fd
    [] kind = "devpoll" -> table[Key(k)].valid /\ table[Key(k)].accepted
Happened(k, e) ==
  CASE kind = "poll" -> e \in slots[k].revents
    [] kind = "select" -> slots[k].fd \in ready[e]
    [] OTHER -> e \in batch[k].revents
Target(k) ==
  CASE kind \in {"kqueue", "epoll"} -> Key(k)
    [] kind = "poll" -> table[slots[k].fd].reactor
    [] kind = "select" -> slots[k].reactor
    [] kind = "devpoll" -> table[Key(k)].reactor
Meant(k) ==
  CASE kind \in {"kqueue", "epoll"} -> Key(k)
    [] kind \in {"poll", "select"} -> seen[slots[k].fd]
    [] kind = "devpoll" -> seen[Key(k)]

\* Errors first, by in_event; then out_event; then in_event.
Stages == <<"err", "out", "in">>
Report(p) == (p - 1) \div 3 + 1
Due == {p \in i..3 * Count : Live(Report(p)) /\ Happened(Report(p), Stages[((p - 1) % 3) + 1])}

Dispatch ==
  /\ pc = "dispatch" /\ handling = None /\ Due # {}
  /\ LET p == Min(Due)
     IN /\ i' = p + 1
        /\ handling' = [to |-> Target(Report(p)), meant |-> Meant(Report(p)), live |-> Target(Report(p)) \in Registered]
  /\ UNCHANGED <<kind, tables, stopping, pc, batch, calls, seen, dangling>>

\* devpoll_t looks at the entry again, by the pointer it took for this report.
Return ==
  /\ handling # None /\ handling' = None
  /\ dangling' = (moved /\ Report(i) = Report(i - 1)) /\ moved' = FALSE
  /\ UNCHANGED <<kind, entry, table, slots, source, ready, pending, retired, load, stopping, loopVars, calls>>

\* poll_t and select_t take the retired slots out; the others keep their order.
Staying == {k \in 1..Len(slots) : slots[k].fd # retired_fd}
Rank(k) == Cardinality({j \in Staying : j <= k})
Kept == [n \in 1..Cardinality(Staying) |-> slots[CHOOSE k \in Staying : Rank(k) = n]]
Cleaned ==
  LET kept == Kept
  IN /\ slots' = kept
     /\ table' = IF kind # "poll" THEN table
                 ELSE [fd \in Fd |-> IF \E k \in 1..Len(kept) : kept[k].fd = fd
                                     THEN [table[fd] EXCEPT !.index = CHOOSE k \in 1..Len(kept) : kept[k].fd = fd]
                                     ELSE table[fd]]

CleanUp ==
  /\ pc = "dispatch" /\ handling = None /\ Due = {}
  /\ IF kind \in {"poll", "select"} /\ retired # {} THEN Cleaned /\ UNCHANGED pending
     ELSE slots' = slots /\ IF stopping THEN UNCHANGED <<table, pending>> ELSE Accept
  /\ entry' = IF kind \in {"kqueue", "epoll"} THEN [r \in Reactor |-> [entry[r] EXCEPT !.freed = @ \/ r \in retired]]
              ELSE entry
  /\ retired' = {} /\ batch' = <<>> /\ i' = 1
  /\ pc' = IF stopping THEN "done" ELSE "wait"
  /\ seen' = [fd \in Fd |-> None] /\ ready' = [e \in Event |-> {}]
  /\ UNCHANGED <<kind, source, load, moved, stopping, handling, calls, dangling>>

\* What follows the use of memory that was freed is not modelled.
Next == ~dangling /\ (Call \/ stop \/ Wait \/ Interrupted \/ Dispatch \/ Return \/ CleanUp)

Spec == Init /\ [][Next]_vars

(***************************************************************************)
(* Properties.                                                             *)
(***************************************************************************)
\* A handler is called for an event only on the object that the event was for,
\* and only while that object has its descriptor registered.
ReachesItsOwn == handling # None => handling.to = handling.meant /\ handling.live

\* An entry is freed only when no event that refers to it can be delivered any more.
EntriesLive == pc = "dispatch" => \A k \in Report(i)..Len(batch) : kind \in {"kqueue", "epoll"} => ~entry[Key(k)].freed

\* The kernel is asked for what the object asked for, wherever its slot has moved.
PolledAsAsked == \A r \in Registered : Wanted(r) = entry[r].events

\* The load by which threads are chosen counts the descriptors.
LoadRight == load = Cardinality(Registered)

\* Only devpoll_t may use memory that was freed, and only when the highest descriptor
\* there has been is new: a handler has added it.
DanglesByGrowth ==
  dangling => kind = "devpoll" /\ \E fd \in Range(pending) : \A g \in fd + 1..MaxFd : table[g].reactor = None

PollerSound == TypeOK /\ ReachesItsOwn /\ EntriesLive /\ PolledAsAsked /\ LoadRight /\ DanglesByGrowth
=============================================================================
