------------------------------- MODULE Balance ------------------------------
(***************************************************************************)
(* lb_t, fq_t and dist_t: how a socket sends its messages to one pipe      *)
(* after the other, takes them from one after the other, or sends each to  *)
(* all.  Each keeps its pipes in an array_t whose first part are those     *)
(* that are in use, which its indices must follow as pipes come and go.    *)
(* A socket has at most one of each; "kind" says which this one is.        *)
(* Indices begin with 1 here.                                              *)
(***************************************************************************)
EXTENDS Integers, Sequences, FiniteSets

CONSTANTS
  Pipes,
  MaxParts,   \* bound: parts of a message
  MaxSkipped  \* bound: messages that are counted while a pipe waits for its turn

BalanceAssumption ==
  /\ IsFiniteSet(Pipes) /\ MaxParts \in Nat \ {0} /\ MaxSkipped \in Nat

VARIABLES
  kind,
  pipes, active, current, eligible, more, dropping, terminating,
  acks,       \* what the socket has to wait for
  end,        \* the ends of the pipes
  got,        \* of the message that is under way, the parts that went through a pipe
  part,       \* and that the application has sent or received
  doing,      \* the call that is going round the pipes, and the flag of its message
  skipped,    \* messages that others had while this pipe was ready
  spoilt,     \* has a pipe that went spoilt the order of the array?
  failed      \* an assertion, or an index that is not one of the array

arrayVars == <<pipes, active, current, eligible>>
modeVars == <<kind, more, dropping, terminating, acks>>
trafficVars == <<got, part, skipped>>
outcomeVars == <<spoilt, failed>>
vars == <<arrayVars, modeVars, trafficVars, end, doing, outcomeVars>>

\* An end is ready for a message; it is spent when the pipe is full, or empty,
\* and the end has not noticed; then it is asleep.  A reader is closed when it
\* has read the delimiter.
End == {"none", "ready", "spent", "asleep", "closed", "gone"}

Idle == <<"no", FALSE>>

TypeOK ==
  /\ kind \in {"lb", "fq", "dist"}
  /\ pipes \in Seq(Pipes) /\ {active, eligible, acks} \subseteq 0..Len(pipes)
  /\ current \in 1..Len(pipes) + 1
  /\ {more, dropping, terminating, spoilt, failed} \subseteq BOOLEAN
  /\ end \in [Pipes -> End] /\ got \in [Pipes -> Nat] /\ part \in 0..MaxParts
  /\ doing \in {"no", "send", "recv", "has"} \X BOOLEAN
  /\ skipped \in [Pipes -> 0..MaxSkipped]

Init ==
  /\ kind \in {"lb", "fq", "dist"}
  /\ pipes = <<>> /\ active = 0 /\ current = 1 /\ eligible = 0
  /\ more = FALSE /\ dropping = FALSE /\ terminating = FALSE /\ acks = 0
  /\ end = [p \in Pipes |-> "none"]
  /\ got = [p \in Pipes |-> 0] /\ part = 0
  /\ doing = Idle /\ skipped = [p \in Pipes |-> 0] /\ spoilt = FALSE /\ failed = FALSE

(***************************************************************************)
(* array_t.                                                                *)
(***************************************************************************)
Swap(s, i, j) == [s EXCEPT ![i] = s[j], ![j] = s[i]]
Erase(s, i) == SubSeq([s EXCEPT ![i] = s[Len(s)]], 1, Len(s) - 1)
Index(p) == CHOOSE i \in 1..Len(pipes) : pipes[i] = p
FirstOf(s, n) == {s[i] : i \in 1..n}
Attached == FirstOf(pipes, Len(pipes))

(***************************************************************************)
(* A pipe comes.  If the socket is terminating it is told to go at once.   *)
(***************************************************************************)
Comes(p) ==
  /\ doing = Idle /\ end[p] = "none"
  /\ acks' = IF terminating THEN acks + 1 ELSE acks
  /\ \E e \in {"ready", "spent"} : end' = [end EXCEPT ![p] = IF terminating THEN "closed" ELSE e]
  /\ UNCHANGED <<kind, more, dropping, terminating, current, trafficVars, doing, outcomeVars>>

\* The last place is swapped with place n.
PushedTo(n, p) == Swap(Append(pipes, p), n, Len(pipes) + 1)

LbAttach(p) ==
  /\ kind = "lb" /\ Comes(p)
  /\ pipes' = PushedTo(active + 1, p) /\ active' = active + 1 /\ UNCHANGED eligible
FqAttach(p) ==
  /\ kind = "fq" /\ Comes(p)
  /\ pipes' = PushedTo(active + 1, p) /\ active' = active + 1 /\ UNCHANGED eligible
DistAttach(p) ==
  /\ kind = "dist" /\ Comes(p)
  /\ IF more THEN pipes' = PushedTo(eligible + 1, p) /\ UNCHANGED active
             ELSE pipes' = PushedTo(active + 1, p) /\ active' = active + 1
  /\ eligible' = eligible + 1

(***************************************************************************)
(* A pipe goes: its other end has terminated it, or all are terminated.    *)
(***************************************************************************)
Terminate ==
  /\ doing = Idle /\ ~terminating /\ terminating' = TRUE
  /\ acks' = acks + Len(pipes)
  /\ end' = [p \in Pipes |-> IF p \in Attached THEN "closed" ELSE end[p]]
  /\ UNCHANGED <<arrayVars, kind, more, dropping, trafficVars, doing, outcomeVars>>

\* erase puts the last pipe into the place of the one that goes: one that is not in
\* use among those that are, or the one whose message is under way where it is not
\* looked for.
Displaces(p) ==
  /\ ~terminating
  /\ \/ Index(p) < active /\ active < Len(pipes)
     \/ kind = "dist" /\ Index(p) < eligible /\ eligible < Len(pipes)
     \/ kind # "dist" /\ more /\ ~dropping /\ current = active /\ Index(p) \in 2..active - 1

Goes(p) ==
  /\ doing = Idle /\ p \in Attached
  /\ pipes' = Erase(pipes, Index(p))
  /\ active' = IF Index(p) <= active THEN active - 1 ELSE active
  /\ acks' = IF terminating THEN acks - 1 ELSE acks
  /\ end' = [end EXCEPT ![p] = "gone"]
  /\ got' = [got EXCEPT ![p] = 0] /\ skipped' = [q \in Pipes |-> 0]
  /\ spoilt' = (spoilt \/ Displaces(p))
  /\ UNCHANGED <<kind, more, terminating, part, doing>>

CurrentWithout(p) == current' = IF Index(p) <= active /\ current = active THEN 1 ELSE current


LbTerminated(p) ==
  /\ kind = "lb" /\ Goes(p) /\ CurrentWithout(p)
  /\ dropping' = (dropping \/ (Index(p) = current /\ more))
  /\ UNCHANGED <<eligible, failed>>
\* A reader goes after it has read the delimiter, and not in the middle of a message.
FqTerminated(p) ==
  /\ kind = "fq" /\ end[p] = "closed" /\ Goes(p) /\ CurrentWithout(p)
  /\ failed' = (~terminating /\ more /\ pipes[current] = p)
  /\ UNCHANGED <<eligible, dropping>>
DistTerminated(p) ==
  /\ kind = "dist" /\ Goes(p)
  /\ eligible' = IF Index(p) <= eligible THEN eligible - 1 ELSE eligible
  /\ UNCHANGED <<current, dropping, failed>>

(***************************************************************************)
(* The other end has read, or written.  One that sleeps hears of it.       *)
(***************************************************************************)
PeerActs(p) ==
  /\ doing = Idle /\ end[p] = "spent" /\ end' = [end EXCEPT ![p] = "ready"]
  /\ UNCHANGED <<arrayVars, modeVars, trafficVars, doing, outcomeVars>>

Wakes(p) ==
  /\ doing = Idle /\ end[p] = "asleep" /\ end' = [end EXCEPT ![p] = "ready"]
  /\ UNCHANGED <<modeVars, trafficVars, current, doing, spoilt>>
\* The pipe changes places with the first of those that are not in use, if there is
\* one in the array.
NoPlaceAfter(n) == n = Len(pipes) /\ failed' = TRUE /\ UNCHANGED arrayVars
PlaceAfter(n) == n < Len(pipes) /\ UNCHANGED failed
Activates(p) ==
  \/ NoPlaceAfter(active)
  \/ /\ PlaceAfter(active)
     /\ pipes' = Swap(pipes, Index(p), active + 1) /\ active' = active + 1 /\ UNCHANGED eligible
LbActivated(p) == kind = "lb" /\ Wakes(p) /\ Activates(p)
FqActivated(p) == kind = "fq" /\ Wakes(p) /\ Activates(p)
DistActivates(p) ==
  /\ PlaceAfter(eligible)
  /\ LET passed == Swap(pipes, Index(p), eligible + 1)
     IN pipes' = IF more THEN passed ELSE Swap(passed, eligible + 1, active + 1)
  /\ active' = IF more THEN active ELSE active + 1
  /\ eligible' = eligible + 1
DistActivated(p) == kind = "dist" /\ Wakes(p) /\ (NoPlaceAfter(eligible) \/ DistActivates(p))

(***************************************************************************)
(* Sending and receiving one part after the other.  A message that was     *)
(* begun is finished: its parts count as one against the high watermark,   *)
(* and are flushed together.                                               *)
(***************************************************************************)
Usable(p) == end[p] = "ready" \/ got[p] > 0
MayFollow(flag) == flag => part + 1 < MaxParts
NextPart(flag) == IF flag THEN part + 1 ELSE 0

\* What becomes of an end after a part, and of those that had to wait for it.
\* The next thing a reader finds may be the delimiter.
Used(p, flag) ==
  \E e \in {"ready", "spent"} : end' = [end EXCEPT ![p] = IF flag THEN @ ELSE e]
Turns(p, flag) ==
  skipped' = [q \in Pipes |-> IF q = p \/ end[q] # "ready" THEN 0
                              ELSE IF flag \/ skipped[q] = MaxSkipped THEN skipped[q] ELSE skipped[q] + 1]

LbSend(flag) ==
  /\ kind = "lb" /\ doing = Idle /\ ~terminating /\ MayFollow(flag)
  /\ IF dropping
       THEN /\ more' = flag /\ dropping' = flag /\ part' = NextPart(flag)
            /\ UNCHANGED doing
       ELSE doing' = <<"send", flag>> /\ UNCHANGED <<more, dropping, part>>
  /\ UNCHANGED <<arrayVars, kind, terminating, acks, end, got, skipped, outcomeVars>>

\* One round of the loop of lb_t::send; without a pipe it returns EAGAIN.
LbWrite ==
  /\ kind = "lb" /\ doing[1] = "send" /\ active > 0 /\ Usable(pipes[current])
  /\ LET p == pipes[current]
         flag == doing[2]
     IN /\ more' = flag /\ part' = NextPart(flag)
        /\ got' = [got EXCEPT ![p] = IF flag THEN @ + 1 ELSE 0]
        /\ Used(p, flag) /\ Turns(p, flag)
        /\ current' = IF flag THEN current ELSE (current % active) + 1
  /\ doing' = Idle
  /\ UNCHANGED <<pipes, active, eligible, kind, dropping, terminating, acks, outcomeVars>>

Sleeps(p) == end' = [end EXCEPT ![p] = IF @ = "spent" THEN "asleep" ELSE @]

\* Only the first part of a message may be refused.
LbWriteFails ==
  /\ kind = "lb" /\ doing[1] = "send"
  /\ IF active = 0 THEN doing' = Idle /\ UNCHANGED <<arrayVars, end, failed>>
     ELSE /\ ~Usable(pipes[current]) /\ Sleeps(pipes[current]) /\ failed' = more
          /\ active' = active - 1
          /\ IF current < active THEN pipes' = Swap(pipes, current, active) /\ UNCHANGED current
                                 ELSE current' = 1 /\ UNCHANGED pipes
          /\ UNCHANGED <<doing, eligible>>
  /\ UNCHANGED <<modeVars, trafficVars, spoilt>>

FqRecv ==
  /\ kind = "fq" /\ doing = Idle /\ ~terminating /\ doing' = <<"recv", FALSE>>
  /\ UNCHANGED <<arrayVars, modeVars, trafficVars, end, outcomeVars>>

FqRead(flag) ==
  /\ kind = "fq" /\ doing[1] = "recv" /\ active > 0 /\ Usable(pipes[current]) /\ MayFollow(flag)
  /\ LET p == pipes[current]
     IN /\ more' = flag /\ part' = NextPart(flag)
        /\ got' = [got EXCEPT ![p] = IF flag THEN @ + 1 ELSE 0]
        /\ Used(p, flag) /\ Turns(p, flag)
        /\ current' = IF flag THEN current ELSE IF current >= active THEN 1 ELSE current + 1
  /\ doing' = Idle
  /\ UNCHANGED <<pipes, active, eligible, kind, dropping, terminating, acks, outcomeVars>>

Passed ==
  /\ active' = active - 1
  /\ pipes' = Swap(pipes, current, active)
  /\ current' = IF current = active THEN 1 ELSE current
  /\ UNCHANGED eligible

\* The end finds nothing and sleeps, or finds the delimiter, or has done so before.
FindsNothing(p) ==
  \/ end[p] # "ready" /\ Sleeps(p)
  \/ end[p] \in {"ready", "spent"} /\ end' = [end EXCEPT ![p] = "closed"]

FqReadFails ==
  /\ kind = "fq" /\ doing[1] = "recv"
  /\ IF active = 0 THEN doing' = Idle /\ UNCHANGED <<arrayVars, end, failed>>
     ELSE /\ got[pipes[current]] = 0 /\ UNCHANGED doing /\ Passed
          /\ FindsNothing(pipes[current]) /\ failed' = more
  /\ UNCHANGED <<modeVars, trafficVars, spoilt>>

\* has_out and has_in go past the ends that are of no use.
Has ==
  /\ kind # "dist" /\ doing = Idle /\ ~terminating /\ ~more /\ doing' = <<"has", FALSE>>
  /\ UNCHANGED <<arrayVars, modeVars, trafficVars, end, outcomeVars>>
HasReturns == (active > 0 => Usable(pipes[current])) /\ doing' = Idle /\ UNCHANGED <<arrayVars, end>>
HasPasses == active > 0 /\ Passed /\ UNCHANGED doing
LbHasOut ==
  /\ kind = "lb" /\ doing[1] = "has"
  /\ HasReturns \/ (HasPasses /\ ~Usable(pipes[current]) /\ Sleeps(pipes[current]))
  /\ UNCHANGED <<modeVars, trafficVars, outcomeVars>>
FqHasIn ==
  /\ kind = "fq" /\ doing[1] = "has"
  /\ HasReturns \/ (HasPasses /\ FindsNothing(pipes[current]))
  /\ UNCHANGED <<modeVars, trafficVars, outcomeVars>>

(***************************************************************************)
(* dist_t.  The pipes that refuse a message are passive from then on; the  *)
(* eligible ones become active when a message is complete.                 *)
(***************************************************************************)
\* The array after the write to the pipe at place i has failed.
Refused(a, i) ==
  [pipes |-> Swap(Swap(a.pipes, i, a.active), a.active, a.eligible),
   active |-> a.active - 1, eligible |-> a.eligible - 1]

\* distribute's loop, from place i on.
Arrays == [pipes : Seq(Pipes), active : Nat, eligible : Nat]
Distribute[a \in Arrays, i \in Nat] ==
  IF i > a.active THEN a
  ELSE IF Usable(a.pipes[i]) THEN Distribute[a, i + 1] ELSE Distribute[Refused(a, i), i]

DistSend(flag) ==
  /\ kind = "dist" /\ doing = Idle /\ ~terminating /\ MayFollow(flag)
  /\ LET a == Distribute[[pipes |-> pipes, active |-> active, eligible |-> eligible], 1]
         reached == FirstOf(a.pipes, a.active)
     IN /\ pipes' = a.pipes /\ eligible' = a.eligible
        /\ active' = IF flag THEN a.active ELSE a.eligible
        /\ got' = [p \in Pipes |-> IF p \in reached /\ flag THEN got[p] + 1 ELSE 0]
        /\ \E full \in SUBSET reached :
             /\ flag => full = {}
             /\ end' = [p \in Pipes |->
                          IF p \in full \/ (end[p] = "spent" /\ p \in reached) THEN "spent"
                          ELSE IF p \in FirstOf(pipes, active) /\ end[p] = "spent" THEN "asleep"
                          ELSE end[p]]
  /\ more' = flag /\ part' = NextPart(flag)
  /\ UNCHANGED <<current, kind, dropping, terminating, acks, doing, skipped, outcomeVars>>

Attach(p) == LbAttach(p) \/ FqAttach(p) \/ DistAttach(p)
Terminated(p) == LbTerminated(p) \/ FqTerminated(p) \/ DistTerminated(p)
Activated(p) == LbActivated(p) \/ FqActivated(p) \/ DistActivated(p)

Next ==
  /\ ~failed
  /\ \/ \E p \in Pipes : Attach(p) \/ Terminated(p) \/ Activated(p) \/ PeerActs(p)
     \/ \E flag \in BOOLEAN : LbSend(flag) \/ FqRead(flag) \/ DistSend(flag)
     \/ LbWrite \/ LbWriteFails \/ FqRecv \/ FqReadFails \/ Has \/ LbHasOut \/ FqHasIn
     \/ Terminate

Spec == Init /\ [][Next]_vars

(***************************************************************************)
(* Properties.                                                             *)
(***************************************************************************)
\* lb.hpp:59, fq.hpp:59, dist.hpp:64: the active pipes are at the beginning of
\* the array; a passive one is asleep, so it is heard of again.
ActiveFirst ==
  terminating \/ \A p \in Attached :
    IF kind = "dist"
      THEN /\ Index(p) > eligible <=> end[p] = "asleep"
           /\ active = eligible \/ more
      ELSE Index(p) > active <=> end[p] \in {"asleep", "closed"}

\* The parts of a message go through one pipe, or through all that had its
\* first part, and nothing comes between them.
WholeMessages ==
  terminating \/
    /\ more <=> part > 0
    /\ kind # "dist" => \A p \in Attached :
         IF more /\ ~dropping /\ Index(p) = current THEN got[p] = part ELSE got[p] = 0
    /\ kind = "dist" => \A p \in Attached : got[p] = IF Index(p) <= active THEN part ELSE 0

\* While no pipe goes, one that is ready has its turn before the others have had
\* MaxSkipped messages, as many as there are pipes.
InTurn == \A p \in Attached : skipped[p] < MaxSkipped

\* fq.cpp:112, lb.cpp:119: the next part of a message is there, or has room.
PartFollows ==
  (more /\ ~dropping /\ ~terminating /\ kind # "dist") => current <= active /\ Usable(pipes[current])

\* A socket that terminates waits for exactly the pipes it still has.
AcksOutstanding == acks = IF terminating THEN Len(pipes) ELSE 0

\* lb.cpp:119, fq.cpp:61 and 112: no assertion fails, and no pipe is looked for
\* where there is none.
NeverFails == ~failed

\* A reader goes only after it has read the delimiter, when it is not among those in
\* use any more: fair queueing keeps its order, whichever pipes go.
QueueKeepsOrder == kind = "fq" => ~spoilt

\* All this unless erase has put a pipe where it should not be.
BalanceSound ==
  /\ TypeOK /\ AcksOutstanding /\ QueueKeepsOrder
  /\ spoilt \/ (ActiveFirst /\ WholeMessages /\ PartFollows /\ InTurn /\ NeverFails)
=============================================================================
