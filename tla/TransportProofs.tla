---------------------------- MODULE TransportProofs ---------------------------
(***************************************************************************)
(* Proofs about the parts of ZeroMQ that open connections: the connecters, *)
(* listeners and timers of an I/O thread, and multicast.                   *)
(***************************************************************************)
EXTENDS ZmqConnections, FiniteSetTheorems, SequenceTheorems, TLAPS

(***************************************************************************)
(* A part's variables change by its own steps only.                        *)
(***************************************************************************)
LEMMA TransportAlone == [ConnectionsNext]_connectionsVars => [Tr!Next]_(Tr!vars)
<1> SUFFICES ASSUME [ConnectionsNext]_connectionsVars, ~UNCHANGED transportVars PROVE Tr!Next
  BY Zenon DEF Tr!vars, Tr!clockVars, transportVars
<1> QED BY Zenon DEF ConnectionsNext, OtherConnections, Stays, connectionsVars

(***************************************************************************)
(* Sets of numbers: the operators of the community modules choose.         *)
(***************************************************************************)
LEMMA LeastNatural ==
  ASSUME NEW S \in SUBSET Nat, S # {}
  PROVE  \E x \in S : \A y \in S : x <= y
<1> DEFINE R == OpToRel(<, Nat)
<1>1. R = {ss \in Nat \X Nat : ss[1] < ss[2]}
  BY DEF OpToRel
<1>2. IsWellFoundedOn(R, Nat)
  BY NatLessThanWellFounded
<1> HIDE DEF R
<1>3. PICK x \in S : \A y \in S : <<y, x>> \notin R
  BY <1>2, WFMin
<1>4. \A y \in S : x \in Nat /\ y \in Nat /\ ~(y < x)
  BY <1>1, <1>3
<1> QED BY <1>4

(***************************************************************************)
(* Timers: what inserting and removing does to a sequence.                 *)
(***************************************************************************)
LEMMA InsertedAt ==
  ASSUME NEW T, NEW ts \in Seq(T), NEW e \in T, NEW p \in 1..Len(ts) + 1
  PROVE  /\ Tr!InsertAt(ts, p, e) \in Seq(T)
         /\ Len(Tr!InsertAt(ts, p, e)) = Len(ts) + 1
         /\ Tr!InsertAt(ts, p, e)[p] = e
         /\ \A k \in 1..p - 1 : Tr!InsertAt(ts, p, e)[k] = ts[k]
         /\ \A k \in p + 1..Len(ts) + 1 : Tr!InsertAt(ts, p, e)[k] = ts[k - 1]
<1> DEFINE before == SubSeq(ts, 1, p - 1)
           after == SubSeq(ts, p, Len(ts))
<1>1. before \in Seq(T) /\ Len(before) = p - 1 /\ \A k \in 1..p - 1 : before[k] = ts[k]
  BY SubSeqProperties
<1>2. after \in Seq(T) /\ Len(after) = Len(ts) - p + 1 /\ \A k \in 1..Len(ts) - p + 1 : after[k] = ts[p + k - 1]
  BY SubSeqProperties
<1> HIDE DEF before, after
<1>3. Tr!InsertAt(ts, p, e) = before \o <<e>> \o after
  BY DEF Tr!InsertAt, before, after
<1> DEFINE first == before \o <<e>>
           new == first \o after
<1>4. first \in Seq(T) /\ Len(first) = p /\ first[p] = e /\ \A k \in 1..p - 1 : first[k] = ts[k]
  <2>1. <<e>> \in Seq(T) /\ Len(<<e>>) = 1 /\ <<e>>[1] = e
    OBVIOUS
  <2> DEFINE one == <<e>>
  <2> HIDE DEF one
  <2>2. (before \o one) \in Seq(T) /\ Len(before \o one) = p /\ (before \o one)[p] = one[1]
    BY <1>1, <2>1 DEF one
  <2>3. \A k \in 1..p - 1 : (before \o one)[k] = ts[k]
    BY <1>1, <2>1 DEF one
  <2> QED BY <2>1, <2>2, <2>3 DEF one
<1> HIDE DEF first
<1>5. new \in Seq(T) /\ Len(new) = Len(ts) + 1 /\ \A k \in 1..p : new[k] = first[k]
  BY <1>2, <1>4
<1>6. ASSUME NEW k \in p + 1..Len(ts) + 1 PROVE new[k] = ts[k - 1]
  <2>1. new[k] = after[k - p]
    BY <1>2, <1>4
  <2>2. k - p \in 1..Len(ts) - p + 1
    OBVIOUS
  <2> QED BY <1>2, <2>1, <2>2
<1>7. Tr!InsertAt(ts, p, e) = new
  BY <1>3 DEF first
<1> HIDE DEF new
<1> QED BY <1>4, <1>5, <1>6, <1>7

LEMMA RemovedAt ==
  ASSUME NEW T, NEW ts \in Seq(T), NEW p \in 1..Len(ts)
  PROVE  /\ Tr!RemoveAt(ts, p) \in Seq(T)
         /\ Len(Tr!RemoveAt(ts, p)) = Len(ts) - 1
         /\ \A k \in 1..p - 1 : Tr!RemoveAt(ts, p)[k] = ts[k]
         /\ \A k \in p..Len(ts) - 1 : Tr!RemoveAt(ts, p)[k] = ts[k + 1]
<1> DEFINE before == SubSeq(ts, 1, p - 1)
           after == SubSeq(ts, p + 1, Len(ts))
<1>1. before \in Seq(T) /\ Len(before) = p - 1 /\ \A k \in 1..p - 1 : before[k] = ts[k]
  BY SubSeqProperties
<1>2. after \in Seq(T) /\ Len(after) = Len(ts) - p /\ \A k \in 1..Len(ts) - p : after[k] = ts[p + k]
  BY SubSeqProperties
<1> HIDE DEF before, after
<1>3. Tr!RemoveAt(ts, p) = before \o after
  BY DEF Tr!RemoveAt, before, after
<1>4. (before \o after) \in Seq(T) /\ Len(before \o after) = Len(ts) - 1
  BY <1>1, <1>2
<1>5. \A k \in 1..p - 1 : (before \o after)[k] = ts[k]
  BY <1>1, <1>2
<1>6. ASSUME NEW k \in p..Len(ts) - 1 PROVE (before \o after)[k] = ts[k + 1]
  <2>1. (before \o after)[k] = after[k - p + 1]
    BY <1>1, <1>2
  <2>2. k - p + 1 \in 1..Len(ts) - p
    OBVIOUS
  <2> QED BY <1>2, <2>1, <2>2
<1> QED BY <1>3, <1>4, <1>5, <1>6

(***************************************************************************)
(* Transport: the invariant.                                               *)
(***************************************************************************)
Timer == [at : Int, sink : Connecter]
Ordered(ts) == \A j, k \in 1..Len(ts) : j <= k => ts[j].at <= ts[k].at
OneEach(ts) == \A j, k \in 1..Len(ts) : ts[j].sink = ts[k].sink => j = k
Has(ts, ct) == \E k \in 1..Len(ts) : ts[k].sink = ct

\* The multimap is in the order of its keys; a connecter has one timer at most,
\* and one exactly while it waits.
TimersOrdered == Ordered(timers)
OneTimerEach == OneEach(timers)
TimersAwaited ==
  \A ct \in Connecter : Has(timers, ct) <=> connecter[ct].wait /\ connecter[ct].state = "plugged"

\* A timer that is added while others are executed comes after them.
ClockForward == it = 0 /\ last_time <= time /\ (executing => timers_current <= last_time)

ConnecterStates ==
  \A ct \in Connecter :
    /\ connecter[ct].handle_valid <=> connecter[ct].s # Tr!retired_fd
    /\ connecter[ct].handle_valid => connecter[ct].state = "plugged" /\ ~connecter[ct].wait
    /\ connecter[ct].wait => connecter[ct].state \in {"unplugged", "plugged"}

ListenerStates ==
  \A li \in Listener :
    /\ listener[li].s # Tr!retired_fd <=> listener[li].state \in {"bound", "plugged", "terminating"}
    /\ listener[li].s # Tr!retired_fd =>
         descriptor[listener[li].s] = li /\ (listener[li].has_file <=> Tr!Ipc(li))

OneFile == \A li, lj \in Listener : Tr!Ipc(li) /\ Tr!Ipc(lj) => li = lj

TransportInv ==
  /\ Tr!TypeOK /\ TimersOrdered /\ OneTimerEach /\ TimersAwaited /\ ClockForward
  /\ ConnecterStates /\ ListenerStates /\ OneFile
  /\ Tr!NeverAborts /\ Tr!DescriptorsOwned /\ Tr!FileLeadsToListener /\ Tr!BackoffBounded

(***************************************************************************)
(* Transport: what becomes of the timers.                                  *)
(***************************************************************************)
LEMMA TransportFacts ==
  /\ {reconnect_ivl, reconnect_ivl_max, Spread, Precision, MaxTime, MaxFd} \subseteq Nat
  /\ reconnect_ivl > 0 /\ Spread < reconnect_ivl
  /\ IsFiniteSet(Listener) /\ Connecter \cap Listener = {}
  /\ {None, "engine"} \cap (Connecter \union Listener) = {} /\ None # "engine"
<1>1. \A S : Tr!IsFiniteSet(S) <=> IsFiniteSet(S)
  BY DEF Tr!IsFiniteSet, IsFiniteSet
<1> QED BY <1>1, ConnectionsAssumption DEF ConnectionsAssumption, Tr!TransportAssumption

LEMMA TimerTypes ==
  ASSUME NEW ts \in Seq(Timer), NEW k \in 1..Len(ts)
  PROVE  ts[k] \in Timer /\ ts[k].at \in Int /\ ts[k].sink \in Connecter
<1>1. ts[k] \in Timer
  BY ElementOfSeq
<1> QED BY <1>1 DEF Timer

LEMMA TimerPlace ==
  ASSUME timers \in Seq(Timer), Ordered(timers), NEW at \in Int
  PROVE  /\ Tr!Place(at) \in 1..Len(timers) + 1
         /\ \A k \in 1..Tr!Place(at) - 1 : timers[k].at <= at
         /\ \A k \in Tr!Place(at)..Len(timers) : at <= timers[k].at
<1>1. CASE Tr!Later(at) = {}
  <2>1. \A k \in 1..Len(timers) : timers[k].at <= at
    BY <1>1, TimerTypes DEF Tr!Later
  <2> QED BY <1>1, <2>1 DEF Tr!Place
<1>2. CASE Tr!Later(at) # {}
  <2>1. Tr!Later(at) \in SUBSET Nat
    BY DEF Tr!Later
  <2>2. \E x \in Tr!Later(at) : \A y \in Tr!Later(at) : x <= y
    BY <1>2, <2>1, LeastNatural
  <2>3. Tr!Place(at) \in Tr!Later(at) /\ \A y \in Tr!Later(at) : Tr!Place(at) <= y
    BY <1>2, <2>2 DEF Tr!Place, Tr!Min
  <2>4. Tr!Place(at) \in 1..Len(timers) /\ timers[Tr!Place(at)].at > at
    BY <2>3 DEF Tr!Later
  <2>5. \A k \in 1..Tr!Place(at) - 1 : timers[k].at <= at
    <3> SUFFICES ASSUME NEW k \in 1..Tr!Place(at) - 1, ~(timers[k].at <= at) PROVE FALSE
      OBVIOUS
    <3>1. k \in 1..Len(timers) /\ timers[k].at \in Int
      BY <2>4, TimerTypes
    <3>2. k \in Tr!Later(at)
      BY <3>1 DEF Tr!Later
    <3> QED BY <2>3, <2>4, <3>2
  <2>6. \A k \in Tr!Place(at)..Len(timers) : at <= timers[k].at
    BY <2>4, TimerTypes DEF Ordered
  <2> QED BY <2>4, <2>5, <2>6
<1> QED BY <1>1, <1>2

LEMMA TimerInserted ==
  ASSUME timers \in Seq(Timer), Ordered(timers), NEW at \in Int, NEW ct \in Connecter
  PROVE  /\ Tr!Inserted(at, ct) \in Seq(Timer) /\ Ordered(Tr!Inserted(at, ct))
         /\ Len(Tr!Inserted(at, ct)) = Len(timers) + 1
         /\ Tr!Inserted(at, ct)[Tr!Place(at)] = [at |-> at, sink |-> ct]
         /\ \A k \in 1..Tr!Place(at) - 1 : Tr!Inserted(at, ct)[k] = timers[k]
         /\ \A k \in Tr!Place(at) + 1..Len(timers) + 1 : Tr!Inserted(at, ct)[k] = timers[k - 1]
<1> DEFINE new == Tr!Inserted(at, ct)
           p == Tr!Place(at)
           one == [at |-> at, sink |-> ct]
<1>1. /\ p \in 1..Len(timers) + 1
      /\ \A k \in 1..p - 1 : timers[k].at <= at
      /\ \A k \in p..Len(timers) : at <= timers[k].at
  BY TimerPlace
<1>2. one \in Timer
  BY DEF Timer
<1> HIDE DEF one
<1>3. /\ new \in Seq(Timer) /\ Len(new) = Len(timers) + 1 /\ new[p] = one
      /\ \A k \in 1..p - 1 : new[k] = timers[k]
      /\ \A k \in p + 1..Len(timers) + 1 : new[k] = timers[k - 1]
  <2>1. new = Tr!InsertAt(timers, p, one)
    BY DEF Tr!Inserted, one
  <2> HIDE DEF new, p
  <2>2. timers \in Seq(Timer) /\ p \in 1..Len(timers) + 1
    BY <1>1
  <2>3. Tr!InsertAt(timers, p, one) \in Seq(Timer)
    BY <1>2, <2>2, InsertedAt
  <2>4. /\ Len(Tr!InsertAt(timers, p, one)) = Len(timers) + 1 
        /\ Tr!InsertAt(timers, p, one)[p] = one
    BY <1>2, <2>2, InsertedAt
  <2>5. /\ \A k \in 1..p - 1 : Tr!InsertAt(timers, p, one)[k] = timers[k]
    BY <1>2, <2>2, InsertedAt
  <2>6. /\ \A k \in p + 1..Len(timers) + 1 : Tr!InsertAt(timers, p, one)[k] = timers[k - 1]
    BY <1>2, <2>2, InsertedAt
  <2> QED BY <2>1, <2>3, <2>4, <2>5, <2>6
<1> HIDE DEF new, p
<1>4. \A k \in 1..Len(timers) : timers[k].at \in Int
  BY TimerTypes
<1>5. new[p].at = at
  BY <1>3 DEF one
<1>6. ASSUME NEW j \in 1..Len(new), NEW k \in 1..Len(new), j <= k PROVE new[j].at <= new[k].at
  <2>1. CASE j < p
    <3>1. new[j] = timers[j] /\ j \in 1..Len(timers) /\ timers[j].at <= at
      BY <1>1, <1>3, <2>1
    <3>2. k > p => new[k] = timers[k - 1] /\ k - 1 \in 1..Len(timers) /\ j <= k - 1
      BY <1>1, <1>3, <2>1
    <3>3. k < p => new[k] = timers[k] /\ k \in 1..Len(timers)
      BY <1>1, <1>3, <2>1
    <3>4. k < p \/ k = p \/ k > p
      BY <1>1, <1>3
    <3>5. k < p => new[j].at <= new[k].at
      BY <1>6, <3>1, <3>3 DEF Ordered
    <3>6. k > p => new[j].at <= new[k].at
      BY <3>1, <3>2 DEF Ordered
    <3> QED BY <1>5, <3>1, <3>4, <3>5, <3>6
  <2>2. CASE j = p
    <3>1. k > p => new[k] = timers[k - 1] /\ k - 1 \in p..Len(timers) /\ k - 1 \in 1..Len(timers)
      BY <1>1, <1>3, <2>2
    <3>2. k = p \/ k > p
      BY <1>1, <1>3, <1>6, <2>2
    <3> QED BY <1>1, <1>4, <1>5, <2>2, <3>1, <3>2
  <2>3. CASE j > p
    <3>1. j \in p + 1..Len(timers) + 1 /\ k \in p + 1..Len(timers) + 1
      BY <1>1, <1>3, <1>6, <2>3
    <3>2. new[j] = timers[j - 1] /\ new[k] = timers[k - 1]
      BY <1>3, <3>1
    <3>3. j - 1 \in 1..Len(timers) /\ k - 1 \in 1..Len(timers) /\ j - 1 <= k - 1
      BY <1>1, <1>6, <3>1
    <3> QED BY <3>2, <3>3 DEF Ordered
  <2>4. j < p \/ j = p \/ j > p
    BY <1>1, <1>3
  <2> QED BY <2>1, <2>2, <2>3, <2>4
<1>7. Ordered(new)
  BY <1>6 DEF Ordered
<1> QED BY <1>3, <1>7 DEF new, p, one

LEMMA TimerAdded ==
  ASSUME timers \in Seq(Timer), Ordered(timers), OneEach(timers), NEW at \in Int, NEW ct \in Connecter,
         ~Has(timers, ct)
  PROVE  /\ OneEach(Tr!Inserted(at, ct))
         /\ \A any \in Connecter : Has(Tr!Inserted(at, ct), any) <=> Has(timers, any) \/ any = ct
<1> DEFINE new == Tr!Inserted(at, ct)
           p == Tr!Place(at)
           old(k) == IF k < p THEN k ELSE k - 1
<1>1. p \in 1..Len(timers) + 1
  BY TimerPlace
<1>2. /\ new \in Seq(Timer) /\ Len(new) = Len(timers) + 1
      /\ new[p] = [at |-> at, sink |-> ct]
      /\ \A k \in 1..p - 1 : new[k] = timers[k]
      /\ \A k \in p + 1..Len(timers) + 1 : new[k] = timers[k - 1]
  BY TimerInserted
<1> HIDE DEF new, p
<1>3. new[p].sink = ct
  BY <1>2
<1>4. ASSUME NEW k \in 1..Len(new), k # p PROVE old(k) \in 1..Len(timers) /\ new[k] = timers[old(k)]
  <2>1. CASE k < p
    BY <1>1, <1>2, <2>1
  <2>2. CASE k > p
    <3>1. k \in p + 1..Len(timers) + 1
      BY <1>1, <1>2, <2>2
    <3> QED BY <1>1, <1>2, <3>1
  <2> QED BY <1>1, <1>2, <1>4, <2>1, <2>2
<1>5. \A k \in 1..Len(new) : k # p => new[k].sink # ct
  BY <1>4 DEF Has
<1>6. ASSUME NEW j \in 1..Len(new), NEW k \in 1..Len(new), new[j].sink = new[k].sink PROVE j = k
  <2>1. CASE j = p \/ k = p
    BY <1>3, <1>5, <1>6, <2>1
  <2>2. CASE j # p /\ k # p
    <3>1. old(j) \in 1..Len(timers) /\ old(k) \in 1..Len(timers) /\ timers[old(j)].sink = timers[old(k)].sink
      BY <1>4, <1>6, <2>2
    <3>2. old(j) = old(k)
      BY <3>1 DEF OneEach
    <3> QED BY <1>1, <1>2, <2>2, <3>2
  <2> QED BY <2>1, <2>2
<1>7. OneEach(new)
  BY <1>6 DEF OneEach
<1>8. ASSUME NEW any \in Connecter PROVE Has(new, any) <=> Has(timers, any) \/ any = ct
  <2>1. Has(new, any) => Has(timers, any) \/ any = ct
    BY <1>3, <1>4 DEF Has
  <2>2. any = ct => Has(new, any)
    BY <1>1, <1>2, <1>3 DEF Has
  <2>3. ASSUME NEW k \in 1..Len(timers), timers[k].sink = any PROVE Has(new, any)
    <3>1. CASE k < p
      <4>1. k \in 1..Len(new) /\ new[k] = timers[k]
        BY <1>1, <1>2, <3>1
      <4> QED BY <2>3, <4>1 DEF Has
    <3>2. CASE ~(k < p)
      <4>1. k + 1 \in p + 1..Len(timers) + 1 /\ k + 1 \in 1..Len(new)
        BY <1>1, <1>2, <3>2
      <4>2. new[k + 1] = timers[k]
        BY <1>2, <4>1
      <4> QED BY <2>3, <4>1, <4>2 DEF Has
    <3> QED BY <3>1, <3>2
  <2> QED BY <2>1, <2>2, <2>3 DEF Has
<1> QED BY <1>7, <1>8 DEF new

LEMMA TimerErased ==
  ASSUME NEW ts \in Seq(Timer), NEW p \in 1..Len(ts)
  PROVE  /\ Tr!RemoveAt(ts, p) \in Seq(Timer)
         /\ Ordered(ts) => Ordered(Tr!RemoveAt(ts, p))
         /\ OneEach(ts) =>
              /\ OneEach(Tr!RemoveAt(ts, p))
              /\ \A any \in Connecter : Has(Tr!RemoveAt(ts, p), any) <=> Has(ts, any) /\ any # ts[p].sink
<1> DEFINE new == Tr!RemoveAt(ts, p)
           old(k) == IF k < p THEN k ELSE k + 1
<1>1. /\ new \in Seq(Timer) /\ Len(new) = Len(ts) - 1
      /\ \A k \in 1..p - 1 : new[k] = ts[k]
      /\ \A k \in p..Len(ts) - 1 : new[k] = ts[k + 1]
  BY RemovedAt
<1> HIDE DEF new
<1>2. ASSUME NEW k \in 1..Len(new) PROVE old(k) \in 1..Len(ts) /\ old(k) # p /\ new[k] = ts[old(k)]
  <2>1. CASE k < p
    BY <1>1, <2>1
  <2>2. CASE ~(k < p)
    <3>1. k \in p..Len(ts) - 1
      BY <1>1, <2>2
    <3> QED BY <1>1, <3>1
  <2> QED BY <2>1, <2>2
<1>3. ASSUME Ordered(ts), NEW j \in 1..Len(new), NEW k \in 1..Len(new), j <= k PROVE new[j].at <= new[k].at
  <2>1. old(j) <= old(k)
    BY <1>1, <1>3
  <2> QED BY <1>2, <1>3, <2>1 DEF Ordered
<1>4. ASSUME OneEach(ts), NEW j \in 1..Len(new), NEW k \in 1..Len(new), new[j].sink = new[k].sink PROVE j = k
  <2>1. old(j) = old(k)
    BY <1>2, <1>4 DEF OneEach
  <2> QED BY <1>1, <2>1
<1>5. ASSUME OneEach(ts), NEW any \in Connecter PROVE Has(new, any) <=> Has(ts, any) /\ any # ts[p].sink
  <2>1. Has(new, any) => Has(ts, any)
    BY <1>2 DEF Has
  <2>2. ASSUME Has(new, any), any = ts[p].sink PROVE FALSE
    <3>1. PICK k \in 1..Len(new) : new[k].sink = any
      BY <2>2 DEF Has
    <3>2. old(k) = p
      BY <1>2, <1>5, <2>2, <3>1 DEF OneEach
    <3> QED BY <1>2, <3>2
  <2>3. ASSUME NEW k \in 1..Len(ts), ts[k].sink = any, any # ts[p].sink PROVE Has(new, any)
    <3>1. CASE k < p
      <4>1. k \in 1..Len(new) /\ new[k] = ts[k]
        BY <1>1, <3>1
      <4> QED BY <2>3, <4>1 DEF Has
    <3>2. CASE k > p
      <4>1. k - 1 \in p..Len(ts) - 1 /\ k - 1 \in 1..Len(new)
        BY <1>1, <3>2
      <4>2. new[k - 1] = ts[k]
        BY <1>1, <4>1
      <4> QED BY <2>3, <4>1, <4>2 DEF Has
    <3> QED BY <2>3, <3>1, <3>2
  <2> QED BY <2>1, <2>2, <2>3 DEF Has
<1>6. Ordered(ts) => Ordered(new)
  BY <1>3 DEF Ordered
<1>7. OneEach(ts) => OneEach(new)
  BY <1>4 DEF OneEach
<1> QED BY <1>1, <1>5, <1>6, <1>7 DEF new

\* The timer that fired is erased after it was added again: nothing changes but its time.
LEMMA TimerRenewed ==
  ASSUME timers \in Seq(Timer), Ordered(timers), OneEach(timers), Len(timers) > 0,
         NEW at \in Int, at > timers[1].at, NEW ct \in Connecter, ct = timers[1].sink
  PROVE  /\ Tr!Place(at) > 1
         /\ Tr!RemoveAt(Tr!Inserted(at, ct), 1) \in Seq(Timer)
         /\ Ordered(Tr!RemoveAt(Tr!Inserted(at, ct), 1)) /\ OneEach(Tr!RemoveAt(Tr!Inserted(at, ct), 1))
         /\ \A any \in Connecter : Has(Tr!RemoveAt(Tr!Inserted(at, ct), 1), any) <=> Has(timers, any)
<1> DEFINE ins == Tr!Inserted(at, ct)
           p == Tr!Place(at)
           new == Tr!RemoveAt(ins, 1)
           old(k) == IF k < p - 1 THEN k + 1 ELSE IF k = p - 1 THEN 1 ELSE k
<1>1. /\ p \in 1..Len(timers) + 1
      /\ \A k \in p..Len(timers) : at <= timers[k].at
  BY TimerPlace
<1>2. timers[1].at \in Int
  BY TimerTypes
<1>3. p > 1
  BY <1>1, <1>2
<1>4. /\ ins \in Seq(Timer) /\ Ordered(ins) /\ Len(ins) = Len(timers) + 1
      /\ ins[p] = [at |-> at, sink |-> ct]
      /\ \A k \in 1..p - 1 : ins[k] = timers[k]
      /\ \A k \in p + 1..Len(timers) + 1 : ins[k] = timers[k - 1]
  BY TimerInserted
<1> HIDE DEF ins, p
<1>5. ins[p].sink = ct
  BY <1>4
<1>6. 1 \in 1..Len(ins)
  BY <1>4
<1>7. new \in Seq(Timer) /\ Ordered(new)
  BY <1>4, <1>6, TimerErased
<1>8. Len(new) = Len(timers) /\ \A k \in 1..Len(timers) : new[k] = ins[k + 1]
  <2>1. Len(new) = Len(ins) - 1 /\ \A k \in 1..Len(ins) - 1 : new[k] = ins[k + 1]
    BY <1>4, <1>6, RemovedAt
  <2> QED BY <1>4, <2>1
<1> HIDE DEF new
<1>9. ASSUME NEW k \in 1..Len(timers) PROVE old(k) \in 1..Len(timers) /\ new[k].sink = timers[old(k)].sink
  <2>1. CASE k < p - 1
    <3>1. k + 1 \in 1..p - 1
      BY <1>1, <2>1
    <3> QED BY <1>1, <1>4, <1>8, <2>1, <3>1
  <2>2. CASE k = p - 1
    BY <1>1, <1>3, <1>5, <1>8, <2>2
  <2>3. CASE k > p - 1
    <3>1. k + 1 \in p + 1..Len(timers) + 1
      BY <1>1, <2>3
    <3> QED BY <1>1, <1>4, <1>8, <2>3, <3>1
  <2> QED BY <1>1, <2>1, <2>2, <2>3
<1>10. ASSUME NEW j \in 1..Len(timers), NEW k \in 1..Len(timers), old(j) = old(k) PROVE j = k
  BY <1>1, <1>3, <1>10
<1>11. OneEach(new)
  <2> SUFFICES ASSUME NEW j \in 1..Len(timers), NEW k \in 1..Len(timers), new[j].sink = new[k].sink PROVE j = k
    BY <1>8 DEF OneEach
  <2>1. /\ old(j) \in 1..Len(timers) /\ old(k) \in 1..Len(timers)
        /\ timers[old(j)].sink = timers[old(k)].sink
    BY <1>9
  <2> HIDE DEF old
  <2>2. old(j) = old(k)
    BY <2>1 DEF OneEach
  <2> QED BY <1>10, <2>2
<1>12. ASSUME NEW any \in Connecter PROVE Has(new, any) <=> Has(timers, any)
  <2>1. Has(new, any) => Has(timers, any)
    BY <1>8, <1>9 DEF Has
  <2>2. ASSUME NEW k \in 1..Len(timers), timers[k].sink = any PROVE Has(new, any)
    <3> DEFINE next == IF k = 1 THEN p - 1 ELSE IF k < p THEN k - 1 ELSE k
    <3>1. next \in 1..Len(timers) /\ old(next) = k
      BY <1>1, <1>3
    <3> QED BY <1>8, <1>9, <2>2, <3>1 DEF Has
  <2> QED BY <2>1, <2>2 DEF Has
<1> QED BY <1>3, <1>7, <1>11, <1>12 DEF new, ins, p

LEMMA LargerOfTwo ==
  ASSUME NEW a \in Nat, NEW b \in Nat
  PROVE  Tr!Max({a, b}) \in {a, b} /\ Tr!Max({a, b}) >= a /\ Tr!Max({a, b}) >= b
<1>1. \E x \in {a, b} : \A y \in {a, b} : x >= y
  <2>1. a >= b \/ b >= a
    OBVIOUS
  <2> QED BY <2>1
<1>2. Tr!Max({a, b}) \in {a, b} /\ \A y \in {a, b} : Tr!Max({a, b}) >= y
  BY <1>1 DEF Tr!Max
<1> QED BY <1>2

LEMMA LeastFree == Tr!Free # {} => Tr!Min(Tr!Free) \in Tr!Free
<1> SUFFICES ASSUME Tr!Free # {} PROVE Tr!Min(Tr!Free) \in Tr!Free
  OBVIOUS
<1>1. Tr!Free \in SUBSET Nat
  BY TransportFacts DEF Tr!Free, Tr!Fd
<1>2. \E x \in Tr!Free : \A y \in Tr!Free : x <= y
  BY <1>1, LeastNatural
<1> QED BY <1>2 DEF Tr!Min

(***************************************************************************)
(* Transport: what a step of a connecter does to the timers.  It has one   *)
(* afterwards or it has none, and the others keep theirs.                  *)
(***************************************************************************)
TimersAfter(ct, has) ==
  /\ timers' \in Seq(Timer) /\ Ordered(timers') /\ OneEach(timers')
  /\ \A any \in Connecter : any # ct => (Has(timers', any) <=> Has(timers, any))
  /\ Has(timers', ct) <=> has
  /\ it' = 0 /\ last_time' \in Int /\ last_time' <= time /\ (executing => timers_current <= last_time')

\* The timer of ct has fired, or there is none.
MayAct(ct, fired) ==
  \/ fired = 0 /\ ~Has(timers, ct)
  \/ fired = 1 /\ executing /\ Len(timers) > 0 /\ timers[1].sink = ct /\ timers[1].at <= timers_current

LEMMA TimersTyped == TransportInv => timers \in Seq(Timer) /\ Ordered(timers) /\ OneEach(timers)
BY DEF TransportInv, Tr!TypeOK, Timer, TimersOrdered, OneTimerEach

LEMMA TimerKept ==
  ASSUME TransportInv, NEW ct \in Connecter, NEW fired, MayAct(ct, fired), Tr!Unchanged_timers(fired)
  PROVE  TimersAfter(ct, FALSE)
<1>1. timers \in Seq(Timer) /\ Ordered(timers) /\ OneEach(timers)
  BY TimersTyped
<1>2. it' = 0 /\ last_time' \in Int /\ last_time' <= time /\ (executing => timers_current <= last_time')
  BY DEF Tr!Unchanged_timers, TransportInv, ClockForward, Tr!TypeOK
<1>3. CASE fired = 0
  <2>1. timers' = timers /\ ~Has(timers, ct)
    BY <1>3 DEF MayAct, Tr!Unchanged_timers
  <2> QED BY <1>1, <1>2, <2>1 DEF TimersAfter
<1>4. CASE fired = 1
  <2>1. it = 0
    BY DEF TransportInv, ClockForward
  <2>2. timers' = Tr!RemoveAt(timers, 1)
    BY <1>4, <2>1 DEF Tr!Unchanged_timers, Tr!Erased
  <2>3. 1 \in 1..Len(timers) /\ timers[1].sink = ct
    BY <1>1, <1>4 DEF MayAct
  <2>4. timers' \in Seq(Timer) /\ Ordered(timers') /\ OneEach(timers')
    BY <1>1, <2>2, <2>3, TimerErased
  <2>5. \A any \in Connecter : Has(timers', any) <=> Has(timers, any) /\ any # ct
    BY <1>1, <2>2, <2>3, TimerErased
  <2> QED BY <1>2, <2>4, <2>5 DEF TimersAfter
<1> QED BY <1>3, <1>4 DEF MayAct

LEMMA TimerAwaited ==
  ASSUME TransportInv, NEW ct \in Connecter, NEW fired, MayAct(ct, fired), Tr!add_reconnect_timer(ct, fired)
  PROVE  TimersAfter(ct, TRUE)
<1>1. timers \in Seq(Timer) /\ Ordered(timers) /\ OneEach(timers)
  BY TimersTyped
<1>2. /\ it = 0 /\ last_time \in Int /\ time \in Int /\ last_time <= time
      /\ executing => timers_current <= last_time
      /\ timers_current \in Int
  BY DEF TransportInv, ClockForward, Tr!TypeOK
<1>3. connecter[ct].current_reconnect_ivl \in Nat /\ connecter[ct].current_reconnect_ivl > 0
  BY TransportFacts, LargerOfTwo DEF TransportInv, Tr!BackoffBounded, Tr!TypeOK
<1> DEFINE at(now) == now + connecter[ct].current_reconnect_ivl + Spread
           before(now) == IF fired = 1 /\ Tr!Place(at(now)) <= it + 1 THEN 1 ELSE 0
<1>4. PICK now \in Tr!Now :
        /\ timers' = IF fired = 1 THEN Tr!Erased(Tr!Inserted(at(now), ct), it + 1 + before(now))
                     ELSE Tr!Inserted(at(now), ct)
        /\ it' = it + before(now) /\ last_time' = now
  BY DEF Tr!add_reconnect_timer
<1>5. now \in {time, last_time}
  BY DEF Tr!Now
<1>6. now \in Int /\ now <= time /\ (executing => timers_current <= now)
  BY <1>2, <1>5
<1>7. at(now) \in Int /\ at(now) > now
  BY <1>3, <1>6, TransportFacts
<1>8. last_time' \in Int /\ last_time' <= time /\ (executing => timers_current <= last_time')
  BY <1>4, <1>6
<1>9. CASE fired = 0
  <2>1. timers' = Tr!Inserted(at(now), ct) /\ it' = 0 /\ ~Has(timers, ct)
    BY <1>2, <1>4, <1>9 DEF MayAct
  <2> HIDE DEF at
  <2>2. timers' \in Seq(Timer) /\ Ordered(timers')
    BY <1>1, <1>7, <2>1, TimerInserted
  <2>3. OneEach(timers') /\ \A any \in Connecter : Has(timers', any) <=> Has(timers, any) \/ any = ct
    BY <1>1, <1>7, <2>1, TimerAdded
  <2> QED BY <1>8, <2>1, <2>2, <2>3 DEF TimersAfter
<1>10. CASE fired = 1
  <2>1. Len(timers) > 0 /\ timers[1].sink = ct /\ timers[1].at <= timers_current /\ executing
    BY <1>10 DEF MayAct
  <2>2. timers[1].at \in Int
    BY <1>1, <2>1, TimerTypes
  <2>3. at(now) > timers[1].at
    BY <1>2, <1>6, <1>7, <2>1, <2>2
  <2> HIDE DEF at
  <2>4. Tr!Place(at(now)) > 1
    BY <1>1, <1>7, <2>1, <2>3, TimerRenewed
  <2>5. Tr!Place(at(now)) \in 1..Len(timers) + 1
    BY <1>1, <1>7, TimerPlace
  <2>6. before(now) = 0
    BY <1>1, <1>2, <2>4, <2>5
  <2>7. timers' = Tr!RemoveAt(Tr!Inserted(at(now), ct), 1) /\ it' = 0
    BY <1>2, <1>4, <1>10, <2>6 DEF Tr!Erased
  <2>8. timers' \in Seq(Timer) /\ Ordered(timers') /\ OneEach(timers')
    BY <1>1, <1>7, <2>1, <2>3, <2>7, TimerRenewed
  <2>9. \A any \in Connecter : Has(timers', any) <=> Has(timers, any)
    BY <1>1, <1>7, <2>1, <2>3, <2>7, TimerRenewed
  <2>10. Has(timers, ct)
    BY <1>1, <2>1 DEF Has
  <2> QED BY <1>8, <2>7, <2>8, <2>9, <2>10 DEF TimersAfter
<1> QED BY <1>9, <1>10 DEF MayAct

(***************************************************************************)
(* Transport: a step of one connecter, which becomes new.                  *)
(***************************************************************************)
ConnecterRecord ==
  [wait : BOOLEAN, handle_valid : BOOLEAN, s : Tr!Fd \union {Tr!retired_fd}, current_reconnect_ivl : Nat,
   state : {"unplugged", "plugged", "done", "gone"}, aborted : BOOLEAN]

\* What the invariant says of one connecter.
ConnecterFine(rec) ==
  /\ rec \in ConnecterRecord /\ ~rec.aborted
  /\ rec.handle_valid <=> rec.s # Tr!retired_fd
  /\ rec.handle_valid => rec.state = "plugged" /\ ~rec.wait
  /\ rec.wait => rec.state \in {"unplugged", "plugged"}
  /\ rec.current_reconnect_ivl \in reconnect_ivl..Tr!Max({reconnect_ivl, reconnect_ivl_max})

\* The descriptor of new is the only one that is ct's, and those of the others stay theirs.
DescriptorsAfter(ct, rec) ==
  /\ descriptor' \in [Tr!Fd -> Tr!Owner]
  /\ \A fd \in Tr!Fd : descriptor'[fd] = ct <=> rec.s = fd
  /\ \A fd \in Tr!Fd : \A any \in Connecter \union Listener : any # ct => (descriptor'[fd] = any <=> descriptor[fd] = any)

LEMMA ConnectersFine == TransportInv => \A ct \in Connecter : ConnecterFine(connecter[ct])
BY DEF TransportInv, Tr!TypeOK, ConnecterStates, Tr!NeverAborts, Tr!BackoffBounded, ConnecterFine, ConnecterRecord

LEMMA ConnecterStep ==
  ASSUME TransportInv, NEW ct \in Connecter, NEW new,
         ConnecterFine(new), DescriptorsAfter(ct, new), TimersAfter(ct, new.wait /\ new.state = "plugged"),
         connecter' = [connecter EXCEPT ![ct] = new],
         UNCHANGED <<time, executing, timers_current, timeout, listener, file>>
  PROVE  TransportInv'
<1>1. connecter \in [Connecter -> ConnecterRecord]
  BY DEF TransportInv, Tr!TypeOK, ConnecterRecord
<1>2. connecter' \in [Connecter -> ConnecterRecord]
  BY <1>1 DEF ConnecterFine
<1>3. connecter'[ct] = new /\ \A any \in Connecter : any # ct => connecter'[any] = connecter[any]
  BY <1>1
<1>4. \A any \in Connecter : ConnecterFine(connecter'[any])
  BY <1>3, ConnectersFine
<1>5. timers' \in Seq(Timer) /\ it' = 0
  BY DEF TimersAfter
<1>6. descriptor' \in [Tr!Fd -> Tr!Owner]
  BY DEF DescriptorsAfter
<1>7. Tr!TypeOK'
  <2>1. it' \in 0..Len(timers')
    BY <1>5
  <2>2. timers' \in Seq([at : Int, sink : Connecter])
    BY <1>5 DEF Timer
  <2>3. last_time' \in Int
    BY DEF TimersAfter
  <2>4. Tr!TypeOK
    BY DEF TransportInv
  <2>5. {time, last_time, timers_current, timeout}' \subseteq Int /\ executing' \in BOOLEAN
    BY <2>3, <2>4 DEF Tr!TypeOK
  <2>6. listener' = listener /\ file' = file
    OBVIOUS
  <2> QED BY <1>2, <1>6, <2>1, <2>2, <2>4, <2>5, <2>6 DEF Tr!TypeOK, ConnecterRecord
<1>8. TimersOrdered' /\ OneTimerEach'
  BY DEF TimersAfter, TimersOrdered, OneTimerEach
<1>9. TimersAwaited'
  <2> SUFFICES ASSUME NEW any \in Connecter
               PROVE  Has(timers', any) <=> connecter'[any].wait /\ connecter'[any].state = "plugged"
    BY DEF TimersAwaited, Has
  <2>1. CASE any = ct
    BY <1>3, <2>1 DEF TimersAfter
  <2>2. CASE any # ct
    BY <1>3, <2>2 DEF TimersAfter, TransportInv, TimersAwaited
  <2> QED BY <2>1, <2>2
<1>10. ClockForward'
  BY DEF TimersAfter, ClockForward
<1>11. ConnecterStates' /\ Tr!NeverAborts' /\ Tr!BackoffBounded'
  BY <1>4 DEF ConnecterFine, ConnecterStates, Tr!NeverAborts, Tr!BackoffBounded, Tr!retired_fd
<1>12. ListenerStates' /\ Tr!FileLeadsToListener' /\ OneFile'
  <2>1. listener' = listener /\ file' = file
    OBVIOUS
  <2>2. \A li \in Listener : li # ct /\ li \in Connecter \union Listener
    BY TransportFacts
  <2>3. \A li \in Listener : listener[li].s \in Tr!Fd \union {Tr!retired_fd}
    BY DEF TransportInv, Tr!TypeOK
  <2>4. \A li \in Listener :
          listener[li].s # Tr!retired_fd /\ descriptor[listener[li].s] = li => descriptor'[listener[li].s] = li
    BY <2>2, <2>3 DEF DescriptorsAfter
  <2>5. ListenerStates'
    BY <2>1, <2>4 DEF TransportInv, ListenerStates, Tr!Ipc, Tr!retired_fd
  <2> QED BY <2>1, <2>5 DEF TransportInv, Tr!FileLeadsToListener, OneFile, Tr!Ipc, Tr!retired_fd
<1>13. Tr!DescriptorsOwned'
  <2>1. ASSUME NEW any \in Connecter, connecter'[any].s # Tr!retired_fd
        PROVE  descriptor'[connecter'[any].s] = any
    <3>1. connecter'[any].s \in Tr!Fd
      BY <1>2, <2>1 DEF ConnecterRecord
    <3>2. CASE any = ct
      BY <1>3, <3>1, <3>2 DEF DescriptorsAfter
    <3>3. CASE any # ct
      BY <1>3, <2>1, <3>1, <3>3 DEF DescriptorsAfter, TransportInv, Tr!DescriptorsOwned
    <3> QED BY <3>2, <3>3
  <2>2. ASSUME NEW fd \in Tr!Fd, NEW any \in Connecter, descriptor'[fd] = any
        PROVE  connecter'[any].s = fd /\ connecter'[any].handle_valid
    <3>1. CASE any = ct
      <4>1. new.s = fd
        BY <2>2, <3>1 DEF DescriptorsAfter
      <4>2. fd # Tr!retired_fd
        BY TransportFacts DEF Tr!Fd, Tr!retired_fd
      <4> QED BY <1>3, <3>1, <4>1, <4>2 DEF ConnecterFine
    <3>2. CASE any # ct
      BY <1>3, <2>2, <3>2 DEF DescriptorsAfter, TransportInv, Tr!DescriptorsOwned
    <3> QED BY <3>1, <3>2
  <2>3. ASSUME NEW fd \in Tr!Fd, NEW li \in Listener, descriptor'[fd] = li PROVE listener'[li].s = fd
    <3>1. li # ct /\ li \in Connecter \union Listener
      BY TransportFacts
    <3> QED BY <2>3, <3>1 DEF DescriptorsAfter, TransportInv, Tr!DescriptorsOwned
  <2> QED BY <2>1, <2>2, <2>3 DEF Tr!DescriptorsOwned, Tr!retired_fd, Tr!Fd
<1> QED BY <1>7, <1>8, <1>9, <1>10, <1>11, <1>12, <1>13 DEF TransportInv

LEMMA DescriptorGiven ==
  ASSUME TransportInv, NEW ct \in Connecter, NEW fd \in Tr!Fd, NEW to \in {None, "engine", ct}, NEW rec,
         descriptor[fd] \in {None, ct}, connecter[ct].s \in {Tr!retired_fd, fd},
         Tr!Opens(to, fd), rec.s = IF to = ct THEN fd ELSE Tr!retired_fd
  PROVE  DescriptorsAfter(ct, rec)
<1>1. descriptor \in [Tr!Fd -> Tr!Owner] /\ to \in Tr!Owner
  BY DEF TransportInv, Tr!TypeOK, Tr!Owner
<1>2. descriptor' = [descriptor EXCEPT ![fd] = to]
  BY DEF Tr!Opens
<1>3. descriptor' \in [Tr!Fd -> Tr!Owner]
  BY <1>1, <1>2
<1>4. descriptor'[fd] = to /\ \A g \in Tr!Fd : g # fd => descriptor'[g] = descriptor[g]
  BY <1>1, <1>2
<1>5. ct # None /\ ct # "engine"
  BY TransportFacts
<1>6. Tr!retired_fd \notin Tr!Fd
  BY TransportFacts DEF Tr!Fd, Tr!retired_fd
<1>7. \A g \in Tr!Fd : descriptor[g] = ct => g = fd
  BY <1>6 DEF TransportInv, Tr!DescriptorsOwned
<1>8. \A g \in Tr!Fd : descriptor'[g] = ct <=> rec.s = g
  BY <1>4, <1>5, <1>6, <1>7
<1>9. ASSUME NEW g \in Tr!Fd, NEW any \in Connecter \union Listener, any # ct
      PROVE  descriptor'[g] = any <=> descriptor[g] = any
  <2>1. any # None /\ any # "engine"
    BY TransportFacts
  <2> QED BY <1>4, <1>9, <2>1
<1> QED BY <1>3, <1>8, <1>9 DEF DescriptorsAfter

LEMMA DescriptorsKept ==
  ASSUME TransportInv, NEW ct \in Connecter, NEW rec, UNCHANGED descriptor,
         connecter[ct].s = Tr!retired_fd, rec.s = Tr!retired_fd
  PROVE  DescriptorsAfter(ct, rec)
<1>1. Tr!retired_fd \notin Tr!Fd
  BY TransportFacts DEF Tr!Fd, Tr!retired_fd
<1>2. \A g \in Tr!Fd : descriptor[g] # ct
  BY <1>1 DEF TransportInv, Tr!DescriptorsOwned
<1>3. descriptor \in [Tr!Fd -> Tr!Owner]
  BY DEF TransportInv, Tr!TypeOK
<1> QED BY <1>1, <1>2, <1>3 DEF DescriptorsAfter

LEMMA NextInterval ==
  ASSUME NEW ivl \in reconnect_ivl..Tr!Max({reconnect_ivl, reconnect_ivl_max})
  PROVE  Tr!Next_ivl(ivl) \in reconnect_ivl..Tr!Max({reconnect_ivl, reconnect_ivl_max})
<1>1. reconnect_ivl \in Nat /\ reconnect_ivl_max \in Nat
  BY TransportFacts
<1>2. /\ Tr!Max({reconnect_ivl, reconnect_ivl_max}) \in Nat
      /\ Tr!Max({reconnect_ivl, reconnect_ivl_max}) >= reconnect_ivl
      /\ Tr!Max({reconnect_ivl, reconnect_ivl_max}) >= reconnect_ivl_max
  BY <1>1, LargerOfTwo
<1> DEFINE largest == Tr!Max({reconnect_ivl, reconnect_ivl_max})
<1> HIDE DEF largest
<1>3. largest \in Nat /\ largest >= reconnect_ivl /\ largest >= reconnect_ivl_max /\ ivl \in reconnect_ivl..largest
  BY <1>2 DEF largest
<1>4. Tr!Next_ivl(ivl) \in reconnect_ivl..largest
  BY <1>1, <1>3 DEF Tr!Next_ivl, Tr!Doubled
<1> QED BY <1>4 DEF largest

(***************************************************************************)
(* Transport: the steps of the connecters.                                 *)
(***************************************************************************)
LEMMA HandsOver ==
  ASSUME TransportInv, NEW ct \in Connecter, NEW fired, MayAct(ct, fired), NEW fd \in Tr!Fd,
         descriptor[fd] \in {None, ct}, connecter[ct].s \in {Tr!retired_fd, fd}, Tr!Hands_over(ct, fd, fired),
         UNCHANGED <<time, executing, timers_current, timeout, listener, file>>
  PROVE  TransportInv'
<1> DEFINE new == [connecter[ct] EXCEPT !.wait = FALSE, !.handle_valid = FALSE, !.s = Tr!retired_fd, !.state = "done"]
<1>1. ConnecterFine(connecter[ct])
  BY ConnectersFine
<1>2. ConnecterFine(new) /\ ~new.wait /\ new.s = Tr!retired_fd
  BY <1>1 DEF ConnecterFine, ConnecterRecord
<1>3. connecter' = [connecter EXCEPT ![ct] = new]
  BY DEF Tr!Hands_over
<1> HIDE DEF new
<1>4. Tr!Opens("engine", fd) /\ Tr!Unchanged_timers(fired)
  BY DEF Tr!Hands_over
<1>5. TimersAfter(ct, FALSE)
  BY <1>4, TimerKept
<1>6. TimersAfter(ct, new.wait /\ new.state = "plugged")
  BY <1>2, <1>5 DEF TimersAfter
<1>7. "engine" # ct
  BY TransportFacts
<1>8. DescriptorsAfter(ct, new)
  BY <1>2, <1>4, <1>7, DescriptorGiven
<1> QED BY <1>2, <1>3, <1>6, <1>8, ConnecterStep

LEMMA Waits ==
  ASSUME TransportInv, NEW ct \in Connecter, NEW fired, MayAct(ct, fired), Tr!Waiting(ct, fired),
         \/ UNCHANGED descriptor /\ connecter[ct].s = Tr!retired_fd
         \/ connecter[ct].s \in Tr!Fd /\ Tr!Opens(None, connecter[ct].s),
         UNCHANGED <<time, executing, timers_current, timeout, listener, file>>
  PROVE  TransportInv'
<1> DEFINE new == [connecter[ct] EXCEPT !.wait = TRUE, !.handle_valid = FALSE, !.s = Tr!retired_fd,
                                        !.state = "plugged", !.current_reconnect_ivl = Tr!Next_ivl(@)]
<1>1. ConnecterFine(connecter[ct])
  BY ConnectersFine
<1>2. Tr!Next_ivl(connecter[ct].current_reconnect_ivl) \in reconnect_ivl..Tr!Max({reconnect_ivl, reconnect_ivl_max})
  BY <1>1, NextInterval DEF ConnecterFine
<1>3. Tr!Next_ivl(connecter[ct].current_reconnect_ivl) \in Nat
  BY <1>2, TransportFacts, LargerOfTwo
<1>4. ConnecterFine(new) /\ new.wait /\ new.state = "plugged" /\ new.s = Tr!retired_fd
  BY <1>1, <1>2, <1>3 DEF ConnecterFine, ConnecterRecord
<1>5. connecter' = [connecter EXCEPT ![ct] = new] /\ Tr!add_reconnect_timer(ct, fired)
  BY DEF Tr!Waiting
<1> HIDE DEF new
<1>6. TimersAfter(ct, TRUE)
  BY <1>5, TimerAwaited
<1>7. TimersAfter(ct, new.wait /\ new.state = "plugged")
  BY <1>4, <1>6 DEF TimersAfter
<1>8. DescriptorsAfter(ct, new)
  <2>1. CASE UNCHANGED descriptor /\ connecter[ct].s = Tr!retired_fd
    BY <1>4, <2>1, DescriptorsKept
  <2>2. CASE connecter[ct].s \in Tr!Fd /\ Tr!Opens(None, connecter[ct].s)
    <3>1. connecter[ct].s # Tr!retired_fd /\ None # ct
      BY <2>2, TransportFacts DEF Tr!Fd, Tr!retired_fd
    <3>2. descriptor[connecter[ct].s] = ct
      BY <3>1 DEF TransportInv, Tr!DescriptorsOwned
    <3> QED BY <1>4, <2>2, <3>1, <3>2, DescriptorGiven
  <2> QED BY <2>1, <2>2
<1> QED BY <1>4, <1>5, <1>7, <1>8, ConnecterStep

LEMMA StartsConnecting ==
  ASSUME TransportInv, NEW ct \in Connecter, NEW fired, MayAct(ct, fired), connecter[ct].s = Tr!retired_fd,
         Tr!start_connecting(ct, fired), UNCHANGED <<time, executing, timers_current, timeout, listener, file>>
  PROVE  TransportInv'
<1>1. ASSUME NEW fd \in Tr!Free, Tr!Hands_over(ct, fd, fired) PROVE TransportInv'
  <2>1. fd \in Tr!Fd /\ descriptor[fd] = None
    BY DEF Tr!Free
  <2> QED BY <1>1, <2>1, HandsOver
<1>2. ASSUME Tr!Free # {}, Tr!Opens(ct, Tr!Min(Tr!Free)), Tr!Unchanged_timers(fired),
             connecter' = [connecter EXCEPT ![ct] =
               [@ EXCEPT !.wait = FALSE, !.handle_valid = TRUE, !.s = Tr!Min(Tr!Free), !.state = "plugged",
                         !.aborted = connecter[ct].aborted \/ connecter[ct].s # Tr!retired_fd]]
      PROVE  TransportInv'
  <2> DEFINE fd == Tr!Min(Tr!Free)
             new == [connecter[ct] EXCEPT !.wait = FALSE, !.handle_valid = TRUE, !.s = fd, !.state = "plugged",
                                          !.aborted = @ \/ connecter[ct].s # Tr!retired_fd]
  <2>1. fd \in Tr!Fd /\ descriptor[fd] = None
    BY <1>2, LeastFree DEF Tr!Free
  <2>2. fd # Tr!retired_fd
    BY <2>1, TransportFacts DEF Tr!Fd, Tr!retired_fd
  <2>3. connecter' = [connecter EXCEPT ![ct] = new] /\ Tr!Opens(ct, fd)
    BY <1>2
  <2> HIDE DEF fd
  <2>4. ConnecterFine(connecter[ct])
    BY ConnectersFine
  <2>5. ConnecterFine(new) /\ ~new.wait /\ new.s = fd
    BY <2>1, <2>2, <2>4 DEF ConnecterFine, ConnecterRecord
  <2> HIDE DEF new
  <2>6. TimersAfter(ct, FALSE)
    BY <1>2, TimerKept
  <2>7. TimersAfter(ct, new.wait /\ new.state = "plugged")
    BY <2>5, <2>6 DEF TimersAfter
  <2>8. DescriptorsAfter(ct, new)
    BY <2>1, <2>3, <2>5, DescriptorGiven
  <2> QED BY <2>3, <2>5, <2>7, <2>8, ConnecterStep
<1>3. ASSUME Tr!Waiting(ct, fired), UNCHANGED descriptor PROVE TransportInv'
  BY <1>3, Waits
<1> QED BY <1>1, <1>2, <1>3 DEF Tr!start_connecting

LEMMA ConnecterPlugged ==
  ASSUME TransportInv, NEW ct \in Connecter, Tr!process_plug(ct) PROVE TransportInv'
<1>1. UNCHANGED <<time, executing, timers_current, timeout, listener, file>>
  BY DEF Tr!process_plug
<1>2. connecter[ct].state = "unplugged" /\ ConnecterFine(connecter[ct])
  BY ConnectersFine DEF Tr!process_plug
<1>3. connecter[ct].s = Tr!retired_fd
  BY <1>2 DEF ConnecterFine
<1>4. MayAct(ct, 0)
  BY <1>2 DEF TransportInv, TimersAwaited, MayAct
<1>5. CASE Tr!Waiting(ct, 0) /\ UNCHANGED descriptor
  BY <1>1, <1>3, <1>4, <1>5, Waits
<1>6. CASE Tr!start_connecting(ct, 0)
  BY <1>1, <1>3, <1>4, <1>6, StartsConnecting
<1> QED BY <1>5, <1>6 DEF Tr!process_plug

LEMMA AttemptEnded ==
  ASSUME TransportInv, NEW ct \in Connecter, Tr!out_event(ct) PROVE TransportInv'
<1>1. UNCHANGED <<time, executing, timers_current, timeout, listener, file>>
  BY DEF Tr!out_event
<1>2. connecter[ct].handle_valid /\ ConnecterFine(connecter[ct])
  BY ConnectersFine DEF Tr!out_event
<1>3. connecter[ct].s \in Tr!Fd /\ ~connecter[ct].wait
  BY <1>2 DEF ConnecterFine, ConnecterRecord
<1>4. descriptor[connecter[ct].s] = ct
  BY <1>2 DEF TransportInv, Tr!DescriptorsOwned, ConnecterFine
<1>5. MayAct(ct, 0)
  BY <1>3 DEF TransportInv, TimersAwaited, MayAct
<1>6. CASE Tr!Hands_over(ct, connecter[ct].s, 0)
  BY <1>1, <1>3, <1>4, <1>5, <1>6, HandsOver
<1>7. CASE Tr!Waiting(ct, 0) /\ descriptor' = [descriptor EXCEPT ![connecter[ct].s] = None]
  BY <1>1, <1>3, <1>5, <1>7, Waits DEF Tr!Opens
<1> QED BY <1>6, <1>7 DEF Tr!out_event

LEMMA ConnecterDestroyed ==
  ASSUME TransportInv, NEW ct \in Connecter, Tr!Destroyed(ct) PROVE TransportInv'
<1> DEFINE new == [connecter[ct] EXCEPT !.state = "gone", !.wait = FALSE, !.handle_valid = FALSE, !.s = Tr!retired_fd,
                                        !.aborted = connecter[ct].aborted \/ (connecter[ct].wait /\ ~Tr!HasTimer(ct))]
<1>1. UNCHANGED <<time, executing, timers_current, timeout, listener, file>> /\ UNCHANGED <<last_time, it>>
  BY DEF Tr!Destroyed
<1>2. timers \in Seq(Timer) /\ Ordered(timers) /\ OneEach(timers)
  BY TimersTyped
<1>3. ConnecterFine(connecter[ct]) /\ connecter[ct].state # "unplugged"
  BY ConnectersFine DEF Tr!Destroyed
<1>4. Tr!HasTimer(ct) <=> Has(timers, ct)
  BY DEF Tr!HasTimer, Has
<1>5. connecter[ct].wait <=> Has(timers, ct)
  BY <1>3 DEF ConnecterFine, TransportInv, TimersAwaited
<1>6. ConnecterFine(new) /\ ~new.wait /\ new.s = Tr!retired_fd
  BY <1>3, <1>4, <1>5 DEF ConnecterFine, ConnecterRecord
<1>7. connecter' = [connecter EXCEPT ![ct] = new]
  BY DEF Tr!Destroyed
<1> HIDE DEF new
<1>8. TimersAfter(ct, FALSE)
  <2>1. it' = 0 /\ last_time' \in Int /\ last_time' <= time /\ (executing => timers_current <= last_time')
    BY <1>1 DEF TransportInv, ClockForward, Tr!TypeOK
  <2>2. CASE Has(timers, ct)
    <3>1. Tr!PlaceOf(ct) \in 1..Len(timers) /\ timers[Tr!PlaceOf(ct)].sink = ct
      BY <2>2 DEF Has, Tr!PlaceOf
    <3>2. timers' = Tr!RemoveAt(timers, Tr!PlaceOf(ct))
      BY <1>4, <1>5, <2>2 DEF Tr!Destroyed
    <3>3. timers' \in Seq(Timer) /\ Ordered(timers') /\ OneEach(timers')
      BY <1>2, <3>1, <3>2, TimerErased
    <3>4. \A any \in Connecter : Has(timers', any) <=> Has(timers, any) /\ any # ct
      BY <1>2, <3>1, <3>2, TimerErased
    <3> QED BY <2>1, <3>3, <3>4 DEF TimersAfter
  <2>3. CASE ~Has(timers, ct)
    <3>1. timers' = timers
      BY <1>4, <2>3 DEF Tr!Destroyed
    <3> QED BY <1>2, <2>1, <2>3, <3>1 DEF TimersAfter
  <2> QED BY <2>2, <2>3
<1>9. TimersAfter(ct, new.wait /\ new.state = "plugged")
  BY <1>6, <1>8 DEF TimersAfter
<1>10. DescriptorsAfter(ct, new)
  <2>1. descriptor \in [Tr!Fd -> Tr!Owner]
    BY DEF TransportInv, Tr!TypeOK
  <2>2. descriptor' = [fd \in Tr!Fd |-> IF descriptor[fd] = ct THEN None ELSE descriptor[fd]]
    BY DEF Tr!Destroyed
  <2>3. descriptor' \in [Tr!Fd -> Tr!Owner]
    BY <2>1, <2>2 DEF Tr!Owner
  <2>4. None \notin Connecter \union Listener
    BY TransportFacts
  <2>5. \A fd \in Tr!Fd : descriptor'[fd] # ct /\ new.s # fd
    BY <1>6, <2>2, <2>4, TransportFacts DEF Tr!Fd, Tr!retired_fd
  <2>6. \A fd \in Tr!Fd : \A any \in Connecter \union Listener : any # ct => (descriptor'[fd] = any <=> descriptor[fd] = any)
    BY <2>2, <2>4
  <2> QED BY <2>3, <2>5, <2>6 DEF DescriptorsAfter
<1> QED BY <1>1, <1>6, <1>7, <1>9, <1>10, ConnecterStep

LEMMA TimerFires == ASSUME TransportInv, Tr!timer_event PROVE TransportInv'
<1> DEFINE ct == timers[1].sink
<1>1. it = 0 /\ timers \in Seq(Timer)
  BY TimersTyped DEF TransportInv, ClockForward
<1>2. executing /\ Len(timers) > 0 /\ timers[1].at <= timers_current
  BY <1>1 DEF Tr!timer_event
<1>3. Tr!start_connecting(ct, 1)
  BY <1>1 DEF Tr!timer_event
<1>4. UNCHANGED <<time, executing, timers_current, timeout, listener, file>>
  BY DEF Tr!timer_event
<1>5. ct \in Connecter
  BY <1>1, <1>2, TimerTypes
<1>6. MayAct(ct, 1)
  BY <1>2 DEF MayAct
<1>7. Has(timers, ct)
  BY <1>1, <1>2 DEF Has
<1> HIDE DEF ct
<1>8. connecter[ct].wait /\ ConnecterFine(connecter[ct])
  BY <1>5, <1>7, ConnectersFine DEF TransportInv, TimersAwaited
<1>9. connecter[ct].s = Tr!retired_fd
  BY <1>8 DEF ConnecterFine
<1> QED BY <1>3, <1>4, <1>5, <1>6, <1>9, StartsConnecting

(***************************************************************************)
(* Transport: time passes, and the timers are executed.                    *)
(***************************************************************************)
LEMMA ClockStep ==
  ASSUME TransportInv, Tr!ExecuteTimers \/ Tr!Executed \/ Tr!Tick PROVE TransportInv'
<1>1. UNCHANGED <<timers, connecter, listener, descriptor, file>> /\ it' = 0
  BY DEF Tr!ExecuteTimers, Tr!Executed, Tr!Tick, TransportInv, ClockForward
<1>2. Tr!TypeOK /\ ClockForward /\ timers \in Seq(Timer)
  BY TimersTyped DEF TransportInv
<1>3. /\ {time, last_time, timers_current, timeout}' \subseteq Int /\ executing' \in BOOLEAN
      /\ last_time' <= time' /\ (executing' => timers_current' <= last_time')
  <2>1. /\ time \in Int /\ last_time \in Int /\ timers_current \in Int /\ timeout \in Int /\ executing \in BOOLEAN
        /\ it = 0 /\ last_time <= time /\ (executing => timers_current <= last_time)
    BY <1>2 DEF Tr!TypeOK, ClockForward
  <2>2. CASE Tr!ExecuteTimers
    <3>1. /\ time' = time /\ timeout' = timeout /\ executing' = TRUE
          /\ \E now \in Tr!Now : timers_current' = now /\ last_time' = now
      BY <2>2 DEF Tr!ExecuteTimers
    <3>2. \A now \in Tr!Now : now \in Int /\ now <= time
      BY <2>1 DEF Tr!Now
    <3> QED BY <2>1, <3>1, <3>2
  <2>3. CASE Tr!Executed
    <3>1. /\ time' = time /\ last_time' = last_time /\ timers_current' = timers_current /\ executing' = FALSE
          /\ timeout' = IF 0 < Len(timers) THEN timers[1].at - timers_current ELSE 0
      BY <2>1, <2>3 DEF Tr!Executed
    <3>2. 0 < Len(timers) => timers[1].at \in Int
      BY <1>2, TimerTypes
    <3>3. timeout' \in Int
      BY <2>1, <3>1, <3>2
    <3> QED BY <2>1, <3>1, <3>3
  <2>4. CASE Tr!Tick
    <3>1. /\ time' = time + 1 /\ last_time' = last_time /\ timers_current' = timers_current
          /\ timeout' = timeout /\ executing' = executing
      BY <2>4 DEF Tr!Tick
    <3> QED BY <2>1, <3>1
  <2> QED BY <2>2, <2>3, <2>4
<1>4. Tr!TypeOK'
  <2>1. it' \in 0..Len(timers')
    BY <1>1, <1>2
  <2> QED BY <1>1, <1>2, <1>3, <2>1 DEF Tr!TypeOK
<1>5. ClockForward'
  BY <1>1, <1>3 DEF ClockForward
<1>6. TimersOrdered' /\ OneTimerEach' /\ TimersAwaited'
  BY <1>1 DEF TransportInv, TimersOrdered, OneTimerEach, TimersAwaited, Ordered, OneEach, Has
<1>7. ConnecterStates' /\ Tr!NeverAborts' /\ Tr!BackoffBounded'
  BY <1>1 DEF TransportInv, ConnecterStates, Tr!NeverAborts, Tr!BackoffBounded, Tr!retired_fd
<1>8. ListenerStates' /\ OneFile' /\ Tr!DescriptorsOwned' /\ Tr!FileLeadsToListener'
  BY <1>1 DEF TransportInv, ListenerStates, OneFile, Tr!DescriptorsOwned, Tr!FileLeadsToListener, Tr!Ipc,
              Tr!retired_fd, Tr!Fd
<1> QED BY <1>4, <1>5, <1>6, <1>7, <1>8 DEF TransportInv

(***************************************************************************)
(* Transport: the steps of the listeners.                                  *)
(***************************************************************************)
ListenerRecord ==
  [s : Tr!Fd \union {Tr!retired_fd}, has_file : BOOLEAN,
   family : {"tcp", "ipc"}, state : {"unbound", "bound", "plugged", "terminating", "gone"}]

\* What the invariant says of one listener.
ListenerFine(rec) ==
  /\ rec \in ListenerRecord
  /\ rec.s # Tr!retired_fd <=> rec.state \in {"bound", "plugged", "terminating"}
  /\ rec.s # Tr!retired_fd => (rec.has_file <=> rec.family = "ipc")

\* The file is li's from when it is opened until it is closed.
FileAfter(li, rec) ==
  IF rec.family = "ipc" THEN file' \in {li, None} /\ (file' = li <=> rec.s # Tr!retired_fd) ELSE file' = file

LEMMA ListenersFine == TransportInv => \A li \in Listener : ListenerFine(listener[li])
BY DEF TransportInv, Tr!TypeOK, ListenerStates, Tr!Ipc, ListenerFine, ListenerRecord

LEMMA ListenerStep ==
  ASSUME TransportInv, NEW li \in Listener, NEW new,
         ListenerFine(new), DescriptorsAfter(li, new), FileAfter(li, new), new.family = listener[li].family,
         listener' = [listener EXCEPT ![li] = new], UNCHANGED <<Tr!clockVars, connecter>>
  PROVE  TransportInv'
<1>1. UNCHANGED <<time, last_time, timers, executing, timers_current, it, timeout, connecter>>
  BY DEF Tr!clockVars
<1>2. listener \in [Listener -> ListenerRecord] /\ Tr!TypeOK
  BY DEF TransportInv, Tr!TypeOK, ListenerRecord
<1>3. listener' \in [Listener -> ListenerRecord]
  BY <1>2 DEF ListenerFine
<1>4. listener'[li] = new /\ \A any \in Listener : any # li => listener'[any] = listener[any]
  BY <1>2
<1>5. \A any \in Listener : ListenerFine(listener'[any]) /\ listener'[any].family = listener[any].family
  BY <1>4, ListenersFine
<1>6. Tr!TypeOK'
  <2>1. descriptor' \in [Tr!Fd -> Tr!Owner]
    BY DEF DescriptorsAfter
  <2>2. file' \in Listener \union {None}
    BY <1>2 DEF FileAfter, Tr!TypeOK
  <2>3. it' \in 0..Len(timers')
    BY <1>1, <1>2 DEF Tr!TypeOK
  <2> QED BY <1>1, <1>2, <1>3, <2>1, <2>2, <2>3 DEF Tr!TypeOK, ListenerRecord
<1>7. TimersOrdered' /\ OneTimerEach' /\ TimersAwaited' /\ ClockForward'
  BY <1>1 DEF TransportInv, TimersOrdered, OneTimerEach, TimersAwaited, Ordered, OneEach, Has, ClockForward
<1>8. ConnecterStates' /\ Tr!NeverAborts' /\ Tr!BackoffBounded'
  BY <1>1 DEF TransportInv, ConnecterStates, Tr!NeverAborts, Tr!BackoffBounded, Tr!retired_fd
<1>9. \A fd \in Tr!Fd : fd # Tr!retired_fd
  BY TransportFacts DEF Tr!Fd, Tr!retired_fd
<1>10. ListenerStates'
  <2> SUFFICES ASSUME NEW any \in Listener
               PROVE  listener'[any].s # Tr!retired_fd => descriptor'[listener'[any].s] = any
    BY <1>5 DEF ListenerStates, ListenerFine, Tr!Ipc, Tr!retired_fd
  <2>1. listener'[any].s \in Tr!Fd \union {Tr!retired_fd}
    BY <1>3 DEF ListenerRecord
  <2>2. CASE any = li
    BY <1>4, <2>1, <2>2 DEF DescriptorsAfter
  <2>3. CASE any # li
    BY <1>4, <2>1, <2>3 DEF DescriptorsAfter, TransportInv, ListenerStates
  <2> QED BY <2>2, <2>3
<1>11. OneFile'
  BY <1>5 DEF TransportInv, OneFile, Tr!Ipc
<1>12. Tr!FileLeadsToListener'
  <2> SUFFICES ASSUME NEW any \in Listener, listener'[any].family = "ipc"
               PROVE  listener'[any].s # Tr!retired_fd <=> file' = any
    BY DEF Tr!FileLeadsToListener, Tr!Ipc, Tr!retired_fd
  <2>1. CASE any = li
    BY <1>4, <2>1 DEF FileAfter
  <2>2. CASE any # li
    <3>1. listener[any].family = "ipc"
      BY <1>5
    <3>2. new.family # "ipc"
      BY <1>4, <2>2, <3>1 DEF TransportInv, OneFile, Tr!Ipc
    <3> QED BY <1>4, <2>2, <3>1, <3>2 DEF FileAfter, TransportInv, Tr!FileLeadsToListener, Tr!Ipc
  <2> QED BY <2>1, <2>2
<1>13. Tr!DescriptorsOwned'
  <2>1. \A ct \in Connecter : ct # li /\ ct \in Connecter \union Listener
    BY TransportFacts
  <2>2. \A ct \in Connecter : connecter[ct].s \in Tr!Fd \union {Tr!retired_fd}
    BY <1>2 DEF Tr!TypeOK
  <2>3. \A ct \in Connecter : connecter'[ct].s # Tr!retired_fd => descriptor'[connecter'[ct].s] = ct
    BY <1>1, <2>1, <2>2 DEF DescriptorsAfter, TransportInv, Tr!DescriptorsOwned
  <2>4. \A fd \in Tr!Fd : \A ct \in Connecter :
          descriptor'[fd] = ct => connecter'[ct].s = fd /\ connecter'[ct].handle_valid
    BY <1>1, <2>1 DEF DescriptorsAfter, TransportInv, Tr!DescriptorsOwned
  <2>5. ASSUME NEW fd \in Tr!Fd, NEW any \in Listener, descriptor'[fd] = any PROVE listener'[any].s = fd
    <3>1. CASE any = li
      BY <1>4, <2>5, <3>1 DEF DescriptorsAfter
    <3>2. CASE any # li
      BY <1>4, <2>5, <3>2 DEF DescriptorsAfter, TransportInv, Tr!DescriptorsOwned
    <3> QED BY <3>1, <3>2
  <2> QED BY <2>3, <2>4, <2>5 DEF Tr!DescriptorsOwned, Tr!retired_fd, Tr!Fd
<1> QED BY <1>6, <1>7, <1>8, <1>10, <1>11, <1>12, <1>13 DEF TransportInv

LEMMA AddressSet ==
  ASSUME TransportInv, NEW li \in Listener, Tr!set_address(li) PROVE TransportInv'
<1>1. ListenerFine(listener[li]) /\ listener[li].state = "unbound" /\ listener[li].s = Tr!retired_fd
  BY ListenersFine DEF Tr!set_address, ListenerFine
<1>2. UNCHANGED <<Tr!clockVars, connecter>>
  BY DEF Tr!set_address
<1>3. li # None /\ Tr!retired_fd \notin Tr!Fd
  BY TransportFacts DEF Tr!Fd, Tr!retired_fd
<1>4. \A g \in Tr!Fd : descriptor[g] # li
  BY <1>1, <1>3 DEF TransportInv, Tr!DescriptorsOwned
<1>5. descriptor \in [Tr!Fd -> Tr!Owner] /\ li \in Tr!Owner
  BY DEF TransportInv, Tr!TypeOK, Tr!Owner
<1>6. ASSUME Tr!Free # {}, Tr!Opens(li, Tr!Min(Tr!Free)), file' = (IF Tr!Ipc(li) THEN li ELSE file),
             listener' = [listener EXCEPT ![li] = [@ EXCEPT !.s = Tr!Min(Tr!Free), !.has_file = Tr!Ipc(li), !.state = "bound"]]
      PROVE  TransportInv'
  <2> DEFINE fd == Tr!Min(Tr!Free)
             new == [listener[li] EXCEPT !.s = fd, !.has_file = Tr!Ipc(li), !.state = "bound"]
  <2>1. fd \in Tr!Fd /\ descriptor[fd] = None
    BY <1>6, LeastFree DEF Tr!Free
  <2>2. listener' = [listener EXCEPT ![li] = new] /\ descriptor' = [descriptor EXCEPT ![fd] = li]
    BY <1>6 DEF Tr!Opens
  <2> HIDE DEF fd
  <2>3. ListenerFine(new) /\ new.s = fd /\ new.family = listener[li].family
    BY <1>1, <1>3, <2>1 DEF ListenerFine, ListenerRecord, Tr!Ipc
  <2> HIDE DEF new
  <2>4. FileAfter(li, new)
    BY <1>3, <1>6, <2>1, <2>3 DEF FileAfter, Tr!Ipc
  <2>5. descriptor' \in [Tr!Fd -> Tr!Owner] /\ \A g \in Tr!Fd : descriptor'[g] = li <=> new.s = g
    BY <1>4, <1>5, <2>1, <2>2, <2>3
  <2>6. \A g \in Tr!Fd : \A any \in Connecter \union Listener : any # li => (descriptor'[g] = any <=> descriptor[g] = any)
    BY <1>5, <2>1, <2>2, TransportFacts
  <2>7. DescriptorsAfter(li, new)
    BY <2>5, <2>6 DEF DescriptorsAfter
  <2> QED BY <1>2, <2>2, <2>3, <2>4, <2>7, ListenerStep
<1>7. ASSUME listener' = [listener EXCEPT ![li].state = "gone"], file' = (IF Tr!Ipc(li) THEN None ELSE file),
             UNCHANGED descriptor
      PROVE  TransportInv'
  <2> DEFINE new == [listener[li] EXCEPT !.state = "gone"]
  <2>1. listener' = [listener EXCEPT ![li] = new]
    BY <1>7
  <2>2. ListenerFine(new) /\ new.s = Tr!retired_fd /\ new.family = listener[li].family
    BY <1>1 DEF ListenerFine, ListenerRecord
  <2> HIDE DEF new
  <2>3. FileAfter(li, new)
    BY <1>3, <1>7, <2>2 DEF FileAfter, Tr!Ipc
  <2>4. DescriptorsAfter(li, new)
    BY <1>3, <1>4, <1>5, <1>7, <2>2 DEF DescriptorsAfter
  <2> QED BY <1>2, <2>1, <2>2, <2>3, <2>4, ListenerStep
<1> QED BY <1>6, <1>7 DEF Tr!set_address

\* Its descriptor stays and so does the file.
LEMMA ListenerMoves ==
  ASSUME TransportInv, NEW li \in Listener, Tr!Plug_listener(li) \/ Tr!process_term(li) PROVE TransportInv'
<1> DEFINE next == IF listener[li].state = "bound" THEN "plugged" ELSE "terminating"
           new == [listener[li] EXCEPT !.state = next]
<1>1. /\ listener[li].state \in {"bound", "plugged"}
      /\ listener' = [listener EXCEPT ![li] = new]
      /\ UNCHANGED <<Tr!clockVars, connecter>> /\ UNCHANGED <<descriptor, file>>
  BY DEF Tr!Plug_listener, Tr!process_term
<1>2. ListenerFine(listener[li])
  BY ListenersFine
<1>3. /\ ListenerFine(new) /\ new.s = listener[li].s /\ new.s # Tr!retired_fd /\ new.s \in Tr!Fd
      /\ new.family = listener[li].family
  BY <1>1, <1>2 DEF ListenerFine, ListenerRecord
<1> HIDE DEF new
<1>4. file \in Listener \union {None} /\ descriptor \in [Tr!Fd -> Tr!Owner]
  BY DEF TransportInv, Tr!TypeOK
<1>5. FileAfter(li, new)
  BY <1>1, <1>3 DEF FileAfter, TransportInv, Tr!FileLeadsToListener, Tr!Ipc
<1>6. DescriptorsAfter(li, new)
  BY <1>1, <1>3, <1>4 DEF DescriptorsAfter, TransportInv, ListenerStates, Tr!DescriptorsOwned
<1> QED BY <1>1, <1>3, <1>5, <1>6, ListenerStep

LEMMA ListenerCloses ==
  ASSUME TransportInv, NEW li \in Listener, Tr!Close(li) PROVE TransportInv'
<1> DEFINE new == [listener[li] EXCEPT !.state = "gone", !.s = Tr!retired_fd]
<1>1. ListenerFine(listener[li]) /\ listener[li].state = "terminating"
  BY ListenersFine DEF Tr!Close
<1>2. listener[li].s \in Tr!Fd /\ (listener[li].has_file <=> listener[li].family = "ipc")
  BY <1>1 DEF ListenerFine, ListenerRecord
<1>3. listener \in [Listener -> ListenerRecord]
  BY DEF TransportInv, Tr!TypeOK, ListenerRecord
<1>4. listener' = [listener EXCEPT ![li] = new] /\ UNCHANGED <<Tr!clockVars, connecter>>
  BY <1>3 DEF Tr!Close, ListenerRecord
<1>5. ListenerFine(new) /\ new.s = Tr!retired_fd /\ new.family = listener[li].family
  BY <1>1 DEF ListenerFine, ListenerRecord
<1> HIDE DEF new
<1>6. None # li /\ None \notin Connecter \union Listener /\ Tr!retired_fd \notin Tr!Fd
  BY TransportFacts DEF Tr!Fd, Tr!retired_fd
<1>7. FileAfter(li, new)
  BY <1>2, <1>5, <1>6 DEF FileAfter, Tr!Close
<1>8. descriptor[listener[li].s] = li /\ \A g \in Tr!Fd : descriptor[g] = li => g = listener[li].s
  BY <1>2, <1>6 DEF TransportInv, ListenerStates, Tr!DescriptorsOwned
<1>9. descriptor' = [descriptor EXCEPT ![listener[li].s] = None] /\ descriptor \in [Tr!Fd -> Tr!Owner]
  BY DEF Tr!Close, TransportInv, Tr!TypeOK
<1>10. descriptor' \in [Tr!Fd -> Tr!Owner]
  BY <1>2, <1>9 DEF Tr!Owner
<1>11. \A g \in Tr!Fd : descriptor'[g] # li /\ new.s # g
  BY <1>2, <1>5, <1>6, <1>8, <1>9
<1>12. \A g \in Tr!Fd : \A any \in Connecter \union Listener : any # li => (descriptor'[g] = any <=> descriptor[g] = any)
  BY <1>2, <1>6, <1>8, <1>9
<1>13. DescriptorsAfter(li, new)
  BY <1>10, <1>11, <1>12 DEF DescriptorsAfter
<1> QED BY <1>4, <1>5, <1>7, <1>13, ListenerStep

\* A descriptor goes to an engine or comes back from it.
LEMMA EngineStep ==
  ASSUME TransportInv, NEW fd \in Tr!Fd, descriptor[fd] \in {None, "engine"}, NEW to \in {None, "engine"},
         descriptor' = [descriptor EXCEPT ![fd] = to], UNCHANGED <<Tr!clockVars, connecter, listener, file>>
  PROVE  TransportInv'
<1>1. UNCHANGED <<time, last_time, timers, executing, timers_current, it, timeout, connecter, listener, file>>
  BY DEF Tr!clockVars
<1>2. Tr!TypeOK
  BY DEF TransportInv
<1>3. descriptor' \in [Tr!Fd -> Tr!Owner]
  BY <1>2 DEF Tr!TypeOK, Tr!Owner
<1>4. \A g \in Tr!Fd : \A any \in Connecter \union Listener : descriptor'[g] = any <=> descriptor[g] = any
  BY <1>2, TransportFacts DEF Tr!TypeOK
<1>5. Tr!TypeOK'
  BY <1>1, <1>2, <1>3 DEF Tr!TypeOK
<1>6. TimersOrdered' /\ OneTimerEach' /\ TimersAwaited' /\ ClockForward'
  BY <1>1 DEF TransportInv, TimersOrdered, OneTimerEach, TimersAwaited, Ordered, OneEach, Has, ClockForward
<1>7. ConnecterStates' /\ Tr!NeverAborts' /\ Tr!BackoffBounded' /\ OneFile' /\ Tr!FileLeadsToListener'
  BY <1>1 DEF TransportInv, ConnecterStates, Tr!NeverAborts, Tr!BackoffBounded, Tr!retired_fd, OneFile, Tr!Ipc,
              Tr!FileLeadsToListener
<1>8. /\ \A ct \in Connecter : connecter[ct].s \in Tr!Fd \union {Tr!retired_fd}
      /\ \A li \in Listener : listener[li].s \in Tr!Fd \union {Tr!retired_fd}
  BY <1>2 DEF Tr!TypeOK
<1>9. Tr!DescriptorsOwned'
  BY <1>1, <1>4, <1>8 DEF TransportInv, Tr!DescriptorsOwned, Tr!retired_fd, Tr!Fd
<1>10. ListenerStates'
  BY <1>1, <1>4, <1>8 DEF TransportInv, ListenerStates, Tr!retired_fd, Tr!Ipc
<1> QED BY <1>5, <1>6, <1>7, <1>9, <1>10 DEF TransportInv

(***************************************************************************)
(* Transport: the invariant holds.                                         *)
(***************************************************************************)
LEMMA TransportKept == TransportInv /\ [Tr!Next]_(Tr!vars) => TransportInv'
<1> SUFFICES ASSUME TransportInv, [Tr!Next]_(Tr!vars) PROVE TransportInv'
  OBVIOUS
<1>1. ASSUME NEW ct \in Connecter, Tr!process_plug(ct) PROVE TransportInv'
  BY <1>1, ConnecterPlugged
<1>2. ASSUME NEW ct \in Connecter, Tr!out_event(ct) PROVE TransportInv'
  BY <1>2, AttemptEnded
<1>3. ASSUME NEW ct \in Connecter, Tr!Destroyed(ct) PROVE TransportInv'
  BY <1>3, ConnecterDestroyed
<1>4. CASE Tr!ExecuteTimers \/ Tr!Executed \/ Tr!Tick
  BY <1>4, ClockStep
<1>5. CASE Tr!timer_event
  BY <1>5, TimerFires
<1>6. ASSUME NEW li \in Listener, Tr!set_address(li) PROVE TransportInv'
  BY <1>6, AddressSet
<1>7. ASSUME NEW li \in Listener, Tr!Plug_listener(li) \/ Tr!process_term(li) PROVE TransportInv'
  BY <1>7, ListenerMoves
<1>8. ASSUME NEW li \in Listener, Tr!in_event(li) PROVE TransportInv'
  <2>1. Tr!Min(Tr!Free) \in Tr!Fd /\ descriptor[Tr!Min(Tr!Free)] = None
    BY <1>8, LeastFree DEF Tr!in_event, Tr!accept, Tr!Free
  <2>2. descriptor' = [descriptor EXCEPT ![Tr!Min(Tr!Free)] = "engine"]
    BY <1>8 DEF Tr!in_event, Tr!accept, Tr!Opens
  <2>3. UNCHANGED <<Tr!clockVars, connecter, listener, file>>
    BY <1>8 DEF Tr!in_event
  <2> QED BY <2>1, <2>2, <2>3, EngineStep
<1>9. ASSUME NEW li \in Listener, Tr!Close(li) PROVE TransportInv'
  BY <1>9, ListenerCloses
<1>10. ASSUME NEW fd \in Tr!Fd, Tr!EngineClosed(fd) PROVE TransportInv'
  BY <1>10, EngineStep DEF Tr!EngineClosed
<1>11. CASE UNCHANGED Tr!vars
  <2>1. UNCHANGED <<time, last_time, timers, executing, timers_current, it, timeout, connecter, listener, descriptor, file>>
    BY <1>11 DEF Tr!vars, Tr!clockVars
  <2>2. Tr!TypeOK'
    BY <2>1 DEF TransportInv, Tr!TypeOK
  <2>3. TimersOrdered' /\ OneTimerEach' /\ TimersAwaited' /\ ClockForward'
    BY <2>1 DEF TransportInv, TimersOrdered, OneTimerEach, TimersAwaited, Ordered, OneEach, Has, ClockForward
  <2>4. ConnecterStates' /\ Tr!NeverAborts' /\ Tr!BackoffBounded'
    BY <2>1 DEF TransportInv, ConnecterStates, Tr!NeverAborts, Tr!BackoffBounded, Tr!retired_fd
  <2>5. ListenerStates' /\ OneFile' /\ Tr!DescriptorsOwned' /\ Tr!FileLeadsToListener'
    BY <2>1 DEF TransportInv, ListenerStates, OneFile, Tr!DescriptorsOwned, Tr!FileLeadsToListener, Tr!Ipc,
                Tr!retired_fd, Tr!Fd
  <2> QED BY <2>2, <2>3, <2>4, <2>5 DEF TransportInv
<1> QED BY <1>1, <1>2, <1>3, <1>4, <1>5, <1>6, <1>7, <1>8, <1>9, <1>10, <1>11 DEF Tr!Next

LEMMA TransportBegins == Tr!Init => TransportInv
<1> SUFFICES ASSUME Tr!Init PROVE TransportInv
  OBVIOUS
<1>1. /\ timers = <<>> /\ it = 0 /\ time = 0 /\ last_time = 0 /\ timers_current = 0 /\ timeout = 0 /\ executing = FALSE
      /\ descriptor = [fd \in Tr!Fd |-> None] /\ file = None
  BY DEF Tr!Init
<1>2. Tr!retired_fd \notin Tr!Fd /\ None \notin Connecter \union Listener
  BY TransportFacts DEF Tr!Fd, Tr!retired_fd
<1>3. \A ct \in Connecter : ConnecterFine(connecter[ct]) /\ connecter[ct].state = "unplugged" /\ connecter[ct].s = Tr!retired_fd
  <2> SUFFICES ASSUME NEW ct \in Connecter
               PROVE  ConnecterFine(connecter[ct]) /\ connecter[ct].state = "unplugged" /\ connecter[ct].s = Tr!retired_fd
    OBVIOUS
  <2>1. PICK waits \in BOOLEAN :
          connecter[ct] = [wait |-> waits, handle_valid |-> FALSE, s |-> Tr!retired_fd,
                           current_reconnect_ivl |-> reconnect_ivl, state |-> "unplugged", aborted |-> FALSE]
    BY DEF Tr!Init
  <2>2. reconnect_ivl \in Nat /\ reconnect_ivl_max \in Nat
    BY TransportFacts
  <2>3. reconnect_ivl \in reconnect_ivl..Tr!Max({reconnect_ivl, reconnect_ivl_max})
    BY <2>2, LargerOfTwo
  <2> QED BY <2>1, <2>2, <2>3 DEF ConnecterFine, ConnecterRecord
<1>4. connecter \in [Connecter -> ConnecterRecord]
  <2>1. connecter = [ct \in Connecter |-> connecter[ct]]
    BY DEF Tr!Init
  <2> QED BY <1>3, <2>1 DEF ConnecterFine
<1>5. \A li \in Listener : ListenerFine(listener[li]) /\ listener[li].s = Tr!retired_fd
  <2> SUFFICES ASSUME NEW li \in Listener PROVE ListenerFine(listener[li]) /\ listener[li].s = Tr!retired_fd
    OBVIOUS
  <2>1. PICK family \in {"tcp", "ipc"} :
          listener[li] = [s |-> Tr!retired_fd, has_file |-> FALSE, family |-> family, state |-> "unbound"]
    BY DEF Tr!Init
  <2> QED BY <2>1 DEF ListenerFine, ListenerRecord
<1>6. listener \in [Listener -> ListenerRecord]
  <2>1. listener = [li \in Listener |-> listener[li]]
    BY DEF Tr!Init
  <2> QED BY <1>5, <2>1 DEF ListenerFine
<1>7. Tr!TypeOK
  <2>1. timers \in Seq([at : Int, sink : Connecter]) /\ it \in 0..Len(timers)
    BY <1>1
  <2>2. descriptor \in [Tr!Fd -> Tr!Owner]
    BY <1>1 DEF Tr!Owner
  <2>3. {time, last_time, timers_current, timeout} \subseteq Int /\ executing \in BOOLEAN /\ file \in Listener \union {None}
    <3>1. 0 \in Int
      OBVIOUS
    <3> QED BY <1>1, <3>1
  <2> QED BY <1>4, <1>6, <2>1, <2>2, <2>3 DEF Tr!TypeOK, ConnecterRecord, ListenerRecord
<1>8. TimersOrdered /\ OneTimerEach /\ TimersAwaited /\ ClockForward
  BY <1>1, <1>3 DEF TimersOrdered, OneTimerEach, TimersAwaited, Ordered, OneEach, Has, ClockForward
<1>9. ConnecterStates /\ Tr!NeverAborts /\ Tr!BackoffBounded
  BY <1>3 DEF ConnecterFine, ConnecterStates, Tr!NeverAborts, Tr!BackoffBounded
<1>10. ListenerStates /\ Tr!DescriptorsOwned /\ Tr!FileLeadsToListener
  BY <1>1, <1>2, <1>3, <1>5 DEF ListenerFine, ListenerStates, Tr!DescriptorsOwned, Tr!FileLeadsToListener
<1>11. OneFile
  <2> DEFINE files == {li \in Listener : listener[li].family = "ipc"}
  <2>1. Tr!Cardinality(files) <= 1
    BY DEF Tr!Init
  <2>2. Cardinality(files) = Tr!Cardinality(files)
    BY DEF Cardinality, Tr!Cardinality
  <2>3. IsFiniteSet(files)
    BY TransportFacts, FS_Subset
  <2> SUFFICES ASSUME NEW li \in files, NEW lj \in files, li # lj PROVE FALSE
    BY DEF OneFile, Tr!Ipc
  <2> HIDE DEF files
  <2>4. Cardinality({li, lj}) = 2
    <3>1. IsFiniteSet({li}) /\ Cardinality({li}) = 1
      BY FS_Singleton
    <3>2. Cardinality({li} \union {lj}) = 1 + 1
      BY <3>1, FS_AddElement
    <3>3. {li} \union {lj} = {li, lj}
      OBVIOUS
    <3> QED BY <3>2, <3>3
  <2>5. Cardinality({li, lj}) <= Cardinality(files)
    BY <2>3, FS_Subset
  <2>6. Cardinality(files) \in Nat
    BY <2>3, FS_CardinalityType
  <2> QED BY <2>1, <2>2, <2>4, <2>5, <2>6
<1> QED BY <1>7, <1>8, <1>9, <1>10, <1>11 DEF TransportInv

\* What the connecters and listeners promise follows: a connecter that waits has
\* exactly one timer.
LEMMA TransportPromised == TransportInv => Tr!TransportSound
<1> SUFFICES ASSUME TransportInv PROVE Tr!TransportSound
  OBVIOUS
<1>1. ASSUME NEW ct \in Connecter
      PROVE  Tr!Cardinality({k \in 1..Len(timers) : timers[k].sink = ct})
               = IF connecter[ct].wait /\ connecter[ct].state = "plugged" THEN 1 ELSE 0
  <2> DEFINE mine == {k \in 1..Len(timers) : timers[k].sink = ct}
  <2>1. Cardinality(mine) = Tr!Cardinality(mine)
    BY DEF Cardinality, Tr!Cardinality
  <2>2. CASE Has(timers, ct)
    <3>1. PICK k \in 1..Len(timers) : timers[k].sink = ct
      BY <2>2 DEF Has
    <3>2. mine = {k}
      BY <3>1 DEF TransportInv, OneTimerEach, OneEach
    <3>3. Cardinality(mine) = 1
      BY <3>2, FS_Singleton
    <3> QED BY <2>1, <2>2, <3>3 DEF TransportInv, TimersAwaited
  <2>3. CASE ~Has(timers, ct)
    <3>1. mine = {}
      BY <2>3 DEF Has
    <3>2. Cardinality(mine) = 0
      BY <3>1, FS_EmptySet
    <3> QED BY <2>1, <2>3, <3>2 DEF TransportInv, TimersAwaited
  <2> QED BY <2>2, <2>3
<1>2. Tr!TimerWhileWaiting
  BY <1>1 DEF Tr!TimerWhileWaiting
<1> QED BY <1>2 DEF Tr!TransportSound, TransportInv

LEMMA TransportInvariant == ConnectionsSpec => []TransportInv
<1>1. ConnectionsInit => TransportInv
  BY TransportBegins DEF ConnectionsInit
<1>2. TransportInv /\ [ConnectionsNext]_connectionsVars => TransportInv'
  BY TransportAlone, TransportKept
<1> QED BY <1>1, <1>2, PTL DEF ConnectionsSpec

\* poller_base.cpp: the timers are in the order of their times, so that none is due
\* before the first that execute_timers leaves.
LEMMA TimersExecuted ==
  TransportInv /\ [Tr!Next]_(Tr!vars) =>
    [executing /\ ~executing' /\ timers # <<>> =>
       timeout' > 0 /\ \A k \in 1..Len(timers) : timeout' <= timers[k].at - timers_current]_(Tr!vars)
<1> SUFFICES ASSUME TransportInv, Tr!Next, executing, ~executing', timers # <<>>
             PROVE  timeout' > 0 /\ \A k \in 1..Len(timers) : timeout' <= timers[k].at - timers_current
  OBVIOUS
<1>1. Tr!Executed
  BY DEF Tr!Next, Tr!process_plug, Tr!out_event, Tr!Destroyed, Tr!ExecuteTimers, Tr!timer_event, Tr!Tick,
         Tr!set_address, Tr!Plug_listener, Tr!in_event, Tr!process_term, Tr!Close, Tr!EngineClosed, Tr!clockVars
<1>2. it = 0 /\ timers_current \in Int /\ timers \in Seq(Timer) /\ Ordered(timers)
  BY TimersTyped DEF TransportInv, ClockForward, Tr!TypeOK
<1>3. Len(timers) > 0
  BY <1>2
<1>4. \A k \in 1..Len(timers) : timers[k].at \in Int
  BY <1>2, TimerTypes
<1>5. timers[1].at > timers_current /\ timeout' = timers[1].at - timers_current
  BY <1>1, <1>2, <1>3 DEF Tr!Executed
<1>6. \A k \in 1..Len(timers) : timers[1].at <= timers[k].at
  BY <1>2, <1>3 DEF Ordered
<1> QED BY <1>2, <1>3, <1>4, <1>5, <1>6

\* poller_base.cpp: whatever timers the connecters add and cancel, the poller never
\* waits longer than until the first of them is due.
THEOREM NoneForgottenHolds == ConnectionsSpec => NoneForgotten
<1>1. TransportInv /\ [ConnectionsNext]_connectionsVars =>
        [executing /\ ~executing' /\ timers # <<>> =>
           timeout' > 0 /\ \A k \in 1..Len(timers) : timeout' <= timers[k].at - timers_current]_(Tr!vars)
  BY TransportAlone, TimersExecuted
<1> QED BY <1>1, TransportInvariant, PTL DEF ConnectionsSpec, NoneForgotten, Tr!NoneForgotten

(***************************************************************************)
(* Multicast: sequences of calls.                                          *)
(***************************************************************************)
LEMMA JoinedSequences ==
  ASSUME NEW T, NEW before \in Seq(T), NEW after \in Seq(T)
  PROVE  /\ before \o after \in Seq(T) /\ Len(before \o after) = Len(before) + Len(after)
         /\ \A k \in 1..Len(before) : (before \o after)[k] = before[k]
         /\ \A k \in Len(before) + 1..Len(before) + Len(after) : (before \o after)[k] = after[k - Len(before)]
<1>1. before \o after \in Seq(T) /\ Len(before \o after) = Len(before) + Len(after)
  OBVIOUS
<1>2. \A k \in 1..Len(before) : (before \o after)[k] = before[k]
  OBVIOUS
<1>3. \A k \in Len(before) + 1..Len(before) + Len(after) : (before \o after)[k] = after[k - Len(before)]
  OBVIOUS
<1> QED BY <1>1, <1>2, <1>3

(***************************************************************************)
(* Multicast: the calls of init, and where each of them is in the row.     *)
(***************************************************************************)
WindowName == {"RXW_SQNS", "TXW_SQNS"}
OptionName ==
  {"RECV_ONLY", "PEER_EXPIRY", "SPMR_EXPIRY", "NAK_BO_IVL", "NAK_RPT_IVL", "NAK_RDATA_IVL", "NAK_DATA_RETRIES",
   "NAK_NCF_RETRIES", "SEND_ONLY", "ODATA_MAX_RTE", "AMBIENT_SPM", "HEARTBEAT_SPM", "UDP_ENCAP_UCAST_PORT",
   "UDP_ENCAP_MCAST_PORT", "RCVBUF", "SNDBUF", "MTU", "JOIN_GROUP", "SEND_GROUP", "MULTICAST_LOOP",
   "MULTICAST_HOPS", "TOS", "NOBLOCK"}
Setting == [call : {"setsockopt"}, name : OptionName, value : Int]
WindowSetting == [call : {"setsockopt"}, name : WindowName, value : Int]
Other == {[call |-> "getaddrinfo"], [call |-> "socket"], [call |-> "gsi_create"], [call |-> "bind3"],
          [call |-> "freeaddrinfo"], [call |-> "connect"]}
AnyCall == Setting \union WindowSetting \union Other

LEMMA MulticastFacts ==
  /\ IntWidth \in {16, 32} /\ NULL # "owned" /\ NULL \notin Nat
  /\ \A o \in Configs :
       /\ o.rate \in Nat /\ o.recovery_ivl \in Nat /\ o.rcvbuf \in Nat /\ o.sndbuf \in Nat /\ o.recovery_ivl_msec \in Int
       /\ o.type \in {"pub", "sub"} /\ o.multicast_loop \in BOOLEAN
  /\ \A net \in Networks :
       net.udp \in BOOLEAN /\ net.ipv6 \in BOOLEAN /\ net.works \in BOOLEAN /\ net.groups \in Nat /\ net.groups > 0
BY ConnectionsAssumption DEF ConnectionsAssumption, Mc!MulticastAssumption

LEMMA AsIntTyped == \A n \in Int : Mc!AsInt(n) \in Int
<1>1. 2^16 = 65536 /\ 2^(16 - 1) = 32768 /\ 2^32 = 4294967296 /\ 2^(32 - 1) = 2147483648
  OBVIOUS
<1> SUFFICES ASSUME NEW n \in Int PROVE Mc!AsInt(n) \in Int
  OBVIOUS
<1>2. CASE IntWidth = 16
  <2>1. Mc!AsInt(n) = ((n + 32768) % 65536) - 32768
    BY <1>1, <1>2 DEF Mc!AsInt
  <2> QED BY <2>1
<1>3. CASE IntWidth = 32
  <2>1. Mc!AsInt(n) = ((n + 2147483648) % 4294967296) - 2147483648
    BY <1>1, <1>3 DEF Mc!AsInt
  <2> QED BY <2>1
<1> QED BY <1>2, <1>3, MulticastFacts

LEMMA AsUnsignedTyped ==
  \A n \in Nat : Mc!AsUnsigned(n) \in Nat /\ (n < 2^IntWidth => Mc!AsUnsigned(n) = n)
<1>1. 2^16 = 65536 /\ 2^32 = 4294967296
  OBVIOUS
<1> SUFFICES ASSUME NEW n \in Nat PROVE Mc!AsUnsigned(n) \in Nat /\ (n < 2^IntWidth => Mc!AsUnsigned(n) = n)
  OBVIOUS
<1>2. CASE IntWidth = 16
  <2>1. Mc!AsUnsigned(n) = n % 65536 /\ 2^IntWidth = 65536
    BY <1>1, <1>2 DEF Mc!AsUnsigned
  <2> QED BY <2>1
<1>3. CASE IntWidth = 32
  <2>1. Mc!AsUnsigned(n) = n % 4294967296 /\ 2^IntWidth = 4294967296
    BY <1>1, <1>3 DEF Mc!AsUnsigned
  <2> QED BY <2>1
<1> QED BY <1>2, <1>3, MulticastFacts

LEMMA SqnsTyped ==
  ASSUME Mc!TypeOK
  PROVE  Mc!compute_sqns(multicast_options) \in Int /\ Mc!max_rte(multicast_options) \in Int
<1> DEFINE o == multicast_options
           interval == IF o.recovery_ivl_msec >= 0 THEN o.recovery_ivl_msec ELSE Mc!AsUnsigned(o.recovery_ivl * 1000)
           sqns == (interval * (o.rate \div 8)) \div 1500
<1>1. o \in Configs
  BY DEF Mc!TypeOK
<1>2. o.rate \in Nat /\ o.recovery_ivl \in Nat /\ o.recovery_ivl_msec \in Int
  BY <1>1, MulticastFacts
<1> HIDE DEF o
<1>3. interval \in Int /\ o.rate \div 8 \in Int
  <2>1. o.recovery_ivl * 1000 \in Nat
    BY <1>2
  <2> QED BY <1>2, <2>1, AsUnsignedTyped
<1>4. (IF sqns = 0 THEN 1 ELSE sqns) \in Int
  BY <1>3
<1>5. Mc!AsUnsigned(o.rate * 1000) \div 8 \in Int
  <2>1. Mc!AsUnsigned(o.rate * 1000) \in Nat
    BY <1>2, AsUnsignedTyped
  <2> QED BY <2>1
<1>6. Mc!AsInt(IF sqns = 0 THEN 1 ELSE sqns) \in Int /\ Mc!AsInt(Mc!AsUnsigned(o.rate * 1000) \div 8) \in Int
  BY <1>4, <1>5, AsIntTyped
<1> QED BY <1>6 DEF Mc!compute_sqns, Mc!max_rte, o

LEMMA BeforeBindCalls ==
  ASSUME Mc!TypeOK
  PROVE  /\ Mc!BeforeBind \in Seq(Setting \union WindowSetting)
         /\ \E k \in 1..Len(Mc!BeforeBind) : \E window \in WindowName :
              Mc!BeforeBind[k] = Mc!Set(window, Mc!compute_sqns(multicast_options))
<1> DEFINE T == Setting \union WindowSetting
           udp == Mc!Only(network.udp, <<Mc!Set("UDP_ENCAP_UCAST_PORT", 1), Mc!Set("UDP_ENCAP_MCAST_PORT", 1)>>)
           rcv == Mc!Only(multicast_options.rcvbuf # 0, <<Mc!Set("RCVBUF", multicast_options.rcvbuf)>>)
           snd == Mc!Only(multicast_options.sndbuf # 0, <<Mc!Set("SNDBUF", multicast_options.sndbuf)>>)
           mtu == <<Mc!Set("MTU", 1500)>>
           own == IF Mc!receiver THEN Mc!ReceiverOptions ELSE Mc!SenderOptions
           first == udp \o rcv \o snd \o mtu
<1>1. multicast_options \in Configs
  BY DEF Mc!TypeOK
<1>2. multicast_options.rcvbuf \in Int /\ multicast_options.sndbuf \in Int
  BY <1>1, MulticastFacts
<1>3. \A nm \in OptionName : \A val \in Int : Mc!Set(nm, val) \in T
  BY DEF Mc!Set, Setting
<1>4. \A nm \in WindowName : \A val \in Int : Mc!Set(nm, val) \in T
  BY DEF Mc!Set, WindowSetting
<1> HIDE DEF T
<1>5. udp \in Seq(T)
  <2>1. Mc!Set("UDP_ENCAP_UCAST_PORT", 1) \in T /\ Mc!Set("UDP_ENCAP_MCAST_PORT", 1) \in T
    BY <1>3 DEF OptionName
  <2> QED BY <2>1 DEF Mc!Only
<1>6. rcv \in Seq(T)
  <2>1. Mc!Set("RCVBUF", multicast_options.rcvbuf) \in T
    BY <1>2, <1>3 DEF OptionName
  <2> QED BY <2>1 DEF Mc!Only
<1>7. snd \in Seq(T)
  <2>1. Mc!Set("SNDBUF", multicast_options.sndbuf) \in T
    BY <1>2, <1>3 DEF OptionName
  <2> QED BY <2>1 DEF Mc!Only
<1>8. mtu \in Seq(T)
  <2>1. Mc!Set("MTU", 1500) \in T
    BY <1>3 DEF OptionName
  <2> QED BY <2>1
<1> HIDE DEF udp, rcv, snd, mtu
<1>9. first \in Seq(T)
  BY <1>5, <1>6, <1>7, <1>8
<1> HIDE DEF first
<1>10. own \in Seq(T) /\ \E k \in 1..Len(own) : \E window \in WindowName :
         own[k] = Mc!Set(window, Mc!compute_sqns(multicast_options))
  <2> DEFINE sqns == Mc!compute_sqns(multicast_options)
             rte == Mc!max_rte(multicast_options)
  <2>1. sqns \in Int /\ rte \in Int
    BY SqnsTyped
  <2> HIDE DEF sqns, rte
  <2>2. CASE Mc!receiver
    <3>1. own = <<Mc!Set("RECV_ONLY", 1), Mc!Set("RXW_SQNS", sqns), Mc!Set("PEER_EXPIRY", 300),
                  Mc!Set("SPMR_EXPIRY", 25), Mc!Set("NAK_BO_IVL", 50), Mc!Set("NAK_RPT_IVL", 200),
                  Mc!Set("NAK_RDATA_IVL", 200), Mc!Set("NAK_DATA_RETRIES", 50), Mc!Set("NAK_NCF_RETRIES", 50)>>
      BY <2>2 DEF Mc!ReceiverOptions, sqns
    <3>2. /\ Mc!Set("RECV_ONLY", 1) \in T /\ Mc!Set("PEER_EXPIRY", 300) \in T /\ Mc!Set("SPMR_EXPIRY", 25) \in T
          /\ Mc!Set("NAK_BO_IVL", 50) \in T /\ Mc!Set("NAK_RPT_IVL", 200) \in T /\ Mc!Set("NAK_RDATA_IVL", 200) \in T
          /\ Mc!Set("NAK_DATA_RETRIES", 50) \in T /\ Mc!Set("NAK_NCF_RETRIES", 50) \in T
      BY <1>3 DEF OptionName
    <3>3. Mc!Set("RXW_SQNS", sqns) \in T
      BY <1>4, <2>1 DEF WindowName
    <3> HIDE DEF own
    <3>4. own \in Seq(T) /\ Len(own) = 9 /\ own[2] = Mc!Set("RXW_SQNS", sqns)
      BY <3>1, <3>2, <3>3
    <3> QED BY <3>4 DEF WindowName, sqns
  <2>3. CASE ~Mc!receiver
    <3>1. own = <<Mc!Set("SEND_ONLY", 1), Mc!Set("ODATA_MAX_RTE", rte), Mc!Set("TXW_SQNS", sqns),
                  Mc!Set("AMBIENT_SPM", 30), Mc!Set("HEARTBEAT_SPM", 9)>>
      BY <2>3 DEF Mc!SenderOptions, sqns, rte
    <3>2. /\ Mc!Set("SEND_ONLY", 1) \in T /\ Mc!Set("ODATA_MAX_RTE", rte) \in T /\ Mc!Set("AMBIENT_SPM", 30) \in T
          /\ Mc!Set("HEARTBEAT_SPM", 9) \in T
      BY <1>3, <2>1 DEF OptionName
    <3>3. Mc!Set("TXW_SQNS", sqns) \in T
      BY <1>4, <2>1 DEF WindowName
    <3> HIDE DEF own
    <3>4. own \in Seq(T) /\ Len(own) = 5 /\ own[3] = Mc!Set("TXW_SQNS", sqns)
      BY <3>1, <3>2, <3>3
    <3> QED BY <3>4 DEF WindowName, sqns
  <2> QED BY <2>2, <2>3
<1>11. Mc!BeforeBind = first \o own
  BY DEF Mc!BeforeBind, first, udp, rcv, snd, mtu
<1> HIDE DEF own
<1>12. first \o own \in Seq(T) /\ Len(first \o own) = Len(first) + Len(own)
  BY <1>9, <1>10
<1>13. \A k \in Len(first) + 1..Len(first) + Len(own) : (first \o own)[k] = own[k - Len(first)]
  BY <1>9, <1>10, JoinedSequences
<1>14. \A k \in 1..Len(own) : Len(first) + k \in 1..Len(first \o own) /\ (first \o own)[Len(first) + k] = own[k]
  <2> SUFFICES ASSUME NEW k \in 1..Len(own)
               PROVE  Len(first) + k \in 1..Len(first \o own) /\ (first \o own)[Len(first) + k] = own[k]
    OBVIOUS
  <2>1. Len(first) + k \in Len(first) + 1..Len(first) + Len(own) /\ (Len(first) + k) - Len(first) = k
    BY <1>9, <1>10
  <2>2. (first \o own)[Len(first) + k] = own[(Len(first) + k) - Len(first)]
    BY <1>13, <2>1
  <2>3. Len(first) + k \in 1..Len(first \o own)
    BY <1>9, <1>10, <1>12
  <2> QED BY <2>1, <2>2, <2>3
<1> QED BY <1>10, <1>11, <1>12, <1>14 DEF T

Free_call == [call |-> "freeaddrinfo"]

LEMMA AfterBindCalls ==
  ASSUME Mc!TypeOK
  PROVE  /\ Mc!AfterBind \in Seq(Setting \union {Free_call})
         /\ \E k \in 1..Len(Mc!AfterBind) : Mc!AfterBind[k] = Free_call
         /\ \E k \in 1..Len(Mc!AfterBind) : Mc!AfterBind[k] = Mc!Set("SEND_GROUP", 1)
         /\ \E k \in 1..Len(Mc!AfterBind) : Mc!AfterBind[k] = Mc!Set("NOBLOCK", 1)
         /\ \A n \in 1..network.groups : \E k \in 1..Len(Mc!AfterBind) : Mc!AfterBind[k] = Mc!Set("JOIN_GROUP", n)
<1> DEFINE T == Setting \union {Free_call}
           joins == [n \in 1..network.groups |-> Mc!Set("JOIN_GROUP", n)]
           sg == Mc!Set("SEND_GROUP", 1)
           send == <<sg, Free_call>>
           loop == <<Mc!Set("MULTICAST_LOOP", IF multicast_options.multicast_loop THEN 1 ELSE 0), Mc!Set("MULTICAST_HOPS", 16)>>
           tos == Mc!Only(~network.ipv6, <<Mc!Set("TOS", 184)>>)
           nb == Mc!Set("NOBLOCK", 1)
           last == <<nb>>
<1>1. network \in Networks
  BY DEF Mc!TypeOK
<1>2. network.groups \in Nat
  BY <1>1, MulticastFacts
<1>3. \A nm \in OptionName : \A val \in Int : Mc!Set(nm, val) \in T
  BY DEF Mc!Set, Setting
<1>4. Free_call \in T
  OBVIOUS
<1> HIDE DEF T
<1>5. joins \in Seq(T) /\ Len(joins) = network.groups
  <2>1. \A n \in 1..network.groups : Mc!Set("JOIN_GROUP", n) \in T
    BY <1>2, <1>3 DEF OptionName
  <2> QED BY <1>2, <2>1
<1>6. \A n \in 1..network.groups : joins[n] = Mc!Set("JOIN_GROUP", n)
  OBVIOUS
<1>7. sg \in T /\ nb \in T
  BY <1>3 DEF OptionName
<1>8. tos \in Seq(T)
  <2>1. Mc!Set("TOS", 184) \in T
    BY <1>3 DEF OptionName
  <2> QED BY <2>1 DEF Mc!Only
<1>9. loop \in Seq(T)
  <2> DEFINE val == IF multicast_options.multicast_loop THEN 1 ELSE 0
  <2>1. val \in Int
    OBVIOUS
  <2> HIDE DEF val
  <2>2. Mc!Set("MULTICAST_LOOP", val) \in T
    BY <1>3, <2>1 DEF OptionName
  <2>3. Mc!Set("MULTICAST_HOPS", 16) \in T
    BY <1>3 DEF OptionName
  <2> QED BY <2>2, <2>3 DEF val
<1> HIDE DEF joins, sg, nb, loop, tos
<1>10. send \in Seq(T) /\ Len(send) = 2 /\ send[1] = sg /\ send[2] = Free_call
  BY <1>4, <1>7
<1>11. last \in Seq(T) /\ Len(last) = 1 /\ last[1] = nb
  BY <1>7
<1> HIDE DEF send, last
<1> DEFINE a1 == joins \o send
           a2 == a1 \o loop
           a3 == a2 \o tos
           a4 == a3 \o last
<1>12. /\ a1 \in Seq(T) /\ Len(a1) = Len(joins) + 2 
       /\ \A k \in 1..Len(joins) : a1[k] = joins[k]
       /\ a1[Len(joins) + 1] = sg /\ a1[Len(joins) + 2] = Free_call
  <2>1. a1 \in Seq(T) /\ Len(a1) = Len(joins) + Len(send)
    BY <1>5, <1>10, JoinedSequences
  <2>2. \A k \in 1..Len(joins) : a1[k] = joins[k]
    BY <1>5, <1>10, JoinedSequences
  <2>3. \A k \in Len(joins) + 1..Len(joins) + Len(send) : a1[k] = send[k - Len(joins)]
    BY <1>5, <1>10, JoinedSequences
  <2> QED BY <1>10, <2>1, <2>2, <2>3
<1> HIDE DEF a1
<1>13. a2 \in Seq(T) /\ Len(a2) >= Len(a1) /\ \A k \in 1..Len(a1) : a2[k] = a1[k]
  <2>1. a2 \in Seq(T) /\ Len(a2) = Len(a1) + Len(loop)
    BY <1>9, <1>12, JoinedSequences
  <2>2. \A k \in 1..Len(a1) : a2[k] = a1[k]
    BY <1>9, <1>12, JoinedSequences
  <2> QED BY <1>9, <1>12, <2>1, <2>2
<1> HIDE DEF a2
<1>14. a3 \in Seq(T) /\ Len(a3) >= Len(a2) /\ \A k \in 1..Len(a2) : a3[k] = a2[k]
  BY <1>8, <1>13, JoinedSequences
<1> HIDE DEF a3
<1>15. a4 \in Seq(T) /\ Len(a4) = Len(a3) + 1 /\ \A k \in 1..Len(a3) : a4[k] = a3[k]
  BY <1>11, <1>14, JoinedSequences
<1>16. a4[Len(a3) + 1] = nb
  <2>1. \A k \in Len(a3) + 1..Len(a3) + Len(last) : a4[k] = last[k - Len(a3)]
    BY <1>11, <1>14, JoinedSequences
  <2>2. Len(a3) + 1 \in Len(a3) + 1..Len(a3) + Len(last) /\ (Len(a3) + 1) - Len(a3) = 1
    BY <1>11, <1>14
  <2> QED BY <1>11, <2>1, <2>2
<1> HIDE DEF a4
<1>17. \A k \in 1..Len(a1) : k \in 1..Len(a4) /\ a4[k] = a1[k]
  <2>1. Len(a1) \in Nat /\ Len(a2) \in Nat /\ Len(a3) \in Nat /\ Len(a4) \in Nat
    BY <1>12, <1>13, <1>14, <1>15
  <2>2. \A k \in 1..Len(a1) : k \in 1..Len(a2) /\ a2[k] = a1[k]
    BY <1>13, <2>1
  <2>3. \A k \in 1..Len(a2) : k \in 1..Len(a3) /\ a3[k] = a2[k]
    BY <1>14, <2>1
  <2>4. \A k \in 1..Len(a3) : k \in 1..Len(a4) /\ a4[k] = a3[k]
    BY <1>15, <2>1
  <2> QED BY <2>2, <2>3, <2>4
<1>18. Mc!AfterBind = a4
  BY DEF Mc!AfterBind, a4, a3, a2, a1, joins, send, loop, tos, last, sg, nb, Free_call
<1>19. \E k \in 1..Len(a4) : a4[k] = Free_call
  <2>1. Len(joins) + 2 \in 1..Len(a1)
    BY <1>5, <1>12
  <2> QED BY <1>12, <1>17, <2>1
<1>20. \E k \in 1..Len(a4) : a4[k] = sg
  <2>1. Len(joins) + 1 \in 1..Len(a1)
    BY <1>5, <1>12
  <2> QED BY <1>12, <1>17, <2>1
<1>21. \E k \in 1..Len(a4) : a4[k] = nb
  BY <1>14, <1>15, <1>16
<1>22. ASSUME NEW n \in 1..network.groups PROVE \E k \in 1..Len(a4) : a4[k] = Mc!Set("JOIN_GROUP", n)
  <2>1. n \in 1..Len(a1) /\ a1[n] = joins[n]
    BY <1>2, <1>5, <1>12
  <2> QED BY <1>6, <1>17, <2>1
<1> QED BY <1>15, <1>18, <1>19, <1>20, <1>21, <1>22 DEF T, sg, nb

LEMMA CallsInOrder ==
  ASSUME Mc!TypeOK
  PROVE  LET b == Len(Mc!BeforeBind)
             a == Len(Mc!AfterBind)
         IN /\ Mc!Calls \in Seq(AnyCall) /\ Len(Mc!Calls) = 5 + b + a
            /\ Mc!Calls[1].call = "getaddrinfo" /\ Mc!Calls[2].call = "socket"
            /\ \A k \in 1..b : Mc!Calls[2 + k] = Mc!BeforeBind[k]
            /\ Mc!Calls[3 + b].call = "gsi_create" /\ Mc!Calls[4 + b] = Mc!Bound
            /\ \A k \in 1..a : Mc!Calls[4 + b + k] = Mc!AfterBind[k]
            /\ Mc!Calls[5 + b + a].call = "connect"
<1> DEFINE T == AnyCall
           ga == [call |-> "getaddrinfo"]
           so == [call |-> "socket"]
           gsi == [call |-> "gsi_create"]
           bind == [call |-> "bind3"]
           conn == [call |-> "connect"]
           first == <<ga, so>>
           middle == <<gsi, bind>>
           final == <<conn>>
           before == Mc!BeforeBind
           after == Mc!AfterBind
<1>1. before \in Seq(T)
  <2>1. before \in Seq(Setting \union WindowSetting) /\ Setting \union WindowSetting \subseteq T
    BY BeforeBindCalls DEF AnyCall
  <2> QED BY <2>1
<1>2. after \in Seq(T)
  <2>1. after \in Seq(Setting \union {Free_call}) /\ Setting \union {Free_call} \subseteq T
    BY AfterBindCalls DEF AnyCall, Other, Free_call
  <2> QED BY <2>1
<1>3. ga \in T /\ so \in T /\ gsi \in T /\ bind \in T /\ conn \in T
  BY DEF AnyCall, Other
<1>4. ga.call = "getaddrinfo" /\ so.call = "socket" /\ gsi.call = "gsi_create" /\ bind = Mc!Bound /\ conn.call = "connect"
  BY DEF Mc!Bound
<1>5. Mc!Calls = first \o before \o middle \o after \o final
  BY DEF Mc!Calls
<1> HIDE DEF T, ga, so, gsi, bind, conn, before, after
<1>6. first \in Seq(T) /\ Len(first) = 2 /\ first[1] = ga /\ first[2] = so
  BY <1>3
<1>7. middle \in Seq(T) /\ Len(middle) = 2 /\ middle[1] = gsi /\ middle[2] = bind
  BY <1>3
<1>8. final \in Seq(T) /\ Len(final) = 1 /\ final[1] = conn
  BY <1>3
<1> HIDE DEF first, middle, final
<1> DEFINE c1 == first \o before
           c2 == c1 \o middle
           c3 == c2 \o after
           c4 == c3 \o final
           b == Len(before)
           a == Len(after)
<1>9. c1 \in Seq(T) /\ Len(c1) = 2 + b /\ c1[1] = ga /\ c1[2] = so /\ \A k \in 1..b : c1[2 + k] = before[k]
  <2>1. c1 \in Seq(T) /\ Len(c1) = Len(first) + Len(before)
    BY <1>1, <1>6, JoinedSequences
  <2>2. \A k \in 1..Len(first) : c1[k] = first[k]
    BY <1>1, <1>6, JoinedSequences
  <2>3. \A k \in Len(first) + 1..Len(first) + Len(before) : c1[k] = before[k - Len(first)]
    BY <1>1, <1>6, JoinedSequences
  <2>4. ASSUME NEW k \in 1..b PROVE c1[2 + k] = before[k]
    <3>1. 2 + k \in Len(first) + 1..Len(first) + Len(before) /\ (2 + k) - Len(first) = k
      BY <1>1, <1>6
    <3> QED BY <2>3, <3>1
  <2> QED BY <1>6, <2>1, <2>2, <2>4
<1> HIDE DEF c1
<1>10. /\ c2 \in Seq(T) /\ Len(c2) = 4 + b /\ \A k \in 1..2 + b : c2[k] = c1[k]
       /\ c2[3 + b] = gsi /\ c2[4 + b] = bind
  <2>1. c2 \in Seq(T) /\ Len(c2) = Len(c1) + Len(middle)
    BY <1>7, <1>9, JoinedSequences
  <2>2. \A k \in 1..Len(c1) : c2[k] = c1[k]
    BY <1>7, <1>9, JoinedSequences
  <2>3. \A k \in Len(c1) + 1..Len(c1) + Len(middle) : c2[k] = middle[k - Len(c1)]
    BY <1>7, <1>9, JoinedSequences
  <2>4. b \in Nat
    BY <1>1
  <2> HIDE DEF b
  <2>5. Len(c1) + 1 = 3 + b /\ Len(c1) + 2 = 4 + b /\ Len(c1) + Len(middle) = 4 + b
    BY <1>7, <1>9, <2>4
  <2>6. c2[Len(c1) + 1] = gsi /\ c2[Len(c1) + 2] = bind
    <3>1. /\ Len(c1) + 1 \in Len(c1) + 1..Len(c1) + Len(middle) /\ (Len(c1) + 1) - Len(c1) = 1
          /\ Len(c1) + 2 \in Len(c1) + 1..Len(c1) + Len(middle) /\ (Len(c1) + 2) - Len(c1) = 2
      BY <1>7, <1>9
    <3> QED BY <1>7, <2>3, <3>1
  <2> QED BY <1>9, <2>1, <2>2, <2>5, <2>6
<1> HIDE DEF c2
<1>11. /\ c3 \in Seq(T) /\ Len(c3) = 4 + b + a /\ \A k \in 1..4 + b : c3[k] = c2[k]
       /\ \A k \in 1..a : c3[4 + b + k] = after[k]
  <2>1. c3 \in Seq(T) /\ Len(c3) = Len(c2) + Len(after)
    BY <1>2, <1>10, JoinedSequences
  <2>2. \A k \in 1..Len(c2) : c3[k] = c2[k]
    BY <1>2, <1>10, JoinedSequences
  <2>3. \A k \in Len(c2) + 1..Len(c2) + Len(after) : c3[k] = after[k - Len(c2)]
    BY <1>2, <1>10, JoinedSequences
  <2>4. ASSUME NEW k \in 1..a PROVE c3[4 + b + k] = after[k]
    <3>1. 4 + b + k \in Len(c2) + 1..Len(c2) + Len(after) /\ (4 + b + k) - Len(c2) = k
      BY <1>1, <1>2, <1>10
    <3> QED BY <2>3, <3>1
  <2> QED BY <1>10, <2>1, <2>2, <2>4
<1> HIDE DEF c3
<1>12. /\ c4 \in Seq(T) /\ Len(c4) = 5 + b + a /\ \A k \in 1..4 + b + a : c4[k] = c3[k]
       /\ c4[5 + b + a] = conn
  <2>1. a \in Nat /\ b \in Nat
    BY <1>1, <1>2
  <2> HIDE DEF a, b
  <2>2. c4 \in Seq(T) /\ Len(c4) = Len(c3) + Len(final)
    BY <1>8, <1>11, JoinedSequences
  <2>3. \A k \in 1..Len(c3) : c4[k] = c3[k]
    BY <1>8, <1>11, JoinedSequences
  <2>4. \A k \in Len(c3) + 1..Len(c3) + Len(final) : c4[k] = final[k - Len(c3)]
    BY <1>8, <1>11, JoinedSequences
  <2>5. Len(c3) + 1 = 5 + b + a /\ Len(c3) + Len(final) = 5 + b + a
    BY <1>8, <1>11, <2>1
  <2>6. c4[Len(c3) + 1] = conn
    <3>1. Len(c3) + 1 \in Len(c3) + 1..Len(c3) + Len(final) /\ (Len(c3) + 1) - Len(c3) = 1
      BY <1>8, <1>11
    <3> QED BY <1>8, <2>4, <3>1
  <2> QED BY <1>11, <2>2, <2>3, <2>5, <2>6
<1>13. Mc!Calls = c4
  BY <1>5 DEF c1, c2, c3
<1> HIDE DEF c4
<1>14. a \in Nat /\ b \in Nat
  BY <1>1, <1>2
<1> HIDE DEF a, b
<1>15. \A k \in 1..2 + b : c4[k] = c1[k]
  BY <1>10, <1>11, <1>12, <1>14
<1>16. c4[1] = ga /\ c4[2] = so
  BY <1>9, <1>14, <1>15
<1>17. \A k \in 1..b : c4[2 + k] = before[k]
  <2> SUFFICES ASSUME NEW k \in 1..b PROVE c4[2 + k] = before[k]
    OBVIOUS
  <2>1. 2 + k \in 1..2 + b
    BY <1>14
  <2> QED BY <1>9, <1>15, <2>1 DEF b
<1>18. c4[3 + b] = gsi /\ c4[4 + b] = bind
  <2>1. 3 + b \in 1..4 + b /\ 4 + b \in 1..4 + b /\ 3 + b \in 1..4 + b + a /\ 4 + b \in 1..4 + b + a
    BY <1>14
  <2>2. c4[3 + b] = c2[3 + b] /\ c4[4 + b] = c2[4 + b]
    BY <1>11, <1>12, <2>1
  <2> QED BY <1>10, <2>2
<1>19. \A k \in 1..a : c4[4 + b + k] = after[k]
  <2> SUFFICES ASSUME NEW k \in 1..a PROVE c4[4 + b + k] = after[k]
    OBVIOUS
  <2>1. 4 + b + k \in 1..4 + b + a
    BY <1>14
  <2> QED BY <1>11, <1>12, <2>1
<1> QED BY <1>4, <1>12, <1>13, <1>16, <1>17, <1>18, <1>19 DEF T, a, b, before, after

LEMMA CallKinds ==
  ASSUME Mc!TypeOK
  PROVE  \E bind \in 3..Len(Mc!Calls) - 1 :
           /\ Mc!Calls \in Seq(AnyCall)
           /\ Mc!Calls[1].call = "getaddrinfo" /\ Mc!Calls[2].call = "socket" /\ Mc!Calls[bind] = Mc!Bound
           /\ Mc!Calls[Len(Mc!Calls)].call = "connect"
           /\ \A k \in 3..bind - 1 : Mc!Calls[k].call \in {"setsockopt", "gsi_create"}
           /\ \A k \in bind + 1..Len(Mc!Calls) - 1 : Mc!Calls[k] \in Setting \union {Free_call}
<1> DEFINE b == Len(Mc!BeforeBind)
           a == Len(Mc!AfterBind)
           all == Mc!Calls
<1>1. /\ all \in Seq(AnyCall) /\ Len(all) = 5 + b + a
      /\ all[1].call = "getaddrinfo" /\ all[2].call = "socket"
      /\ \A k \in 1..b : all[2 + k] = Mc!BeforeBind[k]
      /\ all[3 + b].call = "gsi_create" /\ all[4 + b] = Mc!Bound
      /\ \A k \in 1..a : all[4 + b + k] = Mc!AfterBind[k]
      /\ all[5 + b + a].call = "connect"
  BY CallsInOrder
<1>2. Mc!BeforeBind \in Seq(Setting \union WindowSetting) /\ Mc!AfterBind \in Seq(Setting \union {Free_call})
  BY BeforeBindCalls, AfterBindCalls
<1>3. b \in Nat /\ a \in Nat
  BY <1>2
<1>4. \A k \in 1..b : Mc!BeforeBind[k] \in Setting \union WindowSetting
  BY <1>2, ElementOfSeq
<1>5. \A k \in 1..a : Mc!AfterBind[k] \in Setting \union {Free_call}
  BY <1>2, ElementOfSeq
<1> HIDE DEF a, b, all
<1>6. ASSUME NEW k \in 3..3 + b PROVE all[k].call \in {"setsockopt", "gsi_create"}
  <2>1. CASE k = 3 + b
    BY <1>1, <2>1
  <2>2. CASE k # 3 + b
    <3>1. k - 2 \in 1..b /\ 2 + (k - 2) = k
      BY <1>3, <2>2
    <3>2. all[2 + (k - 2)] = Mc!BeforeBind[k - 2]
      BY <1>1, <3>1
    <3>3. Mc!BeforeBind[k - 2].call = "setsockopt"
      BY <1>4, <3>1 DEF Setting, WindowSetting
    <3> QED BY <3>1, <3>2, <3>3
  <2> QED BY <2>1, <2>2
<1>7. ASSUME NEW k \in 5 + b..4 + b + a PROVE all[k] \in Setting \union {Free_call}
  <2>1. k - 4 - b \in 1..a /\ 4 + b + (k - 4 - b) = k
    BY <1>3
  <2>2. all[4 + b + (k - 4 - b)] = Mc!AfterBind[k - 4 - b]
    BY <1>1, <2>1
  <2> QED BY <1>5, <2>1, <2>2
<1>8. 4 + b \in 3..Len(all) - 1 /\ (4 + b) - 1 = 3 + b /\ (4 + b) + 1 = 5 + b /\ Len(all) - 1 = 4 + b + a
  BY <1>1, <1>3
<1> QED BY <1>1, <1>6, <1>7, <1>8 DEF all

LEMMA CallsContain ==
  ASSUME Mc!TypeOK
  PROVE  /\ \E k \in 1..Len(Mc!Calls) : Mc!Calls[k] = Free_call
         /\ \E k \in 1..Len(Mc!Calls) : Mc!Calls[k] = Mc!Set("SEND_GROUP", 1)
         /\ \E k \in 1..Len(Mc!Calls) : Mc!Calls[k] = Mc!Set("NOBLOCK", 1)
         /\ \A n \in 1..network.groups : \E k \in 1..Len(Mc!Calls) : Mc!Calls[k] = Mc!Set("JOIN_GROUP", n)
         /\ \E k \in 1..Len(Mc!Calls) : \E window \in WindowName :
              Mc!Calls[k] = Mc!Set(window, Mc!compute_sqns(multicast_options))
<1> DEFINE b == Len(Mc!BeforeBind)
           a == Len(Mc!AfterBind)
           all == Mc!Calls
<1>1. Len(all) = 5 + b + a /\ b \in Nat /\ a \in Nat
  BY CallsInOrder, BeforeBindCalls, AfterBindCalls
<1>2. \A k \in 1..b : all[2 + k] = Mc!BeforeBind[k]
  BY CallsInOrder
<1>3. \A k \in 1..a : all[4 + b + k] = Mc!AfterBind[k]
  BY CallsInOrder
<1>4. /\ \E k \in 1..a : Mc!AfterBind[k] = Free_call
      /\ \E k \in 1..a : Mc!AfterBind[k] = Mc!Set("SEND_GROUP", 1)
      /\ \E k \in 1..a : Mc!AfterBind[k] = Mc!Set("NOBLOCK", 1)
      /\ \A n \in 1..network.groups : \E k \in 1..a : Mc!AfterBind[k] = Mc!Set("JOIN_GROUP", n)
  BY AfterBindCalls
<1>5. \E k \in 1..b : \E window \in WindowName : Mc!BeforeBind[k] = Mc!Set(window, Mc!compute_sqns(multicast_options))
  BY BeforeBindCalls
<1> HIDE DEF a, b, all
<1>6. \A k \in 1..a : 4 + b + k \in 1..Len(all) /\ all[4 + b + k] = Mc!AfterBind[k]
  BY <1>1, <1>3
<1>7. \A k \in 1..b : 2 + k \in 1..Len(all) /\ all[2 + k] = Mc!BeforeBind[k]
  BY <1>1, <1>2
<1>8. \E k \in 1..Len(all) : all[k] = Free_call
  BY <1>4, <1>6
<1>9. \E k \in 1..Len(all) : all[k] = Mc!Set("SEND_GROUP", 1)
  BY <1>4, <1>6
<1>10. \E k \in 1..Len(all) : all[k] = Mc!Set("NOBLOCK", 1)
  BY <1>4, <1>6
<1>11. \A n \in 1..network.groups : \E k \in 1..Len(all) : all[k] = Mc!Set("JOIN_GROUP", n)
  BY <1>4, <1>6
<1>12. \E k \in 1..Len(all) : \E window \in WindowName : all[k] = Mc!Set(window, Mc!compute_sqns(multicast_options))
  BY <1>5, <1>7
<1> QED BY <1>8, <1>9, <1>10, <1>11, <1>12 DEF all

(***************************************************************************)
(* Multicast: the invariant.  The calls of init are made in their order,   *)
(* and what they set stays set: after n of them the rest is left, whatever *)
(* was to be set among the first n is set, the window before the address   *)
(* was bound, and what getaddrinfo gave is freed by a call still to come.  *)
(***************************************************************************)
Made(n) ==
  /\ left \in Seq(AnyCall) /\ Len(left) = Len(Mc!Calls) - n
  /\ \A k \in 1..Len(left) : left[k] = Mc!Calls[n + k]
  /\ set \in Seq(AnyCall)
  /\ \A k \in 1..n : Mc!Calls[k].call \in {"setsockopt", "bind3"} => \E j \in 1..Len(set) : set[j] = Mc!Calls[k]
  /\ \A j \in 1..Len(set) : \E k \in 1..n : set[j] = Mc!Calls[k]
  /\ \A j, k \in 1..Len(set) : set[j] \in WindowSetting /\ set[k] = Mc!Bound => j < k
  /\ n >= 2 => sock # NULL
  /\ res # NULL => \E k \in n + 1..Len(Mc!Calls) : Mc!Calls[k] = Free_call
  /\ buffer = IF n < Len(Mc!Calls) THEN NULL ELSE IF Mc!receiver THEN Mc!pgm_msgv_len ELSE 1460
  /\ phase = "opening" <=> n < Len(Mc!Calls)

InitRuns == phase \in {"opening", "attaching", "plugged"} => Mc!Valid /\ \E n \in 0..Len(Mc!Calls) : Made(n)
NothingHeld ==
  phase \in {"new", "aborted", "deleted"} => sock = NULL /\ res = NULL /\ pgm_error = NULL /\ set = <<>> /\ buffer = NULL
ErrorsReported ==
  /\ pgm_error # NULL => phase = "opening" /\ ~network.works
  /\ phase = "aborted" => ~(Mc!Valid /\ network.works)
PolledWhenPlugged == fds # {} => phase = "plugged"

MulticastInv == Mc!TypeOK /\ InitRuns /\ NothingHeld /\ ErrorsReported /\ PolledWhenPlugged

LEMMA OptionsStay ==
  ASSUME UNCHANGED <<multicast_options, network>>
  PROVE  /\ Mc!Calls' = Mc!Calls /\ (Mc!Valid' <=> Mc!Valid) /\ (Mc!receiver' <=> Mc!receiver)
         /\ Mc!pgm_msgv_len' = Mc!pgm_msgv_len
BY DEF Mc!Calls, Mc!BeforeBind, Mc!AfterBind, Mc!Valid, Mc!receiver, Mc!ReceiverOptions, Mc!SenderOptions, Mc!Set,
       Mc!Only, Mc!compute_sqns, Mc!max_rte, Mc!AsInt, Mc!AsUnsigned, Mc!pgm_msgv_len

LEMMA CallsNonEmpty == ASSUME Mc!TypeOK PROVE Mc!Calls \in Seq(AnyCall) /\ Len(Mc!Calls) >= 4
BY CallKinds

LEMMA MulticastStarts ==
  ASSUME MulticastInv, Mc!start_connecting PROVE MulticastInv'
<1>1. phase = "new" /\ UNCHANGED <<multicast_options, network, fds>> /\ UNCHANGED <<sock, res, pgm_error, set, buffer>>
  BY DEF Mc!start_connecting, Mc!resources
<1>2. Mc!Calls' = Mc!Calls /\ (Mc!Valid' <=> Mc!Valid)
  BY <1>1, OptionsStay
<1>3. sock = NULL /\ res = NULL /\ pgm_error = NULL /\ buffer = NULL /\ set = <<>> /\ fds = {} /\ Mc!TypeOK
  BY <1>1 DEF MulticastInv, NothingHeld, PolledWhenPlugged
<1>4. CASE Mc!Valid /\ phase' = "opening" /\ left' = Mc!Calls
  <2>1. Mc!Calls \in Seq(AnyCall) /\ Len(Mc!Calls) >= 4 /\ Len(Mc!Calls) \in Nat
    BY <1>3, CallsNonEmpty
  <2>2. \E k \in 0 + 1..Len(Mc!Calls) : Mc!Calls[k] = Free_call
    BY <1>3, CallsContain
  <2>3. Made(0)'
    BY <1>1, <1>2, <1>3, <1>4, <2>1, <2>2 DEF Made
  <2>4. InitRuns'
    BY <1>2, <1>4, <2>1, <2>3 DEF InitRuns
  <2> QED BY <1>1, <1>3, <1>4, <2>4 DEF MulticastInv, NothingHeld, ErrorsReported, PolledWhenPlugged, Mc!TypeOK
<1>5. CASE ~Mc!Valid /\ phase' = "aborted" /\ UNCHANGED left
  BY <1>1, <1>2, <1>3, <1>5 DEF MulticastInv, InitRuns, NothingHeld, ErrorsReported, PolledWhenPlugged, Mc!TypeOK
<1> QED BY <1>4, <1>5 DEF Mc!start_connecting

\* A call succeeds: one more of them was made.
LEMMA CallMade ==
  ASSUME MulticastInv, phase = "opening", pgm_error = NULL, Mc!Done(Head(left)),
         UNCHANGED <<multicast_options, network, fds>>
  PROVE  MulticastInv'
<1> DEFINE all == Mc!Calls
           h == Head(left)
<1>1. Mc!TypeOK /\ Mc!Valid /\ fds = {}
  BY DEF MulticastInv, InitRuns, PolledWhenPlugged
<1>2. PICK n \in 0..Len(all) : Made(n)
  BY DEF MulticastInv, InitRuns
<1>3. all \in Seq(AnyCall) /\ Len(all) >= 4 /\ Len(all) \in Nat
  BY <1>1, CallsNonEmpty
<1>4. all' = all /\ (Mc!Valid' <=> Mc!Valid) /\ (Mc!receiver' <=> Mc!receiver) /\ Mc!pgm_msgv_len' = Mc!pgm_msgv_len
  BY OptionsStay
<1>5. PICK bind \in 3..Len(all) - 1 :
        /\ all[1].call = "getaddrinfo" /\ all[2].call = "socket" /\ all[bind] = Mc!Bound /\ all[Len(all)].call = "connect"
        /\ \A k \in 3..bind - 1 : all[k].call \in {"setsockopt", "gsi_create"}
        /\ \A k \in bind + 1..Len(all) - 1 : all[k] \in Setting \union {Free_call}
  BY <1>1, CallKinds
<1> HIDE DEF all
<1>6. /\ n < Len(all) /\ left \in Seq(AnyCall) /\ Len(left) = Len(all) - n
      /\ \A k \in 1..Len(left) : left[k] = all[n + k]
      /\ set \in Seq(AnyCall) /\ buffer = NULL
  BY <1>2 DEF Made, all
<1>7. n + 1 \in 1..Len(all) /\ n \in Nat /\ Len(left) > 0
  BY <1>3, <1>6
<1>8. h = all[n + 1] /\ h \in AnyCall
  <2>1. h = left[1]
    BY <1>6, <1>7
  <2>2. 1 \in 1..Len(left)
    BY <1>6, <1>7
  <2>3. left[1] = all[n + 1]
    BY <1>6, <2>2
  <2>4. all[n + 1] \in AnyCall
    BY <1>3, <1>7, ElementOfSeq
  <2> QED BY <2>1, <2>3, <2>4
<1>9. /\ sock' = (IF h.call = "socket" THEN "owned" ELSE sock)
      /\ res' = (IF h.call = "getaddrinfo" THEN "owned" ELSE IF h.call = "freeaddrinfo" THEN NULL ELSE res)
      /\ set' = (IF h.call \in {"setsockopt", "bind3"} THEN Append(set, h) ELSE set)
      /\ buffer' = (IF h.call # "connect" THEN buffer ELSE IF Mc!receiver THEN Mc!pgm_msgv_len ELSE 1460)
      /\ left' = Tail(left) /\ pgm_error' = pgm_error
      /\ phase' = (IF Tail(left) = <<>> THEN "attaching" ELSE phase)
  BY DEF Mc!Done
<1> HIDE DEF h
\* Where in the row the call is.
<1>10. h.call = "connect" <=> n + 1 = Len(all)
  <2>1. CASE n + 1 <= 2
    <3>1. n + 1 = 1 \/ n + 1 = 2
      BY <1>7, <2>1
    <3> QED BY <1>3, <1>5, <1>8, <3>1
  <2>2. CASE n + 1 \in 3..bind - 1
    BY <1>3, <1>5, <1>8, <2>2
  <2>3. CASE n + 1 = bind
    BY <1>3, <1>5, <1>8, <2>3 DEF Mc!Bound
  <2>4. CASE n + 1 \in bind + 1..Len(all) - 1
    <3>1. h \in Setting \union {Free_call}
      BY <1>5, <1>8, <2>4
    <3>2. h.call # "connect"
      BY <3>1 DEF Setting, Free_call
    <3> QED BY <1>3, <2>4, <3>2
  <2>5. CASE n + 1 = Len(all)
    BY <1>5, <1>8, <2>5
  <2> QED BY <1>3, <1>5, <1>7, <2>1, <2>2, <2>3, <2>4, <2>5
<1>11. h.call = "getaddrinfo" => n + 1 = 1
  <2> SUFFICES ASSUME n + 1 # 1, h.call = "getaddrinfo" PROVE FALSE
    OBVIOUS
  <2>1. n + 1 # 2 /\ n + 1 # bind /\ n + 1 # Len(all)
    BY <1>5, <1>8 DEF Mc!Bound
  <2>2. n + 1 \notin 3..bind - 1
    BY <1>5, <1>8
  <2>3. n + 1 \notin bind + 1..Len(all) - 1
    <3> SUFFICES ASSUME n + 1 \in bind + 1..Len(all) - 1 PROVE FALSE
      OBVIOUS
    <3>1. h \in Setting \union {Free_call}
      BY <1>5, <1>8
    <3> QED BY <3>1 DEF Setting, Free_call
  <2> QED BY <1>3, <1>5, <1>7, <2>1, <2>2, <2>3
<1>12. h \in WindowSetting => n + 1 < bind
  <2> SUFFICES ASSUME n + 1 >= bind, h \in WindowSetting PROVE FALSE
    BY <1>5, <1>7
  <2>1. h.call = "setsockopt" /\ h.name \in WindowName
    BY DEF WindowSetting
  <2>2. n + 1 # bind /\ n + 1 # Len(all)
    BY <1>5, <1>8, <2>1 DEF Mc!Bound
  <2>3. h \in Setting \union {Free_call}
    BY <1>3, <1>5, <1>7, <1>8, <2>2
  <2> QED BY <2>1, <2>3 DEF Setting, Free_call, OptionName, WindowName
<1>13. \A k \in 1..Len(all) : all[k] = Mc!Bound => k >= bind
  <2> SUFFICES ASSUME NEW k \in 1..Len(all), all[k] = Mc!Bound, k < bind PROVE FALSE
    BY <1>5
  <2>1. all[k].call = "bind3"
    BY DEF Mc!Bound
  <2>2. k = 1 \/ k = 2 \/ k \in 3..bind - 1
    BY <1>5
  <2> QED BY <1>5, <2>1, <2>2
<1>14. left' \in Seq(AnyCall) /\ Len(left') = Len(all) - (n + 1) /\ \A k \in 1..Len(left') : left'[k] = all[n + 1 + k]
  <2>1. left' \in Seq(AnyCall) /\ Len(left') = Len(left) - 1
    BY <1>6, <1>7, <1>9
  <2>2. ASSUME NEW k \in 1..Len(left) - 1 PROVE Tail(left)[k] = left[k + 1]
    <3>1. left \in Seq(AnyCall) /\ left # <<>>
      BY <1>6, <1>7
    <3> QED BY <3>1, HeadTailProperties
  <2>3. ASSUME NEW k \in 1..Len(left') PROVE k + 1 \in 1..Len(left) /\ n + (k + 1) = n + 1 + k
    <3>1. Len(left') = Len(left) - 1 /\ Len(left) \in Nat /\ k \in Nat /\ n \in Nat
      BY <1>6, <1>7, <2>1
    <3>2. k >= 1 /\ k <= Len(left) - 1
      BY <3>1
    <3> QED BY <3>1, <3>2
  <2>4. \A k \in 1..Len(left') : left'[k] = left[k + 1]
    BY <1>9, <2>1, <2>2
  <2>5. \A k \in 1..Len(left') : left[k + 1] = all[n + (k + 1)]
    BY <1>6, <2>3
  <2> QED BY <1>6, <2>1, <2>3, <2>4, <2>5
<1>15. set' \in Seq(AnyCall) /\ Len(set') >= Len(set) /\ \A j \in 1..Len(set) : set'[j] = set[j]
  BY <1>6, <1>8, <1>9
<1>16. h.call \in {"setsockopt", "bind3"} => Len(set') = Len(set) + 1 /\ set'[Len(set')] = h
  BY <1>6, <1>8, <1>9
<1>17. h.call \notin {"setsockopt", "bind3"} => set' = set
  BY <1>9
<1>18. ASSUME NEW k \in 1..n + 1, all[k].call \in {"setsockopt", "bind3"} PROVE \E j \in 1..Len(set') : set'[j] = all[k]
  <2>1. CASE k = n + 1
    <3>1. Len(set') \in 1..Len(set')
      BY <1>6, <1>8, <1>15, <1>16, <1>18, <2>1
    <3> QED BY <1>8, <1>16, <1>18, <2>1, <3>1
  <2>2. CASE k # n + 1
    <3>1. k \in 1..n
      BY <1>7, <2>2
    <3>2. PICK j \in 1..Len(set) : set[j] = all[k]
      BY <1>2, <1>18, <3>1 DEF Made, all
    <3>3. j \in 1..Len(set') /\ set'[j] = all[k]
      BY <1>6, <1>15, <3>2
    <3> QED BY <3>3
  <2> QED BY <2>1, <2>2
<1>19. ASSUME NEW j \in 1..Len(set')
       PROVE  \/ j \in 1..Len(set) /\ set'[j] = set[j]
              \/ j = Len(set') /\ Len(set') = Len(set) + 1 /\ set'[j] = h
  BY <1>6, <1>15, <1>16, <1>17
<1>20. \A j \in 1..Len(set) : \E k \in 1..n : set[j] = all[k]
  BY <1>2 DEF Made, all
<1>21. \A j \in 1..Len(set') : \E k \in 1..n + 1 : set'[j] = all[k]
  <2> SUFFICES ASSUME NEW j \in 1..Len(set') PROVE \E k \in 1..n + 1 : set'[j] = all[k]
    OBVIOUS
  <2>1. CASE j \in 1..Len(set) /\ set'[j] = set[j]
    <3>1. PICK k \in 1..n : set[j] = all[k]
      BY <1>20, <2>1
    <3>2. k \in 1..n + 1
      BY <1>7
    <3> QED BY <2>1, <3>1, <3>2
  <2>2. CASE set'[j] = h
    BY <1>7, <1>8, <2>2
  <2> QED BY <1>19, <2>1, <2>2
<1>22. ASSUME NEW j \in 1..Len(set'), NEW k \in 1..Len(set'), set'[j] \in WindowSetting, set'[k] = Mc!Bound PROVE j < k
  <2>1. CASE k \in 1..Len(set) /\ set'[k] = set[k]
    <3>1. PICK m \in 1..n : all[m] = Mc!Bound
      BY <1>20, <1>22, <2>1
    <3>2. bind <= m /\ m <= n
      <4>1. m \in 1..Len(all)
        BY <1>6, <1>7, <1>3
      <4> QED BY <1>13, <3>1, <4>1
    <3>3. set'[j] # h
      BY <1>3, <1>5, <1>7, <1>12, <1>22, <3>2
    <3>4. j \in 1..Len(set) /\ set[j] \in WindowSetting
      BY <1>19, <1>22, <3>3
    <3> QED BY <1>2, <1>22, <2>1, <3>4 DEF Made
  <2>2. CASE k = Len(set') /\ Len(set') = Len(set) + 1 /\ set'[k] = h
    <3>1. h = Mc!Bound
      BY <1>22, <2>2
    <3>2. Mc!Bound \notin WindowSetting
      BY DEF Mc!Bound, WindowSetting
    <3>3. j # k
      BY <1>22, <3>2
    <3> QED BY <1>6, <1>15, <2>2, <3>3
  <2> QED BY <1>19, <2>1, <2>2
<1>23. n + 1 >= 2 => sock' # NULL
  <2>1. CASE n + 1 = 2
    BY <1>5, <1>8, <1>9, <2>1, MulticastFacts
  <2>2. CASE n >= 2
    BY <1>2, <1>9, <2>2, MulticastFacts DEF Made
  <2> QED BY <1>7, <2>1, <2>2
<1>24. res' # NULL => \E k \in n + 2..Len(all) : all[k] = Free_call
  <2> SUFFICES ASSUME res' # NULL PROVE \E k \in n + 2..Len(all) : all[k] = Free_call
    OBVIOUS
  <2>1. h.call # "freeaddrinfo"
    BY <1>9
  <2>2. h # Free_call
    BY <2>1 DEF Free_call
  <2>3. CASE n = 0
    <3>1. PICK k \in 1..Len(all) : all[k] = Free_call
      BY <1>1, CallsContain DEF all
    <3>2. k # 1
      BY <1>8, <2>2, <2>3, <3>1
    <3> QED BY <2>3, <3>1, <3>2
  <2>4. CASE n # 0
    <3>1. h.call # "getaddrinfo"
      BY <1>7, <1>11, <2>4
    <3>2. res # NULL
      BY <1>9, <2>1, <3>1
    <3>3. PICK k \in n + 1..Len(all) : all[k] = Free_call
      BY <1>2, <3>2 DEF Made, all
    <3>4. k # n + 1
      BY <1>8, <2>2, <3>3
    <3> QED BY <1>7, <3>3, <3>4
  <2> QED BY <2>3, <2>4
<1>25. phase' = (IF n + 1 < Len(all) THEN "opening" ELSE "attaching")
  <2>1. left' = <<>> <=> Len(left') = 0
    BY <1>14, EmptySeq
  <2> QED BY <1>3, <1>7, <1>9, <1>14, <2>1
<1>26. buffer' = (IF n + 1 < Len(all) THEN NULL ELSE IF Mc!receiver THEN Mc!pgm_msgv_len ELSE 1460)
  <2>1. CASE h.call = "connect"
    BY <1>9, <1>10, <2>1
  <2>2. CASE h.call # "connect"
    <3>1. n + 1 < Len(all)
      BY <1>3, <1>7, <1>10, <2>2
    <3>2. buffer' = NULL
      BY <1>6, <1>9, <2>2
    <3> QED BY <3>1, <3>2
  <2> QED BY <2>1, <2>2
<1>27. Made(n + 1)'
  <2>1. (phase' = "opening" <=> n + 1 < Len(all)) /\ n + 1 + 1 = n + 2
    BY <1>7, <1>25
  <2> QED BY <1>4, <1>14, <1>15, <1>18, <1>21, <1>22, <1>23, <1>24, <1>26, <2>1 DEF Made, all, Mc!Bound
<1>28. InitRuns'
  <2>1. n + 1 \in 0..Len(all)
    BY <1>7
  <2> QED BY <1>1, <1>4, <1>27, <2>1 DEF InitRuns, all
<1>29. Mc!TypeOK'
  <2>1. sock' \in {NULL, "owned"} /\ res' \in {NULL, "owned"} /\ pgm_error' \in {NULL, "owned"}
    BY <1>1, <1>9 DEF Mc!TypeOK
  <2>2. Mc!pgm_msgv_len \in Nat \ {0}
    BY DEF Mc!pgm_msgv_len
  <2>3. buffer' \in {NULL} \union (Nat \ {0})
    BY <1>26, <2>2
  <2> QED BY <1>1, <1>25, <2>1, <2>3 DEF Mc!TypeOK
<1>30. NothingHeld' /\ ErrorsReported' /\ PolledWhenPlugged'
  BY <1>1, <1>9, <1>25 DEF NothingHeld, ErrorsReported, PolledWhenPlugged
<1> QED BY <1>28, <1>29, <1>30 DEF MulticastInv

\* A call fails: its error is reported, or init gives up at once.
LEMMA CallReports ==
  ASSUME MulticastInv, phase = "opening", Mc!Fails(Head(left)), pgm_error' = "owned",
         UNCHANGED <<multicast_options, network, fds, phase, left, sock, res, set, buffer>>
  PROVE  MulticastInv'
<1>1. Mc!Calls' = Mc!Calls /\ (Mc!Valid' <=> Mc!Valid) /\ (Mc!receiver' <=> Mc!receiver)
      /\ Mc!pgm_msgv_len' = Mc!pgm_msgv_len
  BY OptionsStay
<1>2. ~network.works
  BY DEF Mc!Fails
<1>3. \A n : Made(n) => Made(n)'
  BY <1>1 DEF Made, Mc!Bound
<1>4. InitRuns'
  BY <1>1, <1>3 DEF MulticastInv, InitRuns
<1>5. Mc!TypeOK'
  BY DEF MulticastInv, Mc!TypeOK
<1> QED BY <1>2, <1>4, <1>5 DEF MulticastInv, NothingHeld, ErrorsReported, PolledWhenPlugged

LEMMA InitAborts ==
  ASSUME MulticastInv, phase = "opening", ~network.works, Mc!err_abort, UNCHANGED <<multicast_options, network, fds>>
  PROVE  MulticastInv'
<1>1. Mc!Valid' <=> Mc!Valid
  BY OptionsStay
<1>2. /\ sock' = NULL /\ res' = NULL /\ pgm_error' = NULL /\ set' = <<>> /\ phase' = "aborted" /\ left' = <<>>
      /\ buffer' = buffer
  BY DEF Mc!err_abort
<1>3. Mc!TypeOK /\ fds = {}
  BY DEF MulticastInv, PolledWhenPlugged
<1>4. buffer = NULL
  <2>1. PICK n \in 0..Len(Mc!Calls) : Made(n)
    BY DEF MulticastInv, InitRuns
  <2> QED BY <2>1 DEF Made
<1>5. Mc!TypeOK'
  BY <1>2, <1>3 DEF Mc!TypeOK
<1> QED BY <1>2, <1>3, <1>4, <1>5 DEF MulticastInv, InitRuns, NothingHeld, ErrorsReported, PolledWhenPlugged

LEMMA EngineAttached == ASSUME MulticastInv, Mc!process_attach PROVE MulticastInv'
<1>1. /\ phase = "attaching" /\ phase' = "plugged" /\ fds' = Mc!get_fds
      /\ UNCHANGED <<multicast_options, network, left, sock, res, pgm_error, set, buffer>>
  BY DEF Mc!process_attach, Mc!resources
<1>2. Mc!Calls' = Mc!Calls /\ (Mc!Valid' <=> Mc!Valid) /\ (Mc!receiver' <=> Mc!receiver)
      /\ Mc!pgm_msgv_len' = Mc!pgm_msgv_len
  BY <1>1, OptionsStay
<1>3. \A n : Made(n) => Made(n)'
  BY <1>1, <1>2 DEF Made, Mc!Bound
<1>4. InitRuns'
  BY <1>1, <1>2, <1>3 DEF MulticastInv, InitRuns
<1>5. Mc!get_fds \in SUBSET {"receive", "pending", "send", "repair"}
  BY DEF Mc!get_fds
<1>6. Mc!TypeOK'
  BY <1>1, <1>5 DEF MulticastInv, Mc!TypeOK
<1> QED BY <1>1, <1>4, <1>6 DEF MulticastInv, NothingHeld, ErrorsReported, PolledWhenPlugged

\* At the end of init the addresses were freed again.
LEMMA AllMade ==
  ASSUME MulticastInv, phase \in {"attaching", "plugged"}
  PROVE  Made(Len(Mc!Calls)) /\ sock # NULL /\ res = NULL /\ pgm_error = NULL
<1>1. Mc!TypeOK
  BY DEF MulticastInv
<1>2. Len(Mc!Calls) >= 4 /\ Len(Mc!Calls) \in Nat
  BY <1>1, CallsNonEmpty
<1>3. PICK n \in 0..Len(Mc!Calls) : Made(n)
  BY DEF MulticastInv, InitRuns
<1>4. n = Len(Mc!Calls)
  BY <1>2, <1>3 DEF Made
<1>5. sock # NULL
  BY <1>2, <1>3, <1>4 DEF Made
<1>6. res = NULL
  <2>1. \A k : k \notin n + 1..Len(Mc!Calls)
    BY <1>2, <1>4
  <2> QED BY <1>3, <2>1 DEF Made
<1> QED BY <1>3, <1>4, <1>5, <1>6 DEF MulticastInv, ErrorsReported

LEMMA EngineDeleted == ASSUME MulticastInv, Mc!terminate PROVE MulticastInv'
<1>1. /\ phase \in {"attaching", "plugged"} /\ phase' = "deleted"
      /\ sock' = NULL /\ set' = <<>> /\ buffer' = NULL /\ fds' = {}
      /\ UNCHANGED <<multicast_options, network, left, res, pgm_error>>
  BY DEF Mc!terminate
<1>2. res = NULL /\ pgm_error = NULL
  BY <1>1, AllMade
<1>3. Mc!TypeOK'
  BY <1>1 DEF MulticastInv, Mc!TypeOK
<1> QED BY <1>1, <1>2, <1>3 DEF MulticastInv, InitRuns, NothingHeld, ErrorsReported, PolledWhenPlugged

LEMMA MulticastKept == MulticastInv /\ [Mc!Next]_(Mc!multicastVars) => MulticastInv'
<1> SUFFICES ASSUME MulticastInv, [Mc!Next]_(Mc!multicastVars) PROVE MulticastInv'
  OBVIOUS
<1>1. CASE Mc!start_connecting
  BY <1>1, MulticastStarts
<1>2. CASE Mc!Call
  <2>1. phase = "opening" /\ pgm_error = NULL /\ UNCHANGED <<multicast_options, network, fds>>
    BY <1>2 DEF Mc!Call
  <2>2. CASE Mc!Done(Head(left))
    BY <2>1, <2>2, CallMade
  <2>3. CASE Mc!Fails(Head(left)) /\ pgm_error' = "owned" /\ UNCHANGED <<phase, left, sock, res, set, buffer>>
    BY <2>1, <2>3, CallReports
  <2>4. CASE Mc!Fails(Head(left)) /\ Mc!err_abort
    BY <2>1, <2>4, InitAborts DEF Mc!Fails
  <2> QED BY <1>2, <2>2, <2>3, <2>4 DEF Mc!Call
<1>3. CASE Mc!Abort
  <2>1. ~network.works
    BY <1>3 DEF Mc!Abort, MulticastInv, ErrorsReported
  <2> QED BY <1>3, <2>1, InitAborts DEF Mc!Abort
<1>4. CASE Mc!process_attach
  BY <1>4, EngineAttached
<1>5. CASE Mc!terminate
  BY <1>5, EngineDeleted
<1>6. CASE UNCHANGED Mc!multicastVars
  <2>1. UNCHANGED <<multicast_options, network, phase, left, sock, res, pgm_error, set, buffer, fds>>
    BY <1>6 DEF Mc!multicastVars
  <2>2. Mc!Calls' = Mc!Calls /\ (Mc!Valid' <=> Mc!Valid) /\ (Mc!receiver' <=> Mc!receiver)
        /\ Mc!pgm_msgv_len' = Mc!pgm_msgv_len
    BY <2>1, OptionsStay
  <2>3. \A n : Made(n) => Made(n)'
    BY <2>1, <2>2 DEF Made, Mc!Bound
  <2>4. InitRuns'
    BY <2>1, <2>2, <2>3 DEF MulticastInv, InitRuns
  <2> QED BY <2>1, <2>2, <2>4 DEF MulticastInv, NothingHeld, ErrorsReported, PolledWhenPlugged, Mc!TypeOK
<1> QED BY <1>1, <1>2, <1>3, <1>4, <1>5, <1>6 DEF Mc!Next

LEMMA MulticastBegins == Mc!Init => MulticastInv
<1> SUFFICES ASSUME Mc!Init PROVE MulticastInv
  OBVIOUS
<1>1. Mc!TypeOK
  BY DEF Mc!Init, Mc!TypeOK
<1>2. InitRuns
  BY DEF Mc!Init, InitRuns
<1>3. NothingHeld /\ ErrorsReported /\ PolledWhenPlugged
  BY DEF Mc!Init, NothingHeld, ErrorsReported, PolledWhenPlugged
<1> QED BY <1>1, <1>2, <1>3 DEF MulticastInv

LEMMA MulticastAlone == [ConnectionsNext]_connectionsVars => [Mc!Next]_(Mc!multicastVars)
<1> SUFFICES ASSUME [ConnectionsNext]_connectionsVars, ~UNCHANGED multicastVars PROVE Mc!Next
  BY Zenon DEF Mc!multicastVars, multicastVars
<1> QED BY Zenon DEF ConnectionsNext, OtherConnections, Stays, connectionsVars

LEMMA MulticastInvariant == ConnectionsSpec => []MulticastInv
<1>1. ConnectionsInit => MulticastInv
  BY MulticastBegins DEF ConnectionsInit
<1>2. MulticastInv /\ [ConnectionsNext]_connectionsVars => MulticastInv'
  BY MulticastAlone, MulticastKept
<1> QED BY <1>1, <1>2, PTL DEF ConnectionsSpec

(***************************************************************************)
(* Multicast: what the invariant is for.                                   *)
(***************************************************************************)
LEMMA AsIntOfSmall == \A n \in Nat : n < 2^(IntWidth - 1) => Mc!AsInt(n) = n
<1>1. 2^16 = 65536 /\ 2^(16 - 1) = 32768 /\ 2^32 = 4294967296 /\ 2^(32 - 1) = 2147483648
  OBVIOUS
<1> SUFFICES ASSUME NEW n \in Nat, n < 2^(IntWidth - 1) PROVE Mc!AsInt(n) = n
  OBVIOUS
<1>2. CASE IntWidth = 16
  <2>1. Mc!AsInt(n) = ((n + 32768) % 65536) - 32768 /\ n < 32768
    BY <1>1, <1>2 DEF Mc!AsInt
  <2> QED BY <2>1
<1>3. CASE IntWidth = 32
  <2>1. Mc!AsInt(n) = ((n + 2147483648) % 4294967296) - 2147483648 /\ n < 2147483648
    BY <1>1, <1>3 DEF Mc!AsInt
  <2> QED BY <2>1
<1> QED BY <1>2, <1>3, MulticastFacts

LEMMA IntervalHeld ==
  ASSUME Mc!WindowsFit, Mc!TypeOK, Mc!Valid
  PROVE  LET sqns == Mc!compute_sqns(multicast_options)
         IN /\ sqns >= 1 /\ Mc!max_rte(multicast_options) > 0
            /\ Mc!Asked(multicast_options) * (multicast_options.rate \div 8) < (sqns + 1) * 1500
<1> DEFINE o == multicast_options
           asked == Mc!Asked(o)
           interval == IF o.recovery_ivl_msec >= 0 THEN o.recovery_ivl_msec ELSE Mc!AsUnsigned(o.recovery_ivl * 1000)
           x == asked * (o.rate \div 8)
           packets == x \div 1500
           rte == (o.rate * 1000) \div 8
           limit == 2^(IntWidth - 1)
<1>1. o \in Configs
  BY DEF Mc!TypeOK
<1>2. o.rate \in Nat /\ o.recovery_ivl \in Nat /\ o.recovery_ivl_msec \in Int
  BY <1>1, MulticastFacts
<1>3. o.recovery_ivl_msec # 0 /\ packets < limit
  BY <1>1 DEF Mc!WindowsFit
<1>4. Mc!AsUnsigned(o.recovery_ivl * 1000) = o.recovery_ivl * 1000 /\ Mc!AsUnsigned(o.rate * 1000) = o.rate * 1000
  <2>1. o.recovery_ivl * 1000 \in Nat /\ o.rate * 1000 \in Nat
    BY <1>2
  <2>2. o.recovery_ivl * 1000 < 2^IntWidth /\ o.rate * 1000 < 2^IntWidth
    BY <1>1 DEF Mc!WindowsFit
  <2> QED BY <2>1, <2>2, AsUnsignedTyped
<1>5. limit > 1 /\ rte < limit
  <2>1. 2^16 = 65536 /\ 2^(16 - 1) = 32768 /\ 2^32 = 4294967296 /\ 2^(32 - 1) = 2147483648
    OBVIOUS
  <2>2. o.rate * 1000 < 2^IntWidth
    BY <1>1 DEF Mc!WindowsFit
  <2>3. CASE IntWidth = 16
    BY <1>2, <2>1, <2>2, <2>3
  <2>4. CASE IntWidth = 32
    BY <1>2, <2>1, <2>2, <2>4
  <2> QED BY <2>3, <2>4, MulticastFacts
<1>6. o.rate > 0
  BY DEF Mc!Valid
<1>7. Mc!compute_sqns(o) = Mc!AsInt(IF (interval * (o.rate \div 8)) \div 1500 = 0 THEN 1
                                    ELSE (interval * (o.rate \div 8)) \div 1500)
  BY DEF Mc!compute_sqns
<1>8. Mc!max_rte(o) = Mc!AsInt(rte)
  BY <1>4 DEF Mc!max_rte
<1> HIDE DEF o
<1>9. interval = asked /\ asked \in Nat
  BY <1>2, <1>3, <1>4 DEF Mc!Asked
<1>10. o.rate \div 8 \in Nat
  BY <1>2
<1>11. x \in Nat
  BY <1>9, <1>10
<1>12. rte \in Nat /\ rte > 0
  BY <1>2, <1>6
<1> HIDE DEF interval, asked, rte
<1>13. Mc!compute_sqns(o) = Mc!AsInt(IF packets = 0 THEN 1 ELSE packets)
  BY <1>7, <1>9
<1> HIDE DEF x
<1>14. packets \in Nat /\ x < (packets + 1) * 1500
  BY <1>11
<1> HIDE DEF packets, limit
<1>15. Mc!max_rte(o) = rte
  BY <1>8, <1>12, <1>5, AsIntOfSmall DEF limit
<1>16. Mc!compute_sqns(o) = IF packets = 0 THEN 1 ELSE packets
  BY <1>3, <1>13, <1>5, <1>14, AsIntOfSmall DEF limit
<1>17. /\ Mc!compute_sqns(o) >= 1 /\ Mc!max_rte(o) > 0 /\ x < (Mc!compute_sqns(o) + 1) * 1500
  BY <1>11, <1>12, <1>14, <1>15, <1>16
<1> QED BY <1>17 DEF o, x, asked

LEMMA WholeWhenPlugged ==
  ASSUME MulticastInv, fds # {}
  PROVE  Mc!PluggedWhole
<1> DEFINE N == Len(Mc!Calls)
           sqns == Mc!compute_sqns(multicast_options)
<1>1. Mc!TypeOK /\ phase = "plugged"
  BY DEF MulticastInv, PolledWhenPlugged
<1>2. Made(N)
  BY <1>1, AllMade
<1>3. Mc!Calls \in Seq(AnyCall) /\ N \in Nat
  BY <1>1, CallsNonEmpty
<1>4. set \in Seq(AnyCall) /\ DOMAIN set = 1..Len(set)
  BY <1>2 DEF Made
<1>5. \A k \in 1..N : Mc!Calls[k].call \in {"setsockopt", "bind3"} => \E j \in DOMAIN set : set[j] = Mc!Calls[k]
  BY <1>2, <1>4 DEF Made
<1>6. \A j, k \in DOMAIN set : set[j] \in WindowSetting /\ set[k] = Mc!Bound => j < k
  BY <1>2, <1>4 DEF Made
<1>7. \A nm, val : (\E k \in 1..N : Mc!Calls[k] = Mc!Set(nm, val)) => Mc!SetTo(nm, val)
  <2> SUFFICES ASSUME NEW nm, NEW val, NEW k \in 1..N, Mc!Calls[k] = Mc!Set(nm, val) PROVE Mc!SetTo(nm, val)
    OBVIOUS
  <2>1. Mc!Calls[k].call = "setsockopt"
    BY DEF Mc!Set
  <2> QED BY <1>5, <2>1 DEF Mc!SetTo
<1>8. Mc!SetTo("NOBLOCK", 1) /\ Mc!SetTo("SEND_GROUP", 1) /\ \A n \in 1..network.groups : Mc!SetTo("JOIN_GROUP", n)
  BY <1>1, <1>7, CallsContain
<1>9. PICK k \in 1..N, window \in WindowName : Mc!Calls[k] = Mc!Set(window, sqns)
  BY <1>1, CallsContain
<1>10. Mc!SetTo(window, sqns)
  BY <1>7, <1>9
<1>11. Mc!Set(window, sqns) \in WindowSetting
  BY <1>1, SqnsTyped DEF Mc!Set, WindowSetting
<1>12. \E j \in DOMAIN set : set[j] = Mc!Bound
  <2>1. PICK bind \in 3..N - 1 : Mc!Calls[bind] = Mc!Bound
    BY <1>1, CallKinds
  <2>2. bind \in 1..N /\ Mc!Calls[bind].call = "bind3"
    BY <1>3, <2>1 DEF Mc!Bound
  <2> QED BY <1>5, <2>1, <2>2
<1> HIDE DEF sqns
<1>13. \A c1 : (\E j \in DOMAIN set : set[j] = c1) => Mc!Place(c1) \in DOMAIN set /\ set[Mc!Place(c1)] = c1
  BY DEF Mc!Place
<1>14. Mc!Place(Mc!Set(window, sqns)) < Mc!Place(Mc!Bound)
  <2>1. Mc!Place(Mc!Set(window, sqns)) \in DOMAIN set /\ set[Mc!Place(Mc!Set(window, sqns))] = Mc!Set(window, sqns)
    BY <1>10, <1>13 DEF Mc!SetTo
  <2>2. Mc!Place(Mc!Bound) \in DOMAIN set /\ set[Mc!Place(Mc!Bound)] = Mc!Bound
    BY <1>12, <1>13
  <2> QED BY <1>6, <1>11, <2>1, <2>2
<1>15. buffer = IF Mc!receiver THEN Mc!pgm_msgv_len ELSE 1460
  BY <1>2, <1>3 DEF Made
<1>16. Mc!pgm_msgv_len = 6
  BY DEF Mc!pgm_msgv_len
<1>17. buffer # NULL /\ (Mc!receiver => buffer * 1460 >= 8192)
  BY <1>15, <1>16, MulticastFacts
<1> QED BY <1>8, <1>10, <1>14, <1>17 DEF Mc!PluggedWhole, WindowName, sqns

LEMMA MulticastPromised ==
  ASSUME Mc!WindowsFit, MulticastInv PROVE Mc!MulticastSound
<1>1. Mc!TypeOK
  BY DEF MulticastInv
<1>2. Mc!NothingLeaks
  BY AllMade DEF MulticastInv, NothingHeld, Mc!NothingLeaks
<1>3. Mc!PluggedWhole
  BY WholeWhenPlugged DEF Mc!PluggedWhole
<1>4. Mc!WindowHoldsInterval
  <2> SUFFICES ASSUME fds # {} 
               PROVE  LET sqns == Mc!compute_sqns(multicast_options)
                      IN /\ sqns >= 1 /\ Mc!max_rte(multicast_options) > 0
                         /\ Mc!Asked(multicast_options) * (multicast_options.rate \div 8) < (sqns + 1) * 1500
    BY DEF Mc!WindowHoldsInterval
  <2>1. Mc!Valid
    BY DEF MulticastInv, InitRuns, PolledWhenPlugged
  <2> QED BY <1>1, <2>1, IntervalHeld
<1>5. Mc!NeverAborts
  BY DEF MulticastInv, ErrorsReported, Mc!NeverAborts
<1> QED BY <1>1, <1>2, <1>3, <1>4, <1>5 DEF Mc!MulticastSound

\* tcp_connecter.cpp, tcp_listener.cpp, poller_base.cpp, pgm_socket.cpp: for any
\* number of connecters and listeners and any options whose window an int holds,
\* a timer is there exactly while it is waited for, a descriptor has one owner who
\* closes it, and wherever the set-up of a multicast socket fails it releases all.
THEOREM TransportSoundHolds == Mc!WindowsFit => (ConnectionsSpec => []TransportSound)
<1>1. TransportInv /\ Mc!WindowsFit /\ MulticastInv => TransportSound
  BY TransportPromised, MulticastPromised DEF TransportSound
<1>2. Mc!WindowsFit => []Mc!WindowsFit
  <2>1. Mc!WindowsFit => Mc!WindowsFit'
    BY DEF Mc!WindowsFit, Mc!Asked
  <2> QED BY <2>1, PTL
<1> QED BY <1>1, <1>2, TransportInvariant, MulticastInvariant, PTL
==============================================================================
