------------------------------ MODULE OwnProofs -----------------------------
(***************************************************************************)
(* Proofs about the trees of objects of ZeroMQ, for any objects and any    *)
(* number of threads.  A child is at any time at exactly one stage of its  *)
(* life: announced by its thread, told of by a command, owned, told to go, *)
(* or terminating.  The counters follow: what was sent to an object is     *)
(* what it has processed and what is under way to it, and the              *)
(* acknowledgements it waits for are those of the children it told to go.  *)
(***************************************************************************)
EXTENDS ZmqThreadsProofs

\* The state of a tree, for the lemmas to speak of several.
Now == [home |-> Tree!Home, named |-> Tree!Named, phase |-> phase, owner |-> owner, owned |-> owned, plugged |-> plugged,
        terminating |-> terminating, acks |-> term_acks, sent |-> sent_seqnum, processed |-> processed_seqnum,
        inbox |-> inbox, doing |-> doing, endpoint |-> endpoint, promised |-> promised]

PlugTo(o) == <<"plug", o, None>>
OwnTo(p, c) == <<"own", p, c>>
TermFor(o) == <<"term", o, None>>
AckTo(o) == <<"term_ack", o, None>>
BindTo(o) == <<"bind", o, None>>
ReqOf(p, c) == <<"term_req", p, c>>
\* The commands that are announced to an object before they are sent.
Counted(o) == {PlugTo(o), BindTo(o)} \union {OwnTo(o, c) : c \in Object}

Doing == {Tree!Nothing} \union ({"launching"} \X ({"own"} \X Object \X Object)) \union ({"deleting"} \X Object)
Launching(s, t, p, c) == s.doing[t] = <<"launching", OwnTo(p, c)>>
Ready(s, o) == s.doing[s.home[o]] = Tree!Nothing
Box(s, o) == s.inbox[s.home[o]]
Born(s, o) == s.phase[o] # "unborn"
Alive(s, o) == s.phase[o] = "alive"
Over(s, o) == s.phase[o] \in {"leaving", "gone"}

TreeTypes(s) ==
  /\ s.home \in [Object -> Thread] /\ s.named \subseteq Object \ {Root}
  /\ s.named = {} \/ \A o, p \in Object \ {Root} : s.home[o] = s.home[p]
  /\ s.phase \in [Object -> {"unborn", "alive", "leaving", "gone"}]
  /\ s.owner \in [Object -> Object \union {None}] /\ s.owned \in [Object -> SUBSET Object]
  /\ s.plugged \in [Object -> BOOLEAN] /\ s.terminating \in [Object -> BOOLEAN]
  /\ s.acks \in [Object -> Nat] /\ s.sent \in [Object -> Nat] /\ s.processed \in [Object -> Nat]
  /\ s.inbox \in [Thread -> Seq(Tree!Command)] /\ s.doing \in [Thread -> Doing]
  /\ s.endpoint \in BOOLEAN /\ s.promised \in Nat

\* Every object but the root has an owner from its birth on, and the owners lead
\* up to the root: some object of any set has its owner outside of it.
TreeBirth(s) ==
  /\ s.owner[Root] = None /\ Born(s, Root)
  /\ \A c \in Object \ {Root} : Born(s, c) => s.owner[c] \in Object
  /\ \A c \in Object : ~Born(s, c) => s.owner[c] = None /\ ~s.terminating[c]
  /\ \A c \in Object : s.owner[c] \in Object => Born(s, s.owner[c])
  /\ \A S \in SUBSET (Object \ {Root}) : S # {} /\ (\A o \in S : s.owner[o] \in Object) => \E o \in S : s.owner[o] \notin S
  /\ \A c \in s.named : s.owner[c] # Root

\* A command under way is to an object that lives, in its thread, behind the plug;
\* and a request to be terminated is of a child that lives, or from which an
\* acknowledgement follows.
CommandSound(s, t, i) ==
  LET m == s.inbox[t][i]
  IN /\ s.home[m[2]] = t /\ Alive(s, m[2])
     /\ m[1] \in {"own", "term_req"} => m[3] \in Object \ {Root} /\ s.owner[m[3]] = m[2]
     /\ m[1] = "term" => m[2] # Root
     /\ m[1] \in {"plug", "bind", "term", "term_ack"} => m[3] = None
     /\ m[1] = "plug" \/ s.plugged[m[2]] \/ \E j \in 1..i - 1 : s.inbox[t][j] = PlugTo(m[2])
     /\ m[1] = "term_req" => Alive(s, m[3]) \/ \E j \in i + 1..Len(s.inbox[t]) : s.inbox[t][j] = AckTo(m[2])
TreeCommands(s) == \A t \in Thread : \A i \in 1..Len(s.inbox[t]) : CommandSound(s, t, i)
TreePlugged(s) == \A o \in Object : Born(s, o) => s.plugged[o] \/ Hits(Box(s, o), {PlugTo(o)}) # 0

\* What the threads are in the middle of.  A thread that launches does so for an
\* owner that lives: the object that launches is the owner, or its child, and
\* of any such threads one has an object that none of them launches itself.
Launcher(s, S, t, p, o) ==
  /\ s.home[o] = t /\ Alive(s, o)
  /\ o = p \/ (s.owner[o] = p /\ ~s.terminating[o] /\ \A u \in S : ~Launching(s, u, p, o))
TreeThreads(s) ==
  /\ \A t \in Thread, p, c \in Object : Launching(s, t, p, c) => c # Root /\ s.owner[c] = p /\ Alive(s, p)
  /\ \A t, u \in Thread, p, q, c \in Object : Launching(s, t, p, c) /\ Launching(s, u, q, c) => t = u
  /\ \A t \in Thread, o \in Object : s.doing[t] = <<"deleting", o>> => s.home[o] = t /\ s.phase[o] = "leaving"
  /\ \A o \in Object : s.phase[o] = "leaving" => s.doing[s.home[o]] = <<"deleting", o>>
  /\ \A S \in SUBSET Thread, p \in Object : S # {} /\ (\A t \in S : \E c \in Object : Launching(s, t, p, c))
       => \E t \in S, o \in Object : Launcher(s, S, t, p, o)

\* Where a child is with its owner: announced by a thread, announced by a command,
\* owned, told to terminate, or terminating.
InHand(s, c) == \E t \in Thread : Launching(s, t, s.owner[c], c)
Stage(s, c) ==
  (IF InHand(s, c) THEN 1 ELSE 0)
  + Hits(Box(s, s.owner[c]), {OwnTo(s.owner[c], c)})
  + (IF c \in s.owned[s.owner[c]] THEN 1 ELSE 0)
  + Hits(Box(s, c), {TermFor(c)})
  + (IF s.terminating[c] THEN 1 ELSE 0)
TreeStages(s) ==
  /\ \A c \in Object \ {Root} : Born(s, c) => Stage(s, c) = 1
  /\ \A p \in Object : \A c \in s.owned[p] : c # Root /\ s.owner[c] = p
  /\ \A p \in Object : s.terminating[p] => s.owned[p] = {}

\* The children whose acknowledgement is still to be sent.
Told(s, c) == s.terminating[c] \/ Hits(Box(s, c), {TermFor(c)}) # 0
Termed(s, p) == {c \in Object : s.owner[c] = p /\ Alive(s, c) /\ Told(s, c)}
SentRight(s, o) == s.sent[o] = s.processed[o] + Hits(Box(s, o), Counted(o)) + (IF o = Root THEN s.promised ELSE 0)
AcksRight(s, o) == s.acks[o] = Cardinality(Termed(s, o)) + Hits(Box(s, o), {AckTo(o)})
TreeCounts(s) == \A o \in Object : SentRight(s, o) /\ AcksRight(s, o)

TreeEnds(s) ==
  /\ \A o \in Object : Over(s, o) => s.terminating[o] /\ s.sent[o] = s.processed[o]
  /\ \A o, c \in Object : s.owner[c] = o /\ Over(s, o) => Over(s, c)
  /\ \A o \in Object \ {Root}, c \in Object :
       s.owner[c] = o /\ Over(s, o) /\ (\A a, b \in Object \ {Root} : s.home[a] = s.home[b]) => s.phase[c] = "gone"
  /\ s.endpoint => Alive(s, Root) /\ ~s.terminating[Root]

TreeLaw(s) ==
  /\ TreeTypes(s) /\ TreeBirth(s) /\ TreeCommands(s) /\ TreePlugged(s) /\ TreeThreads(s)
  /\ TreeStages(s) /\ TreeCounts(s) /\ TreeEnds(s)
TreeInv == TreeLaw(Now) /\ layout \in Layouts /\ requested \subseteq Object /\ finds \in 0..Tree!MaxFinds /\ promised <= finds

LEMMA TreeFacts ==
  /\ Root \in Object /\ None \notin Object /\ IsFiniteSet(Object)
  /\ Layouts \subseteq [home : [Object -> Thread], named : SUBSET (Object \ {Root}), finds : Nat]
  /\ \A l \in Layouts : l.named = {} \/ \A o, p \in Object \ {Root} : l.home[o] = l.home[p]
<1>1. Tree!IsFiniteSet(Object) => IsFiniteSet(Object)
  BY Zenon DEF Tree!IsFiniteSet, IsFiniteSet
<1> QED BY <1>1, PartsAssumption DEF PartsAssumption, Tree!OwnAssumption

LEMMA SetsOfObjects ==
  ASSUME NEW S, S \subseteq Object
  PROVE  IsFiniteSet(S) /\ Cardinality(S) \in Nat /\ (Cardinality(S) = 0 <=> S = {})
<1>1. IsFiniteSet(S)
  BY TreeFacts, FS_Subset
<1> QED BY <1>1, FS_CardinalityType, FS_EmptySet

\* The commands, with their names.
LEMMA CommandFacts ==
  /\ \A o \in Object : /\ PlugTo(o) \in Tree!Command /\ PlugTo(o)[1] = "plug" /\ PlugTo(o)[2] = o /\ PlugTo(o)[3] = None
                       /\ TermFor(o) \in Tree!Command /\ TermFor(o)[1] = "term" /\ TermFor(o)[2] = o /\ TermFor(o)[3] = None
                       /\ AckTo(o) \in Tree!Command /\ AckTo(o)[1] = "term_ack" /\ AckTo(o)[2] = o /\ AckTo(o)[3] = None
                       /\ BindTo(o) \in Tree!Command /\ BindTo(o)[1] = "bind" /\ BindTo(o)[2] = o /\ BindTo(o)[3] = None
  /\ \A o, c \in Object : OwnTo(o, c) \in Tree!Command /\ OwnTo(o, c)[1] = "own" /\ OwnTo(o, c)[2] = o /\ OwnTo(o, c)[3] = c
  /\ \A o, c \in Object : ReqOf(o, c) \in Tree!Command /\ ReqOf(o, c)[1] = "term_req" /\ ReqOf(o, c)[2] = o /\ ReqOf(o, c)[3] = c
  /\ \A x \in Tree!Command : x[2] \in Object /\ x[1] \in {"plug", "own", "term_req", "term", "term_ack", "bind"}
                             /\ x[3] \in Object \union {None} /\ x = <<x[1], x[2], x[3]>>
BY DEF PlugTo, TermFor, AckTo, BindTo, OwnTo, ReqOf, Tree!Command

LEMMA HitsCat ==
  ASSUME NEW X, NEW a \in Seq(X), NEW b \in Seq(X), NEW S
  PROVE  Hits(a \o b, S) = Hits(a, S) + Hits(b, S)
<1> DEFINE n == Len(a)
           A == Places(a, S)
           B == Places(b, S)
           C == {j \in n + 1..n + Len(b) : j - n \in B}
           f == [j \in B |-> j + n]
<1>1. n \in Nat /\ Len(b) \in Nat /\ IsFiniteSet(A) /\ IsFiniteSet(B) /\ A \subseteq 1..n /\ B \subseteq 1..Len(b)
  <2>1. IsFiniteSet(A)
    BY HitsType
  <2>2. IsFiniteSet(B)
    BY HitsType
  <2>3. n \in Nat /\ DOMAIN a = 1..n /\ Len(b) \in Nat /\ DOMAIN b = 1..Len(b)
    BY LenProperties
  <2> QED BY <2>1, <2>2, <2>3 DEF Places
<1>2. /\ Len(a \o b) = n + Len(b) /\ DOMAIN (a \o b) = 1..n + Len(b)
      /\ \A j \in 1..n : (a \o b)[j] = a[j]
      /\ \A j \in n + 1..n + Len(b) : (a \o b)[j] = b[j - n]
  BY ConcatProperties, LenProperties
<1>3. DOMAIN a = 1..n /\ DOMAIN b = 1..Len(b)
  BY LenProperties
<1>4. Places(a \o b, S) = A \union C
  <2> DEFINE ab == a \o b
             m == Len(b)
  <2>1. \A j \in 1..n : j \in A <=> ab[j] \in S
    BY <1>2, <1>3 DEF Places
  <2>2. \A j \in n + 1..n + m : j - n \in B <=> ab[j] \in S
    <3>1. \A j \in n + 1..n + m : j - n \in 1..m
      BY <1>1
    <3>2. \A k \in 1..m : k \in B <=> b[k] \in S
      BY <1>3 DEF Places
    <3> QED BY <1>2, <3>1, <3>2
  <2>3. Places(ab, S) = {j \in 1..n + m : ab[j] \in S}
    BY <1>2 DEF Places
  <2>4. n \in Nat /\ m \in Nat /\ A \subseteq 1..n
    BY <1>1
  <2>5. C = {j \in n + 1..n + m : j - n \in B}
    OBVIOUS
  <2> HIDE DEF n, ab, m, A, B, C
  <2>6. \A j : j \in 1..n + m <=> j \in 1..n \/ j \in n + 1..n + m
    BY <2>4
  <2>7. \A j \in n + 1..n + m : j \notin 1..n
    BY <2>4
  <2>8. Places(ab, S) = A \union C
    BY <2>1, <2>2, <2>3, <2>4, <2>5, <2>6, <2>7
  <2> QED BY <2>8 DEF ab
<1> HIDE DEF A, B, n
<1>5. A \intersect C = {}
  BY <1>1
<1>6. f \in Bijection(B, C)
  <2>1. f \in [B -> C]
    BY <1>1
  <2>2. \A i, j \in B : f[i] = f[j] => i = j
    BY <1>1
  <2>3. \A k \in C : k - n \in B /\ f[k - n] = k
    BY <1>1
  <2> QED BY <2>1, <2>2, <2>3 DEF Bijection, Injection, Surjection, IsInjective
<1>7. IsFiniteSet(C) /\ Cardinality(C) = Cardinality(B)
  BY <1>1, <1>6, FS_Bijection DEF ExistsBijection
<1> HIDE DEF C
<1>8. Cardinality(A \union C) = Cardinality(A) + Cardinality(C) - Cardinality({})
  BY <1>1, <1>5, <1>7, FS_Union
<1>9. Cardinality(A) \in Nat /\ Cardinality(B) \in Nat /\ Cardinality({}) = 0
  BY <1>1, FS_CardinalityType, FS_EmptySet
<1> QED BY <1>4, <1>7, <1>8, <1>9 DEF Hits, A, B

\* A set as a sequence: each element is in one place.
LEMMA SequenceOfSet ==
  ASSUME NEW T, IsFiniteSet(T)
  PROVE  Tree!SetToSeq(T) \in Seq(T) /\ \A x : Hits(Tree!SetToSeq(T), {x}) = IF x \in T THEN 1 ELSE 0
<1> DEFINE n == Cardinality(T)
           q == Tree!SetToSeq(T)
<1>1. n \in Nat /\ \E g \in [1..n -> T] : IsInjective(g)
  BY FS_CardinalityType DEF ExistsBijection, Bijection, Injection
<1>2. q \in [1..n -> T] /\ IsInjective(q)
  <2>1. Tree!Cardinality(T) = n
    BY DEF Tree!Cardinality, Cardinality
  <2>2. \A g : Tree!IsInjective(g) <=> IsInjective(g)
    BY DEF Tree!IsInjective, IsInjective
  <2>3. q = CHOOSE g \in [1..n -> T] : Tree!IsInjective(g)
    BY <2>1 DEF Tree!SetToSeq
  <2> HIDE DEF n, q
  <2>4. \E g : g \in [1..n -> T] /\ Tree!IsInjective(g)
    BY <1>1, <2>2
  <2>5. q \in [1..n -> T] /\ Tree!IsInjective(q)
    BY <2>3, <2>4
  <2> QED BY <2>2, <2>5
<1> HIDE DEF q
<1>3. q \in Surjection(1..n, T)
  <2>1. q \in Injection(1..n, T)
    BY <1>2 DEF Injection
  <2>2. Cardinality(1..n) = n
    <3>1. n \in Int /\ 1 \in Int /\ (1 > n \/ n - 1 + 1 = n) /\ (1 > n => n = 0)
      BY <1>1
    <3> QED BY <3>1, FS_Interval
  <2> QED BY <2>1, <2>2, FS_Injection
<1>4. \A x \in T : \E i \in 1..n : q[i] = x
  BY <1>3 DEF Surjection
<1> HIDE DEF n
<1>5. q \in Seq(T) /\ DOMAIN q = 1..n
  BY <1>1, <1>2
<1>6. \A i, j \in 1..n : q[i] = q[j] => i = j
  BY <1>2 DEF IsInjective
<1>7. ASSUME NEW x PROVE Hits(q, {x}) = IF x \in T THEN 1 ELSE 0
  <2>1. CASE x \in T
    <3>1. PICK i \in 1..n : q[i] = x
      BY <2>1, <1>4
    <3>2. Places(q, {x}) = {i}
      BY <3>1, <1>5, <1>6 DEF Places
    <3> QED BY <2>1, <3>2, FS_Singleton DEF Hits
  <2>2. CASE x \notin T
    <3>1. Places(q, {x}) = {}
      BY <2>2, <1>2, <1>5 DEF Places
    <3> QED BY <2>2, <3>1, FS_EmptySet DEF Hits
  <2> QED BY <2>1, <2>2
<1> QED BY <1>5, <1>7 DEF q

\* What is posted to the threads: each command of a set, once, to its thread.
Posted(h, posts, P) ==
  /\ posts \in [Thread -> Seq(Tree!Command)] /\ P \subseteq Tree!Command
  /\ \A t \in Thread, x \in Tree!Command : Hits(posts[t], {x}) = IF x \in P /\ h[x[2]] = t THEN 1 ELSE 0

LEMMA PostedNone == ASSUME NEW h PROVE Posted(h, Tree!NoPost, {})
<1>1. \A x : Hits(<<>>, {x}) = 0
  <2> SUFFICES ASSUME NEW x PROVE Hits(<<>>, {x}) = 0
    OBVIOUS
  <2>1. <<>> \in Seq({}) /\ DOMAIN <<>> = {}
    OBVIOUS
  <2> QED BY <2>1, HitsType
<1>2. Tree!NoPost \in [Thread -> Seq(Tree!Command)] /\ \A t \in Thread : Tree!NoPost[t] = <<>>
  BY DEF Tree!NoPost
<1> DEFINE none == <<>>
<1> HIDE DEF none
<1>3. \A t \in Thread, x \in Tree!Command : Hits(Tree!NoPost[t], {x}) = 0
  BY <1>1, <1>2
<1> QED BY <1>2, <1>3 DEF Posted

LEMMA PostedOne ==
  ASSUME NEW x \in Tree!Command, layout \in Layouts
  PROVE  Posted(Tree!Home, Tree!Post(x), {x})
<1>1. \A y : Hits(<<>>, {y}) = 0 /\ Hits(<<x>>, {y}) = IF y = x THEN 1 ELSE 0
  <2> SUFFICES ASSUME NEW y PROVE Hits(<<>>, {y}) = 0 /\ Hits(<<x>>, {y}) = IF y = x THEN 1 ELSE 0
    OBVIOUS
  <2> DEFINE none == <<>>
             one == <<x>>
             X == {x}
             Y == {y}
  <2>1. none \in Seq(X) /\ DOMAIN none = {} /\ Append(none, x) = one /\ x \in X /\ (x \in Y <=> y = x)
    OBVIOUS
  <2> HIDE DEF none, one, X, Y
  <2>2. Hits(none, Y) = 0
    BY <2>1, HitsType
  <2>3. Hits(Append(none, x), Y) = Hits(none, Y) + (IF x \in Y THEN 1 ELSE 0)
    <3>1. none \in Seq(X) /\ x \in X
      BY <2>1
    <3>2. \A e \in X : Hits(Append(none, e), Y) = Hits(none, Y) + (IF e \in Y THEN 1 ELSE 0)
      BY <3>1, HitsAppend
    <3> QED BY <3>1, <3>2, Zenon
  <2>4. Hits(none, Y) = 0 /\ Hits(one, Y) = IF y = x THEN 1 ELSE 0
    BY <2>1, <2>2, <2>3
  <2> QED BY <2>4 DEF none, one, Y
<1>2. Tree!Post(x) = [t \in Thread |-> IF t = Tree!Home[x[2]] THEN <<x>> ELSE <<>>]
  BY DEF Tree!Post, Tree!To
<1>3. Tree!Post(x) \in [Thread -> Seq(Tree!Command)]
  BY <1>2
<1> DEFINE posts == Tree!Post(x)
           one == <<x>>
           none == <<>>
<1>4. ASSUME NEW t \in Thread, NEW y \in Tree!Command
      PROVE  Hits(posts[t], {y}) = IF y \in {x} /\ Tree!Home[y[2]] = t THEN 1 ELSE 0
  <2>1. posts[t] = IF t = Tree!Home[x[2]] THEN one ELSE none
    BY <1>2
  <2>2. Hits(none, {y}) = 0 /\ Hits(one, {y}) = IF y = x THEN 1 ELSE 0
    BY <1>1
  <2> HIDE DEF posts, one, none
  <2> QED BY <2>1, <2>2
<1> QED BY <1>3, <1>4 DEF Posted

LEMMA PostedTerms ==
  ASSUME NEW os, os \subseteq Object, layout \in Layouts
  PROVE  Posted(Tree!Home, Tree!TermTo(os), {TermFor(c) : c \in os})
<1> DEFINE mine(t) == {<<"term", c, None>> : c \in {p \in os : Tree!Home[p] = t}}
           posts == Tree!TermTo(os)
<1>1. ASSUME NEW t \in Thread
      PROVE  /\ IsFiniteSet(mine(t)) /\ mine(t) \subseteq Tree!Command
             /\ posts[t] = Tree!SetToSeq(mine(t))
             /\ \A y \in Tree!Command : y \in mine(t) <=> y \in {TermFor(c) : c \in os} /\ Tree!Home[y[2]] = t
  <2> DEFINE T == mine(t)
             f == [y \in T |-> y[2]]
  <2>1. \A y \in T : y[2] \in Object /\ y[2] \in os /\ y = <<"term", y[2], None>> /\ Tree!Home[y[2]] = t
    OBVIOUS
  <2>2. f \in Injection(T, Object)
    <3>1. f \in [T -> Object]
      BY <2>1
    <3>2. \A x, y \in T : f[x] = f[y] => x = y
      BY <2>1
    <3> QED BY <3>1, <3>2 DEF Injection, IsInjective
  <2>3. IsFiniteSet(T)
    <3> HIDE DEF T, f
    <3> QED BY <2>2, TreeFacts, FS_Injection
  <2>4. T \subseteq Tree!Command
    BY <2>1 DEF Tree!Command
  <2>5. \A y \in Tree!Command : y \in T <=> y \in {TermFor(c) : c \in os} /\ Tree!Home[y[2]] = t
    BY DEF TermFor
  <2> QED BY <2>3, <2>4, <2>5 DEF Tree!TermTo
<1> HIDE DEF mine, posts
<1>2. ASSUME NEW t \in Thread
      PROVE  posts[t] \in Seq(Tree!Command) /\ \A x : Hits(posts[t], {x}) = IF x \in mine(t) THEN 1 ELSE 0
  <2>1. posts[t] \in Seq(mine(t)) /\ \A x : Hits(posts[t], {x}) = IF x \in mine(t) THEN 1 ELSE 0
    BY <1>1, SequenceOfSet
  <2> QED BY <1>1, <2>1
<1>3. posts \in [Thread -> Seq(Tree!Command)]
  <2>1. posts = [t \in Thread |-> posts[t]]
    BY DEF posts, Tree!TermTo
  <2> QED BY <1>2, <2>1
<1>4. {TermFor(c) : c \in os} \subseteq Tree!Command
  BY CommandFacts
<1>5. \A t \in Thread, x \in Tree!Command :
        Hits(posts[t], {x}) = IF x \in {TermFor(c) : c \in os} /\ Tree!Home[x[2]] = t THEN 1 ELSE 0
  <2> DEFINE P == {TermFor(c) : c \in os}
  <2>1. \A t \in Thread : \A y \in Tree!Command : y \in mine(t) <=> y \in P /\ Tree!Home[y[2]] = t
    BY <1>1
  <2> HIDE DEF P
  <2>2. \A t \in Thread, x \in Tree!Command : Hits(posts[t], {x}) = IF x \in P /\ Tree!Home[x[2]] = t THEN 1 ELSE 0
    BY <1>2, <2>1
  <2> QED BY <2>2 DEF P
<1> QED BY <1>3, <1>4, <1>5 DEF Posted, posts

LEMMA PostedBoth ==
  ASSUME NEW h, NEW p, NEW q, NEW P, NEW Q, Posted(h, p, P), Posted(h, q, Q), P \intersect Q = {}
  PROVE  Posted(h, Tree!Deliver(p, q), P \union Q)
<1> DEFINE pq == Tree!Deliver(p, q)
<1>1. pq = [t \in Thread |-> p[t] \o q[t]] /\ p \in [Thread -> Seq(Tree!Command)] /\ q \in [Thread -> Seq(Tree!Command)]
  BY DEF Tree!Deliver, Posted
<1>2. ASSUME NEW t \in Thread
      PROVE  /\ pq[t] \in Seq(Tree!Command)
             /\ \A x : Hits(pq[t], {x}) = Hits(p[t], {x}) + Hits(q[t], {x})
  <2>1. p[t] \in Seq(Tree!Command) /\ q[t] \in Seq(Tree!Command) /\ pq[t] = p[t] \o q[t]
    BY <1>1
  <2>2. p[t] \o q[t] \in Seq(Tree!Command)
    BY <2>1, ConcatProperties
  <2>3. \A x : Hits(p[t] \o q[t], {x}) = Hits(p[t], {x}) + Hits(q[t], {x})
    BY <2>1, HitsCat
  <2> HIDE DEF pq
  <2> QED BY <2>1, <2>2, <2>3
<1>3. pq = [t \in Thread |-> pq[t]]
  BY <1>1
<1> HIDE DEF pq
<1>4. pq \in [Thread -> Seq(Tree!Command)]
  BY <1>2, <1>3
<1>5. \A t \in Thread, x \in Tree!Command : Hits(pq[t], {x}) = IF x \in P \union Q /\ h[x[2]] = t THEN 1 ELSE 0
  <2> SUFFICES ASSUME NEW t \in Thread, NEW x \in Tree!Command
               PROVE  Hits(pq[t], {x}) = IF x \in P \union Q /\ h[x[2]] = t THEN 1 ELSE 0
    OBVIOUS
  <2>1. Hits(pq[t], {x}) = Hits(p[t], {x}) + Hits(q[t], {x})
    BY <1>2
  <2>2. Hits(p[t], {x}) = IF x \in P /\ h[x[2]] = t THEN 1 ELSE 0
    BY DEF Posted
  <2>3. Hits(q[t], {x}) = IF x \in Q /\ h[x[2]] = t THEN 1 ELSE 0
    BY DEF Posted
  <2>4. ~(x \in P /\ x \in Q)
    OBVIOUS
  <2> QED BY <2>1, <2>2, <2>3, <2>4
<1> QED BY <1>4, <1>5 DEF Posted, pq

First(s, t) == Head(s.inbox[t])

\* The mailboxes from one state to another: the first command is taken by the
\* threads of K, and the commands of P are posted.
Moved(s, r, K, P) ==
  /\ K \subseteq Thread /\ \A t \in K : s.inbox[t] # <<>>
  /\ r.inbox \in [Thread -> Seq(Tree!Command)]
  /\ \E posts : /\ Posted(s.home, posts, P)
                /\ \A t \in Thread : r.inbox[t] = (IF t \in K THEN Tail(s.inbox[t]) ELSE s.inbox[t]) \o posts[t]
Taken(s, K, t, D) == IF t \in K /\ First(s, t) \in D THEN 1 ELSE 0

HitsAfter(s, r, K, P, t, D) ==
  /\ Hits(s.inbox[t], D) \in Nat /\ (t \in K /\ First(s, t) \in D => Hits(s.inbox[t], D) # 0)
  /\ P \intersect D = {} => Hits(r.inbox[t], D) = Hits(s.inbox[t], D) - Taken(s, K, t, D)
  /\ \A x \in P : P \intersect D = {x} =>
       Hits(r.inbox[t], D) = Hits(s.inbox[t], D) - Taken(s, K, t, D) + (IF s.home[x[2]] = t THEN 1 ELSE 0)

LEMMA MovedHits ==
  ASSUME NEW s, NEW r, NEW K, NEW P, TreeTypes(s), Moved(s, r, K, P), NEW t \in Thread, NEW D
  PROVE  HitsAfter(s, r, K, P, t, D)
<1>1. PICK posts : /\ Posted(s.home, posts, P)
                   /\ \A u \in Thread : r.inbox[u] = (IF u \in K THEN Tail(s.inbox[u]) ELSE s.inbox[u]) \o posts[u]
  BY DEF Moved
<1> DEFINE q == s.inbox[t]
           base == IF t \in K THEN Tail(q) ELSE q
           new == posts[t]
<1>2. q \in Seq(Tree!Command) /\ new \in Seq(Tree!Command) /\ (t \in K => q # <<>>) /\ P \subseteq Tree!Command
  BY <1>1 DEF TreeTypes, Posted, Moved
<1>3. r.inbox[t] = base \o new
  BY <1>1
<1>4. \A x \in Tree!Command : Hits(new, {x}) = IF x \in P /\ s.home[x[2]] = t THEN 1 ELSE 0
  BY <1>1 DEF Posted
<1> DEFINE taken == Taken(s, K, t, D)
<1>5. taken = (IF t \in K /\ Head(q) \in D THEN 1 ELSE 0) /\ First(s, t) = Head(q)
  BY DEF Taken, First
<1> HIDE DEF q, new, base, taken
<1>6. base \in Seq(Tree!Command) /\ Hits(base, D) = Hits(q, D) - taken
  <2>1. CASE t \in K
    <3>1. Tail(q) \in Seq(Tree!Command) /\ Hits(Tail(q), D) = Hits(q, D) - (IF Head(q) \in D THEN 1 ELSE 0)
      BY <1>2, <2>1, HitsTail
    <3> QED BY <1>5, <2>1, <3>1 DEF base
  <2>2. CASE t \notin K
    <3>1. Hits(q, D) \in Nat
      BY <1>2, HitsType
    <3> QED BY <1>2, <1>5, <2>2, <3>1 DEF base
  <2> QED BY <2>1, <2>2
<1>7. Hits(r.inbox[t], D) = Hits(base, D) + Hits(new, D)
  BY <1>2, <1>3, <1>6, HitsCat
<1>8. \A j \in DOMAIN new : new[j] \in P
  <2> SUFFICES ASSUME NEW j \in DOMAIN new PROVE new[j] \in P
    OBVIOUS
  <2> DEFINE x == new[j]
  <2>1. x \in Tree!Command
    BY <1>2
  <2>2. Hits(new, {x}) # 0
    BY <1>2, HitsType
  <2> HIDE DEF x
  <2> QED BY <1>4, <2>1, <2>2 DEF x
<1>9. Hits(q, D) \in Nat /\ (t \in K /\ Head(q) \in D => Hits(q, D) # 0)
  <2>1. q # <<>> => 1 \in DOMAIN q /\ Head(q) = q[1]
    BY <1>2
  <2> QED BY <1>2, <2>1, HitsType
<1>10. ASSUME P \intersect D = {} PROVE Hits(new, D) = 0
  <2>1. \A j \in DOMAIN new : new[j] \notin D
    BY <1>8, <1>10
  <2> QED BY <1>2, <2>1, HitsType
<1>11. ASSUME NEW x \in P, P \intersect D = {x} PROVE Hits(new, D) = IF s.home[x[2]] = t THEN 1 ELSE 0
  <2>1. \A j \in DOMAIN new : new[j] \in D <=> new[j] \in {x}
    BY <1>8, <1>11
  <2>2. Places(new, D) = Places(new, {x})
    BY <2>1 DEF Places
  <2> QED BY <1>2, <1>4, <2>2 DEF Hits
<1>12. q = s.inbox[t] /\ taken = Taken(s, K, t, D) /\ taken \in {0, 1} /\ First(s, t) = Head(q)
  BY <1>5 DEF q, taken
<1>13. P \intersect D = {} => Hits(r.inbox[t], D) = Hits(q, D) - taken
  BY <1>6, <1>7, <1>9, <1>10, <1>12
<1>14. ASSUME NEW x \in P, P \intersect D = {x} PROVE Hits(r.inbox[t], D) = Hits(q, D) - taken + (IF s.home[x[2]] = t THEN 1 ELSE 0)
  BY <1>6, <1>7, <1>9, <1>11, <1>14
<1> QED BY <1>9, <1>12, <1>13, <1>14 DEF HitsAfter

\* A mailbox after a step: what was not taken, and then what is posted.
Follows(s, r, P, t, d) ==
  /\ r.inbox[t] \in Seq(Tree!Command) /\ Len(s.inbox[t]) \in Nat /\ Len(s.inbox[t]) >= d
  /\ Len(r.inbox[t]) \in Nat /\ Len(r.inbox[t]) >= Len(s.inbox[t]) - d
  /\ \A i \in 1..Len(s.inbox[t]) - d : r.inbox[t][i] = s.inbox[t][i + d]
  /\ \A i \in Len(s.inbox[t]) - d + 1..Len(r.inbox[t]) : r.inbox[t][i] \in P /\ s.home[r.inbox[t][i][2]] = t
  /\ \A x \in P : s.home[x[2]] = t => \E i \in Len(s.inbox[t]) - d + 1..Len(r.inbox[t]) : r.inbox[t][i] = x

LEMMA MovedPlaces ==
  ASSUME NEW s, NEW r, NEW K, NEW P, TreeTypes(s), Moved(s, r, K, P), NEW t \in Thread
  PROVE  Follows(s, r, P, t, IF t \in K THEN 1 ELSE 0)
<1> DEFINE d == IF t \in K THEN 1 ELSE 0
<1>1. PICK posts : /\ Posted(s.home, posts, P)
                   /\ \A u \in Thread : r.inbox[u] = (IF u \in K THEN Tail(s.inbox[u]) ELSE s.inbox[u]) \o posts[u]
  BY DEF Moved
<1> DEFINE q == s.inbox[t]
           base == IF t \in K THEN Tail(q) ELSE q
           new == posts[t]
           all == r.inbox[t]
<1>2. q \in Seq(Tree!Command) /\ new \in Seq(Tree!Command) /\ (t \in K => q # <<>>) /\ P \subseteq Tree!Command
  BY <1>1 DEF TreeTypes, Posted, Moved
<1>3. all = base \o new
  BY <1>1
<1>4. \A x \in Tree!Command : Hits(new, {x}) = IF x \in P /\ s.home[x[2]] = t THEN 1 ELSE 0
  BY <1>1 DEF Posted
<1> HIDE DEF q, new, base, all
<1>5. /\ base \in Seq(Tree!Command) /\ Len(q) \in Nat /\ Len(q) >= d /\ Len(base) = Len(q) - d
      /\ \A i \in 1..Len(q) - d : base[i] = q[i + d]
  BY <1>2 DEF base
<1>6. /\ all \in Seq(Tree!Command) /\ Len(all) = Len(base) + Len(new) /\ Len(new) \in Nat
      /\ \A i \in 1..Len(base) : all[i] = base[i]
      /\ \A i \in Len(base) + 1..Len(base) + Len(new) : all[i] = new[i - Len(base)]
  <2>1. /\ base \o new \in Seq(Tree!Command) /\ Len(base \o new) = Len(base) + Len(new) /\ Len(new) \in Nat
        /\ \A i \in 1..Len(base) : (base \o new)[i] = base[i]
        /\ \A i \in Len(base) + 1..Len(base) + Len(new) : (base \o new)[i] = new[i - Len(base)]
    <3>1. /\ base \o new \in Seq(Tree!Command) /\ Len(base \o new) = Len(base) + Len(new)
          /\ \A i \in 1..Len(base) + Len(new) : (base \o new)[i] = IF i <= Len(base) THEN base[i] ELSE new[i - Len(base)]
      BY <1>2, <1>5, ConcatProperties
    <3>2. Len(new) \in Nat /\ Len(base) \in Nat
      BY <1>2, <1>5, LenProperties
    <3> DEFINE n == Len(base)
               k == Len(new)
               bn == base \o new
    <3>3. /\ n \in Nat /\ k \in Nat /\ Len(bn) = n + k
          /\ \A i \in 1..n + k : bn[i] = IF i <= n THEN base[i] ELSE new[i - n]
      BY <3>1, <3>2
    <3> HIDE DEF n, k, bn
    <3>4. \A i \in 1..n : i \in 1..n + k /\ i <= n
      BY <3>3
    <3>5. \A i \in n + 1..n + k : i \in 1..n + k /\ ~(i <= n)
      BY <3>3
    <3>6. (\A i \in 1..n : bn[i] = base[i]) /\ (\A i \in n + 1..n + k : bn[i] = new[i - n])
      BY <3>3, <3>4, <3>5
    <3> QED BY <3>1, <3>2, <3>6 DEF n, k, bn
  <2> QED BY <1>3, <2>1
<1>7. DOMAIN new = 1..Len(new)
  BY <1>2, LenProperties
<1>8. \A j \in 1..Len(new) : new[j] \in P /\ s.home[new[j][2]] = t
  <2> SUFFICES ASSUME NEW j \in 1..Len(new) PROVE new[j] \in P /\ s.home[new[j][2]] = t
    OBVIOUS
  <2> DEFINE x == new[j]
  <2>1. x \in Tree!Command /\ j \in DOMAIN new
    BY <1>2, <1>7
  <2>2. Hits(new, {x}) # 0
    BY <1>2, <2>1, HitsType
  <2> HIDE DEF x
  <2> QED BY <1>4, <2>1, <2>2 DEF x
<1>9. \A x \in P : s.home[x[2]] = t => \E j \in 1..Len(new) : new[j] = x
  <2> SUFFICES ASSUME NEW x \in P, s.home[x[2]] = t PROVE \E j \in 1..Len(new) : new[j] = x
    OBVIOUS
  <2>1. Hits(new, {x}) # 0
    BY <1>2, <1>4
  <2> QED BY <1>2, <1>7, <2>1, HitsType
<1> DEFINE n == Len(base)
           k == Len(new)
<1>10. n \in Nat /\ k \in Nat /\ n = Len(q) - d
  BY <1>5, <1>6
<1>11. \A i \in n + 1..n + k : i - n \in 1..k /\ (\A j \in 1..k : n + j \in n + 1..n + k /\ (n + j) - n = j)
  BY <1>10
<1>12. \A j \in 1..k : n + j \in n + 1..n + k /\ (n + j) - n = j
  BY <1>10
<1>13. \A i \in n + 1..n + k : all[i] \in P /\ s.home[all[i][2]] = t
  BY <1>6, <1>8, <1>11
<1>14. \A x \in P : s.home[x[2]] = t => \E i \in n + 1..n + k : all[i] = x
  <2> SUFFICES ASSUME NEW x \in P, s.home[x[2]] = t PROVE \E i \in n + 1..n + k : all[i] = x
    OBVIOUS
  <2>1. PICK j \in 1..k : new[j] = x
    BY <1>9
  <2>2. n + j \in n + 1..n + k /\ (n + j) - n = j
    BY <1>12
  <2>3. all[n + j] = new[j]
    BY <1>6, <2>2
  <2> QED BY <2>1, <2>2, <2>3
<1>15. \A i \in 1..n : all[i] = q[i + d]
  BY <1>5, <1>6
<1>16. Len(all) = n + k /\ all \in Seq(Tree!Command) /\ Len(q) \in Nat /\ Len(q) >= d /\ Len(q) - d = n
  BY <1>5, <1>6
<1> HIDE DEF n, k
<1> USE DEF all, q
<1>17. Len(all) \in Nat /\ Len(all) >= n
  BY <1>10, <1>16
<1>18. Follows(s, r, P, t, d)
  <2> HIDE DEF d
  <2> QED BY <1>13, <1>14, <1>15, <1>16, <1>17 DEF Follows
<1> QED BY <1>18

LEMMA HitsOfBox ==
  ASSUME NEW s, TreeTypes(s), NEW o \in Object, NEW D
  PROVE  /\ s.home[o] \in Thread /\ Box(s, o) \in Seq(Tree!Command) /\ Hits(Box(s, o), D) \in Nat
         /\ Hits(Box(s, o), D) # 0 <=> \E j \in 1..Len(Box(s, o)) : Box(s, o)[j] \in D
<1>1. s.home[o] \in Thread /\ Box(s, o) \in Seq(Tree!Command)
  BY DEF TreeTypes, Box
<1> DEFINE q == Box(s, o)
<1> HIDE DEF q
<1>2. q \in Seq(Tree!Command) /\ DOMAIN q = 1..Len(q)
  BY <1>1, LenProperties DEF q
<1>3. Hits(q, D) \in Nat /\ (Hits(q, D) # 0 <=> \E j \in 1..Len(q) : q[j] \in D)
  BY <1>2, HitsType
<1> QED BY <1>1, <1>3 DEF q

\* What is posted in a step: commands to objects that live, and requests of
\* children that do.
Proper(r, x) ==
  /\ x \in Tree!Command /\ Alive(r, x[2])
  /\ x[1] \in {"own", "term_req"} => x[3] \in Object \ {Root} /\ r.owner[x[3]] = x[2]
  /\ x[1] = "term" => x[2] # Root
  /\ x[1] \in {"plug", "bind", "term", "term_ack"} => x[3] = None
  /\ x[1] = "term_req" => Alive(r, x[3])

\* What a step does to the state beside the mailboxes, for the commands in them
\* to stay sound.
Carries(s, r, K, P) ==
  /\ r.home = s.home /\ Moved(s, r, K, P)
  /\ \A o \in Object : s.plugged[o] => r.plugged[o]
  /\ \A t \in K, o \in Object : First(s, t) = PlugTo(o) => r.plugged[o]
  /\ \A c \in Object : s.owner[c] \in Object => r.owner[c] = s.owner[c]
  /\ \A x \in P : Proper(r, x)

LEMMA CommandsMoved ==
  ASSUME NEW s, NEW r, NEW K, NEW P, TreeTypes(s), TreeTypes(r), TreeCommands(s), Carries(s, r, K, P),
         \A t \in Thread : \A i \in 1..Len(s.inbox[t]) : Alive(r, s.inbox[t][i][2]),
         \A c \in Object : s.owner[c] \in Object /\ Alive(s, c) => Alive(r, c) \/ AckTo(s.owner[c]) \in P,
         \A x \in P : x[1] = "plug" \/ r.plugged[x[2]] \/ Hits(Box(s, x[2]), {PlugTo(x[2])}) # 0
  PROVE  TreeCommands(r)
<1> SUFFICES ASSUME NEW t \in Thread, NEW i \in 1..Len(r.inbox[t]) PROVE CommandSound(r, t, i)
  BY DEF TreeCommands
<1> DEFINE q == s.inbox[t]
           new == r.inbox[t]
           x == new[i]
<1>1. PICK d \in {0, 1} : d = IF t \in K THEN 1 ELSE 0
  OBVIOUS
<1> DEFINE n == Len(q) - d
<1>2. /\ new \in Seq(Tree!Command) /\ Len(q) \in Nat /\ Len(q) >= d /\ Len(new) \in Nat /\ Len(new) >= n
      /\ \A k \in 1..n : new[k] = q[k + d]
      /\ \A k \in n + 1..Len(new) : new[k] \in P /\ s.home[new[k][2]] = t
      /\ \A y \in P : s.home[y[2]] = t => \E k \in n + 1..Len(new) : new[k] = y
  <2>1. Moved(s, r, K, P)
    BY DEF Carries
  <2>2. Follows(s, r, P, t, d)
    BY <1>1, <2>1, MovedPlaces
  <2> QED BY <2>2 DEF Follows
<1>3. x \in Tree!Command /\ n \in Nat /\ Len(q) = n + d
  BY <1>1, <1>2
<1>4. \A o \in Object : d = 1 /\ q[1] = PlugTo(o) => r.plugged[o]
  <2>1. d = 1 => t \in K /\ q # <<>>
    BY <1>1 DEF Carries, Moved
  <2>2. q # <<>> => First(s, t) = q[1]
    BY DEF TreeTypes, First
  <2> QED BY <2>1, <2>2 DEF Carries
\* A plug that was in the mailbox still is, unless it is what was taken.
<1>5. \A o \in Object : \A j \in 1..Len(q) : q[j] = PlugTo(o) => r.plugged[o] \/ (j - d \in 1..n /\ new[j - d] = PlugTo(o))
  <2> SUFFICES ASSUME NEW o \in Object, NEW j \in 1..Len(q), q[j] = PlugTo(o), ~r.plugged[o]
               PROVE  j - d \in 1..n /\ new[j - d] = PlugTo(o)
    OBVIOUS
  <2>1. ~(d = 1 /\ j = 1)
    BY <1>4
  <2>2. j - d \in 1..n /\ (j - d) + d = j
    BY <1>1, <1>2, <2>1
  <2>3. new[j - d] = q[(j - d) + d]
    BY <1>2, <2>2
  <2> QED BY <2>2, <2>3
<1> DEFINE ok == x[1] = "plug" \/ r.plugged[x[2]] \/ \E j \in 1..i - 1 : new[j] = PlugTo(x[2])
           ack == x[1] = "term_req" => Alive(r, x[3]) \/ \E j \in i + 1..Len(new) : new[j] = AckTo(x[2])
           rest == /\ s.home[x[2]] = t /\ Alive(r, x[2])
                   /\ x[1] \in {"own", "term_req"} => x[3] \in Object \ {Root} /\ r.owner[x[3]] = x[2]
                   /\ x[1] = "term" => x[2] # Root
                   /\ x[1] \in {"plug", "bind", "term", "term_ack"} => x[3] = None
<1>6. CASE i <= n
  <2> DEFINE k == i + d
  <2>1. k \in 1..Len(q) /\ x = q[k] /\ i \in 1..n
    <3>1. i \in 1..n
      BY <1>3, <1>6
    <3>2. k \in 1..n + d
      BY <1>1, <1>3, <3>1
    <3> QED BY <1>2, <1>3, <3>1, <3>2
  <2>2. CommandSound(s, t, k)
    BY <2>1 DEF TreeCommands
  <2>3. /\ s.home[x[2]] = t /\ Alive(s, x[2])
        /\ x[1] \in {"own", "term_req"} => x[3] \in Object \ {Root} /\ s.owner[x[3]] = x[2]
        /\ x[1] = "term" => x[2] # Root
        /\ x[1] \in {"plug", "bind", "term", "term_ack"} => x[3] = None
    BY <2>1, <2>2 DEF CommandSound
  <2>4. /\ x[1] = "plug" \/ s.plugged[x[2]] \/ \E j \in 1..k - 1 : q[j] = PlugTo(x[2])
        /\ x[1] = "term_req" => Alive(s, x[3]) \/ \E j \in k + 1..Len(q) : q[j] = AckTo(x[2])
    BY <2>1, <2>2 DEF CommandSound
  <2>5. x[2] \in Object
    BY <1>3, CommandFacts
  <2> HIDE DEF x
  <2>6. rest
    <3>1. Alive(r, x[2])
      BY <2>1
    <3>2. x[1] \in {"own", "term_req"} => r.owner[x[3]] = x[2]
      BY <2>3, <2>5 DEF Carries
    <3> QED BY <2>3, <3>1, <3>2
  <2>7. ok
    <3>1. s.plugged[x[2]] => r.plugged[x[2]]
      BY <2>5 DEF Carries
    <3>2. ASSUME NEW j \in 1..k - 1, q[j] = PlugTo(x[2]) PROVE r.plugged[x[2]] \/ \E l \in 1..i - 1 : new[l] = PlugTo(x[2])
      <4>1. j \in 1..Len(q)
        BY <1>2, <2>1
      <4>2. r.plugged[x[2]] \/ (j - d \in 1..n /\ new[j - d] = PlugTo(x[2]))
        BY <1>5, <2>5, <3>2, <4>1
      <4>3. j - d \in 1..n => j - d \in 1..i - 1
        BY <1>1
      <4> QED BY <4>2, <4>3
    <3> QED BY <2>4, <3>1, <3>2
  <2>8. ack
    <3> SUFFICES ASSUME x[1] = "term_req" PROVE Alive(r, x[3]) \/ \E j \in i + 1..Len(new) : new[j] = AckTo(x[2])
      OBVIOUS
    <3>1. x[3] \in Object /\ s.owner[x[3]] = x[2] /\ s.home[x[2]] = t
      BY <2>3
    <3>2. CASE Alive(s, x[3])
      <4>1. Alive(r, x[3]) \/ AckTo(x[2]) \in P
        BY <2>5, <3>1, <3>2
      <4>2. AckTo(x[2])[2] = x[2]
        BY <2>5, CommandFacts
      <4>3. AckTo(x[2]) \in P => \E j \in n + 1..Len(new) : new[j] = AckTo(x[2])
        BY <1>2, <3>1, <4>2
      <4>4. \A j \in n + 1..Len(new) : j \in i + 1..Len(new)
        BY <1>2, <1>3, <1>6
      <4> QED BY <4>1, <4>3, <4>4
    <3>3. ASSUME NEW j \in k + 1..Len(q), q[j] = AckTo(x[2]) PROVE \E l \in i + 1..Len(new) : new[l] = AckTo(x[2])
      <4>1. j - d \in 1..n /\ (j - d) + d = j /\ j - d \in i + 1..Len(new)
        <5>1. j \in (i + d) + 1..n + d
          BY <1>3
        <5>2. i \in Nat /\ Len(new) \in Nat /\ n <= Len(new) /\ i >= 1
          BY <1>2
        <5> HIDE DEF n, new, q
        <5> QED BY <1>1, <1>3, <5>1, <5>2
      <4>2. new[j - d] = q[(j - d) + d]
        BY <1>2, <4>1
      <4> QED BY <3>3, <4>1, <4>2
    <3> QED BY <2>4, <3>2, <3>3
  <2> QED BY <2>6, <2>7, <2>8 DEF CommandSound, Carries, x
<1>7. CASE ~(i <= n)
  <2>1. x \in P /\ s.home[x[2]] = t
    <3>1. i \in n + 1..Len(new)
      BY <1>2, <1>3, <1>7
    <3> QED BY <1>2, <3>1
  <2>2. Proper(r, x)
    BY <2>1 DEF Carries
  <2>3. x[2] \in Object
    BY <1>3, CommandFacts
  <2>4. rest /\ ack
    BY <2>1, <2>2 DEF Proper
  <2> HIDE DEF x
  <2>5. ok
    <3>1. x[1] = "plug" \/ r.plugged[x[2]] \/ Hits(Box(s, x[2]), {PlugTo(x[2])}) # 0
      BY <2>1
    <3>2. ASSUME Hits(Box(s, x[2]), {PlugTo(x[2])}) # 0 PROVE r.plugged[x[2]] \/ \E l \in 1..i - 1 : new[l] = PlugTo(x[2])
      <4>1. Box(s, x[2]) = q
        BY <2>1 DEF Box
      <4>2. PICK j \in 1..Len(q) : q[j] = PlugTo(x[2])
        BY <2>3, <3>2, <4>1, HitsOfBox
      <4>3. r.plugged[x[2]] \/ (j - d \in 1..n /\ new[j - d] = PlugTo(x[2]))
        BY <1>5, <2>3, <4>2
      <4>4. j - d \in 1..n => j - d \in 1..i - 1
        BY <1>1, <1>2, <1>3, <1>7
      <4> QED BY <4>3, <4>4
    <3> QED BY <3>1, <3>2
  <2> QED BY <2>4, <2>5 DEF CommandSound, Carries, x
<1> QED BY <1>2, <1>3, <1>6, <1>7

LEMMA PluggedMoved ==
  ASSUME NEW s, NEW r, NEW K, NEW P, TreeTypes(s), TreePlugged(s), Carries(s, r, K, P),
         \A c \in Object : Born(r, c) => Born(s, c) \/ PlugTo(c) \in P
  PROVE  TreePlugged(r)
<1> SUFFICES ASSUME NEW c \in Object, Born(r, c), ~r.plugged[c] PROVE Hits(Box(r, c), {PlugTo(c)}) # 0
  BY DEF TreePlugged
<1> DEFINE t == s.home[c]
           D == {PlugTo(c)}
<1>1. t \in Thread /\ Box(s, c) = s.inbox[t] /\ Box(r, c) = r.inbox[t] /\ PlugTo(c)[2] = c
  BY CommandFacts DEF TreeTypes, Box, Carries
<1>2. Taken(s, K, t, D) = 0
  BY DEF Taken, Carries
<1>3. /\ Hits(s.inbox[t], D) \in Nat
      /\ P \intersect D = {} => Hits(r.inbox[t], D) = Hits(s.inbox[t], D) - Taken(s, K, t, D)
      /\ \A x \in P : P \intersect D = {x} =>
           Hits(r.inbox[t], D) = Hits(s.inbox[t], D) - Taken(s, K, t, D) + (IF s.home[x[2]] = t THEN 1 ELSE 0)
  <2>1. Moved(s, r, K, P) /\ t \in Thread
    BY <1>1 DEF Carries
  <2>2. HitsAfter(s, r, K, P, t, D)
    BY <2>1, MovedHits
  <2> HIDE DEF t, D
  <2> QED BY <2>2 DEF HitsAfter
<1>4. CASE PlugTo(c) \in P
  <2>1. P \intersect D = {PlugTo(c)}
    BY <1>4
  <2>2. Hits(r.inbox[t], D) = Hits(s.inbox[t], D) - 0 + 1
    BY <1>1, <1>2, <1>3, <1>4, <2>1
  <2> QED BY <1>1, <1>3, <2>2
<1>5. CASE PlugTo(c) \notin P
  <2>1. P \intersect D = {}
    BY <1>5
  <2>2. Hits(r.inbox[t], D) = Hits(s.inbox[t], D)
    BY <1>2, <1>3, <2>1
  <2>3. Hits(s.inbox[t], D) # 0
    BY <1>1, <1>5 DEF TreePlugged, Carries
  <2> QED BY <1>1, <2>2, <2>3
<1> QED BY <1>4, <1>5

LEMMA SameHits ==
  ASSUME NEW s, NEW r, NEW K, NEW P, TreeTypes(s), r.home = s.home, Moved(s, r, K, P), NEW o \in Object, NEW D,
         P \intersect D = {}, \A t \in K : First(s, t) \notin D
  PROVE  Hits(Box(r, o), D) = Hits(Box(s, o), D)
<1> DEFINE t == s.home[o]
<1>1. t \in Thread /\ Box(s, o) = s.inbox[t] /\ Box(r, o) = r.inbox[t]
  BY DEF TreeTypes, Box
<1> HIDE DEF t
<1>9. HitsAfter(s, r, K, P, t, D)
  BY <1>1, MovedHits
<1>2. Taken(s, K, t, D) = 0
  BY DEF Taken
<1>3. Hits(s.inbox[t], D) \in Nat /\ Hits(r.inbox[t], D) = Hits(s.inbox[t], D) - Taken(s, K, t, D)
  BY <1>1, <1>9 DEF HitsAfter
<1> QED BY <1>1, <1>2, <1>3

LEMMA LessHits ==
  ASSUME NEW s, NEW r, NEW K, NEW P, TreeTypes(s), r.home = s.home, Moved(s, r, K, P), NEW o \in Object, NEW D,
         P \intersect D = {}, s.home[o] \in K, First(s, s.home[o]) \in D
  PROVE  /\ Hits(Box(s, o), D) \in Nat \ {0} /\ Hits(Box(r, o), D) = Hits(Box(s, o), D) - 1
<1> DEFINE t == s.home[o]
<1>1. t \in Thread /\ Box(s, o) = s.inbox[t] /\ Box(r, o) = r.inbox[t]
  BY DEF TreeTypes, Box
<1>0. t \in K /\ First(s, t) \in D
  OBVIOUS
<1> HIDE DEF t
<1>9. HitsAfter(s, r, K, P, t, D)
  BY <1>1, MovedHits
<1>2. Taken(s, K, t, D) = 1
  BY <1>0 DEF Taken
<1>3. /\ Hits(s.inbox[t], D) \in Nat /\ Hits(s.inbox[t], D) # 0
      /\ Hits(r.inbox[t], D) = Hits(s.inbox[t], D) - Taken(s, K, t, D)
  BY <1>0, <1>1, <1>9 DEF HitsAfter
<1> QED BY <1>1, <1>2, <1>3

LEMMA MoreHits ==
  ASSUME NEW s, NEW r, NEW K, NEW P, TreeTypes(s), r.home = s.home, Moved(s, r, K, P), NEW o \in Object, NEW D,
         NEW x \in P, P \intersect D = {x}, x[2] = o, \A t \in K : First(s, t) \notin D
  PROVE  Hits(Box(r, o), D) = Hits(Box(s, o), D) + 1
<1> DEFINE t == s.home[o]
<1>1. t \in Thread /\ Box(s, o) = s.inbox[t] /\ Box(r, o) = r.inbox[t] /\ s.home[x[2]] = t
  BY DEF TreeTypes, Box
<1> HIDE DEF t
<1>9. HitsAfter(s, r, K, P, t, D)
  BY <1>1, MovedHits
<1>2. Taken(s, K, t, D) = 0
  BY DEF Taken
<1>3. /\ Hits(s.inbox[t], D) \in Nat
      /\ P \intersect D = {} => Hits(r.inbox[t], D) = Hits(s.inbox[t], D) - Taken(s, K, t, D)
      /\ \A y \in P : P \intersect D = {y} =>
           Hits(r.inbox[t], D) = Hits(s.inbox[t], D) - Taken(s, K, t, D) + (IF s.home[y[2]] = t THEN 1 ELSE 0)
  BY <1>1, <1>9 DEF HitsAfter
<1>4. Hits(r.inbox[t], D) = Hits(s.inbox[t], D) - 0 + 1
  BY <1>1, <1>2, <1>3
<1> QED BY <1>1, <1>3, <1>4

\* A step in which none is born and none leaves: what else it does to an object
\* is done by the thread of the object.
Within(s, r, K, P) ==
  /\ r.named = s.named /\ r.phase = s.phase /\ r.owner = s.owner /\ r.doing = s.doing
  /\ Carries(s, r, K, P)
  /\ \A c \in Object : s.terminating[c] => r.terminating[c]
  /\ \A c \in Object : r.terminating[c] => s.terminating[c] \/ (Alive(s, c) /\ Ready(s, c))

LEMMA WithinLaw ==
  ASSUME NEW s, NEW r, NEW K, NEW P, TreeLaw(s), TreeTypes(r), Within(s, r, K, P)
  PROVE  TreeBirth(r) /\ TreeCommands(r) /\ TreePlugged(r) /\ TreeThreads(r)
<1>1. r.home = s.home /\ r.phase = s.phase /\ r.owner = s.owner /\ r.doing = s.doing /\ r.named = s.named
  BY DEF Within, Carries
<1>2. TreeBirth(r)
  <2>1. \A c \in Object : ~Born(r, c) => r.owner[c] = None /\ ~r.terminating[c]
    BY <1>1 DEF TreeLaw, TreeBirth, Within, Born, Alive
  <2> QED BY <1>1, <2>1 DEF TreeLaw, TreeBirth, Born
<1>3. TreeCommands(r)
  <2>1. \A t \in Thread : \A i \in 1..Len(s.inbox[t]) : Alive(r, s.inbox[t][i][2])
    BY <1>1 DEF TreeLaw, TreeCommands, CommandSound, Alive
  <2>2. \A c \in Object : s.owner[c] \in Object /\ Alive(s, c) => Alive(r, c) \/ AckTo(s.owner[c]) \in P
    BY <1>1 DEF Alive
  <2>3. \A x \in P : x[1] = "plug" \/ r.plugged[x[2]] \/ Hits(Box(s, x[2]), {PlugTo(x[2])}) # 0
    <3> SUFFICES ASSUME NEW x \in P PROVE r.plugged[x[2]] \/ Hits(Box(s, x[2]), {PlugTo(x[2])}) # 0
      OBVIOUS
    <3>1. x \in Tree!Command /\ Alive(r, x[2])
      BY DEF Within, Carries, Proper
    <3>2. x[2] \in Object
      BY <3>1, CommandFacts
    <3> HIDE DEF Carries
    <3>3. Born(s, x[2])
      BY <1>1, <3>1 DEF Born, Alive
    <3>4. s.plugged[x[2]] => r.plugged[x[2]]
      BY <3>2 DEF Within, Carries
    <3> QED BY <3>2, <3>3, <3>4 DEF TreeLaw, TreePlugged
  <2>4. TreeTypes(s) /\ TreeCommands(s) /\ Carries(s, r, K, P)
    BY DEF TreeLaw, Within
  <2> QED BY <2>1, <2>2, <2>3, <2>4, CommandsMoved
<1>4. TreePlugged(r)
  <2>1. \A c \in Object : Born(r, c) => Born(s, c) \/ PlugTo(c) \in P
    BY <1>1 DEF Born
  <2>2. TreeTypes(s) /\ TreePlugged(s) /\ Carries(s, r, K, P)
    BY DEF TreeLaw, Within
  <2> QED BY <2>1, <2>2, PluggedMoved
<1>5. TreeThreads(r)
  <2>1. \A t \in Thread, p, c \in Object : Launching(r, t, p, c) <=> Launching(s, t, p, c)
    BY <1>1 DEF Launching
  <2>2. \A o \in Object : Alive(r, o) <=> Alive(s, o)
    BY <1>1 DEF Alive
  <2>3. ASSUME NEW S \in SUBSET Thread, NEW p \in Object, S # {}, \A t \in S : \E c \in Object : Launching(r, t, p, c)
        PROVE  \E t \in S, o \in Object : Launcher(r, S, t, p, o)
    <3>1. \A t \in S : \E c \in Object : Launching(s, t, p, c)
      BY <2>1, <2>3
    <3>2. PICK t \in S, o \in Object : Launcher(s, S, t, p, o)
      BY <2>3, <3>1 DEF TreeLaw, TreeThreads
    <3>3. ~Ready(s, o)
      <4>1. PICK c \in Object : s.doing[t] = <<"launching", OwnTo(p, c)>>
        BY <3>1 DEF Launching
      <4>2. s.home[o] = t /\ <<"launching", OwnTo(p, c)>> # Tree!Nothing
        BY <3>2 DEF Launcher, Tree!Nothing
      <4> QED BY <4>1, <4>2 DEF Ready
    <3>4. ~s.terminating[o] => ~r.terminating[o]
      BY <3>3 DEF Within
    <3>5. \A u \in S : Launching(r, u, p, o) <=> Launching(s, u, p, o)
      BY <2>1
    <3>6. Launcher(r, S, t, p, o)
      BY <1>1, <2>2, <3>2, <3>4, <3>5 DEF Launcher
    <3> QED BY <3>6
  <2>4. /\ \A t \in Thread, p, c \in Object : Launching(r, t, p, c) => c # Root /\ r.owner[c] = p /\ Alive(r, p)
        /\ \A t, u \in Thread, p, q, c \in Object : Launching(r, t, p, c) /\ Launching(r, u, q, c) => t = u
    <3>1. /\ \A t \in Thread, p, c \in Object : Launching(s, t, p, c) => c # Root /\ s.owner[c] = p /\ Alive(s, p)
          /\ \A t, u \in Thread, p, q, c \in Object : Launching(s, t, p, c) /\ Launching(s, u, q, c) => t = u
      BY Zenon DEF TreeLaw, TreeThreads
    <3> QED BY <1>1, <2>1, <2>2, <3>1
  <2>5. /\ \A t \in Thread, o \in Object : r.doing[t] = <<"deleting", o>> => r.home[o] = t /\ r.phase[o] = "leaving"
        /\ \A o \in Object : r.phase[o] = "leaving" => r.doing[r.home[o]] = <<"deleting", o>>
    <3>1. /\ \A t \in Thread, o \in Object : s.doing[t] = <<"deleting", o>> => s.home[o] = t /\ s.phase[o] = "leaving"
          /\ \A o \in Object : s.phase[o] = "leaving" => s.doing[s.home[o]] = <<"deleting", o>>
      BY Zenon DEF TreeLaw, TreeThreads
    <3> QED BY <1>1, <3>1
  <2> QED BY <2>3, <2>4, <2>5 DEF TreeThreads
<1> QED BY <1>2, <1>3, <1>4, <1>5

\* A child is in one place.
OwnsTo(s, c) == Hits(Box(s, s.owner[c]), {OwnTo(s.owner[c], c)})
TermsTo(s, c) == Hits(Box(s, c), {TermFor(c)})
OnePlace(s, c) ==
  /\ s.owner[c] \in Object /\ OwnsTo(s, c) \in Nat /\ TermsTo(s, c) \in Nat
  /\ InHand(s, c) \/ OwnsTo(s, c) # 0 \/ c \in s.owned[s.owner[c]] \/ TermsTo(s, c) # 0 \/ s.terminating[c]
  /\ InHand(s, c) => OwnsTo(s, c) = 0 /\ c \notin s.owned[s.owner[c]] /\ TermsTo(s, c) = 0 /\ ~s.terminating[c]
  /\ OwnsTo(s, c) # 0 => OwnsTo(s, c) = 1 /\ ~InHand(s, c) /\ c \notin s.owned[s.owner[c]] /\ TermsTo(s, c) = 0 /\ ~s.terminating[c]
  /\ c \in s.owned[s.owner[c]] => ~InHand(s, c) /\ OwnsTo(s, c) = 0 /\ TermsTo(s, c) = 0 /\ ~s.terminating[c]
  /\ TermsTo(s, c) # 0 => TermsTo(s, c) = 1 /\ ~InHand(s, c) /\ OwnsTo(s, c) = 0 /\ c \notin s.owned[s.owner[c]] /\ ~s.terminating[c]
  /\ s.terminating[c] => ~InHand(s, c) /\ OwnsTo(s, c) = 0 /\ c \notin s.owned[s.owner[c]] /\ TermsTo(s, c) = 0

LEMMA OneStage ==
  ASSUME NEW s, TreeLaw(s), NEW c \in Object \ {Root}, Born(s, c)
  PROVE  OnePlace(s, c)
<1>1. s.owner[c] \in Object
  BY DEF TreeLaw, TreeBirth
<1>2. OwnsTo(s, c) \in Nat /\ TermsTo(s, c) \in Nat
  BY <1>1, HitsOfBox DEF TreeLaw, OwnsTo, TermsTo
<1>3. (IF InHand(s, c) THEN 1 ELSE 0) + OwnsTo(s, c) + (IF c \in s.owned[s.owner[c]] THEN 1 ELSE 0)
      + TermsTo(s, c) + (IF s.terminating[c] THEN 1 ELSE 0) = 1
  BY DEF TreeLaw, TreeStages, Stage, OwnsTo, TermsTo
<1> DEFINE q == OwnsTo(s, c)
           n == TermsTo(s, c)
           i == InHand(s, c)
           w == c \in s.owned[s.owner[c]]
<1> HIDE DEF q, n, i, w
<1>4. /\ q \in Nat /\ n \in Nat
      /\ (IF i THEN 1 ELSE 0) + q + (IF w THEN 1 ELSE 0) + n + (IF s.terminating[c] THEN 1 ELSE 0) = 1
  BY <1>2, <1>3 DEF q, n, i, w
<1>5. /\ i \/ q # 0 \/ w \/ n # 0 \/ s.terminating[c]
      /\ i => q = 0 /\ ~w /\ n = 0 /\ ~s.terminating[c]
      /\ q # 0 => q = 1 /\ ~i /\ ~w /\ n = 0 /\ ~s.terminating[c]
      /\ w => ~i /\ q = 0 /\ n = 0 /\ ~s.terminating[c]
      /\ n # 0 => n = 1 /\ ~i /\ q = 0 /\ ~w /\ ~s.terminating[c]
      /\ s.terminating[c] => ~i /\ q = 0 /\ ~w /\ n = 0
  BY <1>4
<1> QED BY <1>1, <1>4, <1>5, Zenon DEF OnePlace, q, n, i, w

LEMMA AliveUntilTold ==
  ASSUME NEW s, TreeLaw(s), NEW c \in Object
  PROVE  Born(s, c) /\ ~s.terminating[c] => Alive(s, c)
BY DEF TreeLaw, TreeTypes, TreeEnds, Born, Over, Alive

\* The first command of a mailbox.
LEMMA HeadSound ==
  ASSUME NEW s, TreeLaw(s), NEW t \in Thread, s.inbox[t] # <<>>
  PROVE  LET x == First(s, t) IN
         /\ x \in Tree!Command /\ x[2] \in Object /\ s.home[x[2]] = t /\ Alive(s, x[2])
         /\ x[1] \in {"own", "term_req"} => x[3] \in Object \ {Root} /\ s.owner[x[3]] = x[2]
         /\ x[1] = "term" => x[2] # Root
         /\ x[1] \in {"plug", "bind", "term", "term_ack"} => x[3] = None
         /\ x[1] = "plug" \/ s.plugged[x[2]]
         /\ x[1] = "term_req" => Alive(s, x[3]) \/ Hits(Box(s, x[2]), {AckTo(x[2])}) # 0
<1> PICK x : x = First(s, t)
  OBVIOUS
<1> DEFINE q == s.inbox[t]
<1>1. q \in Seq(Tree!Command) /\ Len(q) >= 1 /\ Len(q) \in Nat /\ x = q[1]
  BY DEF TreeLaw, TreeTypes, First
<1>2. CommandSound(s, t, 1)
  BY <1>1 DEF TreeLaw, TreeCommands
<1>3. x \in Tree!Command /\ x[2] \in Object
  BY <1>1, CommandFacts
<1>4. /\ s.home[x[2]] = t /\ Alive(s, x[2])
      /\ x[1] \in {"own", "term_req"} => x[3] \in Object \ {Root} /\ s.owner[x[3]] = x[2]
      /\ x[1] = "term" => x[2] # Root
      /\ x[1] \in {"plug", "bind", "term", "term_ack"} => x[3] = None
  BY <1>1, <1>2 DEF CommandSound
<1>5. /\ x[1] = "plug" \/ s.plugged[x[2]] \/ \E j \in 1..1 - 1 : q[j] = PlugTo(x[2])
      /\ x[1] = "term_req" => Alive(s, x[3]) \/ \E j \in 1 + 1..Len(q) : q[j] = AckTo(x[2])
  BY <1>1, <1>2 DEF CommandSound
<1>6. x[1] = "term_req" => Alive(s, x[3]) \/ Hits(Box(s, x[2]), {AckTo(x[2])}) # 0
  <2>1. Box(s, x[2]) = q
    BY <1>4 DEF Box
  <2>2. ASSUME NEW j \in 1 + 1..Len(q), q[j] = AckTo(x[2]) PROVE Hits(Box(s, x[2]), {AckTo(x[2])}) # 0
    <3>1. j \in 1..Len(q)
      BY <1>1
    <3> QED BY <1>3, <2>1, <2>2, <3>1, HitsOfBox DEF TreeLaw
  <2> QED BY <1>5, <2>2
<1> QED BY <1>3, <1>4, <1>5, <1>6

StageLeft(s, r, K, P, c) ==
  /\ s.owner[c] \in Object /\ r.owner[c] = s.owner[c] /\ (InHand(r, c) <=> InHand(s, c))
  /\ OwnTo(s.owner[c], c) \notin P /\ TermFor(c) \notin P
  /\ \A t \in K : First(s, t) # OwnTo(s.owner[c], c) /\ First(s, t) # TermFor(c)
  /\ c \in r.owned[s.owner[c]] <=> c \in s.owned[s.owner[c]]
  /\ r.terminating[c] = s.terminating[c]

LEMMA StageKept ==
  ASSUME NEW s, NEW r, NEW K, NEW P, TreeLaw(s), Carries(s, r, K, P), NEW c \in Object, StageLeft(s, r, K, P, c)
  PROVE  Stage(r, c) = Stage(s, c)
<1> DEFINE p == s.owner[c]
<1>1. TreeTypes(s) /\ r.home = s.home /\ Moved(s, r, K, P)
  BY DEF TreeLaw, Carries
<1>0. /\ p \in Object /\ r.owner[c] = p /\ (InHand(r, c) <=> InHand(s, c))
      /\ OwnTo(p, c) \notin P /\ TermFor(c) \notin P
      /\ \A t \in K : First(s, t) # OwnTo(p, c) /\ First(s, t) # TermFor(c)
      /\ c \in r.owned[p] <=> c \in s.owned[p]
      /\ r.terminating[c] = s.terminating[c]
  BY DEF StageLeft
<1> HIDE DEF p
<1>2. Hits(Box(r, p), {OwnTo(p, c)}) = Hits(Box(s, p), {OwnTo(p, c)})
  <2> DEFINE D == {OwnTo(p, c)}
  <2>1. P \intersect D = {} /\ \A t \in K : First(s, t) \notin D
    BY <1>0
  <2> HIDE DEF D
  <2> QED BY <1>0, <1>1, <2>1, SameHits DEF D
<1>3. Hits(Box(r, c), {TermFor(c)}) = Hits(Box(s, c), {TermFor(c)})
  <2> DEFINE D == {TermFor(c)}
  <2>1. P \intersect D = {} /\ \A t \in K : First(s, t) \notin D
    BY <1>0
  <2> HIDE DEF D
  <2> QED BY <1>1, <2>1, SameHits DEF D
<1> QED BY <1>0, <1>2, <1>3 DEF Stage, p

LEMMA CountedFacts ==
  /\ \A x \in Tree!Command, o \in Object : x \in Counted(o) <=> x[2] = o /\ (x = PlugTo(o) \/ x = BindTo(o) \/ (x[1] = "own" /\ x[3] \in Object))
  /\ \A o, c \in Object : PlugTo(o) \in Counted(o) /\ BindTo(o) \in Counted(o) /\ OwnTo(o, c) \in Counted(o)
  /\ \A o \in Object : Counted(o) \subseteq Tree!Command
<1>1. \A o, c \in Object : PlugTo(o) \in Counted(o) /\ BindTo(o) \in Counted(o) /\ OwnTo(o, c) \in Counted(o)
  BY DEF Counted
<1>2. \A o \in Object : Counted(o) \subseteq Tree!Command
  BY CommandFacts DEF Counted
<1>3. ASSUME NEW x \in Tree!Command, NEW o \in Object, x \in Counted(o)
      PROVE  x[2] = o /\ (x = PlugTo(o) \/ x = BindTo(o) \/ (x[1] = "own" /\ x[3] \in Object))
  BY <1>3, CommandFacts DEF Counted
<1>4. ASSUME NEW x \in Tree!Command, NEW o \in Object, x[2] = o, x[1] = "own", x[3] \in Object
      PROVE  x \in Counted(o)
  <2>1. x = OwnTo(o, x[3])
    BY <1>4, CommandFacts DEF OwnTo
  <2> QED BY <1>1, <1>4, <2>1
<1> QED BY <1>1, <1>2, <1>3, <1>4

\* The announcements to an object, and the acknowledgements it waits for.
SentLeft(s, r, K, P, o) ==
  /\ P \intersect Counted(o) = {} /\ \A t \in K : First(s, t) \notin Counted(o)
  /\ r.sent[o] = s.sent[o] /\ r.processed[o] = s.processed[o] /\ (o = Root => r.promised = s.promised)

LEMMA SentKept ==
  ASSUME NEW s, NEW r, NEW K, NEW P, TreeLaw(s), Carries(s, r, K, P), NEW o \in Object, SentLeft(s, r, K, P, o)
  PROVE  SentRight(r, o)
<1>1. TreeTypes(s) /\ r.home = s.home /\ Moved(s, r, K, P)
  BY DEF TreeLaw, Carries
<1>2. Hits(Box(r, o), Counted(o)) = Hits(Box(s, o), Counted(o))
  BY <1>1, SameHits DEF SentLeft
<1>3. SentRight(s, o)
  BY DEF TreeLaw, TreeCounts
<1> QED BY <1>2, <1>3 DEF SentRight, SentLeft

SentLess(s, r, K, P, o) ==
  /\ P \intersect Counted(o) = {} /\ s.home[o] \in K /\ First(s, s.home[o]) \in Counted(o)
  /\ r.sent[o] = s.sent[o] /\ r.processed[o] = s.processed[o] + 1 /\ (o = Root => r.promised = s.promised)

LEMMA SentTaken ==
  ASSUME NEW s, NEW r, NEW K, NEW P, TreeLaw(s), Carries(s, r, K, P), NEW o \in Object, SentLess(s, r, K, P, o)
  PROVE  SentRight(r, o)
<1>0. /\ P \intersect Counted(o) = {} /\ s.home[o] \in K /\ First(s, s.home[o]) \in Counted(o)
      /\ r.sent[o] = s.sent[o] /\ r.processed[o] = s.processed[o] + 1 /\ (o = Root => r.promised = s.promised)
  BY DEF SentLess
<1>1. TreeTypes(s) /\ r.home = s.home /\ Moved(s, r, K, P)
  BY DEF TreeLaw, Carries
<1>2. Hits(Box(s, o), Counted(o)) \in Nat \ {0} /\ Hits(Box(r, o), Counted(o)) = Hits(Box(s, o), Counted(o)) - 1
  BY <1>0, <1>1, LessHits
<1>3. SentRight(s, o)
  BY DEF TreeLaw, TreeCounts
<1>4. s.processed[o] \in Nat /\ (IF o = Root THEN s.promised ELSE 0) \in Nat /\ s.sent[o] \in Nat
  BY <1>1 DEF TreeTypes
<1>5. (IF o = Root THEN r.promised ELSE 0) = (IF o = Root THEN s.promised ELSE 0)
  BY <1>0
<1> QED BY <1>0, <1>2, <1>3, <1>4, <1>5 DEF SentRight

SentMore(s, r, K, P, o, x) ==
  /\ x \in P /\ P \intersect Counted(o) = {x} /\ x[2] = o /\ \A t \in K : First(s, t) \notin Counted(o)
  /\ r.processed[o] = s.processed[o]
  /\ \/ r.sent[o] = s.sent[o] + 1 /\ (o = Root => r.promised = s.promised)
     \/ r.sent[o] = s.sent[o] /\ o = Root /\ r.promised = s.promised - 1

LEMMA SentPosted ==
  ASSUME NEW s, NEW r, NEW K, NEW P, TreeLaw(s), Carries(s, r, K, P), NEW o \in Object, NEW x, SentMore(s, r, K, P, o, x)
  PROVE  SentRight(r, o)
<1>0. /\ x \in P /\ P \intersect Counted(o) = {x} /\ x[2] = o /\ \A t \in K : First(s, t) \notin Counted(o)
      /\ r.processed[o] = s.processed[o]
      /\ \/ r.sent[o] = s.sent[o] + 1 /\ (o = Root => r.promised = s.promised)
         \/ r.sent[o] = s.sent[o] /\ o = Root /\ r.promised = s.promised - 1
  BY DEF SentMore
<1>1. TreeTypes(s) /\ r.home = s.home /\ Moved(s, r, K, P)
  BY DEF TreeLaw, Carries
<1>2. Hits(Box(r, o), Counted(o)) = Hits(Box(s, o), Counted(o)) + 1
  BY <1>0, <1>1, MoreHits
<1>6. Hits(Box(s, o), Counted(o)) \in Nat
  BY <1>1, HitsOfBox
<1>3. SentRight(s, o)
  BY DEF TreeLaw, TreeCounts
<1>4. s.processed[o] \in Nat /\ s.promised \in Nat /\ s.sent[o] \in Nat
  BY <1>1 DEF TreeTypes
<1> QED BY <1>0, <1>2, <1>3, <1>4, <1>6 DEF SentRight

AcksLeft(s, r, K, P, o) ==
  /\ AckTo(o) \notin P /\ \A t \in K : First(s, t) # AckTo(o)
  /\ r.acks[o] = s.acks[o] /\ Termed(r, o) = Termed(s, o)

LEMMA AcksKept ==
  ASSUME NEW s, NEW r, NEW K, NEW P, TreeLaw(s), Carries(s, r, K, P), NEW o \in Object, AcksLeft(s, r, K, P, o)
  PROVE  AcksRight(r, o)
<1>0. /\ AckTo(o) \notin P /\ \A t \in K : First(s, t) # AckTo(o)
      /\ r.acks[o] = s.acks[o] /\ Termed(r, o) = Termed(s, o)
  BY DEF AcksLeft
<1>1. TreeTypes(s) /\ r.home = s.home /\ Moved(s, r, K, P)
  BY DEF TreeLaw, Carries
<1> DEFINE D == {AckTo(o)}
<1>2. P \intersect D = {} /\ \A t \in K : First(s, t) \notin D
  BY <1>0
<1> HIDE DEF D
<1>3. Hits(Box(r, o), D) = Hits(Box(s, o), D)
  BY <1>1, <1>2, SameHits
<1>4. AcksRight(s, o)
  BY DEF TreeLaw, TreeCounts
<1> QED BY <1>0, <1>3, <1>4 DEF AcksRight, D

\* A step that neither announces children nor tells any to terminate.
Quiet(s, r, K, P) ==
  /\ Within(s, r, K, P) /\ r.owned = s.owned /\ r.terminating = s.terminating /\ r.endpoint = s.endpoint
  /\ \A x \in P : x[1] \notin {"own", "term"}
  /\ \A t \in K : First(s, t)[1] \notin {"own", "term"}
  /\ \A o \in Object : Over(s, o) => r.sent[o] = s.sent[o] /\ r.processed[o] = s.processed[o]
SameTermed(s, r) == \A o \in Object : Termed(r, o) = Termed(s, o)

LEMMA QuietLaw ==
  ASSUME NEW s, NEW r, NEW K, NEW P, TreeLaw(s), TreeTypes(r), Quiet(s, r, K, P)
  PROVE  TreeStages(r) /\ TreeEnds(r) /\ SameTermed(s, r)
<1>0. /\ Within(s, r, K, P) /\ r.owned = s.owned /\ r.terminating = s.terminating /\ r.endpoint = s.endpoint
      /\ \A x \in P : x[1] \notin {"own", "term"}
      /\ \A t \in K : First(s, t)[1] \notin {"own", "term"}
      /\ \A o \in Object : Over(s, o) => r.sent[o] = s.sent[o] /\ r.processed[o] = s.processed[o]
  BY DEF Quiet
<1>1. r.home = s.home /\ r.phase = s.phase /\ r.owner = s.owner /\ r.doing = s.doing /\ Moved(s, r, K, P) /\ TreeTypes(s)
  BY <1>0 DEF TreeLaw, Within, Carries
<1>2. \A o, c \in Object : OwnTo(o, c) \notin P /\ TermFor(c) \notin P
  BY <1>0, CommandFacts
<1>3. \A t \in K : \A o, c \in Object : First(s, t) # OwnTo(o, c) /\ First(s, t) # TermFor(c)
  BY <1>0, CommandFacts
<1>4. TreeStages(r)
  <2>1. ASSUME NEW c \in Object \ {Root}, Born(r, c) PROVE Stage(r, c) = 1
    <3>1. Born(s, c)
      BY <1>1, <2>1 DEF Born
    <3>2. s.owner[c] \in Object /\ Stage(s, c) = 1
      BY <3>1 DEF TreeLaw, TreeBirth, TreeStages
    <3>3. OwnTo(s.owner[c], c) \notin P /\ TermFor(c) \notin P
      BY <1>2, <3>2
    <3>4. \A t \in K : First(s, t) # OwnTo(s.owner[c], c) /\ First(s, t) # TermFor(c)
      BY <1>3, <3>2
    <3>5. InHand(r, c) <=> InHand(s, c)
      BY <1>1 DEF InHand, Launching
    <3>6. StageLeft(s, r, K, P, c)
      BY <1>0, <1>1, <3>2, <3>3, <3>4, <3>5 DEF StageLeft
    <3> QED BY <1>0, <3>2, <3>6, StageKept DEF Within
  <2> QED BY <1>0, <1>1, <2>1 DEF TreeLaw, TreeStages
<1>5. TreeEnds(r)
  BY <1>0, <1>1 DEF TreeLaw, TreeEnds, Over, Alive
<1>6. ASSUME NEW c \in Object PROVE Told(r, c) = Told(s, c)
  <2> DEFINE D == {TermFor(c)}
  <2>1. P \intersect D = {} /\ \A t \in K : First(s, t) \notin D
    BY <1>2, <1>3
  <2> HIDE DEF D
  <2>2. Hits(Box(r, c), D) = Hits(Box(s, c), D)
    BY <1>1, <2>1, SameHits
  <2> QED BY <1>0, <2>2 DEF Told, D
<1>7. SameTermed(s, r)
  BY <1>1, <1>6 DEF SameTermed, Termed, Alive
<1> QED BY <1>4, <1>5, <1>7

(***************************************************************************)
(* The handlers, before they look whether the object is done.              *)
(***************************************************************************)
\* What a handler of o leaves alone, whichever it is.
Handles(s, r) ==
  /\ r.home = s.home /\ r.named = s.named /\ r.phase = s.phase /\ r.owner = s.owner /\ r.doing = s.doing
  /\ r.sent = s.sent /\ r.promised = s.promised

LEMMA HandlerFacts ==
  ASSUME NEW s, NEW r, NEW K, NEW P, TreeLaw(s), Handles(s, r), Moved(s, r, K, P)
  PROVE  /\ r.home = s.home /\ r.named = s.named /\ r.phase = s.phase /\ r.owner = s.owner /\ r.doing = s.doing
         /\ r.sent = s.sent /\ r.promised = s.promised /\ r.inbox \in [Thread -> Seq(Tree!Command)]
         /\ TreeTypes(s) /\ s.plugged \in [Object -> BOOLEAN] /\ s.processed \in [Object -> Nat]
         /\ s.acks \in [Object -> Nat] /\ s.owned \in [Object -> SUBSET Object] /\ s.terminating \in [Object -> BOOLEAN]
         /\ \A o \in Object : Termed(s, o) \subseteq Object /\ Cardinality(Termed(s, o)) \in Nat /\ AcksRight(s, o) /\ SentRight(s, o)
<1>1. TreeTypes(s) /\ r.inbox \in [Thread -> Seq(Tree!Command)]
  <2>1. TreeTypes(s)
    BY DEF TreeLaw
  <2>2. r.inbox \in [Thread -> Seq(Tree!Command)]
    BY DEF Moved
  <2> QED BY <2>1, <2>2
<1>2. \A o \in Object : AcksRight(s, o) /\ SentRight(s, o)
  BY DEF TreeLaw, TreeCounts
<1>3. \A o \in Object : Termed(s, o) \subseteq Object /\ Cardinality(Termed(s, o)) \in Nat
  BY SetsOfObjects DEF Termed
<1> QED BY <1>1, <1>2, <1>3 DEF Handles, TreeTypes

LEMMA HandlerTypes ==
  ASSUME NEW s, NEW r, NEW K, NEW P, TreeLaw(s), Handles(s, r), Moved(s, r, K, P),
         r.owned \in [Object -> SUBSET Object], r.plugged \in [Object -> BOOLEAN], r.terminating \in [Object -> BOOLEAN],
         r.acks \in [Object -> Nat], r.processed \in [Object -> Nat], r.endpoint \in BOOLEAN
  PROVE  TreeTypes(r)
<1>1. TreeTypes(s) /\ r.inbox \in [Thread -> Seq(Tree!Command)]
  BY HandlerFacts
<1> QED BY <1>1 DEF TreeTypes, Handles

\* process_plug, process_bind.
LEMMA CountedLaw ==
  ASSUME NEW s, NEW r, TreeLaw(s), NEW t \in Thread, NEW o \in Object, NEW K, NEW P, t \in K, \A u \in K : u = t, \A y : y \notin P,
         s.inbox[t] # <<>>, First(s, t) = PlugTo(o) \/ First(s, t) = BindTo(o), Moved(s, r, K, P), Handles(s, r),
         r.owned = s.owned, r.terminating = s.terminating, r.acks = s.acks, r.endpoint = s.endpoint,
         r.plugged = (IF First(s, t) = PlugTo(o) THEN [s.plugged EXCEPT ![o] = TRUE] ELSE s.plugged),
         r.processed = [s.processed EXCEPT ![o] = @ + 1]
  PROVE  TreeLaw(r)
<1> DEFINE x == First(s, t)
<1>1. x \in Tree!Command /\ x[2] = o /\ x[1] \in {"plug", "bind"} /\ s.home[o] = t /\ Alive(s, o) /\ x \in Counted(o)
  <2>1. x[2] = o /\ x[1] \in {"plug", "bind"} /\ x \in Counted(o)
    BY CommandFacts, CountedFacts
  <2>2. x \in Tree!Command /\ s.home[x[2]] = t /\ Alive(s, x[2])
    BY HeadSound
  <2> QED BY <2>1, <2>2
<1>2. /\ r.home = s.home /\ r.named = s.named /\ r.phase = s.phase /\ r.owner = s.owner /\ r.doing = s.doing
      /\ r.sent = s.sent /\ r.promised = s.promised /\ r.inbox \in [Thread -> Seq(Tree!Command)]
  BY HandlerFacts
<1>3. TreeTypes(s) /\ s.plugged \in [Object -> BOOLEAN] /\ s.processed \in [Object -> Nat]
  BY HandlerFacts
<1>4. /\ r.plugged \in [Object -> BOOLEAN] /\ (x = PlugTo(o) => r.plugged[o]) /\ \A c \in Object : s.plugged[c] => r.plugged[c]
      /\ r.processed \in [Object -> Nat] /\ r.processed[o] = s.processed[o] + 1 /\ \A c \in Object : c # o => r.processed[c] = s.processed[c]
  BY <1>3
<1>5. TreeTypes(r)
  BY <1>2, <1>3, <1>4 DEF TreeTypes
<1>6. Within(s, r, K, P)
  <2>1. \A u \in K, c \in Object : First(s, u) = PlugTo(c) => r.plugged[c]
    <3> SUFFICES ASSUME NEW c \in Object, x = PlugTo(c) PROVE r.plugged[c]
      OBVIOUS
    <3>1. c = o
      BY <1>1, CommandFacts
    <3> QED BY <1>4, <3>1
  <2> QED BY <1>2, <1>4, <2>1 DEF Within, Carries
<1>7. TreeBirth(r) /\ TreeCommands(r) /\ TreePlugged(r) /\ TreeThreads(r)
  BY <1>5, <1>6, WithinLaw
<1>0. \A u \in K : u = t /\ First(s, u) = x
  OBVIOUS
<1>8. TreeStages(r) /\ TreeEnds(r) /\ SameTermed(s, r)
  <2>1. \A u \in K : First(s, u)[1] \notin {"own", "term"}
    BY <1>0, <1>1
  <2>2. \A c \in Object : Over(s, c) => r.sent[c] = s.sent[c] /\ r.processed[c] = s.processed[c]
    BY <1>1, <1>2, <1>4 DEF Over, Alive
  <2>3. \A y \in P : y[1] \notin {"own", "term"}
    OBVIOUS
  <2>4. Quiet(s, r, K, P)
    BY <1>6, <2>1, <2>2, <2>3 DEF Quiet
  <2> QED BY <1>5, <2>4, QuietLaw
<1>9. TreeCounts(r)
  <2> SUFFICES ASSUME NEW c \in Object PROVE SentRight(r, c) /\ AcksRight(r, c)
    BY DEF TreeCounts
  <2>1. AcksRight(r, c)
    <3>1. \A u \in K : First(s, u) # AckTo(c)
      BY <1>0, <1>1, CommandFacts
    <3>2. Termed(r, c) = Termed(s, c)
      BY <1>8 DEF SameTermed
    <3>3. AcksLeft(s, r, K, P, c)
      BY <3>1, <3>2 DEF AcksLeft
    <3> QED BY <1>6, <3>3, AcksKept DEF Within
  <2>2. P \intersect Counted(c) = {}
    OBVIOUS
  <2>3. CASE c = o
    <3>1. s.home[c] \in K /\ First(s, s.home[c]) \in Counted(c)
      BY <1>1, <2>3
    <3>2. SentLess(s, r, K, P, c)
      BY <1>2, <1>4, <2>2, <2>3, <3>1 DEF SentLess
    <3>3. Carries(s, r, K, P)
      BY <1>6 DEF Within
    <3> QED BY <2>1, <3>2, <3>3, SentTaken
  <2>4. CASE c # o
    <3>1. \A u \in K : First(s, u) \notin Counted(c)
      BY <1>0, <1>1, <2>4, CountedFacts
    <3>2. r.processed[c] = s.processed[c] /\ r.sent[c] = s.sent[c] /\ r.promised = s.promised
      BY <1>2, <1>4, <2>4
    <3>3. Carries(s, r, K, P)
      BY <1>6 DEF Within
    <3>4. SentLeft(s, r, K, P, c)
      BY <2>2, <3>1, <3>2 DEF SentLeft
    <3> QED BY <2>1, <3>3, <3>4, SentKept
  <2> QED BY <2>3, <2>4
<1> QED BY <1>5, <1>7, <1>8, <1>9 DEF TreeLaw

\* process_term_ack.
LEMMA AckLaw ==
  ASSUME NEW s, NEW r, TreeLaw(s), NEW t \in Thread, NEW o \in Object, NEW K, NEW P, t \in K, \A u \in K : u = t, \A y : y \notin P,
         s.inbox[t] # <<>>, First(s, t) = AckTo(o), Moved(s, r, K, P), Handles(s, r),
         r.owned = s.owned, r.terminating = s.terminating, r.endpoint = s.endpoint,
         r.plugged = s.plugged, r.processed = s.processed, r.acks = [s.acks EXCEPT ![o] = @ - 1]
  PROVE  TreeLaw(r)
<1> DEFINE x == First(s, t)
<1>0. \A u \in K : u = t /\ First(s, u) = x
  OBVIOUS
<1>1. x \in Tree!Command /\ x[2] = o /\ x[1] = "term_ack" /\ s.home[o] = t /\ Alive(s, o)
  <2>1. x[2] = o /\ x[1] = "term_ack"
    BY CommandFacts
  <2>2. x \in Tree!Command /\ s.home[x[2]] = t /\ Alive(s, x[2])
    BY HeadSound
  <2> QED BY <2>1, <2>2
<1>2. /\ r.home = s.home /\ r.named = s.named /\ r.phase = s.phase /\ r.owner = s.owner /\ r.doing = s.doing
      /\ r.sent = s.sent /\ r.promised = s.promised /\ r.inbox \in [Thread -> Seq(Tree!Command)]
  BY HandlerFacts
<1>3. TreeTypes(s) /\ s.acks \in [Object -> Nat]
  BY HandlerFacts
<1> DEFINE D == {AckTo(o)}
           n == Hits(Box(s, o), D)
           m == Hits(Box(r, o), D)
           k == Cardinality(Termed(s, o))
<1>4. n \in Nat \ {0} /\ m = n - 1
  <2>1. First(s, s.home[o]) \in D /\ s.home[o] \in K /\ P \intersect D = {} /\ Moved(s, r, K, P)
    BY <1>1
  <2> HIDE DEF D
  <2>2. Hits(Box(s, o), D) \in Nat \ {0} /\ Hits(Box(r, o), D) = Hits(Box(s, o), D) - 1
    BY <1>2, <1>3, <2>1, LessHits
  <2> QED BY <2>2
<1>5. s.acks[o] = k + n /\ k \in Nat
  <2>1. k \in Nat /\ AcksRight(s, o)
    BY HandlerFacts
  <2>2. s.acks[o] = k + n
    BY <2>1, Zenon DEF AcksRight
  <2> QED BY <2>1, <2>2
<1> HIDE DEF n, m, k, D
<1>6. /\ r.acks \in [Object -> Nat] /\ r.acks[o] = k + m
      /\ \A c \in Object : c # o => r.acks[c] = s.acks[c]
  BY <1>3, <1>4, <1>5
<1>7. TreeTypes(r)
  BY <1>2, <1>3, <1>6 DEF TreeTypes
<1>8. Within(s, r, K, P)
  <2>1. \A u \in K, c \in Object : First(s, u) # PlugTo(c)
    BY <1>0, <1>1, CommandFacts
  <2> QED BY <1>2, <2>1 DEF Within, Carries
<1>9. TreeBirth(r) /\ TreeCommands(r) /\ TreePlugged(r) /\ TreeThreads(r)
  BY <1>7, <1>8, WithinLaw
<1>10. TreeStages(r) /\ TreeEnds(r) /\ SameTermed(s, r)
  <2>1. \A u \in K : First(s, u)[1] \notin {"own", "term"}
    BY <1>0, <1>1
  <2>2. \A c \in Object : Over(s, c) => r.sent[c] = s.sent[c] /\ r.processed[c] = s.processed[c]
    BY <1>2
  <2>3. \A y \in P : y[1] \notin {"own", "term"}
    OBVIOUS
  <2>4. Quiet(s, r, K, P)
    BY <1>8, <2>1, <2>2, <2>3 DEF Quiet
  <2> QED BY <1>7, <2>4, QuietLaw
<1>11. TreeCounts(r)
  <2> SUFFICES ASSUME NEW c \in Object PROVE SentRight(r, c) /\ AcksRight(r, c)
    BY DEF TreeCounts
  <2>1. SentRight(r, c)
    <3>1. \A u \in K : First(s, u) \notin Counted(c)
      BY <1>0, <1>1, CountedFacts, CommandFacts
    <3>2. P \intersect Counted(c) = {}
      OBVIOUS
    <3>3. r.processed[c] = s.processed[c] /\ r.sent[c] = s.sent[c] /\ r.promised = s.promised
      BY <1>2
    <3>4. SentLeft(s, r, K, P, c)
      BY <3>1, <3>2, <3>3 DEF SentLeft
    <3> QED BY <1>8, <3>4, SentKept DEF Within
  <2>2. Termed(r, c) = Termed(s, c)
    BY <1>10 DEF SameTermed
  <2>3. ASSUME c = o PROVE AcksRight(r, c)
    BY <1>6, <2>2, <2>3 DEF AcksRight, m, k, D
  <2>4. ASSUME c # o PROVE AcksRight(r, c)
    <3>1. \A u \in K : First(s, u) # AckTo(c)
      BY <1>0, <1>1, <2>4, CommandFacts
    <3>2. AckTo(c) \notin P /\ r.acks[c] = s.acks[c]
      BY <1>6, <2>4
    <3>3. AcksLeft(s, r, K, P, c)
      BY <2>2, <3>1, <3>2 DEF AcksLeft
    <3> QED BY <1>8, <3>3, AcksKept DEF Within
  <2> QED BY <2>1, <2>3, <2>4
<1> QED BY <1>7, <1>9, <1>10, <1>11 DEF TreeLaw

LEMMA ChildFacts ==
  ASSUME NEW s, TreeLaw(s), NEW c \in Object, s.owner[c] \in Object
  PROVE  c # Root /\ Born(s, c) /\ Born(s, s.owner[c]) /\ s.owner[c] # c
<1>1. c # Root /\ Born(s, c) /\ Born(s, s.owner[c])
  BY TreeFacts DEF TreeLaw, TreeBirth
<1>2. s.owner[c] # c
  <2> DEFINE S == {c}
  <2>1. S \in SUBSET (Object \ {Root}) /\ S # {} /\ \A o \in S : s.owner[o] \in Object
    BY <1>1
  <2>2. \E o \in S : s.owner[o] \notin S
    <3> HIDE DEF S
    <3> QED BY <2>1 DEF TreeLaw, TreeBirth
  <2> QED BY <2>2
<1> QED BY <1>1, <1>2

\* A step that tells one child to terminate, and counts that it has.
Tells(s, r, K, P, o, c) ==
  /\ Carries(s, r, K, P) /\ r.phase = s.phase /\ r.owner = s.owner /\ r.terminating = s.terminating
  /\ TermFor(c) \in P /\ \A y \in P : y = TermFor(c)
  /\ s.owner[c] = o /\ ~s.terminating[c] /\ Hits(Box(s, c), {TermFor(c)}) = 0
  /\ \A t \in K : First(s, t)[1] \notin {"term", "term_ack"}
  /\ r.acks[o] = s.acks[o] + 1 /\ \A q \in Object : q # o => r.acks[q] = s.acks[q]

LEMMA TellsAcks ==
  ASSUME NEW s, NEW r, NEW K, NEW P, TreeLaw(s), NEW o \in Object, NEW c \in Object, Tells(s, r, K, P, o, c)
  PROVE  /\ \A q \in Object : AcksRight(r, q)
         /\ Hits(Box(r, c), {TermFor(c)}) = 1
<1>1. /\ TreeTypes(s) /\ r.home = s.home /\ Moved(s, r, K, P) /\ Carries(s, r, K, P)
      /\ r.phase = s.phase /\ r.owner = s.owner /\ r.terminating = s.terminating
      /\ TermFor(c) \in P /\ \A y \in P : y = TermFor(c)
      /\ s.owner[c] = o /\ ~s.terminating[c] /\ Hits(Box(s, c), {TermFor(c)}) = 0
      /\ \A t \in K : First(s, t)[1] \notin {"term", "term_ack"}
      /\ r.acks[o] = s.acks[o] + 1 /\ \A q \in Object : q # o => r.acks[q] = s.acks[q]
  BY DEF TreeLaw, Tells, Carries
<1>2. Born(s, c) /\ Alive(s, c)
  BY <1>1, ChildFacts, AliveUntilTold
<1>3. Hits(Box(r, c), {TermFor(c)}) = 1
  <2> DEFINE D == {TermFor(c)}
             x == TermFor(c)
  <2>1. x \in P /\ P \intersect D = {x} /\ x[2] = c /\ \A t \in K : First(s, t) \notin D
    BY <1>1, CommandFacts
  <2>2. Hits(Box(s, c), D) = 0
    BY <1>1
  <2> HIDE DEF D, x
  <2>3. Hits(Box(r, c), D) = Hits(Box(s, c), D) + 1
    BY <1>1, <2>1, MoreHits
  <2> QED BY <2>2, <2>3 DEF D
<1>4. ASSUME NEW d \in Object, d # c PROVE Told(r, d) = Told(s, d)
  <2> DEFINE D == {TermFor(d)}
  <2>1. P \intersect D = {} /\ \A t \in K : First(s, t) \notin D
    BY <1>1, <1>4, CommandFacts
  <2> HIDE DEF D
  <2>2. Hits(Box(r, d), D) = Hits(Box(s, d), D)
    BY <1>1, <2>1, SameHits
  <2> QED BY <1>1, <2>2 DEF Told, D
<1>5. Told(r, c) /\ ~Told(s, c)
  BY <1>1, <1>3 DEF Told
<1>6. Termed(r, o) = Termed(s, o) \union {c} /\ c \notin Termed(s, o)
  BY <1>1, <1>2, <1>4, <1>5 DEF Termed, Alive
<1>7. \A q \in Object : q # o => Termed(r, q) = Termed(s, q)
  BY <1>1, <1>4 DEF Termed, Alive
<1>8. ASSUME NEW q \in Object PROVE Hits(Box(r, q), {AckTo(q)}) = Hits(Box(s, q), {AckTo(q)})
  <2> DEFINE D == {AckTo(q)}
  <2>1. P \intersect D = {} /\ \A t \in K : First(s, t) \notin D
    BY <1>1, CommandFacts
  <2> HIDE DEF D
  <2>2. Hits(Box(r, q), D) = Hits(Box(s, q), D)
    BY <1>1, <2>1, SameHits
  <2> QED BY <2>2 DEF D
<1>9. ASSUME NEW q \in Object PROVE AcksRight(s, q) /\ Hits(Box(s, q), {AckTo(q)}) \in Nat /\ IsFiniteSet(Termed(s, q)) /\ Cardinality(Termed(s, q)) \in Nat
  <2>1. Termed(s, q) \subseteq Object
    BY DEF Termed
  <2>2. Hits(Box(s, q), {AckTo(q)}) \in Nat
    BY <1>1, HitsOfBox
  <2> QED BY <2>1, <2>2, SetsOfObjects DEF TreeLaw, TreeCounts
<1>10. AcksRight(r, o)
  <2>1. Cardinality(Termed(r, o)) = Cardinality(Termed(s, o)) + 1
    BY <1>6, <1>9, FS_AddElement
  <2> DEFINE a == Cardinality(Termed(s, o))
             b == Cardinality(Termed(r, o))
             m == Hits(Box(s, o), {AckTo(o)})
             n == Hits(Box(r, o), {AckTo(o)})
  <2>2. a \in Nat /\ m \in Nat /\ b = a + 1 /\ n = m /\ s.acks[o] = a + m /\ r.acks[o] = s.acks[o] + 1
    BY <1>1, <1>8, <1>9, <2>1 DEF AcksRight
  <2> HIDE DEF a, b, m, n
  <2>3. r.acks[o] = b + n
    BY <2>2
  <2> QED BY <2>3 DEF AcksRight, b, n
<1>11. ASSUME NEW q \in Object, q # o PROVE AcksRight(r, q)
  BY <1>1, <1>7, <1>8, <1>9, <1>11 DEF AcksRight
<1> QED BY <1>3, <1>10, <1>11

\* process_own, of an object that is not terminating.
LEMMA OwnedLaw ==
  ASSUME NEW s, NEW r, TreeLaw(s), NEW t \in Thread, NEW o \in Object, NEW c \in Object, NEW K, NEW P, t \in K, \A u \in K : u = t, \A y : y \notin P,
         s.inbox[t] # <<>>, First(s, t) = OwnTo(o, c), ~s.terminating[o], Moved(s, r, K, P), Handles(s, r),
         r.owned = [s.owned EXCEPT ![o] = @ \union {c}], r.terminating = s.terminating, r.acks = s.acks, r.endpoint = s.endpoint,
         r.plugged = s.plugged, r.processed = [s.processed EXCEPT ![o] = @ + 1]
  PROVE  TreeLaw(r)
<1> DEFINE x == First(s, t)
<1>0. \A u \in K : u = t /\ First(s, u) = x
  OBVIOUS
<1>1. x \in Tree!Command /\ x[2] = o /\ x[1] = "own" /\ s.home[o] = t /\ Alive(s, o) /\ c # Root /\ s.owner[c] = o /\ x \in Counted(o)
  <2>1. x[2] = o /\ x[1] = "own" /\ x[3] = c /\ x \in Counted(o)
    BY CommandFacts, CountedFacts
  <2>2. x \in Tree!Command /\ s.home[x[2]] = t /\ Alive(s, x[2]) /\ x[3] \in Object \ {Root} /\ s.owner[x[3]] = x[2]
    BY <2>1, HeadSound
  <2> QED BY <2>1, <2>2
<1>2. /\ r.home = s.home /\ r.named = s.named /\ r.phase = s.phase /\ r.owner = s.owner /\ r.doing = s.doing
      /\ r.sent = s.sent /\ r.promised = s.promised /\ r.inbox \in [Thread -> Seq(Tree!Command)]
  BY HandlerFacts
<1>3. TreeTypes(s) /\ s.owned \in [Object -> SUBSET Object] /\ s.processed \in [Object -> Nat]
  BY HandlerFacts
<1>4. /\ r.owned \in [Object -> SUBSET Object] /\ \A p, d \in Object : d \in r.owned[p] <=> d \in s.owned[p] \/ (p = o /\ d = c)
      /\ r.processed \in [Object -> Nat] /\ r.processed[o] = s.processed[o] + 1 /\ \A p \in Object : p # o => r.processed[p] = s.processed[p]
  BY <1>3
<1>5. TreeTypes(r)
  <2>1. r.plugged \in [Object -> BOOLEAN] /\ r.terminating \in [Object -> BOOLEAN] /\ r.acks \in [Object -> Nat] /\ r.endpoint \in BOOLEAN
    BY <1>3 DEF TreeTypes
  <2> QED BY <1>4, <2>1, HandlerTypes
<1>6. Within(s, r, K, P) /\ Carries(s, r, K, P)
  <2>1. \A u \in K, p \in Object : First(s, u) # PlugTo(p)
    BY <1>0, <1>1, CommandFacts
  <2> QED BY <1>2, <2>1 DEF Within, Carries
<1>7. TreeBirth(r) /\ TreeCommands(r) /\ TreePlugged(r) /\ TreeThreads(r)
  BY <1>5, <1>6, WithinLaw
<1>8. \A d \in Object : InHand(r, d) <=> InHand(s, d)
  BY <1>2 DEF InHand, Launching
<1>9. Born(s, c) /\ s.owner[c] \in Object
  BY <1>1, ChildFacts
<1>10. Stage(r, c) = 1
  <2> DEFINE D == {OwnTo(o, c)}
             T == {TermFor(c)}
             q == Hits(Box(s, o), D)
             n == Hits(Box(s, c), T)
  <2>1. s.home[o] \in K /\ First(s, s.home[o]) \in D /\ P \intersect D = {} /\ P \intersect T = {} /\ \A u \in K : First(s, u) \notin T
    BY <1>0, <1>1, CommandFacts
  <2>2. q \in Nat /\ n \in Nat /\ (q # 0 => q = 1 /\ ~InHand(s, c) /\ c \notin s.owned[o] /\ n = 0 /\ ~s.terminating[c])
    <3>1. OnePlace(s, c)
      BY <1>1, <1>9, OneStage
    <3> QED BY <1>1, <3>1 DEF OnePlace, OwnsTo, TermsTo
  <2>3. r.home = s.home /\ Moved(s, r, K, P) /\ TreeTypes(s)
    BY <1>2, <1>3
  <2> HIDE DEF D, T
  <2>4. q # 0 /\ Hits(Box(r, o), D) = q - 1
    BY <2>1, <2>3, LessHits
  <2>5. Hits(Box(r, c), T) = n
    BY <2>1, <2>3, SameHits
  <2> HIDE DEF q, n
  <2>6. Hits(Box(r, o), D) = 0 /\ Hits(Box(r, c), T) = 0 /\ ~InHand(r, c) /\ c \in r.owned[o] /\ ~r.terminating[c] /\ r.owner[c] = o
    BY <1>1, <1>2, <1>4, <1>8, <2>2, <2>4, <2>5
  <2> QED BY <2>6 DEF Stage, D, T
<1>11. TreeStages(r)
  <2>1. ASSUME NEW d \in Object \ {Root}, Born(r, d) PROVE Stage(r, d) = 1
    <3>1. Born(s, d)
      BY <1>2, <2>1 DEF Born
    <3>2. s.owner[d] \in Object /\ Stage(s, d) = 1
      BY <3>1 DEF TreeLaw, TreeBirth, TreeStages
    <3>3. ASSUME d # c PROVE Stage(r, d) = 1
      <4>1. \A u \in K : First(s, u) # OwnTo(s.owner[d], d) /\ First(s, u) # TermFor(d)
        <5>1. x # OwnTo(s.owner[d], d) /\ x # TermFor(d)
          <6>1. x[3] = c
            BY CommandFacts
          <6> QED BY <1>1, <3>2, <3>3, <6>1, CommandFacts
        <5> QED BY <1>0, <5>1
      <4>2. d \in r.owned[s.owner[d]] <=> d \in s.owned[s.owner[d]]
        BY <1>4, <3>2, <3>3
      <4>3. StageLeft(s, r, K, P, d)
        BY <1>2, <1>8, <3>2, <4>1, <4>2 DEF StageLeft
      <4> QED BY <1>6, <3>2, <4>3, StageKept
    <3> QED BY <1>10, <3>3
  <2>2. \A p \in Object : \A d \in s.owned[p] : d # Root /\ s.owner[d] = p
    BY DEF TreeLaw, TreeStages
  <2>3. \A p \in Object : s.terminating[p] => s.owned[p] = {}
    BY DEF TreeLaw, TreeStages
  <2>4. \A p \in Object : \A d \in r.owned[p] : d # Root /\ r.owner[d] = p
    BY <1>1, <1>2, <1>4, <2>2
  <2>5. \A p \in Object : r.terminating[p] => r.owned[p] = {}
    BY <1>3, <1>4, <2>3
  <2> QED BY <2>1, <2>4, <2>5 DEF TreeStages
<1>12. TreeCounts(r)
  <2>1. ASSUME NEW q \in Object PROVE AcksRight(r, q)
    <3>1. \A u \in K : First(s, u) # AckTo(q)
      BY <1>0, <1>1, CommandFacts
    <3>2. ASSUME NEW d \in Object PROVE Told(r, d) = Told(s, d)
      <4> DEFINE D == {TermFor(d)}
      <4>1. P \intersect D = {} /\ \A u \in K : First(s, u) \notin D
        BY <1>0, <1>1, CommandFacts
      <4> HIDE DEF D
      <4>2. Hits(Box(r, d), D) = Hits(Box(s, d), D)
        BY <1>2, <1>3, <4>1, SameHits
      <4> QED BY <4>2 DEF Told, D
    <3>3. Termed(r, q) = Termed(s, q)
      BY <1>2, <3>2 DEF Termed, Alive
    <3>4. AcksLeft(s, r, K, P, q)
      BY <3>1, <3>3 DEF AcksLeft
    <3> QED BY <1>6, <3>4, AcksKept
  <2>2. SentRight(r, o)
    <3>1. P \intersect Counted(o) = {} /\ s.home[o] \in K /\ First(s, s.home[o]) \in Counted(o)
      BY <1>1
    <3>2. r.sent[o] = s.sent[o] /\ r.processed[o] = s.processed[o] + 1 /\ r.promised = s.promised
      BY <1>2, <1>4
    <3>3. SentLess(s, r, K, P, o)
      BY <3>1, <3>2 DEF SentLess
    <3> QED BY <1>6, <3>3, SentTaken
  <2>3. ASSUME NEW q \in Object, q # o PROVE SentRight(r, q)
    <3>1. P \intersect Counted(q) = {} /\ \A u \in K : First(s, u) \notin Counted(q)
      BY <1>0, <1>1, <2>3, CountedFacts
    <3>2. r.processed[q] = s.processed[q] /\ r.sent[q] = s.sent[q] /\ r.promised = s.promised
      BY <1>2, <1>4, <2>3
    <3>3. SentLeft(s, r, K, P, q)
      BY <3>1, <3>2 DEF SentLeft
    <3> QED BY <1>6, <3>3, SentKept
  <2> QED BY <2>1, <2>2, <2>3 DEF TreeCounts
<1>13. TreeEnds(r)
  <2>1. \A p \in Object : Over(s, p) => r.sent[p] = s.sent[p] /\ r.processed[p] = s.processed[p]
    BY <1>1, <1>2, <1>4 DEF Over, Alive
  <2> QED BY <1>2, <2>1 DEF TreeLaw, TreeEnds, Over, Alive
<1> QED BY <1>5, <1>7, <1>11, <1>12, <1>13 DEF TreeLaw

\* process_own of an object that is terminating, and process_term_req of a child
\* that is known: both tell the child to terminate.
TellsChild(s, r, t, o, c) ==
  \/ /\ First(s, t) = OwnTo(o, c) /\ s.terminating[o]
     /\ r.owned = s.owned /\ r.processed = [s.processed EXCEPT ![o] = @ + 1]
  \/ /\ First(s, t) = ReqOf(o, c) /\ ~s.terminating[o] /\ c \in s.owned[o]
     /\ r.owned = [s.owned EXCEPT ![o] = @ \ {c}] /\ r.processed = s.processed

LEMMA TellsLaw ==
  ASSUME NEW s, NEW r, TreeLaw(s), NEW t \in Thread, NEW o \in Object, NEW c \in Object, NEW K, NEW P, t \in K, \A u \in K : u = t,
         TermFor(c) \in P, \A y \in P : y = TermFor(c), s.inbox[t] # <<>>, Moved(s, r, K, P), Handles(s, r), TellsChild(s, r, t, o, c),
         r.terminating = s.terminating, r.acks = [s.acks EXCEPT ![o] = @ + 1], r.endpoint = s.endpoint, r.plugged = s.plugged
  PROVE  TreeLaw(r)
<1> DEFINE x == First(s, t)
           late == s.terminating[o]
<1>0. \A u \in K : u = t /\ First(s, u) = x
  OBVIOUS
<1>1. /\ x = IF late THEN OwnTo(o, c) ELSE ReqOf(o, c)
      /\ x \in Tree!Command /\ x[2] = o /\ x[3] = c /\ x[1] = (IF late THEN "own" ELSE "term_req")
      /\ s.home[o] = t /\ Alive(s, o) /\ c # Root /\ s.owner[c] = o
  <2>1. x = (IF late THEN OwnTo(o, c) ELSE ReqOf(o, c)) /\ x[2] = o /\ x[3] = c /\ x[1] = (IF late THEN "own" ELSE "term_req")
    BY CommandFacts DEF TellsChild
  <2>2. x[1] \in {"own", "term_req"}
    BY <2>1
  <2>3. x \in Tree!Command /\ s.home[x[2]] = t /\ Alive(s, x[2]) /\ x[3] \in Object \ {Root} /\ s.owner[x[3]] = x[2]
    BY <2>2, HeadSound
  <2> QED BY <2>1, <2>3
<1>2. /\ r.home = s.home /\ r.named = s.named /\ r.phase = s.phase /\ r.owner = s.owner /\ r.doing = s.doing
      /\ r.sent = s.sent /\ r.promised = s.promised /\ r.inbox \in [Thread -> Seq(Tree!Command)]
  BY HandlerFacts
<1>3. TreeTypes(s) /\ s.owned \in [Object -> SUBSET Object] /\ s.processed \in [Object -> Nat] /\ s.acks \in [Object -> Nat]
  BY HandlerFacts
<1>4. /\ r.owned \in [Object -> SUBSET Object] /\ \A p, d \in Object : d \in r.owned[p] <=> d \in s.owned[p] /\ (late \/ ~(p = o /\ d = c))
      /\ r.processed \in [Object -> Nat] /\ r.processed[o] = s.processed[o] + (IF late THEN 1 ELSE 0)
      /\ \A p \in Object : p # o => r.processed[p] = s.processed[p]
      /\ ~late => c \in s.owned[o]
  <2>1. CASE late
    <3>1. r.owned = s.owned /\ r.processed = [s.processed EXCEPT ![o] = @ + 1]
      BY <2>1 DEF TellsChild
    <3> QED BY <1>3, <2>1, <3>1
  <2>2. CASE ~late
    <3>1. r.owned = [s.owned EXCEPT ![o] = @ \ {c}] /\ r.processed = s.processed /\ c \in s.owned[o]
      BY <2>2 DEF TellsChild
    <3> QED BY <1>3, <2>2, <3>1
  <2> QED BY <2>1, <2>2
<1>5. TreeTypes(r) /\ r.acks[o] = s.acks[o] + 1 /\ \A q \in Object : q # o => r.acks[q] = s.acks[q]
  <2>1. r.plugged \in [Object -> BOOLEAN] /\ r.terminating \in [Object -> BOOLEAN] /\ r.endpoint \in BOOLEAN
    BY <1>3 DEF TreeTypes
  <2>2. r.acks \in [Object -> Nat] /\ r.acks[o] = s.acks[o] + 1 /\ \A q \in Object : q # o => r.acks[q] = s.acks[q]
    BY <1>3
  <2>3. TreeTypes(r)
    BY <1>4, <2>1, <2>2, HandlerTypes
  <2> QED BY <2>2, <2>3
<1>6. OnePlace(s, c) /\ Born(s, c)
  <2>1. Born(s, c)
    BY <1>1, ChildFacts
  <2> QED BY <1>1, <2>1, OneStage
<1>7. ~InHand(s, c) /\ TermsTo(s, c) = 0 /\ ~s.terminating[c] /\ OwnsTo(s, c) = (IF late THEN 1 ELSE 0) /\ (late => c \notin s.owned[o])
  <2>1. CASE late
    <3>1. OwnsTo(s, c) # 0
      <4>1. t \in K /\ First(s, t) \in {OwnTo(o, c)} /\ s.home[o] = t
        BY <1>1, <2>1
      <4> DEFINE D == {OwnTo(o, c)}
      <4>2. t \in K /\ First(s, t) \in D /\ s.home[o] = t
        BY <4>1
      <4> HIDE DEF D
      <4>3. HitsAfter(s, r, K, P, t, D)
        BY <1>3, MovedHits
      <4>4. Hits(Box(s, o), D) # 0
        BY <4>2, <4>3 DEF HitsAfter, Box
      <4> QED BY <1>1, <4>4 DEF OwnsTo, D
    <3> QED BY <1>1, <1>6, <2>1, <3>1 DEF OnePlace
  <2>2. CASE ~late
    <3>1. c \in s.owned[s.owner[c]]
      BY <1>1, <1>4, <2>2
    <3> QED BY <1>6, <2>2, <3>1 DEF OnePlace
  <2> QED BY <2>1, <2>2
<1>8. Within(s, r, K, P) /\ Carries(s, r, K, P)
  <2>1. \A u \in K, p \in Object : First(s, u) # PlugTo(p)
    BY <1>0, <1>1, CommandFacts
  <2>2. Alive(r, c)
    <3>1. Alive(s, c)
      BY <1>6, <1>7, AliveUntilTold
    <3> QED BY <1>2, <3>1 DEF Alive
  <2>3. \A y \in P : Proper(r, y)
    <3>1. Proper(r, TermFor(c))
      BY <1>1, <2>2, CommandFacts DEF Proper
    <3> QED BY <3>1
  <2> QED BY <1>2, <2>1, <2>3 DEF Within, Carries
<1>9. TreeBirth(r) /\ TreeCommands(r) /\ TreePlugged(r) /\ TreeThreads(r)
  BY <1>5, <1>8, WithinLaw
<1>10. (\A q \in Object : AcksRight(r, q)) /\ Hits(Box(r, c), {TermFor(c)}) = 1
  <2>1. \A u \in K : First(s, u)[1] \notin {"term", "term_ack"}
    BY <1>0, <1>1
  <2>2. Hits(Box(s, c), {TermFor(c)}) = 0
    BY <1>7 DEF TermsTo
  <2>3. Tells(s, r, K, P, o, c)
    BY <1>1, <1>2, <1>5, <1>7, <1>8, <2>1, <2>2 DEF Tells
  <2> QED BY <2>3, TellsAcks
<1>11. \A d \in Object : InHand(r, d) <=> InHand(s, d)
  BY <1>2 DEF InHand, Launching
<1>12. Stage(r, c) = 1
  <2> DEFINE D == {OwnTo(o, c)}
  <2>1. P \intersect D = {}
    BY CommandFacts
  <2>2. Hits(Box(s, o), D) = IF late THEN 1 ELSE 0
    BY <1>1, <1>7 DEF OwnsTo
  <2>3. late => s.home[o] \in K /\ First(s, s.home[o]) \in D
    BY <1>1
  <2>4. ~late => \A u \in K : First(s, u) \notin D
    BY <1>0, <1>1, CommandFacts
  <2>5. r.home = s.home /\ Moved(s, r, K, P) /\ TreeTypes(s)
    BY <1>2, <1>3
  <2> HIDE DEF D
  <2>6. ASSUME late PROVE Hits(Box(r, o), D) = 0
    <3>1. Hits(Box(r, o), D) = Hits(Box(s, o), D) - 1
      BY <2>1, <2>3, <2>5, <2>6, LessHits
    <3> QED BY <2>2, <2>6, <3>1
  <2>7. ASSUME ~late PROVE Hits(Box(r, o), D) = 0
    <3>1. Hits(Box(r, o), D) = Hits(Box(s, o), D)
      BY <2>1, <2>4, <2>5, <2>7, SameHits
    <3> QED BY <2>2, <2>7, <3>1
  <2>8. Hits(Box(r, o), D) = 0 /\ ~InHand(r, c) /\ c \notin r.owned[o] /\ ~r.terminating[c] /\ r.owner[c] = o
    BY <1>1, <1>2, <1>4, <1>7, <1>11, <2>6, <2>7
  <2> QED BY <1>10, <2>8 DEF Stage, D
<1>13. TreeStages(r)
  <2>1. ASSUME NEW d \in Object \ {Root}, Born(r, d) PROVE Stage(r, d) = 1
    <3>1. Born(s, d)
      BY <1>2, <2>1 DEF Born
    <3>2. s.owner[d] \in Object /\ Stage(s, d) = 1
      BY <3>1 DEF TreeLaw, TreeBirth, TreeStages
    <3>3. ASSUME d # c PROVE Stage(r, d) = 1
      <4>1. \A u \in K : First(s, u) # OwnTo(s.owner[d], d) /\ First(s, u) # TermFor(d)
        <5>1. x # OwnTo(s.owner[d], d) /\ x # TermFor(d)
          BY <1>1, <3>2, <3>3, CommandFacts
        <5> QED BY <1>0, <5>1
      <4>2. d \in r.owned[s.owner[d]] <=> d \in s.owned[s.owner[d]]
        BY <1>4, <3>2, <3>3
      <4>3. OwnTo(s.owner[d], d) \notin P /\ TermFor(d) \notin P
        BY <3>2, <3>3, CommandFacts
      <4>4. StageLeft(s, r, K, P, d)
        BY <1>2, <1>11, <3>2, <4>1, <4>2, <4>3 DEF StageLeft
      <4> QED BY <1>8, <3>2, <4>4, StageKept
    <3> QED BY <1>12, <3>3
  <2>2. \A p \in Object : \A d \in s.owned[p] : d # Root /\ s.owner[d] = p
    BY DEF TreeLaw, TreeStages
  <2>3. \A p \in Object : s.terminating[p] => s.owned[p] = {}
    BY DEF TreeLaw, TreeStages
  <2>4. \A p \in Object : \A d \in r.owned[p] : d # Root /\ r.owner[d] = p
    BY <1>2, <1>4, <2>2
  <2>5. \A p \in Object : r.terminating[p] => r.owned[p] = {}
    BY <1>4, <2>3
  <2> QED BY <2>1, <2>4, <2>5 DEF TreeStages
<1>14. TreeCounts(r)
  <2>1. \A q \in Object : P \intersect Counted(q) = {}
    BY CommandFacts, CountedFacts
  <2>2. x \in Counted(o) <=> late
    <3>1. late => x \in Counted(o)
      BY <1>1, CountedFacts
    <3>2. x[1] = "term_req" => x \notin Counted(o)
      BY <1>1, CountedFacts, CommandFacts
    <3> QED BY <1>1, <3>1, <3>2
  <2>3. ASSUME late PROVE SentRight(r, o)
    <3>1. SentLess(s, r, K, P, o)
      BY <1>1, <1>2, <1>4, <2>1, <2>2, <2>3 DEF SentLess
    <3> QED BY <1>8, <3>1, SentTaken
  <2>4. ASSUME NEW q \in Object, q # o \/ ~late PROVE SentRight(r, q)
    <3>1. \A u \in K : First(s, u) \notin Counted(q)
      BY <1>0, <1>1, <2>2, <2>4, CountedFacts
    <3>2. r.processed[q] = s.processed[q]
      BY <1>3, <1>4, <2>4
    <3>3. SentLeft(s, r, K, P, q)
      BY <1>2, <2>1, <3>1, <3>2 DEF SentLeft
    <3> QED BY <1>8, <3>3, SentKept
  <2> QED BY <1>10, <2>3, <2>4 DEF TreeCounts
<1>15. TreeEnds(r)
  <2>1. \A p \in Object : Over(s, p) => r.sent[p] = s.sent[p] /\ r.processed[p] = s.processed[p]
    BY <1>1, <1>2, <1>4 DEF Over, Alive
  <2> QED BY <1>2, <2>1 DEF TreeLaw, TreeEnds, Over, Alive
<1> QED BY <1>5, <1>9, <1>13, <1>14, <1>15 DEF TreeLaw

\* What is announced to others beside the tree: a step in which only the numbers
\* of announcements, and commands other than own and term, change.
Announces(s, r, K, P) ==
  /\ r.plugged = s.plugged /\ r.acks = s.acks
  /\ \A t \in K : \A o \in Object : First(s, t) # AckTo(o)
  /\ \A o \in Object : AckTo(o) \notin P

LEMMA AnnounceLaw ==
  ASSUME NEW s, NEW r, NEW K, NEW P, TreeLaw(s), TreeTypes(r), Quiet(s, r, K, P), Announces(s, r, K, P),
         \A o \in Object : SentRight(r, o)
  PROVE  TreeLaw(r)
<1>1. Within(s, r, K, P) /\ Carries(s, r, K, P)
  BY DEF Quiet, Within
<1>2. TreeBirth(r) /\ TreeCommands(r) /\ TreePlugged(r) /\ TreeThreads(r)
  BY <1>1, WithinLaw
<1>3. TreeStages(r) /\ TreeEnds(r) /\ SameTermed(s, r)
  BY QuietLaw
<1>4. ASSUME NEW q \in Object PROVE AcksRight(r, q)
  <2>1. AcksLeft(s, r, K, P, q)
    BY <1>3 DEF AcksLeft, Announces, SameTermed
  <2> QED BY <1>1, <2>1, AcksKept
<1>5. TreeCounts(r)
  BY <1>4 DEF TreeCounts
<1> QED BY <1>2, <1>3, <1>5 DEF TreeLaw

\* process_term_req of a child that is not known.
LEMMA IgnoredLaw ==
  ASSUME NEW s, NEW r, TreeLaw(s), NEW t \in Thread, NEW K, NEW P, t \in K, \A u \in K : u = t, \A y : y \notin P,
         s.inbox[t] # <<>>, First(s, t)[1] = "term_req", Moved(s, r, K, P), Handles(s, r),
         r.owned = s.owned, r.terminating = s.terminating, r.acks = s.acks, r.endpoint = s.endpoint,
         r.plugged = s.plugged, r.processed = s.processed
  PROVE  TreeLaw(r)
<1>0. \A u \in K : First(s, u)[1] = "term_req" /\ First(s, u) \in Tree!Command
  <2>1. First(s, t) \in Tree!Command
    BY HeadSound
  <2> QED BY <2>1
<1>1. TreeTypes(s)
  BY DEF TreeLaw
<1>2. TreeTypes(r)
  <2>1. /\ r.owned \in [Object -> SUBSET Object] /\ r.plugged \in [Object -> BOOLEAN] /\ r.terminating \in [Object -> BOOLEAN]
        /\ r.acks \in [Object -> Nat] /\ r.processed \in [Object -> Nat] /\ r.endpoint \in BOOLEAN
    BY <1>1 DEF TreeTypes
  <2> QED BY <2>1, HandlerTypes
<1>3. Within(s, r, K, P)
  <2>1. \A u \in K, p \in Object : First(s, u) # PlugTo(p)
    BY <1>0, CommandFacts
  <2> QED BY <2>1 DEF Within, Carries, Handles
<1>4. Quiet(s, r, K, P)
  BY <1>0, <1>3 DEF Quiet, Handles
<1>5. Announces(s, r, K, P)
  <2>1. \A u \in K : \A o \in Object : First(s, u) # AckTo(o)
    BY <1>0, CommandFacts
  <2> QED BY <2>1 DEF Announces
<1>6. ASSUME NEW q \in Object PROVE SentRight(r, q)
  <2>1. \A u \in K : First(s, u) \notin Counted(q)
    BY <1>0, CountedFacts, CommandFacts
  <2>2. SentLeft(s, r, K, P, q)
    BY <2>1 DEF SentLeft, Handles
  <2> QED BY <1>3, <2>2, SentKept DEF Within
<1> QED BY <1>2, <1>4, <1>5, <1>6, AnnounceLaw

\* terminate: an object asks its owner to terminate it.
LEMMA RequestLaw ==
  ASSUME NEW s, NEW r, TreeLaw(s), NEW o \in Object, NEW K, NEW P, \A u : u \notin K,
         s.owner[o] \in Object, Alive(s, o), ReqOf(s.owner[o], o) \in P, \A y \in P : y = ReqOf(s.owner[o], o), Moved(s, r, K, P), Handles(s, r),
         r.owned = s.owned, r.terminating = s.terminating, r.acks = s.acks, r.endpoint = s.endpoint,
         r.plugged = s.plugged, r.processed = s.processed
  PROVE  TreeLaw(r)
<1> DEFINE p == s.owner[o]
           x == ReqOf(p, o)
<1>0. p \in Object /\ x \in Tree!Command /\ x[1] = "term_req" /\ x[2] = p /\ x[3] = o /\ o # Root
  BY CommandFacts, ChildFacts
<1>1. TreeTypes(s)
  BY DEF TreeLaw
<1>2. TreeTypes(r)
  <2>1. /\ r.owned \in [Object -> SUBSET Object] /\ r.plugged \in [Object -> BOOLEAN] /\ r.terminating \in [Object -> BOOLEAN]
        /\ r.acks \in [Object -> Nat] /\ r.processed \in [Object -> Nat] /\ r.endpoint \in BOOLEAN
    BY <1>1 DEF TreeTypes
  <2> QED BY <2>1, HandlerTypes
<1>3. Alive(s, p)
  <2>1. Born(s, p) /\ ~Over(s, p)
    <3>1. Born(s, p)
      BY ChildFacts
    <3>2. ~Over(s, o)
      BY DEF Over, Alive
    <3> QED BY <3>1, <3>2 DEF TreeLaw, TreeEnds
  <2> QED BY <1>0, <1>1, <2>1 DEF TreeTypes, Born, Over, Alive
<1> HIDE DEF x
<1>4. Within(s, r, K, P)
  <2>1. Proper(r, x)
    BY <1>0, <1>3 DEF Proper, Handles, Alive
  <2>2. \A y \in P : Proper(r, y)
    BY <2>1 DEF x
  <2> QED BY <2>2 DEF Within, Carries, Handles
<1>5. Quiet(s, r, K, P)
  <2>1. \A y \in P : y[1] \notin {"own", "term"}
    BY <1>0 DEF x
  <2> QED BY <1>4, <2>1 DEF Quiet, Handles
<1>6. Announces(s, r, K, P)
  <2>1. \A c \in Object : AckTo(c) \notin P
    BY <1>0, CommandFacts DEF x
  <2> QED BY <2>1 DEF Announces
<1>7. ASSUME NEW q \in Object PROVE SentRight(r, q)
  <2>1. P \intersect Counted(q) = {}
    BY <1>0, CountedFacts, CommandFacts DEF x
  <2>2. SentLeft(s, r, K, P, q)
    BY <2>1 DEF SentLeft, Handles
  <2> QED BY <1>4, <2>2, SentKept DEF Within
<1> QED BY <1>2, <1>5, <1>6, <1>7, AnnounceLaw

(***************************************************************************)
(* What others announce and send.                                          *)
(***************************************************************************)
Apart(s, r) ==
  /\ r.home = s.home /\ r.named = s.named /\ r.phase = s.phase /\ r.owner = s.owner /\ r.doing = s.doing
  /\ r.owned = s.owned /\ r.terminating = s.terminating /\ r.acks = s.acks /\ r.endpoint = s.endpoint
  /\ r.plugged = s.plugged /\ r.processed = s.processed

LEMMA ApartTypes ==
  ASSUME NEW s, NEW r, NEW K, NEW P, TreeLaw(s), Apart(s, r), Moved(s, r, K, P), r.sent \in [Object -> Nat], r.promised \in Nat
  PROVE  TreeTypes(r)
<1>1. TreeTypes(s) /\ r.inbox \in [Thread -> Seq(Tree!Command)]
  BY DEF TreeLaw, Moved
<1> QED BY <1>1 DEF TreeTypes, Apart

LEMMA ApartWithin ==
  ASSUME NEW s, NEW r, NEW K, NEW P, TreeLaw(s), Apart(s, r), Moved(s, r, K, P), \A u : u \notin K, \A y \in P : Proper(r, y)
  PROVE  Within(s, r, K, P) /\ Carries(s, r, K, P)
BY DEF Apart, Within, Carries

\* Another socket finds the endpoint.
LEMMA FindEndpointLaw ==
  ASSUME NEW s, NEW r, TreeLaw(s), NEW K, NEW P, \A u : u \notin K, \A y : y \notin P, s.endpoint, Moved(s, r, K, P), Apart(s, r),
         r.sent = [s.sent EXCEPT ![Root] = @ + 1], r.promised = s.promised + 1
  PROVE  TreeLaw(r)
<1>1. TreeTypes(s) /\ Alive(s, Root) /\ Root \in Object
  BY TreeFacts DEF TreeLaw, TreeEnds
<1>2. s.sent \in [Object -> Nat] /\ s.promised \in Nat /\ s.processed \in [Object -> Nat]
  BY <1>1 DEF TreeTypes
<1>3. /\ r.sent \in [Object -> Nat] /\ r.promised \in Nat /\ r.sent[Root] = s.sent[Root] + 1
      /\ \A o \in Object : o # Root => r.sent[o] = s.sent[o]
  BY <1>1, <1>2
<1>4. TreeTypes(r)
  BY <1>3, ApartTypes
<1>5. Within(s, r, K, P) /\ Carries(s, r, K, P)
  BY ApartWithin
<1>6. Quiet(s, r, K, P)
  <2>1. \A o \in Object : Over(s, o) => r.sent[o] = s.sent[o] /\ r.processed[o] = s.processed[o]
    BY <1>1, <1>3 DEF Over, Alive, Apart
  <2> QED BY <1>5, <2>1 DEF Quiet, Apart
<1>7. Announces(s, r, K, P)
  BY DEF Announces, Apart
<1>8. SentRight(r, Root)
  <2> DEFINE n == Hits(Box(s, Root), Counted(Root))
  <2>1. Hits(Box(r, Root), Counted(Root)) = n
    <3>1. P \intersect Counted(Root) = {} /\ r.home = s.home
      BY DEF Apart
    <3> QED BY <1>1, <3>1, SameHits
  <2>2. n \in Nat
    BY <1>1, HitsOfBox
  <2>3. s.sent[Root] = s.processed[Root] + n + s.promised
    BY <1>1 DEF TreeLaw, TreeCounts, SentRight
  <2>4. s.processed[Root] \in Nat /\ r.processed[Root] = s.processed[Root]
    BY <1>1, <1>2 DEF Apart
  <2> HIDE DEF n
  <2>5. r.sent[Root] = r.processed[Root] + n + r.promised
    BY <1>2, <1>3, <2>2, <2>3, <2>4
  <2> QED BY <2>1, <2>5 DEF SentRight
<1>9. ASSUME NEW q \in Object, q # Root PROVE SentRight(r, q)
  <2>1. SentLeft(s, r, K, P, q)
    BY <1>3, <1>9 DEF SentLeft, Apart
  <2> QED BY <1>5, <2>1, SentKept
<1> QED BY <1>4, <1>6, <1>7, <1>8, <1>9, AnnounceLaw

\* It sends its bind, which had been announced.
LEMMA BindLaw ==
  ASSUME NEW s, NEW r, TreeLaw(s), NEW K, NEW P, \A u : u \notin K, BindTo(Root) \in P, \A y \in P : y = BindTo(Root),
         s.promised > 0, Moved(s, r, K, P), Apart(s, r), r.sent = s.sent, r.promised = s.promised - 1
  PROVE  TreeLaw(r)
<1> DEFINE x == BindTo(Root)
<1>1. TreeTypes(s) /\ Root \in Object /\ x \in Tree!Command /\ x[1] = "bind" /\ x[2] = Root /\ x[3] = None
  BY TreeFacts, CommandFacts DEF TreeLaw
<1>2. s.sent \in [Object -> Nat] /\ s.promised \in Nat /\ s.processed \in [Object -> Nat]
  BY <1>1 DEF TreeTypes
<1>3. r.sent \in [Object -> Nat] /\ r.promised \in Nat
  BY <1>2
<1>4. TreeTypes(r)
  BY <1>3, ApartTypes
<1>5. Alive(s, Root)
  <2> DEFINE n == Hits(Box(s, Root), Counted(Root))
  <2>1. n \in Nat
    BY <1>1, HitsOfBox
  <2>2. s.sent[Root] = s.processed[Root] + n + s.promised
    BY <1>1 DEF TreeLaw, TreeCounts, SentRight
  <2>3. s.processed[Root] \in Nat
    BY <1>1, <1>2
  <2> HIDE DEF n
  <2>4. s.sent[Root] # s.processed[Root]
    BY <1>2, <2>1, <2>2, <2>3
  <2> QED BY <1>1, <2>4 DEF TreeLaw, TreeTypes, TreeEnds, TreeBirth, Born, Over, Alive
<1> HIDE DEF x
<1>6. \A y \in P : Proper(r, y)
  <2>1. Proper(r, x)
    BY <1>1, <1>5 DEF Proper, Apart, Alive
  <2> QED BY <2>1 DEF x
<1>7. Within(s, r, K, P) /\ Carries(s, r, K, P)
  BY <1>6, ApartWithin
<1>8. Quiet(s, r, K, P)
  <2>1. \A y \in P : y[1] \notin {"own", "term"}
    BY <1>1 DEF x
  <2> QED BY <1>7, <2>1 DEF Quiet, Apart
<1>9. Announces(s, r, K, P)
  <2>1. \A o \in Object : AckTo(o) \notin P
    BY <1>1, CommandFacts DEF x
  <2> QED BY <2>1 DEF Announces, Apart
<1>10. SentRight(r, Root)
  <2>1. P \intersect Counted(Root) = {x} /\ x \in P
    BY <1>1, CountedFacts DEF x
  <2>2. SentMore(s, r, K, P, Root, x)
    BY <1>1, <2>1 DEF SentMore, Apart
  <2> QED BY <1>1, <1>7, <2>2, SentPosted
<1>11. ASSUME NEW q \in Object, q # Root PROVE SentRight(r, q)
  <2>1. P \intersect Counted(q) = {}
    BY <1>1, <1>11, CountedFacts DEF x
  <2>2. SentLeft(s, r, K, P, q)
    BY <1>11, <2>1 DEF SentLeft, Apart
  <2> QED BY <1>7, <2>2, SentKept
<1> QED BY <1>4, <1>8, <1>9, <1>10, <1>11, AnnounceLaw

\* The init of a new connection finds a session, and sends it the engine.
LEMMA FindSessionLaw ==
  ASSUME NEW s, NEW r, TreeLaw(s), NEW i \in Object, NEW o \in Object, NEW K, NEW P, \A u : u \notin K,
         s.owner[i] \in Object, Alive(s, i), Alive(s, o), o # Root,
         BindTo(o) \in P, \A y \in P : y = BindTo(o) \/ y = ReqOf(s.owner[i], i),
         Moved(s, r, K, P), Apart(s, r), r.sent = [s.sent EXCEPT ![o] = @ + 1], r.promised = s.promised
  PROVE  TreeLaw(r)
<1> DEFINE p == s.owner[i]
           x == BindTo(o)
           z == ReqOf(p, i)
<1>1. /\ TreeTypes(s) /\ x \in Tree!Command /\ x[1] = "bind" /\ x[2] = o /\ x[3] = None
      /\ z \in Tree!Command /\ z[1] = "term_req" /\ z[2] = p /\ z[3] = i /\ i # Root
  BY ChildFacts, CommandFacts DEF TreeLaw
<1>2. s.sent \in [Object -> Nat] /\ s.promised \in Nat /\ s.processed \in [Object -> Nat]
  BY <1>1 DEF TreeTypes
<1>3. /\ r.sent \in [Object -> Nat] /\ r.promised \in Nat /\ r.sent[o] = s.sent[o] + 1
      /\ \A q \in Object : q # o => r.sent[q] = s.sent[q]
  BY <1>2
<1>4. TreeTypes(r)
  BY <1>3, ApartTypes
<1>5. Alive(s, p)
  <2>1. Born(s, p) /\ ~Over(s, p)
    <3>1. Born(s, p)
      BY ChildFacts
    <3>2. ~Over(s, i)
      BY DEF Over, Alive
    <3> QED BY <3>1, <3>2 DEF TreeLaw, TreeEnds
  <2> QED BY <1>1, <2>1 DEF TreeTypes, Born, Over, Alive
<1> HIDE DEF x, z
<1>6. \A y \in P : Proper(r, y)
  <2>1. Proper(r, x)
    BY <1>1 DEF Proper, Apart, Alive
  <2>2. Proper(r, z)
    BY <1>1, <1>5 DEF Proper, Apart, Alive
  <2> QED BY <2>1, <2>2 DEF x, z
<1>7. Within(s, r, K, P) /\ Carries(s, r, K, P)
  BY <1>6, ApartWithin
<1>8. Quiet(s, r, K, P)
  <2>1. \A y \in P : y[1] \notin {"own", "term"}
    BY <1>1 DEF x, z
  <2>2. \A q \in Object : Over(s, q) => r.sent[q] = s.sent[q] /\ r.processed[q] = s.processed[q]
    BY <1>3 DEF Over, Alive, Apart
  <2> QED BY <1>7, <2>1, <2>2 DEF Quiet, Apart
<1>9. Announces(s, r, K, P)
  <2>1. \A q \in Object : AckTo(q) # x /\ AckTo(q) # z
    BY <1>1, CommandFacts
  <2>2. \A q \in Object : AckTo(q) \notin P
    BY <2>1 DEF x, z
  <2> QED BY <2>2 DEF Announces, Apart
<1>10. \A q \in Object : (z \notin Counted(q)) /\ (x \in Counted(q) <=> q = o)
  BY <1>1, CountedFacts, CommandFacts DEF x
<1>11. SentRight(r, o)
  <2>1. P \intersect Counted(o) = {x} /\ x \in P
    BY <1>10 DEF x, z
  <2>2. SentMore(s, r, K, P, o, x)
    BY <1>1, <1>3, <2>1 DEF SentMore, Apart
  <2> QED BY <1>7, <2>2, SentPosted
<1>12. ASSUME NEW q \in Object, q # o PROVE SentRight(r, q)
  <2>1. P \intersect Counted(q) = {}
    BY <1>10, <1>12 DEF x, z
  <2>2. SentLeft(s, r, K, P, q)
    BY <1>3, <1>12, <2>1 DEF SentLeft, Apart
  <2> QED BY <1>7, <2>2, SentKept
<1> QED BY <1>4, <1>8, <1>9, <1>11, <1>12, AnnounceLaw

(***************************************************************************)
(* process_term, and the socket that is closed: all that is owned is told. *)
(***************************************************************************)
TellsAll(s, r, o, K, P) ==
  /\ Alive(s, o) /\ Ready(s, o) /\ ~s.terminating[o]
  /\ \A u \in K : First(s, u) = TermFor(o) /\ s.home[o] = u
  /\ o = Root \/ s.home[o] \in K
  /\ \A y : y \in P <=> \E c \in s.owned[o] : y = TermFor(c)
  /\ r.acks = [s.acks EXCEPT ![o] = @ + Cardinality(s.owned[o])] /\ r.owned = [s.owned EXCEPT ![o] = {}]
  /\ r.terminating = [s.terminating EXCEPT ![o] = TRUE] /\ r.endpoint = (s.endpoint /\ o # Root)
  /\ r.plugged = s.plugged /\ r.processed = s.processed

LEMMA TermLaw ==
  ASSUME NEW s, NEW r, TreeLaw(s), NEW o \in Object, NEW K, NEW P, Moved(s, r, K, P), Handles(s, r), TellsAll(s, r, o, K, P)
  PROVE  TreeLaw(r)
<1> DEFINE W == s.owned[o]
<1>1. /\ Alive(s, o) /\ Ready(s, o) /\ ~s.terminating[o]
      /\ \A u \in K : First(s, u) = TermFor(o) /\ s.home[o] = u
      /\ o = Root \/ s.home[o] \in K
      /\ \A y : y \in P <=> \E c \in W : y = TermFor(c)
  BY DEF TellsAll
<1>2. /\ r.home = s.home /\ r.named = s.named /\ r.phase = s.phase /\ r.owner = s.owner /\ r.doing = s.doing
      /\ r.sent = s.sent /\ r.promised = s.promised /\ r.inbox \in [Thread -> Seq(Tree!Command)]
  BY HandlerFacts
<1>3. TreeTypes(s) /\ s.owned \in [Object -> SUBSET Object] /\ s.terminating \in [Object -> BOOLEAN] /\ s.acks \in [Object -> Nat]
  BY HandlerFacts
<1>4. W \subseteq Object /\ IsFiniteSet(W) /\ Cardinality(W) \in Nat
  <2>1. W \subseteq Object
    BY <1>3
  <2> QED BY <2>1, SetsOfObjects
<1>5. /\ r.acks \in [Object -> Nat] /\ r.acks[o] = s.acks[o] + Cardinality(W) /\ \A q \in Object : q # o => r.acks[q] = s.acks[q]
  <2>1. r.acks = [s.acks EXCEPT ![o] = @ + Cardinality(W)]
    BY DEF TellsAll
  <2> DEFINE k == Cardinality(W)
  <2>2. k \in Nat
    BY <1>4
  <2> HIDE DEF k
  <2> QED BY <1>3, <2>1, <2>2 DEF k
<1>6. /\ r.owned \in [Object -> SUBSET Object] /\ r.owned[o] = {} /\ \A q \in Object : q # o => r.owned[q] = s.owned[q]
      /\ r.terminating \in [Object -> BOOLEAN] /\ r.terminating[o] /\ \A q \in Object : q # o => r.terminating[q] = s.terminating[q]
  <2>1. r.owned = [s.owned EXCEPT ![o] = {}] /\ r.terminating = [s.terminating EXCEPT ![o] = TRUE]
    BY DEF TellsAll
  <2> QED BY <1>3, <2>1
<1>7. r.plugged = s.plugged /\ r.processed = s.processed /\ r.endpoint = (s.endpoint /\ o # Root)
  BY DEF TellsAll
<1>8. TreeTypes(r)
  <2>1. r.plugged \in [Object -> BOOLEAN] /\ r.processed \in [Object -> Nat] /\ r.endpoint \in BOOLEAN
    BY <1>3, <1>7 DEF TreeTypes
  <2> QED BY <1>5, <1>6, <2>1, HandlerTypes
<1> HIDE DEF W
<1>9. ASSUME NEW c \in W PROVE c \in Object /\ c # Root /\ s.owner[c] = o /\ c # o /\ Born(s, c) /\ Alive(s, c) /\ ~s.terminating[c] /\ TermsTo(s, c) = 0 /\ ~InHand(s, c) /\ OwnsTo(s, c) = 0
  <2>1. c \in Object /\ c # Root /\ s.owner[c] = o
    BY <1>4 DEF TreeLaw, TreeStages, W
  <2>2. Born(s, c) /\ c # o
    BY <2>1, ChildFacts
  <2>3. OnePlace(s, c) /\ c \in s.owned[s.owner[c]]
    BY <2>1, <2>2, OneStage DEF W
  <2>4. ~s.terminating[c] /\ TermsTo(s, c) = 0 /\ ~InHand(s, c) /\ OwnsTo(s, c) = 0
    BY <2>3 DEF OnePlace
  <2> QED BY <2>1, <2>2, <2>4, AliveUntilTold
<1>10. ASSUME NEW d \in Object PROVE TermFor(d) \in P <=> d \in W
  BY <1>1, <1>9, CommandFacts
<1>11. \A y \in P : y \in Tree!Command /\ y[1] = "term"
  BY <1>1, <1>9, CommandFacts
<1>12. Within(s, r, K, P) /\ Carries(s, r, K, P)
  <2>1. \A u \in K, p \in Object : First(s, u) # PlugTo(p)
    BY <1>1, CommandFacts
  <2>2. ASSUME NEW y \in P PROVE Proper(r, y)
    <3>1. PICK c \in W : y = TermFor(c)
      BY <1>1
    <3>2. Alive(r, c) /\ c # Root /\ c \in Object
      BY <1>2, <1>9 DEF Alive
    <3> QED BY <3>1, <3>2, CommandFacts DEF Proper
  <2>3. \A c \in Object : r.terminating[c] => s.terminating[c] \/ (Alive(s, c) /\ Ready(s, c))
    BY <1>1, <1>6
  <2>4. \A c \in Object : s.terminating[c] => r.terminating[c]
    BY <1>6
  <2> QED BY <1>2, <1>7, <2>1, <2>2, <2>3, <2>4 DEF Within, Carries
<1>13. TreeBirth(r) /\ TreeCommands(r) /\ TreePlugged(r) /\ TreeThreads(r)
  BY <1>8, <1>12, WithinLaw
<1>14. \A d \in Object : InHand(r, d) <=> InHand(s, d)
  BY <1>2 DEF InHand, Launching
\* Who has been told.
<1>15. ASSUME NEW d \in W PROVE Hits(Box(r, d), {TermFor(d)}) = 1
  <2> DEFINE D == {TermFor(d)}
             x == TermFor(d)
  <2>1. d \in Object /\ d # o /\ Hits(Box(s, d), D) = 0
    BY <1>9 DEF TermsTo
  <2>2. x \in P /\ x[2] = d
    BY <1>10, <2>1, CommandFacts
  <2>3. P \intersect D = {x}
    BY <2>2
  <2>4. \A u \in K : First(s, u) \notin D
    BY <1>1, <2>1, CommandFacts
  <2>5. r.home = s.home /\ Moved(s, r, K, P) /\ TreeTypes(s)
    BY <1>2, <1>3
  <2> HIDE DEF D, x
  <2>6. Hits(Box(r, d), D) = Hits(Box(s, d), D) + 1
    BY <2>1, <2>2, <2>3, <2>4, <2>5, MoreHits
  <2>7. Hits(Box(r, d), D) = 1
    BY <2>1, <2>6
  <2> QED BY <2>7 DEF D
<1>16. ASSUME NEW d \in Object, d \notin W, d # o PROVE Hits(Box(r, d), {TermFor(d)}) = Hits(Box(s, d), {TermFor(d)})
  <2> DEFINE D == {TermFor(d)}
  <2>1. P \intersect D = {} /\ \A u \in K : First(s, u) \notin D
    BY <1>1, <1>10, <1>16, CommandFacts
  <2>2. r.home = s.home /\ Moved(s, r, K, P) /\ TreeTypes(s)
    BY <1>2, <1>3
  <2> HIDE DEF D
  <2> QED BY <2>1, <2>2, SameHits DEF D
<1>17. ASSUME o # Root PROVE Hits(Box(s, o), {TermFor(o)}) # 0 /\ Hits(Box(r, o), {TermFor(o)}) = Hits(Box(s, o), {TermFor(o)}) - 1
  <2> DEFINE D == {TermFor(o)}
  <2>1. P \intersect D = {} /\ s.home[o] \in K /\ First(s, s.home[o]) \in D
    BY <1>1, <1>9, <1>10, <1>17
  <2>2. r.home = s.home /\ Moved(s, r, K, P) /\ TreeTypes(s)
    BY <1>2, <1>3
  <2> HIDE DEF D
  <2>3. Hits(Box(s, o), D) \in Nat \ {0} /\ Hits(Box(r, o), D) = Hits(Box(s, o), D) - 1
    BY <2>1, <2>2, LessHits
  <2> QED BY <2>3 DEF D
<1>18. /\ \A d \in W : Told(r, d) /\ ~Told(s, d)
       /\ \A d \in Object : d \notin W /\ d # o => Told(r, d) = Told(s, d)
       /\ o # Root => Told(s, o)
       /\ Told(r, o)
  <2>1. \A d \in W : Told(r, d) /\ ~Told(s, d)
    BY <1>9, <1>15 DEF Told, TermsTo
  <2>2. \A d \in Object : d \notin W /\ d # o => Told(r, d) = Told(s, d)
    BY <1>6, <1>16 DEF Told
  <2>3. (o # Root => Told(s, o)) /\ Told(r, o)
    BY <1>6, <1>17 DEF Told
  <2> QED BY <2>1, <2>2, <2>3
<1>19. s.owner[Root] = None /\ None \notin Object /\ (s.owner[o] \in Object => s.owner[o] # o)
  BY TreeFacts, ChildFacts DEF TreeLaw, TreeBirth
<1>20. Termed(r, o) = Termed(s, o) \union W /\ Termed(s, o) \intersect W = {}
  <2>1. \A d \in W : d \notin Termed(s, o) /\ d \in Termed(r, o)
    BY <1>2, <1>9, <1>18 DEF Termed, Alive
  <2>2. \A d \in Object : d \notin W => (d \in Termed(r, o) <=> d \in Termed(s, o))
    <3> SUFFICES ASSUME NEW d \in Object, d \notin W PROVE d \in Termed(r, o) <=> d \in Termed(s, o)
      OBVIOUS
    <3>1. CASE d = o
      BY <1>2, <1>19, <3>1 DEF Termed
    <3>2. CASE d # o
      BY <1>2, <1>18, <3>2 DEF Termed, Alive
    <3> QED BY <3>1, <3>2
  <2>3. Termed(r, o) \subseteq Object /\ Termed(s, o) \subseteq Object
    BY DEF Termed
  <2> QED BY <1>4, <2>1, <2>2, <2>3
<1>21. ASSUME NEW q \in Object, q # o PROVE Termed(r, q) = Termed(s, q)
  <2>1. \A d \in Object : s.owner[d] = q => d \notin W /\ (d = o => o # Root)
    BY <1>9, <1>19, <1>21
  <2>2. \A d \in Object : s.owner[d] = q => Told(r, d) = Told(s, d)
    BY <1>18, <2>1 DEF Told
  <2> QED BY <1>2, <2>2 DEF Termed, Alive
<1>22. ASSUME NEW q \in Object PROVE Hits(Box(r, q), {AckTo(q)}) = Hits(Box(s, q), {AckTo(q)})
  <2> DEFINE D == {AckTo(q)}
  <2>1. P \intersect D = {} /\ \A u \in K : First(s, u) \notin D
    BY <1>1, <1>11, CommandFacts
  <2>2. r.home = s.home /\ Moved(s, r, K, P) /\ TreeTypes(s)
    BY <1>2, <1>3
  <2> HIDE DEF D
  <2> QED BY <2>1, <2>2, SameHits DEF D
<1>23. ASSUME NEW q \in Object PROVE AcksRight(s, q) /\ Hits(Box(s, q), {AckTo(q)}) \in Nat /\ IsFiniteSet(Termed(s, q)) /\ Cardinality(Termed(s, q)) \in Nat
  <2>1. Termed(s, q) \subseteq Object
    BY DEF Termed
  <2>2. Hits(Box(s, q), {AckTo(q)}) \in Nat
    BY <1>3, HitsOfBox
  <2> QED BY <2>1, <2>2, SetsOfObjects DEF TreeLaw, TreeCounts
<1>24. AcksRight(r, o)
  <2> DEFINE a == Cardinality(Termed(s, o))
             b == Cardinality(Termed(r, o))
             k == Cardinality(W)
             m == Hits(Box(s, o), {AckTo(o)})
             n == Hits(Box(r, o), {AckTo(o)})
  <2>1. b = a + k - Cardinality({})
    BY <1>4, <1>20, <1>23, FS_Union
  <2>2. a \in Nat /\ m \in Nat /\ k \in Nat /\ Cardinality({}) = 0 /\ n = m /\ s.acks[o] = a + m /\ r.acks[o] = s.acks[o] + k
    BY <1>4, <1>5, <1>22, <1>23, FS_EmptySet DEF AcksRight
  <2> HIDE DEF a, b, k, m, n
  <2>3. r.acks[o] = b + n
    BY <2>1, <2>2
  <2> QED BY <2>3 DEF AcksRight, b, n
<1>25. TreeCounts(r)
  <2>1. ASSUME NEW q \in Object, q # o PROVE AcksRight(r, q)
    BY <1>5, <1>21, <1>22, <1>23, <2>1 DEF AcksRight
  <2>2. ASSUME NEW q \in Object PROVE SentRight(r, q)
    <3>1. P \intersect Counted(q) = {}
      BY <1>11, CountedFacts, CommandFacts
    <3>2. \A u \in K : First(s, u) \notin Counted(q)
      BY <1>1, CountedFacts, CommandFacts
    <3>3. SentLeft(s, r, K, P, q)
      BY <1>2, <1>7, <3>1, <3>2 DEF SentLeft
    <3> QED BY <1>12, <3>3, SentKept
  <2> QED BY <1>24, <2>1, <2>2 DEF TreeCounts
<1>26. TreeStages(r)
  <2>1. ASSUME NEW d \in Object \ {Root}, Born(r, d) PROVE Stage(r, d) = 1
    <3>1. Born(s, d)
      BY <1>2, <2>1 DEF Born
    <3>2. s.owner[d] \in Object /\ Stage(s, d) = 1 /\ OnePlace(s, d)
      BY <3>1, OneStage DEF TreeLaw, TreeBirth, TreeStages
    <3>3. OwnsTo(r, d) = OwnsTo(s, d)
      <4> DEFINE D == {OwnTo(s.owner[d], d)}
      <4>1. P \intersect D = {} /\ \A u \in K : First(s, u) \notin D
        BY <1>1, <1>11, <3>2, CommandFacts
      <4>2. r.home = s.home /\ Moved(s, r, K, P) /\ TreeTypes(s)
        BY <1>2, <1>3
      <4> HIDE DEF D
      <4>3. Hits(Box(r, s.owner[d]), D) = Hits(Box(s, s.owner[d]), D)
        BY <3>2, <4>1, <4>2, SameHits
      <4> QED BY <1>2, <4>3 DEF D, OwnsTo
    <3>4. CASE d \in W
      <4>1. OwnsTo(r, d) = 0 /\ ~InHand(r, d) /\ d \notin r.owned[r.owner[d]] /\ ~r.terminating[d]
        BY <1>2, <1>6, <1>9, <1>14, <3>3, <3>4
      <4>2. Hits(Box(r, d), {TermFor(d)}) = 1
        BY <1>15, <3>4
      <4> QED BY <4>1, <4>2 DEF Stage, OwnsTo
    <3>5. CASE d = o
      <4>1. TermsTo(s, o) # 0 /\ Hits(Box(r, o), {TermFor(o)}) = TermsTo(s, o) - 1
        BY <1>17, <3>5 DEF TermsTo
      <4>2. TermsTo(s, o) = 1 /\ ~InHand(s, o) /\ OwnsTo(s, o) = 0 /\ o \notin s.owned[s.owner[o]]
        BY <3>2, <3>5, <4>1 DEF OnePlace
      <4>3. o \notin r.owned[r.owner[o]]
        BY <1>2, <1>6, <1>19, <3>2, <3>5, <4>2
      <4>4. OwnsTo(r, d) = 0 /\ ~InHand(r, d) /\ d \notin r.owned[r.owner[d]] /\ r.terminating[d] /\ Hits(Box(r, d), {TermFor(d)}) = 0
        BY <1>6, <1>14, <3>3, <3>5, <4>1, <4>2, <4>3
      <4> QED BY <4>4 DEF Stage, OwnsTo
    <3>6. ASSUME d \notin W, d # o PROVE Stage(r, d) = 1
      <4>1. d \in r.owned[s.owner[d]] <=> d \in s.owned[s.owner[d]]
        <5>1. CASE s.owner[d] = o
          BY <1>6, <3>6, <5>1 DEF W
        <5>2. CASE s.owner[d] # o
          BY <1>6, <3>2, <5>2
        <5> QED BY <5>1, <5>2
      <4>2. OwnTo(s.owner[d], d) \notin P /\ TermFor(d) \notin P
        BY <1>10, <1>11, <3>2, <3>6, CommandFacts
      <4>3. \A u \in K : First(s, u) # OwnTo(s.owner[d], d) /\ First(s, u) # TermFor(d)
        BY <1>1, <3>2, <3>6, CommandFacts
      <4>4. StageLeft(s, r, K, P, d)
        BY <1>2, <1>6, <1>14, <3>2, <3>6, <4>1, <4>2, <4>3 DEF StageLeft
      <4> QED BY <1>12, <3>2, <4>4, StageKept
    <3> QED BY <3>4, <3>5, <3>6
  <2>2. \A p \in Object : \A d \in s.owned[p] : d # Root /\ s.owner[d] = p
    BY DEF TreeLaw, TreeStages
  <2>3. \A p \in Object : s.terminating[p] => s.owned[p] = {}
    BY DEF TreeLaw, TreeStages
  <2>4. \A p \in Object : \A d \in r.owned[p] : d # Root /\ r.owner[d] = p
    BY <1>2, <1>6, <2>2
  <2>5. \A p \in Object : r.terminating[p] => r.owned[p] = {}
    BY <1>6, <2>3
  <2> QED BY <2>1, <2>4, <2>5 DEF TreeStages
<1>27. TreeEnds(r)
  <2>1. \A p \in Object : Over(s, p) => p # o
    BY <1>1 DEF Over, Alive
  <2>2. \A p \in Object : Over(r, p) => r.terminating[p] /\ r.sent[p] = r.processed[p]
    BY <1>2, <1>6, <1>7, <2>1 DEF TreeLaw, TreeEnds, Over
  <2>3. r.endpoint => Alive(r, Root) /\ ~r.terminating[Root]
    BY <1>2, <1>6, <1>7, TreeFacts DEF TreeLaw, TreeEnds, Alive
  <2> QED BY <1>2, <2>2, <2>3 DEF TreeLaw, TreeEnds, Over
<1> QED BY <1>8, <1>13, <1>25, <1>26, <1>27 DEF TreeLaw

(***************************************************************************)
(* An object that is done: nothing is under way to it, and its children    *)
(* are done before it.                                                     *)
(***************************************************************************)
Done(s, o) == Alive(s, o) /\ Ready(s, o) /\ s.terminating[o] /\ s.sent[o] = s.processed[o] /\ s.acks[o] = 0
Settled(s, o) ==
  /\ \A t \in Thread : \A i \in 1..Len(s.inbox[t]) : s.inbox[t][i][2] # o
  /\ \A t \in Thread, c \in Object : ~Launching(s, t, o, c)
  /\ \A c \in Object : s.owner[c] = o => Over(s, c)
  /\ Termed(s, o) = {}

LEMMA DoneSettled ==
  ASSUME NEW s, TreeLaw(s), NEW o \in Object, Done(s, o)
  PROVE  Settled(s, o)
<1>1. TreeTypes(s) /\ Alive(s, o) /\ Ready(s, o) /\ s.terminating[o] /\ s.sent[o] = s.processed[o] /\ s.acks[o] = 0
  BY DEF TreeLaw, Done
<1>2. Hits(Box(s, o), Counted(o)) = 0
  <2> DEFINE n == Hits(Box(s, o), Counted(o))
             k == IF o = Root THEN s.promised ELSE 0
  <2>1. n \in Nat /\ k \in Nat /\ s.processed[o] \in Nat /\ s.sent[o] = s.processed[o] + n + k
    BY <1>1, HitsOfBox DEF TreeLaw, TreeCounts, SentRight, TreeTypes
  <2> HIDE DEF n, k
  <2>2. n = 0
    BY <1>1, <2>1
  <2> QED BY <2>2 DEF n
<1>3. Hits(Box(s, o), {AckTo(o)}) = 0 /\ Termed(s, o) = {}
  <2> DEFINE n == Hits(Box(s, o), {AckTo(o)})
             k == Cardinality(Termed(s, o))
  <2>1. n \in Nat
    BY <1>1, HitsOfBox
  <2>2. Termed(s, o) \subseteq Object
    BY DEF Termed
  <2>3. k \in Nat /\ (k = 0 => Termed(s, o) = {})
    BY <2>2, SetsOfObjects
  <2>4. s.acks[o] = k + n
    BY DEF TreeLaw, TreeCounts, AcksRight
  <2> HIDE DEF n, k
  <2>5. n = 0 /\ k = 0
    BY <1>1, <2>1, <2>3, <2>4
  <2> QED BY <2>3, <2>5 DEF n
<1>4. ASSUME NEW c \in Object, s.owner[c] = o, Alive(s, c) PROVE ~Told(s, c)
  BY <1>3, <1>4 DEF Termed
<1>5. s.owned[o] = {}
  BY <1>1 DEF TreeLaw, TreeStages
\* A child that has not been told is announced by a thread.
<1>6. ASSUME NEW c \in Object, s.owner[c] = o, Alive(s, c) PROVE InHand(s, c)
  <2>1. c # Root /\ Born(s, c) /\ OnePlace(s, c)
    <3>1. c # Root /\ Born(s, c)
      BY <1>6, ChildFacts
    <3> QED BY <3>1, OneStage
  <2>2. ~s.terminating[c] /\ TermsTo(s, c) = 0
    BY <1>4, <1>6 DEF Told, TermsTo
  <2>3. OwnsTo(s, c) = 0
    <3> DEFINE D == {OwnTo(o, c)}
               C == Counted(o)
               q == Box(s, o)
    <3>1. q \in Seq(Tree!Command)
      BY <1>1, HitsOfBox
    <3>2. OwnTo(o, c) \in C
      BY CountedFacts
    <3>3. D \subseteq C
      BY <3>2
    <3> HIDE DEF D, C, q
    <3>4. Hits(q, C) = 0
      BY <1>2 DEF q, C
    <3>5. \A j \in DOMAIN q : q[j] \notin C
      BY <3>1, <3>4, HitsType
    <3>6. Hits(q, D) = 0
      BY <3>1, <3>3, <3>5, HitsType
    <3> QED BY <1>6, <3>6 DEF OwnsTo, D, q
  <2> QED BY <1>5, <1>6, <2>1, <2>2, <2>3 DEF OnePlace
<1>7. \A t \in Thread, c \in Object : ~Launching(s, t, o, c)
  <2> DEFINE S == {t \in Thread : \E c \in Object : Launching(s, t, o, c)}
  <2>1. S = {}
    <3> SUFFICES ASSUME S # {} PROVE FALSE
      OBVIOUS
    <3>1. S \in SUBSET Thread /\ \A t \in S : \E c \in Object : Launching(s, t, o, c)
      OBVIOUS
    <3>2. \A e \in Object : s.owner[e] = o => (InHand(s, e) => \E u \in S : Launching(s, u, o, e))
      BY DEF InHand
    <3> HIDE DEF S
    <3>3. PICK t \in S, e \in Object : Launcher(s, S, t, o, e)
      <4>1. \A Z \in SUBSET Thread, p \in Object : Z # {} /\ (\A u \in Z : \E c \in Object : Launching(s, u, p, c))
              => \E u \in Z, e \in Object : Launcher(s, Z, u, p, e)
        BY Zenon DEF TreeLaw, TreeThreads
      <4> QED BY <3>1, <4>1
    <3>4. s.home[e] = t /\ Alive(s, e) /\ (e = o \/ (s.owner[e] = o /\ \A u \in S : ~Launching(s, u, o, e)))
      BY <3>3 DEF Launcher
    <3>5. CASE e = o
      <4>1. PICK c \in Object : s.doing[t] = <<"launching", OwnTo(o, c)>>
        BY <3>1 DEF Launching
      <4> QED BY <1>1, <3>4, <3>5, <4>1 DEF Ready, Tree!Nothing
    <3>6. CASE e # o
      BY <1>6, <3>2, <3>4, <3>6
    <3> QED BY <3>5, <3>6
  <2> QED BY <2>1
<1>8. ASSUME NEW c \in Object, s.owner[c] = o PROVE Over(s, c)
  <2>1. ~InHand(s, c)
    BY <1>7, <1>8 DEF InHand
  <2>2. ~Alive(s, c)
    BY <1>6, <1>8, <2>1
  <2>3. Born(s, c)
    BY <1>8, ChildFacts
  <2> QED BY <1>1, <2>2, <2>3 DEF TreeTypes, Alive, Born, Over
<1>9. ASSUME NEW t \in Thread, NEW i \in 1..Len(s.inbox[t]) PROVE s.inbox[t][i][2] # o
  <2> SUFFICES ASSUME s.inbox[t][i][2] = o PROVE FALSE
    OBVIOUS
  <2> DEFINE x == s.inbox[t][i]
             q == s.inbox[t]
  <2>1. CommandSound(s, t, i)
    BY DEF TreeLaw, TreeCommands
  <2>2. s.home[o] = t /\ q = Box(s, o)
    BY <2>1 DEF CommandSound, Box
  <2>3. q \in Seq(Tree!Command) /\ x \in Tree!Command
    BY <1>1 DEF TreeTypes
  <2>4. \A D : x \in D => Hits(Box(s, o), D) # 0
    BY <1>1, <2>2, HitsOfBox
  <2>5. x \notin Counted(o) /\ x # AckTo(o)
    BY <1>2, <1>3, <2>4
  <2>6. /\ x[1] \in {"own", "term_req"} => x[3] \in Object \ {Root} /\ s.owner[x[3]] = o
        /\ x[1] = "term" => o # Root
        /\ x[1] \in {"plug", "bind", "term", "term_ack"} => x[3] = None
        /\ x[1] = "term_req" => Alive(s, x[3]) \/ \E j \in i + 1..Len(q) : q[j] = AckTo(o)
    BY <2>1 DEF CommandSound
  <2> HIDE DEF q, x
  <2>7. x[1] \in {"plug", "own", "term_req", "term", "term_ack", "bind"} /\ x = <<x[1], o, x[3]>>
    <3>1. x[2] = o
      BY DEF x
    <3> QED BY <2>3, <3>1, CommandFacts
  <2>8. x[1] \notin {"plug", "bind"}
    <3>1. PlugTo(o) \in Counted(o) /\ BindTo(o) \in Counted(o)
      BY CountedFacts
    <3>2. x[1] \in {"plug", "bind"} => x = <<x[1], o, None>>
      BY <2>6, <2>7
    <3> QED BY <2>5, <3>1, <3>2 DEF PlugTo, BindTo
  <2>9. x[1] # "own"
    <3>1. ASSUME x[1] = "own" PROVE x \in Counted(o)
      <4>1. x[3] \in Object /\ x[2] = o
        BY <2>6, <3>1 DEF x
      <4> QED BY <2>3, <3>1, <4>1, CountedFacts
    <3> QED BY <2>5, <3>1
  <2>10. x[1] # "term_ack"
    BY <2>5, <2>6, <2>7 DEF AckTo
  <2>11. x[1] # "term"
    <3>1. ASSUME x[1] = "term" PROVE FALSE
      <4>1. x = TermFor(o)
        BY <2>6, <2>7, <3>1 DEF TermFor
      <4>2. TermsTo(s, o) # 0
        BY <2>4, <4>1 DEF TermsTo
      <4>3. OnePlace(s, o)
        <5>1. Born(s, o) /\ o # Root
          BY <1>1, <2>6, <3>1 DEF Born, Alive
        <5> QED BY <5>1, OneStage
      <4> QED BY <1>1, <4>2, <4>3 DEF OnePlace
    <3> QED BY <3>1
  <2>12. x[1] # "term_req"
    <3>1. ASSUME x[1] = "term_req" PROVE FALSE
      <4>1. x[3] \in Object /\ s.owner[x[3]] = o
        BY <2>6, <3>1
      <4>2. ~Alive(s, x[3])
        BY <1>8, <4>1 DEF Over, Alive
      <4>3. PICK j \in i + 1..Len(q) : q[j] = AckTo(o)
        BY <2>6, <3>1, <4>2
      <4>4. j \in 1..Len(q)
        <5>1. Len(q) \in Nat /\ i \in 1..Len(q)
          BY <2>3 DEF q
        <5> QED BY <5>1
      <4> QED BY <1>1, <1>3, <2>2, <4>3, <4>4, HitsOfBox DEF q
    <3> QED BY <3>1
  <2> QED BY <2>7, <2>8, <2>9, <2>10, <2>11, <2>12
<1> QED BY <1>3, <1>7, <1>8, <1>9 DEF Settled

\* check_term_acks of an object that is done: it goes, and acknowledges.
LeavesWith(s, r, o, P) ==
  /\ r.home = s.home /\ r.named = s.named /\ r.owner = s.owner /\ r.owned = s.owned /\ r.plugged = s.plugged
  /\ r.terminating = s.terminating /\ r.acks = s.acks /\ r.sent = s.sent /\ r.processed = s.processed
  /\ r.endpoint = s.endpoint /\ r.promised = s.promised
  /\ r.phase = [s.phase EXCEPT ![o] = "leaving"]
  /\ r.doing = [s.doing EXCEPT ![s.home[o]] = <<"deleting", o>>]
  /\ \A y : y \in P <=> s.owner[o] # None /\ y = AckTo(s.owner[o])

LEMMA DoneLaw ==
  ASSUME NEW s, NEW r, TreeLaw(s), NEW o \in Object, NEW K, NEW P, \A u : u \notin K, Done(s, o), Moved(s, r, K, P), LeavesWith(s, r, o, P)
  PROVE  TreeLaw(r)
<1>1. /\ TreeTypes(s) /\ Alive(s, o) /\ Ready(s, o) /\ s.terminating[o] /\ s.sent[o] = s.processed[o]
      /\ r.inbox \in [Thread -> Seq(Tree!Command)]
  BY DEF TreeLaw, Done, Moved
<1>2. Settled(s, o)
  BY DoneSettled
<1>3. /\ r.home = s.home /\ r.named = s.named /\ r.owner = s.owner /\ r.owned = s.owned /\ r.plugged = s.plugged
      /\ r.terminating = s.terminating /\ r.acks = s.acks /\ r.sent = s.sent /\ r.processed = s.processed
      /\ r.endpoint = s.endpoint /\ r.promised = s.promised
      /\ \A y : y \in P <=> s.owner[o] # None /\ y = AckTo(s.owner[o])
  BY DEF LeavesWith
<1> DEFINE t == s.home[o]
<1>4. t \in Thread /\ s.doing[t] = Tree!Nothing
  BY <1>1 DEF TreeTypes, Ready
<1>5. /\ r.phase \in [Object -> {"unborn", "alive", "leaving", "gone"}] /\ r.phase[o] = "leaving"
      /\ \A c \in Object : c # o => r.phase[c] = s.phase[c]
  BY <1>1 DEF LeavesWith, TreeTypes
<1>6. /\ r.doing \in [Thread -> Doing] /\ r.doing[t] = <<"deleting", o>>
      /\ \A u \in Thread : u # t => r.doing[u] = s.doing[u]
  <2>1. <<"deleting", o>> \in Doing
    BY DEF Doing
  <2>2. r.doing = [s.doing EXCEPT ![t] = <<"deleting", o>>] /\ s.doing \in [Thread -> Doing]
    BY <1>1 DEF LeavesWith, TreeTypes
  <2> HIDE DEF t
  <2> QED BY <1>4, <2>1, <2>2
<1>7. TreeTypes(r)
  BY <1>1, <1>3, <1>5, <1>6 DEF TreeTypes
<1>8. \A u \in Thread, p, c \in Object : Launching(r, u, p, c) <=> Launching(s, u, p, c)
  <2>1. \A p, c \in Object : ~Launching(r, t, p, c) /\ ~Launching(s, t, p, c)
    BY <1>4, <1>6 DEF Launching, Tree!Nothing
  <2> QED BY <1>6, <2>1 DEF Launching
<1> HIDE DEF t
<1>9. \A c \in Object : (Born(r, c) <=> Born(s, c)) /\ (Alive(r, c) <=> Alive(s, c) /\ c # o) /\ (Over(r, c) <=> Over(s, c) \/ c = o)
  BY <1>1, <1>5 DEF Born, Alive, Over
<1>10. s.owner[o] # None => s.owner[o] \in Object /\ Alive(s, s.owner[o]) /\ s.owner[o] # o
  <2> SUFFICES ASSUME s.owner[o] # None PROVE s.owner[o] \in Object /\ Alive(s, s.owner[o]) /\ s.owner[o] # o
    OBVIOUS
  <2>1. s.owner[o] \in Object
    BY <1>1 DEF TreeTypes
  <2>2. Born(s, s.owner[o]) /\ s.owner[o] # o
    BY <2>1, ChildFacts
  <2>3. ~Over(s, s.owner[o])
    <3>1. ~Over(s, o)
      BY <1>1 DEF Over, Alive
    <3> QED BY <2>1, <3>1 DEF TreeLaw, TreeEnds
  <2> QED BY <1>1, <2>1, <2>2, <2>3 DEF TreeTypes, Born, Over, Alive
<1>11. Carries(s, r, K, P)
  <2>1. ASSUME NEW y \in P PROVE Proper(r, y)
    <3>1. y = AckTo(s.owner[o]) /\ s.owner[o] \in Object /\ Alive(r, s.owner[o])
      BY <1>3, <1>9, <1>10
    <3> QED BY <3>1, CommandFacts DEF Proper
  <2> QED BY <1>3, <2>1 DEF Carries
<1>12. TreeBirth(r)
  <2>1. TreeBirth(s)
    BY DEF TreeLaw
  <2>2. /\ r.owner[Root] = None /\ Born(r, Root)
        /\ \A c \in Object \ {Root} : Born(r, c) => r.owner[c] \in Object
        /\ \A c \in Object : ~Born(r, c) => r.owner[c] = None /\ ~r.terminating[c]
        /\ \A c \in Object : r.owner[c] \in Object => Born(r, r.owner[c])
        /\ \A c \in r.named : r.owner[c] # Root
    BY <1>3, <1>9, <2>1, TreeFacts DEF TreeBirth
  <2>3. \A S \in SUBSET (Object \ {Root}) : S # {} /\ (\A c \in S : r.owner[c] \in Object) => \E c \in S : r.owner[c] \notin S
    BY <1>3, <2>1 DEF TreeBirth
  <2> QED BY <2>2, <2>3 DEF TreeBirth
<1>13. TreeCommands(r)
  <2>1. \A u \in Thread : \A i \in 1..Len(s.inbox[u]) : Alive(r, s.inbox[u][i][2])
    <3> SUFFICES ASSUME NEW u \in Thread, NEW i \in 1..Len(s.inbox[u]) PROVE Alive(r, s.inbox[u][i][2])
      OBVIOUS
    <3>1. Alive(s, s.inbox[u][i][2])
      BY DEF TreeLaw, TreeCommands, CommandSound
    <3>2. s.inbox[u][i][2] # o
      BY <1>2 DEF Settled
    <3>3. s.inbox[u][i][2] \in Object
      <4>1. s.inbox[u] \in Seq(Tree!Command)
        BY <1>1 DEF TreeTypes
      <4>2. s.inbox[u][i] \in Tree!Command
        BY <4>1
      <4> QED BY <4>2, CommandFacts
    <3> QED BY <1>9, <3>1, <3>2, <3>3
  <2>2. \A c \in Object : s.owner[c] \in Object /\ Alive(s, c) => Alive(r, c) \/ AckTo(s.owner[c]) \in P
    BY <1>3, <1>9, TreeFacts
  <2>3. ASSUME NEW y \in P PROVE y[1] = "plug" \/ r.plugged[y[2]] \/ Hits(Box(s, y[2]), {PlugTo(y[2])}) # 0
    <3>1. y[2] = s.owner[o] /\ s.owner[o] \in Object /\ Born(s, s.owner[o])
      BY <1>3, <1>10, CommandFacts DEF Born, Alive
    <3> QED BY <1>3, <3>1 DEF TreeLaw, TreePlugged
  <2>4. TreeCommands(s)
    BY DEF TreeLaw
  <2> QED BY <1>1, <1>7, <1>11, <2>1, <2>2, <2>3, <2>4, CommandsMoved
<1>14. TreePlugged(r)
  <2>1. \A c \in Object : Born(r, c) => Born(s, c) \/ PlugTo(c) \in P
    BY <1>9
  <2>2. TreePlugged(s)
    BY DEF TreeLaw
  <2> QED BY <1>1, <1>11, <2>1, <2>2, PluggedMoved
<1>15. TreeThreads(r)
  <2>0. /\ \A u \in Thread, p, c \in Object : Launching(s, u, p, c) => c # Root /\ s.owner[c] = p /\ Alive(s, p)
        /\ \A u, v \in Thread, p, q, c \in Object : Launching(s, u, p, c) /\ Launching(s, v, q, c) => u = v
        /\ \A u \in Thread, c \in Object : s.doing[u] = <<"deleting", c>> => s.home[c] = u /\ s.phase[c] = "leaving"
        /\ \A c \in Object : s.phase[c] = "leaving" => s.doing[s.home[c]] = <<"deleting", c>>
        /\ \A S \in SUBSET Thread, p \in Object : S # {} /\ (\A u \in S : \E c \in Object : Launching(s, u, p, c))
             => \E u \in S, e \in Object : Launcher(s, S, u, p, e)
    BY Zenon DEF TreeLaw, TreeThreads
  <2>1. \A u \in Thread, p, c \in Object : Launching(r, u, p, c) => c # Root /\ r.owner[c] = p /\ Alive(r, p)
    BY <1>2, <1>3, <1>8, <1>9, <2>0 DEF Settled
  <2>2. \A u, v \in Thread, p, q, c \in Object : Launching(r, u, p, c) /\ Launching(r, v, q, c) => u = v
    BY <1>8, <2>0
  <2>3. \A u \in Thread, c \in Object : r.doing[u] = <<"deleting", c>> => r.home[c] = u /\ r.phase[c] = "leaving"
    <3> SUFFICES ASSUME NEW u \in Thread, NEW c \in Object, r.doing[u] = <<"deleting", c>> PROVE r.home[c] = u /\ r.phase[c] = "leaving"
      OBVIOUS
    <3>1. CASE u = t
      <4>1. c = o
        BY <1>6, <3>1
      <4> QED BY <1>3, <1>5, <3>1, <4>1 DEF t
    <3>2. CASE u # t
      <4>1. s.home[c] = u /\ s.phase[c] = "leaving"
        BY <1>6, <2>0, <3>2
      <4>2. c # o
        BY <3>2, <4>1 DEF t
      <4> QED BY <1>3, <1>5, <4>1, <4>2
    <3> QED BY <3>1, <3>2
  <2>4. \A c \in Object : r.phase[c] = "leaving" => r.doing[r.home[c]] = <<"deleting", c>>
    <3> SUFFICES ASSUME NEW c \in Object, r.phase[c] = "leaving" PROVE r.doing[r.home[c]] = <<"deleting", c>>
      OBVIOUS
    <3>1. CASE c = o
      BY <1>3, <1>6, <3>1 DEF t
    <3>2. CASE c # o
      <4>1. s.doing[s.home[c]] = <<"deleting", c>> /\ s.home[c] \in Thread
        BY <1>1, <1>5, <2>0, <3>2 DEF TreeTypes
      <4>2. s.home[c] # t
        BY <1>4, <4>1 DEF Tree!Nothing
      <4> QED BY <1>3, <1>6, <4>1, <4>2
    <3> QED BY <3>1, <3>2
  <2>5. ASSUME NEW S \in SUBSET Thread, NEW p \in Object, S # {}, \A u \in S : \E c \in Object : Launching(r, u, p, c)
        PROVE  \E u \in S, e \in Object : Launcher(r, S, u, p, e)
    <3>1. \A u \in S : \E c \in Object : Launching(s, u, p, c)
      BY <1>8, <2>5
    <3>2. PICK u \in S, e \in Object : Launcher(s, S, u, p, e)
      BY <2>0, <2>5, <3>1
    <3>3. e # o
      <4>1. PICK c \in Object : s.doing[u] = <<"launching", OwnTo(p, c)>>
        BY <3>1 DEF Launching
      <4>2. s.home[e] = u
        BY <3>2 DEF Launcher
      <4>3. u # t
        BY <1>4, <4>1 DEF Tree!Nothing
      <4> QED BY <4>2, <4>3 DEF t
    <3>4. \A v \in S : Launching(r, v, p, e) <=> Launching(s, v, p, e)
      BY <1>8
    <3>5. Launcher(r, S, u, p, e)
      BY <1>3, <1>9, <3>2, <3>3, <3>4 DEF Launcher
    <3> QED BY <3>5
  <2> QED BY <2>1, <2>2, <2>3, <2>4, <2>5 DEF TreeThreads
<1>16. \A d \in Object : InHand(r, d) <=> InHand(s, d)
  <2> SUFFICES ASSUME NEW d \in Object PROVE InHand(r, d) <=> InHand(s, d)
    OBVIOUS
  <2>1. CASE s.owner[d] \in Object
    BY <1>3, <1>8, <2>1 DEF InHand
  <2>2. CASE s.owner[d] = None
    <3>1. \A u \in Thread : ~Launching(s, u, None, d) /\ ~Launching(r, u, None, d)
      <4>1. \A u \in Thread : s.doing[u] \in Doing /\ r.doing[u] \in Doing
        BY <1>1, <1>6 DEF TreeTypes
      <4>2. <<"launching", OwnTo(None, d)>> \notin Doing
        BY TreeFacts DEF Doing, OwnTo, Tree!Nothing
      <4> QED BY <4>1, <4>2 DEF Launching
    <3> QED BY <1>3, <2>2, <3>1 DEF InHand
  <2> QED BY <1>1, <2>1, <2>2 DEF TreeTypes
<1>17. TreeStages(r)
  <2>1. ASSUME NEW d \in Object \ {Root}, Born(r, d) PROVE Stage(r, d) = 1
    <3>1. Born(s, d)
      BY <1>9, <2>1
    <3>2. s.owner[d] \in Object /\ Stage(s, d) = 1
      BY <3>1 DEF TreeLaw, TreeBirth, TreeStages
    <3>3. OwnTo(s.owner[d], d) \notin P /\ TermFor(d) \notin P
      BY <1>3, <1>10, <3>2, CommandFacts
    <3>4. StageLeft(s, r, K, P, d)
      BY <1>3, <1>16, <3>2, <3>3 DEF StageLeft
    <3> QED BY <1>11, <3>2, <3>4, StageKept
  <2> QED BY <1>3, <2>1 DEF TreeLaw, TreeStages
<1>18. ASSUME NEW d \in Object PROVE Told(r, d) = Told(s, d)
  <2> DEFINE D == {TermFor(d)}
  <2>1. P \intersect D = {}
    BY <1>3, <1>10, CommandFacts
  <2>2. r.home = s.home /\ Moved(s, r, K, P) /\ TreeTypes(s)
    BY <1>1, <1>3
  <2> HIDE DEF D
  <2>3. Hits(Box(r, d), D) = Hits(Box(s, d), D)
    BY <2>1, <2>2, SameHits
  <2> QED BY <1>3, <2>3 DEF Told, D
<1>19. ASSUME NEW q \in Object, s.owner[o] # q PROVE AcksRight(r, q)
  <2>1. Termed(r, q) = Termed(s, q)
    BY <1>3, <1>9, <1>18, <1>19 DEF Termed
  <2>2. AckTo(q) \notin P
    BY <1>3, <1>10, <1>19, CommandFacts
  <2>3. AcksLeft(s, r, K, P, q)
    BY <1>3, <2>1, <2>2 DEF AcksLeft
  <2> QED BY <1>11, <2>3, AcksKept
<1>20. ASSUME NEW q \in Object, s.owner[o] = q PROVE AcksRight(r, q)
  <2> DEFINE D == {AckTo(q)}
             x == AckTo(q)
             a == Cardinality(Termed(s, q))
             b == Cardinality(Termed(r, q))
             m == Hits(Box(s, q), D)
             n == Hits(Box(r, q), D)
  <2>1. x \in P /\ P \intersect D = {x} /\ x[2] = q
    BY <1>3, <1>20, TreeFacts, CommandFacts
  <2>2. o \in Termed(s, q) /\ Termed(r, q) = Termed(s, q) \ {o}
    BY <1>1, <1>3, <1>9, <1>18, <1>20 DEF Termed, Told
  <2>3. IsFiniteSet(Termed(s, q)) /\ a \in Nat
    <3>1. Termed(s, q) \subseteq Object
      BY DEF Termed
    <3> QED BY <3>1, SetsOfObjects
  <2>4. b = a - 1
    BY <2>2, <2>3, FS_RemoveElement
  <2>5. r.home = s.home /\ Moved(s, r, K, P) /\ TreeTypes(s)
    BY <1>1, <1>3
  <2>6. m \in Nat
    BY <2>5, HitsOfBox
  <2>7. s.acks[q] = a + m
    BY DEF TreeLaw, TreeCounts, AcksRight
  <2> HIDE DEF D, x, a, b
  <2>8. n = m + 1
    BY <2>1, <2>5, MoreHits
  <2> HIDE DEF m, n
  <2>9. r.acks[q] = b + n
    BY <1>3, <2>3, <2>4, <2>6, <2>7, <2>8
  <2> QED BY <2>9 DEF AcksRight, b, n, D
<1>21. ASSUME NEW q \in Object PROVE SentRight(r, q)
  <2>1. P \intersect Counted(q) = {}
    BY <1>3, <1>10, CountedFacts, CommandFacts
  <2>2. SentLeft(s, r, K, P, q)
    BY <1>3, <2>1 DEF SentLeft
  <2> QED BY <1>11, <2>2, SentKept
<1>22. TreeCounts(r)
  BY <1>19, <1>20, <1>21 DEF TreeCounts
<1>23. TreeEnds(r)
  <2>0. /\ \A c \in Object : Over(s, c) => s.terminating[c] /\ s.sent[c] = s.processed[c]
        /\ \A q, c \in Object : s.owner[c] = q /\ Over(s, q) => Over(s, c)
        /\ \A q \in Object \ {Root}, c \in Object :
             s.owner[c] = q /\ Over(s, q) /\ (\A a, b \in Object \ {Root} : s.home[a] = s.home[b]) => s.phase[c] = "gone"
        /\ s.endpoint => Alive(s, Root) /\ ~s.terminating[Root]
    BY DEF TreeLaw, TreeEnds
  <2>1. \A c \in Object : Over(r, c) => r.terminating[c] /\ r.sent[c] = r.processed[c]
    BY <1>1, <1>3, <1>9, <2>0
  <2>2. \A q, c \in Object : r.owner[c] = q /\ Over(r, q) => Over(r, c)
    BY <1>2, <1>3, <1>9, <2>0 DEF Settled
  <2>3. ASSUME NEW q \in Object \ {Root}, NEW c \in Object, r.owner[c] = q, Over(r, q), \A a, b \in Object \ {Root} : r.home[a] = r.home[b]
        PROVE  r.phase[c] = "gone"
    <3>1. c # Root /\ s.owner[c] = q
      BY <1>3, <2>3, ChildFacts
    <3>2. CASE q = o
      <4>1. Over(s, c)
        BY <1>2, <3>1, <3>2 DEF Settled
      <4>2. c # o
        BY <1>1, <4>1 DEF Over, Alive
      <4>3. s.home[c] = t
        BY <1>3, <2>3, <3>1, <3>2 DEF t
      <4>4. s.phase[c] # "leaving"
        <5>1. s.phase[c] = "leaving" => s.doing[s.home[c]] = <<"deleting", c>>
          BY Zenon DEF TreeLaw, TreeThreads
        <5> QED BY <1>4, <4>3, <5>1 DEF Tree!Nothing
      <4> QED BY <1>5, <4>1, <4>2, <4>4 DEF Over
    <3>3. CASE q # o
      <4>1. s.phase[c] = "gone"
        BY <1>3, <1>9, <2>0, <2>3, <3>1, <3>3
      <4>2. c # o
        BY <1>1, <4>1 DEF Alive
      <4> QED BY <1>5, <4>1, <4>2
    <3> QED BY <3>2, <3>3
  <2>4. r.endpoint => Alive(r, Root) /\ ~r.terminating[Root]
    BY <1>1, <1>3, <1>9, <2>0, TreeFacts
  <2> QED BY <2>1, <2>2, <2>3, <2>4 DEF TreeEnds
<1> QED BY <1>7, <1>12, <1>13, <1>14, <1>15, <1>17, <1>22, <1>23 DEF TreeLaw

(***************************************************************************)
(* Launching and deleting.                                                 *)
(***************************************************************************)
LEMMA ThreadFacts ==
  ASSUME NEW s, TreeLaw(s)
  PROVE  /\ \A u \in Thread, p, c \in Object : Launching(s, u, p, c) => c # Root /\ s.owner[c] = p /\ Alive(s, p)
         /\ \A u, v \in Thread, p, q, c \in Object : Launching(s, u, p, c) /\ Launching(s, v, q, c) => u = v
         /\ \A u \in Thread, c \in Object : s.doing[u] = <<"deleting", c>> => s.home[c] = u /\ s.phase[c] = "leaving"
         /\ \A c \in Object : s.phase[c] = "leaving" => s.doing[s.home[c]] = <<"deleting", c>>
         /\ \A S \in SUBSET Thread, p \in Object : S # {} /\ (\A u \in S : \E c \in Object : Launching(s, u, p, c))
              => \E u \in S, e \in Object : Launcher(s, S, u, p, e)
BY Zenon DEF TreeLaw, TreeThreads

Launches(s, r, o, p, c, P) ==
  /\ r.home = s.home /\ r.named = s.named /\ r.owned = s.owned /\ r.plugged = s.plugged
  /\ r.terminating = s.terminating /\ r.acks = s.acks /\ r.processed = s.processed
  /\ r.endpoint = s.endpoint /\ r.promised = s.promised
  /\ Alive(s, o) /\ Ready(s, o) /\ s.phase[c] = "unborn"
  /\ p = o \/ (s.owner[o] = p /\ ~s.terminating[o])
  /\ c \in s.named => p # Root
  /\ PlugTo(c) \in P /\ \A y \in P : y = PlugTo(c)
  /\ r.phase = [s.phase EXCEPT ![c] = "alive"] /\ r.owner = [s.owner EXCEPT ![c] = p]
  /\ r.sent = [s.sent EXCEPT ![c] = @ + 1]
  /\ r.doing = [s.doing EXCEPT ![s.home[o]] = <<"launching", OwnTo(p, c)>>]

LEMMA LaunchLaw ==
  ASSUME NEW s, NEW r, TreeLaw(s), NEW o \in Object, NEW p \in Object, NEW c \in Object, NEW K, NEW P, \A u : u \notin K,
         Moved(s, r, K, P), Launches(s, r, o, p, c, P)
  PROVE  TreeLaw(r)
<1> DEFINE t == s.home[o]
<1>1. /\ r.home = s.home /\ r.named = s.named /\ r.owned = s.owned /\ r.plugged = s.plugged
      /\ r.terminating = s.terminating /\ r.acks = s.acks /\ r.processed = s.processed
      /\ r.endpoint = s.endpoint /\ r.promised = s.promised
      /\ Alive(s, o) /\ Ready(s, o) /\ s.phase[c] = "unborn"
      /\ p = o \/ (s.owner[o] = p /\ ~s.terminating[o])
      /\ c \in s.named => p # Root
      /\ PlugTo(c) \in P /\ \A y \in P : y = PlugTo(c)
  BY DEF Launches
<1>2. TreeTypes(s) /\ r.inbox \in [Thread -> Seq(Tree!Command)]
  BY DEF TreeLaw, Moved
<1>3. t \in Thread /\ s.doing[t] = Tree!Nothing
  BY <1>1, <1>2 DEF TreeTypes, Ready
<1>4. /\ r.phase \in [Object -> {"unborn", "alive", "leaving", "gone"}] /\ r.phase[c] = "alive"
      /\ \A d \in Object : d # c => r.phase[d] = s.phase[d]
  BY <1>2 DEF Launches, TreeTypes
<1>5. /\ r.owner \in [Object -> Object \union {None}] /\ r.owner[c] = p
      /\ \A d \in Object : d # c => r.owner[d] = s.owner[d]
  BY <1>2 DEF Launches, TreeTypes
<1>6. /\ r.sent \in [Object -> Nat] /\ r.sent[c] = s.sent[c] + 1
      /\ \A d \in Object : d # c => r.sent[d] = s.sent[d]
  BY <1>2 DEF Launches, TreeTypes
<1>7. /\ r.doing \in [Thread -> Doing] /\ r.doing[t] = <<"launching", OwnTo(p, c)>>
      /\ \A u \in Thread : u # t => r.doing[u] = s.doing[u]
  <2>1. <<"launching", OwnTo(p, c)>> \in Doing
    BY DEF Doing, OwnTo
  <2>2. r.doing = [s.doing EXCEPT ![t] = <<"launching", OwnTo(p, c)>>] /\ s.doing \in [Thread -> Doing]
    BY <1>2 DEF Launches, TreeTypes
  <2> HIDE DEF t
  <2> QED BY <1>3, <2>1, <2>2
<1>8. TreeTypes(r)
  <2>1. /\ r.home \in [Object -> Thread] /\ r.named \subseteq Object \ {Root}
        /\ r.named = {} \/ \A a, b \in Object \ {Root} : r.home[a] = r.home[b]
        /\ r.owned \in [Object -> SUBSET Object] /\ r.plugged \in [Object -> BOOLEAN] /\ r.terminating \in [Object -> BOOLEAN]
        /\ r.acks \in [Object -> Nat] /\ r.processed \in [Object -> Nat] /\ r.endpoint \in BOOLEAN /\ r.promised \in Nat
    BY <1>1, <1>2 DEF TreeTypes
  <2>2. /\ r.inbox \in [Thread -> Seq(Tree!Command)] /\ r.phase \in [Object -> {"unborn", "alive", "leaving", "gone"}]
        /\ r.owner \in [Object -> Object \union {None}] /\ r.sent \in [Object -> Nat] /\ r.doing \in [Thread -> Doing]
    BY <1>2, <1>4, <1>5, <1>6, <1>7
  <2> QED BY Zenon, <2>1, <2>2 DEF TreeTypes
<1>9. \A u \in Thread, q, d \in Object : Launching(r, u, q, d) <=> Launching(s, u, q, d) \/ (u = t /\ q = p /\ d = c)
  <2>1. \A q, d \in Object : Launching(r, t, q, d) <=> q = p /\ d = c
    BY <1>7 DEF Launching, OwnTo
  <2>2. \A q, d \in Object : ~Launching(s, t, q, d)
    BY <1>3 DEF Launching, Tree!Nothing
  <2>3. \A u \in Thread : u # t => \A q, d \in Object : Launching(r, u, q, d) <=> Launching(s, u, q, d)
    BY <1>7 DEF Launching
  <2> HIDE DEF t
  <2> QED BY <2>1, <2>2, <2>3
<1> HIDE DEF t
<1>10. /\ s.owner[c] = None /\ ~s.terminating[c] /\ ~Born(s, c) /\ ~Alive(s, c) /\ c # Root
       /\ Born(s, o) /\ Born(s, p) /\ Alive(s, p) /\ o # c /\ p # c
  <2>1. ~Born(s, c) /\ ~Alive(s, c) /\ Born(s, o) /\ ~Over(s, o)
    BY <1>1 DEF Born, Alive, Over
  <2>2. s.owner[c] = None /\ ~s.terminating[c] /\ c # Root
    BY <2>1 DEF TreeLaw, TreeBirth
  <2>3. Born(s, p) /\ ~Over(s, p)
    <3>1. CASE p = o
      BY <2>1, <3>1
    <3>2. CASE s.owner[o] = p
      <4>1. Born(s, p)
        BY <3>2, ChildFacts
      <4> QED BY <2>1, <3>2, <4>1 DEF TreeLaw, TreeEnds
    <3> QED BY <1>1, <3>1, <3>2
  <2>4. Alive(s, p)
    BY <1>2, <2>3 DEF TreeTypes, Born, Over, Alive
  <2> QED BY <2>1, <2>2, <2>3, <2>4
<1>11. \A d \in Object : (Born(r, d) <=> Born(s, d) \/ d = c) /\ (Alive(r, d) <=> Alive(s, d) \/ d = c) /\ (Over(r, d) <=> Over(s, d))
  BY <1>1, <1>4 DEF Born, Alive, Over
<1>12. Carries(s, r, K, P)
  <2>1. Proper(r, PlugTo(c))
    BY <1>11, CommandFacts DEF Proper
  <2>2. \A d \in Object : s.owner[d] \in Object => r.owner[d] = s.owner[d]
    BY <1>5, <1>10, TreeFacts
  <2> QED BY <1>1, <2>1, <2>2 DEF Carries
<1>13. TreeBirth(r)
  <2>1. TreeBirth(s)
    BY DEF TreeLaw
  <2>2. /\ r.owner[Root] = None /\ Born(r, Root)
        /\ \A d \in Object \ {Root} : Born(r, d) => r.owner[d] \in Object
        /\ \A d \in Object : ~Born(r, d) => r.owner[d] = None /\ ~r.terminating[d]
        /\ \A d \in Object : r.owner[d] \in Object => Born(r, r.owner[d])
    BY <1>1, <1>5, <1>10, <1>11, <2>1, TreeFacts DEF TreeBirth
  <2>3. \A d \in r.named : r.owner[d] # Root
    <3>1. s.named \subseteq Object
      BY <1>2 DEF TreeTypes
    <3>2. \A d \in s.named : s.owner[d] # Root
      BY <2>1 DEF TreeBirth
    <3> QED BY <1>1, <1>5, <3>1, <3>2
  <2>4. ASSUME NEW S \in SUBSET (Object \ {Root}), S # {}, \A d \in S : r.owner[d] \in Object
        PROVE  \E d \in S : r.owner[d] \notin S
    <3>0. \A Z \in SUBSET (Object \ {Root}) : Z # {} /\ (\A d \in Z : s.owner[d] \in Object) => \E d \in Z : s.owner[d] \notin Z
      BY <2>1 DEF TreeBirth
    <3>1. CASE S = {c}
      BY <1>5, <1>10, <3>1
    <3>2. CASE S # {c}
      <4> DEFINE Z == S \ {c}
      <4>1. Z \in SUBSET (Object \ {Root}) /\ Z # {} /\ \A d \in Z : s.owner[d] \in Object /\ r.owner[d] = s.owner[d]
        BY <1>5, <2>4, <3>2
      <4> HIDE DEF Z
      <4>2. PICK d \in Z : s.owner[d] \notin Z
        BY <3>0, <4>1
      <4>3. s.owner[d] # c
        <5>1. Born(s, s.owner[d])
          BY <2>1, <4>1 DEF TreeBirth
        <5> QED BY <1>10, <5>1
      <4> QED BY <4>1, <4>2, <4>3 DEF Z
    <3> QED BY <3>1, <3>2
  <2> QED BY <2>2, <2>3, <2>4 DEF TreeBirth
<1>14. TreeCommands(r)
  <2>1. \A u \in Thread : \A i \in 1..Len(s.inbox[u]) : Alive(r, s.inbox[u][i][2])
    <3> SUFFICES ASSUME NEW u \in Thread, NEW i \in 1..Len(s.inbox[u]) PROVE Alive(r, s.inbox[u][i][2])
      OBVIOUS
    <3>1. Alive(s, s.inbox[u][i][2])
      BY DEF TreeLaw, TreeCommands, CommandSound
    <3>2. s.inbox[u][i][2] \in Object
      <4>1. s.inbox[u] \in Seq(Tree!Command)
        BY <1>2 DEF TreeTypes
      <4>2. s.inbox[u][i] \in Tree!Command
        BY <4>1
      <4> QED BY <4>2, CommandFacts
    <3> QED BY <1>11, <3>1, <3>2
  <2>2. \A d \in Object : s.owner[d] \in Object /\ Alive(s, d) => Alive(r, d) \/ AckTo(s.owner[d]) \in P
    BY <1>11
  <2>3. \A y \in P : y[1] = "plug"
    BY <1>1, CommandFacts
  <2>4. TreeCommands(s)
    BY DEF TreeLaw
  <2> QED BY <1>2, <1>8, <1>12, <2>1, <2>2, <2>3, <2>4, CommandsMoved
<1>15. TreePlugged(r)
  <2>1. \A d \in Object : Born(r, d) => Born(s, d) \/ PlugTo(d) \in P
    BY <1>1, <1>11
  <2>2. TreePlugged(s)
    BY DEF TreeLaw
  <2> QED BY <1>2, <1>12, <2>1, <2>2, PluggedMoved
<1>16. \A u \in Thread, q \in Object : ~Launching(s, u, q, c)
  BY <1>10, ThreadFacts, TreeFacts
<1>17. TreeThreads(r)
  <2>1. \A u \in Thread, q, d \in Object : Launching(r, u, q, d) => d # Root /\ r.owner[d] = q /\ Alive(r, q)
    <3> SUFFICES ASSUME NEW u \in Thread, NEW q \in Object, NEW d \in Object, Launching(r, u, q, d) PROVE d # Root /\ r.owner[d] = q /\ Alive(r, q)
      OBVIOUS
    <3>1. CASE Launching(s, u, q, d)
      <4>1. d # Root /\ s.owner[d] = q /\ Alive(s, q)
        BY <3>1, ThreadFacts
      <4>2. d # c
        BY <1>16, <3>1
      <4> QED BY <1>5, <1>11, <4>1, <4>2
    <3>2. CASE u = t /\ q = p /\ d = c
      BY <1>5, <1>10, <1>11, <3>2
    <3> QED BY <1>9, <3>1, <3>2
  <2>2. \A u, v \in Thread, q, w, d \in Object : Launching(r, u, q, d) /\ Launching(r, v, w, d) => u = v
    <3> SUFFICES ASSUME NEW u \in Thread, NEW v \in Thread, NEW q \in Object, NEW w \in Object, NEW d \in Object,
                        Launching(r, u, q, d), Launching(r, v, w, d)
                 PROVE  u = v
      OBVIOUS
    <3>1. CASE d = c
      BY <1>9, <1>16, <3>1
    <3>2. CASE d # c
      <4>1. Launching(s, u, q, d) /\ Launching(s, v, w, d)
        BY <1>9, <3>2
      <4> QED BY <4>1, ThreadFacts
    <3> QED BY <3>1, <3>2
  <2>3. \A u \in Thread, d \in Object : r.doing[u] = <<"deleting", d>> => r.home[d] = u /\ r.phase[d] = "leaving"
    <3> SUFFICES ASSUME NEW u \in Thread, NEW d \in Object, r.doing[u] = <<"deleting", d>> PROVE r.home[d] = u /\ r.phase[d] = "leaving"
      OBVIOUS
    <3>1. u # t
      BY <1>7
    <3>2. s.home[d] = u /\ s.phase[d] = "leaving"
      BY <1>7, <3>1, ThreadFacts
    <3>3. d # c
      BY <1>1, <3>2
    <3> QED BY <1>1, <1>4, <3>2, <3>3
  <2>4. \A d \in Object : r.phase[d] = "leaving" => r.doing[r.home[d]] = <<"deleting", d>>
    <3> SUFFICES ASSUME NEW d \in Object, r.phase[d] = "leaving" PROVE r.doing[r.home[d]] = <<"deleting", d>>
      OBVIOUS
    <3>1. s.phase[d] = "leaving"
      BY <1>4
    <3>2. s.doing[s.home[d]] = <<"deleting", d>> /\ s.home[d] \in Thread
      BY <1>2, <3>1, ThreadFacts DEF TreeTypes
    <3>3. s.home[d] # t
      BY <1>3, <3>2 DEF Tree!Nothing
    <3> QED BY <1>1, <1>7, <3>2, <3>3
  <2>5. ASSUME NEW S \in SUBSET Thread, NEW q \in Object, S # {}, \A u \in S : \E d \in Object : Launching(r, u, q, d)
        PROVE  \E u \in S, e \in Object : Launcher(r, S, u, q, e)
    \* Of the others, one has an object that none of the others launches.
    <3> DEFINE Z == S \ {t}
    <3>1. \A u \in Z, e \in Object : Launcher(s, Z, u, q, e) => e # c /\ Launcher(r, S, u, q, e)
      <4> SUFFICES ASSUME NEW u \in Z, NEW e \in Object, Launcher(s, Z, u, q, e) PROVE e # c /\ Launcher(r, S, u, q, e)
        OBVIOUS
      <4>1. /\ s.home[e] = u /\ Alive(s, e)
            /\ e = q \/ (s.owner[e] = q /\ ~s.terminating[e] /\ \A v \in Z : ~Launching(s, v, q, e))
        BY DEF Launcher
      <4>2. e # c
        BY <1>10, <4>1
      <4>3. ASSUME \A v \in Z : ~Launching(s, v, q, e) PROVE \A v \in S : ~Launching(r, v, q, e)
        <5>1. \A v \in S : Launching(r, v, q, e) => Launching(s, v, q, e)
          BY <1>9, <4>2
        <5>2. ~Launching(s, t, q, e)
          BY <1>3 DEF Launching, Tree!Nothing
        <5> QED BY <4>3, <5>1, <5>2
      <4>4. r.home[e] = u /\ Alive(r, e) /\ r.owner[e] = s.owner[e] /\ r.terminating[e] = s.terminating[e]
        BY <1>1, <1>5, <1>11, <4>1, <4>2
      <4> HIDE DEF Z
      <4> QED BY <4>1, <4>2, <4>3, <4>4 DEF Launcher
    <3>2. Z # {} => \E u \in Z, e \in Object : Launcher(s, Z, u, q, e)
      <4>1. \A u \in Z : \E d \in Object : Launching(s, u, q, d)
        BY <1>9, <2>5
      <4>2. Z \in SUBSET Thread
        OBVIOUS
      <4> HIDE DEF Z
      <4> QED BY <4>1, <4>2, ThreadFacts
    <3>3. CASE Z # {}
      BY <3>1, <3>2, <3>3
    <3>4. CASE Z = {}
      <4>1. S = {t}
        BY <2>5, <3>4
      <4>2. q = p
        <5>1. \E d \in Object : Launching(r, t, q, d)
          BY <2>5, <4>1
        <5> QED BY <1>3, <1>9, <5>1 DEF Launching, Tree!Nothing
      <4>3. Launcher(r, S, t, q, o)
        <5>1. r.home[o] = t /\ Alive(r, o) /\ r.owner[o] = s.owner[o] /\ r.terminating[o] = s.terminating[o]
          BY <1>1, <1>5, <1>10, <1>11 DEF t
        <5>2. \A u \in S : ~Launching(r, u, q, o)
          <6>1. ~Launching(s, t, q, o)
            BY <1>3 DEF Launching, Tree!Nothing
          <6> QED BY <1>9, <1>10, <4>1, <6>1
        <5> QED BY <1>1, <4>2, <5>1, <5>2 DEF Launcher
      <4> QED BY <4>1, <4>3
    <3> QED BY <3>3, <3>4
  <2> QED BY <2>1, <2>2, <2>3, <2>4, <2>5 DEF TreeThreads
<1>18. \A d \in Object : d # c /\ s.owner[d] \in Object => (InHand(r, d) <=> InHand(s, d))
  BY <1>5, <1>9 DEF InHand
\* None can be told, or announced, before its birth.
<1>19. \A D : (\A y \in D : y \in Tree!Command /\ (y[2] = c \/ (y[1] = "own" /\ y[3] = c))) => \A q \in Object : Hits(Box(s, q), D) = 0
  <2> SUFFICES ASSUME NEW D, \A y \in D : y \in Tree!Command /\ (y[2] = c \/ (y[1] = "own" /\ y[3] = c)), NEW q \in Object,
                      Hits(Box(s, q), D) # 0
               PROVE  FALSE
    OBVIOUS
  <2>1. PICK j \in 1..Len(Box(s, q)) : Box(s, q)[j] \in D
    BY <1>2, HitsOfBox
  <2>2. CommandSound(s, s.home[q], j)
    <3>1. s.home[q] \in Thread /\ Box(s, q) = s.inbox[s.home[q]]
      BY <1>2 DEF TreeTypes, Box
    <3> QED BY <2>1, <3>1 DEF TreeLaw, TreeCommands
  <2>3. PICK y \in D : y = Box(s, q)[j]
    BY <2>1
  <2>4. Alive(s, y[2]) /\ (y[1] = "own" => s.owner[y[3]] = y[2]) /\ y[2] \in Object
    BY <2>2, <2>3, CommandFacts DEF CommandSound, Box
  <2>5. y[2] = c \/ (y[1] = "own" /\ y[3] = c)
    OBVIOUS
  <2> HIDE DEF CommandSound
  <2> QED BY <1>10, <2>4, <2>5, TreeFacts
<1>20. /\ \A q \in Object : Hits(Box(r, q), {OwnTo(p, c)}) = 0
       /\ Hits(Box(r, c), {TermFor(c)}) = 0
  <2> DEFINE D == {OwnTo(p, c)}
             T == {TermFor(c)}
  <2>1. /\ \A y \in D : y \in Tree!Command /\ (y[2] = c \/ (y[1] = "own" /\ y[3] = c))
        /\ \A y \in T : y \in Tree!Command /\ (y[2] = c \/ (y[1] = "own" /\ y[3] = c))
    BY CommandFacts
  <2>2. P \intersect D = {} /\ P \intersect T = {}
    BY <1>1, CommandFacts
  <2> HIDE DEF D, T
  <2>3. (\A q \in Object : Hits(Box(s, q), D) = 0) /\ Hits(Box(s, c), T) = 0
    BY <1>19, <2>1
  <2>4. \A q \in Object : Hits(Box(r, q), D) = Hits(Box(s, q), D)
    BY <1>1, <1>2, <2>2, SameHits
  <2>5. Hits(Box(r, c), T) = Hits(Box(s, c), T)
    BY <1>1, <1>2, <2>2, SameHits
  <2> QED BY <2>3, <2>4, <2>5 DEF D, T
<1>21. TreeStages(r)
  <2>0. /\ \A q \in Object : \A d \in s.owned[q] : d # Root /\ s.owner[d] = q
        /\ \A q \in Object : s.terminating[q] => s.owned[q] = {}
        /\ \A q \in Object : s.owned[q] \subseteq Object
    BY <1>2 DEF TreeLaw, TreeStages, TreeTypes
  <2>1. \A q \in Object : c \notin s.owned[q]
    BY <1>10, <2>0, TreeFacts
  <2>2. Stage(r, c) = 1
    <3>1. InHand(r, c)
      BY <1>3, <1>5, <1>9 DEF InHand
    <3>2. r.owner[c] = p /\ c \notin r.owned[p] /\ ~r.terminating[c]
      BY <1>1, <1>5, <1>10, <2>1
    <3> QED BY <1>20, <3>1, <3>2 DEF Stage
  <2>3. ASSUME NEW d \in Object \ {Root}, Born(r, d), d # c PROVE Stage(r, d) = 1
    <3>1. Born(s, d)
      BY <1>11, <2>3
    <3>2. s.owner[d] \in Object /\ Stage(s, d) = 1
      BY <3>1 DEF TreeLaw, TreeBirth, TreeStages
    <3>3. OwnTo(s.owner[d], d) \notin P /\ TermFor(d) \notin P
      BY <1>1, <3>2, CommandFacts
    <3>4. InHand(r, d) <=> InHand(s, d)
      BY <1>18, <2>3, <3>2
    <3>5. StageLeft(s, r, K, P, d)
      BY <1>1, <1>5, <2>3, <3>2, <3>3, <3>4 DEF StageLeft
    <3> QED BY <1>12, <3>2, <3>5, StageKept
  <2>4. \A q \in Object : \A d \in r.owned[q] : d # Root /\ r.owner[d] = q
    BY <1>1, <1>5, <2>0, <2>1
  <2>5. \A q \in Object : r.terminating[q] => r.owned[q] = {}
    BY <1>1, <2>0
  <2> QED BY <2>2, <2>3, <2>4, <2>5 DEF TreeStages
<1>22. ASSUME NEW d \in Object, d # c PROVE Told(r, d) = Told(s, d)
  <2> DEFINE D == {TermFor(d)}
  <2>1. P \intersect D = {}
    BY <1>1, CommandFacts
  <2> HIDE DEF D
  <2>3. Hits(Box(r, d), D) = Hits(Box(s, d), D)
    BY <1>1, <1>2, <2>1, SameHits
  <2> QED BY <1>1, <2>3 DEF Told, D
<1>23. ASSUME NEW q \in Object PROVE AcksRight(r, q)
  <2>1. ~Told(r, c)
    BY <1>1, <1>10, <1>20 DEF Told
  <2>2. Termed(r, q) = Termed(s, q)
    BY <1>5, <1>10, <1>11, <1>22, <2>1 DEF Termed
  <2>3. AckTo(q) \notin P
    BY <1>1, CommandFacts
  <2>4. AcksLeft(s, r, K, P, q)
    BY <1>1, <2>2, <2>3 DEF AcksLeft
  <2> QED BY <1>12, <2>4, AcksKept
<1>24. SentRight(r, c)
  <2> DEFINE x == PlugTo(c)
  <2>1. x \in P /\ P \intersect Counted(c) = {x} /\ x[2] = c
    BY <1>1, CountedFacts, CommandFacts
  <2> HIDE DEF x
  <2>2. SentMore(s, r, K, P, c, x)
    BY <1>1, <1>6, <2>1 DEF SentMore
  <2> QED BY <1>12, <2>2, SentPosted
<1>25. ASSUME NEW q \in Object, q # c PROVE SentRight(r, q)
  <2>1. P \intersect Counted(q) = {}
    BY <1>1, <1>25, CountedFacts, CommandFacts
  <2>2. SentLeft(s, r, K, P, q)
    BY <1>1, <1>6, <1>25, <2>1 DEF SentLeft
  <2> QED BY <1>12, <2>2, SentKept
<1>26. TreeCounts(r)
  BY <1>23, <1>24, <1>25 DEF TreeCounts
<1>27. TreeEnds(r)
  <2>0. /\ \A d \in Object : Over(s, d) => s.terminating[d] /\ s.sent[d] = s.processed[d]
        /\ \A q, d \in Object : s.owner[d] = q /\ Over(s, q) => Over(s, d)
        /\ \A q \in Object \ {Root}, d \in Object :
             s.owner[d] = q /\ Over(s, q) /\ (\A a, b \in Object \ {Root} : s.home[a] = s.home[b]) => s.phase[d] = "gone"
        /\ s.endpoint => Alive(s, Root) /\ ~s.terminating[Root]
    BY DEF TreeLaw, TreeEnds
  <2>1. ~Over(s, p) /\ ~Over(s, c)
    BY <1>1, <1>10 DEF Over, Alive
  <2>2. \A d \in Object : Over(r, d) => r.terminating[d] /\ r.sent[d] = r.processed[d]
    BY <1>1, <1>6, <1>11, <2>0, <2>1
  <2>3. \A q, d \in Object : r.owner[d] = q /\ Over(r, q) => Over(r, d)
    BY <1>5, <1>11, <2>0, <2>1
  <2>4. ASSUME NEW q \in Object \ {Root}, NEW d \in Object, r.owner[d] = q, Over(r, q), \A a, b \in Object \ {Root} : r.home[a] = r.home[b]
        PROVE  r.phase[d] = "gone"
    <3>1. d # c /\ s.owner[d] = q /\ Over(s, q)
      BY <1>5, <1>11, <2>1, <2>4
    <3>2. s.phase[d] = "gone"
      BY <1>1, <2>0, <2>4, <3>1
    <3> QED BY <1>4, <3>1, <3>2
  <2>5. r.endpoint => Alive(r, Root) /\ ~r.terminating[Root]
    BY <1>1, <1>11, <2>0, TreeFacts
  <2> QED BY <2>2, <2>3, <2>4, <2>5 DEF TreeEnds
<1> QED BY <1>8, <1>13, <1>14, <1>15, <1>17, <1>21, <1>26, <1>27 DEF TreeLaw

Launched(s, r, t, p, c, P) ==
  /\ r.home = s.home /\ r.named = s.named /\ r.phase = s.phase /\ r.owner = s.owner /\ r.owned = s.owned /\ r.plugged = s.plugged
  /\ r.terminating = s.terminating /\ r.acks = s.acks /\ r.processed = s.processed
  /\ r.endpoint = s.endpoint /\ r.promised = s.promised
  /\ OwnTo(p, c) \in P /\ \A y \in P : y = OwnTo(p, c)
  /\ r.sent = [s.sent EXCEPT ![p] = @ + 1] /\ r.doing = [s.doing EXCEPT ![t] = Tree!Nothing]

LEMMA LaunchRestLaw ==
  ASSUME NEW s, NEW r, TreeLaw(s), NEW t \in Thread, NEW p \in Object, NEW c \in Object, NEW K, NEW P, \A u : u \notin K,
         Launching(s, t, p, c), Moved(s, r, K, P), Launched(s, r, t, p, c, P)
  PROVE  TreeLaw(r)
<1>1. /\ r.home = s.home /\ r.named = s.named /\ r.phase = s.phase /\ r.owner = s.owner /\ r.owned = s.owned /\ r.plugged = s.plugged
      /\ r.terminating = s.terminating /\ r.acks = s.acks /\ r.processed = s.processed
      /\ r.endpoint = s.endpoint /\ r.promised = s.promised
      /\ OwnTo(p, c) \in P /\ \A y \in P : y = OwnTo(p, c)
  BY DEF Launched
<1>2. TreeTypes(s) /\ r.inbox \in [Thread -> Seq(Tree!Command)]
  BY DEF TreeLaw, Moved
<1>3. /\ r.sent \in [Object -> Nat] /\ r.sent[p] = s.sent[p] + 1
      /\ \A d \in Object : d # p => r.sent[d] = s.sent[d]
  BY <1>2 DEF Launched, TreeTypes
<1>4. /\ r.doing \in [Thread -> Doing] /\ r.doing[t] = Tree!Nothing
      /\ \A u \in Thread : u # t => r.doing[u] = s.doing[u]
  <2>1. Tree!Nothing \in Doing
    BY DEF Doing
  <2>2. r.doing = [s.doing EXCEPT ![t] = Tree!Nothing] /\ s.doing \in [Thread -> Doing]
    BY <1>2 DEF Launched, TreeTypes
  <2> QED BY <2>1, <2>2
<1>5. TreeTypes(r)
  <2>1. /\ r.home \in [Object -> Thread] /\ r.named \subseteq Object \ {Root}
        /\ r.named = {} \/ \A a, b \in Object \ {Root} : r.home[a] = r.home[b]
        /\ r.owned \in [Object -> SUBSET Object] /\ r.plugged \in [Object -> BOOLEAN] /\ r.terminating \in [Object -> BOOLEAN]
        /\ r.acks \in [Object -> Nat] /\ r.processed \in [Object -> Nat] /\ r.endpoint \in BOOLEAN /\ r.promised \in Nat
    BY <1>1, <1>2 DEF TreeTypes
  <2>2. /\ r.inbox \in [Thread -> Seq(Tree!Command)] /\ r.phase \in [Object -> {"unborn", "alive", "leaving", "gone"}]
        /\ r.owner \in [Object -> Object \union {None}] /\ r.sent \in [Object -> Nat] /\ r.doing \in [Thread -> Doing]
    BY <1>1, <1>2, <1>3, <1>4 DEF TreeTypes
  <2> QED BY Zenon, <2>1, <2>2 DEF TreeTypes
<1>6. c # Root /\ s.owner[c] = p /\ Alive(s, p) /\ Born(s, p) /\ ~Over(s, p) /\ Born(s, c) /\ OnePlace(s, c) /\ InHand(s, c)
  <2>1. c # Root /\ s.owner[c] = p /\ Alive(s, p)
    BY ThreadFacts
  <2>2. Born(s, c)
    BY <2>1, ChildFacts
  <2>3. OnePlace(s, c)
    BY <2>1, <2>2, OneStage
  <2> QED BY <2>1, <2>2, <2>3 DEF Born, Alive, Over, InHand
<1>7. \A u \in Thread, q, d \in Object : Launching(r, u, q, d) <=> Launching(s, u, q, d) /\ u # t
  <2>1. \A q, d \in Object : ~Launching(r, t, q, d)
    BY <1>4 DEF Launching, Tree!Nothing
  <2>2. \A u \in Thread : u # t => \A q, d \in Object : Launching(r, u, q, d) <=> Launching(s, u, q, d)
    BY <1>4 DEF Launching
  <2> QED BY <2>1, <2>2
<1>8. \A q, d \in Object : Launching(s, t, q, d) => q = p /\ d = c
  BY DEF Launching, OwnTo
<1>9. \A d \in Object : (Born(r, d) <=> Born(s, d)) /\ (Alive(r, d) <=> Alive(s, d)) /\ (Over(r, d) <=> Over(s, d))
  BY <1>1 DEF Born, Alive, Over
<1>10. Carries(s, r, K, P)
  <2>1. Proper(r, OwnTo(p, c))
    BY <1>1, <1>6, <1>9, CommandFacts DEF Proper
  <2> QED BY <1>1, <2>1 DEF Carries
<1>11. TreeBirth(r)
  <2>1. TreeBirth(s)
    BY DEF TreeLaw
  <2> QED BY <1>1, <2>1 DEF TreeBirth, Born
<1>12. TreeCommands(r)
  <2>1. TreeCommands(s) /\ TreePlugged(s)
    BY DEF TreeLaw
  <2>2. \A u \in Thread : \A i \in 1..Len(s.inbox[u]) : Alive(r, s.inbox[u][i][2])
    BY <1>1, <2>1 DEF TreeCommands, CommandSound, Alive
  <2>3. \A d \in Object : s.owner[d] \in Object /\ Alive(s, d) => Alive(r, d) \/ AckTo(s.owner[d]) \in P
    BY <1>9
  <2>4. \A y \in P : y[1] = "plug" \/ r.plugged[y[2]] \/ Hits(Box(s, y[2]), {PlugTo(y[2])}) # 0
    BY <1>1, <1>6, <2>1, CommandFacts DEF TreePlugged
  <2> QED BY <1>2, <1>5, <1>10, <2>1, <2>2, <2>3, <2>4, CommandsMoved
<1>13. TreePlugged(r)
  <2>1. \A d \in Object : Born(r, d) => Born(s, d) \/ PlugTo(d) \in P
    BY <1>9
  <2>2. TreePlugged(s)
    BY DEF TreeLaw
  <2> QED BY <1>2, <1>10, <2>1, <2>2, PluggedMoved
<1>14. TreeThreads(r)
  <2>1. \A u \in Thread, q, d \in Object : Launching(r, u, q, d) => d # Root /\ r.owner[d] = q /\ Alive(r, q)
    BY <1>1, <1>7, <1>9, ThreadFacts
  <2>2. \A u, v \in Thread, q, w, d \in Object : Launching(r, u, q, d) /\ Launching(r, v, w, d) => u = v
    BY <1>7, ThreadFacts
  <2>3. \A u \in Thread, d \in Object : r.doing[u] = <<"deleting", d>> => r.home[d] = u /\ r.phase[d] = "leaving"
    <3> SUFFICES ASSUME NEW u \in Thread, NEW d \in Object, r.doing[u] = <<"deleting", d>> PROVE r.home[d] = u /\ r.phase[d] = "leaving"
      OBVIOUS
    <3>1. u # t
      BY <1>4 DEF Tree!Nothing
    <3>2. s.doing[u] = <<"deleting", d>>
      BY <1>4, <3>1
    <3> QED BY <1>1, <3>2, ThreadFacts
  <2>4. \A d \in Object : r.phase[d] = "leaving" => r.doing[r.home[d]] = <<"deleting", d>>
    <3> SUFFICES ASSUME NEW d \in Object, r.phase[d] = "leaving" PROVE r.doing[r.home[d]] = <<"deleting", d>>
      OBVIOUS
    <3>1. s.doing[s.home[d]] = <<"deleting", d>> /\ s.home[d] \in Thread
      BY <1>1, <1>2, ThreadFacts DEF TreeTypes
    <3>2. s.home[d] # t
      BY <3>1 DEF Launching
    <3> QED BY <1>1, <1>4, <3>1, <3>2
  <2>5. ASSUME NEW S \in SUBSET Thread, NEW q \in Object, S # {}, \A u \in S : \E d \in Object : Launching(r, u, q, d)
        PROVE  \E u \in S, e \in Object : Launcher(r, S, u, q, e)
    <3>1. \A u \in S : \E d \in Object : Launching(s, u, q, d)
      BY <1>7, <2>5
    <3>2. PICK u \in S, e \in Object : Launcher(s, S, u, q, e)
      BY <2>5, <3>1, ThreadFacts
    <3>3. Launcher(r, S, u, q, e)
      <4>1. \A v \in S : Launching(r, v, q, e) => Launching(s, v, q, e)
        BY <1>7
      <4> QED BY <1>1, <3>2, <4>1 DEF Launcher, Alive
    <3> QED BY <3>3
  <2> QED BY <2>1, <2>2, <2>3, <2>4, <2>5 DEF TreeThreads
<1>15. \A d \in Object : d # c => (InHand(r, d) <=> InHand(s, d))
  <2> SUFFICES ASSUME NEW d \in Object, d # c PROVE InHand(r, d) <=> InHand(s, d)
    OBVIOUS
  <2>1. ASSUME NEW u \in Thread PROVE Launching(r, u, s.owner[d], d) <=> Launching(s, u, s.owner[d], d)
    <3>1. Launching(s, u, s.owner[d], d) => u # t
      BY DEF Launching, OwnTo
    <3>2. r.doing[u] = s.doing[u] \/ u = t
      BY <1>4
    <3>3. ~Launching(r, t, s.owner[d], d)
      BY <1>4 DEF Launching, Tree!Nothing
    <3> QED BY <3>1, <3>2, <3>3 DEF Launching
  <2> QED BY <1>1, <2>1 DEF InHand
<1>16. ~InHand(r, c)
  <2>1. \A u \in Thread : Launching(s, u, p, c) => u = t
    BY ThreadFacts
  <2> QED BY <1>1, <1>6, <1>7, <2>1 DEF InHand
<1>17. TreeStages(r)
  <2>0. /\ \A q \in Object : \A d \in s.owned[q] : d # Root /\ s.owner[d] = q
        /\ \A q \in Object : s.terminating[q] => s.owned[q] = {}
    BY DEF TreeLaw, TreeStages
  <2>1. Stage(r, c) = 1
    <3> DEFINE x == OwnTo(p, c)
               D == {x}
               T == {TermFor(c)}
    <3>1. P \intersect D = {x} /\ P \intersect T = {} /\ x[2] = p /\ x \in P
      BY <1>1, CommandFacts
    <3> HIDE DEF D, T, x
    <3>2. Hits(Box(r, p), D) = Hits(Box(s, p), D) + 1
      BY <1>1, <1>2, <3>1, MoreHits
    <3>3. Hits(Box(r, c), T) = Hits(Box(s, c), T)
      BY <1>1, <1>2, <3>1, SameHits
    <3>4. Hits(Box(s, p), D) = 0 /\ c \notin s.owned[p] /\ Hits(Box(s, c), T) = 0 /\ ~s.terminating[c]
      BY <1>6 DEF OnePlace, OwnsTo, TermsTo, D, T, x
    <3>5. Hits(Box(r, p), D) = 1 /\ Hits(Box(r, c), T) = 0
      BY <3>2, <3>3, <3>4
    <3> QED BY <1>1, <1>6, <1>16, <3>4, <3>5 DEF Stage, D, T, x
  <2>2. ASSUME NEW d \in Object \ {Root}, Born(r, d), d # c PROVE Stage(r, d) = 1
    <3>1. s.owner[d] \in Object /\ Stage(s, d) = 1
      BY <1>9, <2>2 DEF TreeLaw, TreeBirth, TreeStages
    <3>2. OwnTo(s.owner[d], d) \notin P /\ TermFor(d) \notin P
      BY <1>1, <2>2, <3>1, CommandFacts
    <3>3. StageLeft(s, r, K, P, d)
      BY <1>1, <1>15, <2>2, <3>1, <3>2 DEF StageLeft
    <3> QED BY <1>10, <3>1, <3>3, StageKept
  <2> QED BY <1>1, <2>0, <2>1, <2>2 DEF TreeStages
<1>18. ASSUME NEW q \in Object PROVE AcksRight(r, q)
  <2>1. ASSUME NEW d \in Object PROVE Told(r, d) = Told(s, d)
    <3> DEFINE D == {TermFor(d)}
    <3>1. P \intersect D = {}
      BY <1>1, CommandFacts
    <3> HIDE DEF D
    <3>3. Hits(Box(r, d), D) = Hits(Box(s, d), D)
      BY <1>1, <1>2, <3>1, SameHits
    <3> QED BY <1>1, <3>3 DEF Told, D
  <2>2. Termed(r, q) = Termed(s, q)
    BY <1>1, <1>9, <2>1 DEF Termed
  <2>3. AckTo(q) \notin P
    BY <1>1, CommandFacts
  <2>4. AcksLeft(s, r, K, P, q)
    BY <1>1, <2>2, <2>3 DEF AcksLeft
  <2> QED BY <1>10, <2>4, AcksKept
<1>19. SentRight(r, p)
  <2> DEFINE x == OwnTo(p, c)
  <2>1. x \in P /\ P \intersect Counted(p) = {x} /\ x[2] = p
    BY <1>1, CountedFacts, CommandFacts
  <2> HIDE DEF x
  <2>2. SentMore(s, r, K, P, p, x)
    BY <1>1, <1>3, <2>1 DEF SentMore
  <2> QED BY <1>10, <2>2, SentPosted
<1>20. ASSUME NEW q \in Object, q # p PROVE SentRight(r, q)
  <2>1. P \intersect Counted(q) = {}
    BY <1>1, <1>20, CountedFacts, CommandFacts
  <2>2. SentLeft(s, r, K, P, q)
    BY <1>1, <1>3, <1>20, <2>1 DEF SentLeft
  <2> QED BY <1>10, <2>2, SentKept
<1>21. TreeCounts(r)
  BY <1>18, <1>19, <1>20 DEF TreeCounts
<1>22. TreeEnds(r)
  <2>1. TreeEnds(s)
    BY DEF TreeLaw
  <2>2. \A d \in Object : Over(r, d) => r.terminating[d] /\ r.sent[d] = r.processed[d]
    BY <1>1, <1>3, <1>6, <1>9, <2>1 DEF TreeEnds
  <2> QED BY <1>1, <2>1, <2>2 DEF TreeEnds, Over, Alive
<1> QED BY <1>5, <1>11, <1>12, <1>13, <1>14, <1>17, <1>21, <1>22 DEF TreeLaw

\* The destructor.
LEMMA DeleteLaw ==
  ASSUME NEW s, NEW r, TreeLaw(s), NEW t \in Thread, NEW o \in Object, s.doing[t] = <<"deleting", o>>,
         r.home = s.home, r.named = s.named, r.owner = s.owner, r.owned = s.owned, r.plugged = s.plugged,
         r.terminating = s.terminating, r.acks = s.acks, r.sent = s.sent, r.processed = s.processed, r.inbox = s.inbox,
         r.endpoint = s.endpoint, r.promised = s.promised,
         r.phase = [s.phase EXCEPT ![o] = "gone"], r.doing = [s.doing EXCEPT ![t] = Tree!Nothing]
  PROVE  TreeLaw(r)
<1>1. TreeTypes(s) /\ s.home[o] = t /\ s.phase[o] = "leaving"
  BY ThreadFacts DEF TreeLaw
<1>2. /\ r.phase \in [Object -> {"unborn", "alive", "leaving", "gone"}] /\ r.phase[o] = "gone"
      /\ \A d \in Object : d # o => r.phase[d] = s.phase[d]
  BY <1>1 DEF TreeTypes
<1>3. /\ r.doing \in [Thread -> Doing] /\ r.doing[t] = Tree!Nothing
      /\ \A u \in Thread : u # t => r.doing[u] = s.doing[u]
  <2>1. Tree!Nothing \in Doing
    BY DEF Doing
  <2>2. s.doing \in [Thread -> Doing]
    BY <1>1 DEF TreeTypes
  <2> QED BY <2>1, <2>2
<1>4. TreeTypes(r)
  BY <1>1, <1>2, <1>3 DEF TreeTypes
<1>5. \A d \in Object : (Born(r, d) <=> Born(s, d)) /\ (Alive(r, d) <=> Alive(s, d)) /\ (Over(r, d) <=> Over(s, d))
  BY <1>1, <1>2 DEF Born, Alive, Over
<1>6. \A u \in Thread : \A q, d : Launching(r, u, q, d) <=> Launching(s, u, q, d)
  <2>1. \A q, d : ~Launching(r, t, q, d) /\ ~Launching(s, t, q, d)
    BY <1>3 DEF Launching, Tree!Nothing
  <2> QED BY <1>3, <2>1 DEF Launching
<1>7. TreeBirth(r)
  BY <1>5, TreeFacts DEF TreeLaw, TreeBirth
<1>8. TreeCommands(r)
  <2> SUFFICES ASSUME NEW u \in Thread, NEW i \in 1..Len(s.inbox[u]) PROVE CommandSound(r, u, i)
    BY DEF TreeCommands
  <2>1. CommandSound(s, u, i)
    BY DEF TreeLaw, TreeCommands
  <2>2. s.inbox[u][i] \in Tree!Command
    <3>1. s.inbox[u] \in Seq(Tree!Command)
      BY <1>1 DEF TreeTypes
    <3> QED BY <3>1
  <2>3. s.inbox[u][i][2] \in Object
    BY <2>2, CommandFacts
  <2>4. Alive(r, s.inbox[u][i][2]) <=> Alive(s, s.inbox[u][i][2])
    BY <1>5, <2>3
  <2>5. s.inbox[u][i][1] = "term_req" => (Alive(r, s.inbox[u][i][3]) <=> Alive(s, s.inbox[u][i][3]))
    BY <1>5, <2>1 DEF CommandSound
  <2> QED BY <2>1, <2>4, <2>5 DEF CommandSound
<1>9. TreePlugged(r)
  BY <1>5 DEF TreeLaw, TreePlugged, Box
<1>10. TreeThreads(r)
  <2>1. \A u \in Thread, q, d \in Object : Launching(r, u, q, d) => d # Root /\ r.owner[d] = q /\ Alive(r, q)
    BY <1>5, <1>6, ThreadFacts
  <2>2. \A u, v \in Thread, q, w, d \in Object : Launching(r, u, q, d) /\ Launching(r, v, w, d) => u = v
    BY <1>6, ThreadFacts
  <2>3. \A u \in Thread, d \in Object : r.doing[u] = <<"deleting", d>> => r.home[d] = u /\ r.phase[d] = "leaving"
    <3> SUFFICES ASSUME NEW u \in Thread, NEW d \in Object, r.doing[u] = <<"deleting", d>> PROVE r.home[d] = u /\ r.phase[d] = "leaving"
      OBVIOUS
    <3>1. u # t
      BY <1>3 DEF Tree!Nothing
    <3>2. s.home[d] = u /\ s.phase[d] = "leaving"
      BY <1>3, <3>1, ThreadFacts
    <3> QED BY <1>1, <1>2, <3>1, <3>2
  <2>4. \A d \in Object : r.phase[d] = "leaving" => r.doing[r.home[d]] = <<"deleting", d>>
    <3> SUFFICES ASSUME NEW d \in Object, r.phase[d] = "leaving" PROVE r.doing[r.home[d]] = <<"deleting", d>>
      OBVIOUS
    <3>1. d # o /\ s.phase[d] = "leaving"
      BY <1>2
    <3>2. s.doing[s.home[d]] = <<"deleting", d>> /\ s.home[d] \in Thread
      BY <1>1, <3>1, ThreadFacts DEF TreeTypes
    <3>3. s.home[d] # t
      BY <3>1, <3>2
    <3> QED BY <1>3, <3>2, <3>3
  <2>5. ASSUME NEW S \in SUBSET Thread, NEW q \in Object, S # {}, \A u \in S : \E d \in Object : Launching(r, u, q, d)
        PROVE  \E u \in S, e \in Object : Launcher(r, S, u, q, e)
    <3>1. \A u \in S : \E d \in Object : Launching(s, u, q, d)
      BY <1>6, <2>5
    <3>2. PICK u \in S, e \in Object : Launcher(s, S, u, q, e)
      BY <2>5, <3>1, ThreadFacts
    <3>3. Launcher(r, S, u, q, e)
      BY <1>5, <1>6, <3>2 DEF Launcher
    <3> QED BY <3>3
  <2> QED BY <2>1, <2>2, <2>3, <2>4, <2>5 DEF TreeThreads
<1>11. TreeStages(r)
  <2>1. \A d \in Object : InHand(r, d) <=> InHand(s, d)
    BY <1>6 DEF InHand
  <2>2. \A d \in Object : Stage(r, d) = Stage(s, d)
    BY <2>1 DEF Stage, Box
  <2> QED BY <1>5, <2>2 DEF TreeLaw, TreeStages
<1>12. TreeCounts(r)
  <2>1. \A q \in Object : Termed(r, q) = Termed(s, q)
    BY <1>5 DEF Termed, Told, Box
  <2> QED BY <2>1 DEF TreeLaw, TreeCounts, SentRight, AcksRight, Box
<1>13. TreeEnds(r)
  <2>1. TreeEnds(s)
    BY DEF TreeLaw
  <2>2. \A d \in Object : s.phase[d] = "gone" => r.phase[d] = "gone"
    BY <1>2
  <2> QED BY <1>5, <2>1, <2>2, TreeFacts DEF TreeEnds
<1> QED BY <1>4, <1>7, <1>8, <1>9, <1>10, <1>11, <1>12, <1>13 DEF TreeLaw

(***************************************************************************)
(* From the actions to what they do to the state of a tree.                *)
(***************************************************************************)
Fields(s) ==
  /\ s.home = layout.home /\ s.named = layout.named /\ s.phase = phase /\ s.owner = owner /\ s.owned = owned /\ s.plugged = plugged
  /\ s.terminating = terminating /\ s.acks = term_acks /\ s.sent = sent_seqnum /\ s.processed = processed_seqnum
  /\ s.inbox = inbox /\ s.doing = doing /\ s.endpoint = endpoint /\ s.promised = promised

LEMMA NowFields == ASSUME NEW s, s = Now PROVE Fields(s)
BY DEF Fields, Now, Tree!Home, Tree!Named
LEMMA NextFields ==
  ASSUME NEW r, r = Now'
  PROVE  /\ r.home = layout'.home /\ r.named = layout'.named /\ r.phase = phase' /\ r.owner = owner' /\ r.owned = owned'
         /\ r.plugged = plugged' /\ r.terminating = terminating' /\ r.acks = term_acks' /\ r.sent = sent_seqnum'
         /\ r.processed = processed_seqnum' /\ r.inbox = inbox' /\ r.doing = doing' /\ r.endpoint = endpoint' /\ r.promised = promised'
BY DEF Now, Tree!Home, Tree!Named

\* The state before check_term_acks.
Mid(box, posts) ==
  [home |-> layout.home, named |-> layout.named, phase |-> phase, owner |-> owner, owned |-> owned', plugged |-> plugged',
   terminating |-> terminating', acks |-> term_acks', sent |-> sent_seqnum', processed |-> processed_seqnum',
   inbox |-> Tree!Deliver(box, posts), doing |-> doing, endpoint |-> endpoint', promised |-> promised']

LEMMA MidFields ==
  ASSUME NEW box, NEW posts, NEW m, m = Mid(box, posts)
  PROVE  /\ m.home = layout.home /\ m.named = layout.named /\ m.phase = phase /\ m.owner = owner /\ m.owned = owned'
         /\ m.plugged = plugged' /\ m.terminating = terminating' /\ m.acks = term_acks' /\ m.sent = sent_seqnum'
         /\ m.processed = processed_seqnum' /\ m.inbox = Tree!Deliver(box, posts) /\ m.doing = doing /\ m.endpoint = endpoint'
         /\ m.promised = promised'
BY DEF Mid

\* The mailboxes without the commands that are taken.
Left(s, K, box) ==
  /\ K \subseteq Thread /\ (\A t \in K : s.inbox[t] # <<>>)
  /\ \A t \in Thread : box[t] = IF t \in K THEN Tail(s.inbox[t]) ELSE s.inbox[t]

LEMMA MovedPosts ==
  ASSUME NEW s, NEW r, NEW K, NEW P, NEW box, NEW posts, TreeTypes(s), Left(s, K, box), Posted(s.home, posts, P),
         r.inbox = Tree!Deliver(box, posts)
  PROVE  Moved(s, r, K, P)
<1>1. /\ K \subseteq Thread /\ (\A t \in K : s.inbox[t] # <<>>)
      /\ \A t \in Thread : box[t] = IF t \in K THEN Tail(s.inbox[t]) ELSE s.inbox[t]
  BY DEF Left
<1>2. r.inbox = [t \in Thread |-> box[t] \o posts[t]]
  BY DEF Tree!Deliver
<1>3. ASSUME NEW t \in Thread PROVE box[t] \o posts[t] \in Seq(Tree!Command)
  <2>1. box[t] \in Seq(Tree!Command)
    <3>1. s.inbox[t] \in Seq(Tree!Command)
      BY DEF TreeTypes
    <3>2. t \in K => Tail(s.inbox[t]) \in Seq(Tree!Command)
      BY <1>1, <3>1
    <3>3. box[t] = IF t \in K THEN Tail(s.inbox[t]) ELSE s.inbox[t]
      BY <1>1
    <3> QED BY Zenon, <3>1, <3>2, <3>3
  <2>2. posts[t] \in Seq(Tree!Command)
    BY DEF Posted
  <2> QED BY <2>1, <2>2, ConcatProperties
<1>4. r.inbox \in [Thread -> Seq(Tree!Command)]
  BY <1>2, <1>3
<1>5. \A t \in Thread : r.inbox[t] = (IF t \in K THEN Tail(s.inbox[t]) ELSE s.inbox[t]) \o posts[t]
  <2> SUFFICES ASSUME NEW t \in Thread PROVE r.inbox[t] = (IF t \in K THEN Tail(s.inbox[t]) ELSE s.inbox[t]) \o posts[t]
    OBVIOUS
  <2>1. r.inbox[t] = box[t] \o posts[t]
    BY <1>2
  <2>2. box[t] = IF t \in K THEN Tail(s.inbox[t]) ELSE s.inbox[t]
    BY <1>1
  <2> QED BY Zenon, <2>1, <2>2
<1> QED BY <1>1, <1>4, <1>5 DEF Moved

LEMMA MovedNothing ==
  ASSUME NEW s, NEW r, TreeTypes(s), r.inbox = s.inbox
  PROVE  Moved(s, r, {}, {})
<1>1. s.inbox \in [Thread -> Seq(Tree!Command)]
  BY DEF TreeTypes
<1> DEFINE none == Tree!NoPost
<1>2. Posted(s.home, none, {})
  BY PostedNone
<1>3. \A t \in Thread : s.inbox[t] = s.inbox[t] \o none[t]
  <2> SUFFICES ASSUME NEW t \in Thread PROVE s.inbox[t] = s.inbox[t] \o none[t]
    OBVIOUS
  <2>1. none[t] = <<>>
    BY DEF Tree!NoPost
  <2>2. s.inbox[t] \in Seq(Tree!Command)
    BY <1>1
  <2>3. s.inbox[t] \o <<>> = s.inbox[t]
    BY <2>2
  <2> QED BY <2>1, <2>3
<1> HIDE DEF none
<1>4. \A t \in Thread : r.inbox[t] = (IF t \in {} THEN Tail(s.inbox[t]) ELSE s.inbox[t]) \o none[t]
  BY <1>3
<1> QED BY <1>1, <1>2, <1>4 DEF Moved

\* check_term_acks, after a handler.
LEMMA CheckLaw ==
  ASSUME NEW o \in Object, NEW box, NEW posts, NEW m, m = Mid(box, posts), TreeLaw(m), Alive(m, o), Ready(m, o),
         layout' = layout, layout \in Layouts, owner' = owner, Tree!CheckTermAcks(o, box, posts)
  PROVE  TreeLaw(Now')
<1> PICK r : r = Now'
  OBVIOUS
<1>1. /\ m.home = layout.home /\ m.named = layout.named /\ m.phase = phase /\ m.owner = owner /\ m.owned = owned'
      /\ m.plugged = plugged' /\ m.terminating = terminating' /\ m.acks = term_acks' /\ m.sent = sent_seqnum'
      /\ m.processed = processed_seqnum' /\ m.inbox = Tree!Deliver(box, posts) /\ m.doing = doing /\ m.endpoint = endpoint'
      /\ m.promised = promised'
  BY MidFields
<1>2. /\ r.home = layout'.home /\ r.named = layout'.named /\ r.phase = phase' /\ r.owner = owner' /\ r.owned = owned'
      /\ r.plugged = plugged' /\ r.terminating = terminating' /\ r.acks = term_acks' /\ r.sent = sent_seqnum'
      /\ r.processed = processed_seqnum' /\ r.inbox = inbox' /\ r.doing = doing' /\ r.endpoint = endpoint' /\ r.promised = promised'
  BY NextFields
<1>3. /\ r.home = m.home /\ r.named = m.named /\ r.owner = m.owner /\ r.owned = m.owned /\ r.plugged = m.plugged
      /\ r.terminating = m.terminating /\ r.acks = m.acks /\ r.sent = m.sent /\ r.processed = m.processed
      /\ r.endpoint = m.endpoint /\ r.promised = m.promised
  BY <1>1, <1>2
<1>4. CASE ~Tree!Complete(o)
  <2>1. phase' = phase /\ doing' = doing /\ inbox' = Tree!Deliver(box, posts)
    BY <1>4 DEF Tree!CheckTermAcks
  <2>2. Now' = Mid(box, posts)
    BY <2>1 DEF Now, Mid, Tree!Home, Tree!Named
  <2> QED BY <2>2
<1>5. CASE Tree!Complete(o)
  <2>1. /\ phase' = [phase EXCEPT ![o] = "leaving"] /\ doing' = [doing EXCEPT ![layout.home[o]] = <<"deleting", o>>]
        /\ inbox' = IF owner[o] # None THEN Tree!Deliver(Tree!Deliver(box, posts), Tree!Post(AckTo(owner[o]))) ELSE Tree!Deliver(box, posts)
    BY <1>5 DEF Tree!CheckTermAcks, Tree!Home, AckTo
  <2>2. Done(m, o)
    BY <1>1, <1>5 DEF Done, Tree!Complete
  <2>3. TreeTypes(m)
    BY DEF TreeLaw
  <2>4. CASE owner[o] = None
    <3>1. Moved(m, r, {}, {})
      BY <1>1, <1>2, <2>1, <2>3, <2>4, MovedNothing
    <3>2. LeavesWith(m, r, o, {})
      BY <1>1, <1>2, <1>3, <2>1, <2>4 DEF LeavesWith
    <3> QED BY <2>2, <3>1, <3>2, DoneLaw
  <2>5. CASE owner[o] # None
    <3> PICK x : x = AckTo(owner[o])
      OBVIOUS
    <3>1. owner[o] \in Object
      BY <1>1, <2>3, <2>5 DEF TreeTypes
    <3>2. x \in Tree!Command
      BY <3>1, CommandFacts
    <3> DEFINE P == {x}
    <3>3. Posted(m.home, Tree!Post(x), P)
      BY <1>1, <3>2, PostedOne DEF Tree!Home
    <3>4. Left(m, {}, m.inbox)
      BY DEF Left
    <3>5. r.inbox = Tree!Deliver(m.inbox, Tree!Post(x))
      BY <1>1, <1>2, <2>1, <2>5
    <3>6. \A y : y \in P <=> m.owner[o] # None /\ y = AckTo(m.owner[o])
      BY <1>1, <2>5
    <3> HIDE DEF P
    <3>7. Moved(m, r, {}, P)
      BY <2>3, <3>3, <3>4, <3>5, MovedPosts
    <3>8. LeavesWith(m, r, o, P)
      BY <1>1, <1>2, <1>3, <2>1, <3>6 DEF LeavesWith
    <3> QED BY <2>2, <3>7, <3>8, DoneLaw
  <2> QED BY <2>4, <2>5
<1> QED BY <1>4, <1>5

HeadIs(s, t, x) ==
  /\ x \in Tree!Command /\ x[2] \in Object /\ s.home[x[2]] = t /\ Alive(s, x[2])
  /\ x[1] \in {"own", "term_req"} => x[3] \in Object \ {Root} /\ s.owner[x[3]] = x[2]
  /\ x[1] \in {"plug", "bind", "term", "term_ack"} => x[3] = None
  /\ x[1] = "term" => x[2] # Root

LEMMA HeadFacts ==
  ASSUME NEW s, TreeLaw(s), NEW t \in Thread, s.inbox[t] # <<>>
  PROVE  HeadIs(s, t, First(s, t))
BY HeadSound DEF HeadIs

\* The command that a thread processes, and who it is for.
Takes(s, t, type, box, x, o) ==
  /\ s.inbox[t] # <<>> /\ First(s, t) = x /\ o = x[2] /\ x = <<type, o, x[3]>> /\ o \in Object /\ s.home[o] = t /\ Alive(s, o) /\ Ready(s, o)
  /\ type \in {"own", "term_req"} => x[3] \in Object \ {Root} /\ s.owner[x[3]] = o
  /\ type \in {"plug", "bind", "term", "term_ack"} => x[3] = None
  /\ type = "term" => o # Root
  /\ Left(s, {t}, box)

LEMMA TakesFirst ==
  ASSUME NEW s, TreeLaw(s), Fields(s), NEW t \in Thread, NEW type, Tree!Processes(t, type)
  PROVE  Takes(s, t, type, Tree!Rest(t), First(s, t), First(s, t)[2])
<1>0. PICK x : x = First(s, t)
  OBVIOUS
<1>1. TreeTypes(s)
  BY DEF TreeLaw
<1>2. s.inbox[t] # <<>> /\ x[1] = type /\ s.doing[t] = Tree!Nothing
  BY <1>0 DEF Tree!Processes, Fields, First
<1>3. HeadIs(s, t, x)
  BY <1>0, <1>2, HeadFacts
<1>4. x = <<type, x[2], x[3]>>
  BY <1>2, <1>3, CommandFacts DEF HeadIs
<1>5. Ready(s, x[2])
  BY <1>2, <1>3 DEF Ready, HeadIs
<1>6. Left(s, {t}, Tree!Rest(t))
  <2>1. s.inbox \in [Thread -> Seq(Tree!Command)] /\ s.inbox = inbox
    BY <1>1 DEF TreeTypes, Fields
  <2>2. PICK box : box = Tree!Rest(t)
    OBVIOUS
  <2>3. \A u \in Thread : box[u] = IF u \in {t} THEN Tail(s.inbox[u]) ELSE s.inbox[u]
    BY <2>1, <2>2 DEF Tree!Rest
  <2> QED BY <1>2, <2>2, <2>3 DEF Left
<1>7. Takes(s, t, type, Tree!Rest(t), x, x[2])
  BY <1>0, <1>2, <1>3, <1>4, <1>5, <1>6 DEF Takes, HeadIs
<1> QED BY <1>0, <1>7

MidIs(m, box, posts) ==
  /\ m.home = layout.home /\ m.named = layout.named /\ m.phase = phase /\ m.owner = owner /\ m.owned = owned'
  /\ m.plugged = plugged' /\ m.terminating = terminating' /\ m.acks = term_acks' /\ m.sent = sent_seqnum'
  /\ m.processed = processed_seqnum' /\ m.inbox = Tree!Deliver(box, posts) /\ m.doing = doing /\ m.endpoint = endpoint'
  /\ m.promised = promised'

\* A handler, with what it posts.
LEMMA HandlesWith ==
  ASSUME NEW s, TreeLaw(s), Fields(s), NEW K, NEW box, Left(s, K, box), NEW posts, NEW P, Posted(s.home, posts, P),
         NEW m, MidIs(m, box, posts), sent_seqnum' = sent_seqnum, promised' = promised
  PROVE  Handles(s, m) /\ Moved(s, m, K, P)
<1>1. TreeTypes(s)
  BY DEF TreeLaw
<1>2. Handles(s, m)
  BY DEF Handles, Fields, MidIs
<1>3. m.inbox = Tree!Deliver(box, posts)
  BY DEF MidIs
<1>4. Moved(s, m, K, P)
  BY <1>1, <1>3, MovedPosts
<1> QED BY <1>2, <1>4

LEMMA TreePlugStep == ASSUME TreeInv, NEW t \in Thread, Tree!ProcessPlug(t) PROVE TreeLaw(Now')
<1>a. PICK s : s = Now
  OBVIOUS
<1>b. PICK box : box = Tree!Rest(t)
  OBVIOUS
<1>c. PICK posts : posts = Tree!NoPost
  OBVIOUS
<1>d. PICK x : x = First(s, t)
  OBVIOUS
<1>e. PICK o : o = x[2]
  OBVIOUS
<1>f. PICK m : m = Mid(box, posts)
  OBVIOUS
<1>1. TreeLaw(s) /\ Fields(s) /\ layout \in Layouts
  BY <1>a, NowFields DEF TreeInv
<1>2. Takes(s, t, "plug", box, x, o)
  <2>1. Tree!Processes(t, "plug")
    BY DEF Tree!ProcessPlug
  <2> QED BY <1>1, <1>b, <1>d, <1>e, <2>1, TakesFirst
<1>3. /\ plugged' = [plugged EXCEPT ![o] = TRUE] /\ processed_seqnum' = [processed_seqnum EXCEPT ![o] = @ + 1]
      /\ owner' = owner /\ owned' = owned /\ terminating' = terminating /\ term_acks' = term_acks /\ sent_seqnum' = sent_seqnum
      /\ layout' = layout /\ endpoint' = endpoint /\ promised' = promised /\ Tree!CheckTermAcks(o, box, posts)
  <2>1. o = Tree!To(Head(inbox[t]))
    BY <1>1, <1>d, <1>e DEF First, Fields, Tree!To
  <2> QED BY <1>b, <1>c, <2>1 DEF Tree!ProcessPlug, Tree!Bump, Tree!treeVars, Tree!termVars, Tree!findVars
<1>4. MidIs(m, box, posts)
  BY <1>f, MidFields DEF MidIs
<1> DEFINE K == {t}
           P == {}
<1>5. t \in K /\ (\A u \in K : u = t) /\ (\A y : y \notin P) /\ Left(s, K, box) /\ Posted(s.home, posts, P)
  BY <1>2, <1>c, PostedNone DEF Takes
<1> HIDE DEF K, P
<1>6. Handles(s, m) /\ Moved(s, m, K, P)
  BY <1>1, <1>3, <1>4, <1>5, HandlesWith
<1>7. s.inbox[t] # <<>> /\ o \in Object /\ Alive(s, o) /\ Ready(s, o) /\ First(s, t) = PlugTo(o)
  BY <1>2 DEF Takes, PlugTo
<1>8. /\ m.owned = s.owned /\ m.terminating = s.terminating /\ m.endpoint = s.endpoint
      /\ m.plugged = (IF First(s, t) = PlugTo(o) THEN [s.plugged EXCEPT ![o] = TRUE] ELSE s.plugged) /\ m.processed = [s.processed EXCEPT ![o] = @ + 1] /\ m.acks = s.acks
  BY <1>1, <1>3, <1>4, <1>7 DEF Fields, MidIs
<1>9. TreeLaw(m)
  BY <1>1, <1>5, <1>6, <1>7, <1>8, CountedLaw
<1>10. Alive(m, o) /\ Ready(m, o)
  BY <1>6, <1>7 DEF Handles, Alive, Ready
<1> QED BY <1>1, <1>3, <1>7, <1>9, <1>10, <1>f, CheckLaw

LEMMA TreeBindStep == ASSUME TreeInv, NEW t \in Thread, Tree!ProcessBind(t) PROVE TreeLaw(Now')
<1>a. PICK s : s = Now
  OBVIOUS
<1>b. PICK box : box = Tree!Rest(t)
  OBVIOUS
<1>c. PICK posts : posts = Tree!NoPost
  OBVIOUS
<1>d. PICK x : x = First(s, t)
  OBVIOUS
<1>e. PICK o : o = x[2]
  OBVIOUS
<1>f. PICK m : m = Mid(box, posts)
  OBVIOUS
<1>1. TreeLaw(s) /\ Fields(s) /\ layout \in Layouts
  BY <1>a, NowFields DEF TreeInv
<1>2. Takes(s, t, "bind", box, x, o)
  <2>1. Tree!Processes(t, "bind")
    BY DEF Tree!ProcessBind
  <2> QED BY <1>1, <1>b, <1>d, <1>e, <2>1, TakesFirst
<1>3. /\ plugged' = plugged /\ processed_seqnum' = [processed_seqnum EXCEPT ![o] = @ + 1]
      /\ owner' = owner /\ owned' = owned /\ terminating' = terminating /\ term_acks' = term_acks /\ sent_seqnum' = sent_seqnum
      /\ layout' = layout /\ endpoint' = endpoint /\ promised' = promised /\ Tree!CheckTermAcks(o, box, posts)
  <2>1. o = Tree!To(Head(inbox[t]))
    BY <1>1, <1>d, <1>e DEF First, Fields, Tree!To
  <2> QED BY <1>b, <1>c, <2>1 DEF Tree!ProcessBind, Tree!Bump, Tree!treeVars, Tree!termVars, Tree!findVars
<1>4. MidIs(m, box, posts)
  BY <1>f, MidFields DEF MidIs
<1> DEFINE K == {t}
           P == {}
<1>5. t \in K /\ (\A u \in K : u = t) /\ (\A y : y \notin P) /\ Left(s, K, box) /\ Posted(s.home, posts, P)
  BY <1>2, <1>c, PostedNone DEF Takes
<1> HIDE DEF K, P
<1>6. Handles(s, m) /\ Moved(s, m, K, P)
  BY <1>1, <1>3, <1>4, <1>5, HandlesWith
<1>7. s.inbox[t] # <<>> /\ o \in Object /\ Alive(s, o) /\ Ready(s, o) /\ First(s, t) = BindTo(o)
  BY <1>2 DEF Takes, BindTo
<1>8. /\ m.owned = s.owned /\ m.terminating = s.terminating /\ m.endpoint = s.endpoint
      /\ m.plugged = (IF First(s, t) = PlugTo(o) THEN [s.plugged EXCEPT ![o] = TRUE] ELSE s.plugged) /\ m.processed = [s.processed EXCEPT ![o] = @ + 1] /\ m.acks = s.acks
  BY <1>1, <1>3, <1>4, <1>7 DEF Fields, MidIs, PlugTo, BindTo
<1>9. TreeLaw(m)
  BY <1>1, <1>5, <1>6, <1>7, <1>8, CountedLaw
<1>10. Alive(m, o) /\ Ready(m, o)
  BY <1>6, <1>7 DEF Handles, Alive, Ready
<1> QED BY <1>1, <1>3, <1>7, <1>9, <1>10, <1>f, CheckLaw

LEMMA TreeTermAckStep == ASSUME TreeInv, NEW t \in Thread, Tree!ProcessTermAck(t) PROVE TreeLaw(Now')
<1>a. PICK s : s = Now
  OBVIOUS
<1>b. PICK box : box = Tree!Rest(t)
  OBVIOUS
<1>c. PICK posts : posts = Tree!NoPost
  OBVIOUS
<1>d. PICK x : x = First(s, t)
  OBVIOUS
<1>e. PICK o : o = x[2]
  OBVIOUS
<1>f. PICK m : m = Mid(box, posts)
  OBVIOUS
<1>1. TreeLaw(s) /\ Fields(s) /\ layout \in Layouts
  BY <1>a, NowFields DEF TreeInv
<1>2. Takes(s, t, "term_ack", box, x, o)
  <2>1. Tree!Processes(t, "term_ack")
    BY DEF Tree!ProcessTermAck
  <2> QED BY <1>1, <1>b, <1>d, <1>e, <2>1, TakesFirst
<1>3. /\ plugged' = plugged /\ processed_seqnum' = processed_seqnum
      /\ owner' = owner /\ owned' = owned /\ terminating' = terminating /\ term_acks' = [term_acks EXCEPT ![o] = @ - 1] /\ sent_seqnum' = sent_seqnum
      /\ layout' = layout /\ endpoint' = endpoint /\ promised' = promised /\ Tree!CheckTermAcks(o, box, posts)
  <2>1. o = Tree!To(Head(inbox[t]))
    BY <1>1, <1>d, <1>e DEF First, Fields, Tree!To
  <2> QED BY <1>b, <1>c, <2>1 DEF Tree!ProcessTermAck, Tree!Bump, Tree!treeVars, Tree!termVars, Tree!findVars
<1>4. MidIs(m, box, posts)
  BY <1>f, MidFields DEF MidIs
<1> DEFINE K == {t}
           P == {}
<1>5. t \in K /\ (\A u \in K : u = t) /\ (\A y : y \notin P) /\ Left(s, K, box) /\ Posted(s.home, posts, P)
  BY <1>2, <1>c, PostedNone DEF Takes
<1> HIDE DEF K, P
<1>6. Handles(s, m) /\ Moved(s, m, K, P)
  BY <1>1, <1>3, <1>4, <1>5, HandlesWith
<1>7. s.inbox[t] # <<>> /\ o \in Object /\ Alive(s, o) /\ Ready(s, o) /\ First(s, t) = AckTo(o)
  BY <1>2 DEF Takes, AckTo
<1>8. /\ m.owned = s.owned /\ m.terminating = s.terminating /\ m.endpoint = s.endpoint
      /\ m.plugged = s.plugged /\ m.processed = s.processed /\ m.acks = [s.acks EXCEPT ![o] = @ - 1]
  BY <1>1, <1>3, <1>4, <1>7 DEF Fields, MidIs
<1>9. TreeLaw(m)
  BY <1>1, <1>5, <1>6, <1>7, <1>8, AckLaw
<1>10. Alive(m, o) /\ Ready(m, o)
  BY <1>6, <1>7 DEF Handles, Alive, Ready
<1> QED BY <1>1, <1>3, <1>7, <1>9, <1>10, <1>f, CheckLaw

LEMMA OnePosted ==
  ASSUME NEW s, Fields(s), layout \in Layouts, NEW x \in Tree!Command
  PROVE  Posted(s.home, Tree!Post(x), {x})
<1>1. s.home = Tree!Home
  BY DEF Fields, Tree!Home
<1>2. Posted(Tree!Home, Tree!Post(x), {x})
  BY PostedOne
<1> QED BY <1>1, <1>2

LEMMA TreeOwnStep == ASSUME TreeInv, NEW t \in Thread, Tree!ProcessOwn(t) PROVE TreeLaw(Now')
<1>a. PICK s : s = Now
  OBVIOUS
<1>b. PICK box : box = Tree!Rest(t)
  OBVIOUS
<1>d. PICK x : x = First(s, t)
  OBVIOUS
<1>e. PICK o : o = x[2]
  OBVIOUS
<1>g. PICK c : c = x[3]
  OBVIOUS
<1>c. PICK posts : posts = IF terminating[o] THEN Tree!Post(TermFor(c)) ELSE Tree!NoPost
  OBVIOUS
<1>f. PICK m : m = Mid(box, posts)
  OBVIOUS
<1>1. TreeLaw(s) /\ Fields(s) /\ layout \in Layouts
  BY <1>a, NowFields DEF TreeInv
<1>2. Takes(s, t, "own", box, x, o)
  <2>1. Tree!Processes(t, "own")
    BY DEF Tree!ProcessOwn
  <2> QED BY <1>1, <1>b, <1>d, <1>e, <2>1, TakesFirst
<1>3. /\ plugged' = plugged /\ processed_seqnum' = [processed_seqnum EXCEPT ![o] = @ + 1]
      /\ terminating[o] => term_acks' = [term_acks EXCEPT ![o] = @ + 1] /\ owned' = owned
      /\ ~terminating[o] => owned' = [owned EXCEPT ![o] = @ \union {c}] /\ term_acks' = term_acks
      /\ owner' = owner /\ terminating' = terminating /\ sent_seqnum' = sent_seqnum
      /\ layout' = layout /\ endpoint' = endpoint /\ promised' = promised /\ Tree!CheckTermAcks(o, box, posts)
  <2>1. o = Tree!To(Head(inbox[t])) /\ c = Head(inbox[t])[3]
    BY <1>1, <1>d, <1>e, <1>g DEF First, Fields, Tree!To
  <2>2. posts = IF terminating[o] THEN Tree!Post(<<"term", c, None>>) ELSE Tree!NoPost
    BY <1>c DEF TermFor
  <2> QED BY <1>b, <2>1, <2>2 DEF Tree!ProcessOwn, Tree!Bump, Tree!findVars
<1>4. MidIs(m, box, posts)
  BY <1>f, MidFields DEF MidIs
<1>7. s.inbox[t] # <<>> /\ o \in Object /\ c \in Object /\ Alive(s, o) /\ Ready(s, o) /\ First(s, t) = OwnTo(o, c)
  BY <1>2, <1>g DEF Takes, OwnTo
<1> DEFINE K == {t}
<1>5. t \in K /\ (\A u \in K : u = t) /\ Left(s, K, box)
  BY <1>2 DEF Takes
<1> HIDE DEF K
<1>8. m.terminating = s.terminating /\ m.endpoint = s.endpoint /\ m.plugged = s.plugged /\ m.processed = [s.processed EXCEPT ![o] = @ + 1]
  BY <1>1, <1>3, <1>4 DEF Fields, MidIs
<1>9. Handles(s, m) /\ TreeLaw(m)
  <2>1. CASE terminating[o]
    <3> DEFINE P == {TermFor(c)}
    <3>1. TermFor(c) \in P /\ (\A y \in P : y = TermFor(c))
      OBVIOUS
    <3>2. Posted(s.home, posts, P)
      <4>1. posts = Tree!Post(TermFor(c)) /\ TermFor(c) \in Tree!Command
        BY <1>7, <1>c, <2>1, CommandFacts
      <4> QED BY <1>1, <4>1, OnePosted
    <3> HIDE DEF P
    <3>3. Handles(s, m) /\ Moved(s, m, K, P)
      BY <1>1, <1>3, <1>4, <1>5, <3>2, HandlesWith
    <3>4. s.terminating[o] /\ m.owned = s.owned /\ m.acks = [s.acks EXCEPT ![o] = @ + 1]
      BY <1>1, <1>3, <1>4, <2>1 DEF Fields, MidIs
    <3>5. TellsChild(s, m, t, o, c)
      BY <1>7, <1>8, <3>4 DEF TellsChild
    <3>6. TreeLaw(m)
      BY <1>1, <1>5, <1>7, <1>8, <3>1, <3>3, <3>4, <3>5, TellsLaw
    <3> QED BY <3>3, <3>6
  <2>2. CASE ~terminating[o]
    <3> DEFINE P == {}
    <3>1. \A y : y \notin P
      OBVIOUS
    <3>2. Posted(s.home, posts, P)
      BY <1>c, <2>2, PostedNone
    <3> HIDE DEF P
    <3>3. Handles(s, m) /\ Moved(s, m, K, P)
      BY <1>1, <1>3, <1>4, <1>5, <3>2, HandlesWith
    <3>4. ~s.terminating[o] /\ m.owned = [s.owned EXCEPT ![o] = @ \union {c}] /\ m.acks = s.acks
      BY <1>1, <1>3, <1>4, <2>2 DEF Fields, MidIs
    <3>6. TreeLaw(m)
      BY <1>1, <1>5, <1>7, <1>8, <3>1, <3>3, <3>4, OwnedLaw
    <3> QED BY <3>3, <3>6
  <2> QED BY <2>1, <2>2
<1>10. Alive(m, o) /\ Ready(m, o)
  BY <1>7, <1>9 DEF Handles, Alive, Ready
<1> QED BY <1>1, <1>3, <1>7, <1>9, <1>10, <1>f, CheckLaw

LEMMA MidNow ==
  ASSUME NEW box, NEW posts, inbox' = Tree!Deliver(box, posts), layout' = layout, phase' = phase, owner' = owner, doing' = doing
  PROVE  Now' = Mid(box, posts)
BY DEF Now, Mid, Tree!Home, Tree!Named

LEMMA TreeTermReqStep == ASSUME TreeInv, NEW t \in Thread, Tree!ProcessTermReq(t) PROVE TreeLaw(Now')
<1>a. PICK s : s = Now
  OBVIOUS
<1>b. PICK box : box = Tree!Rest(t)
  OBVIOUS
<1>d. PICK x : x = First(s, t)
  OBVIOUS
<1>e. PICK o : o = x[2]
  OBVIOUS
<1>g. PICK c : c = x[3]
  OBVIOUS
<1> DEFINE known == ~terminating[o] /\ c \in owned[o]
<1>c. PICK posts : posts = IF known THEN Tree!Post(TermFor(c)) ELSE Tree!NoPost
  OBVIOUS
<1>f. PICK m : m = Mid(box, posts)
  OBVIOUS
<1>1. TreeLaw(s) /\ Fields(s) /\ layout \in Layouts
  BY <1>a, NowFields DEF TreeInv
<1>2. Takes(s, t, "term_req", box, x, o)
  <2>1. Tree!Processes(t, "term_req")
    BY DEF Tree!ProcessTermReq
  <2> QED BY <1>1, <1>b, <1>d, <1>e, <2>1, TakesFirst
<1>3. /\ plugged' = plugged /\ processed_seqnum' = processed_seqnum
      /\ owned' = [owned EXCEPT ![o] = IF known THEN @ \ {c} ELSE @]
      /\ term_acks' = IF known THEN [term_acks EXCEPT ![o] = @ + 1] ELSE term_acks
      /\ owner' = owner /\ terminating' = terminating /\ sent_seqnum' = sent_seqnum
      /\ layout' = layout /\ endpoint' = endpoint /\ promised' = promised /\ phase' = phase /\ doing' = doing
      /\ inbox' = Tree!Deliver(box, posts)
  <2>1. o = Tree!To(Head(inbox[t])) /\ c = Head(inbox[t])[3]
    BY <1>1, <1>d, <1>e, <1>g DEF First, Fields, Tree!To
  <2>2. posts = IF known THEN Tree!Post(<<"term", c, None>>) ELSE Tree!NoPost
    BY <1>c DEF TermFor
  <2> QED BY <1>b, <2>1, <2>2 DEF Tree!ProcessTermReq, Tree!Bump, Tree!findVars
<1>4. MidIs(m, box, posts)
  BY <1>f, MidFields DEF MidIs
<1>7. s.inbox[t] # <<>> /\ o \in Object /\ c \in Object /\ Alive(s, o) /\ Ready(s, o) /\ First(s, t) = ReqOf(o, c)
  BY <1>2, <1>g DEF Takes, ReqOf
<1> DEFINE K == {t}
<1>5. t \in K /\ (\A u \in K : u = t) /\ Left(s, K, box)
  BY <1>2 DEF Takes
<1> HIDE DEF K
<1>8. m.terminating = s.terminating /\ m.endpoint = s.endpoint /\ m.plugged = s.plugged /\ m.processed = s.processed
  BY <1>1, <1>3, <1>4 DEF Fields, MidIs
<1>9. TreeLaw(m)
  <2>1. CASE known
    <3> DEFINE P == {TermFor(c)}
    <3>1. TermFor(c) \in P /\ (\A y \in P : y = TermFor(c))
      OBVIOUS
    <3>2. Posted(s.home, posts, P)
      <4>1. posts = Tree!Post(TermFor(c)) /\ TermFor(c) \in Tree!Command
        BY <1>7, <1>c, <2>1, CommandFacts
      <4> QED BY <1>1, <4>1, OnePosted
    <3> HIDE DEF P
    <3>3. Handles(s, m) /\ Moved(s, m, K, P)
      BY <1>1, <1>3, <1>4, <1>5, <3>2, HandlesWith
    <3>4. ~s.terminating[o] /\ c \in s.owned[o] /\ m.owned = [s.owned EXCEPT ![o] = @ \ {c}] /\ m.acks = [s.acks EXCEPT ![o] = @ + 1]
      BY <1>1, <1>3, <1>4, <2>1 DEF Fields, MidIs
    <3>5. TellsChild(s, m, t, o, c)
      BY <1>7, <1>8, <3>4 DEF TellsChild
    <3> QED BY <1>1, <1>5, <1>7, <1>8, <3>1, <3>3, <3>4, <3>5, TellsLaw
  <2>2. CASE ~known
    <3> DEFINE P == {}
    <3>1. \A y : y \notin P
      OBVIOUS
    <3>2. Posted(s.home, posts, P)
      BY <1>c, <2>2, PostedNone
    <3> HIDE DEF P
    <3>3. Handles(s, m) /\ Moved(s, m, K, P)
      BY <1>1, <1>3, <1>4, <1>5, <3>2, HandlesWith
    <3>4. m.owned = s.owned /\ m.acks = s.acks
      <4>1. s.owned \in [Object -> SUBSET Object]
        BY <1>1 DEF TreeLaw, TreeTypes
      <4> QED BY <1>1, <1>3, <1>4, <2>2, <4>1 DEF Fields, MidIs
    <3>5. First(s, t)[1] = "term_req"
      BY <1>7 DEF ReqOf
    <3> QED BY <1>1, <1>5, <1>7, <1>8, <3>1, <3>3, <3>4, <3>5, IgnoredLaw
  <2> QED BY <2>1, <2>2
<1> QED BY <1>3, <1>9, <1>f, MidNow

LEMMA TermOwnedStep ==
  ASSUME NEW s, TreeLaw(s), Fields(s), layout \in Layouts, NEW o \in Object, NEW K, NEW box, Left(s, K, box), Alive(s, o), Ready(s, o),
         ~s.terminating[o], \A u \in K : First(s, u) = TermFor(o) /\ s.home[o] = u, o = Root \/ s.home[o] \in K, Tree!TermOwned(o, box)
  PROVE  TreeLaw(Now')
<1>a. PICK W : W = owned[o]
  OBVIOUS
<1>c. PICK posts : posts = Tree!TermTo(W)
  OBVIOUS
<1>f. PICK m : m = Mid(box, posts)
  OBVIOUS
<1>1. W \subseteq Object /\ W = s.owned[o]
  <2>1. s.owned \in [Object -> SUBSET Object]
    BY DEF TreeLaw, TreeTypes
  <2> QED BY <1>a, <2>1 DEF Fields
<1>2. Tree!Cardinality(W) = Cardinality(W)
  BY DEF Tree!Cardinality, Cardinality
<1>3. /\ plugged' = plugged /\ processed_seqnum' = processed_seqnum /\ term_acks' = [term_acks EXCEPT ![o] = @ + Cardinality(W)]
      /\ owned' = [owned EXCEPT ![o] = {}] /\ terminating' = [terminating EXCEPT ![o] = TRUE]
      /\ owner' = owner /\ sent_seqnum' = sent_seqnum
      /\ layout' = layout /\ endpoint' = (endpoint /\ o # Root) /\ promised' = promised /\ Tree!CheckTermAcks(o, box, posts)
  BY <1>a, <1>c, <1>2 DEF Tree!TermOwned
<1>4. MidIs(m, box, posts)
  BY <1>f, MidFields DEF MidIs
<1> DEFINE P == {TermFor(c) : c \in W}
<1>5. Posted(s.home, posts, P)
  <2>1. s.home = Tree!Home
    BY DEF Fields, Tree!Home
  <2>2. Posted(Tree!Home, Tree!TermTo(W), P)
    BY <1>1, PostedTerms
  <2> QED BY <1>c, <2>1, <2>2
<1>6. \A y : y \in P <=> \E c \in s.owned[o] : y = TermFor(c)
  BY <1>1
<1> HIDE DEF P
<1>7. Handles(s, m) /\ Moved(s, m, K, P)
  BY <1>3, <1>4, <1>5, HandlesWith
<1>8. /\ m.acks = [s.acks EXCEPT ![o] = @ + Cardinality(s.owned[o])] /\ m.owned = [s.owned EXCEPT ![o] = {}]
      /\ m.terminating = [s.terminating EXCEPT ![o] = TRUE] /\ m.endpoint = (s.endpoint /\ o # Root)
      /\ m.plugged = s.plugged /\ m.processed = s.processed
  BY <1>1, <1>3, <1>4 DEF Fields, MidIs
<1>9. TellsAll(s, m, o, K, P)
  BY <1>6, <1>8 DEF TellsAll
<1>10. TreeLaw(m)
  BY <1>7, <1>9, TermLaw
<1>11. Alive(m, o) /\ Ready(m, o)
  BY <1>7 DEF Handles, Alive, Ready
<1> QED BY <1>3, <1>10, <1>11, <1>f, CheckLaw

LEMMA TreeTermStep == ASSUME TreeInv, NEW t \in Thread, Tree!ProcessTerm(t) PROVE TreeLaw(Now')
<1>a. PICK s : s = Now
  OBVIOUS
<1>b. PICK box : box = Tree!Rest(t)
  OBVIOUS
<1>d. PICK x : x = First(s, t)
  OBVIOUS
<1>e. PICK o : o = x[2]
  OBVIOUS
<1>1. TreeLaw(s) /\ Fields(s) /\ layout \in Layouts
  BY <1>a, NowFields DEF TreeInv
<1>2. Takes(s, t, "term", box, x, o)
  <2>1. Tree!Processes(t, "term")
    BY DEF Tree!ProcessTerm
  <2> QED BY <1>1, <1>b, <1>d, <1>e, <2>1, TakesFirst
<1>3. Tree!TermOwned(o, box)
  <2>1. o = Tree!To(Head(inbox[t]))
    BY <1>1, <1>d, <1>e DEF First, Fields, Tree!To
  <2> QED BY <1>b, <2>1 DEF Tree!ProcessTerm
<1>4. /\ s.inbox[t] # <<>> /\ o \in Object /\ Alive(s, o) /\ Ready(s, o) /\ First(s, t) = TermFor(o) /\ s.home[o] = t /\ o # Root
      /\ Left(s, {t}, box)
  BY <1>2 DEF Takes, TermFor
<1>5. ~s.terminating[o]
  <2>1. Hits(Box(s, o), {TermFor(o)}) # 0
    <3>1. Box(s, o) \in Seq(Tree!Command) /\ Box(s, o) # <<>> /\ Head(Box(s, o)) = TermFor(o) /\ TreeTypes(s)
      BY <1>1, <1>4, HitsOfBox DEF Box, First, TreeLaw
    <3>2. 1 \in 1..Len(Box(s, o)) /\ Box(s, o)[1] \in {TermFor(o)}
      BY <3>1
    <3> QED BY <1>4, <3>1, <3>2, HitsOfBox
  <2>2. Born(s, o)
    BY <1>4 DEF Born, Alive
  <2>3. OnePlace(s, o)
    BY <1>1, <1>4, <2>2, OneStage
  <2> QED BY <2>1, <2>3 DEF OnePlace, TermsTo
<1> DEFINE K == {t}
<1>6. Left(s, K, box) /\ (\A u \in K : First(s, u) = TermFor(o) /\ s.home[o] = u) /\ s.home[o] \in K
  BY <1>4
<1> HIDE DEF K
<1> QED BY <1>1, <1>3, <1>4, <1>5, <1>6, TermOwnedStep

LEMMA TreeCloseStep == ASSUME TreeInv, Tree!Close PROVE TreeLaw(Now')
<1>a. PICK s : s = Now
  OBVIOUS
<1>b. PICK box : box = inbox
  OBVIOUS
<1>1. TreeLaw(s) /\ Fields(s) /\ layout \in Layouts
  BY <1>a, NowFields DEF TreeInv
<1>2. Alive(s, Root) /\ Ready(s, Root) /\ ~s.terminating[Root] /\ Root \in Object
  BY <1>1, TreeFacts DEF Tree!Close, Tree!Runs, Fields, Alive, Ready, Tree!Home, Tree!Nothing
<1>3. Tree!TermOwned(Root, box)
  BY <1>b DEF Tree!Close
<1> DEFINE K == {}
<1>4. Left(s, K, box) /\ (\A u \in K : First(s, u) = TermFor(Root) /\ s.home[Root] = u)
  BY <1>1, <1>b DEF Left, Fields
<1> HIDE DEF K
<1> QED BY <1>1, <1>2, <1>3, <1>4, TermOwnedStep

LEMMA WholeBox == ASSUME NEW s, Fields(s), NEW K, \A u : u \notin K PROVE Left(s, K, inbox)
BY DEF Left, Fields

LEMMA RunsFacts ==
  ASSUME NEW s, Fields(s), NEW o \in Object, Tree!Runs(o)
  PROVE  Alive(s, o) /\ Ready(s, o) /\ s.plugged[o]
BY DEF Tree!Runs, Fields, Alive, Ready, Tree!Home, Tree!Nothing

LEMMA SameNow ==
  ASSUME TreeInv, layout' = layout, phase' = phase, owner' = owner, owned' = owned, plugged' = plugged, terminating' = terminating,
         term_acks' = term_acks, sent_seqnum' = sent_seqnum, processed_seqnum' = processed_seqnum, inbox' = inbox,
         doing' = doing, endpoint' = endpoint, promised' = promised
  PROVE  TreeLaw(Now')
<1>1. Now' = Now
  BY DEF Now, Tree!Home, Tree!Named
<1> QED BY <1>1 DEF TreeInv

LEMMA TreeTerminateStep == ASSUME TreeInv, NEW o \in Object, Tree!Terminate(o) PROVE TreeLaw(Now')
<1>a. PICK s : s = Now
  OBVIOUS
<1>1. TreeLaw(s) /\ Fields(s) /\ layout \in Layouts
  BY <1>a, NowFields DEF TreeInv
<1>2. /\ layout' = layout /\ phase' = phase /\ owner' = owner /\ owned' = owned /\ plugged' = plugged /\ terminating' = terminating
      /\ term_acks' = term_acks /\ sent_seqnum' = sent_seqnum /\ processed_seqnum' = processed_seqnum
      /\ doing' = doing /\ endpoint' = endpoint /\ promised' = promised /\ o # Root /\ Tree!Runs(o)
      /\ terminating[o] => inbox' = inbox
      /\ ~terminating[o] => inbox' = Tree!Deliver(inbox, Tree!Post(ReqOf(owner[o], o)))
  BY DEF Tree!Terminate, Tree!Send, Tree!treeVars, Tree!termVars, Tree!findVars, ReqOf
<1>3. CASE terminating[o]
  BY <1>2, <1>3, SameNow
<1>4. CASE ~terminating[o]
  <2>b. PICK x : x = ReqOf(s.owner[o], o)
    OBVIOUS
  <2>c. PICK posts : posts = Tree!Post(x)
    OBVIOUS
  <2>e. PICK box : box = inbox
    OBVIOUS
  <2>f. PICK m : m = Mid(box, posts)
    OBVIOUS
  <2>1. MidIs(m, box, posts)
    BY <2>f, MidFields DEF MidIs
  <2>2. Alive(s, o) /\ s.owner[o] \in Object /\ x \in Tree!Command
    <3>1. Alive(s, o)
      BY <1>1, <1>2, RunsFacts
    <3>2. s.owner[o] \in Object
      BY <1>1, <1>2, <3>1 DEF TreeLaw, TreeBirth, Born, Alive
    <3> QED BY <2>b, <3>1, <3>2, CommandFacts
  <2> DEFINE K == {}
             P == {x}
  <2>3. (\A u : u \notin K) /\ x \in P /\ (\A y \in P : y = x) /\ Posted(s.home, posts, P)
    BY <1>1, <2>2, <2>c, OnePosted
  <2> HIDE DEF K, P
  <2>4. Left(s, K, box)
    BY <1>1, <2>3, <2>e, WholeBox
  <2>5. Handles(s, m) /\ Moved(s, m, K, P)
    BY <1>1, <1>2, <2>1, <2>3, <2>4, HandlesWith
  <2>6. m.owned = s.owned /\ m.terminating = s.terminating /\ m.acks = s.acks /\ m.endpoint = s.endpoint /\ m.plugged = s.plugged /\ m.processed = s.processed
    BY <1>1, <1>2, <2>1 DEF Fields, MidIs
  <2>7. ReqOf(s.owner[o], o) \in P /\ \A y \in P : y = ReqOf(s.owner[o], o)
    BY <2>b, <2>3
  <2>8. TreeLaw(m)
    BY <1>1, <2>2, <2>3, <2>5, <2>6, <2>7, RequestLaw
  <2>9. inbox' = Tree!Deliver(box, posts)
    BY <1>1, <1>2, <1>4, <2>b, <2>c, <2>e DEF Fields
  <2> QED BY <1>2, <2>8, <2>9, <2>f, MidNow
<1> QED BY <1>3, <1>4

LEMMA TreeLaunchStep ==
  ASSUME TreeInv, NEW o \in Object, NEW p \in Object, NEW c \in Object, Tree!Launch(o, p, c),
         p = o \/ (owner[o] = p /\ ~terminating[o]), c \in Tree!Named => p # Root
  PROVE  TreeLaw(Now')
<1>a. PICK s : s = Now
  OBVIOUS
<1>b. PICK r : r = Now'
  OBVIOUS
<1>c. PICK posts : posts = Tree!Post(PlugTo(c))
  OBVIOUS
<1>d. PICK box : box = inbox
  OBVIOUS
<1>1. TreeLaw(s) /\ TreeTypes(s) /\ Fields(s) /\ layout \in Layouts
  BY <1>a, NowFields DEF TreeInv, TreeLaw
<1>2. /\ layout' = layout /\ owned' = owned /\ plugged' = plugged /\ terminating' = terminating
      /\ term_acks' = term_acks /\ processed_seqnum' = processed_seqnum /\ endpoint' = endpoint /\ promised' = promised
      /\ Tree!Runs(o) /\ phase[c] = "unborn" /\ phase' = [phase EXCEPT ![c] = "alive"] /\ owner' = [owner EXCEPT ![c] = p]
      /\ sent_seqnum' = [sent_seqnum EXCEPT ![c] = @ + 1] /\ inbox' = Tree!Deliver(box, posts)
      /\ doing' = [doing EXCEPT ![layout.home[o]] = <<"launching", OwnTo(p, c)>>]
  BY <1>c, <1>d DEF Tree!Launch, Tree!Send, Tree!Bump, Tree!termVars, Tree!findVars, Tree!Home, OwnTo, PlugTo
<1>3. /\ r.home = layout'.home /\ r.named = layout'.named /\ r.phase = phase' /\ r.owner = owner' /\ r.owned = owned'
      /\ r.plugged = plugged' /\ r.terminating = terminating' /\ r.acks = term_acks' /\ r.sent = sent_seqnum'
      /\ r.processed = processed_seqnum' /\ r.inbox = inbox' /\ r.doing = doing' /\ r.endpoint = endpoint' /\ r.promised = promised'
  BY <1>b, NextFields
<1>4. Alive(s, o) /\ Ready(s, o)
  BY <1>1, <1>2, RunsFacts
<1>5. PlugTo(c) \in Tree!Command
  BY CommandFacts
<1> DEFINE K == {}
           P == {PlugTo(c)}
<1>6. (\A u : u \notin K) /\ PlugTo(c) \in P /\ (\A y \in P : y = PlugTo(c)) /\ Posted(s.home, posts, P)
  BY <1>1, <1>5, <1>c, OnePosted
<1> HIDE DEF K, P
<1>7. Left(s, K, box)
  BY <1>1, <1>6, <1>d, WholeBox
<1>8. Moved(s, r, K, P)
  <2>1. r.inbox = Tree!Deliver(box, posts)
    BY <1>2, <1>3
  <2> QED BY <1>1, <1>6, <1>7, <2>1, MovedPosts
<1>9. Launches(s, r, o, p, c, P)
  <2>1. p = o \/ (s.owner[o] = p /\ ~s.terminating[o])
    BY <1>1 DEF Fields
  <2>2. c \in s.named => p # Root
    BY <1>1 DEF Fields, Tree!Named
  <2>3. /\ r.home = s.home /\ r.named = s.named /\ r.owned = s.owned /\ r.plugged = s.plugged
        /\ r.terminating = s.terminating /\ r.acks = s.acks /\ r.processed = s.processed
        /\ r.endpoint = s.endpoint /\ r.promised = s.promised /\ s.phase[c] = "unborn"
        /\ r.phase = [s.phase EXCEPT ![c] = "alive"] /\ r.owner = [s.owner EXCEPT ![c] = p]
        /\ r.sent = [s.sent EXCEPT ![c] = @ + 1]
        /\ r.doing = [s.doing EXCEPT ![s.home[o]] = <<"launching", OwnTo(p, c)>>]
    BY <1>1, <1>2, <1>3 DEF Fields
  <2> QED BY <1>4, <1>6, <2>1, <2>2, <2>3 DEF Launches
<1>10. TreeLaw(r)
  BY <1>1, <1>6, <1>8, <1>9, LaunchLaw
<1> QED BY <1>10, <1>b

LEMMA TreeLaunchRestStep == ASSUME TreeInv, NEW t \in Thread, Tree!LaunchRest(t) PROVE TreeLaw(Now')
<1>a. PICK s : s = Now
  OBVIOUS
<1>b. PICK r : r = Now'
  OBVIOUS
<1>1. TreeLaw(s) /\ TreeTypes(s) /\ Fields(s) /\ layout \in Layouts
  BY <1>a, NowFields DEF TreeInv, TreeLaw
<1>e. PICK p \in Object, c \in Object : doing[t] = <<"launching", OwnTo(p, c)>>
  <2>1. doing[t] \in Doing /\ doing[t][1] = "launching"
    BY <1>1 DEF TreeTypes, Fields, Tree!LaunchRest
  <2> QED BY <2>1 DEF Doing, OwnTo, Tree!Nothing
<1>f. PICK x : x = OwnTo(p, c)
  OBVIOUS
<1>c. PICK posts : posts = Tree!Post(x)
  OBVIOUS
<1>d. PICK box : box = inbox
  OBVIOUS
<1>5. x \in Tree!Command /\ x[2] = p
  BY <1>f, CommandFacts
<1>2. /\ layout' = layout /\ phase' = phase /\ owner' = owner /\ owned' = owned /\ plugged' = plugged /\ terminating' = terminating
      /\ term_acks' = term_acks /\ processed_seqnum' = processed_seqnum /\ endpoint' = endpoint /\ promised' = promised
      /\ sent_seqnum' = [sent_seqnum EXCEPT ![p] = @ + 1] /\ inbox' = Tree!Deliver(box, posts)
      /\ doing' = [doing EXCEPT ![t] = Tree!Nothing]
  <2>1. doing[t][2] = x
    BY <1>e, <1>f
  <2> QED BY <1>5, <1>c, <1>d, <2>1 DEF Tree!LaunchRest, Tree!Send, Tree!Bump, Tree!To, Tree!treeVars, Tree!termVars, Tree!findVars
<1>3. /\ r.home = layout'.home /\ r.named = layout'.named /\ r.phase = phase' /\ r.owner = owner' /\ r.owned = owned'
      /\ r.plugged = plugged' /\ r.terminating = terminating' /\ r.acks = term_acks' /\ r.sent = sent_seqnum'
      /\ r.processed = processed_seqnum' /\ r.inbox = inbox' /\ r.doing = doing' /\ r.endpoint = endpoint' /\ r.promised = promised'
  BY <1>b, NextFields
<1>4. Launching(s, t, p, c)
  BY <1>1, <1>e DEF Launching, Fields
<1> DEFINE K == {}
           P == {x}
<1>6. (\A u : u \notin K) /\ OwnTo(p, c) \in P /\ (\A y \in P : y = OwnTo(p, c)) /\ Posted(s.home, posts, P)
  BY <1>1, <1>5, <1>c, <1>f, OnePosted
<1> HIDE DEF K, P
<1>7. Left(s, K, box)
  BY <1>1, <1>6, <1>d, WholeBox
<1>8. Moved(s, r, K, P)
  <2>1. r.inbox = Tree!Deliver(box, posts)
    BY <1>2, <1>3
  <2> QED BY <1>1, <1>6, <1>7, <2>1, MovedPosts
<1>9. Launched(s, r, t, p, c, P)
  BY <1>1, <1>2, <1>3, <1>6 DEF Launched, Fields
<1>10. TreeLaw(r)
  BY <1>1, <1>4, <1>6, <1>8, <1>9, LaunchRestLaw
<1> QED BY <1>10, <1>b

LEMMA TreeDeleteStep == ASSUME TreeInv, NEW t \in Thread, Tree!Delete(t) PROVE TreeLaw(Now')
<1>a. PICK s : s = Now
  OBVIOUS
<1>b. PICK r : r = Now'
  OBVIOUS
<1>1. TreeLaw(s) /\ TreeTypes(s) /\ Fields(s)
  BY <1>a, NowFields DEF TreeInv, TreeLaw
<1>e. PICK o \in Object : doing[t] = <<"deleting", o>>
  <2>1. doing[t] \in Doing /\ doing[t][1] = "deleting"
    BY <1>1 DEF TreeTypes, Fields, Tree!Delete
  <2> QED BY <2>1 DEF Doing, Tree!Nothing
<1>2. /\ layout' = layout /\ owner' = owner /\ owned' = owned /\ plugged' = plugged /\ terminating' = terminating
      /\ term_acks' = term_acks /\ sent_seqnum' = sent_seqnum /\ processed_seqnum' = processed_seqnum /\ inbox' = inbox
      /\ endpoint' = endpoint /\ promised' = promised
      /\ phase' = [phase EXCEPT ![o] = "gone"] /\ doing' = [doing EXCEPT ![t] = Tree!Nothing]
  BY <1>e DEF Tree!Delete, Tree!treeVars, Tree!termVars, Tree!findVars
<1>3. /\ r.home = layout'.home /\ r.named = layout'.named /\ r.phase = phase' /\ r.owner = owner' /\ r.owned = owned'
      /\ r.plugged = plugged' /\ r.terminating = terminating' /\ r.acks = term_acks' /\ r.sent = sent_seqnum'
      /\ r.processed = processed_seqnum' /\ r.inbox = inbox' /\ r.doing = doing' /\ r.endpoint = endpoint' /\ r.promised = promised'
  BY <1>b, NextFields
<1>4. /\ r.home = s.home /\ r.named = s.named /\ r.owner = s.owner /\ r.owned = s.owned /\ r.plugged = s.plugged
      /\ r.terminating = s.terminating /\ r.acks = s.acks /\ r.sent = s.sent /\ r.processed = s.processed /\ r.inbox = s.inbox
      /\ r.endpoint = s.endpoint /\ r.promised = s.promised /\ s.doing[t] = <<"deleting", o>>
      /\ r.phase = [s.phase EXCEPT ![o] = "gone"] /\ r.doing = [s.doing EXCEPT ![t] = Tree!Nothing]
  BY <1>1, <1>2, <1>3, <1>e DEF Fields
<1>5. TreeLaw(r)
  BY <1>1, <1>4, DeleteLaw
<1> QED BY <1>5, <1>b

LEMMA DeliverTwice ==
  ASSUME NEW box \in [Thread -> Seq(Tree!Command)], NEW p \in [Thread -> Seq(Tree!Command)], NEW q \in [Thread -> Seq(Tree!Command)]
  PROVE  Tree!Deliver(Tree!Deliver(box, p), q) = Tree!Deliver(box, Tree!Deliver(p, q))
<1>1. \A t \in Thread : (box[t] \o p[t]) \o q[t] = box[t] \o (p[t] \o q[t])
  <2> SUFFICES ASSUME NEW t \in Thread PROVE (box[t] \o p[t]) \o q[t] = box[t] \o (p[t] \o q[t])
    OBVIOUS
  <2>1. box[t] \in Seq(Tree!Command) /\ p[t] \in Seq(Tree!Command) /\ q[t] \in Seq(Tree!Command)
    OBVIOUS
  <2> QED BY <2>1, ConcatAssociative
<1>2. PICK pq : pq = Tree!Deliver(p, q)
  OBVIOUS
<1>3. PICK bp : bp = Tree!Deliver(box, p)
  OBVIOUS
<1>4. \A t \in Thread : pq[t] = p[t] \o q[t] /\ bp[t] = box[t] \o p[t]
  BY <1>2, <1>3 DEF Tree!Deliver
<1>5. \A t \in Thread : bp[t] \o q[t] = box[t] \o pq[t]
  <2> SUFFICES ASSUME NEW t \in Thread PROVE bp[t] \o q[t] = box[t] \o pq[t]
    OBVIOUS
  <2> QED BY Zenon, <1>1, <1>4
<1>6. Tree!Deliver(bp, q) = Tree!Deliver(box, pq)
  BY Zenon, <1>5 DEF Tree!Deliver
<1> QED BY <1>2, <1>3, <1>6

LEMMA TreeFindEndpointStep == ASSUME TreeInv, Tree!FindEndpoint PROVE TreeLaw(Now')
<1>a. PICK s : s = Now
  OBVIOUS
<1>b. PICK r : r = Now'
  OBVIOUS
<1>1. TreeLaw(s) /\ TreeTypes(s) /\ Fields(s)
  BY <1>a, NowFields DEF TreeInv, TreeLaw
<1>2. /\ layout' = layout /\ phase' = phase /\ owner' = owner /\ owned' = owned /\ plugged' = plugged /\ terminating' = terminating
      /\ term_acks' = term_acks /\ processed_seqnum' = processed_seqnum /\ inbox' = inbox /\ doing' = doing
      /\ endpoint' = endpoint /\ endpoint /\ promised' = promised + 1 /\ sent_seqnum' = [sent_seqnum EXCEPT ![Root] = @ + 1]
  BY DEF Tree!FindEndpoint, Tree!Bump, Tree!treeVars, Tree!termVars
<1>3. /\ r.home = layout'.home /\ r.named = layout'.named /\ r.phase = phase' /\ r.owner = owner' /\ r.owned = owned'
      /\ r.plugged = plugged' /\ r.terminating = terminating' /\ r.acks = term_acks' /\ r.sent = sent_seqnum'
      /\ r.processed = processed_seqnum' /\ r.inbox = inbox' /\ r.doing = doing' /\ r.endpoint = endpoint' /\ r.promised = promised'
  BY <1>b, NextFields
<1>4. Apart(s, r) /\ r.inbox = s.inbox /\ s.endpoint /\ r.sent = [s.sent EXCEPT ![Root] = @ + 1] /\ r.promised = s.promised + 1
  BY <1>1, <1>2, <1>3 DEF Fields, Apart
<1> DEFINE K == {}
           P == {}
<1>5. (\A u : u \notin K) /\ (\A y : y \notin P) /\ Moved(s, r, K, P)
  BY <1>1, <1>4, MovedNothing
<1> HIDE DEF K, P
<1>6. TreeLaw(r)
  BY <1>1, <1>4, <1>5, FindEndpointLaw
<1> QED BY <1>6, <1>b

LEMMA TreePromisedStep == ASSUME TreeInv, Tree!Bind PROVE TreeLaw(Now')
<1>a. PICK s : s = Now
  OBVIOUS
<1>b. PICK r : r = Now'
  OBVIOUS
<1>f. PICK x : x = BindTo(Root)
  OBVIOUS
<1>c. PICK posts : posts = Tree!Post(x)
  OBVIOUS
<1>d. PICK box : box = inbox
  OBVIOUS
<1>1. TreeLaw(s) /\ TreeTypes(s) /\ Fields(s) /\ layout \in Layouts
  BY <1>a, NowFields DEF TreeInv, TreeLaw
<1>2. /\ layout' = layout /\ phase' = phase /\ owner' = owner /\ owned' = owned /\ plugged' = plugged /\ terminating' = terminating
      /\ term_acks' = term_acks /\ processed_seqnum' = processed_seqnum /\ sent_seqnum' = sent_seqnum /\ doing' = doing
      /\ endpoint' = endpoint /\ promised > 0 /\ promised' = promised - 1 /\ inbox' = Tree!Deliver(box, posts)
  BY <1>c, <1>d, <1>f DEF Tree!Bind, Tree!Send, BindTo, Tree!treeVars, Tree!termVars
<1>3. /\ r.home = layout'.home /\ r.named = layout'.named /\ r.phase = phase' /\ r.owner = owner' /\ r.owned = owned'
      /\ r.plugged = plugged' /\ r.terminating = terminating' /\ r.acks = term_acks' /\ r.sent = sent_seqnum'
      /\ r.processed = processed_seqnum' /\ r.inbox = inbox' /\ r.doing = doing' /\ r.endpoint = endpoint' /\ r.promised = promised'
  BY <1>b, NextFields
<1>4. Apart(s, r) /\ s.promised > 0 /\ r.sent = s.sent /\ r.promised = s.promised - 1
  BY <1>1, <1>2, <1>3 DEF Fields, Apart
<1>5. x \in Tree!Command
  BY <1>f, CommandFacts, TreeFacts
<1> DEFINE K == {}
           P == {x}
<1>6. (\A u : u \notin K) /\ BindTo(Root) \in P /\ (\A y \in P : y = BindTo(Root)) /\ Posted(s.home, posts, P)
  BY <1>1, <1>5, <1>c, <1>f, OnePosted
<1> HIDE DEF K, P
<1>7. Left(s, K, box)
  BY <1>1, <1>6, <1>d, WholeBox
<1>8. Moved(s, r, K, P)
  <2>1. r.inbox = Tree!Deliver(box, posts)
    BY <1>2, <1>3
  <2> QED BY <1>1, <1>6, <1>7, <2>1, MovedPosts
<1>9. TreeLaw(r)
  BY <1>1, <1>4, <1>6, <1>8, BindLaw
<1> QED BY <1>9, <1>b

LEMMA TreeFindSessionStep == ASSUME TreeInv, NEW i \in Object, NEW o \in Object, Tree!FindSession(i, o) PROVE TreeLaw(Now')
<1>a. PICK s : s = Now
  OBVIOUS
<1>b. PICK r : r = Now'
  OBVIOUS
<1>f. PICK x : x = BindTo(o)
  OBVIOUS
<1>g. PICK z : z = ReqOf(s.owner[i], i)
  OBVIOUS
<1>c. PICK p1 : p1 = Tree!Post(x)
  OBVIOUS
<1>h. PICK p2 : p2 = IF s.terminating[i] THEN Tree!NoPost ELSE Tree!Post(z)
  OBVIOUS
<1>k. PICK posts : posts = Tree!Deliver(p1, p2)
  OBVIOUS
<1>d. PICK box : box = inbox
  OBVIOUS
<1>1. TreeLaw(s) /\ TreeTypes(s) /\ Fields(s) /\ layout \in Layouts
  BY <1>a, NowFields DEF TreeInv, TreeLaw
<1>2. /\ layout' = layout /\ phase' = phase /\ owner' = owner /\ owned' = owned /\ plugged' = plugged /\ terminating' = terminating
      /\ term_acks' = term_acks /\ processed_seqnum' = processed_seqnum /\ sent_seqnum' = [sent_seqnum EXCEPT ![o] = @ + 1] /\ doing' = doing
      /\ endpoint' = endpoint /\ promised' = promised
      /\ Tree!Runs(i) /\ owner[i] = owner[o] /\ o \in layout.named /\ phase[o] \in {"alive", "leaving"}
      /\ inbox' = Tree!Deliver(Tree!Deliver(box, p1), p2)
  <2>1. Tree!Post(z) = Tree!Post(<<"term_req", owner[i], i>>) /\ (s.terminating[i] <=> terminating[i])
    BY <1>1, <1>g DEF Fields, ReqOf
  <2>2. p2 = IF terminating[i] THEN Tree!NoPost ELSE Tree!Post(<<"term_req", owner[i], i>>)
    BY <1>h, <2>1
  <2>3. p1 = Tree!Post(<<"bind", o, None>>)
    BY <1>c, <1>f DEF BindTo
  <2> QED BY <1>d, <2>2, <2>3 DEF Tree!FindSession, Tree!Bump, Tree!Registered, Tree!Named, Tree!treeVars, Tree!termVars, Tree!findVars
<1>3. /\ r.home = layout'.home /\ r.named = layout'.named /\ r.phase = phase' /\ r.owner = owner' /\ r.owned = owned'
      /\ r.plugged = plugged' /\ r.terminating = terminating' /\ r.acks = term_acks' /\ r.sent = sent_seqnum'
      /\ r.processed = processed_seqnum' /\ r.inbox = inbox' /\ r.doing = doing' /\ r.endpoint = endpoint' /\ r.promised = promised'
  BY <1>b, NextFields
<1>4. Apart(s, r) /\ r.sent = [s.sent EXCEPT ![o] = @ + 1] /\ r.promised = s.promised
  BY <1>1, <1>2, <1>3 DEF Fields, Apart
<1>5. /\ Alive(s, i) /\ Alive(s, o) /\ o # Root /\ s.owner[i] \in Object
  <2>1. Alive(s, i) /\ Ready(s, i)
    BY <1>1, <1>2, RunsFacts
  <2>2. o \in s.named /\ s.phase[o] \in {"alive", "leaving"} /\ s.owner[i] = s.owner[o]
    BY <1>1, <1>2 DEF Fields
  <2>3. o # Root /\ \A a, b \in Object \ {Root} : s.home[a] = s.home[b]
    BY <1>1, <2>2 DEF TreeTypes
  <2>4. s.owner[o] \in Object
    <3>1. Born(s, o)
      BY <2>2 DEF Born
    <3> QED BY <1>1, <2>3, <3>1 DEF TreeLaw, TreeBirth
  <2>5. i # Root
    BY <1>1, <2>2, <2>4, ChildFacts
  <2>6. Alive(s, o)
    <3>1. s.home[i] = s.home[o]
      BY <2>3, <2>5
    <3>2. s.doing[s.home[o]] = Tree!Nothing
      BY <2>1, <3>1 DEF Ready
    <3>3. s.phase[o] # "leaving"
      BY <1>1, <3>2, ThreadFacts DEF Tree!Nothing
    <3> QED BY <2>2, <3>3 DEF Alive
  <2> QED BY <2>1, <2>2, <2>3, <2>4, <2>6
<1>6. x \in Tree!Command /\ z \in Tree!Command /\ x # z
  BY <1>5, <1>f, <1>g, CommandFacts
<1>7. PICK Z : Posted(s.home, p2, Z) /\ (\A y \in Z : y = z)
  <2>1. CASE s.terminating[i]
    <3>1. Posted(s.home, p2, {})
      BY <1>h, <2>1, PostedNone
    <3> QED BY <3>1
  <2>2. CASE ~s.terminating[i]
    <3>1. Posted(s.home, p2, {z})
      BY <1>1, <1>6, <1>h, <2>2, OnePosted
    <3> QED BY <3>1
  <2> QED BY <2>1, <2>2
<1> DEFINE K == {}
           X == {x}
           P == X \union Z
<1>8. Posted(s.home, p1, X) /\ X \intersect Z = {}
  BY <1>1, <1>6, <1>7, <1>c, OnePosted
<1>9. (\A u : u \notin K) /\ BindTo(o) \in P /\ (\A y \in P : y = BindTo(o) \/ y = ReqOf(s.owner[i], i))
  BY <1>7, <1>f, <1>g
<1>10. Posted(s.home, posts, P)
  <2> HIDE DEF X
  <2> QED BY <1>7, <1>8, <1>k, PostedBoth
<1> HIDE DEF K, P, X
<1>11. Left(s, K, box)
  BY <1>1, <1>9, <1>d, WholeBox
<1>12. r.inbox = Tree!Deliver(box, posts)
  <2>1. box \in [Thread -> Seq(Tree!Command)]
    BY <1>1, <1>d DEF TreeTypes, Fields
  <2>2. p1 \in [Thread -> Seq(Tree!Command)] /\ p2 \in [Thread -> Seq(Tree!Command)]
    BY <1>7, <1>8 DEF Posted
  <2>3. Tree!Deliver(Tree!Deliver(box, p1), p2) = Tree!Deliver(box, Tree!Deliver(p1, p2))
    BY <2>1, <2>2, DeliverTwice
  <2> QED BY <1>2, <1>3, <1>k, <2>3
<1>13. Moved(s, r, K, P)
  BY <1>1, <1>10, <1>11, <1>12, MovedPosts
<1>14. TreeLaw(r)
  BY <1>1, <1>4, <1>5, <1>9, <1>13, FindSessionLaw
<1> QED BY <1>14, <1>b

LEMMA TreeStart == ASSUME Tree!Init PROVE TreeInv
<1>a. PICK s : s = Now
  OBVIOUS
<1>1. Fields(s)
  BY <1>a, NowFields
<1>2. /\ layout \in Layouts /\ s.phase = [o \in Object |-> IF o = Root THEN "alive" ELSE "unborn"]
      /\ s.owner = [o \in Object |-> None] /\ s.owned = [o \in Object |-> {}] /\ s.plugged = [o \in Object |-> o = Root]
      /\ s.terminating = [o \in Object |-> FALSE] /\ s.acks = [o \in Object |-> 0]
      /\ s.sent = [o \in Object |-> 0] /\ s.processed = [o \in Object |-> 0] /\ requested = {}
      /\ s.inbox = [t \in Thread |-> <<>>] /\ s.doing = [t \in Thread |-> Tree!Nothing]
      /\ s.endpoint = TRUE /\ s.promised = 0 /\ finds = 0 /\ promised = 0
  BY <1>1 DEF Tree!Init, Fields
<1>3. Root \in Object /\ None \notin Object
  BY TreeFacts
<1>4. TreeTypes(s)
  <2>1. /\ s.home \in [Object -> Thread] /\ s.named \subseteq Object \ {Root}
        /\ s.named = {} \/ \A o, p \in Object \ {Root} : s.home[o] = s.home[p]
    BY <1>1, <1>2, TreeFacts DEF Fields
  <2>2. s.inbox \in [Thread -> Seq(Tree!Command)]
    BY <1>2
  <2>3. s.doing \in [Thread -> Doing]
    BY <1>2 DEF Doing
  <2>4. s.phase \in [Object -> {"unborn", "alive", "leaving", "gone"}]
    BY <1>2
  <2>5. s.owner \in [Object -> Object \union {None}]
    BY <1>2
  <2>6. s.owned \in [Object -> SUBSET Object]
    BY <1>2
  <2>7. s.plugged \in [Object -> BOOLEAN] /\ s.terminating \in [Object -> BOOLEAN]
    BY <1>2
  <2>8. s.acks \in [Object -> Nat] /\ s.sent \in [Object -> Nat] /\ s.processed \in [Object -> Nat]
    BY <1>2
  <2>9. s.promised \in Nat
    BY <1>2
  <2>10. s.endpoint \in BOOLEAN
    BY Zenon, <1>2
  <2> QED BY Zenon, <2>1, <2>2, <2>3, <2>4, <2>5, <2>6, <2>7, <2>8, <2>9, <2>10 DEF TreeTypes
<1>5. \A o \in Object : (Born(s, o) <=> o = Root) /\ ~Over(s, o) /\ (Alive(s, o) <=> o = Root)
  BY <1>2 DEF Born, Over, Alive
<1>6. TreeBirth(s)
  <2>1. \A S \in SUBSET (Object \ {Root}) : ~(S # {} /\ (\A o \in S : s.owner[o] \in Object))
    BY <1>2, <1>3
  <2>2. \A c \in s.named : s.owner[c] # Root
    BY <1>2, <1>3, <1>4 DEF TreeTypes
  <2> QED BY <1>2, <1>3, <1>5, <2>1, <2>2 DEF TreeBirth
<1>7. \A t \in Thread : s.inbox[t] = <<>> /\ s.doing[t] = Tree!Nothing
  BY <1>2
<1>8. TreeCommands(s)
  BY <1>7 DEF TreeCommands
<1>9. TreePlugged(s)
  BY <1>2, <1>5 DEF TreePlugged
<1>10. TreeThreads(s)
  <2>1. \A t \in Thread, p, c \in Object : ~Launching(s, t, p, c) /\ s.doing[t] # <<"deleting", c>>
    BY <1>7 DEF Launching, Tree!Nothing
  <2>2. \A o \in Object : s.phase[o] # "leaving"
    BY <1>2
  <2> QED BY <2>1, <2>2 DEF TreeThreads
<1>11. TreeStages(s)
  BY <1>2, <1>5 DEF TreeStages
<1>12. TreeCounts(s)
  <2> SUFFICES ASSUME NEW o \in Object PROVE SentRight(s, o) /\ AcksRight(s, o)
    BY DEF TreeCounts
  <2>1. \A D : Hits(Box(s, o), D) = 0
    <3>1. Box(s, o) = <<>>
      BY <1>4, <1>7 DEF Box, TreeTypes
    <3>2. \A D : Hits(Box(s, o), D) = 0 \/ \E j \in 1..Len(Box(s, o)) : Box(s, o)[j] \in D
      BY <1>4, HitsOfBox
    <3> QED BY <3>1, <3>2
  <2>2. Termed(s, o) = {}
    BY <1>2, <1>3 DEF Termed
  <2>3. Cardinality(Termed(s, o)) = 0
    BY <2>2, FS_EmptySet
  <2> QED BY <1>2, <2>1, <2>3 DEF SentRight, AcksRight
<1>13. TreeEnds(s)
  BY <1>2, <1>3, <1>5 DEF TreeEnds
<1>14. TreeLaw(s)
  BY <1>4, <1>6, <1>8, <1>9, <1>10, <1>11, <1>12, <1>13 DEF TreeLaw
<1>15. finds \in 0..Tree!MaxFinds /\ promised <= finds
  <2>1. Tree!MaxFinds \in Nat
    BY <1>2, TreeFacts DEF Tree!MaxFinds
  <2> QED BY <1>2, <2>1
<1> QED BY <1>2, <1>14, <1>15, <1>a DEF TreeInv

LEMMA TreeRest ==
  ASSUME TreeInv, TreeLaw(Now'), layout' = layout, requested' \subseteq Object, finds' = finds, promised' <= promised
  PROVE  TreeInv'
<1>1. promised \in Nat
  BY NowFields DEF TreeInv, TreeLaw, TreeTypes, Fields
<1>2. promised' \in Nat
  <2>1. PICK r : r = Now'
    OBVIOUS
  <2>2. r.promised = promised'
    BY <2>1, NextFields
  <2> QED BY <2>1, <2>2 DEF TreeLaw, TreeTypes
<1>3. Tree!MaxFinds' = Tree!MaxFinds /\ Tree!MaxFinds \in Nat
  BY TreeFacts DEF Tree!MaxFinds, TreeInv
<1> QED BY <1>1, <1>2, <1>3 DEF TreeInv

LEMMA TreeProcessing == ASSUME TreeInv, NEW t \in Thread, Tree!Processing(t) PROVE TreeInv'
<1>1. TreeLaw(Now')
  BY TreePlugStep, TreeOwnStep, TreeTermReqStep, TreeTermStep, TreeTermAckStep, TreeBindStep DEF Tree!Processing
<1>2. layout' = layout /\ requested' = requested /\ finds' = finds /\ promised' = promised
  BY DEF Tree!Processing, Tree!ProcessPlug, Tree!ProcessOwn, Tree!ProcessTermReq, Tree!ProcessTerm, Tree!ProcessTermAck,
         Tree!ProcessBind, Tree!TermOwned, Tree!findVars
<1>3. requested \subseteq Object /\ promised \in Nat
  BY NowFields DEF TreeInv, TreeLaw, TreeTypes, Fields
<1> QED BY <1>1, <1>2, <1>3, TreeRest

LEMMA TreeStep == ASSUME TreeInv, Tree!Next PROVE TreeInv'
<1>0. requested \subseteq Object /\ promised \in Nat /\ layout \in Layouts
  BY NowFields DEF TreeInv, TreeLaw, TreeTypes, Fields
<1>1. ASSUME NEW o \in Object, NEW c \in Object, Tree!LaunchChild(o, c) PROVE TreeInv'
  <2>1. TreeLaw(Now')
    BY <1>1, TreeLaunchStep DEF Tree!LaunchChild
  <2>2. layout' = layout /\ requested' = requested /\ finds' = finds /\ promised' = promised
    BY <1>1 DEF Tree!LaunchChild, Tree!Launch, Tree!findVars
  <2> QED BY <1>0, <2>1, <2>2, TreeRest
<1>2. ASSUME NEW o \in Object, NEW c \in Object, Tree!LaunchSibling(o, c) PROVE TreeInv'
  <2>a. PICK p : p = owner[o]
    OBVIOUS
  <2>0. Tree!Launch(o, p, c) /\ o # Root /\ ~terminating[o] /\ (c \in Tree!Named => p # Root)
    BY <1>2, <2>a DEF Tree!LaunchSibling
  <2>1. p \in Object
    <3>1. PICK s : s = Now
      OBVIOUS
    <3>2. Fields(s) /\ TreeLaw(s)
      BY <3>1, NowFields DEF TreeInv
    <3>3. Born(s, o)
      BY <2>0, <3>2, RunsFacts DEF Tree!Launch, Born, Alive
    <3> QED BY <2>0, <2>a, <3>2, <3>3 DEF TreeLaw, TreeBirth, Fields
  <2>2. TreeLaw(Now')
    BY <2>0, <2>1, <2>a, TreeLaunchStep
  <2>3. layout' = layout /\ requested' = requested /\ finds' = finds /\ promised' = promised
    BY <2>0 DEF Tree!Launch, Tree!findVars
  <2> QED BY <1>0, <2>2, <2>3, TreeRest
<1>3. ASSUME NEW i \in Object, NEW o \in Object, Tree!FindSession(i, o) PROVE TreeInv'
  <2>1. TreeLaw(Now')
    BY <1>3, TreeFindSessionStep
  <2>2. layout' = layout /\ requested' = requested \union {i} /\ finds' = finds /\ promised' = promised
    BY <1>3 DEF Tree!FindSession, Tree!findVars
  <2> QED BY <1>0, <2>1, <2>2, TreeRest
<1>4. ASSUME NEW o \in Object, Tree!Terminate(o) PROVE TreeInv'
  <2>1. TreeLaw(Now')
    BY <1>4, TreeTerminateStep
  <2>2. layout' = layout /\ requested' = requested \union {o} /\ finds' = finds /\ promised' = promised
    BY <1>4 DEF Tree!Terminate, Tree!findVars
  <2> QED BY <1>0, <2>1, <2>2, TreeRest
<1>5. ASSUME Tree!Close PROVE TreeInv'
  <2>1. TreeLaw(Now')
    BY <1>5, TreeCloseStep
  <2>2. layout' = layout /\ requested' = requested /\ finds' = finds /\ promised' = promised
    BY <1>5 DEF Tree!Close, Tree!TermOwned
  <2> QED BY <1>0, <2>1, <2>2, TreeRest
<1>6. ASSUME Tree!FindEndpoint PROVE TreeInv'
  <2>1. TreeLaw(Now')
    BY <1>6, TreeFindEndpointStep
  <2>2. layout' = layout /\ requested' = requested /\ finds < Tree!MaxFinds /\ finds' = finds + 1 /\ promised' = promised + 1
    BY <1>6 DEF Tree!FindEndpoint
  <2>3. Tree!MaxFinds' = Tree!MaxFinds /\ Tree!MaxFinds \in Nat
    BY <1>0, <2>2, TreeFacts DEF Tree!MaxFinds
  <2>4. finds' \in 0..Tree!MaxFinds' /\ promised' <= finds'
    BY <1>0, <2>2, <2>3 DEF TreeInv
  <2> QED BY <1>0, <2>1, <2>2, <2>4 DEF TreeInv
<1>7. ASSUME Tree!Bind PROVE TreeInv'
  <2>1. TreeLaw(Now')
    BY <1>7, TreePromisedStep
  <2>2. layout' = layout /\ requested' = requested /\ finds' = finds /\ promised' = promised - 1
    BY <1>7 DEF Tree!Bind
  <2> QED BY <1>0, <2>1, <2>2, TreeRest
<1>8. ASSUME NEW t \in Thread, Tree!LaunchRest(t) PROVE TreeInv'
  <2>1. TreeLaw(Now')
    BY <1>8, TreeLaunchRestStep
  <2>2. layout' = layout /\ requested' = requested /\ finds' = finds /\ promised' = promised
    BY <1>8 DEF Tree!LaunchRest, Tree!findVars
  <2> QED BY <1>0, <2>1, <2>2, TreeRest
<1>9. ASSUME NEW t \in Thread, Tree!Delete(t) PROVE TreeInv'
  <2>1. TreeLaw(Now')
    BY <1>9, TreeDeleteStep
  <2>2. layout' = layout /\ requested' = requested /\ finds' = finds /\ promised' = promised
    BY <1>9 DEF Tree!Delete, Tree!findVars
  <2> QED BY <1>0, <2>1, <2>2, TreeRest
<1> QED BY <1>1, <1>2, <1>3, <1>4, <1>5, <1>6, <1>7, <1>8, <1>9, TreeProcessing DEF Tree!Next

LEMMA TreeStutter == ASSUME TreeInv, UNCHANGED ownVars PROVE TreeInv'
<1>1. /\ layout' = layout /\ phase' = phase /\ owner' = owner /\ owned' = owned /\ plugged' = plugged /\ terminating' = terminating
      /\ term_acks' = term_acks /\ sent_seqnum' = sent_seqnum /\ processed_seqnum' = processed_seqnum /\ requested' = requested
      /\ inbox' = inbox /\ doing' = doing /\ endpoint' = endpoint /\ promised' = promised /\ finds' = finds
  BY DEF ownVars
<1>2. TreeLaw(Now')
  BY <1>1, SameNow
<1>3. requested \subseteq Object /\ promised \in Nat
  BY NowFields DEF TreeInv, TreeLaw, TreeTypes, Fields
<1> QED BY <1>1, <1>2, <1>3, TreeRest

(***************************************************************************)
(* What follows for the tree.                                              *)
(***************************************************************************)
LEMMA HeadPlugged ==
  ASSUME NEW s, TreeLaw(s), NEW t \in Thread, s.inbox[t] # <<>>, NEW x, x = First(s, t)
  PROVE  x[1] = "plug" \/ s.plugged[x[2]]
BY HeadSound

LEMMA TreeIsSound == ASSUME TreeInv PROVE Tree!OwnSound
<1>a. PICK s : s = Now
  OBVIOUS
<1>1. TreeLaw(s) /\ TreeTypes(s) /\ Fields(s) /\ layout \in Layouts /\ requested \subseteq Object
  BY <1>a, NowFields DEF TreeInv, TreeLaw
<1>2. ASSUME NEW o \in Object
      PROVE  /\ Hits(Box(s, o), Counted(o)) \in Nat /\ s.processed[o] \in Nat /\ s.sent[o] \in Nat
             /\ s.sent[o] = s.processed[o] + Hits(Box(s, o), Counted(o)) + (IF o = Root THEN s.promised ELSE 0)
             /\ s.promised \in Nat
  BY <1>1, HitsOfBox DEF TreeLaw, TreeCounts, SentRight, TreeTypes
<1>3. Tree!TypeOK
  <2>1. \A o \in Object : processed_seqnum[o] <= sent_seqnum[o]
    <3> SUFFICES ASSUME NEW o \in Object PROVE s.processed[o] <= s.sent[o]
      BY <1>1 DEF Fields
    <3> DEFINE h == Hits(Box(s, o), Counted(o))
    <3>1. h \in Nat /\ s.processed[o] \in Nat /\ s.promised \in Nat /\ s.sent[o] = s.processed[o] + h + (IF o = Root THEN s.promised ELSE 0)
      BY <1>2
    <3> HIDE DEF h
    <3> QED BY <3>1
  <2>2. \A t \in Thread : doing[t] = Tree!Nothing \/ doing[t][1] \in {"launching", "deleting"}
    <3> SUFFICES ASSUME NEW t \in Thread PROVE doing[t] = Tree!Nothing \/ doing[t][1] \in {"launching", "deleting"}
      OBVIOUS
    <3>1. doing[t] \in Doing
      BY <1>1 DEF TreeTypes, Fields
    <3> QED BY <3>1 DEF Doing
  <2>3. promised \in 0..Tree!MaxFinds /\ finds \in 0..Tree!MaxFinds
    <3>1. Tree!MaxFinds \in Nat
      BY <1>1, TreeFacts DEF Tree!MaxFinds
    <3>2. promised \in Nat
      BY <1>1 DEF TreeTypes, Fields
    <3> QED BY <3>1, <3>2 DEF TreeInv
  <2>4. /\ phase \in [Object -> {"unborn", "alive", "leaving", "gone"}]
        /\ owner \in [Object -> Object \union {None}] /\ owned \in [Object -> SUBSET Object]
        /\ plugged \in [Object -> BOOLEAN] /\ terminating \in [Object -> BOOLEAN]
        /\ term_acks \in [Object -> Nat] /\ sent_seqnum \in [Object -> Nat] /\ processed_seqnum \in [Object -> Nat]
        /\ inbox \in [Thread -> Seq(Tree!Command)] /\ endpoint \in BOOLEAN
    BY <1>1 DEF TreeTypes, Fields
  <2> QED BY <1>1, <2>1, <2>2, <2>3, <2>4 DEF Tree!TypeOK
<1>4. Tree!NoCommandToGone
  <2>1. ASSUME NEW cmd \in Tree!Underway PROVE phase[Tree!To(cmd)] = "alive"
    <3>1. PICK t \in Thread : \E j \in DOMAIN inbox[t] : inbox[t][j] = cmd
      BY DEF Tree!Underway
    <3>2. PICK j \in DOMAIN inbox[t] : inbox[t][j] = cmd
      BY <3>1
    <3>3. s.inbox[t] \in Seq(Tree!Command) /\ s.inbox = inbox
      BY <1>1 DEF TreeTypes, Fields
    <3>4. j \in 1..Len(s.inbox[t])
      BY <3>2, <3>3, LenProperties
    <3>5. CommandSound(s, t, j)
      BY <1>1, <3>4 DEF TreeLaw, TreeCommands
    <3>6. Alive(s, cmd[2])
      BY <3>2, <3>3, <3>5 DEF CommandSound
    <3> QED BY <1>1, <3>6 DEF Alive, Fields, Tree!To
  <2>2. promised > 0 => phase[Root] = "alive"
    <3>1. Root \in Object /\ Born(s, Root)
      BY <1>1, TreeFacts DEF TreeLaw, TreeBirth
    <3>2. ASSUME Over(s, Root), promised > 0 PROVE FALSE
      <4>1. s.sent[Root] = s.processed[Root]
        BY <1>1, <3>1, <3>2 DEF TreeLaw, TreeEnds
      <4> DEFINE h == Hits(Box(s, Root), Counted(Root))
      <4>2. h \in Nat /\ s.processed[Root] \in Nat /\ s.sent[Root] = s.processed[Root] + h + s.promised
        BY <1>2, <3>1
      <4>3. s.promised = promised /\ promised \in Nat
        BY <1>1 DEF Fields, TreeTypes
      <4> HIDE DEF h
      <4> QED BY <3>2, <4>1, <4>2, <4>3
    <3> QED BY <1>1, <3>1, <3>2 DEF Born, Over, TreeTypes, Fields
  <2>3. ASSUME NEW t \in Thread, doing[t][1] = "launching" PROVE phase[Tree!To(doing[t][2])] = "alive"
    <3>1. doing[t] \in Doing
      BY <1>1 DEF TreeTypes, Fields
    <3>2. PICK p \in Object, c \in Object : doing[t] = <<"launching", OwnTo(p, c)>>
      BY <2>3, <3>1 DEF Doing, OwnTo, Tree!Nothing
    <3>3. Alive(s, p)
      BY <1>1, <3>2, ThreadFacts DEF Launching, Fields
    <3>4. Tree!To(doing[t][2]) = p
      BY <3>2, CommandFacts DEF Tree!To
    <3> QED BY <1>1, <3>3, <3>4 DEF Alive, Fields
  <2> QED BY <2>1, <2>2, <2>3 DEF Tree!NoCommandToGone
<1>5. Tree!PluggedFirst
  <2> SUFFICES ASSUME NEW t \in Thread, inbox[t] # <<>>, Head(inbox[t])[1] # "plug" PROVE plugged[Tree!To(Head(inbox[t]))]
    BY DEF Tree!PluggedFirst
  <2>1. PICK x : x = First(s, t)
    OBVIOUS
  <2>2. s.inbox[t] # <<>> /\ x = Head(inbox[t])
    BY <1>1, <2>1 DEF Fields, First
  <2>3. x[1] = "plug" \/ s.plugged[x[2]]
    BY <1>1, <2>1, <2>2, HeadPlugged
  <2> QED BY <1>1, <2>2, <2>3 DEF Fields, Tree!To
<1>6. Tree!AssertionsHold
  <2>1. ASSUME NEW t \in Thread, inbox[t] # <<>>
        PROVE  LET cmd == Head(inbox[t])
               IN /\ cmd[1] = "term" => ~terminating[Tree!To(cmd)]
                  /\ cmd[1] = "term_ack" => term_acks[Tree!To(cmd)] > 0
    <3>1. PICK x : x = First(s, t)
      OBVIOUS
    <3>a. PICK o : o = x[2]
      OBVIOUS
    <3>2. s.inbox[t] # <<>> /\ x = Head(inbox[t]) /\ o = Tree!To(x)
      BY <1>1, <2>1, <3>1, <3>a DEF Fields, First, Tree!To
    <3>3. HeadIs(s, t, x)
      BY <1>1, <3>1, <3>2, HeadFacts
    <3>4. o \in Object /\ Alive(s, o) /\ s.home[o] = t
      BY <3>3, <3>a DEF HeadIs
    <3>5. \A D : x \in D => Hits(Box(s, o), D) \in Nat /\ Hits(Box(s, o), D) # 0
      <4>1. Box(s, o) \in Seq(Tree!Command) /\ Box(s, o) # <<>> /\ Head(Box(s, o)) = x
        BY <1>1, <3>1, <3>2, <3>4, HitsOfBox DEF Box, First
      <4>2. 1 \in 1..Len(Box(s, o)) /\ Box(s, o)[1] = x
        BY <4>1
      <4> QED BY <1>1, <3>4, <4>2, HitsOfBox
    <3>6. ASSUME x[1] = "term" PROVE ~terminating[o]
      <4>1. x = TermFor(o) /\ o # Root
        BY <3>3, <3>6, <3>a, CommandFacts DEF HeadIs, TermFor
      <4>2. Hits(Box(s, o), {TermFor(o)}) # 0
        BY <3>5, <4>1
      <4>3. Born(s, o)
        BY <3>4 DEF Born, Alive
      <4>4. OnePlace(s, o)
        BY <1>1, <3>4, <4>1, <4>3, OneStage
      <4> QED BY <1>1, <4>2, <4>4 DEF OnePlace, TermsTo, Fields
    <3>7. ASSUME x[1] = "term_ack" PROVE term_acks[o] > 0
      <4>1. x = AckTo(o)
        BY <3>3, <3>7, <3>a, CommandFacts DEF HeadIs, AckTo
      <4> DEFINE h == Hits(Box(s, o), {AckTo(o)})
                 n == Cardinality(Termed(s, o))
      <4>2. h \in Nat /\ h # 0
        BY <3>5, <4>1
      <4>3. n \in Nat
        BY SetsOfObjects DEF Termed
      <4>4. s.acks[o] = n + h
        BY <1>1, <3>4 DEF TreeLaw, TreeCounts, AcksRight
      <4> HIDE DEF h, n
      <4> QED BY <1>1, <4>2, <4>3, <4>4 DEF Fields
    <3> QED BY <3>2, <3>6, <3>7
  <2>2. ASSUME NEW o \in Object, phase[o] = "leaving" PROVE owned[o] = {}
    <3>1. s.terminating[o]
      BY <1>1, <2>2 DEF TreeLaw, TreeEnds, Over, Fields
    <3> QED BY <1>1, <3>1 DEF TreeLaw, TreeStages, Fields
  <2> QED BY <2>1, <2>2 DEF Tree!AssertionsHold
<1>7. Tree!ChildrenFirst
  BY <1>1 DEF TreeLaw, TreeEnds, Over, Fields, Tree!ChildrenFirst
<1>8. Tree!NoSessionLeaks
  <2> SUFFICES ASSUME Tree!OneThread, phase[Root] = "gone", NEW o \in layout.named, phase[o] \in {"alive", "leaving"} PROVE FALSE
    BY DEF Tree!NoSessionLeaks, Tree!Registered, Tree!Named
  <2>0. /\ \A c \in Object \ {Root} : Born(s, c) => s.owner[c] \in Object
        /\ \A c \in Object : s.owner[c] \in Object => Born(s, s.owner[c])
        /\ \A S \in SUBSET (Object \ {Root}) : S # {} /\ (\A c \in S : s.owner[c] \in Object) => \E c \in S : s.owner[c] \notin S
        /\ \A c \in s.named : s.owner[c] # Root
    BY <1>1 DEF TreeLaw, TreeBirth
  <2>00. /\ \A p, c \in Object : s.owner[c] = p /\ Over(s, p) => Over(s, c)
         /\ \A p \in Object \ {Root}, c \in Object :
              s.owner[c] = p /\ Over(s, p) /\ (\A a, b \in Object \ {Root} : s.home[a] = s.home[b]) => s.phase[c] = "gone"
    BY <1>1 DEF TreeLaw, TreeEnds
  \* All that were born are over, since each is below the root.
  <2> DEFINE S == {c \in Object \ {Root} : Born(s, c) /\ ~Over(s, c)}
  <2>1. S = {}
    <3>1. S \in SUBSET (Object \ {Root}) /\ \A c \in S : s.owner[c] \in Object
      BY <2>0
    <3>2. ASSUME NEW c \in S PROVE s.owner[c] \in S
      <4>1. c \in Object /\ s.owner[c] \in Object /\ Born(s, s.owner[c]) /\ ~Over(s, c)
        BY <2>0
      <4>2. ~Over(s, s.owner[c])
        BY <2>00, <4>1
      <4>3. Over(s, Root)
        BY <1>1 DEF Over, Fields
      <4> QED BY <4>1, <4>2, <4>3
    <3> HIDE DEF S
    <3> QED BY <2>0, <3>1, <3>2
  <2>2. o \in s.named /\ o \in Object /\ o # Root /\ Born(s, o) /\ s.phase[o] # "gone"
    BY <1>1 DEF Fields, TreeTypes, Born
  <2>3. s.owner[o] \in Object /\ s.owner[o] # Root /\ Born(s, s.owner[o])
    BY <2>0, <2>2
  <2>4. Over(s, s.owner[o])
    BY <2>1, <2>3
  <2>5. \A a, b \in Object \ {Root} : s.home[a] = s.home[b]
    BY <1>1 DEF Fields, Tree!OneThread, Tree!Home
  <2> QED BY <2>00, <2>2, <2>3, <2>4, <2>5
<1> QED BY <1>3, <1>4, <1>5, <1>6, <1>7, <1>8 DEF Tree!OwnSound

\* own.cpp, object.cpp: for any number of objects and threads, the children of an
\* object go before it does, no command is under way to one that is gone, a command
\* finds its object plugged in, the assertions of own.cpp hold, and with one I/O
\* thread no session keeps its name when its socket is gone.
THEOREM TreesSoundHolds == PartsSpec => []Tree!OwnSound
<1>1. PartsInit => TreeInv
  BY TreeStart DEF PartsInit
<1>2. TreeInv /\ [PartsNext]_partVars => TreeInv'
  BY PartsKeep, TreeStep, TreeStutter
<1>3. TreeInv => Tree!OwnSound
  BY TreeIsSound
<1> QED BY <1>1, <1>2, <1>3, PTL DEF PartsSpec

\* own.cpp, ctx.cpp, reaper.cpp: objects, sockets and the context go in the right
\* order, whatever is under way between their threads.
THEOREM LifetimesSoundHolds == PartsSpec => []LifetimesSound
<1>1. Tree!OwnSound /\ Ctx!ContextSound => LifetimesSound
  BY DEF LifetimesSound
<1> QED BY <1>1, TreesSoundHolds, ContextSoundHolds, PTL
=============================================================================
