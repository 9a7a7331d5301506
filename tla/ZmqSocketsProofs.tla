--------------------------- MODULE ZmqSocketsProofs --------------------------
(***************************************************************************)
(* Proofs about the parts of ZeroMQ that hold messages: the lock-free      *)
(* queue keeps the promise of FlushedQueue, for any number of items,       *)
(* chunks and cells in a chunk, wherever malloc puts the chunks.           *)
(***************************************************************************)
EXTENDS ZmqSockets, FiniteSetTheorems, SequenceTheorems, TLAPS

LEMMA LeastNatural ==
  ASSUME NEW S \in SUBSET Nat, S # {}
  PROVE  \E x \in S : \A y \in S : x <= y
<1> DEFINE R == OpToRel(<, Nat)
<1>1. \A x, y \in Nat : <<x, y>> \in R <=> x < y
  BY DEF OpToRel
<1>2. IsWellFoundedOn(R, Nat)
  BY NatLessThanWellFounded
<1> HIDE DEF R
<1>3. PICK x \in S : \A y \in S : <<y, x>> \notin R
  BY <1>2, WFMin
<1>4. \A y \in S : x \in Nat /\ y \in Nat /\ ~(y < x)
  BY <1>1, <1>3
<1> QED BY <1>4

(***************************************************************************)
(* The queue: its cells from the front on.                                 *)
(***************************************************************************)
IsWalk(walked, n) == walked = [j \in 0..n |-> IF j = 0 THEN Y!FrontCell ELSE Y!After(walked[j - 1])]

LEMMA WalksExist == \A n \in Nat : \E walked : IsWalk(walked, n)
<1> DEFINE Bad == {n \in Nat : ~\E walked : IsWalk(walked, n)}
<1> SUFFICES ASSUME Bad # {} PROVE FALSE
  OBVIOUS
<1>1. PICK n \in Bad : \A m \in Bad : n <= m
  BY LeastNatural
<1>2. CASE n = 0
  <2>1. IsWalk([j \in 0..0 |-> Y!FrontCell], 0)
    BY DEF IsWalk
  <2> QED BY <1>1, <1>2, <2>1
<1>3. CASE n # 0
  <2>1. n \in Nat /\ n - 1 \in Nat /\ n - 1 \notin Bad
    BY <1>1, <1>3
  <2>2. PICK walked : IsWalk(walked, n - 1)
    BY <2>1
  <2> DEFINE longer == [j \in 0..n |-> IF j = n THEN Y!After(walked[n - 1]) ELSE walked[j]]
  <2>3. DOMAIN walked = 0..n - 1 /\ walked = [j \in 0..n - 1 |-> IF j = 0 THEN Y!FrontCell ELSE Y!After(walked[j - 1])]
    BY <2>2 DEF IsWalk
  <2>4. \A j \in 0..n - 1 : walked[j] = IF j = 0 THEN Y!FrontCell ELSE Y!After(walked[j - 1])
    BY <2>3
  <2>5. ASSUME NEW j \in 0..n PROVE longer[j] = IF j = 0 THEN Y!FrontCell ELSE Y!After(longer[j - 1])
    <3>1. CASE j = n
      <4>1. longer[j] = Y!After(walked[n - 1]) /\ longer[j - 1] = walked[n - 1]
        BY <3>1, <2>1
      <4> QED BY <4>1, <3>1, <1>3
    <3>2. CASE j # n
      <4>1. longer[j] = walked[j] /\ (j # 0 => longer[j - 1] = walked[j - 1])
        BY <3>2, <2>1
      <4>2. j \in 0..n - 1
        BY <3>2, <2>1
      <4>3. walked[j] = IF j = 0 THEN Y!FrontCell ELSE Y!After(walked[j - 1])
        BY <2>4, <4>2
      <4> HIDE DEF longer
      <4> QED BY <4>1, <4>3
    <3> QED BY <3>1, <3>2
  <2>6. longer = [j \in 0..n |-> longer[j]]
    OBVIOUS
  <2> HIDE DEF longer
  <2>7. IsWalk(longer, n)
    BY <2>5, <2>6 DEF IsWalk
  <2> QED BY <1>1, <2>7
<1> QED BY <1>2, <1>3

LEMMA WalksAgree ==
  ASSUME NEW n \in Nat, NEW m \in Nat, NEW one, NEW other, IsWalk(one, n), IsWalk(other, m), NEW k \in 0..n, k <= m
  PROVE  one[k] = other[k]
<1> DEFINE Bad == {j \in 0..n : j <= m /\ one[j] # other[j]}
<1> SUFFICES ASSUME Bad # {} PROVE FALSE
  OBVIOUS
<1>1. PICK j \in Bad : \A i \in Bad : j <= i
  <2>1. Bad \subseteq Nat
    OBVIOUS
  <2> QED BY <2>1, LeastNatural
<1>2. /\ \A i \in 0..n : one[i] = IF i = 0 THEN Y!FrontCell ELSE Y!After(one[i - 1])
      /\ \A i \in 0..m : other[i] = IF i = 0 THEN Y!FrontCell ELSE Y!After(other[i - 1])
  BY DEF IsWalk
<1>3. j \in 0..n /\ j \in 0..m /\ one[j] # other[j]
  BY <1>1
<1>4. one[j] = (IF j = 0 THEN Y!FrontCell ELSE Y!After(one[j - 1])) /\ other[j] = (IF j = 0 THEN Y!FrontCell ELSE Y!After(other[j - 1]))
  BY <1>2, <1>3
<1>5. CASE j = 0
  BY <1>3, <1>4, <1>5
<1>6. CASE j # 0
  <2>1. j - 1 \in 0..n /\ j - 1 <= m /\ j - 1 \notin Bad
    BY <1>1, <1>3, <1>6
  <2>2. one[j - 1] = other[j - 1]
    BY <2>1
  <2> QED BY <1>3, <1>4, <1>6, <2>2
<1> QED BY <1>5, <1>6

LEMMA WalkDefined ==
  /\ Y!walk[0] = Y!FrontCell
  /\ \A j \in Nat : Y!walk[j + 1] = Y!After(Y!walk[j])
<1> DEFINE Walked(n) == CHOOSE walked : IsWalk(walked, n)
           all == [n \in Nat |-> Walked(n)[n]]
<1>1. \A n \in Nat : IsWalk(Walked(n), n)
  BY WalksExist
<1>2. ASSUME NEW n \in Nat PROVE all[n] = IF n = 0 THEN Y!FrontCell ELSE Y!After(all[n - 1])
  <2>1. all[n] = Walked(n)[n] /\ IsWalk(Walked(n), n)
    BY <1>1
  <2>2. n # 0 => all[n - 1] = Walked(n - 1)[n - 1] /\ IsWalk(Walked(n - 1), n - 1)
    BY <1>1
  <2> HIDE DEF Walked, all
  <2>3. n # 0 => Walked(n - 1)[n - 1] = Walked(n)[n - 1]
    <3> SUFFICES ASSUME n # 0 PROVE Walked(n - 1)[n - 1] = Walked(n)[n - 1]
      OBVIOUS
    <3>1. n - 1 \in Nat /\ n - 1 \in 0..n - 1 /\ n - 1 <= n
      OBVIOUS
    <3> QED BY <3>1, <2>1, <2>2, WalksAgree
  <2>4. Walked(n)[n] = IF n = 0 THEN Y!FrontCell ELSE Y!After(Walked(n)[n - 1])
    BY <2>1 DEF IsWalk
  <2> QED BY <2>1, <2>2, <2>3, <2>4
<1>3. all = [n \in Nat |-> all[n]]
  OBVIOUS
<1> HIDE DEF all
<1>4. all = [n \in Nat |-> IF n = 0 THEN Y!FrontCell ELSE Y!After(all[n - 1])]
  BY <1>2, <1>3
<1>5. Y!walk = [n \in Nat |-> IF n = 0 THEN Y!FrontCell ELSE Y!After(Y!walk[n - 1])]
  BY <1>4, Zenon DEF Y!walk
<1>6. \A n \in Nat : Y!walk[n] = IF n = 0 THEN Y!FrontCell ELSE Y!After(Y!walk[n - 1])
  BY <1>5
<1> HIDE DEF Y!walk
<1>7. ASSUME NEW j \in Nat PROVE Y!walk[j + 1] = Y!After(Y!walk[j])
  <2>1. j + 1 \in Nat /\ j + 1 # 0 /\ (j + 1) - 1 = j
    OBVIOUS
  <2> QED BY <2>1, <1>6
<1> QED BY <1>6, <1>7

(***************************************************************************)
(* The layout of the queue: cs are the cells from the front on, n of them  *)
(* and the one at the end.                                                 *)
(***************************************************************************)
Pos == 0..ChunkCells - 1
Linked(cs, n) == \A j \in 0..n - 1 : cs[j + 1] = Y!After(cs[j])
LinkedBack(cs, n) == \A j \in 0..n - 1 : cs[j + 1][2] = 0 => prev[cs[j + 1][1]] = cs[j][1]
\* Cells of one chunk come one after the other.
InLine(cs, n) == \A i, j \in 0..n : cs[i][1] = cs[j][1] => cs[j][2] - cs[i][2] = j - i
ChunksOf(cs, n) == {cs[j][1] : j \in 0..n}

Layout(cs, n) ==
  /\ n \in Nat \ {0} /\ n - 1 <= MaxCells /\ cs \in [Nat -> Chunk \X Pos]
  /\ cs[0] = <<begin_chunk, begin_pos>> /\ cs[n - 1] = <<back_chunk, back_pos>> /\ cs[n] = <<end_chunk, end_pos>>
  /\ Linked(cs, n) /\ LinkedBack(cs, n) /\ InLine(cs, n)
  /\ heap = ChunksOf(cs, n) \union ({spare_chunk} \ {NoChunk})
  /\ spare_chunk \notin ChunksOf(cs, n)

Points(cs, n, ir, iw, jf) ==
  /\ ir \in Nat /\ iw \in Nat /\ jf \in Nat /\ ir <= iw /\ iw <= jf /\ jf < n
  /\ r = cs[ir] /\ w = cs[iw] /\ f = cs[jf]
  /\ c = IF reader = "asleep" THEN NoChunk ELSE w
  /\ reader = "asleep" => iw = 0
  /\ flushing => reader = "asleep" /\ iw < jf

Queue(cs, n, ir, iw, jf) == Layout(cs, n) /\ Points(cs, n, ir, iw, jf)

YPipeInv == Y!TypeOK /\ \E cs, n, ir, iw, jf : Queue(cs, n, ir, iw, jf)

LEMMA YPipeFacts == ChunkCells \in Nat /\ ChunkCells > 1 /\ MaxCells \in Nat /\ NoChunk \notin Chunk /\ NoChunk \notin Chunk \X Pos
BY SocketsAssumption DEF SocketsAssumption, Y!YPipeAssumption, Pos

LEMMA CellsDiffer ==
  ASSUME NEW cs, NEW n, Layout(cs, n), NEW i \in 0..n, NEW j \in 0..n, cs[i] = cs[j]
  PROVE  i = j
<1>1. cs[j][2] - cs[i][2] = j - i
  BY DEF Layout, InLine
<1>2. cs[i][2] \in Pos /\ i \in Nat
  BY DEF Layout
<1> QED BY <1>1, <1>2, YPipeFacts DEF Pos

LEMMA WalkIs ==
  ASSUME NEW cs, NEW n, Layout(cs, n)
  PROVE  \A j \in 0..n : Y!walk[j] = cs[j]
<1> DEFINE Bad == {j \in 0..n : Y!walk[j] # cs[j]}
<1> SUFFICES ASSUME Bad # {} PROVE FALSE
  OBVIOUS
<1>1. PICK j \in Bad : \A k \in Bad : j <= k
  <2>1. Bad \subseteq Nat
    BY DEF Layout
  <2> QED BY <2>1, LeastNatural
<1>2. j \in 0..n /\ Y!walk[j] # cs[j] /\ n \in Nat
  BY <1>1 DEF Layout
<1>3. j # 0
  BY <1>2, WalkDefined DEF Layout, Y!FrontCell
<1>4. j - 1 \in 0..n - 1 /\ j - 1 \in Nat /\ (j - 1) + 1 = j /\ j - 1 \notin Bad
  BY <1>1, <1>2, <1>3
<1>5. Y!walk[j - 1] = cs[j - 1]
  BY <1>4, <1>2
<1>6. Y!walk[(j - 1) + 1] = Y!After(Y!walk[j - 1])
  BY <1>4, WalkDefined
<1>7. cs[(j - 1) + 1] = Y!After(cs[j - 1])
  BY <1>4 DEF Layout, Linked
<1> QED BY <1>2, <1>4, <1>5, <1>6, <1>7

LEMMA LiveIs ==
  ASSUME NEW cs, NEW n, Layout(cs, n)
  PROVE  Y!Live = [j \in 1..n |-> cs[j - 1]]
<1> DEFINE IsLength(k) == k \in 0..MaxCells /\ Y!walk[k] = Y!BackCell /\ \A i \in 0..k - 1 : Y!walk[i] # Y!BackCell
           length == CHOOSE k \in 0..MaxCells : Y!walk[k] = Y!BackCell /\ \A i \in 0..k - 1 : Y!walk[i] # Y!BackCell
<1>1. n \in Nat /\ n # 0 /\ n - 1 \in 0..n /\ n - 1 \in 0..MaxCells
  BY YPipeFacts DEF Layout
<1>2. cs[n - 1] = Y!BackCell
  BY DEF Layout, Y!BackCell
<1>3. \A j \in 0..n : Y!walk[j] = cs[j]
  BY WalkIs
<1>4. IsLength(n - 1)
  <2>1. ASSUME NEW i \in 0..(n - 1) - 1, Y!walk[i] = Y!BackCell PROVE FALSE
    <3>1. i \in 0..n /\ i # n - 1
      BY <1>1
    <3>2. cs[i] = cs[n - 1]
      BY <3>1, <2>1, <1>2, <1>3
    <3> QED BY <3>1, <3>2, <1>1, CellsDiffer
  <2> QED BY <1>1, <1>2, <1>3, <2>1
<1>5. ASSUME NEW k, IsLength(k) PROVE k = n - 1
  <2>1. k \in Nat /\ Y!walk[k] = Y!BackCell /\ \A i \in 0..k - 1 : Y!walk[i] # Y!BackCell
    BY <1>5
  <2>2. ~(n - 1 < k)
    BY <2>1, <1>1, <1>2, <1>3
  <2>3. ~(k < n - 1)
    BY <2>1, <1>4
  <2> QED BY <2>1, <2>2, <2>3, <1>1
<1>6. IsLength(length)
  BY <1>4
<1>7. length = n - 1
  BY <1>5, <1>6
<1>8. Y!Live = [j \in 1..length + 1 |-> Y!walk[j - 1]]
  BY DEF Y!Live
<1> HIDE DEF length, IsLength
<1>9. length + 1 = n
  BY <1>7, <1>1
<1>10. \A j \in 1..n : j - 1 \in 0..n
  BY <1>1
<1> QED BY <1>8, <1>9, <1>10, <1>3

\* What the cells from number i to number k, without the latter, hold.
Held(vals, cs, i, k) == [j \in 1..k - i |-> vals[cs[i + j - 1]]]

LEMMA BetweenIs ==
  ASSUME NEW cs, NEW n, Layout(cs, n), NEW i \in 0..n - 1, NEW k \in 0..n - 1, i <= k
  PROVE  Y!Between(cs[i], cs[k]) = Held(values, cs, i, k)
<1> DEFINE live == [j \in 1..n |-> cs[j - 1]]
           At(cell) == CHOOSE j \in DOMAIN live : live[j] = cell
<1>1. n \in Nat /\ Y!Live = live
  BY LiveIs DEF Layout
<1>2. ASSUME NEW j \in 0..n - 1 PROVE At(cs[j]) = j + 1
  <2>1. j + 1 \in DOMAIN live /\ live[j + 1] = cs[j]
    BY <1>1
  <2>2. At(cs[j]) \in DOMAIN live /\ live[At(cs[j])] = cs[j]
    BY <2>1
  <2>3. At(cs[j]) \in 1..n
    BY <2>2
  <2> HIDE DEF At
  <2>4. cs[At(cs[j]) - 1] = cs[j] /\ At(cs[j]) - 1 \in 0..n /\ j \in 0..n
    BY <2>2, <2>3, <1>1
  <2>5. At(cs[j]) - 1 = j
    BY <2>4, CellsDiffer
  <2> QED BY <2>5, <2>3, <1>1
<1>3. Y!Between(cs[i], cs[k]) = [j \in 1..At(cs[k]) - At(cs[i]) |-> values[live[At(cs[i]) + j - 1]]]
  BY <1>1 DEF Y!Between
<1>4. At(cs[i]) = i + 1 /\ At(cs[k]) = k + 1
  BY <1>2
<1> HIDE DEF At
<1>5. Y!Between(cs[i], cs[k]) = [j \in 1..(k + 1) - (i + 1) |-> values[live[(i + 1) + j - 1]]]
  BY <1>3, <1>4
<1>6. (k + 1) - (i + 1) = k - i
  BY <1>1
<1>7. ASSUME NEW j \in 1..k - i PROVE live[(i + 1) + j - 1] = cs[i + j - 1]
  <2>1. (i + 1) + j - 1 \in 1..n /\ ((i + 1) + j - 1) - 1 = i + j - 1
    BY <1>1
  <2> QED BY <2>1
<1> QED BY <1>5, <1>6, <1>7 DEF Held

LEMMA LayoutFacts ==
  ASSUME NEW cs, NEW n, Layout(cs, n), Y!TypeOK
  PROVE  /\ n \in Nat /\ n > 0 /\ \A j \in Nat : cs[j] \in Chunk \X Pos /\ cs[j] = <<cs[j][1], cs[j][2]>>
         /\ \A j \in Nat : cs[j][1] \in Chunk /\ cs[j][2] \in Nat /\ cs[j][2] < ChunkCells
         /\ end_chunk \in Chunk /\ end_pos \in Nat /\ end_pos < ChunkCells /\ cs[n][1] = end_chunk /\ cs[n][2] = end_pos
         /\ back_chunk \in Chunk /\ back_pos \in Nat /\ back_pos < ChunkCells /\ cs[n - 1][1] = back_chunk /\ cs[n - 1][2] = back_pos
         /\ begin_chunk \in Chunk /\ begin_pos \in Nat /\ begin_pos < ChunkCells /\ cs[0][1] = begin_chunk /\ cs[0][2] = begin_pos
         /\ prev \in [Chunk -> Chunk \union {NoChunk}] /\ next \in [Chunk -> Chunk \union {NoChunk}]
         /\ heap \subseteq Chunk /\ spare_chunk \in Chunk \union {NoChunk}
<1>1. n \in Nat /\ n > 0 /\ cs \in [Nat -> Chunk \X Pos]
  BY DEF Layout
<1>2. \A j \in Nat : cs[j] \in Chunk \X Pos
  BY <1>1
<1>3. \A j \in Nat : cs[j] = <<cs[j][1], cs[j][2]>> /\ cs[j][1] \in Chunk /\ cs[j][2] \in Nat /\ cs[j][2] < ChunkCells
  BY <1>2, YPipeFacts DEF Pos
<1>4. /\ prev \in [Chunk -> Chunk \union {NoChunk}] /\ next \in [Chunk -> Chunk \union {NoChunk}]
      /\ heap \subseteq Chunk /\ spare_chunk \in Chunk \union {NoChunk}
  BY DEF Y!TypeOK
<1>5. cs[n] = <<end_chunk, end_pos>> /\ cs[n - 1] = <<back_chunk, back_pos>> /\ cs[0] = <<begin_chunk, begin_pos>>
  BY DEF Layout
<1>6. cs[n][1] = end_chunk /\ cs[n][2] = end_pos /\ cs[n - 1][1] = back_chunk /\ cs[n - 1][2] = back_pos
      /\ cs[0][1] = begin_chunk /\ cs[0][2] = begin_pos
  BY <1>5
<1>7. n - 1 \in Nat /\ 0 \in Nat
  BY <1>1
<1> QED BY <1>1, <1>2, <1>3, <1>4, <1>6, <1>7

LEMMA PushWithin ==
  ASSUME NEW cs, NEW n, Layout(cs, n), Y!TypeOK, n < MaxCells, Y!Push, end_pos + 1 # ChunkCells, UNCHANGED <<begin_chunk, begin_pos>>
  PROVE  \E xs : (\A j \in 0..n : xs[j] = cs[j]) /\ Layout(xs, n + 1)'
<1> PICK xs : xs = [cs EXCEPT ![n + 1] = <<end_chunk, end_pos + 1>>]
  OBVIOUS
<1>1. /\ end_pos' = end_pos + 1 /\ back_chunk' = end_chunk /\ back_pos' = end_pos
      /\ UNCHANGED <<heap, prev, next, end_chunk, spare_chunk>>
  BY DEF Y!Push
<1>2. n \in Nat /\ n > 0 /\ n + 1 \in Nat /\ end_chunk \in Chunk /\ end_pos \in Nat /\ end_pos < ChunkCells
  BY LayoutFacts
<1>3. <<end_chunk, end_pos + 1>> \in Chunk \X Pos
  BY <1>1, <1>2, YPipeFacts DEF Pos
<1>4. xs \in [Nat -> Chunk \X Pos] /\ xs[n + 1] = <<end_chunk, end_pos + 1>> /\ \A j \in 0..n : xs[j] = cs[j]
  BY <1>2, <1>3 DEF Layout
<1>5. xs[0] = <<begin_chunk, begin_pos>>' /\ xs[(n + 1) - 1] = <<back_chunk, back_pos>>' /\ xs[n + 1] = <<end_chunk, end_pos>>'
  BY <1>1, <1>2, <1>4 DEF Layout
<1>6. Linked(xs, n + 1)'
  <2> SUFFICES ASSUME NEW j \in 0..n PROVE xs[j + 1] = Y!After(xs[j])'
    BY <1>2 DEF Linked
  <2>1. \A cell : Y!After(cell)' = Y!After(cell)
    BY <1>1 DEF Y!After
  <2>2. CASE j < n
    <3>1. j \in 0..n - 1 /\ xs[j + 1] = cs[j + 1] /\ xs[j] = cs[j]
      BY <2>2, <1>2, <1>4
    <3> QED BY <3>1, <2>1 DEF Layout, Linked
  <2>3. CASE j = n
    <3>1. cs[n] = <<end_chunk, end_pos>>
      BY DEF Layout
    <3>2. Y!After(cs[n]) = <<end_chunk, end_pos + 1>>
      BY <3>1 DEF Y!After
    <3> QED BY <2>3, <3>2, <2>1, <1>2, <1>4
  <2> QED BY <2>2, <2>3, <1>2
<1>7. LinkedBack(xs, n + 1)'
  <2> SUFFICES ASSUME NEW j \in 0..n, xs[j + 1][2] = 0 PROVE prev[xs[j + 1][1]] = xs[j][1]
    BY <1>1, <1>2 DEF LinkedBack
  <2>1. j # n
    <3>1. xs[n + 1][2] = end_pos + 1
      BY <1>4
    <3> QED BY <3>1, LayoutFacts
  <2>2. j \in 0..n - 1 /\ xs[j + 1] = cs[j + 1] /\ xs[j] = cs[j]
    BY <2>1, <1>2, <1>4
  <2> QED BY <2>2 DEF Layout, LinkedBack
<1>8. InLine(xs, n + 1)
  <2> SUFFICES ASSUME NEW i \in 0..n + 1, NEW j \in 0..n + 1, xs[i][1] = xs[j][1] PROVE xs[j][2] - xs[i][2] = j - i
    BY DEF InLine
  <2>1. \A k \in 0..n : cs[k][1] = end_chunk => end_pos - cs[k][2] = n - k
    <3>1. cs[n][1] = end_chunk /\ cs[n][2] = end_pos /\ n \in 0..n
      BY LayoutFacts
    <3> QED BY <3>1 DEF Layout, InLine
  <2>2. \A k \in Nat : cs[k][2] \in Nat
    BY LayoutFacts
  <2>3. CASE i \in 0..n /\ j \in 0..n
    BY <2>3, <1>4 DEF Layout, InLine
  <2>4. CASE i = n + 1 /\ j \in 0..n
    <3>1. xs[i][1] = end_chunk /\ xs[i][2] = end_pos + 1 /\ xs[j] = cs[j]
      BY <2>4, <1>4
    <3>2. end_pos - cs[j][2] = n - j
      BY <3>1, <2>1, <2>4
    <3> QED BY <3>1, <3>2, <2>2, <2>4, <1>2
  <2>5. CASE j = n + 1 /\ i \in 0..n
    <3>1. xs[j][1] = end_chunk /\ xs[j][2] = end_pos + 1 /\ xs[i] = cs[i]
      BY <2>5, <1>4
    <3>2. end_pos - cs[i][2] = n - i
      BY <3>1, <2>1, <2>5
    <3> QED BY <3>1, <3>2, <2>2, <2>5, <1>2
  <2>6. CASE i = n + 1 /\ j = n + 1
    BY <2>6, <1>4, LayoutFacts
  <2> QED BY <2>3, <2>4, <2>5, <2>6, <1>2
<1>9. ChunksOf(xs, n + 1) = ChunksOf(cs, n)
  <2>1. ASSUME NEW j \in 0..n + 1 PROVE xs[j][1] \in ChunksOf(cs, n)
    <3>1. CASE j = n + 1
      <4>1. xs[j][1] = cs[n][1] /\ n \in 0..n
        BY <3>1, <1>4, LayoutFacts
      <4> QED BY <4>1 DEF ChunksOf
    <3>2. CASE j # n + 1
      <4>1. j \in 0..n /\ xs[j] = cs[j]
        BY <3>2, <1>2, <1>4
      <4> QED BY <4>1 DEF ChunksOf
    <3> QED BY <3>1, <3>2
  <2>2. ASSUME NEW j \in 0..n PROVE cs[j][1] \in ChunksOf(xs, n + 1)
    <3>1. j \in 0..n + 1 /\ xs[j] = cs[j]
      BY <1>2, <1>4
    <3> QED BY <3>1 DEF ChunksOf
  <2> QED BY <2>1, <2>2 DEF ChunksOf
<1>10. heap' = ChunksOf(xs, n + 1) \union ({spare_chunk'} \ {NoChunk}) /\ spare_chunk' \notin ChunksOf(xs, n + 1)
  BY <1>1, <1>9 DEF Layout
<1>11. (n + 1) \in Nat \ {0} /\ (n + 1) - 1 <= MaxCells
  BY <1>2, YPipeFacts
<1>12. InLine(xs, n + 1)' /\ ChunksOf(xs, n + 1)' = ChunksOf(xs, n + 1)
  BY <1>8 DEF InLine, ChunksOf
<1>13. Layout(xs, n + 1)'
  BY <1>4, <1>5, <1>6, <1>7, <1>10, <1>11, <1>12 DEF Layout
<1> QED BY <1>4, <1>13

LEMMA PushBeyond ==
  ASSUME NEW cs, NEW n, Layout(cs, n), Y!TypeOK, n < MaxCells, Y!Push, end_pos + 1 = ChunkCells, UNCHANGED <<begin_chunk, begin_pos>>
  PROVE  \E xs : (\A j \in 0..n : xs[j] = cs[j]) /\ Layout(xs, n + 1)'
<1>1. PICK k \in IF spare_chunk # NoChunk THEN {spare_chunk} ELSE Chunk \ heap :
        heap' = heap \union {k} /\ next' = [next EXCEPT ![end_chunk] = k] /\ prev' = [prev EXCEPT ![k] = end_chunk] /\ end_chunk' = k
  BY DEF Y!Push
<1>2. /\ end_pos' = 0 /\ back_chunk' = end_chunk /\ back_pos' = end_pos /\ spare_chunk' = NoChunk
      /\ UNCHANGED <<begin_chunk, begin_pos>>
  BY DEF Y!Push
<1>3. /\ n \in Nat /\ n > 0 /\ n + 1 \in Nat /\ end_chunk \in Chunk /\ end_pos \in Nat /\ cs[n] = <<end_chunk, end_pos>>
      /\ prev \in [Chunk -> Chunk \union {NoChunk}] /\ next \in [Chunk -> Chunk \union {NoChunk}]
      /\ heap \subseteq Chunk /\ spare_chunk \in Chunk \union {NoChunk} /\ n \in 0..n
  BY LayoutFacts DEF Layout
<1>4. ChunksOf(cs, n) \subseteq heap /\ heap = ChunksOf(cs, n) \union ({spare_chunk} \ {NoChunk}) /\ spare_chunk \notin ChunksOf(cs, n)
  BY DEF Layout
<1>5. k \in Chunk /\ k \notin ChunksOf(cs, n) /\ heap' = ChunksOf(cs, n) \union {k}
  BY <1>1, <1>3, <1>4
<1>6. \A j \in 0..n : cs[j][1] # k
  BY <1>5 DEF ChunksOf
<1>7. <<k, 0>> \in Chunk \X Pos
  BY <1>5, YPipeFacts DEF Pos
<1> PICK xs : xs = [cs EXCEPT ![n + 1] = <<k, 0>>]
  OBVIOUS
<1>8. xs \in [Nat -> Chunk \X Pos] /\ xs[n + 1] = <<k, 0>> /\ \A j \in 0..n : xs[j] = cs[j]
  BY <1>3, <1>7 DEF Layout
<1>9. xs[0] = <<begin_chunk, begin_pos>>' /\ xs[(n + 1) - 1] = <<back_chunk, back_pos>>' /\ xs[n + 1] = <<end_chunk, end_pos>>'
  BY <1>1, <1>2, <1>3, <1>8 DEF Layout
<1>10. \A j \in 0..n : cs[j][1] = end_chunk => end_pos - cs[j][2] = n - j
  <2>1. cs[n][1] = end_chunk /\ cs[n][2] = end_pos
    BY <1>3
  <2> QED BY <2>1, <1>3 DEF Layout, InLine
<1>11. Linked(xs, n + 1)'
  <2> SUFFICES ASSUME NEW j \in 0..n PROVE xs[j + 1] = Y!After(xs[j])'
    BY <1>3 DEF Linked
  <2>1. CASE j < n
    <3>1. j \in 0..n - 1 /\ xs[j + 1] = cs[j + 1] /\ xs[j] = cs[j] /\ cs[j + 1] = Y!After(cs[j])
      BY <2>1, <1>3, <1>8 DEF Layout, Linked
    <3>2. cs[j][2] \in Nat /\ cs[j][1] \in Chunk
      BY LayoutFacts
    <3>3. cs[j][2] + 1 = ChunkCells => next'[cs[j][1]] = next[cs[j][1]]
      <4>1. cs[j][2] + 1 = ChunkCells => cs[j][1] # end_chunk
        BY <1>10, <1>3, <2>1, <3>2
      <4> QED BY <4>1, <3>2, <1>1, <1>3
    <3>4. Y!After(cs[j])' = Y!After(cs[j])
      BY <3>3 DEF Y!After
    <3> QED BY <3>1, <3>4
  <2>2. CASE j = n
    <3>1. cs[n] = <<end_chunk, end_pos>> /\ next'[end_chunk] = k
      BY <1>1, <1>3
    <3>2. Y!After(cs[n])' = <<k, 0>>
      BY <3>1 DEF Y!After
    <3> QED BY <2>2, <3>2, <1>3, <1>8
  <2> QED BY <2>1, <2>2, <1>3
<1>12. LinkedBack(xs, n + 1)'
  <2> SUFFICES ASSUME NEW j \in 0..n, xs[j + 1][2] = 0 PROVE prev'[xs[j + 1][1]] = xs[j][1]
    BY <1>3 DEF LinkedBack
  <2>1. CASE j < n
    <3>1. j \in 0..n - 1 /\ j + 1 \in 0..n /\ xs[j + 1] = cs[j + 1] /\ xs[j] = cs[j]
      BY <2>1, <1>3, <1>8
    <3>2. prev[cs[j + 1][1]] = cs[j][1]
      BY <3>1 DEF Layout, LinkedBack
    <3>3. cs[j + 1][1] # k /\ cs[j + 1][1] \in Chunk
      BY <3>1, <1>6, LayoutFacts
    <3>4. prev'[cs[j + 1][1]] = prev[cs[j + 1][1]]
      BY <3>3, <1>1, <1>3
    <3> QED BY <3>1, <3>2, <3>4
  <2>2. CASE j = n
    <3>1. prev'[k] = end_chunk
      BY <1>1, <1>3, <1>5
    <3>2. xs[j + 1] = <<k, 0>> /\ xs[j] = <<end_chunk, end_pos>>
      BY <2>2, <1>3, <1>8
    <3> QED BY <3>1, <3>2
  <2> QED BY <2>1, <2>2, <1>3
<1>13. InLine(xs, n + 1)
  <2> SUFFICES ASSUME NEW i \in 0..n + 1, NEW j \in 0..n + 1, xs[i][1] = xs[j][1] PROVE xs[j][2] - xs[i][2] = j - i
    BY DEF InLine
  <2>1. CASE i \in 0..n /\ j \in 0..n
    BY <2>1, <1>8 DEF Layout, InLine
  <2>2. CASE i = n + 1 /\ j = n + 1
    BY <2>2, <1>8
  <2>3. xs[n + 1][1] = k /\ \A h \in 0..n : xs[h][1] # k
    BY <1>6, <1>8
  <2> QED BY <2>1, <2>2, <2>3, <1>3
<1>14. ChunksOf(xs, n + 1) = ChunksOf(cs, n) \union {k}
  <2>1. ASSUME NEW j \in 0..n + 1 PROVE xs[j][1] \in ChunksOf(cs, n) \union {k}
    <3>1. CASE j = n + 1
      BY <3>1, <1>8
    <3>2. CASE j # n + 1
      <4>1. j \in 0..n /\ xs[j] = cs[j]
        BY <3>2, <1>3, <1>8
      <4> QED BY <4>1 DEF ChunksOf
    <3> QED BY <3>1, <3>2
  <2>2. ASSUME NEW j \in 0..n PROVE cs[j][1] \in ChunksOf(xs, n + 1)
    <3>1. j \in 0..n + 1 /\ xs[j] = cs[j]
      BY <1>3, <1>8
    <3> QED BY <3>1 DEF ChunksOf
  <2>3. k \in ChunksOf(xs, n + 1)
    <3>1. n + 1 \in 0..n + 1 /\ xs[n + 1][1] = k
      BY <1>3, <1>8
    <3> QED BY <3>1 DEF ChunksOf
  <2> QED BY <2>1, <2>2, <2>3 DEF ChunksOf
<1>15. heap' = ChunksOf(xs, n + 1) \union ({spare_chunk'} \ {NoChunk}) /\ spare_chunk' \notin ChunksOf(xs, n + 1)
  <2>1. NoChunk \notin ChunksOf(cs, n) /\ NoChunk # k
    BY <1>3, <1>4, <1>5, YPipeFacts
  <2> QED BY <2>1, <1>2, <1>5, <1>14
<1>16. (n + 1) \in Nat \ {0} /\ (n + 1) - 1 <= MaxCells
  BY <1>3, YPipeFacts
<1>17. InLine(xs, n + 1)' /\ ChunksOf(xs, n + 1)' = ChunksOf(xs, n + 1)
  BY <1>13 DEF InLine, ChunksOf
<1>18. Layout(xs, n + 1)'
  BY <1>8, <1>9, <1>11, <1>12, <1>15, <1>16, <1>17 DEF Layout
<1> QED BY <1>8, <1>18

LEMMA PushKept ==
  ASSUME NEW cs, NEW n, Layout(cs, n), Y!TypeOK, n < MaxCells, Y!Push, UNCHANGED <<begin_chunk, begin_pos>>
  PROVE  \E xs : (\A j \in 0..n : xs[j] = cs[j]) /\ Layout(xs, n + 1)'
BY PushWithin, PushBeyond

\* The list loses its last cell, and with it perhaps its last chunk.
LEMMA UnpushKept ==
  ASSUME NEW cs, NEW n, Layout(cs, n), Y!TypeOK, n > 1, Y!Unpush, UNCHANGED <<begin_chunk, begin_pos, spare_chunk>>
  PROVE  Layout(cs, n - 1)' /\ <<back_chunk', back_pos'>> = cs[n - 2]
<1>1. /\ n \in Nat /\ n - 1 \in Nat \ {0} /\ n - 2 \in Nat /\ n - 1 \in 0..n - 1 /\ n - 2 \in 0..n - 1 /\ (n - 1) - 1 = n - 2
      /\ (n - 2) + 1 = n - 1 /\ (n - 1) + 1 = n
      /\ prev \in [Chunk -> Chunk \union {NoChunk}] /\ next \in [Chunk -> Chunk \union {NoChunk}]
      /\ heap \subseteq Chunk /\ spare_chunk \in Chunk \union {NoChunk}
  BY LayoutFacts
<1>2. \A j \in Nat : cs[j] = <<cs[j][1], cs[j][2]>> /\ cs[j][1] \in Chunk /\ cs[j][2] \in Nat /\ cs[j][2] < ChunkCells
  BY LayoutFacts
<1>3. cs[n] = <<end_chunk, end_pos>> /\ cs[n - 1] = <<back_chunk, back_pos>>
  BY DEF Layout
<1>4. cs[n - 1] = Y!After(cs[n - 2]) /\ cs[n] = Y!After(cs[n - 1])
  BY <1>1 DEF Layout, Linked
<1>5. (back_pos = 0 => prev[back_chunk] = cs[n - 2][1]) /\ (end_pos = 0 => prev[end_chunk] = cs[n - 1][1])
  <2>1. cs[n - 1][2] = back_pos /\ cs[n - 1][1] = back_chunk /\ cs[n][2] = end_pos /\ cs[n][1] = end_chunk
    BY <1>3
  <2>2. cs[(n - 2) + 1][2] = 0 => prev[cs[(n - 2) + 1][1]] = cs[n - 2][1]
    BY <1>1 DEF Layout, LinkedBack
  <2>3. cs[(n - 1) + 1][2] = 0 => prev[cs[(n - 1) + 1][1]] = cs[n - 1][1]
    BY <1>1 DEF Layout, LinkedBack
  <2> QED BY <2>1, <2>2, <2>3, <1>1
\* What comes before a cell.
<1>6. ASSUME NEW cell \in Nat, NEW chunk, NEW pos, Y!After(cs[cell]) = <<chunk, pos>>
      PROVE  cs[cell] = IF pos # 0 THEN <<chunk, pos - 1>> ELSE <<cs[cell][1], ChunkCells - 1>>
  <2>1. cs[cell] = <<cs[cell][1], cs[cell][2]>> /\ cs[cell][2] \in Nat /\ cs[cell][2] < ChunkCells
    BY <1>2
  <2>2. CASE cs[cell][2] + 1 # ChunkCells
    <3>1. chunk = cs[cell][1] /\ pos = cs[cell][2] + 1
      BY <2>2, <1>6 DEF Y!After
    <3>2. pos # 0 /\ pos - 1 = cs[cell][2]
      BY <3>1, <2>1
    <3> QED BY <3>1, <3>2, <2>1
  <2>3. CASE cs[cell][2] + 1 = ChunkCells
    <3>1. pos = 0
      BY <2>3, <1>6 DEF Y!After
    <3>2. cs[cell][2] = ChunkCells - 1
      BY <2>3, <2>1, YPipeFacts
    <3> QED BY <3>1, <3>2, <2>1
  <2> QED BY <2>2, <2>3
<1>7. <<back_chunk', back_pos'>> = cs[n - 2]
  <2>1. cs[n - 2] = IF back_pos # 0 THEN <<back_chunk, back_pos - 1>> ELSE <<cs[n - 2][1], ChunkCells - 1>>
    BY <1>1, <1>3, <1>4, <1>6
  <2>2. CASE back_pos # 0
    BY <2>1, <2>2 DEF Y!Unpush
  <2>3. CASE back_pos = 0
    BY <2>1, <2>3, <1>5 DEF Y!Unpush
  <2> QED BY <2>2, <2>3
<1>8. <<end_chunk', end_pos'>> = cs[n - 1]
  <2>1. cs[n - 1] = IF end_pos # 0 THEN <<end_chunk, end_pos - 1>> ELSE <<cs[n - 1][1], ChunkCells - 1>>
    BY <1>1, <1>3, <1>4, <1>6
  <2>2. CASE end_pos # 0
    BY <2>1, <2>2 DEF Y!Unpush
  <2>3. CASE end_pos = 0
    BY <2>1, <2>3, <1>5 DEF Y!Unpush
  <2> QED BY <2>2, <2>3
<1>9. \A j \in 0..n : cs[j][1] = end_chunk => end_pos - cs[j][2] = n - j
  <2>1. cs[n][1] = end_chunk /\ cs[n][2] = end_pos /\ n \in 0..n
    BY <1>1, <1>3
  <2> QED BY <2>1 DEF Layout, InLine
<1>10. end_pos = 0 => next[cs[n - 1][1]] = end_chunk
  <2> SUFFICES ASSUME end_pos = 0 PROVE next[cs[n - 1][1]] = end_chunk
    OBVIOUS
  <2>1. cs[n - 1][2] \in Nat
    BY <1>1, <1>2
  <2> QED BY <2>1, <1>3, <1>4 DEF Y!After
<1>11. ChunksOf(cs, n) = ChunksOf(cs, n - 1) \union {end_chunk}
  <2>1. ASSUME NEW j \in 0..n PROVE cs[j][1] \in ChunksOf(cs, n - 1) \union {end_chunk}
    <3>1. CASE j = n
      BY <3>1, <1>3
    <3>2. CASE j # n
      <4>1. j \in 0..n - 1
        BY <3>2, <1>1
      <4> QED BY <4>1 DEF ChunksOf
    <3> QED BY <3>1, <3>2
  <2>2. ASSUME NEW j \in 0..n - 1 PROVE cs[j][1] \in ChunksOf(cs, n)
    <3>1. j \in 0..n
      BY <1>1
    <3> QED BY <3>1 DEF ChunksOf
  <2>3. end_chunk \in ChunksOf(cs, n)
    <3>1. n \in 0..n /\ cs[n][1] = end_chunk
      BY <1>1, <1>3
    <3> QED BY <3>1 DEF ChunksOf
  <2> QED BY <2>1, <2>2, <2>3 DEF ChunksOf
<1>14. /\ (n - 1) - 1 <= MaxCells /\ cs \in [Nat -> Chunk \X Pos] /\ cs[0] = <<begin_chunk', begin_pos'>>
       /\ cs[(n - 1) - 1] = <<back_chunk', back_pos'>>
  BY <1>1, <1>7, YPipeFacts DEF Layout
<1>12. CASE end_pos # 0
  <2>1. UNCHANGED <<heap, next, prev, spare_chunk, begin_chunk, begin_pos>>
    BY <1>12 DEF Y!Unpush
  <2>2. cs[n - 1][1] = end_chunk
    <3>1. cs[n - 1] = <<end_chunk, end_pos - 1>>
      <4>1. cs[n - 1] = IF end_pos # 0 THEN <<end_chunk, end_pos - 1>> ELSE <<cs[n - 1][1], ChunkCells - 1>>
        BY <1>1, <1>3, <1>4, <1>6
      <4> QED BY <4>1, <1>12
    <3> QED BY <3>1
  <2>3. end_chunk \in ChunksOf(cs, n - 1)
    BY <2>2, <1>1 DEF ChunksOf
  <2>4. heap' = ChunksOf(cs, n - 1) \union ({spare_chunk'} \ {NoChunk}) /\ spare_chunk' \notin ChunksOf(cs, n - 1)
    BY <2>1, <2>3, <1>11 DEF Layout
  <2>5. Linked(cs, n - 1)' /\ LinkedBack(cs, n - 1)'
    <3>1. \A cell : Y!After(cell)' = Y!After(cell)
      BY <2>1 DEF Y!After
    <3>2. \A j \in 0..(n - 1) - 1 : j \in 0..n - 1
      BY <1>1
    <3>3. Linked(cs, n) /\ LinkedBack(cs, n)
      BY DEF Layout
    <3>4. \A j \in 0..(n - 1) - 1 : cs[j + 1] = Y!After(cs[j])
      BY <3>2, <3>3 DEF Linked
    <3>5. \A j \in 0..(n - 1) - 1 : cs[j + 1][2] = 0 => prev[cs[j + 1][1]] = cs[j][1]
      BY <3>2, <3>3 DEF LinkedBack
    <3> QED BY <3>1, <3>4, <3>5, <2>1 DEF Linked, LinkedBack
  <2>6. InLine(cs, n - 1)' /\ ChunksOf(cs, n - 1)' = ChunksOf(cs, n - 1)
    BY <1>1 DEF Layout, InLine, ChunksOf
  <2> QED BY <2>4, <2>5, <2>6, <1>1, <1>8, <1>14 DEF Layout
<1>13. CASE end_pos = 0
  <2>1. /\ heap' = heap \ {end_chunk} /\ next' = [next EXCEPT ![cs[n - 1][1]] = NoChunk]
        /\ UNCHANGED <<prev, spare_chunk, begin_chunk, begin_pos>>
    BY <1>5, <1>10, <1>13 DEF Y!Unpush
  <2>2. end_chunk \notin ChunksOf(cs, n - 1)
    <3> SUFFICES ASSUME NEW j \in 0..n - 1, cs[j][1] = end_chunk PROVE FALSE
      BY DEF ChunksOf
    <3>1. j \in 0..n /\ j < n /\ cs[j][2] \in Nat
      BY <1>1, <1>2
    <3>2. end_pos - cs[j][2] = n - j
      BY <3>1, <1>9
    <3> QED BY <3>1, <3>2, <1>1, <1>13
  <2>3. heap' = ChunksOf(cs, n - 1) \union ({spare_chunk'} \ {NoChunk}) /\ spare_chunk' \notin ChunksOf(cs, n - 1)
    <3>1. heap = ChunksOf(cs, n) \union ({spare_chunk} \ {NoChunk}) /\ spare_chunk \notin ChunksOf(cs, n)
      BY DEF Layout
    <3> QED BY <3>1, <2>1, <2>2, <1>11
  <2>4. Linked(cs, n - 1)'
    <3> SUFFICES ASSUME NEW j \in 0..(n - 1) - 1 PROVE cs[j + 1] = Y!After(cs[j])'
      BY DEF Linked
    <3>1. j \in 0..n - 1 /\ j < n - 1 /\ cs[j][2] \in Nat /\ cs[j][1] \in Chunk /\ j \in 0..n
      BY <1>1, <1>2
    <3>2. cs[j + 1] = Y!After(cs[j])
      BY <3>1 DEF Layout, Linked
    <3>3. cs[j][2] + 1 = ChunkCells => cs[j][1] # cs[n - 1][1]
      <4> SUFFICES ASSUME cs[j][2] + 1 = ChunkCells, cs[j][1] = cs[n - 1][1] PROVE FALSE
        OBVIOUS
      <4>1. n - 1 \in 0..n
        BY <1>1
      <4>2. cs[n - 1][2] - cs[j][2] = (n - 1) - j
        BY <4>1, <3>1 DEF Layout, InLine
      <4>3. cs[n - 1][2] \in Nat /\ cs[n - 1][2] < ChunkCells
        BY <1>1, <1>2
      <4> QED BY <4>2, <4>3, <3>1, <1>1, YPipeFacts
    <3>4. cs[j][2] + 1 = ChunkCells => next'[cs[j][1]] = next[cs[j][1]]
      BY <3>1, <3>3, <2>1, <1>1
    <3>5. Y!After(cs[j])' = Y!After(cs[j])
      BY <3>4 DEF Y!After
    <3> QED BY <3>2, <3>5
  <2>5. LinkedBack(cs, n - 1)'
    <3>1. \A j \in 0..(n - 1) - 1 : j \in 0..n - 1
      BY <1>1
    <3>2. \A j \in 0..(n - 1) - 1 : cs[j + 1][2] = 0 => prev[cs[j + 1][1]] = cs[j][1]
      BY <3>1 DEF Layout, LinkedBack
    <3> QED BY <3>2, <2>1 DEF LinkedBack
  <2>6. InLine(cs, n - 1)' /\ ChunksOf(cs, n - 1)' = ChunksOf(cs, n - 1)
    BY <1>1 DEF Layout, InLine, ChunksOf
  <2> QED BY <2>3, <2>4, <2>5, <2>6, <1>1, <1>8, <1>14 DEF Layout
<1> QED BY <1>7, <1>12, <1>13

\* The list loses its first cell, and with it perhaps its first chunk, which
\* becomes the spare one.
LEMMA PopKept ==
  ASSUME NEW cs, NEW n, Layout(cs, n), Y!TypeOK, n > 1, Y!Pop, UNCHANGED <<next, back_chunk, back_pos, end_chunk, end_pos>>
  PROVE  \E xs : (\A j \in 0..n - 1 : xs[j] = cs[j + 1]) /\ Layout(xs, n - 1)'
<1> PICK xs : xs = [j \in Nat |-> cs[j + 1]]
  OBVIOUS
<1>1. /\ n \in Nat /\ n - 1 \in Nat \ {0} /\ (n - 1) - 1 = n - 2 /\ n - 1 <= MaxCells /\ (n - 1) - 1 <= MaxCells
      /\ begin_chunk \in Chunk /\ begin_pos \in Nat /\ begin_pos < ChunkCells
      /\ prev \in [Chunk -> Chunk \union {NoChunk}] /\ next \in [Chunk -> Chunk \union {NoChunk}]
      /\ heap \subseteq Chunk /\ spare_chunk \in Chunk \union {NoChunk}
  <2>1. n \in Nat /\ n - 1 <= MaxCells
    BY DEF Layout
  <2>2. n - 1 \in Nat \ {0} /\ (n - 1) - 1 = n - 2 /\ (n - 1) - 1 <= MaxCells
    BY <2>1, YPipeFacts
  <2>3. /\ begin_chunk \in Chunk /\ begin_pos \in Nat /\ begin_pos < ChunkCells
        /\ prev \in [Chunk -> Chunk \union {NoChunk}] /\ next \in [Chunk -> Chunk \union {NoChunk}]
        /\ heap \subseteq Chunk /\ spare_chunk \in Chunk \union {NoChunk}
    BY LayoutFacts
  <2> QED BY <2>1, <2>2, <2>3
<1>2. \A j \in Nat : cs[j] = <<cs[j][1], cs[j][2]>> /\ cs[j][1] \in Chunk /\ cs[j][2] \in Nat /\ cs[j][2] < ChunkCells
  BY LayoutFacts
<1>3. cs \in [Nat -> Chunk \X Pos] /\ cs[0] = <<begin_chunk, begin_pos>> /\ cs[n - 1] = <<back_chunk, back_pos>>
      /\ cs[n] = <<end_chunk, end_pos>>
  BY DEF Layout
<1>4. xs \in [Nat -> Chunk \X Pos] /\ \A j \in Nat : xs[j] = cs[j + 1]
  BY <1>3
<1>5. xs[(n - 1) - 1] = <<back_chunk', back_pos'>> /\ xs[n - 1] = <<end_chunk', end_pos'>>
  <2>1. (n - 1) - 1 \in Nat /\ ((n - 1) - 1) + 1 = n - 1 /\ (n - 1) + 1 = n
    BY <1>1
  <2> QED BY <2>1, <1>1, <1>3, <1>4
<1>6. cs[1] = Y!After(cs[0]) /\ (cs[1][2] = 0 => prev[cs[1][1]] = begin_chunk)
  <2>1. 0 \in 0..n - 1 /\ 0 + 1 = 1 /\ cs[0][1] = begin_chunk
    BY <1>1, <1>3
  <2>2. cs[0 + 1] = Y!After(cs[0]) /\ (cs[0 + 1][2] = 0 => prev[cs[0 + 1][1]] = cs[0][1])
    BY <2>1 DEF Layout, Linked, LinkedBack
  <2> QED BY <2>1, <2>2
<1>7. \A j \in 0..n : cs[j][1] = begin_chunk => cs[j][2] - begin_pos = j
  <2>1. 0 \in 0..n /\ cs[0][1] = begin_chunk /\ cs[0][2] = begin_pos
    BY <1>1, <1>3
  <2> QED BY <2>1 DEF Layout, InLine
<1>8. xs[0] = <<begin_chunk', begin_pos'>>
  <2>1. xs[0] = cs[1]
    BY <1>4
  <2>2. CASE begin_pos + 1 # ChunkCells
    BY <2>1, <2>2, <1>3, <1>6 DEF Y!After, Y!Pop
  <2>3. CASE begin_pos + 1 = ChunkCells
    BY <2>1, <2>3, <1>3, <1>6 DEF Y!After, Y!Pop
  <2> QED BY <2>2, <2>3
<1>9. Linked(xs, n - 1)'
  <2> SUFFICES ASSUME NEW j \in 0..(n - 1) - 1 PROVE xs[j + 1] = Y!After(xs[j])'
    BY DEF Linked
  <2>1. j \in Nat /\ j + 1 \in Nat /\ j + 1 \in 0..n - 1
    BY <1>1
  <2>2. cs[(j + 1) + 1] = Y!After(cs[j + 1])
    BY <2>1 DEF Layout, Linked
  <2>3. \A cell : Y!After(cell)' = Y!After(cell)
    BY DEF Y!After
  <2> QED BY <2>1, <2>2, <2>3, <1>4
<1>10. InLine(xs, n - 1)
  <2> SUFFICES ASSUME NEW i \in 0..n - 1, NEW j \in 0..n - 1, xs[i][1] = xs[j][1] PROVE xs[j][2] - xs[i][2] = j - i
    BY DEF InLine
  <2>1. i \in Nat /\ j \in Nat /\ i + 1 \in 0..n /\ j + 1 \in 0..n
    BY <1>1
  <2>2. xs[i] = cs[i + 1] /\ xs[j] = cs[j + 1]
    BY <2>1, <1>4
  <2>3. cs[j + 1][2] - cs[i + 1][2] = (j + 1) - (i + 1)
    BY <2>1, <2>2 DEF Layout, InLine
  <2> QED BY <2>1, <2>2, <2>3
<1>11. ChunksOf(cs, n) = ChunksOf(xs, n - 1) \union {begin_chunk}
  <2>1. ASSUME NEW j \in 0..n PROVE cs[j][1] \in ChunksOf(xs, n - 1) \union {begin_chunk}
    <3>1. CASE j = 0
      BY <3>1, <1>3
    <3>2. CASE j # 0
      <4>1. j - 1 \in 0..n - 1 /\ j - 1 \in Nat /\ (j - 1) + 1 = j
        BY <3>2, <1>1
      <4>2. xs[j - 1] = cs[j]
        BY <4>1, <1>4
      <4> QED BY <4>1, <4>2 DEF ChunksOf
    <3> QED BY <3>1, <3>2
  <2>2. ASSUME NEW j \in 0..n - 1 PROVE xs[j][1] \in ChunksOf(cs, n)
    <3>1. j + 1 \in 0..n /\ xs[j] = cs[j + 1]
      BY <1>1, <1>4
    <3> QED BY <3>1 DEF ChunksOf
  <2>3. begin_chunk \in ChunksOf(cs, n)
    <3>1. 0 \in 0..n /\ cs[0][1] = begin_chunk
      BY <1>1, <1>3
    <3> QED BY <3>1 DEF ChunksOf
  <2> QED BY <2>1, <2>2, <2>3 DEF ChunksOf
<1>12. heap = ChunksOf(cs, n) \union ({spare_chunk} \ {NoChunk}) /\ spare_chunk \notin ChunksOf(cs, n)
  BY DEF Layout
<1>13. InLine(xs, n - 1)' /\ ChunksOf(xs, n - 1)' = ChunksOf(xs, n - 1)
  BY <1>10 DEF InLine, ChunksOf
<1>17. /\ n - 1 \in Nat \ {0} /\ (n - 1) - 1 <= MaxCells /\ xs \in [Nat -> Chunk \X Pos]
       /\ xs[0] = <<begin_chunk', begin_pos'>> /\ xs[(n - 1) - 1] = <<back_chunk', back_pos'>>
       /\ xs[n - 1] = <<end_chunk', end_pos'>>
  BY <1>1, <1>4, <1>5, <1>8
<1>16. \A j \in 0..n - 1 : xs[j] = cs[j + 1]
  BY <1>1, <1>4
<1> SUFFICES Layout(xs, n - 1)'
  BY <1>16
<1>14. CASE begin_pos + 1 # ChunkCells
  <2>1. UNCHANGED <<heap, prev, begin_chunk, spare_chunk>>
    BY <1>14 DEF Y!Pop
  <2>2. begin_chunk \in ChunksOf(xs, n - 1)
    <3>1. cs[1] = <<begin_chunk, begin_pos + 1>>
      BY <1>14, <1>3, <1>6 DEF Y!After
    <3>2. xs[0] = cs[1] /\ 0 \in 0..n - 1
      BY <1>1, <1>4
    <3> QED BY <3>1, <3>2 DEF ChunksOf
  <2>3. heap' = ChunksOf(xs, n - 1) \union ({spare_chunk'} \ {NoChunk}) /\ spare_chunk' \notin ChunksOf(xs, n - 1)
    BY <2>1, <2>2, <1>11, <1>12
  <2>4. LinkedBack(xs, n - 1)'
    <3> SUFFICES ASSUME NEW j \in 0..(n - 1) - 1, xs[j + 1][2] = 0 PROVE prev[xs[j + 1][1]] = xs[j][1]
      BY <2>1 DEF LinkedBack
    <3>1. j \in Nat /\ j + 1 \in Nat /\ j + 1 \in 0..n - 1 /\ xs[j + 1] = cs[(j + 1) + 1] /\ xs[j] = cs[j + 1]
      BY <1>1, <1>4
    <3> QED BY <3>1 DEF Layout, LinkedBack
  <2> QED BY <2>3, <2>4, <1>9, <1>13, <1>17 DEF Layout
<1>15. CASE begin_pos + 1 = ChunkCells
  <2>1. /\ prev' = [prev EXCEPT ![next[begin_chunk]] = NoChunk] /\ spare_chunk' = begin_chunk
        /\ heap' = heap \ {spare_chunk} /\ begin_chunk' = next[begin_chunk]
    BY <1>15 DEF Y!Pop
  <2>2. cs[1] = <<next[begin_chunk], 0>>
    BY <1>15, <1>3, <1>6 DEF Y!After
  <2>3. begin_chunk \notin ChunksOf(xs, n - 1)
    <3> SUFFICES ASSUME NEW j \in 0..n - 1, xs[j][1] = begin_chunk PROVE FALSE
      BY DEF ChunksOf
    <3>1. j + 1 \in 0..n /\ xs[j] = cs[j + 1] /\ cs[j + 1][2] \in Nat /\ cs[j + 1][2] < ChunkCells
      BY <1>1, <1>2, <1>4
    <3>2. cs[j + 1][2] - begin_pos = j + 1
      BY <3>1, <1>7
    <3> QED BY <3>1, <3>2, <1>1, <1>15
  <2>4. heap' = ChunksOf(xs, n - 1) \union ({spare_chunk'} \ {NoChunk}) /\ spare_chunk' \notin ChunksOf(xs, n - 1)
    <3>1. begin_chunk # NoChunk /\ spare_chunk \notin ChunksOf(xs, n - 1) /\ spare_chunk # begin_chunk
      BY <1>1, <1>11, <1>12, YPipeFacts
    <3> QED BY <3>1, <2>1, <2>3, <1>11, <1>12
  <2>5. LinkedBack(xs, n - 1)'
    <3> SUFFICES ASSUME NEW j \in 0..(n - 1) - 1, xs[j + 1][2] = 0 PROVE prev'[xs[j + 1][1]] = xs[j][1]
      BY DEF LinkedBack
    <3>1. j \in Nat /\ j + 1 \in Nat /\ j + 1 \in 0..n - 1 /\ xs[j + 1] = cs[(j + 1) + 1] /\ xs[j] = cs[j + 1]
      BY <1>1, <1>4
    <3>2. prev[xs[j + 1][1]] = xs[j][1]
      BY <3>1 DEF Layout, LinkedBack
    <3>3. xs[j + 1][1] # next[begin_chunk]
      <4> SUFFICES ASSUME xs[j + 1][1] = next[begin_chunk] PROVE FALSE
        OBVIOUS
      <4>1. cs[1][1] = next[begin_chunk] /\ cs[1][2] = 0
        BY <2>2
      <4>2. (j + 1) + 1 \in 0..n /\ 1 \in 0..n
        BY <3>1, <1>1
      <4>3. cs[(j + 1) + 1][2] - cs[1][2] = ((j + 1) + 1) - 1
        BY <4>1, <4>2, <3>1 DEF Layout, InLine
      <4> QED BY <4>1, <4>3, <3>1
    <3>4. xs[j + 1][1] \in Chunk
      BY <3>1, <1>2
    <3> QED BY <3>2, <3>3, <3>4, <2>1, <1>1
  <2> QED BY <2>4, <2>5, <1>9, <1>13, <1>17 DEF Layout
<1> QED BY <1>14, <1>15

(***************************************************************************)
(* What stretches of the queue hold.                                       *)
(***************************************************************************)
Stored == Item \union {NoChunk}

LEMMA OneInterval ==
  ASSUME NEW a \in Nat, NEW b \in Nat, 1..a = 1..b
  PROVE  a = b
<1>1. ~(a < b)
  <2> SUFFICES ASSUME a < b PROVE FALSE
    OBVIOUS
  <2>1. b \in 1..b /\ b \notin 1..a
    OBVIOUS
  <2> QED BY <2>1
<1>2. ~(b < a)
  <2> SUFFICES ASSUME b < a PROVE FALSE
    OBVIOUS
  <2>1. a \in 1..a /\ a \notin 1..b
    OBVIOUS
  <2> QED BY <2>1
<1> QED BY <1>1, <1>2

LEMMA HeldSeq ==
  ASSUME NEW vals \in [Chunk \X Pos -> Stored], NEW cs \in [Nat -> Chunk \X Pos], NEW i \in Nat, NEW k \in Nat, i <= k
  PROVE  /\ Held(vals, cs, i, k) \in Seq(Stored) /\ Len(Held(vals, cs, i, k)) = k - i
         /\ \A j \in 1..k - i : Held(vals, cs, i, k)[j] = vals[cs[i + j - 1]]
<1>1. k - i \in Nat
  OBVIOUS
<1>2. ASSUME NEW j \in 1..k - i PROVE vals[cs[i + j - 1]] \in Stored
  <2>1. i + j - 1 \in Nat
    OBVIOUS
  <2>2. cs[i + j - 1] \in Chunk \X Pos
    BY <2>1
  <2> QED BY <2>2
<1>3. Held(vals, cs, i, k) \in [1..k - i -> Stored]
  BY <1>2 DEF Held
<1>5. DOMAIN Held(vals, cs, i, k) = 1..k - i
  BY DEF Held
<1>4. Held(vals, cs, i, k) \in Seq(Stored) /\ Len(Held(vals, cs, i, k)) = k - i
  <2> DEFINE held == Held(vals, cs, i, k)
  <2> HIDE DEF held
  <2>1. held \in [1..k - i -> Stored] /\ DOMAIN held = 1..k - i
    BY <1>3, <1>5 DEF held
  <2>2. held \in Seq(Stored)
    BY <2>1, <1>1, SeqDef
  <2>3. Len(held) \in Nat /\ DOMAIN held = 1..Len(held)
    BY <2>2, LenProperties
  <2>4. Len(held) = k - i
    BY <2>1, <2>3, <1>1, OneInterval
  <2> QED BY <2>2, <2>4 DEF held
<1> QED BY <1>4 DEF Held

LEMMA HeldTogether ==
  ASSUME NEW vals \in [Chunk \X Pos -> Stored], NEW cs \in [Nat -> Chunk \X Pos],
         NEW i \in Nat, NEW k \in Nat, NEW m \in Nat, i <= k, k <= m
  PROVE  Held(vals, cs, i, k) \o Held(vals, cs, k, m) = Held(vals, cs, i, m)
<1> DEFINE one == Held(vals, cs, i, k)
           two == Held(vals, cs, k, m)
           all == Held(vals, cs, i, m)
<1>1. /\ one \in Seq(Stored) /\ Len(one) = k - i /\ \A j \in 1..k - i : one[j] = vals[cs[i + j - 1]]
      /\ two \in Seq(Stored) /\ Len(two) = m - k /\ \A j \in 1..m - k : two[j] = vals[cs[k + j - 1]]
      /\ all \in Seq(Stored) /\ Len(all) = m - i /\ \A j \in 1..m - i : all[j] = vals[cs[i + j - 1]]
  <2>9. i <= m
    OBVIOUS
  <2>1. one \in Seq(Stored) /\ Len(one) = k - i /\ \A j \in 1..k - i : one[j] = vals[cs[i + j - 1]]
    <3>1. one \in Seq(Stored)
      BY <2>9, HeldSeq, Zenon
    <3>2. Len(one) = k - i
      BY <2>9, HeldSeq, Zenon
    <3>3. \A j \in 1..k - i : one[j] = vals[cs[i + j - 1]]
      BY DEF Held
    <3> QED BY <3>1, <3>2, <3>3
  <2>2. two \in Seq(Stored) /\ Len(two) = m - k /\ \A j \in 1..m - k : two[j] = vals[cs[k + j - 1]]
    <3>1. two \in Seq(Stored)
      BY <2>9, HeldSeq, Zenon
    <3>2. Len(two) = m - k
      BY <2>9, HeldSeq, Zenon
    <3>3. \A j \in 1..m - k : two[j] = vals[cs[k + j - 1]]
      BY DEF Held
    <3> QED BY <3>1, <3>2, <3>3
  <2>3. all \in Seq(Stored) /\ Len(all) = m - i /\ \A j \in 1..m - i : all[j] = vals[cs[i + j - 1]]
    <3>1. all \in Seq(Stored)
      BY <2>9, HeldSeq, Zenon
    <3>2. Len(all) = m - i
      BY <2>9, HeldSeq, Zenon
    <3>3. \A j \in 1..m - i : all[j] = vals[cs[i + j - 1]]
      BY DEF Held
    <3> QED BY <3>1, <3>2, <3>3
  <2> QED BY <2>1, <2>2, <2>3
<1> HIDE DEF one, two, all
<1>2. one \o two \in Seq(Stored) /\ Len(one \o two) = m - i
  <2>1. one \o two \in Seq(Stored) /\ Len(one \o two) = Len(one) + Len(two)
    BY <1>1, ConcatProperties
  <2>2. Len(one) + Len(two) = m - i
    BY <1>1
  <2> QED BY <2>1, <2>2
<1>3. ASSUME NEW j \in 1..m - i PROVE (one \o two)[j] = all[j]
  <2>1. CASE j <= k - i
    <3>1. j \in 1..k - i /\ j \in 1..Len(one) + Len(two) /\ j <= Len(one)
      BY <1>1, <2>1
    <3>2. (one \o two)[j] = one[j]
      BY <3>1, <1>1, ConcatProperties
    <3> QED BY <3>1, <3>2, <1>1
  <2>2. CASE j > k - i
    <3>1. j - (k - i) \in 1..m - k /\ k + (j - (k - i)) - 1 = i + j - 1
      BY <2>2
    <3>3. (one \o two)[j] = two[j - (k - i)]
      <4>1. j \in 1..Len(one) + Len(two) /\ ~(j <= Len(one)) /\ j - Len(one) = j - (k - i)
        BY <1>1, <2>2
      <4> QED BY <4>1, <1>1, ConcatProperties
    <3>2. two[j - (k - i)] = vals[cs[k + (j - (k - i)) - 1]]
      BY <3>1, <1>1
    <3>4. all[j] = vals[cs[i + j - 1]]
      BY <1>1
    <3> QED BY <3>1, <3>2, <3>3, <3>4
  <2> QED BY <2>1, <2>2, <1>1
<1>4. one \o two = all
  BY <1>1, <1>2, <1>3, SeqEqual
<1> QED BY <1>4 DEF one, two, all

LEMMA HeldOneMore ==
  ASSUME NEW vals \in [Chunk \X Pos -> Stored], NEW cs \in [Nat -> Chunk \X Pos], NEW i \in Nat, NEW k \in Nat, i <= k
  PROVE  Held(vals, cs, i, k + 1) = Append(Held(vals, cs, i, k), vals[cs[k]])
<1> DEFINE one == Held(vals, cs, i, k)
           all == Held(vals, cs, i, k + 1)
<1>1. /\ one \in Seq(Stored) /\ Len(one) = k - i /\ \A j \in 1..k - i : one[j] = vals[cs[i + j - 1]]
      /\ all \in Seq(Stored) /\ Len(all) = (k + 1) - i /\ \A j \in 1..(k + 1) - i : all[j] = vals[cs[i + j - 1]]
  <2>9. k + 1 \in Nat /\ i <= k + 1
    OBVIOUS
  <2>1. one \in Seq(Stored) /\ Len(one) = k - i /\ \A j \in 1..k - i : one[j] = vals[cs[i + j - 1]]
    <3>1. one \in Seq(Stored)
      BY <2>9, HeldSeq, Zenon
    <3>2. Len(one) = k - i
      BY <2>9, HeldSeq, Zenon
    <3>3. \A j \in 1..k - i : one[j] = vals[cs[i + j - 1]]
      BY DEF Held
    <3> QED BY <3>1, <3>2, <3>3
  <2>2. all \in Seq(Stored) /\ Len(all) = (k + 1) - i /\ \A j \in 1..(k + 1) - i : all[j] = vals[cs[i + j - 1]]
    <3>1. all \in Seq(Stored)
      BY <2>9, HeldSeq, Zenon
    <3>2. Len(all) = (k + 1) - i
      BY <2>9, HeldSeq, Zenon
    <3>3. \A j \in 1..(k + 1) - i : all[j] = vals[cs[i + j - 1]]
      BY DEF Held
    <3> QED BY <3>1, <3>2, <3>3
  <2> QED BY <2>1, <2>2
<1>2. vals[cs[k]] \in Stored
  OBVIOUS
<1> HIDE DEF one, all
<1>3. Append(one, vals[cs[k]]) \in Seq(Stored) /\ Len(Append(one, vals[cs[k]])) = (k + 1) - i
  BY <1>1, <1>2, AppendProperties
<1>4. ASSUME NEW j \in 1..(k + 1) - i PROVE Append(one, vals[cs[k]])[j] = all[j]
  <2>1. CASE j <= k - i
    <3>1. j \in 1..k - i /\ Append(one, vals[cs[k]])[j] = one[j]
      BY <1>1, <1>2, <2>1, AppendProperties
    <3> QED BY <3>1, <1>1
  <2>2. CASE j > k - i
    <3>1. j = (k - i) + 1 /\ i + j - 1 = k
      BY <2>2
    <3>2. Append(one, vals[cs[k]])[j] = vals[cs[k]]
      BY <1>1, <1>2, <3>1, AppendProperties
    <3> QED BY <3>1, <3>2, <1>1
  <2> QED BY <2>1, <2>2, <1>1
<1>5. Append(one, vals[cs[k]]) = all
  BY <1>1, <1>3, <1>4, SeqEqual
<1> QED BY <1>5 DEF one, all

LEMMA HeldTail ==
  ASSUME NEW vals \in [Chunk \X Pos -> Stored], NEW cs \in [Nat -> Chunk \X Pos], NEW i \in Nat, NEW k \in Nat, i < k
  PROVE  /\ Held(vals, cs, i, k) # <<>>
         /\ Tail(Held(vals, cs, i, k)) = Held(vals, cs, i + 1, k)
<1> DEFINE all == Held(vals, cs, i, k)
           rest == Held(vals, cs, i + 1, k)
<1>1. /\ all \in Seq(Stored) /\ Len(all) = k - i /\ \A j \in 1..k - i : all[j] = vals[cs[i + j - 1]]
      /\ rest \in Seq(Stored) /\ Len(rest) = k - (i + 1) /\ \A j \in 1..k - (i + 1) : rest[j] = vals[cs[(i + 1) + j - 1]]
  <2>9. i <= k /\ i + 1 \in Nat /\ i + 1 <= k
    OBVIOUS
  <2>1. all \in Seq(Stored) /\ Len(all) = k - i /\ \A j \in 1..k - i : all[j] = vals[cs[i + j - 1]]
    <3>1. all \in Seq(Stored)
      BY <2>9, HeldSeq, Zenon
    <3>2. Len(all) = k - i
      BY <2>9, HeldSeq, Zenon
    <3>3. \A j \in 1..k - i : all[j] = vals[cs[i + j - 1]]
      BY DEF Held
    <3> QED BY <3>1, <3>2, <3>3
  <2>2. rest \in Seq(Stored) /\ Len(rest) = k - (i + 1) /\ \A j \in 1..k - (i + 1) : rest[j] = vals[cs[(i + 1) + j - 1]]
    <3>1. rest \in Seq(Stored)
      BY <2>9, HeldSeq, Zenon
    <3>2. Len(rest) = k - (i + 1)
      BY <2>9, HeldSeq, Zenon
    <3>3. \A j \in 1..k - (i + 1) : rest[j] = vals[cs[(i + 1) + j - 1]]
      BY DEF Held
    <3> QED BY <3>1, <3>2, <3>3
  <2> QED BY <2>1, <2>2
<1> HIDE DEF all, rest
<1>2. all # <<>> /\ Tail(all) \in Seq(Stored) /\ Len(Tail(all)) = k - (i + 1)
  BY <1>1
<1>3. ASSUME NEW j \in 1..k - (i + 1) PROVE Tail(all)[j] = rest[j]
  <2>1. j + 1 \in 1..k - i /\ i + (j + 1) - 1 = (i + 1) + j - 1
    OBVIOUS
  <2>3. Tail(all)[j] = all[j + 1]
    <3>1. j \in 1..Len(Tail(all))
      BY <1>2
    <3> QED BY <3>1, <1>1, <1>2, HeadTailProperties
  <2>2. all[j + 1] = vals[cs[i + (j + 1) - 1]]
    BY <1>1, <2>1
  <2> QED BY <2>1, <2>2, <2>3, <1>1
<1>4. Tail(all) = rest
  BY <1>1, <1>2, <1>3, SeqEqual
<1> QED BY <1>2, <1>4 DEF all, rest

LEMMA HeldFront ==
  ASSUME NEW vals \in [Chunk \X Pos -> Stored], NEW cs \in [Nat -> Chunk \X Pos], NEW i \in Nat, NEW k \in Nat, i < k
  PROVE  SubSeq(Held(vals, cs, i, k), 1, Len(Held(vals, cs, i, k)) - 1) = Held(vals, cs, i, k - 1)
<1> DEFINE all == Held(vals, cs, i, k)
           rest == Held(vals, cs, i, k - 1)
<1>1. /\ all \in Seq(Stored) /\ Len(all) = k - i /\ \A j \in 1..k - i : all[j] = vals[cs[i + j - 1]]
      /\ rest \in Seq(Stored) /\ Len(rest) = (k - 1) - i /\ \A j \in 1..(k - 1) - i : rest[j] = vals[cs[i + j - 1]]
  <2>9. i <= k /\ k - 1 \in Nat /\ i <= k - 1
    OBVIOUS
  <2>1. all \in Seq(Stored) /\ Len(all) = k - i /\ \A j \in 1..k - i : all[j] = vals[cs[i + j - 1]]
    <3>1. all \in Seq(Stored)
      BY <2>9, HeldSeq, Zenon
    <3>2. Len(all) = k - i
      BY <2>9, HeldSeq, Zenon
    <3>3. \A j \in 1..k - i : all[j] = vals[cs[i + j - 1]]
      BY DEF Held
    <3> QED BY <3>1, <3>2, <3>3
  <2>2. rest \in Seq(Stored) /\ Len(rest) = (k - 1) - i /\ \A j \in 1..(k - 1) - i : rest[j] = vals[cs[i + j - 1]]
    <3>1. rest \in Seq(Stored)
      BY <2>9, HeldSeq, Zenon
    <3>2. Len(rest) = (k - 1) - i
      BY <2>9, HeldSeq, Zenon
    <3>3. \A j \in 1..(k - 1) - i : rest[j] = vals[cs[i + j - 1]]
      BY DEF Held
    <3> QED BY <3>1, <3>2, <3>3
  <2> QED BY <2>1, <2>2
<1> HIDE DEF all, rest
<1>2. SubSeq(all, 1, Len(all) - 1) \in Seq(Stored) /\ Len(SubSeq(all, 1, Len(all) - 1)) = (k - 1) - i
  BY <1>1
<1>3. ASSUME NEW j \in 1..(k - 1) - i PROVE SubSeq(all, 1, Len(all) - 1)[j] = rest[j]
  <2>1. j \in 1..k - i /\ SubSeq(all, 1, Len(all) - 1)[j] = all[j]
    BY <1>1
  <2> QED BY <2>1, <1>1
<1>4. SubSeq(all, 1, Len(all) - 1) = rest
  BY <1>1, <1>2, <1>3, SeqEqual
<1> QED BY <1>4 DEF all, rest

LEMMA HeldNone ==
  ASSUME NEW vals \in [Chunk \X Pos -> Stored], NEW cs \in [Nat -> Chunk \X Pos], NEW i \in Nat
  PROVE  Held(vals, cs, i, i) = <<>>
<1>1. Held(vals, cs, i, i) \in Seq(Stored) /\ Len(Held(vals, cs, i, i)) = i - i
  <2>1. i <= i
    OBVIOUS
  <2> QED BY <2>1, HeldSeq, Zenon
<1>2. i - i = 0
  OBVIOUS
<1> QED BY <1>1, <1>2, EmptySeq

(***************************************************************************)
(* What FlushedQueue sees of a queue.                                      *)
(***************************************************************************)
View(cs, n, iw, jf) ==
  /\ Y!Between(f, Y!BackCell) = Held(values, cs, jf, n - 1)
  /\ Y!Between(w, f) = Held(values, cs, iw, jf)
  /\ Y!Between(Y!FrontCell, w) = Held(values, cs, 0, iw)

QueueSeen == \A cs, n, ir, iw, jf : Queue(cs, n, ir, iw, jf) => View(cs, n, iw, jf)

LEMMA QueueSeenHolds == QueueSeen
<1> SUFFICES ASSUME NEW cs, NEW n, NEW ir, NEW iw, NEW jf, Queue(cs, n, ir, iw, jf) PROVE View(cs, n, iw, jf)
  BY DEF QueueSeen
<1>1. Layout(cs, n) /\ Points(cs, n, ir, iw, jf)
  BY DEF Queue
<1>2. n \in Nat /\ n > 0 /\ n - 1 \in 0..n - 1 /\ 0 \in 0..n - 1
  BY <1>1 DEF Layout
<1>3. iw \in 0..n - 1 /\ jf \in 0..n - 1 /\ iw <= jf /\ jf <= n - 1 /\ 0 <= iw
  BY <1>1, <1>2 DEF Points
<1>4. f = cs[jf] /\ w = cs[iw] /\ Y!FrontCell = cs[0] /\ Y!BackCell = cs[n - 1]
  BY <1>1 DEF Points, Layout, Y!FrontCell, Y!BackCell
<1>5. Y!Between(cs[jf], cs[n - 1]) = Held(values, cs, jf, n - 1)
  BY <1>1, <1>2, <1>3, BetweenIs
<1>6. Y!Between(cs[iw], cs[jf]) = Held(values, cs, iw, jf)
  BY <1>1, <1>2, <1>3, BetweenIs
<1>7. Y!Between(cs[0], cs[iw]) = Held(values, cs, 0, iw)
  BY <1>1, <1>2, <1>3, BetweenIs
<1> QED BY <1>4, <1>5, <1>6, <1>7 DEF View

\* What the type invariant adds to the layout of the queue.
Typed ==
  /\ values \in [Chunk \X Pos -> Stored]
  /\ prev \in [Chunk -> Chunk \union {NoChunk}] /\ next \in [Chunk -> Chunk \union {NoChunk}]
  /\ spare_chunk \in Chunk \union {NoChunk}
  /\ flushing \in BOOLEAN
  /\ reader \in {"awake", "asleep", "signalled"}

QueueTyped == \A cs, n, ir, iw, jf : Queue(cs, n, ir, iw, jf) /\ Typed => Y!TypeOK

LEMMA QueueTypedHolds == QueueTyped
<1> SUFFICES ASSUME NEW cs, NEW n, NEW ir, NEW iw, NEW jf, Queue(cs, n, ir, iw, jf), Typed PROVE Y!TypeOK
  BY DEF QueueTyped
<1>1. Layout(cs, n) /\ Points(cs, n, ir, iw, jf)
  BY DEF Queue
<1>2. n \in Nat /\ n > 0 /\ n - 1 \in Nat /\ 0 \in Nat /\ cs \in [Nat -> Chunk \X Pos]
  BY <1>1 DEF Layout
<1>3. \A j \in Nat : cs[j] \in Chunk \X Pos
  BY <1>2
<1>4. Y!FrontCell \in Y!Cell /\ Y!BackCell \in Y!Cell /\ <<end_chunk, end_pos>> \in Y!Cell
  <2>1. Y!FrontCell = cs[0] /\ Y!BackCell = cs[n - 1] /\ <<end_chunk, end_pos>> = cs[n]
    BY <1>1 DEF Layout, Y!FrontCell, Y!BackCell
  <2> QED BY <2>1, <1>2, <1>3 DEF Y!Cell, Y!Pos, Pos
<1>5. {w, f, r} \subseteq Y!Cell /\ c \in Y!Cell \union {NoChunk}
  <2>1. ir \in Nat /\ iw \in Nat /\ jf \in Nat /\ r = cs[ir] /\ w = cs[iw] /\ f = cs[jf] /\ c = IF reader = "asleep" THEN NoChunk ELSE w
    BY <1>1 DEF Points
  <2>2. r \in Chunk \X Pos /\ w \in Chunk \X Pos /\ f \in Chunk \X Pos
    BY <2>1, <1>3
  <2> QED BY <2>1, <2>2 DEF Y!Cell, Y!Pos, Pos
<1>6. heap \subseteq Chunk
  <2>1. \A j \in Nat : cs[j][1] \in Chunk
    BY <1>3
  <2>2. \A j \in 0..n : cs[j][1] \in Chunk
    BY <2>1, <1>2
  <2>3. ChunksOf(cs, n) \subseteq Chunk
    BY <2>2 DEF ChunksOf
  <2>4. heap = ChunksOf(cs, n) \union ({spare_chunk} \ {NoChunk}) /\ spare_chunk \in Chunk \union {NoChunk}
    BY <1>1 DEF Layout, Typed
  <2> QED BY <2>3, <2>4
<1> QED BY <1>4, <1>5, <1>6 DEF Typed, Y!TypeOK, Stored, Y!Cell, Y!Pos, Pos

LEMMA TypesOfQueue ==
  ASSUME Y!TypeOK PROVE Typed
BY DEF Typed, Y!TypeOK, Stored, Y!Cell, Y!Pos, Pos

(***************************************************************************)
(* The steps.                                                              *)
(***************************************************************************)
Step == Y!Promise!Next \/ UNCHANGED Y!Promise!queueVars
InLayout == \E cs, n, ir, iw, jf : Queue(cs, n, ir, iw, jf)

\* A queue's numbers, and what FlushedQueue sees of it.
QueueNumbers(cs, n, ir, iw, jf) ==
  /\ n \in Nat /\ n > 0 /\ n - 1 \in Nat /\ cs \in [Nat -> Chunk \X Pos]
  /\ ir \in Nat /\ iw \in Nat /\ jf \in Nat /\ ir <= iw /\ iw <= jf /\ jf <= n - 1

LEMMA QueueFacts ==
  ASSUME Y!TypeOK, NEW cs, NEW n, NEW ir, NEW iw, NEW jf, Queue(cs, n, ir, iw, jf)
  PROVE  /\ Layout(cs, n) /\ Points(cs, n, ir, iw, jf) /\ Typed
         /\ QueueNumbers(cs, n, ir, iw, jf) /\ View(cs, n, iw, jf)
<1>1. Layout(cs, n) /\ Points(cs, n, ir, iw, jf) /\ Typed /\ View(cs, n, iw, jf)
  BY TypesOfQueue, QueueSeenHolds DEF Queue, QueueSeen
<1>2. n \in Nat \ {0} /\ cs \in [Nat -> Chunk \X Pos]
  BY <1>1 DEF Layout
<1>3. ir \in Nat /\ iw \in Nat /\ jf \in Nat /\ ir <= iw /\ iw <= jf /\ jf < n
  BY <1>1 DEF Points
<1>4. n > 0 /\ n - 1 \in Nat /\ jf <= n - 1
  BY <1>2, <1>3
<1> QED BY <1>1, <1>2, <1>3, <1>4 DEF QueueNumbers

LEMMA NextQueue ==
  ASSUME NEW cs, NEW n, NEW ir, NEW iw, NEW jf, Queue(cs, n, ir, iw, jf)', Typed'
  PROVE  /\ Y!TypeOK' /\ InLayout' /\ View(cs, n, iw, jf)'
<1>1. QueueSeen' /\ QueueTyped'
  BY QueueSeenHolds, QueueTypedHolds, PTL
<1>2. Y!TypeOK'
  BY <1>1 DEF QueueTyped
<1>3. View(cs, n, iw, jf)'
  BY <1>1 DEF QueueSeen
<1>4. InLayout'
  BY DEF InLayout
<1> QED BY <1>2, <1>3, <1>4

LEMMA WriteStep ==
  ASSUME Y!TypeOK, NEW cs, NEW n, NEW ir, NEW iw, NEW jf, Queue(cs, n, ir, iw, jf),
         NEW v \in Item, NEW incomplete \in BOOLEAN, Y!Write(v, incomplete)
  PROVE  Y!TypeOK' /\ InLayout' /\ Step
<1>1. Layout(cs, n) /\ Points(cs, n, ir, iw, jf) /\ Typed /\ QueueNumbers(cs, n, ir, iw, jf) /\ View(cs, n, iw, jf)
  BY QueueFacts
<1>2. /\ values' = [values EXCEPT ![<<back_chunk, back_pos>>] = v] /\ Y!Push
      /\ f' = (IF incomplete THEN f ELSE <<back_chunk', back_pos'>>)
      /\ UNCHANGED <<begin_chunk, begin_pos, r, reader, w, c, flushing>>
      /\ ~flushing /\ Len(Y!Live) < MaxCells
  BY DEF Y!Write, Y!WriterUnchanged, Y!frontVars, Y!BackCell
<1>3. /\ n \in Nat /\ n > 0 /\ n - 1 \in Nat /\ cs \in [Nat -> Chunk \X Pos]
      /\ ir \in Nat /\ iw \in Nat /\ jf \in Nat /\ ir <= iw /\ iw <= jf /\ jf <= n - 1
  BY <1>1 DEF QueueNumbers
<1>4. n < MaxCells
  <2>1. Y!Live = [j \in 1..n |-> cs[j - 1]]
    BY <1>1, LiveIs
  <2>2. Len(Y!Live) = n
    BY <2>1, <1>3
  <2> QED BY <2>2, <1>2
<1>5. PICK xs : (\A j \in 0..n : xs[j] = cs[j]) /\ Layout(xs, n + 1)'
  BY <1>1, <1>2, <1>4, PushKept
<1>6. xs \in [Nat -> Chunk \X Pos] /\ xs[(n + 1) - 1] = <<back_chunk', back_pos'>> /\ cs[n - 1] = <<back_chunk, back_pos>>
  BY <1>1, <1>5 DEF Layout
<1>7. (n + 1) - 1 = n /\ n + 1 \in Nat /\ n \in 0..n /\ n - 1 \in 0..n /\ ir \in 0..n /\ iw \in 0..n /\ jf \in 0..n
  BY <1>3
<1> DEFINE kf == IF incomplete THEN jf ELSE n
<1>8. kf \in Nat /\ iw <= kf /\ kf < n + 1 /\ kf \in 0..n
  BY <1>3
<1>9. f' = xs[kf]
  <2>1. f = xs[jf] /\ <<back_chunk', back_pos'>> = xs[n]
    BY <1>1, <1>5, <1>6, <1>7 DEF Points
  <2> QED BY <2>1, <1>2
<1> HIDE DEF kf
<1>10. Points(xs, n + 1, ir, iw, kf)'
  <2>1. r' = xs[ir] /\ w' = xs[iw]
    BY <1>1, <1>2, <1>5, <1>7 DEF Points
  <2>2. /\ c' = (IF reader' = "asleep" THEN NoChunk ELSE w')
        /\ (reader' = "asleep" => iw = 0) /\ ~flushing'
    BY <1>1, <1>2 DEF Points
  <2> QED BY <2>1, <2>2, <1>3, <1>8, <1>9 DEF Points
<1>11. Queue(xs, n + 1, ir, iw, kf)'
  BY <1>5, <1>10 DEF Queue
<1>12. Typed'
  <2>1. values' \in [Chunk \X Pos -> Stored]
    BY <1>1, <1>2 DEF Typed, Stored
  <2>2. /\ prev' \in [Chunk -> Chunk \union {NoChunk}] /\ next' \in [Chunk -> Chunk \union {NoChunk}]
        /\ spare_chunk' \in Chunk \union {NoChunk}
    BY <1>1, <1>2 DEF Typed, Y!Push, Y!TypeOK
  <2> QED BY <2>1, <2>2, <1>1, <1>2 DEF Typed
<1>13. Y!TypeOK' /\ InLayout' /\ View(xs, n + 1, iw, kf)'
  BY <1>11, <1>12, NextQueue
<1>14. values \in [Chunk \X Pos -> Stored] /\ values' \in [Chunk \X Pos -> Stored]
  BY <1>1, <1>12 DEF Typed
<1>15. \A j \in 0..n - 2 : values'[xs[j]] = values[cs[j]]
  <2> SUFFICES ASSUME NEW j \in 0..n - 2 PROVE values'[xs[j]] = values[cs[j]]
    OBVIOUS
  <2>1. j \in 0..n /\ j # n - 1 /\ j \in Nat
    BY <1>3
  <2>2. xs[j] = cs[j] /\ cs[j] # cs[n - 1] /\ cs[j] \in Chunk \X Pos
    BY <2>1, <1>1, <1>3, <1>5, <1>7, CellsDiffer
  <2> QED BY <2>2, <1>2, <1>6, <1>14
<1>16. values'[xs[n - 1]] = v
  <2>1. xs[n - 1] = cs[n - 1] /\ cs[n - 1] \in Chunk \X Pos
    BY <1>3, <1>5, <1>7
  <2> QED BY <2>1, <1>2, <1>6, <1>14
<1>17. ASSUME NEW i \in Nat, NEW k \in Nat, i <= k, k <= n - 1 PROVE Held(values', xs, i, k) = Held(values, cs, i, k)
  <2>1. \A j \in 1..k - i : i + j - 1 \in 0..n - 2
    BY <1>3, <1>17
  <2>2. \A j \in 1..k - i : values'[xs[i + j - 1]] = values[cs[i + j - 1]]
    BY <2>1, <1>15
  <2> QED BY <2>2 DEF Held
<1>18. ASSUME NEW i \in Nat, i <= n - 1 PROVE Held(values', xs, i, n) = Append(Held(values, cs, i, n - 1), v)
  <2>1. Held(values', xs, i, (n - 1) + 1) = Append(Held(values', xs, i, n - 1), values'[xs[n - 1]])
    <3>1. values' \in [Chunk \X Pos -> Stored] /\ xs \in [Nat -> Chunk \X Pos] /\ i \in Nat /\ n - 1 \in Nat /\ i <= n - 1
      BY <1>3, <1>6, <1>14, <1>18
    <3> QED BY <3>1, HeldOneMore
  <2>2. (n - 1) + 1 = n
    BY <1>3
  <2> QED BY <2>1, <2>2, <1>3, <1>16, <1>17, <1>18
<1>19. /\ Y!Between(f, Y!BackCell) = Held(values, cs, jf, n - 1)
       /\ Y!Between(w, f) = Held(values, cs, iw, jf)
       /\ Y!Between(Y!FrontCell, w) = Held(values, cs, 0, iw)
  BY <1>1 DEF View
<1>20. /\ Y!Between(f, Y!BackCell)' = Held(values', xs, kf, n)
       /\ Y!Between(w, f)' = Held(values', xs, iw, kf)
       /\ Y!Between(Y!FrontCell, w)' = Held(values', xs, 0, iw)
  BY <1>7, <1>13 DEF View
<1>21. Held(values', xs, 0, iw) = Held(values, cs, 0, iw)
  BY <1>3, <1>17
<1>22. CASE incomplete
  <2>1. kf = jf
    BY <1>22 DEF kf
  <2>2. Held(values', xs, jf, n) = Append(Held(values, cs, jf, n - 1), v)
    BY <1>3, <1>18
  <2>3. Held(values', xs, iw, jf) = Held(values, cs, iw, jf)
    BY <1>3, <1>17
  <2>4. Y!Promise!Write(v, incomplete)
    BY <2>1, <2>2, <2>3, <1>2, <1>19, <1>20, <1>21, <1>22 DEF Y!Promise!Write
  <2> QED BY <2>4, <1>13 DEF Step, Y!Promise!Next
<1>23. CASE ~incomplete
  <2>1. kf = n
    BY <1>23 DEF kf
  <2>2. Held(values', xs, n, n) = <<>>
    BY <1>3, <1>6, <1>14, HeldNone
  <2>3. Held(values', xs, iw, n) = Held(values', xs, iw, jf) \o Held(values', xs, jf, n)
    <3>1. n \in Nat /\ jf \in Nat /\ iw \in Nat /\ iw <= jf /\ jf <= n
      BY <1>3
    <3>2. /\ values' \in [Chunk \X Pos -> Stored] /\ xs \in [Nat -> Chunk \X Pos]
          /\ n \in Nat /\ jf \in Nat /\ iw \in Nat /\ iw <= jf /\ jf <= n
      BY <3>1, <1>6, <1>14, Zenon
    <3> QED BY <3>2, HeldTogether
  <2>4. Held(values', xs, jf, n) = Append(Held(values, cs, jf, n - 1), v)
    BY <1>3, <1>18
  <2>5. Held(values', xs, iw, jf) = Held(values, cs, iw, jf)
    BY <1>3, <1>17
  <2>6. Y!Promise!Write(v, incomplete)
    BY <2>1, <2>2, <2>3, <2>4, <2>5, <1>2, <1>19, <1>20, <1>21, <1>23 DEF Y!Promise!Write
  <2> QED BY <2>6, <1>13 DEF Step, Y!Promise!Next
<1> QED BY <1>22, <1>23

LEMMA UnwriteStep ==
  ASSUME Y!TypeOK, NEW cs, NEW n, NEW ir, NEW iw, NEW jf, Queue(cs, n, ir, iw, jf), Y!Unwrite
  PROVE  Y!TypeOK' /\ InLayout' /\ Step
<1>1. Layout(cs, n) /\ Points(cs, n, ir, iw, jf) /\ Typed /\ QueueNumbers(cs, n, ir, iw, jf) /\ View(cs, n, iw, jf)
  BY QueueFacts
<1>2. /\ values' = [values EXCEPT ![<<back_chunk', back_pos'>>] = NoChunk] /\ Y!Unpush
      /\ UNCHANGED <<begin_chunk, begin_pos, spare_chunk, r, reader, w, f, c, flushing>>
      /\ ~flushing /\ f # <<back_chunk, back_pos>>
  BY DEF Y!Unwrite, Y!WriterUnchanged, Y!frontVars, Y!BackCell
<1>3. /\ n \in Nat /\ n > 0 /\ n - 1 \in Nat /\ cs \in [Nat -> Chunk \X Pos]
      /\ ir \in Nat /\ iw \in Nat /\ jf \in Nat /\ ir <= iw /\ iw <= jf /\ jf <= n - 1
  BY <1>1 DEF QueueNumbers
<1>4. f = cs[jf] /\ r = cs[ir] /\ w = cs[iw] /\ cs[n - 1] = <<back_chunk, back_pos>>
  BY <1>1 DEF Points, Layout
<1>5. jf # n - 1
  BY <1>2, <1>4
<1>6. n > 1 /\ jf < n - 1 /\ jf <= (n - 1) - 1 /\ n - 2 \in Nat /\ n - 2 \in 0..n /\ (n - 1) - 1 = n - 2
  BY <1>3, <1>5
<1>7. Layout(cs, n - 1)' /\ <<back_chunk', back_pos'>> = cs[n - 2]
  BY <1>1, <1>2, <1>6, UnpushKept
<1>8. Points(cs, n - 1, ir, iw, jf)'
  <2>1. /\ c' = (IF reader' = "asleep" THEN NoChunk ELSE w')
        /\ (reader' = "asleep" => iw = 0) /\ ~flushing'
    BY <1>1, <1>2 DEF Points
  <2>2. r' = cs[ir] /\ w' = cs[iw] /\ f' = cs[jf]
    BY <1>2, <1>4
  <2> QED BY <2>1, <2>2, <1>3, <1>6 DEF Points
<1>9. Queue(cs, n - 1, ir, iw, jf)'
  BY <1>7, <1>8 DEF Queue
<1>10. Typed'
  <2>1. values' \in [Chunk \X Pos -> Stored]
    BY <1>1, <1>2 DEF Typed, Stored
  <2>2. /\ prev' \in [Chunk -> Chunk \union {NoChunk}] /\ next' \in [Chunk -> Chunk \union {NoChunk}]
        /\ spare_chunk' \in Chunk \union {NoChunk}
    BY <1>1, <1>2 DEF Typed, Y!Unpush, Y!TypeOK
  <2> QED BY <2>1, <2>2, <1>1, <1>2 DEF Typed
<1>11. Y!TypeOK' /\ InLayout' /\ View(cs, n - 1, iw, jf)'
  BY <1>9, <1>10, NextQueue
<1>12. values \in [Chunk \X Pos -> Stored] /\ values' \in [Chunk \X Pos -> Stored]
  BY <1>1, <1>10 DEF Typed
<1>13. \A j \in 0..n - 3 : values'[cs[j]] = values[cs[j]]
  <2> SUFFICES ASSUME NEW j \in 0..n - 3 PROVE values'[cs[j]] = values[cs[j]]
    OBVIOUS
  <2>1. j \in 0..n /\ j # n - 2 /\ j \in Nat
    BY <1>3
  <2>2. cs[j] # cs[n - 2] /\ cs[j] \in Chunk \X Pos
    BY <2>1, <1>1, <1>3, <1>6, CellsDiffer
  <2> QED BY <2>2, <1>2, <1>7, <1>12
<1>14. ASSUME NEW i \in Nat, NEW k \in Nat, i <= k, k <= n - 2 PROVE Held(values', cs, i, k) = Held(values, cs, i, k)
  <2>1. \A j \in 1..k - i : i + j - 1 \in 0..n - 3
    BY <1>3, <1>14
  <2>2. \A j \in 1..k - i : values'[cs[i + j - 1]] = values[cs[i + j - 1]]
    BY <2>1, <1>13
  <2> QED BY <2>2 DEF Held
<1>15. /\ Y!Between(f, Y!BackCell) = Held(values, cs, jf, n - 1)
       /\ Y!Between(w, f) = Held(values, cs, iw, jf)
       /\ Y!Between(Y!FrontCell, w) = Held(values, cs, 0, iw)
  BY <1>1 DEF View
<1>16. /\ Y!Between(f, Y!BackCell)' = Held(values', cs, jf, n - 2)
       /\ Y!Between(w, f)' = Held(values', cs, iw, jf)
       /\ Y!Between(Y!FrontCell, w)' = Held(values', cs, 0, iw)
  BY <1>6, <1>11 DEF View
<1>17. /\ Held(values', cs, 0, iw) = Held(values, cs, 0, iw)
       /\ Held(values', cs, iw, jf) = Held(values, cs, iw, jf)
       /\ Held(values', cs, jf, n - 2) = Held(values, cs, jf, n - 2)
  <2>1. 0 \in Nat /\ 0 <= iw /\ iw <= n - 2 /\ jf <= n - 2 /\ n - 2 <= n - 2
    BY <1>3, <1>6
  <2> QED BY <2>1, <1>3, <1>6, <1>14
<1>18. /\ Held(values, cs, jf, n - 1) # <<>>
       /\ SubSeq(Held(values, cs, jf, n - 1), 1, Len(Held(values, cs, jf, n - 1)) - 1) = Held(values, cs, jf, (n - 1) - 1)
  <2>1. Held(values, cs, jf, n - 1) # <<>>
    <3>1. values \in [Chunk \X Pos -> Stored] /\ cs \in [Nat -> Chunk \X Pos] /\ jf \in Nat /\ n - 1 \in Nat /\ jf < n - 1
      BY <1>3, <1>6, <1>12
    <3> QED BY <3>1, HeldTail
  <2>2. SubSeq(Held(values, cs, jf, n - 1), 1, Len(Held(values, cs, jf, n - 1)) - 1) = Held(values, cs, jf, (n - 1) - 1)
    BY <1>3, <1>6, <1>12, HeldFront, Zenon
  <2> QED BY <2>1, <2>2
<1>19. Y!Promise!Unwrite
  BY <1>2, <1>6, <1>15, <1>16, <1>17, <1>18 DEF Y!Promise!Unwrite
<1> QED BY <1>11, <1>19 DEF Step, Y!Promise!Next

\* The steps that leave the list and what it holds alone.
LEMMA ListKept ==
  ASSUME Y!TypeOK, NEW cs, NEW n, Layout(cs, n),
         UNCHANGED <<heap, values, prev, next, begin_chunk, begin_pos, back_chunk, back_pos, end_chunk, end_pos, spare_chunk>>
  PROVE  Layout(cs, n)'
<1>1. \A cell : Y!After(cell)' = Y!After(cell)
  BY DEF Y!After
<1>2. Linked(cs, n)' /\ LinkedBack(cs, n)'
  BY <1>1 DEF Layout, Linked, LinkedBack
<1>3. InLine(cs, n)' /\ ChunksOf(cs, n)' = ChunksOf(cs, n)
  BY DEF Layout, InLine, ChunksOf
<1> QED BY <1>2, <1>3 DEF Layout

LEMMA FlushSwapStep ==
  ASSUME Y!TypeOK, NEW cs, NEW n, NEW ir, NEW iw, NEW jf, Queue(cs, n, ir, iw, jf), Y!FlushSwap
  PROVE  Y!TypeOK' /\ InLayout' /\ Step
<1>1. Layout(cs, n) /\ Points(cs, n, ir, iw, jf) /\ Typed /\ QueueNumbers(cs, n, ir, iw, jf) /\ View(cs, n, iw, jf)
  BY QueueFacts
<1>2. /\ UNCHANGED <<heap, values, prev, next, begin_chunk, begin_pos, back_chunk, back_pos, end_chunk, end_pos, spare_chunk, f, r, reader>>
      /\ ~flushing /\ w # f /\ c' = IF c = w THEN f ELSE c
      /\ IF c = w THEN w' = f /\ UNCHANGED flushing ELSE flushing' = TRUE /\ UNCHANGED w
  BY DEF Y!FlushSwap, Y!cas, Y!WriterUnchanged, Y!frontVars, Y!memory, Y!backVars
<1>3. /\ n \in Nat /\ n > 0 /\ n - 1 \in Nat /\ cs \in [Nat -> Chunk \X Pos]
      /\ ir \in Nat /\ iw \in Nat /\ jf \in Nat /\ ir <= iw /\ iw <= jf /\ jf <= n - 1
  BY <1>1 DEF QueueNumbers
<1>4. f = cs[jf] /\ r = cs[ir] /\ w = cs[iw] /\ iw # jf /\ iw < jf /\ jf < n
  <2>1. f = cs[jf] /\ r = cs[ir] /\ w = cs[iw]
    BY <1>1 DEF Points
  <2>2. iw # jf
    BY <2>1, <1>2
  <2> QED BY <2>1, <2>2, <1>3
<1>5. c = (IF reader = "asleep" THEN NoChunk ELSE w) /\ (reader = "asleep" => iw = 0)
  BY <1>1 DEF Points
<1>6. w # NoChunk
  <2>1. cs[iw] \in Chunk \X Pos
    BY <1>3
  <2> QED BY <2>1, <1>4, YPipeFacts
<1>7. Layout(cs, n)'
  BY <1>1, <1>2, ListKept
<1>8. Typed'
  BY <1>1, <1>2 DEF Typed
<1>9. /\ Y!Between(f, Y!BackCell) = Held(values, cs, jf, n - 1)
      /\ Y!Between(w, f) = Held(values, cs, iw, jf)
      /\ Y!Between(Y!FrontCell, w) = Held(values, cs, 0, iw)
  BY <1>1 DEF View
<1>10. CASE reader = "asleep"
  <2>1. UNCHANGED <<w, c>> /\ flushing'
    BY <1>2, <1>5, <1>6, <1>10
  <2>2. Points(cs, n, ir, iw, jf)'
    BY <2>1, <1>2, <1>3, <1>4, <1>5, <1>10 DEF Points
  <2>3. Y!TypeOK' /\ InLayout' /\ View(cs, n, iw, jf)'
    BY <2>2, <1>7, <1>8, NextQueue DEF Queue
  <2>4. UNCHANGED Y!Promise!queueVars
    BY <2>3, <1>2, <1>9 DEF View, Y!Promise!queueVars
  <2> QED BY <2>3, <2>4 DEF Step
<1>11. CASE reader # "asleep"
  <2>1. c' = f /\ w' = f /\ UNCHANGED flushing
    BY <1>2, <1>5, <1>11
  <2>2. Points(cs, n, ir, jf, jf)'
    <3>1. ir <= jf /\ jf <= jf
      BY <1>3
    <3> QED BY <2>1, <3>1, <1>2, <1>3, <1>4, <1>5, <1>11 DEF Points
  <2>3. Y!TypeOK' /\ InLayout' /\ View(cs, n, jf, jf)'
    BY <2>2, <1>7, <1>8, NextQueue DEF Queue
  <2>4. /\ Y!Between(f, Y!BackCell)' = Held(values, cs, jf, n - 1)
        /\ Y!Between(w, f)' = Held(values, cs, jf, jf)
        /\ Y!Between(Y!FrontCell, w)' = Held(values, cs, 0, jf)
    BY <2>3, <1>2 DEF View
  <2>5. values \in [Chunk \X Pos -> Stored] /\ 0 \in Nat /\ 0 <= iw
    BY <1>1, <1>3 DEF Typed
  <2>6. Held(values, cs, jf, jf) = <<>>
    BY <2>5, <1>3, HeldNone, Zenon
  <2>7. Held(values, cs, iw, jf) # <<>>
    <3>1. values \in [Chunk \X Pos -> Stored] /\ cs \in [Nat -> Chunk \X Pos] /\ iw \in Nat /\ jf \in Nat /\ iw < jf
      BY <2>5, <1>3, <1>4
    <3> QED BY <3>1, HeldTail
  <2>8. Held(values, cs, 0, jf) = Held(values, cs, 0, iw) \o Held(values, cs, iw, jf)
    <3>1. values \in [Chunk \X Pos -> Stored] /\ cs \in [Nat -> Chunk \X Pos] /\ 0 \in Nat /\ iw \in Nat /\ jf \in Nat /\ 0 <= iw /\ iw <= jf
      BY <2>5, <1>3
    <3> QED BY <3>1, HeldTogether
  <2>9. Y!Promise!Flush
    BY <2>4, <2>6, <2>7, <2>8, <1>2, <1>9, <1>11 DEF Y!Promise!Flush
  <2> QED BY <2>3, <2>9 DEF Step, Y!Promise!Next
<1> QED BY <1>10, <1>11

LEMMA FlushSetStep ==
  ASSUME Y!TypeOK, NEW cs, NEW n, NEW ir, NEW iw, NEW jf, Queue(cs, n, ir, iw, jf), Y!FlushSet
  PROVE  Y!TypeOK' /\ InLayout' /\ Step
<1>1. Layout(cs, n) /\ Points(cs, n, ir, iw, jf) /\ Typed /\ QueueNumbers(cs, n, ir, iw, jf) /\ View(cs, n, iw, jf)
  BY QueueFacts
<1>2. /\ UNCHANGED <<heap, values, prev, next, begin_chunk, begin_pos, back_chunk, back_pos, end_chunk, end_pos, spare_chunk, f, r>>
      /\ flushing /\ c' = f /\ w' = f /\ flushing' = FALSE /\ reader' = "signalled"
  BY DEF Y!FlushSet, Y!frontVars, Y!memory, Y!backVars
<1>3. /\ n \in Nat /\ n > 0 /\ n - 1 \in Nat /\ cs \in [Nat -> Chunk \X Pos]
      /\ ir \in Nat /\ iw \in Nat /\ jf \in Nat /\ ir <= iw /\ iw <= jf /\ jf <= n - 1
  BY <1>1 DEF QueueNumbers
<1>4. f = cs[jf] /\ r = cs[ir] /\ jf < n /\ reader = "asleep" /\ iw = 0 /\ iw < jf
  BY <1>1, <1>2 DEF Points
<1>5. Layout(cs, n)'
  BY <1>1, <1>2, ListKept
<1>6. Typed'
  BY <1>1, <1>2 DEF Typed
<1>7. /\ Y!Between(f, Y!BackCell) = Held(values, cs, jf, n - 1)
      /\ Y!Between(w, f) = Held(values, cs, iw, jf)
      /\ Y!Between(Y!FrontCell, w) = Held(values, cs, 0, iw)
  BY <1>1 DEF View
<1>8. Points(cs, n, ir, jf, jf)'
  <2>1. ir <= jf /\ jf <= jf
    BY <1>3
  <2> QED BY <2>1, <1>2, <1>3, <1>4 DEF Points
<1>9. Y!TypeOK' /\ InLayout' /\ View(cs, n, jf, jf)'
  BY <1>5, <1>6, <1>8, NextQueue DEF Queue
<1>10. /\ Y!Between(f, Y!BackCell)' = Held(values, cs, jf, n - 1)
       /\ Y!Between(w, f)' = Held(values, cs, jf, jf)
       /\ Y!Between(Y!FrontCell, w)' = Held(values, cs, 0, jf)
  BY <1>2, <1>9 DEF View
<1>11. values \in [Chunk \X Pos -> Stored] /\ 0 \in Nat /\ 0 <= iw
  BY <1>1, <1>3 DEF Typed
<1>12. Held(values, cs, jf, jf) = <<>>
  BY <1>3, <1>11, HeldNone, Zenon
<1>13. Held(values, cs, iw, jf) # <<>>
  <2>1. values \in [Chunk \X Pos -> Stored] /\ cs \in [Nat -> Chunk \X Pos] /\ iw \in Nat /\ jf \in Nat /\ iw < jf
    BY <1>3, <1>4, <1>11, Zenon
  <2> QED BY <2>1, HeldTail
<1>14. Held(values, cs, 0, jf) = Held(values, cs, 0, iw) \o Held(values, cs, iw, jf)
  <2>1. values \in [Chunk \X Pos -> Stored] /\ cs \in [Nat -> Chunk \X Pos] /\ 0 \in Nat /\ iw \in Nat /\ jf \in Nat /\ 0 <= iw /\ iw <= jf
    BY <1>3, <1>11
  <2> QED BY <2>1, HeldTogether
<1>15. Y!Promise!Flush
  BY <1>2, <1>4, <1>7, <1>10, <1>12, <1>13, <1>14 DEF Y!Promise!Flush
<1> QED BY <1>9, <1>15 DEF Step, Y!Promise!Next

LEMMA CheckReadStep ==
  ASSUME Y!TypeOK, NEW cs, NEW n, NEW ir, NEW iw, NEW jf, Queue(cs, n, ir, iw, jf), Y!CheckRead
  PROVE  Y!TypeOK' /\ InLayout' /\ Step
<1>1. Layout(cs, n) /\ Points(cs, n, ir, iw, jf) /\ Typed /\ QueueNumbers(cs, n, ir, iw, jf) /\ View(cs, n, iw, jf)
  BY QueueFacts
<1>2. /\ UNCHANGED <<heap, values, prev, next, begin_chunk, begin_pos, back_chunk, back_pos, end_chunk, end_pos, spare_chunk, w, f, flushing>>
      /\ reader = "awake" /\ Y!FrontCell = r /\ r' = c /\ c' = (IF c = Y!FrontCell THEN NoChunk ELSE c)
      /\ reader' = IF c = Y!FrontCell \/ c = NoChunk THEN "asleep" ELSE "awake"
  BY DEF Y!CheckRead, Y!cas, Y!Prefetched, Y!ReaderUnchanged, Y!frontVars, Y!backVars
<1>3. /\ n \in Nat /\ n > 0 /\ n - 1 \in Nat /\ cs \in [Nat -> Chunk \X Pos]
      /\ ir \in Nat /\ iw \in Nat /\ jf \in Nat /\ ir <= iw /\ iw <= jf /\ jf <= n - 1
  BY <1>1 DEF QueueNumbers
<1>4. f = cs[jf] /\ r = cs[ir] /\ w = cs[iw] /\ jf < n /\ c = w /\ ~flushing
  BY <1>1, <1>2 DEF Points
<1>5. w # NoChunk
  <2>1. cs[iw] \in Chunk \X Pos
    BY <1>3
  <2> QED BY <2>1, <1>4, YPipeFacts
<1>6. Y!FrontCell = cs[0] /\ 0 \in 0..n /\ iw \in 0..n /\ ir \in 0..n
  BY <1>1, <1>3 DEF Layout, Y!FrontCell
<1>7. Layout(cs, n)'
  BY <1>1, <1>2, ListKept
<1>8. Typed'
  BY <1>1, <1>2 DEF Typed
<1>9. /\ Y!Between(f, Y!BackCell) = Held(values, cs, jf, n - 1)
      /\ Y!Between(w, f) = Held(values, cs, iw, jf)
      /\ Y!Between(Y!FrontCell, w) = Held(values, cs, 0, iw)
  BY <1>1 DEF View
<1>10. CASE iw = 0
  <2>1. c' = NoChunk /\ reader' = "asleep" /\ r' = cs[0]
    BY <1>2, <1>4, <1>6, <1>10
  <2>2. Points(cs, n, 0, iw, jf)'
    BY <2>1, <1>2, <1>3, <1>4, <1>10 DEF Points
  <2>3. Y!TypeOK' /\ InLayout' /\ View(cs, n, iw, jf)'
    BY <2>2, <1>7, <1>8, NextQueue DEF Queue
  <2>4. Held(values, cs, 0, iw) = <<>>
    <3>1. values \in [Chunk \X Pos -> Stored] /\ 0 \in Nat
      BY <1>1 DEF Typed
    <3>2. Held(values, cs, 0, 0) = <<>>
      BY <3>1, <1>3, HeldNone, Zenon
    <3> QED BY <3>2, <1>10
  <2>5. Y!Promise!Sleep
    BY <2>1, <2>3, <2>4, <1>2, <1>9 DEF View, Y!Promise!Sleep
  <2> QED BY <2>3, <2>5 DEF Step, Y!Promise!Next
<1>11. CASE iw # 0
  <2>1. cs[iw] # cs[0]
    BY <1>1, <1>6, <1>11, CellsDiffer
  <2>2. c' = c /\ reader' = "awake" /\ r' = cs[iw]
    BY <2>1, <1>2, <1>4, <1>5, <1>6
  <2>3. Points(cs, n, iw, iw, jf)'
    <3>1. iw <= iw
      BY <1>3
    <3> QED BY <2>2, <3>1, <1>2, <1>3, <1>4 DEF Points
  <2>4. Y!TypeOK' /\ InLayout' /\ View(cs, n, iw, jf)'
    BY <2>3, <1>7, <1>8, NextQueue DEF Queue
  <2>5. UNCHANGED Y!Promise!queueVars
    BY <2>2, <2>4, <1>2, <1>9 DEF View, Y!Promise!queueVars
  <2> QED BY <2>4, <2>5 DEF Step
<1> QED BY <1>10, <1>11

LEMMA WakeStep ==
  ASSUME Y!TypeOK, NEW cs, NEW n, NEW ir, NEW iw, NEW jf, Queue(cs, n, ir, iw, jf), Y!Wake
  PROVE  Y!TypeOK' /\ InLayout' /\ Step
<1>1. Layout(cs, n) /\ Points(cs, n, ir, iw, jf) /\ Typed /\ QueueNumbers(cs, n, ir, iw, jf) /\ View(cs, n, iw, jf)
  BY QueueFacts
<1>2. /\ UNCHANGED <<heap, values, prev, next, begin_chunk, begin_pos, back_chunk, back_pos, end_chunk, end_pos, spare_chunk, w, f, r, c, flushing>>
      /\ reader = "signalled" /\ reader' = "awake"
  BY DEF Y!Wake, Y!ReaderUnchanged, Y!frontVars, Y!backVars
<1>3. Layout(cs, n)'
  BY <1>1, <1>2, ListKept
<1>4. Points(cs, n, ir, iw, jf)'
  BY <1>1, <1>2 DEF Points
<1>5. Typed'
  BY <1>1, <1>2 DEF Typed
<1>6. Y!TypeOK' /\ InLayout' /\ View(cs, n, iw, jf)'
  BY <1>3, <1>4, <1>5, NextQueue DEF Queue
<1>7. Y!Promise!Wake
  BY <1>1, <1>2, <1>6 DEF View, Y!Promise!Wake
<1> QED BY <1>6, <1>7 DEF Step, Y!Promise!Next

LEMMA ReadStep ==
  ASSUME Y!TypeOK, NEW cs, NEW n, NEW ir, NEW iw, NEW jf, Queue(cs, n, ir, iw, jf), Y!Read
  PROVE  Y!TypeOK' /\ InLayout' /\ Step
<1>1. Layout(cs, n) /\ Points(cs, n, ir, iw, jf) /\ Typed /\ QueueNumbers(cs, n, ir, iw, jf) /\ View(cs, n, iw, jf)
  BY QueueFacts
<1>2. /\ UNCHANGED <<next, back_chunk, back_pos, end_chunk, end_pos, w, f, flushing, r, c, reader>>
      /\ reader = "awake" /\ Y!FrontCell # r /\ Y!Pop
      /\ values' = [values EXCEPT ![Y!FrontCell] = NoChunk]
  BY DEF Y!Read, Y!Prefetched, Y!ReaderUnchanged, Y!frontVars, Y!backVars
<1>3. /\ n \in Nat /\ n > 0 /\ n - 1 \in Nat /\ cs \in [Nat -> Chunk \X Pos]
      /\ ir \in Nat /\ iw \in Nat /\ jf \in Nat /\ ir <= iw /\ iw <= jf /\ jf <= n - 1
  BY <1>1 DEF QueueNumbers
<1>4. f = cs[jf] /\ r = cs[ir] /\ w = cs[iw] /\ c = w /\ ~flushing /\ Y!FrontCell = cs[0]
  BY <1>1, <1>2 DEF Points, Layout, Y!FrontCell
<1>5. ir # 0
  BY <1>2, <1>4
<1>6. /\ n > 1 /\ ir - 1 \in Nat /\ iw - 1 \in Nat /\ jf - 1 \in Nat /\ ir - 1 <= iw - 1 /\ iw - 1 <= jf - 1 /\ jf - 1 < n - 1
      /\ ir - 1 \in 0..n - 1 /\ iw - 1 \in 0..n - 1 /\ jf - 1 \in 0..n - 1 /\ n - 2 \in Nat /\ (n - 1) - 1 = n - 2
      /\ (ir - 1) + 1 = ir /\ (iw - 1) + 1 = iw /\ (jf - 1) + 1 = jf
  BY <1>3, <1>5
<1>7. PICK xs : (\A j \in 0..n - 1 : xs[j] = cs[j + 1]) /\ Layout(xs, n - 1)'
  BY <1>1, <1>2, <1>6, PopKept
<1>8. Points(xs, n - 1, ir - 1, iw - 1, jf - 1)'
  <2>1. xs[ir - 1] = cs[ir] /\ xs[iw - 1] = cs[iw] /\ xs[jf - 1] = cs[jf]
    BY <1>6, <1>7
  <2> QED BY <2>1, <1>2, <1>4, <1>6 DEF Points
<1>9. Typed'
  <2>1. values' \in [Chunk \X Pos -> Stored]
    BY <1>1, <1>2 DEF Typed, Stored
  <2>2. /\ prev' \in [Chunk -> Chunk \union {NoChunk}] /\ next' \in [Chunk -> Chunk \union {NoChunk}]
        /\ spare_chunk' \in Chunk \union {NoChunk}
    BY <1>1, <1>2, LayoutFacts DEF Typed, Y!Pop
  <2> QED BY <2>1, <2>2, <1>1, <1>2 DEF Typed
<1>10. Y!TypeOK' /\ InLayout' /\ View(xs, n - 1, iw - 1, jf - 1)'
  BY <1>7, <1>8, <1>9, NextQueue DEF Queue
<1>11. values \in [Chunk \X Pos -> Stored] /\ values' \in [Chunk \X Pos -> Stored]
  BY <1>1, <1>9 DEF Typed
<1>12. \A j \in 1..n - 1 : values'[xs[j - 1]] = values[cs[j]]
  <2> SUFFICES ASSUME NEW j \in 1..n - 1 PROVE values'[xs[j - 1]] = values[cs[j]]
    OBVIOUS
  <2>1. j \in 0..n /\ 0 \in 0..n /\ j # 0 /\ j \in Nat /\ j - 1 \in 0..n - 1 /\ (j - 1) + 1 = j
    BY <1>3
  <2>2. xs[j - 1] = cs[j]
    BY <2>1, <1>7
  <2>3. cs[j] # cs[0] /\ cs[j] \in Chunk \X Pos
    BY <2>1, <1>1, <1>3, CellsDiffer
  <2> QED BY <2>2, <2>3, <1>2, <1>4, <1>11
<1>13. ASSUME NEW i \in Nat, NEW k \in Nat, i <= k, 1 <= i, k <= n - 1
       PROVE  Held(values', xs, i - 1, k - 1) = Held(values, cs, i, k)
  <2>1. \A j \in 1..k - i : i + j - 1 \in 1..n - 1 /\ (i + j - 1) - 1 = (i - 1) + j - 1
    BY <1>3, <1>13
  <2>2. \A j \in 1..k - i : values'[xs[(i - 1) + j - 1]] = values[cs[i + j - 1]]
    BY <2>1, <1>12
  <2>3. k - i = (k - 1) - (i - 1)
    OBVIOUS
  <2> QED BY <2>2, <2>3 DEF Held
<1>14. /\ Y!Between(f, Y!BackCell) = Held(values, cs, jf, n - 1)
       /\ Y!Between(w, f) = Held(values, cs, iw, jf)
       /\ Y!Between(Y!FrontCell, w) = Held(values, cs, 0, iw)
  BY <1>1 DEF View
<1>15. /\ Y!Between(f, Y!BackCell)' = Held(values', xs, jf - 1, (n - 1) - 1)
       /\ Y!Between(w, f)' = Held(values', xs, iw - 1, jf - 1)
       /\ Y!Between(Y!FrontCell, w)' = Held(values', xs, 1 - 1, iw - 1)
  <2>1. 1 - 1 = 0
    OBVIOUS
  <2> QED BY <2>1, <1>10 DEF View
<1>16. /\ Held(values', xs, jf - 1, (n - 1) - 1) = Held(values, cs, jf, n - 1)
       /\ Held(values', xs, iw - 1, jf - 1) = Held(values, cs, iw, jf)
       /\ Held(values', xs, 1 - 1, iw - 1) = Held(values, cs, 1, iw)
  <2>1. 1 \in Nat /\ 1 <= 1 /\ 1 <= iw /\ 1 <= jf /\ iw <= n - 1 /\ n - 1 <= n - 1
    BY <1>3, <1>5
  <2> QED BY <2>1, <1>3, <1>13
<1>17. Held(values, cs, 0, iw) # <<>> /\ Tail(Held(values, cs, 0, iw)) = Held(values, cs, 1, iw)
  <2>1. 0 \in Nat /\ 0 < iw /\ 0 + 1 = 1
    BY <1>3, <1>5
  <2>2. Held(values, cs, 0, iw) # <<>> /\ Tail(Held(values, cs, 0, iw)) = Held(values, cs, 0 + 1, iw)
    <3>1. values \in [Chunk \X Pos -> Stored] /\ cs \in [Nat -> Chunk \X Pos] /\ 0 \in Nat /\ iw \in Nat /\ 0 < iw
      BY <2>1, <1>3, <1>11
    <3> QED BY <3>1, HeldTail
  <2> QED BY <2>1, <2>2
<1>18. Y!Promise!Read
  BY <1>2, <1>14, <1>15, <1>16, <1>17 DEF Y!Promise!Read
<1> QED BY <1>10, <1>18 DEF Step, Y!Promise!Next

LEMMA YPipeStep ==
  ASSUME YPipeInv, Y!Next
  PROVE  YPipeInv' /\ Step
<1>1. Y!TypeOK
  BY DEF YPipeInv
<1>2. PICK cs, n, ir, iw, jf : Queue(cs, n, ir, iw, jf)
  BY DEF YPipeInv
<1>3. CASE \E v \in Item, incomplete \in BOOLEAN : Y!Write(v, incomplete)
  BY <1>1, <1>2, <1>3, WriteStep DEF YPipeInv, InLayout
<1>4. CASE Y!Unwrite
  BY <1>1, <1>2, <1>4, UnwriteStep DEF YPipeInv, InLayout
<1>5. CASE Y!FlushSwap
  BY <1>1, <1>2, <1>5, FlushSwapStep DEF YPipeInv, InLayout
<1>6. CASE Y!FlushSet
  BY <1>1, <1>2, <1>6, FlushSetStep DEF YPipeInv, InLayout
<1>7. CASE Y!CheckRead
  BY <1>1, <1>2, <1>7, CheckReadStep DEF YPipeInv, InLayout
<1>8. CASE Y!Read
  BY <1>1, <1>2, <1>8, ReadStep DEF YPipeInv, InLayout
<1>9. CASE Y!Wake
  BY <1>1, <1>2, <1>9, WakeStep DEF YPipeInv, InLayout
<1> QED BY <1>3, <1>4, <1>5, <1>6, <1>7, <1>8, <1>9 DEF Y!Next

LEMMA YPipeStutter ==
  ASSUME YPipeInv, UNCHANGED yPipeVars
  PROVE  YPipeInv' /\ UNCHANGED Y!Promise!queueVars
<1>1. Y!TypeOK
  BY DEF YPipeInv
<1>2. PICK cs, n, ir, iw, jf : Queue(cs, n, ir, iw, jf)
  BY DEF YPipeInv
<1>3. Layout(cs, n) /\ Points(cs, n, ir, iw, jf) /\ Typed /\ View(cs, n, iw, jf)
  BY <1>1, <1>2, QueueFacts
<1>4. Layout(cs, n)'
  BY <1>1, <1>3, ListKept DEF yPipeVars
<1>5. Points(cs, n, ir, iw, jf)' /\ Typed'
  BY <1>3 DEF yPipeVars, Points, Typed
<1>6. Y!TypeOK' /\ InLayout' /\ View(cs, n, iw, jf)'
  BY <1>4, <1>5, NextQueue DEF Queue
<1>7. UNCHANGED Y!Promise!queueVars
  BY <1>3, <1>6 DEF View, Y!Promise!queueVars, yPipeVars
<1> QED BY <1>6, <1>7 DEF YPipeInv, InLayout

LEMMA YPipeStart ==
  ASSUME Y!Init
  PROVE  YPipeInv /\ Y!Promise!Init
<1>1. PICK first \in Chunk :
        /\ heap = {first}
        /\ values = [cell \in Y!Cell |-> NoChunk]
        /\ prev = [k \in Chunk |-> NoChunk] /\ next = [k \in Chunk |-> NoChunk]
        /\ begin_chunk = first /\ begin_pos = 0
        /\ back_chunk = first /\ back_pos = 0
        /\ end_chunk = first /\ end_pos = 1
        /\ spare_chunk = NoChunk
        /\ w = <<first, 0>> /\ f = <<first, 0>> /\ r = <<first, 0>> /\ c = <<first, 0>>
        /\ flushing = FALSE
        /\ reader = "awake"
  BY DEF Y!Init
<1> PICK cs : cs = [j \in Nat |-> IF j = 1 THEN <<first, 1>> ELSE <<first, 0>>]
  OBVIOUS
<1>2. <<first, 0>> \in Chunk \X Pos /\ <<first, 1>> \in Chunk \X Pos /\ 1 \in Nat \ {0} /\ 1 - 1 = 0 /\ 0 <= MaxCells
  BY YPipeFacts DEF Pos
<1>3. cs \in [Nat -> Chunk \X Pos] /\ cs[0] = <<first, 0>> /\ cs[1] = <<first, 1>> /\ 0..1 = {0, 1} /\ 0..0 = {0}
  BY <1>2
<1>4. Linked(cs, 1)
  <2>1. Y!After(<<first, 0>>) = <<first, 1>>
    BY YPipeFacts DEF Y!After
  <2> QED BY <2>1, <1>2, <1>3 DEF Linked
<1>5. LinkedBack(cs, 1)
  BY <1>2, <1>3 DEF LinkedBack
<1>6. InLine(cs, 1)
  BY <1>3 DEF InLine
<1>7. ChunksOf(cs, 1) = {first}
  BY <1>3 DEF ChunksOf
<1>8. NoChunk # first
  BY YPipeFacts
<1>9. Layout(cs, 1)
  <2>1. heap = ChunksOf(cs, 1) \union ({spare_chunk} \ {NoChunk}) /\ spare_chunk \notin ChunksOf(cs, 1)
    BY <1>1, <1>7, <1>8
  <2> QED BY <2>1, <1>1, <1>2, <1>3, <1>4, <1>5, <1>6 DEF Layout
<1>10. Points(cs, 1, 0, 0, 0)
  BY <1>1, <1>3 DEF Points
<1>11. Typed
  <2>1. values \in [Chunk \X Pos -> Stored]
    BY <1>1 DEF Stored, Y!Cell, Y!Pos, Pos
  <2> QED BY <2>1, <1>1 DEF Typed
<1>12. Queue(cs, 1, 0, 0, 0)
  BY <1>9, <1>10 DEF Queue
<1>13. Y!TypeOK /\ View(cs, 1, 0, 0)
  BY <1>11, <1>12, QueueTypedHolds, QueueSeenHolds DEF QueueTyped, QueueSeen
<1>14. Held(values, cs, 0, 0) = <<>>
  <2>1. values \in [Chunk \X Pos -> Stored] /\ 0 \in Nat
    BY <1>11 DEF Typed
  <2> QED BY <2>1, <1>3, HeldNone, Zenon
<1>15. Y!Promise!Init
  BY <1>1, <1>2, <1>13, <1>14 DEF View, Y!Promise!Init
<1> QED BY <1>12, <1>13, <1>15 DEF YPipeInv

(***************************************************************************)
(* What the cells and chunks in use are.                                   *)
(***************************************************************************)
LEMMA LiveChunksAre ==
  ASSUME NEW cs, NEW n, Layout(cs, n)
  PROVE  Y!LiveCells = {cs[j] : j \in 0..n - 1} /\ Y!LiveChunks = ChunksOf(cs, n)
<1>1. n \in Nat /\ n > 0 /\ cs[n] = <<end_chunk, end_pos>> /\ n - 1 \in Nat
  BY DEF Layout
<1> DEFINE cells == [j \in 1..n |-> cs[j - 1]]
<1>2. Y!LiveCells = {cells[j] : j \in DOMAIN cells}
  BY LiveIs DEF Y!LiveCells
<1>3. ASSUME NEW j \in 1..n PROVE cells[j] \in {cs[k] : k \in 0..n - 1}
  <2>1. j - 1 \in 0..n - 1 /\ cells[j] = cs[j - 1]
    BY <1>1
  <2> QED BY <2>1
<1>4. ASSUME NEW k \in 0..n - 1 PROVE cs[k] \in {cells[j] : j \in DOMAIN cells}
  <2>1. k + 1 \in 1..n /\ cells[k + 1] = cs[k] /\ DOMAIN cells = 1..n
    BY <1>1
  <2> QED BY <2>1
<1>5. DOMAIN cells = 1..n
  OBVIOUS
<1> HIDE DEF cells
<1>6. Y!LiveCells = {cs[j] : j \in 0..n - 1}
  BY <1>2, <1>3, <1>4, <1>5
<1>7. Y!LiveChunks = {cell[1] : cell \in Y!LiveCells} \union {end_chunk}
  BY DEF Y!LiveChunks
<1>8. ASSUME NEW k \in 0..n PROVE cs[k][1] \in Y!LiveChunks
  <2>1. CASE k = n
    BY <2>1, <1>1, <1>7
  <2>2. CASE k # n
    <3>1. k \in 0..n - 1
      BY <2>2, <1>1
    <3>2. cs[k] \in Y!LiveCells
      BY <3>1, <1>6
    <3> QED BY <3>2, <1>7
  <2> QED BY <2>1, <2>2
<1>9. ASSUME NEW chunk \in Y!LiveChunks PROVE chunk \in ChunksOf(cs, n)
  <2>1. CASE chunk = end_chunk
    <3>1. n \in 0..n /\ chunk = cs[n][1]
      BY <2>1, <1>1
    <3> QED BY <3>1 DEF ChunksOf
  <2>2. CASE chunk # end_chunk
    <3>1. PICK k \in 0..n - 1 : chunk = cs[k][1]
      BY <2>2, <1>6, <1>7
    <3>2. k \in 0..n
      BY <1>1
    <3> QED BY <3>1, <3>2 DEF ChunksOf
  <2> QED BY <2>1, <2>2
<1>10. ASSUME NEW chunk \in ChunksOf(cs, n) PROVE chunk \in Y!LiveChunks
  BY <1>8 DEF ChunksOf
<1> QED BY <1>6, <1>9, <1>10

\* The list can be walked back: before a chunk that is not the first comes the
\* one it was linked to.
LEMMA ChunkBefore ==
  ASSUME NEW cs, NEW n, Layout(cs, n), Y!TypeOK, NEW chunk \in ChunksOf(cs, n), chunk # begin_chunk
  PROVE  prev[chunk] \in ChunksOf(cs, n) /\ next[prev[chunk]] = chunk
<1> DEFINE Places == {j \in 0..n : cs[j][1] = chunk}
<1>1. n \in Nat /\ cs[0][1] = begin_chunk /\ \A j \in Nat : cs[j][2] \in Nat
  BY LayoutFacts
<1>2. Places \subseteq Nat /\ Places # {}
  BY <1>1 DEF ChunksOf
<1>3. PICK j \in Places : \A k \in Places : j <= k
  BY <1>2, LeastNatural
<1>4. j \in 0..n /\ cs[j][1] = chunk /\ j # 0
  BY <1>1, <1>3
<1>5. j - 1 \in 0..n - 1 /\ j - 1 \in 0..n /\ j - 1 \in Nat /\ (j - 1) + 1 = j /\ ~(j <= j - 1)
  BY <1>1, <1>4
<1>6. cs[j - 1][1] # chunk
  BY <1>3, <1>5
<1>7. cs[j] = Y!After(cs[j - 1]) /\ (cs[j][2] = 0 => prev[cs[j][1]] = cs[j - 1][1])
  <2>1. cs[(j - 1) + 1] = Y!After(cs[j - 1]) /\ (cs[(j - 1) + 1][2] = 0 => prev[cs[(j - 1) + 1][1]] = cs[j - 1][1])
    BY <1>5 DEF Layout, Linked, LinkedBack
  <2> QED BY <2>1, <1>5
<1>8. cs[j] = <<next[cs[j - 1][1]], 0>>
  <2>1. cs[j - 1][2] + 1 = ChunkCells
    <3> SUFFICES ASSUME cs[j - 1][2] + 1 # ChunkCells PROVE FALSE
      OBVIOUS
    <3>1. cs[j] = <<cs[j - 1][1], cs[j - 1][2] + 1>>
      BY <1>7 DEF Y!After
    <3> QED BY <3>1, <1>4, <1>6
  <2> QED BY <2>1, <1>7 DEF Y!After
<1>9. prev[chunk] = cs[j - 1][1] /\ next[cs[j - 1][1]] = chunk
  BY <1>4, <1>7, <1>8
<1> QED BY <1>5, <1>9 DEF ChunksOf

LEMMA YPipeIsSound ==
  ASSUME YPipeInv
  PROVE  Y!YPipeSound
<1>1. Y!TypeOK
  BY DEF YPipeInv
<1>2. PICK cs, n, ir, iw, jf : Queue(cs, n, ir, iw, jf)
  BY DEF YPipeInv
<1>3. Layout(cs, n) /\ Points(cs, n, ir, iw, jf) /\ QueueNumbers(cs, n, ir, iw, jf)
  BY <1>1, <1>2, QueueFacts
<1>4. Y!LiveCells = {cs[j] : j \in 0..n - 1} /\ Y!LiveChunks = ChunksOf(cs, n)
  BY <1>3, LiveChunksAre
<1>5. Y!ChunksOwned
  <2>1. heap = ChunksOf(cs, n) \union ({spare_chunk} \ {NoChunk}) /\ spare_chunk \notin ChunksOf(cs, n)
    BY <1>3 DEF Layout
  <2>2. \A chunk \in ChunksOf(cs, n) \ {begin_chunk} : prev[chunk] \in ChunksOf(cs, n) /\ next[prev[chunk]] = chunk
    BY <1>1, <1>3, ChunkBefore
  <2> QED BY <2>1, <2>2, <1>4 DEF Y!ChunksOwned
<1>6. Y!PointersLive /\ Y!PrefetchNeverNull
  <2>1. ir \in 0..n - 1 /\ iw \in 0..n - 1 /\ jf \in 0..n - 1
    BY <1>3 DEF QueueNumbers
  <2>2. /\ r = cs[ir] /\ w = cs[iw] /\ f = cs[jf] /\ c = IF reader = "asleep" THEN NoChunk ELSE w
    BY <1>3 DEF Points
  <2>3. {w, f, r} \subseteq Y!LiveCells /\ (c # NoChunk => c \in Y!LiveCells)
    BY <2>1, <2>2, <1>4
  <2>4. r \in Chunk \X Pos
    BY <1>1 DEF Y!TypeOK, Y!Cell, Y!Pos, Pos
  <2> QED BY <2>3, <2>4, YPipeFacts DEF Y!PointersLive, Y!PrefetchNeverNull
<1> QED BY <1>1, <1>5, <1>6 DEF Y!YPipeSound

\* Each step of the composition is one of the queue or leaves it alone.
LEMMA QueueStep ==
  ASSUME used = "ypipe" => YPipeInv, [SocketsNext]_socketsVars
  PROVE  (used = "ypipe" => YPipeInv)' /\ (used = "ypipe" => UNCHANGED Y!Promise!queueVars \/ Y!Promise!Next)
<1>1. used' = used
  BY DEF SocketsNext, OtherSockets, socketsVars
<1>2. CASE used = "ypipe"
  <2>1. YPipeInv /\ (Y!Next \/ UNCHANGED yPipeVars)
    BY <1>2 DEF SocketsNext, socketsVars
  <2> QED BY <2>1, <1>1, YPipeStep, YPipeStutter DEF Step
<1>3. CASE used # "ypipe"
  BY <1>1, <1>3
<1> QED BY <1>2, <1>3

\* ypipe.hpp: the lock-free queue is as good as one that is locked.  Every step
\* of its writer and its reader, however they interleave, is a step of
\* FlushedQueue or none: what is flushed is read in order and once, nothing else
\* is, and a flush tells of a sleeping reader exactly when there is one.
THEOREM QueuePromiseKeptHolds == SocketsSpec => QueuePromiseKept
<1> DEFINE Inv == used = "ypipe" => YPipeInv
<1>1. SocketsInit => Inv /\ Y!Promise!Init
  BY YPipeStart DEF SocketsInit
<1>2. Inv /\ [SocketsNext]_socketsVars => Inv' /\ (used = "ypipe" => UNCHANGED Y!Promise!queueVars \/ Y!Promise!Next)
  BY QueueStep
<1> HIDE DEF Inv
<1> QED BY <1>1, <1>2, PTL DEF SocketsSpec, QueuePromiseKept

\* yqueue.hpp: the chunks allocated are those in use and the spare one, the list
\* of chunks can be walked back, and every pointer the two threads compare points
\* into the queue, although chunks are freed, kept as the spare and used again.
THEOREM QueueMemorySound == SocketsSpec => [](used = "ypipe" => Y!YPipeSound)
<1> DEFINE Inv == used = "ypipe" => YPipeInv
<1>1. SocketsInit => Inv
  BY YPipeStart DEF SocketsInit
<1>2. Inv /\ [SocketsNext]_socketsVars => Inv'
  BY QueueStep
<1>3. Inv => (used = "ypipe" => Y!YPipeSound)
  BY YPipeIsSound
<1> HIDE DEF Inv
<1> QED BY <1>1, <1>2, <1>3, PTL DEF SocketsSpec

(***************************************************************************)
(* The messages.  The counter of a shared buffer is the number of          *)
(* structures that refer to it and of the references that are still to be  *)
(* taken back from pipes that refused a message; a buffer without the flag *)
(* has a single holder and a counter nobody looks at.                      *)
(***************************************************************************)
Holders(b) == {s \in Structures : msg[s].content = b}
MessageGood(b) ==
  /\ Holders(b) # {} => memory[b] = "allocated" /\ b \notin doomed
  /\ memory[b] = "unused" => Holders(b) = {} /\ refusals[b] = 0 /\ b \notin refused
  /\ b \in doomed => memory[b] = "allocated"
  /\ refusals[b] > 0 => b \in refused
  /\ \A s \in Holders(b) : IF msg[s].shared THEN refcnt[b] = Cardinality(Holders(b)) + refusals[b]
                                            ELSE Holders(b) = {s} /\ refusals[b] = 0
  /\ refcnt[b] >= refusals[b]
  /\ refusals[b] <= Cardinality(Structures)
  /\ memory[b] = "allocated" => Holders(b) # {} \/ b \in doomed \/ b \in refused
MessageTyped ==
  /\ msg \in [Structures -> [content : Buffers \union {"invalid", "vsm"}, shared : BOOLEAN]]
  /\ refcnt \in [Buffers -> Nat]
  /\ memory \in [Buffers -> {"unused", "allocated", "freed"}]
  /\ doomed \subseteq Buffers /\ refused \subseteq Buffers
  /\ refusals \in [Buffers -> Nat]
  /\ \A b \in Buffers : refcnt[b] <= 2 * Cardinality(Structures)
  /\ \A s \in Structures : msg[s].content \notin Buffers => ~msg[s].shared
MessageInv == MessageTyped /\ \A b \in Buffers : MessageGood(b)

LEMMA HoldersCounted ==
  /\ IsFiniteSet(Structures) /\ Cardinality(Structures) \in Nat
  /\ "invalid" \notin Buffers /\ "vsm" \notin Buffers
  /\ \A b : /\ IsFiniteSet(Holders(b)) /\ Cardinality(Holders(b)) \in Nat
            /\ Cardinality(Holders(b)) <= Cardinality(Structures)
            /\ Holders(b) # {} => Cardinality(Holders(b)) > 0
<1>1. Msg!MessageAssumption
  BY SocketsAssumption DEF SocketsAssumption
<1>2. IsFiniteSet(Structures) /\ {"invalid", "vsm"} \intersect Buffers = {}
  BY <1>1, Zenon DEF Msg!MessageAssumption, IsFiniteSet, Msg!IsFiniteSet
<1>3. "invalid" \notin Buffers /\ "vsm" \notin Buffers
  BY <1>2
<1>4. ASSUME NEW b
      PROVE  /\ IsFiniteSet(Holders(b)) /\ Cardinality(Holders(b)) \in Nat
             /\ Cardinality(Holders(b)) <= Cardinality(Structures)
             /\ Holders(b) # {} => Cardinality(Holders(b)) > 0
  <2>1. Holders(b) \in SUBSET Structures
    BY DEF Holders
  <2>2. IsFiniteSet(Holders(b)) /\ Cardinality(Holders(b)) <= Cardinality(Structures)
    BY <1>2, <2>1, FS_Subset
  <2>3. Cardinality(Holders(b)) \in Nat /\ (Cardinality(Holders(b)) = 0 <=> Holders(b) = {})
    BY <2>2, FS_CardinalityType, FS_EmptySet
  <2> QED BY <2>2, <2>3
<1>5. Cardinality(Structures) \in Nat
  BY <1>2, FS_CardinalityType
<1> HIDE DEF Holders
<1> QED BY <1>2, <1>3, <1>4, <1>5

\* A structure that held b does not any more.
LEMMA HolderGone ==
  ASSUME MessageInv, NEW b \in Buffers, NEW d \in Structures,
         Holders(b)' = Holders(b) \ {d},
         refcnt'[b] = IF msg[d].content = b /\ msg[d].shared THEN refcnt[b] - 1 ELSE refcnt[b],
         b \in doomed' <=> b \in doomed \/ (msg[d].content = b /\ (msg[d].shared => refcnt[b] = 1)),
         memory'[b] = memory[b], refusals'[b] = refusals[b], b \in refused' <=> b \in refused,
         \A s \in Holders(b)' : msg'[s] = msg[s]
  PROVE  MessageGood(b)' /\ refcnt'[b] \in Nat /\ refcnt'[b] <= 2 * Cardinality(Structures)
<1>1. MessageGood(b) /\ MessageTyped
  BY DEF MessageInv
<1>2. /\ IsFiniteSet(Holders(b)) /\ Cardinality(Holders(b)) \in Nat /\ Cardinality(Structures) \in Nat
      /\ (Holders(b) # {} => Cardinality(Holders(b)) > 0)
  BY HoldersCounted
<1>3. refcnt[b] \in Nat /\ refusals[b] \in Nat /\ refcnt[b] <= 2 * Cardinality(Structures)
  BY <1>1 DEF MessageTyped
<1>4. CASE d \notin Holders(b)
  <2>1. Holders(b)' = Holders(b) /\ msg[d].content # b
    BY <1>4 DEF Holders
  <2> QED BY <1>1, <1>3, <2>1 DEF MessageGood
<1>5. CASE d \in Holders(b)
  <2>1. msg[d].content = b /\ Cardinality(Holders(b)') = Cardinality(Holders(b)) - 1
    <3>1. Cardinality(Holders(b) \ {d}) = Cardinality(Holders(b)) - 1
      BY <1>2, <1>5, FS_RemoveElement
    <3>2. msg[d].content = b
      BY <1>5 DEF Holders
    <3> QED BY <3>1, <3>2
  <2>2. memory[b] = "allocated" /\ b \notin doomed
    BY <1>1, <1>5 DEF MessageGood
  <2>3. CASE msg[d].shared
    <3>1. refcnt[b] = Cardinality(Holders(b)) + refusals[b] /\ refcnt'[b] = refcnt[b] - 1
      BY <1>1, <1>5, <2>1, <2>3 DEF MessageGood
    <3>2. \A s \in Holders(b)' : msg[s].shared
      <4> SUFFICES ASSUME NEW s \in Holders(b)', ~msg[s].shared PROVE FALSE
        OBVIOUS
      <4>1. s \in Holders(b) /\ s # d
        OBVIOUS
      <4>2. Holders(b) = {s}
        BY <1>1, <4>1 DEF MessageGood
      <4> QED BY <4>1, <4>2, <1>5
    <3>3. Holders(b)' = {} <=> Cardinality(Holders(b)) = 1
      <4>1. IsFiniteSet(Holders(b)')
        BY <1>2, FS_RemoveElement
      <4> QED BY <4>1, <2>1, <1>2, FS_EmptySet
    <3>4. b \in doomed' => Cardinality(Holders(b)) = 1
      BY <3>1, <2>2, <2>1, <2>3, <1>2, <1>3, <1>5
    <3>5. b \in doomed' \/ Holders(b)' # {} \/ refusals[b] > 0
      BY <3>1, <3>3, <1>2, <1>3, <2>1
    <3>6. refcnt'[b] \in Nat /\ refcnt'[b] <= 2 * Cardinality(Structures) /\ refcnt'[b] >= refusals[b]
          /\ refcnt'[b] = Cardinality(Holders(b)') + refusals'[b]
      BY <3>1, <1>2, <1>3, <1>5, <2>1
    <3>7. refusals'[b] > 0 => b \in refused'
      BY <1>1 DEF MessageGood
    <3>8. Holders(b)' # {} => b \notin doomed'
      BY <3>3, <3>4
    <3>9. refusals'[b] <= Cardinality(Structures)
      BY <1>1 DEF MessageGood
    <3>10. \A s \in Holders(b)' : msg'[s].shared
      BY <3>2
    <3> HIDE DEF Holders
    <3>11. MessageGood(b)'
      BY <2>2, <3>3, <3>5, <3>6, <3>7, <3>8, <3>9, <3>10 DEF MessageGood
    <3> QED BY <3>6, <3>11
  <2>4. CASE ~msg[d].shared
    <3>1. Holders(b) = {d} /\ refusals[b] = 0 /\ Holders(b)' = {} /\ b \in doomed' /\ refcnt'[b] = refcnt[b]
      BY <1>1, <1>5, <2>1, <2>4 DEF MessageGood
    <3> QED BY <3>1, <2>2, <1>1, <1>3 DEF MessageGood
  <2> QED BY <2>3, <2>4
<1> QED BY <1>4, <1>5

Content == [content : Buffers \union {"invalid", "vsm"}, shared : BOOLEAN]
Flagged(m) == m.content \notin Buffers => ~m.shared

LEMMA Marks == /\ Msg!Invalid \in Content /\ Msg!Vsm \in Content /\ Flagged(Msg!Invalid) /\ Flagged(Msg!Vsm)
               /\ Msg!Invalid.content \notin Buffers /\ Msg!Vsm.content \notin Buffers
BY HoldersCounted DEF Msg!Invalid, Msg!Vsm, Content, Flagged

\* What zmq_msg_close does to the counter of b.
LEMMA DroppedAt ==
  ASSUME MessageTyped, NEW d \in Structures, NEW b \in Buffers
  PROVE  /\ Msg!Dropped(d, refcnt) \in [Buffers -> Int]
         /\ Msg!Dropped(d, refcnt)[b] = IF msg[d].content = b /\ msg[d].shared THEN refcnt[b] - 1 ELSE refcnt[b]
         /\ b \in Msg!Released(d) <=> msg[d].content = b /\ (msg[d].shared => refcnt[b] = 1)
         /\ Msg!Released(d) \subseteq Buffers
BY DEF MessageTyped, Msg!Dropped, Msg!Released, Msg!HasBuffer

\* What is to be shown of a step, buffer by buffer.
BufferKept(b) == MessageGood(b)' /\ refcnt'[b] \in Nat /\ refcnt'[b] <= 2 * Cardinality(Structures)

LEMMA EachBufferKept ==
  ASSUME MessageInv, msg' \in [Structures -> Content], \A s \in Structures : Flagged(msg'[s]),
         refcnt' \in [Buffers -> Int], memory' \in [Buffers -> {"unused", "allocated", "freed"}],
         doomed' \subseteq Buffers, refused' \subseteq Buffers, refusals' \in [Buffers -> Nat],
         \A b \in Buffers : BufferKept(b)
  PROVE  MessageInv'
<1>1. refcnt' \in [Buffers -> Nat] /\ \A b \in Buffers : refcnt'[b] <= 2 * Cardinality(Structures)
  <2>1. \A b \in Buffers : refcnt'[b] \in Nat /\ refcnt'[b] <= 2 * Cardinality(Structures)
    BY DEF BufferKept
  <2> QED BY <2>1
<1>2. MessageTyped'
  BY <1>1 DEF MessageTyped, Content, Flagged
<1>3. \A b \in Buffers : MessageGood(b)'
  BY DEF BufferKept
<1> QED BY <1>2, <1>3 DEF MessageInv

\* A structure is given another content without a buffer; what it held it drops.
LEMMA DropKept ==
  ASSUME MessageInv, NEW s \in Structures, NEW m \in Content, Flagged(m), m.content \notin Buffers,
         msg' = [msg EXCEPT ![s] = m], refcnt' = Msg!Dropped(s, refcnt), doomed' = doomed \union Msg!Released(s),
         UNCHANGED <<memory, refusals, refused>>
  PROVE  MessageInv'
<1>1. MessageTyped
  BY DEF MessageInv
<1>2. /\ msg' \in [Structures -> Content] /\ \A t \in Structures : Flagged(msg'[t])
  BY <1>1 DEF MessageTyped, Content, Flagged
<1>3. /\ memory' \in [Buffers -> {"unused", "allocated", "freed"}]
      /\ refused' \subseteq Buffers /\ refusals' \in [Buffers -> Nat] /\ doomed \subseteq Buffers
  BY <1>1 DEF MessageTyped
<1>4. ASSUME NEW b \in Buffers PROVE BufferKept(b)
  <2>1. Holders(b)' = Holders(b) \ {s} /\ \A t \in Holders(b)' : msg'[t] = msg[t]
    BY <1>1 DEF MessageTyped, Holders
  <2>2. /\ refcnt'[b] = IF msg[s].content = b /\ msg[s].shared THEN refcnt[b] - 1 ELSE refcnt[b]
        /\ b \in doomed' <=> b \in doomed \/ (msg[s].content = b /\ (msg[s].shared => refcnt[b] = 1))
    BY <1>1, DroppedAt
  <2> QED BY <2>1, <2>2, HolderGone DEF BufferKept
<1>5. refcnt' \in [Buffers -> Int] /\ doomed' \subseteq Buffers
  <2>1. CASE Buffers = {}
    BY <1>1, <2>1, <1>3 DEF MessageTyped, Msg!Dropped, Msg!Released, Msg!HasBuffer
  <2>2. CASE Buffers # {}
    BY <1>1, <2>2, <1>3, DroppedAt
  <2> QED BY <2>1, <2>2
<1> QED BY <1>2, <1>3, <1>4, <1>5, EachBufferKept

LEMMA CloseStep ==
  ASSUME MessageInv, NEW s \in Structures, Msg!Close(s)
  PROVE  MessageInv'
BY Marks, DropKept DEF Msg!Close

LEMMA InitSizeStep ==
  ASSUME MessageInv, NEW s \in Structures, Msg!InitSize(s)
  PROVE  MessageInv'
<1>1. MessageTyped /\ msg[s] = Msg!Invalid
  BY DEF MessageInv, Msg!InitSize, Msg!Valid
<1>2. Msg!Dropped(s, refcnt) = refcnt /\ Msg!Released(s) = {}
  BY <1>1, Marks DEF Msg!Dropped, Msg!Released, Msg!HasBuffer
<1> QED BY <1>1, <1>2, Marks, DropKept DEF Msg!InitSize

LEMMA InitDataStep ==
  ASSUME MessageInv, NEW s \in Structures, NEW d \in Buffers, Msg!InitData(s, d)
  PROVE  MessageInv'
<1> DEFINE m == [content |-> d, shared |-> FALSE]
<1>1. /\ MessageTyped /\ msg[s] = Msg!Invalid /\ memory[d] = "unused" /\ msg' = [msg EXCEPT ![s] = m]
      /\ memory' = [memory EXCEPT ![d] = "allocated"]
      /\ UNCHANGED <<refcnt, doomed, refusals, refused>>
  BY DEF MessageInv, Msg!InitData, Msg!Valid
<1>2. m \in Content /\ Flagged(m)
  BY DEF Content, Flagged
<1>3. msg' \in [Structures -> Content] /\ \A t \in Structures : Flagged(msg'[t])
  BY <1>1, <1>2 DEF MessageTyped, Content, Flagged
<1>4. /\ memory' \in [Buffers -> {"unused", "allocated", "freed"}]
      /\ refused' \subseteq Buffers /\ refusals' \in [Buffers -> Nat] /\ doomed' \subseteq Buffers
      /\ refcnt' \in [Buffers -> Int]
  BY <1>1 DEF MessageTyped
<1>5. ASSUME NEW b \in Buffers PROVE BufferKept(b)
  <2>1. MessageGood(b) /\ refcnt[b] \in Nat /\ refcnt[b] <= 2 * Cardinality(Structures) /\ refusals[b] \in Nat
    BY <1>1 DEF MessageInv, MessageTyped
  <2>2. CASE b = d
    <3>1. Holders(b) = {} /\ refusals[b] = 0 /\ b \notin refused /\ b \notin doomed
      BY <1>1, <2>1, <2>2 DEF MessageGood
    <3>2. Holders(b)' = {s} /\ msg'[s].shared = FALSE
      BY <1>1, <2>2, <3>1 DEF Holders, MessageTyped
    <3>3. memory'[b] = "allocated" /\ b \notin doomed' /\ refusals'[b] = 0 /\ refcnt'[b] = refcnt[b]
      BY <1>1, <2>2, <3>1 DEF MessageTyped
    <3>4. 0 <= Cardinality(Structures)
      BY HoldersCounted
    <3> HIDE DEF Holders
    <3> QED BY <2>1, <3>2, <3>3, <3>4 DEF BufferKept, MessageGood
  <2>3. CASE b # d
    <3>1. Holders(b)' = Holders(b) /\ \A t \in Holders(b) : msg'[t] = msg[t]
      BY <1>1, <2>3, Marks DEF Holders, MessageTyped
    <3>2. memory'[b] = memory[b]
      BY <1>1, <2>3 DEF MessageTyped
    <3> HIDE DEF Holders
    <3> QED BY <1>1, <2>1, <3>1, <3>2 DEF BufferKept, MessageGood
  <2> QED BY <2>2, <2>3
<1> QED BY <1>3, <1>4, <1>5, EachBufferKept

LEMMA FreeStep ==
  ASSUME MessageInv, NEW d \in Buffers, Msg!Free(d)
  PROVE  MessageInv'
<1>1. /\ MessageTyped /\ d \in doomed /\ memory' = [memory EXCEPT ![d] = "freed"] /\ doomed' = doomed \ {d}
      /\ UNCHANGED <<msg, refcnt, refusals, refused>>
  BY DEF MessageInv, Msg!Free
<1>2. msg' \in [Structures -> Content] /\ \A t \in Structures : Flagged(msg'[t])
  BY <1>1 DEF MessageTyped, Content, Flagged
<1>3. /\ memory' \in [Buffers -> {"unused", "allocated", "freed"}]
      /\ refused' \subseteq Buffers /\ refusals' \in [Buffers -> Nat] /\ doomed' \subseteq Buffers
      /\ refcnt' \in [Buffers -> Int]
  BY <1>1 DEF MessageTyped
<1>4. ASSUME NEW b \in Buffers PROVE BufferKept(b)
  <2>1. MessageGood(b) /\ refcnt[b] \in Nat /\ refcnt[b] <= 2 * Cardinality(Structures)
    BY <1>1 DEF MessageInv, MessageTyped
  <2>2. Holders(b)' = Holders(b) /\ memory'[b] = IF b = d THEN "freed" ELSE memory[b]
    BY <1>1 DEF Holders, MessageTyped
  <2>3. b = d => Holders(b) = {}
    BY <1>1, <2>1 DEF MessageGood
  <2> HIDE DEF Holders
  <2> QED BY <1>1, <2>1, <2>2, <2>3 DEF BufferKept, MessageGood
<1> QED BY <1>2, <1>3, <1>4, EachBufferKept

LEMMA RefusedStep ==
  ASSUME MessageInv, NEW d \in Buffers, Msg!Refused(d)
  PROVE  MessageInv'
<1>1. /\ MessageTyped /\ refusals[d] > 0
      /\ refusals' = [refusals EXCEPT ![d] = refusals[d] - 1] /\ refcnt' = [refcnt EXCEPT ![d] = refcnt[d] - 1]
      /\ UNCHANGED <<msg, memory, doomed, refused>>
  BY DEF MessageInv, Msg!Refused
<1>2. msg' \in [Structures -> Content] /\ \A t \in Structures : Flagged(msg'[t])
  BY <1>1 DEF MessageTyped, Content, Flagged
<1>3. /\ memory' \in [Buffers -> {"unused", "allocated", "freed"}]
      /\ refused' \subseteq Buffers /\ refusals' \in [Buffers -> Nat] /\ doomed' \subseteq Buffers
      /\ refcnt' \in [Buffers -> Int]
  BY <1>1 DEF MessageTyped
<1>4. ASSUME NEW b \in Buffers PROVE BufferKept(b)
  <2>1. /\ MessageGood(b) /\ refcnt[b] \in Nat /\ refcnt[b] <= 2 * Cardinality(Structures) /\ refusals[b] \in Nat
        /\ Cardinality(Holders(b)) \in Nat /\ Cardinality(Structures) \in Nat
    BY <1>1, HoldersCounted DEF MessageInv, MessageTyped
  <2>2. /\ Holders(b)' = Holders(b)
        /\ b = d => refcnt'[b] = refcnt[b] - 1 /\ refusals'[b] = refusals[b] - 1 /\ refusals[b] > 0
        /\ b # d => refcnt'[b] = refcnt[b] /\ refusals'[b] = refusals[b]
    BY <1>1 DEF Holders, MessageTyped
  <2> HIDE DEF Holders
  <2> QED BY <1>1, <2>1, <2>2 DEF BufferKept, MessageGood
<1> QED BY <1>2, <1>3, <1>4, EachBufferKept

\* One structure takes the place of another.
LEMMA HolderReplaced ==
  ASSUME MessageInv, NEW b \in Buffers, NEW s \in Holders(b), NEW d \in Structures \ Holders(b),
         Holders(b)' = (Holders(b) \ {s}) \union {d},
         refcnt'[b] = refcnt[b], memory'[b] = memory[b], refusals'[b] = refusals[b],
         b \in refused' <=> b \in refused, b \in doomed' <=> b \in doomed,
         msg'[d] = msg[s], \A t \in Holders(b) \ {s} : msg'[t] = msg[t]
  PROVE  BufferKept(b)
<1>1. MessageGood(b) /\ MessageTyped
  BY DEF MessageInv
<1>2. IsFiniteSet(Holders(b)) /\ Cardinality(Holders(b)) \in Nat
  BY HoldersCounted
<1>3. Cardinality(Holders(b)') = Cardinality(Holders(b))
  <2>1. IsFiniteSet(Holders(b) \ {s}) /\ Cardinality(Holders(b) \ {s}) = Cardinality(Holders(b)) - 1
    BY <1>2, FS_RemoveElement
  <2>2. Cardinality((Holders(b) \ {s}) \union {d}) = Cardinality(Holders(b) \ {s}) + 1
    BY <2>1, FS_AddElement
  <2> QED BY <2>1, <2>2, <1>2
<1>4. ASSUME NEW t \in Holders(b)'
      PROVE IF msg'[t].shared THEN refcnt'[b] = Cardinality(Holders(b)') + refusals'[b]
                              ELSE Holders(b)' = {t} /\ refusals'[b] = 0
  <2> DEFINE u == IF t = d THEN s ELSE t
  <2>1. u \in Holders(b) /\ msg'[t] = msg[u]
    OBVIOUS
  <2>2. IF msg[u].shared THEN refcnt[b] = Cardinality(Holders(b)) + refusals[b]
                         ELSE Holders(b) = {u} /\ refusals[b] = 0
    BY <1>1, <2>1 DEF MessageGood
  <2> HIDE DEF Holders
  <2>3. CASE msg[u].shared
    BY <2>1, <2>2, <2>3, <1>3
  <2>4. CASE ~msg[u].shared
    BY <2>1, <2>2, <2>4
  <2> QED BY <2>3, <2>4
<1>5. Holders(b) # {} /\ Holders(b)' # {}
  OBVIOUS
<1>6. refcnt[b] \in Nat /\ refcnt[b] <= 2 * Cardinality(Structures)
  BY <1>1 DEF MessageTyped
<1> HIDE DEF Holders
<1> QED BY <1>1, <1>4, <1>5, <1>6 DEF BufferKept, MessageGood

LEMMA SharedByTwo ==
  ASSUME MessageInv, NEW b \in Buffers, NEW s \in Holders(b), NEW d \in Holders(b), s # d
  PROVE  msg[s] = msg[d] /\ msg[s].shared /\ msg[s].content = b /\ refcnt[b] > 1
<1>1. MessageGood(b) /\ MessageTyped /\ s \in Structures /\ d \in Structures
  BY DEF MessageInv, Holders
<1>2. msg[s].shared /\ msg[d].shared /\ refcnt[b] = Cardinality(Holders(b)) + refusals[b]
  BY <1>1 DEF MessageGood
<1>3. IsFiniteSet(Holders(b)) /\ Cardinality(Holders(b)) \in Nat /\ refusals[b] \in Nat
  BY HoldersCounted, <1>1 DEF MessageTyped
<1>4. IsFiniteSet(Holders(b) \ {s}) /\ Cardinality(Holders(b) \ {s}) = Cardinality(Holders(b)) - 1
  BY <1>3, FS_RemoveElement
<1>5. Cardinality(Holders(b) \ {s}) # 0 /\ Cardinality(Holders(b) \ {s}) \in Nat
  BY <1>4, FS_EmptySet, FS_CardinalityType
<1>6. msg[s] \in Content /\ msg[d] \in Content /\ msg[s].content = b /\ msg[d].content = b
  BY <1>1 DEF MessageTyped, Content, Holders
<1>7. msg[s].shared = TRUE /\ msg[d].shared = TRUE
  BY <1>2, <1>6 DEF Content
<1>8. msg[s] = msg[d]
  BY <1>6, <1>7 DEF Content
<1> QED BY <1>2, <1>3, <1>4, <1>5, <1>6, <1>8

LEMMA MoveStep ==
  ASSUME MessageInv, NEW d \in Structures, NEW s \in Structures, Msg!Move(d, s)
  PROVE  MessageInv'
<1>1. /\ MessageTyped /\ d # s /\ msg' = [msg EXCEPT ![d] = msg[s], ![s] = Msg!Vsm]
      /\ refcnt' = Msg!Dropped(d, refcnt) /\ doomed' = doomed \union Msg!Released(d)
      /\ UNCHANGED <<memory, refusals, refused>>
  BY DEF MessageInv, Msg!Move
<1>2. /\ msg'[d] = msg[s] /\ msg'[s] = Msg!Vsm /\ \A t \in Structures \ {d, s} : msg'[t] = msg[t]
      /\ msg' \in [Structures -> Content] /\ \A t \in Structures : Flagged(msg'[t])
  BY <1>1, Marks DEF MessageTyped, Content, Flagged
<1>3. /\ memory' \in [Buffers -> {"unused", "allocated", "freed"}]
      /\ refused' \subseteq Buffers /\ refusals' \in [Buffers -> Nat] /\ doomed \subseteq Buffers
  BY <1>1 DEF MessageTyped
<1>4. refcnt' \in [Buffers -> Int] /\ doomed' \subseteq Buffers
  BY <1>1, <1>3 DEF MessageTyped, Msg!Dropped, Msg!Released, Msg!HasBuffer
<1>5. ASSUME NEW b \in Buffers PROVE BufferKept(b)
  <2>1. /\ refcnt'[b] = IF msg[d].content = b /\ msg[d].shared THEN refcnt[b] - 1 ELSE refcnt[b]
        /\ b \in doomed' <=> b \in doomed \/ (msg[d].content = b /\ (msg[d].shared => refcnt[b] = 1))
    BY <1>1, DroppedAt
  <2>2. \A t \in Structures : t \in Holders(b) <=> msg[t].content = b
    BY DEF Holders
  <2>3. CASE s \notin Holders(b)
    <3>1. Holders(b)' = Holders(b) \ {d} /\ \A t \in Holders(b)' : msg'[t] = msg[t]
      BY <1>1, <1>2, <2>3, Marks DEF Holders
    <3> QED BY <1>1, <2>1, <3>1, HolderGone DEF BufferKept
  <2>4. CASE s \in Holders(b) /\ d \in Holders(b)
    <3>1. msg[s] = msg[d] /\ msg[s].shared /\ msg[s].content = b /\ refcnt[b] > 1
      BY <1>1, <2>4, SharedByTwo
    <3>2. Holders(b)' = Holders(b) \ {s} /\ \A t \in Holders(b)' : msg'[t] = msg[t]
      BY <1>1, <1>2, <3>1, Marks DEF Holders
    <3> QED BY <1>1, <2>1, <3>1, <3>2, HolderGone DEF BufferKept
  <2>5. CASE s \in Holders(b) /\ d \notin Holders(b)
    <3>1. Holders(b)' = (Holders(b) \ {s}) \union {d} /\ \A t \in Holders(b) \ {s} : msg'[t] = msg[t]
      BY <1>1, <1>2, <2>5, Marks DEF Holders
    <3>2. refcnt'[b] = refcnt[b] /\ (b \in doomed' <=> b \in doomed)
      BY <2>1, <2>2, <2>5
    <3> QED BY <1>1, <1>2, <2>5, <3>1, <3>2, HolderReplaced
  <2> QED BY <2>3, <2>4, <2>5
<1> QED BY <1>2, <1>3, <1>4, <1>5, EachBufferKept

\* All references to b are counted from now on; some are new.
LEMMA HoldersShare ==
  ASSUME MessageInv, NEW b \in Buffers, NEW s \in Holders(b), NEW n \in Nat, NEW k \in Nat,
         Holders(b)' \in SUBSET Structures, \A t \in Holders(b)' : msg'[t].shared,
         n = Cardinality(Holders(b)'),
         refcnt'[b] = n + refusals[b] + k, refusals'[b] = refusals[b] + k, refusals'[b] <= Cardinality(Structures),
         memory'[b] = memory[b], b \in doomed' <=> b \in doomed,
         b \in refused' <=> b \in refused \/ k > 0,
         Holders(b)' # {} \/ k > 0
  PROVE  BufferKept(b)
<1>1. MessageGood(b) /\ MessageTyped /\ memory[b] = "allocated" /\ b \notin doomed /\ refusals[b] \in Nat
  BY DEF MessageInv, MessageGood, MessageTyped
<1>2. n <= Cardinality(Structures) /\ Cardinality(Structures) \in Nat
  BY HoldersCounted, FS_Subset
<1>3. refcnt'[b] \in Nat /\ refcnt'[b] <= 2 * Cardinality(Structures)
  BY <1>1, <1>2
<1>4. refusals'[b] > 0 => b \in refused'
  BY <1>1 DEF MessageGood
<1> HIDE DEF Holders
<1>5. MessageGood(b)'
  BY <1>1, <1>3, <1>4 DEF MessageGood
<1> QED BY <1>3, <1>5 DEF BufferKept

LEMMA CopyStep ==
  ASSUME MessageInv, NEW d \in Structures, NEW s \in Structures, Msg!Copy(d, s)
  PROVE  MessageInv'
<1> DEFINE m == Msg!AsShared(msg[s])
           low == Msg!Dropped(d, refcnt)
<1>1. /\ MessageTyped /\ d # s /\ msg' = [msg EXCEPT ![d] = m, ![s] = m]
      /\ refcnt' = Msg!Counted(s, 2, low) /\ doomed' = doomed \union Msg!Released(d)
      /\ UNCHANGED <<memory, refusals, refused>>
  BY DEF MessageInv, Msg!Copy
<1>2. /\ m \in Content /\ Flagged(m) /\ m.content = msg[s].content
      /\ msg[s].content \in Buffers => m.shared
      /\ msg[s].shared /\ msg[s].content \in Buffers => m = msg[s]
  <2>1. msg[s] \in Content /\ Flagged(msg[s])
    BY <1>1 DEF MessageTyped, Content, Flagged
  <2>2. CASE msg[s].content \in Buffers
    <3>1. m = [msg[s] EXCEPT !.shared = TRUE]
      BY <2>2 DEF Msg!AsShared, Msg!HasBuffer
    <3>2. m \in Content /\ m.content = msg[s].content /\ m.shared = TRUE
      BY <2>1, <3>1 DEF Content
    <3>3. msg[s].shared => msg[s].shared = TRUE
      BY <2>1 DEF Content
    <3>4. msg[s].shared => m = msg[s]
      BY <2>1, <3>1, <3>3 DEF Content
    <3> QED BY <3>2, <3>4, <2>2 DEF Flagged
  <2>3. CASE msg[s].content \notin Buffers
    BY <2>1, <2>3 DEF Msg!AsShared, Msg!HasBuffer
  <2> QED BY <2>2, <2>3
<1> HIDE DEF m
<1>3. /\ msg'[d] = m /\ msg'[s] = m /\ \A t \in Structures \ {d, s} : msg'[t] = msg[t]
      /\ msg' \in [Structures -> Content] /\ \A t \in Structures : Flagged(msg'[t])
  BY <1>1, <1>2 DEF MessageTyped, Content, Flagged
<1>4. /\ memory' \in [Buffers -> {"unused", "allocated", "freed"}]
      /\ refused' \subseteq Buffers /\ refusals' \in [Buffers -> Nat] /\ doomed \subseteq Buffers
      /\ low \in [Buffers -> Int] /\ doomed' \subseteq Buffers
  BY <1>1 DEF MessageTyped, Msg!Dropped, Msg!Released, Msg!HasBuffer
<1>5. ASSUME NEW b \in Buffers
      PROVE  /\ low[b] = IF msg[d].content = b /\ msg[d].shared THEN refcnt[b] - 1 ELSE refcnt[b]
             /\ b \in doomed' <=> b \in doomed \/ (msg[d].content = b /\ (msg[d].shared => refcnt[b] = 1))
  BY <1>1, DroppedAt
<1> HIDE DEF low
<1>6. refcnt' = IF msg[s].content \notin Buffers THEN low
                ELSE IF msg[s].shared THEN [low EXCEPT ![msg[s].content] = low[msg[s].content] + 2 - 1]
                ELSE [low EXCEPT ![msg[s].content] = 2]
  BY <1>1 DEF Msg!Counted, Msg!HasBuffer
<1>7. refcnt' \in [Buffers -> Int]
  BY <1>4, <1>6
<1>8. ASSUME NEW b \in Buffers PROVE BufferKept(b)
  <2>1. \A t \in Structures : t \in Holders(b) <=> msg[t].content = b
    BY DEF Holders
  <2>2. MessageGood(b) /\ refcnt[b] \in Nat /\ refcnt[b] <= 2 * Cardinality(Structures) /\ refusals[b] \in Nat
    BY <1>1 DEF MessageInv, MessageTyped
  <2>3. CASE s \notin Holders(b)
    <3>1. Holders(b)' = Holders(b) \ {d} /\ \A t \in Holders(b)' : msg'[t] = msg[t]
      BY <1>2, <1>3, <2>3 DEF Holders
    <3>2. refcnt'[b] = low[b]
      BY <1>4, <1>6, <2>1, <2>3
    <3>3. /\ refcnt'[b] = IF msg[d].content = b /\ msg[d].shared THEN refcnt[b] - 1 ELSE refcnt[b]
          /\ b \in doomed' <=> b \in doomed \/ (msg[d].content = b /\ (msg[d].shared => refcnt[b] = 1))
      BY <1>5, <3>2
    <3> QED BY <1>1, <3>1, <3>3, HolderGone DEF BufferKept
  <2>4. CASE s \in Holders(b) /\ d \in Holders(b)
    <3>1. msg[s] = msg[d] /\ msg[s].shared /\ msg[s].content = b /\ refcnt[b] > 1
      BY <1>1, <2>4, SharedByTwo
    <3>2. Holders(b)' = Holders(b) /\ \A t \in Holders(b) : msg'[t] = msg[t]
      BY <1>2, <1>3, <3>1 DEF Holders
    <3>3. low[b] = refcnt[b] - 1 /\ (b \in doomed' <=> b \in doomed)
      BY <1>5, <3>1
    <3>4. refcnt'[b] = refcnt[b]
      BY <1>4, <1>6, <3>1, <3>3, <2>2
    <3> HIDE DEF Holders
    <3> QED BY <1>1, <2>2, <3>2, <3>3, <3>4 DEF BufferKept, MessageGood
  <2>5. CASE s \in Holders(b) /\ d \notin Holders(b)
    <3>1. Holders(b)' = Holders(b) \union {d}
      BY <1>2, <1>3, <2>5 DEF Holders
    <3>2. msg[s].content = b /\ msg[d].content # b
      BY <2>1, <2>5
    <3>3. low[b] = refcnt[b] /\ (b \in doomed' <=> b \in doomed)
      BY <1>5, <3>2
    <3>4. refcnt'[b] = IF msg[s].shared THEN refcnt[b] + 1 ELSE 2
      BY <1>4, <1>6, <3>2, <3>3, <2>2
    <3>5. \A t \in Holders(b)' : msg'[t].shared
      <4> SUFFICES ASSUME NEW t \in Holders(b), t # s PROVE msg'[t].shared
        BY <1>2, <1>3, <3>1, <3>2
      <4>1. t \in Structures /\ t # d /\ msg[t].shared
        BY <2>5, SharedByTwo DEF Holders
      <4> QED BY <4>1, <1>3
    <3>6. /\ IsFiniteSet(Holders(b)) /\ Cardinality(Holders(b)) \in Nat
          /\ Cardinality(Holders(b)') = Cardinality(Holders(b)) + 1
      <4>1. IsFiniteSet(Holders(b)) /\ Cardinality(Holders(b)) \in Nat
        BY HoldersCounted
      <4> QED BY <4>1, <3>1, <2>5, FS_AddElement
    <3>7. refcnt'[b] = Cardinality(Holders(b)') + refusals[b] + 0
      <4>1. CASE msg[s].shared
        <5>1. refcnt[b] = Cardinality(Holders(b)) + refusals[b]
          BY <2>2, <2>5, <4>1 DEF MessageGood
        <5> QED BY <5>1, <4>1, <3>4, <3>6, <2>2
      <4>2. CASE ~msg[s].shared
        <5>1. Holders(b) = {s} /\ refusals[b] = 0
          BY <2>2, <2>5, <4>2 DEF MessageGood
        <5>2. Cardinality(Holders(b)) = 1
          BY <5>1, FS_Singleton
        <5> QED BY <5>1, <5>2, <4>2, <3>4, <3>6
      <4> QED BY <4>1, <4>2
    <3>8. Holders(b)' \in SUBSET Structures /\ Holders(b)' # {} /\ Cardinality(Holders(b)') \in Nat /\ 0 \in Nat
      BY <3>1, <3>6 DEF Holders
    <3>9. refusals'[b] = refusals[b] + 0 /\ refusals'[b] <= Cardinality(Structures) /\ memory'[b] = memory[b]
          /\ (b \in refused' <=> b \in refused \/ 0 > 0)
      BY <1>1, <2>2 DEF MessageGood
    <3> QED BY <2>5, <3>3, <3>5, <3>7, <3>8, <3>9, HoldersShare
  <2> QED BY <2>3, <2>4, <2>5
<1> QED BY <1>3, <1>4, <1>7, <1>8, EachBufferKept

LEMMA SpreadStep ==
  ASSUME MessageInv, NEW s \in Structures, Msg!Valid(s),
         NEW places \in SUBSET {t \in Structures \ {s} : ~Msg!Valid(t)}, NEW unable \in SUBSET places,
         unable # {} => \A b \in Buffers : refusals[b] = 0,
         ~(places = unable /\ Msg!Cardinality(unable) <= 1),
         Msg!SpreadMessage(s, places \ unable, unable)
  PROVE  MessageInv'
<1> DEFINE taken == places \ unable
           several == Cardinality(places) > 1
           m == IF several THEN Msg!AsShared(msg[s]) ELSE msg[s]
<1>1. (\A S : Msg!Cardinality(S) = Cardinality(S)) /\ taken \union unable = places
  BY DEF Msg!Cardinality, Cardinality
<1>2. /\ MessageTyped
      /\ msg' = [t \in Structures |-> IF t \in taken THEN m ELSE IF t = s THEN Msg!Vsm ELSE msg[t]]
      /\ refcnt' = IF several THEN Msg!Counted(s, Cardinality(places), refcnt) ELSE refcnt
      /\ refusals' = IF Msg!HasBuffer(m) THEN [refusals EXCEPT ![m.content] = refusals[m.content] + Cardinality(unable)]
                                         ELSE refusals
      /\ refused' = IF Msg!HasBuffer(m) /\ unable # {} THEN refused \union {m.content} ELSE refused
      /\ UNCHANGED <<memory, doomed>>
  BY <1>1 DEF MessageInv, Msg!SpreadMessage
<1>3. /\ IsFiniteSet(places) /\ IsFiniteSet(unable) /\ IsFiniteSet(taken)
      /\ Cardinality(places) \in Nat /\ Cardinality(unable) \in Nat /\ Cardinality(taken) \in Nat
      /\ Cardinality(places) = Cardinality(taken) + Cardinality(unable)
      /\ Cardinality(unable) <= Cardinality(Structures) /\ (Cardinality(unable) = 0 <=> unable = {})
  <2>1. places \in SUBSET Structures /\ IsFiniteSet(Structures)
    BY HoldersCounted
  <2>2. IsFiniteSet(places)
    BY <2>1, FS_Subset
  <2>3. IsFiniteSet(unable) /\ IsFiniteSet(taken)
    BY <2>2, FS_Subset
  <2>4. unable \in SUBSET Structures
    BY <2>1
  <2>5. Cardinality(unable) <= Cardinality(Structures) /\ (Cardinality(unable) = 0 <=> unable = {})
    BY <2>1, <2>3, <2>4, FS_Subset, FS_EmptySet
  <2>6. Cardinality(taken \union unable) = Cardinality(taken) + Cardinality(unable) - Cardinality(taken \intersect unable)
    BY <2>3, FS_Union
  <2>7. taken \intersect unable = {}
    OBVIOUS
  <2>8. Cardinality(taken) \in Nat /\ Cardinality(unable) \in Nat /\ Cardinality(places) \in Nat
    BY <2>2, <2>3, FS_CardinalityType
  <2>9. Cardinality(taken \intersect unable) = 0
    BY <2>7, FS_EmptySet
  <2>10. Cardinality(places) = Cardinality(taken \union unable)
    BY <1>1
  <2>11. Cardinality(places) = Cardinality(taken) + Cardinality(unable)
    <3> HIDE DEF taken
    <3> QED BY <2>6, <2>8, <2>9, <2>10
  <2> HIDE DEF taken
  <2> QED BY <2>2, <2>3, <2>5, <2>8, <2>11
<1>4. /\ m \in Content /\ Flagged(m) /\ m.content = msg[s].content
      /\ several /\ msg[s].content \in Buffers => m.shared
      /\ ~several => m = msg[s]
  <2>1. msg[s] \in Content /\ Flagged(msg[s])
    BY <1>2 DEF MessageTyped, Content, Flagged
  <2>2. CASE msg[s].content \in Buffers /\ several
    <3>1. m = [msg[s] EXCEPT !.shared = TRUE]
      BY <2>2 DEF Msg!AsShared, Msg!HasBuffer
    <3>2. m \in Content /\ m.content = msg[s].content /\ m.shared = TRUE
      BY <2>1, <3>1 DEF Content
    <3> QED BY <3>2, <2>2 DEF Flagged
  <2>3. CASE msg[s].content \notin Buffers \/ ~several
    BY <2>1, <2>3 DEF Msg!AsShared, Msg!HasBuffer
  <2> QED BY <2>2, <2>3
<1> HIDE DEF m
<1>5. /\ s \notin places /\ \A t \in places : t \in Structures /\ msg[t] = Msg!Invalid
  BY DEF Msg!Valid
<1>6. /\ msg' \in [Structures -> Content] /\ \A t \in Structures : Flagged(msg'[t])
      /\ \A t \in Structures : msg'[t] = IF t \in taken THEN m ELSE IF t = s THEN Msg!Vsm ELSE msg[t]
  BY <1>2, <1>4, Marks DEF MessageTyped, Content, Flagged
<1>7. ASSUME NEW b \in Buffers
      PROVE  /\ refusals'[b] = IF msg[s].content = b THEN refusals[b] + Cardinality(unable) ELSE refusals[b]
             /\ b \in refused' <=> b \in refused \/ (msg[s].content = b /\ unable # {})
             /\ refcnt'[b] = IF several /\ msg[s].content = b
                               THEN IF msg[s].shared THEN refcnt[b] + Cardinality(places) - 1 ELSE Cardinality(places)
                               ELSE refcnt[b]
  BY <1>2, <1>4 DEF MessageTyped, Msg!HasBuffer, Msg!Counted
<1>8. /\ memory' \in [Buffers -> {"unused", "allocated", "freed"}]
      /\ refused' \subseteq Buffers /\ refusals' \in [Buffers -> Nat] /\ doomed' \subseteq Buffers
      /\ refcnt' \in [Buffers -> Int]
  BY <1>2, <1>3, <1>4 DEF MessageTyped, Msg!HasBuffer, Msg!Counted
<1>9. ASSUME NEW b \in Buffers PROVE BufferKept(b)
  <2>1. \A t \in Structures : t \in Holders(b) <=> msg[t].content = b
    BY DEF Holders
  <2>2. /\ MessageGood(b) /\ refcnt[b] \in Nat /\ refcnt[b] <= 2 * Cardinality(Structures) /\ refusals[b] \in Nat
        /\ memory'[b] = memory[b] /\ (b \in doomed' <=> b \in doomed)
    BY <1>2 DEF MessageInv, MessageTyped
  <2>3. \A t \in places : t \notin Holders(b)
    BY <1>5, <2>1, Marks
  <2>4. CASE s \notin Holders(b)
    <3>1. Holders(b)' = Holders(b) /\ \A t \in Holders(b) : msg'[t] = msg[t]
      BY <1>4, <1>6, <2>1, <2>3, <2>4, Marks DEF Holders
    <3>2. refcnt'[b] = refcnt[b] /\ refusals'[b] = refusals[b] /\ (b \in refused' <=> b \in refused)
      BY <1>7, <2>1, <2>4
    <3> HIDE DEF Holders
    <3> QED BY <2>2, <3>1, <3>2 DEF BufferKept, MessageGood
  <2>5. CASE s \in Holders(b) /\ ~several
    <3>1. Cardinality(places) \in {0, 1}
      BY <1>3, <2>5
    <3>2. Cardinality(unable) = 0 /\ unable = {} /\ places # {}
      <4>1. CASE Cardinality(places) = 0
        <5>1. places = {}
          BY <1>3, <4>1, FS_EmptySet
        <5>2. unable = {}
          BY <5>1
        <5> QED BY <5>1, <5>2, <1>1, <1>3
      <4>2. CASE Cardinality(places) = 1
        <5>1. PICK t : places = {t}
          BY <1>3, <4>2, FS_Singleton
        <5>2. unable # {} => unable = places
          BY <5>1
        <5>3. unable = {}
          BY <5>2, <1>1, <4>2
        <5> QED BY <5>1, <5>3, <1>3
      <4> QED BY <3>1, <4>1, <4>2
    <3>3. Cardinality(places) = 1
      BY <1>3, <3>1, <3>2, FS_EmptySet
    <3>4. PICK t : places = {t}
      BY <1>3, <3>3, FS_Singleton
    <3>5. /\ t \in Structures \ Holders(b) /\ t # s /\ taken = {t} /\ msg'[t] = msg[s]
      BY <1>4, <1>5, <1>6, <2>3, <2>5, <3>2, <3>4
    <3>6. /\ Holders(b)' = (Holders(b) \ {s}) \union {t}
          /\ \A u \in Holders(b) \ {s} : msg'[u] = msg[u]
      BY <1>6, <2>1, <2>5, <3>5, Marks DEF Holders
    <3>7. refcnt'[b] = refcnt[b] /\ refusals'[b] = refusals[b] /\ (b \in refused' <=> b \in refused)
      BY <1>7, <2>1, <2>2, <2>5, <3>2
    <3> QED BY <2>2, <2>5, <3>5, <3>6, <3>7, HolderReplaced
  <2>6. CASE s \in Holders(b) /\ several
    <3>1. msg[s].content = b /\ m.content = b /\ m.shared
      BY <1>4, <2>1, <2>6
    <3>2. Holders(b)' = (Holders(b) \ {s}) \union taken
      BY <1>5, <1>6, <2>1, <2>6, <3>1, Marks DEF Holders
    <3>3. \A t \in Holders(b)' : msg'[t].shared
      <4> SUFFICES ASSUME NEW t \in Holders(b), t # s, t \notin taken PROVE msg'[t].shared
        BY <1>6, <3>1, <3>2 DEF Holders
      <4>1. t \in Structures /\ msg[t].shared
        BY <2>6, SharedByTwo DEF Holders
      <4> QED BY <4>1, <1>6
    <3>4. /\ IsFiniteSet(Holders(b)) /\ Cardinality(Holders(b)) \in Nat
          /\ Cardinality(Holders(b)') = Cardinality(Holders(b)) - 1 + Cardinality(taken)
      <4>1. IsFiniteSet(Holders(b)) /\ Cardinality(Holders(b)) \in Nat
        BY HoldersCounted
      <4>2. IsFiniteSet(Holders(b) \ {s}) /\ Cardinality(Holders(b) \ {s}) = Cardinality(Holders(b)) - 1
        BY <4>1, <2>6, FS_RemoveElement
      <4>3. Cardinality((Holders(b) \ {s}) \union taken)
            = Cardinality(Holders(b) \ {s}) + Cardinality(taken) - Cardinality((Holders(b) \ {s}) \intersect taken)
        BY <4>2, <1>3, FS_Union
      <4>4. (Holders(b) \ {s}) \intersect taken = {}
        BY <2>3
      <4>5. Cardinality((Holders(b) \ {s}) \intersect taken) = 0
        BY <4>4, FS_EmptySet
      <4> QED BY <4>1, <4>2, <4>3, <4>5, <3>2, <1>3
    <3>5. /\ refcnt'[b] = IF msg[s].shared THEN refcnt[b] + Cardinality(places) - 1 ELSE Cardinality(places)
          /\ refusals'[b] = refusals[b] + Cardinality(unable)
          /\ b \in refused' <=> b \in refused \/ unable # {}
      BY <1>7, <2>6, <3>1
    <3>6. refcnt'[b] = Cardinality(Holders(b)') + refusals[b] + Cardinality(unable)
      <4>1. CASE msg[s].shared
        <5>1. refcnt[b] = Cardinality(Holders(b)) + refusals[b]
          BY <2>2, <2>6, <4>1 DEF MessageGood
        <5> QED BY <5>1, <4>1, <3>4, <3>5, <2>2, <1>3
      <4>2. CASE ~msg[s].shared
        <5>1. Holders(b) = {s} /\ refusals[b] = 0
          BY <2>2, <2>6, <4>2 DEF MessageGood
        <5>2. Cardinality(Holders(b)) = 1
          BY <5>1, FS_Singleton
        <5> QED BY <5>1, <5>2, <4>2, <3>4, <3>5, <1>3
      <4> QED BY <4>1, <4>2
    <3>7. Holders(b)' \in SUBSET Structures
      BY DEF Holders
    <3>8. Cardinality(Holders(b)') \in Nat
      <4>1. IsFiniteSet(Holders(b)')
        BY <3>7, HoldersCounted, FS_Subset
      <4> QED BY <4>1, FS_CardinalityType
    <3>9. refusals'[b] <= Cardinality(Structures)
      <4>1. CASE unable = {}
        BY <4>1, <3>5, <1>3, <2>2 DEF MessageGood
      <4>2. CASE unable # {}
        BY <4>2, <3>5, <1>3
      <4> QED BY <4>1, <4>2
    <3>10. Holders(b)' # {} \/ Cardinality(unable) > 0
      BY <1>3, <3>2, <2>6
    <3>11. b \in refused' <=> b \in refused \/ Cardinality(unable) > 0
      BY <1>3, <3>5
    <3> QED BY <2>2, <2>6, <1>3, <3>3, <3>5, <3>6, <3>7, <3>8, <3>9, <3>10, <3>11, HoldersShare
  <2> QED BY <2>4, <2>5, <2>6
<1> QED BY <1>6, <1>8, <1>9, EachBufferKept

LEMMA DistributeStep ==
  ASSUME MessageInv, NEW s \in Structures, Msg!Distribute(s)
  PROVE  MessageInv'
<1>1. PICK places \in SUBSET {t \in Structures \ {s} : ~Msg!Valid(t)} : \E unable \in SUBSET places :
        /\ unable # {} => \A b \in Buffers : refusals[b] = 0
        /\ IF places = unable /\ Msg!Cardinality(unable) <= 1 THEN Msg!DropMessage(s)
           ELSE Msg!SpreadMessage(s, places \ unable, unable)
  BY DEF Msg!Distribute
<1>2. PICK unable \in SUBSET places :
        /\ unable # {} => \A b \in Buffers : refusals[b] = 0
        /\ IF places = unable /\ Msg!Cardinality(unable) <= 1 THEN Msg!DropMessage(s)
           ELSE Msg!SpreadMessage(s, places \ unable, unable)
  BY <1>1
<1>3. CASE places = unable /\ Msg!Cardinality(unable) <= 1
  <2>1. Msg!DropMessage(s)
    BY <1>2, <1>3
  <2> QED BY <2>1, Marks, DropKept DEF Msg!DropMessage
<1>4. CASE ~(places = unable /\ Msg!Cardinality(unable) <= 1)
  <2>1. Msg!Valid(s) /\ Msg!SpreadMessage(s, places \ unable, unable)
    BY <1>2, <1>4 DEF Msg!Distribute
  <2> QED BY <2>1, <1>2, <1>4, SpreadStep
<1> QED BY <1>3, <1>4

LEMMA MessageStep == ASSUME MessageInv, Msg!Next PROVE MessageInv'
<1>1. CASE \E s \in Structures :
             \/ Msg!InitSize(s) \/ Msg!Close(s) \/ Msg!Distribute(s)
             \/ \E d \in Structures : Msg!Move(d, s) \/ Msg!Copy(d, s)
  BY <1>1, InitSizeStep, CloseStep, DistributeStep, MoveStep, CopyStep
<1>2. CASE \E b \in Buffers : Msg!Free(b) \/ Msg!Refused(b) \/ \E s \in Structures : Msg!InitData(s, b)
  BY <1>2, FreeStep, RefusedStep, InitDataStep
<1> QED BY <1>1, <1>2 DEF Msg!Next

LEMMA MessageStutter == ASSUME MessageInv, UNCHANGED messageVars PROVE MessageInv'
<1>1. /\ msg' = msg /\ refcnt' = refcnt /\ memory' = memory
      /\ doomed' = doomed /\ refusals' = refusals /\ refused' = refused
  BY DEF messageVars
<1>2. MessageTyped /\ \A b \in Buffers : MessageGood(b)
  BY DEF MessageInv
<1>3. MessageTyped'
  BY <1>1, <1>2 DEF MessageTyped
<1>4. ASSUME NEW b \in Buffers PROVE MessageGood(b)'
  <2>1. Holders(b)' = Holders(b)
    BY <1>1 DEF Holders
  <2>2. MessageGood(b)
    BY <1>2
  <2> HIDE DEF Holders
  <2> QED BY <1>1, <2>1, <2>2 DEF MessageGood
<1> QED BY <1>3, <1>4 DEF MessageInv

LEMMA MessageStart == ASSUME Msg!Init PROVE MessageInv
<1>1. /\ msg = [s \in Structures |-> Msg!Invalid] /\ refcnt = [b \in Buffers |-> 0]
      /\ memory = [b \in Buffers |-> "unused"] /\ doomed = {} /\ refused = {} /\ refusals = [b \in Buffers |-> 0]
  BY DEF Msg!Init
<1>2. Cardinality(Structures) \in Nat
  BY HoldersCounted
<1>3. MessageTyped
  BY <1>1, <1>2, Marks DEF MessageTyped, Content, Flagged
<1>4. ASSUME NEW b \in Buffers PROVE MessageGood(b)
  <2>1. Holders(b) = {}
    BY <1>1, Marks DEF Holders
  <2> HIDE DEF Holders
  <2> QED BY <1>1, <1>2, <2>1 DEF MessageGood
<1> QED BY <1>3, <1>4 DEF MessageInv

LEMMA MessageIsSound == ASSUME MessageInv PROVE Msg!MessagesSound
<1>1. \A S : Msg!Cardinality(S) = Cardinality(S)
  BY DEF Msg!Cardinality, Cardinality
<1>2. MessageTyped /\ \A b \in Buffers : MessageGood(b)
  BY DEF MessageInv
<1>3. \A b : Msg!Holders(b) = Holders(b)
  BY DEF Msg!Holders, Holders
<1>4. Cardinality(Structures) \in Nat
  BY HoldersCounted
<1>5. Msg!TypeOK
  <2>1. \A b \in Buffers : refcnt[b] \in Msg!Counts /\ refusals[b] \in Msg!Counts
    BY <1>1, <1>2, <1>4 DEF MessageTyped, MessageGood, Msg!Counts
  <2> QED BY <1>2, <2>1 DEF MessageTyped, Msg!TypeOK
<1>6. Msg!CountIsReferences
  <2> SUFFICES ASSUME NEW b \in Buffers, NEW s \in Structures, msg[s].content = b
               PROVE IF msg[s].shared THEN refcnt[b] = Cardinality(Holders(b)) + refusals[b] ELSE Holders(b) = {s}
    BY <1>1, <1>3 DEF Msg!CountIsReferences
  <2>1. s \in Holders(b)
    BY DEF Holders
  <2> QED BY <1>2, <2>1 DEF MessageGood
<1>7. Msg!NoneDangles
  BY <1>2, <1>3 DEF Msg!NoneDangles, MessageGood
<1>8. Msg!NoneLeaks
  BY <1>2, <1>3 DEF Msg!NoneLeaks, MessageGood
<1> QED BY <1>5, <1>6, <1>7, <1>8 DEF Msg!MessagesSound

\* Each step of the composition is one of the messages or leaves them alone.
LEMMA MessagesStep ==
  ASSUME used = "message" => MessageInv, [SocketsNext]_socketsVars
  PROVE  (used = "message" => MessageInv)'
<1>1. used' = used
  BY DEF SocketsNext, OtherSockets, socketsVars
<1>2. CASE used = "message"
  <2>1. MessageInv /\ (Msg!Next \/ UNCHANGED messageVars)
    BY <1>2 DEF SocketsNext, socketsVars
  <2> QED BY <2>1, <1>1, MessageStep, MessageStutter
<1>3. CASE used # "message"
  BY <1>1, <1>3
<1> QED BY <1>2, <1>3

\* zmq.cpp, msg_content.hpp, dist.cpp: whatever structures are copied, moved,
\* closed or distributed to pipes, some of which refuse, the counter of a shared
\* buffer is the number of its references, no message refers to a buffer that
\* has been or is being released, and one without references is released,
\* unless a pipe has refused it.
THEOREM MessagesSoundHolds == SocketsSpec => [](used = "message" => Msg!MessagesSound)
<1> DEFINE Inv == used = "message" => MessageInv
<1>1. SocketsInit => Inv
  BY MessageStart DEF SocketsInit
<1>2. Inv /\ [SocketsNext]_socketsVars => Inv'
  BY MessagesStep
<1>3. Inv => (used = "message" => Msg!MessagesSound)
  BY MessageIsSound
<1> HIDE DEF Inv
<1> QED BY <1>1, <1>2, <1>3, PTL DEF SocketsSpec

(***************************************************************************)
(* The swap: positions and blocks.                                         *)
(***************************************************************************)
Cells == Sw!Unit \union {Garbage}
Base(q) == q - (q % block_size)

LEMMA SwapFacts ==
  /\ block_size \in Nat \ {0} /\ MaxBody \in Nat /\ FileSizes \subseteq Nat \ {0} /\ FileSizes # {}
  /\ Garbage \notin Sw!Unit
BY SocketsAssumption DEF SocketsAssumption, Sw!SwapAssumption

\* A position is an offset in its block.
LEMMA Offset ==
  ASSUME NEW q \in Nat
  PROVE  /\ q % block_size \in 0..block_size - 1 /\ Base(q) \in 0..q /\ q < Base(q) + block_size
         /\ q % block_size = q - Base(q)
<1>1. q % block_size \in 0..block_size - 1
  BY SwapFacts
<1>2. q = block_size * (q \div block_size) + (q % block_size)
  BY SwapFacts
<1>3. q \div block_size \in Nat
  BY SwapFacts
<1>4. block_size * (q \div block_size) \in Nat
  BY <1>3, SwapFacts
<1> QED BY <1>1, <1>2, <1>4, SwapFacts DEF Base

LEMMA SameBlock ==
  ASSUME NEW a \in Nat, NEW b \in Nat
  PROVE  /\ Sw!Block(a) = Sw!Block(b) <=> Base(a) = Base(b)
         /\ Base(a) < Base(b) => Base(a) + block_size <= Base(b)
<1>1. /\ a = block_size * (a \div block_size) + (a % block_size)
      /\ b = block_size * (b \div block_size) + (b % block_size)
  BY SwapFacts
<1>2. a \div block_size \in Nat /\ b \div block_size \in Nat
  BY SwapFacts
<1>3. a % block_size \in 0..block_size - 1 /\ b % block_size \in 0..block_size - 1
  BY SwapFacts
<1>4. a \div block_size = b \div block_size => Base(a) = Base(b)
  BY <1>1, <1>2, <1>3, SwapFacts DEF Base
<1>5. Base(a) = Base(b) => a \div block_size = b \div block_size
  <2>1. Base(a) = Base(b) => block_size * (a \div block_size) = block_size * (b \div block_size)
    BY <1>1, <1>2, <1>3, SwapFacts DEF Base
  <2> QED BY <2>1, <1>2, SwapFacts
<1>6. Base(a) < Base(b) => Base(a) + block_size <= Base(b)
  <2> DEFINE over == a \div block_size
             under == b \div block_size
  <2>1. Base(a) = block_size * over /\ Base(b) = block_size * under /\ over \in Nat /\ under \in Nat
    BY <1>1, <1>2, <1>3, SwapFacts DEF Base
  <2> HIDE DEF over, under
  <2>2. CASE over < under
    <3>1. block_size * (over + 1) <= block_size * under
      BY <2>1, <2>2, SwapFacts
    <3>2. block_size * (over + 1) = block_size * over + block_size
      BY <2>1, SwapFacts
    <3> QED BY <2>1, <3>1, <3>2
  <2>3. CASE under <= over
    <3>1. block_size * under <= block_size * over
      BY <2>1, <2>3, SwapFacts
    <3>2. block_size * under \in Nat /\ block_size * over \in Nat
      BY <2>1, SwapFacts
    <3> QED BY <2>1, <3>1, <3>2
  <2> QED BY <2>1, <2>2, <2>3
<1> QED BY <1>4, <1>5, <1>6 DEF Sw!Block

LEMMA NextOffset ==
  ASSUME NEW q \in Nat
  PROVE  IF (q + 1) % block_size = 0 THEN Base(q + 1) = q + 1 /\ q + 1 = Base(q) + block_size
         ELSE Base(q + 1) = Base(q) /\ (q + 1) % block_size = (q % block_size) + 1
<1> DEFINE over == q \div block_size
<1>1. /\ q = block_size * over + (q % block_size)
      /\ q + 1 = block_size * ((q + 1) \div block_size) + ((q + 1) % block_size)
      /\ q % block_size \in 0..block_size - 1 /\ (q + 1) % block_size \in 0..block_size - 1 /\ over \in Nat
  BY SwapFacts
<1>2. CASE q % block_size = block_size - 1
  <2>1. (q + 1) \div block_size = over + 1
    BY <1>2, SwapFacts
  <2> HIDE DEF over
  <2>2. block_size * (over + 1) = block_size * over + block_size
    BY <1>1, SwapFacts
  <2>3. block_size * over \in Nat
    BY <1>1, SwapFacts
  <2> QED BY <1>1, <1>2, <2>1, <2>2, <2>3, SwapFacts DEF Base
<1>3. CASE q % block_size # block_size - 1
  <2>1. (q + 1) \div block_size = over
    BY <1>3, SwapFacts
  <2> HIDE DEF over
  <2>2. block_size * over \in Nat
    BY <1>1, SwapFacts
  <2> QED BY <1>1, <1>3, <2>1, <2>2, SwapFacts DEF Base
<1> QED BY <1>2, <1>3

LEMMA FirstBlock == 0 % block_size = 0 /\ Base(0) = 0
BY SwapFacts DEF Base

LEMMA NextPosition ==
  ASSUME NEW n \in Nat \ {0}, NEW q \in 0..n - 1
  PROVE  /\ (q + 1) % n = IF q + 1 = n THEN 0 ELSE q + 1
         /\ IF ((q + 1) % n) % block_size = 0
              THEN /\ Base((q + 1) % n) = (q + 1) % n
                   /\ Sw!Lesser(block_size, n - Base(q)) = q + 1 - Base(q)
                   /\ (q + 1) % n = 0 \/ q + 1 = Base(q) + block_size
              ELSE Base((q + 1) % n) = Base(q) /\ (q + 1) % n = q + 1
<1>1. (q + 1) % n = IF q + 1 = n THEN 0 ELSE q + 1
  OBVIOUS
<1>2. CASE q + 1 = n
  <2>1. q \in Nat /\ (q + 1) % n = 0
    BY <1>1, <1>2
  <2>2. Base(q) \in 0..q /\ q < Base(q) + block_size
    BY <2>1, Offset
  <2>3. n - Base(q) = q + 1 - Base(q) /\ q + 1 - Base(q) <= block_size
    BY <1>2, <2>2, SwapFacts
  <2> QED BY <1>1, <1>2, <2>1, <2>2, <2>3, FirstBlock, SwapFacts DEF Sw!Lesser
<1>3. CASE q + 1 # n
  <2>1. q \in Nat /\ (q + 1) % n = q + 1 /\ q + 1 < n
    BY <1>1, <1>3
  <2>2. Base(q) \in Nat
    BY <2>1, Offset
  <2> QED BY <1>1, <1>3, <2>1, <2>2, NextOffset, SwapFacts DEF Sw!Lesser
<1> QED BY <1>2, <1>3

(***************************************************************************)
(* What the swap holds: the units that u gives the numbers i + 1 to j, in  *)
(* order from the reader's position on, each in the reader's buffer, the   *)
(* writer's or the file.                                                   *)
(***************************************************************************)
Moment == [file : [0..filesize - 1 -> Cells], bufs : [{1, 2} -> [0..block_size - 1 -> Cells]],
           rbuf : {1, 2}, wbuf : {1, 2}, start : 0..filesize - 1, rpos : 0..filesize - 1, wpos : 0..filesize - 1,
           got : Seq(Cells)]
InReader(io, q) == Base(q) = Base(io.rpos) /\ io.rpos <= q
InWriter(io, q) == Base(q) = Base(io.wpos) /\ q < io.wpos
At(io, q) == IF InReader(io, q) THEN io.bufs[io.rbuf][q % block_size]
             ELSE IF InWriter(io, q) THEN io.bufs[io.wbuf][q % block_size]
             ELSE io.file[q]
Index(io, q) == IF io.rpos <= q THEN q - io.rpos ELSE q - io.rpos + filesize
OneBlock(io) == Base(io.rpos) = Base(io.wpos) /\ io.rpos <= io.wpos

Holds(io, u, i, j) ==
  \A q \in 0..filesize - 1 : Index(io, q) < j - i => At(io, q) = u[i + Index(io, q) + 1]
Ring(io, u, i, j) ==
  /\ i \in Nat /\ j \in Nat /\ i <= j /\ j - i < filesize
  /\ io.wpos = IF io.rpos + (j - i) < filesize THEN io.rpos + (j - i) ELSE io.rpos + (j - i) - filesize
  /\ OneBlock(io) \/ io.start = Base(io.wpos)
  /\ io.rbuf = io.wbuf <=> OneBlock(io)
  /\ Holds(io, u, i, j)

\* The position after q; a unit put into the writer's buffer; that buffer saved;
\* the reader's buffer filled from pos.
Forward(q) == (q + 1) % filesize
WithUnit(io, unit) ==
  [io.bufs EXCEPT ![io.wbuf] = [io.bufs[io.wbuf] EXCEPT ![io.wpos % block_size] = unit]]
WithBlock(io, put) ==
  [q \in 0..filesize - 1 |-> IF q - io.start \in 0..Sw!Lesser(block_size, filesize - io.start) - 1
                               THEN put[io.wbuf][q - io.start] ELSE io.file[q]]
WithFilled(io, pos) ==
  [io.bufs EXCEPT ![io.rbuf] =
     [q \in 0..block_size - 1 |-> IF q < Sw!Lesser(block_size, filesize - pos) THEN io.file[pos + q]
                                  ELSE io.bufs[io.rbuf][q]]]

LEMMA Written ==
  ASSUME filesize \in Nat \ {0}, NEW io \in Moment, NEW unit \in Cells
  PROVE  LET pos == Forward(io.wpos)
             put == WithUnit(io, unit)
         IN /\ put \in [{1, 2} -> [0..block_size - 1 -> Cells]] /\ pos \in 0..filesize - 1
            /\ pos % block_size # 0 => Sw!WriteUnit(io, unit) = [io EXCEPT !.bufs = put, !.wpos = pos]
            /\ pos % block_size = 0 => Sw!WriteUnit(io, unit) =
                 [io EXCEPT !.bufs = put, !.wpos = pos, !.start = pos, !.wbuf = IF io.wbuf = io.rbuf THEN 3 - io.rbuf ELSE io.wbuf,
                    !.file = WithBlock(io, put)]
<1> DEFINE pos == Forward(io.wpos)
           put == WithUnit(io, unit)
<1>0. pos = (io.wpos + 1) % filesize
      /\ put = [io.bufs EXCEPT ![io.wbuf] = [io.bufs[io.wbuf] EXCEPT ![io.wpos % block_size] = unit]]
  BY DEF Forward, WithUnit
<1> HIDE DEF pos, put
<1>1. io.wpos % block_size \in 0..block_size - 1 /\ io.wpos \in 0..filesize - 1
  BY Offset DEF Moment
<1>2. pos \in 0..filesize - 1
  BY <1>0, <1>1, NextPosition
<1>3. put \in [{1, 2} -> [0..block_size - 1 -> Cells]]
  BY <1>0, <1>1 DEF Moment
<1>4. [io EXCEPT !.bufs[io.wbuf][io.wpos % block_size] = unit, !.wpos = pos] = [io EXCEPT !.bufs = put, !.wpos = pos]
  BY <1>0, <1>1 DEF Moment
<1>5. pos % block_size # 0 => Sw!WriteUnit(io, unit) = [io EXCEPT !.bufs = put, !.wpos = pos]
  BY <1>0, <1>4 DEF Sw!WriteUnit
<1> DEFINE both == [io EXCEPT !.bufs = put, !.wpos = pos]
<1>6. pos % block_size = 0 => Sw!WriteUnit(io, unit) =
         [both EXCEPT !.file = Sw!Saved(both), !.start = pos,
                      !.wbuf = IF both.wbuf = both.rbuf THEN 3 - both.rbuf ELSE both.wbuf]
  BY <1>0, <1>4 DEF Sw!WriteUnit
<1>7. /\ both.wbuf = io.wbuf /\ both.rbuf = io.rbuf /\ both.start = io.start /\ both.file = io.file /\ both.bufs = put
  BY DEF Moment
<1>8. Sw!Saved(both) = WithBlock(io, put)
  BY <1>7 DEF Sw!Saved, Sw!Octets, WithBlock
<1>9. pos % block_size = 0 => Sw!WriteUnit(io, unit) =
              [io EXCEPT !.bufs = put, !.wpos = pos, !.start = pos, !.wbuf = IF io.wbuf = io.rbuf THEN 3 - io.rbuf ELSE io.wbuf,
                 !.file = Sw!Saved(both)]
  <2> DEFINE saved == Sw!Saved(both)
             side == IF io.wbuf = io.rbuf THEN 3 - io.rbuf ELSE io.wbuf
  <2>1. pos % block_size = 0 => Sw!WriteUnit(io, unit) = [both EXCEPT !.file = saved, !.start = pos, !.wbuf = side]
    BY <1>6, <1>7
  <2> HIDE DEF saved, side
  <2>2. [both EXCEPT !.file = saved, !.start = pos, !.wbuf = side]
        = [io EXCEPT !.bufs = put, !.wpos = pos, !.start = pos, !.wbuf = side, !.file = saved]
    BY DEF Moment
  <2>3. pos % block_size = 0 => Sw!WriteUnit(io, unit)
          = [io EXCEPT !.bufs = put, !.wpos = pos, !.start = pos, !.wbuf = side, !.file = saved]
    BY <2>1, <2>2
  <2> QED BY <2>3 DEF saved, side
<1> QED BY <1>2, <1>3, <1>5, <1>8, <1>9 DEF pos, put

LEMMA Read ==
  ASSUME filesize \in Nat \ {0}, NEW io \in Moment
  PROVE  LET pos == Forward(io.rpos)
             put == WithFilled(io, pos)
             seen == Append(io.got, io.bufs[io.rbuf][io.rpos % block_size])
         IN /\ put \in [{1, 2} -> [0..block_size - 1 -> Cells]] /\ pos \in 0..filesize - 1 /\ seen \in Seq(Cells)
            /\ Sw!ReadUnit(io) =
                 IF pos % block_size # 0 THEN [io EXCEPT !.got = seen, !.rpos = pos]
                 ELSE IF Base(pos) = Base(io.wpos) THEN [io EXCEPT !.got = seen, !.rpos = pos, !.rbuf = io.wbuf]
                 ELSE [io EXCEPT !.got = seen, !.rpos = pos, !.bufs = put]
<1> DEFINE pos == Forward(io.rpos)
           put == WithFilled(io, pos)
           seen == Append(io.got, io.bufs[io.rbuf][io.rpos % block_size])
<1>0. /\ pos = (io.rpos + 1) % filesize /\ seen = Append(io.got, io.bufs[io.rbuf][io.rpos % block_size])
      /\ put = [io.bufs EXCEPT ![io.rbuf] =
           [q \in 0..block_size - 1 |-> IF q < Sw!Lesser(block_size, filesize - pos) THEN io.file[pos + q]
                                        ELSE io.bufs[io.rbuf][q]]]
  BY DEF Forward, WithFilled
<1> HIDE DEF pos, put, seen
<1>1. io.rpos % block_size \in 0..block_size - 1 /\ io.rpos \in 0..filesize - 1 /\ io.wpos \in Nat
  BY Offset DEF Moment
<1>2. pos \in 0..filesize - 1
  <2>1. (io.rpos + 1) % filesize = IF io.rpos + 1 = filesize THEN 0 ELSE io.rpos + 1
    BY <1>1, NextPosition
  <2>2. io.rpos \in 0..filesize - 1
    BY <1>1
  <2> QED BY <1>0, <2>1, <2>2
<1>3. put \in [{1, 2} -> [0..block_size - 1 -> Cells]]
  <2>1. \A q \in 0..block_size - 1 : q < Sw!Lesser(block_size, filesize - pos) => pos + q \in 0..filesize - 1
    BY <1>2, SwapFacts DEF Sw!Lesser
  <2>2. /\ io.bufs \in [{1, 2} -> [0..block_size - 1 -> Cells]] /\ io.rbuf \in {1, 2}
        /\ io.file \in [0..filesize - 1 -> Cells]
    BY DEF Moment
  <2>3. io.bufs[io.rbuf] \in [0..block_size - 1 -> Cells]
    BY <2>2
  <2>4. ASSUME NEW q \in 0..block_size - 1
        PROVE  (IF q < Sw!Lesser(block_size, filesize - pos) THEN io.file[pos + q] ELSE io.bufs[io.rbuf][q]) \in Cells
    BY <2>1, <2>2, <2>3
  <2>5. [q \in 0..block_size - 1 |-> IF q < Sw!Lesser(block_size, filesize - pos) THEN io.file[pos + q]
                                     ELSE io.bufs[io.rbuf][q]] \in [0..block_size - 1 -> Cells]
    BY <2>4
  <2> QED BY <1>0, <2>2, <2>5
<1>4. seen \in Seq(Cells)
  <2>1. /\ io.bufs \in [{1, 2} -> [0..block_size - 1 -> Cells]] /\ io.rbuf \in {1, 2} /\ io.got \in Seq(Cells)
    BY DEF Moment
  <2>2. io.bufs[io.rbuf] \in [0..block_size - 1 -> Cells]
    BY <2>1
  <2>3. io.bufs[io.rbuf][io.rpos % block_size] \in Cells
    BY <1>1, <2>2
  <2> QED BY <1>0, <2>1, <2>3, AppendProperties
<1>5. Sw!Block(pos) = Sw!Block(io.wpos) <=> Base(pos) = Base(io.wpos)
  BY <1>1, <1>2, SameBlock
<1> DEFINE both == [io EXCEPT !.got = seen, !.rpos = pos]
<1>6. Sw!ReadUnit(io) = IF pos % block_size # 0 THEN both
                        ELSE IF Sw!Block(pos) = Sw!Block(io.wpos) THEN [both EXCEPT !.rbuf = io.wbuf]
                        ELSE [both EXCEPT !.bufs = Sw!Filled(both, both.rbuf, pos)]
  BY <1>0 DEF Sw!ReadUnit, Moment
<1>7. both.rbuf = io.rbuf /\ both.file = io.file /\ both.bufs = io.bufs
  BY DEF Moment
<1>8. Sw!Filled(both, both.rbuf, pos) = put
  BY <1>0, <1>7 DEF Sw!Filled, Sw!Octets
<1> QED BY <1>2, <1>3, <1>4, <1>5, <1>6, <1>8 DEF Moment, pos, put, seen

\* Where a number is in the ring: n of size are taken, from R to W.
LEMMA InRing ==
  ASSUME NEW size \in Nat \ {0}, NEW R \in 0..size - 1, NEW W \in 0..size - 1, NEW n \in Nat, n < size,
         W = IF R + n < size THEN R + n ELSE R + n - size,
         NEW q \in 0..size - 1, NEW x, x = IF R <= q THEN q - R ELSE q - R + size
  PROVE  /\ x \in 0..size - 1 /\ (q = W <=> x = n) /\ (q = R <=> x = 0)
         /\ x < n <=> (R <= q \/ q < W) /\ (R <= W => R <= q /\ q < W)
OBVIOUS

\* One more number is written, or one is read.
LEMMA RingSteps ==
  ASSUME NEW size \in Nat \ {0}, NEW R \in 0..size - 1, NEW W \in 0..size - 1, NEW n \in Nat, n < size,
         W = IF R + n < size THEN R + n ELSE R + n - size
  PROVE  /\ n + 1 < size => \A pos : pos = (IF W + 1 = size THEN 0 ELSE W + 1) =>
                              /\ pos = (IF R + (n + 1) < size THEN R + (n + 1) ELSE R + (n + 1) - size) /\ pos # R
                              /\ W < R => pos # 0 /\ pos < R
         /\ n > 0 => \A pos : pos = (IF R + 1 = size THEN 0 ELSE R + 1) =>
                       /\ W = (IF pos + (n - 1) < size THEN pos + (n - 1) ELSE pos + (n - 1) - size) /\ R # W
                       /\ R <= W => pos # 0 /\ pos <= W
                       /\ W < R => pos = 0 \/ W < pos
OBVIOUS

\* Numbers of one block.
LEMMA InBlock ==
  ASSUME NEW a \in Nat, NEW b \in Nat
  PROVE  /\ Base(a) = Base(b) /\ a # b => a % block_size # b % block_size
         /\ Base(a) = Base(b) <=> Base(b) <= a /\ a < Base(b) + block_size
         /\ a % block_size \in 0..block_size - 1 /\ a % block_size = a - Base(a)
<1>1. /\ Base(a) \in 0..a /\ a < Base(a) + block_size /\ a % block_size = a - Base(a)
      /\ Base(b) \in 0..b /\ b < Base(b) + block_size /\ b % block_size = b - Base(b)
      /\ a % block_size \in 0..block_size - 1
  BY Offset
<1>2. Base(a) < Base(b) => Base(a) + block_size <= Base(b)
  BY SameBlock
<1>3. Base(b) < Base(a) => Base(b) + block_size <= Base(a)
  BY SameBlock
<1> QED BY <1>1, <1>2, <1>3, SwapFacts

LEMMA WrittenKept ==
  ASSUME filesize \in Nat \ {0}, NEW io \in Moment, NEW u, NEW i, NEW j, Ring(io, u, i, j),
         j + 1 - i < filesize, u[j + 1] \in Cells, NEW out, out = Sw!WriteUnit(io, u[j + 1])
  PROVE  out \in Moment /\ out.got = io.got /\ out.rpos = io.rpos /\ Ring(out, u, i, j + 1)
<1> DEFINE pos == Forward(io.wpos)
           put == WithUnit(io, u[j + 1])
           last == Sw!Lesser(block_size, filesize - io.start) - 1
           saved == WithBlock(io, put)
           n == j - i
           R == io.rpos
           W == io.wpos
<1>1. /\ pos = (io.wpos + 1) % filesize
      /\ put = [io.bufs EXCEPT ![io.wbuf] = [io.bufs[io.wbuf] EXCEPT ![io.wpos % block_size] = u[j + 1]]]
      /\ saved = [q \in 0..filesize - 1 |-> IF q - io.start \in 0..last THEN put[io.wbuf][q - io.start] ELSE io.file[q]]
  BY DEF Forward, WithUnit, WithBlock
<1> HIDE DEF pos, put, last, saved
<1>2. /\ R \in 0..filesize - 1 /\ W \in 0..filesize - 1 /\ io.start \in 0..filesize - 1
      /\ io.rbuf \in {1, 2} /\ io.wbuf \in {1, 2}
      /\ io.file \in [0..filesize - 1 -> Cells] /\ io.bufs \in [{1, 2} -> [0..block_size - 1 -> Cells]]
  BY DEF Moment
<1>3. /\ i \in Nat /\ j \in Nat /\ i <= j /\ n \in Nat /\ n + 1 < filesize /\ j + 1 - i = n + 1
      /\ W = IF R + n < filesize THEN R + n ELSE R + n - filesize
      /\ OneBlock(io) \/ io.start = Base(W)
      /\ io.rbuf = io.wbuf <=> OneBlock(io)
      /\ Holds(io, u, i, j)
  BY DEF Ring
<1>4. \A q \in 0..filesize - 1 : /\ q % block_size \in 0..block_size - 1 /\ Base(q) \in 0..q /\ q < Base(q) + block_size
                                 /\ q % block_size = q - Base(q)
  BY Offset
<1>5. W % block_size \in 0..block_size - 1 /\ Base(W) \in 0..W /\ W < Base(W) + block_size /\ W % block_size = W - Base(W)
  BY <1>2, <1>4
<1>6. /\ put[io.wbuf][W % block_size] = u[j + 1]
      /\ \A q \in 0..block_size - 1 : q # W % block_size => put[io.wbuf][q] = io.bufs[io.wbuf][q]
      /\ io.rbuf # io.wbuf => put[io.rbuf] = io.bufs[io.rbuf]
  BY <1>1, <1>2, <1>5
<1>7. /\ put \in [{1, 2} -> [0..block_size - 1 -> Cells]] /\ pos \in 0..filesize - 1
      /\ pos % block_size # 0 => out = [io EXCEPT !.bufs = put, !.wpos = pos]
      /\ pos % block_size = 0 => out =
           [io EXCEPT !.bufs = put, !.wpos = pos, !.start = pos, !.wbuf = IF io.wbuf = io.rbuf THEN 3 - io.rbuf ELSE io.wbuf,
              !.file = saved]
  BY Written DEF pos, put, saved
<1>8. /\ pos = IF W + 1 = filesize THEN 0 ELSE W + 1
      /\ IF pos % block_size = 0 THEN /\ Base(pos) = pos /\ (io.start = Base(W) => last + 1 = W + 1 - Base(W))
                                      /\ pos = 0 \/ W + 1 = Base(W) + block_size
         ELSE Base(pos) = Base(W) /\ pos = W + 1
  <2>1. io.start = Base(W) => last + 1 = Sw!Lesser(block_size, filesize - Base(W))
    <3>1. io.start = Base(W) => last = Sw!Lesser(block_size, filesize - Base(W)) - 1
      BY DEF last
    <3>2. Sw!Lesser(block_size, filesize - Base(W)) \in Int
      BY <1>2, <1>5, SwapFacts DEF Sw!Lesser
    <3> QED BY <3>1, <3>2
  <2> HIDE DEF W
  <2>2. W \in 0..filesize - 1 /\ pos = (W + 1) % filesize
    BY <1>1, <1>2 DEF W
  <2> QED BY <2>1, <2>2, NextPosition
<1>9. /\ pos = IF R + (n + 1) < filesize THEN R + (n + 1) ELSE R + (n + 1) - filesize
      /\ pos # R /\ (W < R => pos # 0 /\ pos < R)
  <2> HIDE DEF R, W, n
  <2> QED BY <1>2, <1>3, <1>8, RingSteps
<1>10. ASSUME NEW q \in 0..filesize - 1
       PROVE  /\ Index(io, q) \in 0..filesize - 1 /\ (q = W <=> Index(io, q) = n)
              /\ Index(io, q) < n <=> (R <= q \/ q < W) /\ (R <= W => R <= q /\ q < W)
              /\ Base(q) = Base(W) /\ q # W => q % block_size # W % block_size
              /\ Base(q) = Base(W) <=> Base(W) <= q /\ q < Base(W) + block_size
  <2> DEFINE x == Index(io, q)
  <2>1. x = IF R <= q THEN q - R ELSE q - R + filesize
    BY DEF Index
  <2>2. q \in Nat /\ W \in Nat
    BY <1>2
  <2>3. /\ Base(q) = Base(W) /\ q # W => q % block_size # W % block_size
        /\ Base(q) = Base(W) <=> Base(W) <= q /\ q < Base(W) + block_size
    BY <2>2, InBlock
  <2> HIDE DEF R, W, n, x
  <2>4. /\ filesize \in Nat \ {0} /\ R \in 0..filesize - 1 /\ W \in 0..filesize - 1 /\ n \in Nat /\ n < filesize
        /\ W = IF R + n < filesize THEN R + n ELSE R + n - filesize
    BY <1>2, <1>3
  <2>5. /\ x \in 0..filesize - 1 /\ (q = W <=> x = n)
        /\ x < n <=> (R <= q \/ q < W) /\ (R <= W => R <= q /\ q < W)
    BY <2>1, <2>4, InRing
  <2> QED BY <2>3, <2>5 DEF x
\* What is where it was, and where the buffer is no longer the one to look in, it is in the file.
<1>11. ASSUME NEW q \in 0..filesize - 1, Index(io, q) < n
       PROVE  /\ At(io, q) = u[i + Index(io, q) + 1] /\ q # W
              /\ InReader(io, q) => put[io.rbuf][q % block_size] = io.bufs[io.rbuf][q % block_size]
              /\ Base(q) = Base(W) => put[io.wbuf][q % block_size] = io.bufs[io.wbuf][q % block_size]
  <2>1. At(io, q) = u[i + Index(io, q) + 1]
    BY <1>3, <1>11 DEF Holds
  <2>2. q # W
    BY <1>10, <1>11, <1>3
  <2>3. Base(q) = Base(W) => q % block_size # W % block_size
    BY <2>2, <1>10
  <2>4. q % block_size \in 0..block_size - 1
    BY <1>4
  <2>5. Base(q) = Base(W) => put[io.wbuf][q % block_size] = io.bufs[io.wbuf][q % block_size]
    BY <1>6, <2>3, <2>4
  <2>6. InReader(io, q) => put[io.rbuf][q % block_size] = io.bufs[io.rbuf][q % block_size]
    <3>1. InReader(io, q) /\ io.rbuf = io.wbuf => Base(q) = Base(W)
      BY <1>3 DEF InReader, OneBlock
    <3> QED BY <1>6, <2>5, <3>1
  <2> QED BY <2>1, <2>2, <2>5, <2>6
<1>12. InReader(io, W) => io.rbuf = io.wbuf
  BY <1>3 DEF InReader, OneBlock
<1>13. j + 1 \in Nat /\ i <= j + 1
  BY <1>3
<1>14. CASE pos % block_size # 0
  <2>1. /\ out \in Moment /\ out.file = io.file /\ out.bufs = put /\ out.rbuf = io.rbuf /\ out.wbuf = io.wbuf
        /\ out.start = io.start /\ out.rpos = io.rpos /\ out.wpos = pos /\ out.got = io.got
    BY <1>7, <1>14 DEF Moment
  <2>2. Base(pos) = Base(W) /\ pos = W + 1
    BY <1>8, <1>14
  <2>3. OneBlock(out) <=> OneBlock(io)
    <3>1. R <= pos <=> R <= W
      BY <1>2, <1>9, <2>2
    <3> QED BY <2>1, <2>2, <3>1 DEF OneBlock
  <2>4. ASSUME NEW q \in 0..filesize - 1, Index(out, q) < n + 1
        PROVE  At(out, q) = u[i + Index(out, q) + 1]
    <3>1. Index(out, q) = Index(io, q) /\ Index(io, q) \in Nat
      BY <1>10, <2>1 DEF Index
    <3>2. InReader(out, q) <=> InReader(io, q)
      BY <2>1 DEF InReader
    <3>3. CASE q = W
      <4>1. Index(out, q) = n
        BY <1>10, <3>1, <3>3
      <4>2. InWriter(out, q)
        BY <1>2, <2>1, <2>2, <3>3 DEF InWriter
      <4>3. At(out, q) = put[io.wbuf][q % block_size]
        BY <1>12, <2>1, <3>2, <3>3, <4>2 DEF At
      <4>4. At(out, q) = u[j + 1] /\ i + n + 1 = j + 1
        BY <1>3, <1>6, <3>3, <4>3
      <4> QED BY <4>1, <4>4
    <3>4. CASE q # W
      <4>1. Index(io, q) < n
        <5>1. Index(io, q) # n
          BY <1>10, <3>4
        <5> QED BY <1>3, <2>4, <3>1, <5>1
      <4>2. InWriter(out, q) <=> InWriter(io, q)
        BY <1>2, <2>1, <2>2, <3>4 DEF InWriter
      <4>3. InWriter(io, q) => Base(q) = Base(W)
        BY DEF InWriter
      <4>4. At(out, q) = At(io, q)
        BY <1>11, <2>1, <3>2, <4>1, <4>2, <4>3 DEF At
      <4> QED BY <1>11, <3>1, <4>1, <4>4
    <3> QED BY <3>3, <3>4
  <2>5. Holds(out, u, i, j + 1)
    BY <1>3, <2>4 DEF Holds
  <2> QED BY <1>3, <1>9, <1>13, <2>1, <2>2, <2>3, <2>5 DEF Ring
<1>15. CASE pos % block_size = 0
  <2>1. /\ Base(pos) = pos /\ (io.start = Base(W) => last = W - Base(W)) /\ (pos = 0 \/ W + 1 = Base(W) + block_size)
        /\ \A x \in 0..last : x \in 0..block_size - 1
    <3>1. last \in Int /\ last < block_size
      BY <1>2, SwapFacts DEF last, Sw!Lesser
    <3> QED BY <1>2, <1>5, <1>8, <1>15, <3>1, SwapFacts
  <2>2. ASSUME NEW q \in 0..filesize - 1
        PROVE  /\ io.start = Base(W) =>
                    saved[q] = IF Base(q) = Base(W) THEN put[io.wbuf][q % block_size] ELSE io.file[q]
               /\ Base(q) = Base(W) => q <= W
    <3>1. Base(q) = Base(W) <=> Base(W) <= q /\ q < Base(W) + block_size
      BY <1>10
    <3>2. io.start = Base(W) => (q - Base(W) \in 0..last <=> Base(W) <= q /\ q <= W)
      BY <1>2, <1>5, <2>1
    <3>3. Base(W) <= q => (q <= W <=> q < Base(W) + block_size)
      <4> HIDE DEF R, W, n
      <4>1. W + 1 = filesize \/ W + 1 = Base(W) + block_size
        BY <1>2, <1>8, <2>1
      <4> QED BY <1>2, <1>5, <4>1, SwapFacts
    <3>4. Base(q) = Base(W) => q - Base(W) = q % block_size
      BY <1>4
    <3>5. saved[q] = IF q - io.start \in 0..last THEN put[io.wbuf][q - io.start] ELSE io.file[q]
      BY <1>1
    <3>6. Base(q) = Base(W) => q <= W
      BY <1>5, <3>1, <3>3
    <3> QED BY <3>1, <3>2, <3>3, <3>4, <3>5, <3>6
  <2>3. saved \in [0..filesize - 1 -> Cells]
    <3>1. put[io.wbuf] \in [0..block_size - 1 -> Cells]
      BY <1>2, <1>7
    <3>2. ASSUME NEW q \in 0..filesize - 1
          PROVE  (IF q - io.start \in 0..last THEN put[io.wbuf][q - io.start] ELSE io.file[q]) \in Cells
      BY <1>2, <2>1, <3>1
    <3> QED BY <3>2, <1>1
  <2>4. /\ out \in Moment /\ out.file = saved /\ out.bufs = put /\ out.rbuf = io.rbuf /\ out.wbuf # io.rbuf
        /\ out.start = pos /\ out.rpos = io.rpos /\ out.wpos = pos /\ out.got = io.got
    <3> DEFINE side == IF io.wbuf = io.rbuf THEN 3 - io.rbuf ELSE io.wbuf
    <3>1. side \in {1, 2} /\ side # io.rbuf
      BY <1>2
    <3>2. out = [io EXCEPT !.bufs = put, !.wpos = pos, !.start = pos, !.wbuf = side, !.file = saved]
      BY <1>7, <1>15
    <3> HIDE DEF side
    <3> QED BY <1>7, <2>3, <3>1, <3>2 DEF Moment
  <2>5. ~OneBlock(out)
    <3>1. R \in Nat /\ pos \in Nat /\ Base(R) \in 0..R
      BY <1>2, <1>4, <1>7
    <3>2. Base(R) = Base(pos) /\ R <= pos => FALSE
      BY <1>9, <2>1, <3>1
    <3> QED BY <2>4, <3>2 DEF OneBlock
  <2>6. ASSUME NEW q \in 0..filesize - 1, Index(out, q) < n + 1
        PROVE  At(out, q) = u[i + Index(out, q) + 1]
    <3>1. Index(out, q) = Index(io, q) /\ Index(io, q) \in Nat
      BY <1>10, <2>4 DEF Index
    <3>2. InReader(out, q) <=> InReader(io, q)
      BY <2>4 DEF InReader
    <3>3. ~InWriter(out, q)
      <4>1. Base(q) \in 0..q
        BY <1>4
      <4>2. pos \in Nat
        BY <1>7
      <4> QED BY <2>1, <2>4, <4>1, <4>2 DEF InWriter
    <3>4. At(out, q) = IF InReader(io, q) THEN put[io.rbuf][q % block_size] ELSE saved[q]
      BY <2>4, <3>2, <3>3 DEF At
    \* Where a rollback has left the start of the block wrong, all there is is in the
    \* reader's buffer.
    <3>7. OneBlock(io) => InReader(io, q)
      <4> SUFFICES ASSUME OneBlock(io) PROVE InReader(io, q)
        OBVIOUS
      <4>1. Base(R) = Base(W) /\ R <= W
        BY DEF OneBlock
      <4>2. q = W \/ (R <= q /\ q < W)
        <5>1. q = W \/ Index(io, q) < n
          BY <1>3, <1>10, <2>6, <3>1
        <5> QED BY <1>10, <4>1, <5>1
      <4>3. Base(R) \in 0..R
        BY <1>2, <1>4
      <4>4. Base(q) = Base(W)
        <5> HIDE DEF R, W, n
        <5>1. Base(W) <= q /\ q < Base(W) + block_size
          <6>1. Base(W) \in Nat /\ W \in Nat /\ R \in Nat /\ Base(R) \in Nat /\ Base(R) <= R /\ Base(W) <= W
            BY <1>2, <1>5, <4>3
          <6>2. W < Base(W) + block_size
            BY <1>5
          <6> QED BY <4>1, <4>2, <6>1, <6>2, SwapFacts
        <5> QED BY <1>10, <5>1
      <4> QED BY <4>1, <4>2, <4>4 DEF InReader
    <3>5. CASE q = W
      <4>1. Index(out, q) = n
        BY <1>10, <3>1, <3>5
      <4>2. At(out, q) = put[io.wbuf][q % block_size]
        BY <1>3, <1>12, <2>2, <3>4, <3>5, <3>7
      <4>3. At(out, q) = u[j + 1] /\ i + n + 1 = j + 1
        BY <1>3, <1>6, <3>5, <4>2
      <4> QED BY <4>1, <4>3
    <3>6. CASE q # W
      <4>1. Index(io, q) < n
        <5>1. Index(io, q) # n
          BY <1>10, <3>6
        <5> QED BY <1>3, <2>6, <3>1, <5>1
      <4>2. Base(q) = Base(W) => q < W
        BY <1>2, <2>2, <3>6
      <4>3. InWriter(io, q) <=> Base(q) = Base(W)
        BY <4>2 DEF InWriter
      <4>4. At(out, q) = At(io, q)
        BY <1>3, <1>11, <2>2, <3>4, <3>7, <4>1, <4>3 DEF At
      <4> QED BY <1>11, <3>1, <4>1, <4>4
    <3> QED BY <3>5, <3>6
  <2>7. Holds(out, u, i, j + 1)
    BY <1>3, <2>6 DEF Holds
  <2> QED BY <1>3, <1>9, <1>13, <2>1, <2>4, <2>5, <2>7 DEF Ring
<1> QED BY <1>14, <1>15

\* The numbers of the units when one has been read.
LEMMA InRingAfter ==
  ASSUME NEW size \in Nat \ {0}, NEW R \in 0..size - 1, NEW pos, pos = IF R + 1 = size THEN 0 ELSE R + 1,
         NEW q \in 0..size - 1, NEW x, x = IF R <= q THEN q - R ELSE q - R + size,
         NEW y, y = IF pos <= q THEN q - pos ELSE q - pos + size
  PROVE  IF q = R THEN y = size - 1 ELSE y = x - 1
OBVIOUS

LEMMA ReadKept ==
  ASSUME filesize \in Nat \ {0}, NEW io \in Moment, NEW u, NEW i, NEW j, Ring(io, u, i, j), i < j,
         NEW out, out = Sw!ReadUnit(io)
  PROVE  out \in Moment /\ out.got = Append(io.got, u[i + 1]) /\ Ring(out, u, i + 1, j) /\ out.wpos = io.wpos
<1> DEFINE pos == Forward(io.rpos)
           put == WithFilled(io, pos)
           seen == Append(io.got, io.bufs[io.rbuf][io.rpos % block_size])
           n == j - i
           R == io.rpos
           W == io.wpos
<1>1. pos = (io.rpos + 1) % filesize
  BY DEF Forward
<1>2. /\ put \in [{1, 2} -> [0..block_size - 1 -> Cells]] /\ pos \in 0..filesize - 1 /\ seen \in Seq(Cells)
      /\ out = IF pos % block_size # 0 THEN [io EXCEPT !.got = seen, !.rpos = pos]
               ELSE IF Base(pos) = Base(io.wpos) THEN [io EXCEPT !.got = seen, !.rpos = pos, !.rbuf = io.wbuf]
               ELSE [io EXCEPT !.got = seen, !.rpos = pos, !.bufs = put]
  BY Read
<1>3. /\ R \in 0..filesize - 1 /\ W \in 0..filesize - 1 /\ io.start \in 0..filesize - 1
      /\ io.rbuf \in {1, 2} /\ io.wbuf \in {1, 2}
      /\ io.file \in [0..filesize - 1 -> Cells] /\ io.bufs \in [{1, 2} -> [0..block_size - 1 -> Cells]]
  BY DEF Moment
<1>4. /\ i \in Nat /\ j \in Nat /\ n \in Nat /\ n > 0 /\ n < filesize /\ j - (i + 1) = n - 1 /\ i + 1 \in Nat /\ i + 1 <= j
      /\ W = IF R + n < filesize THEN R + n ELSE R + n - filesize
      /\ OneBlock(io) \/ io.start = Base(W)
      /\ io.rbuf = io.wbuf <=> OneBlock(io)
      /\ Holds(io, u, i, j)
  BY DEF Ring
<1>5. put[io.rbuf] = [q \in 0..block_size - 1 |->
                        IF q < Sw!Lesser(block_size, filesize - pos) THEN io.file[pos + q] ELSE io.bufs[io.rbuf][q]]
      /\ (io.rbuf # io.wbuf => put[io.wbuf] = io.bufs[io.wbuf])
  BY <1>3 DEF WithFilled
<1> HIDE DEF pos, put
<1>6. ASSUME NEW q \in 0..filesize - 1
      PROVE  /\ q % block_size \in 0..block_size - 1 /\ Base(q) \in 0..q /\ q < Base(q) + block_size
             /\ q % block_size = q - Base(q)
  BY Offset
<1>7. /\ Base(R) \in 0..R /\ R < Base(R) + block_size
      /\ Base(W) \in 0..W /\ W < Base(W) + block_size
  BY <1>3, <1>6
<1>8. /\ pos = IF R + 1 = filesize THEN 0 ELSE R + 1
      /\ IF pos % block_size = 0 THEN Base(pos) = pos /\ (pos = 0 \/ R + 1 = Base(R) + block_size)
         ELSE Base(pos) = Base(R) /\ pos = R + 1
  <2> HIDE DEF R
  <2>1. R \in 0..filesize - 1 /\ pos = (R + 1) % filesize
    BY <1>1, <1>3 DEF R
  <2> QED BY <2>1, NextPosition
<1>9. /\ W = IF pos + (n - 1) < filesize THEN pos + (n - 1) ELSE pos + (n - 1) - filesize
      /\ R # W /\ (W < R => pos = 0 \/ W < pos)
  <2> HIDE DEF R, W, n
  <2> QED BY <1>3, <1>4, <1>8, RingSteps
<1>10. seen = Append(io.got, u[i + 1])
  <2>1. Index(io, R) = 0
    BY <1>3 DEF Index
  <2>2. At(io, R) = u[i + 1]
    BY <1>3, <1>4, <2>1 DEF Holds
  <2>3. At(io, R) = io.bufs[io.rbuf][io.rpos % block_size]
    BY <1>3 DEF At, InReader
  <2> QED BY <2>2, <2>3
<1> HIDE DEF seen
<1>11. ASSUME NEW q \in 0..filesize - 1,
              (IF pos <= q THEN q - pos ELSE q - pos + filesize) < n - 1
       PROVE  /\ q # R /\ At(io, q) = u[i + 1 + (IF pos <= q THEN q - pos ELSE q - pos + filesize) + 1]
              /\ (R <= q \/ q < W) /\ (R <= W => R <= q /\ q < W)
  <2> DEFINE x == Index(io, q)
             y == IF pos <= q THEN q - pos ELSE q - pos + filesize
  <2>1. x = IF R <= q THEN q - R ELSE q - R + filesize
    BY DEF Index
  <2>2. y < n - 1 /\ y = IF pos <= q THEN q - pos ELSE q - pos + filesize
    BY <1>11
  <2> HIDE DEF x, y, R, W, n
  <2>3. IF q = R THEN y = filesize - 1 ELSE y = x - 1
    BY <1>3, <1>8, <2>1, <2>2, InRingAfter
  <2>4. /\ x \in 0..filesize - 1
        /\ x < n <=> (R <= q \/ q < W) /\ (R <= W => R <= q /\ q < W)
    BY <1>3, <1>4, <2>1, InRing
  <2>5. q # R /\ y = x - 1 /\ x < n
    BY <1>4, <2>2, <2>3, <2>4
  <2>6. At(io, q) = u[i + x + 1]
    BY <1>4, <2>5 DEF Holds, x, n
  <2>7. i + x + 1 = i + 1 + y + 1
    BY <1>4, <2>4, <2>5
  <2> QED BY <2>4, <2>5, <2>6, <2>7 DEF y
<1>12. ASSUME out \in Moment, out.file = io.file, out.rpos = pos, out.wpos = W, out.wbuf = io.wbuf, out.start = io.start,
              out.rbuf = io.wbuf <=> OneBlock(out), OneBlock(out) \/ io.start = Base(W),
              ASSUME NEW q \in 0..filesize - 1, q # R, (R <= q \/ q < W) /\ (R <= W => R <= q /\ q < W)
              PROVE  At(out, q) = At(io, q)
       PROVE  Ring(out, u, i + 1, j)
  <2>1. ASSUME NEW q \in 0..filesize - 1, Index(out, q) < n - 1
        PROVE  At(out, q) = u[i + 1 + Index(out, q) + 1]
    <3>1. Index(out, q) = IF pos <= q THEN q - pos ELSE q - pos + filesize
      BY <1>12 DEF Index
    <3>2. /\ q # R /\ At(io, q) = u[i + 1 + Index(out, q) + 1]
          /\ (R <= q \/ q < W) /\ (R <= W => R <= q /\ q < W)
      BY <1>11, <2>1, <3>1
    <3> QED BY <1>12, <3>2
  <2>2. Holds(out, u, i + 1, j)
    BY <1>4, <2>1 DEF Holds
  <2> QED BY <1>4, <1>9, <1>12, <2>2 DEF Ring
<1>13. CASE pos % block_size # 0
  <2>1. /\ out \in Moment /\ out.file = io.file /\ out.bufs = io.bufs /\ out.rbuf = io.rbuf /\ out.wbuf = io.wbuf
        /\ out.start = io.start /\ out.rpos = pos /\ out.wpos = W /\ out.got = seen
    BY <1>2, <1>13 DEF Moment
  <2>2. Base(pos) = Base(R) /\ pos = R + 1
    BY <1>8, <1>13
  <2>3. OneBlock(out) <=> OneBlock(io)
    <3>1. R + 1 <= W <=> R <= W
      BY <1>3, <1>9
    <3> QED BY <2>1, <2>2, <3>1 DEF OneBlock
  <2>4. ASSUME NEW q \in 0..filesize - 1, q # R PROVE At(out, q) = At(io, q)
    <3>1. R + 1 <= q <=> R <= q
      BY <1>3, <2>4
    <3>2. InReader(out, q) <=> InReader(io, q)
      BY <2>1, <2>2, <3>1 DEF InReader
    <3> QED BY <2>1, <3>2 DEF At, InWriter
  <2>5. Ring(out, u, i + 1, j)
    BY <1>4, <1>12, <2>1, <2>3, <2>4
  <2> QED BY <1>10, <2>1, <2>5
<1>14. CASE pos % block_size = 0
  <2>1. Base(pos) = pos /\ (R + 1 = filesize \/ R + 1 = Base(R) + block_size)
    BY <1>3, <1>8, <1>14
  <2>2. ASSUME NEW q \in 0..filesize - 1, q # R PROVE ~InReader(io, q)
    <3> SUFFICES ASSUME Base(q) = Base(R), R < q PROVE FALSE
      BY <1>3, <2>2 DEF InReader
    <3>1. q < Base(R) + block_size
      BY <1>6
    <3> QED BY <1>3, <1>7, <2>1, <3>1, SwapFacts
  <2>3. pos \in Nat /\ \A q \in 0..filesize - 1 : Base(q) = pos => pos <= q
    BY <1>2, <1>6
  <2>4. CASE Base(pos) = Base(W)
    <3>1. /\ out \in Moment /\ out.file = io.file /\ out.bufs = io.bufs /\ out.rbuf = io.wbuf /\ out.wbuf = io.wbuf
          /\ out.start = io.start /\ out.rpos = pos /\ out.wpos = W /\ out.got = seen
      <4>1. out = [io EXCEPT !.got = seen, !.rpos = pos, !.rbuf = io.wbuf]
        BY <1>2, <1>14, <2>4
      <4>2. pos \in 0..filesize - 1 /\ seen \in Seq(Cells)
        BY <1>2
      <4> QED BY <4>1, <4>2 DEF Moment
    <3>2. OneBlock(out)
      BY <1>3, <2>1, <2>3, <2>4, <3>1 DEF OneBlock
    <3>3. ASSUME NEW q \in 0..filesize - 1, q # R, (R <= q \/ q < W) /\ (R <= W => R <= q /\ q < W)
          PROVE  At(out, q) = At(io, q)
      <4>1. InReader(out, q) <=> Base(q) = Base(W)
        BY <2>1, <2>3, <2>4, <3>1 DEF InReader
      <4>2. Base(q) = Base(W) => q < W
        <5> SUFFICES ASSUME Base(q) = Base(W), W <= q, W < R, R < q PROVE FALSE
          BY <1>3, <3>3
        <5>1. pos <= W
          BY <1>7, <2>1, <2>4
        <5>2. R + 1 = filesize
          BY <1>3, <1>8, <1>9, <2>3, <5>1
        <5> QED BY <1>3, <5>2
      <4>3. InWriter(io, q) <=> Base(q) = Base(W)
        BY <4>2 DEF InWriter
      <4>4. InWriter(out, q) <=> InWriter(io, q)
        BY <3>1 DEF InWriter
      <4> QED BY <2>2, <3>1, <3>3, <4>1, <4>3, <4>4 DEF At
    <3>4. Ring(out, u, i + 1, j)
      BY <1>12, <3>1, <3>2, <3>3
    <3> QED BY <1>10, <3>1, <3>4
  <2>5. CASE Base(pos) # Base(W)
    <3>1. /\ out \in Moment /\ out.file = io.file /\ out.bufs = put /\ out.rbuf = io.rbuf /\ out.wbuf = io.wbuf
          /\ out.start = io.start /\ out.rpos = pos /\ out.wpos = W /\ out.got = seen
      <4>1. out = [io EXCEPT !.got = seen, !.rpos = pos, !.bufs = put]
        BY <1>2, <1>14, <2>5
      <4>2. pos \in 0..filesize - 1 /\ seen \in Seq(Cells) /\ put \in [{1, 2} -> [0..block_size - 1 -> Cells]]
        BY <1>2
      <4> QED BY <4>1, <4>2 DEF Moment
    <3>2. io.rbuf # io.wbuf /\ io.start = Base(W)
      <4>1. ~OneBlock(io)
        BY <1>3, <1>9, <2>2 DEF InReader, OneBlock
      <4> QED BY <1>4, <4>1
    <3>3. ~OneBlock(out)
      BY <2>5, <3>1 DEF OneBlock
    <3>4. ASSUME NEW q \in 0..filesize - 1, q # R PROVE At(out, q) = At(io, q)
      <4>1. InReader(out, q) <=> Base(q) = pos
        BY <2>1, <2>3, <3>1 DEF InReader
      <4>2. InWriter(out, q) <=> InWriter(io, q)
        BY <3>1 DEF InWriter
      <4>3. CASE Base(q) = pos
        <5>1. ~InWriter(io, q)
          BY <2>1, <2>5, <4>3 DEF InWriter
        <5>2. q % block_size \in 0..block_size - 1 /\ q % block_size = q - pos
          BY <1>6, <4>3
        <5>3. q - pos < Sw!Lesser(block_size, filesize - pos) /\ pos + (q - pos) = q
          BY <2>3, <5>2, SwapFacts DEF Sw!Lesser
        <5>4. put[io.rbuf][q % block_size] = io.file[q]
          BY <1>5, <5>2, <5>3
        <5> QED BY <2>2, <3>1, <3>4, <4>1, <4>3, <5>1, <5>4 DEF At
      <4>4. CASE Base(q) # pos
        BY <1>5, <2>2, <3>1, <3>2, <3>4, <4>1, <4>2, <4>4 DEF At
      <4> QED BY <4>3, <4>4
    <3>5. Ring(out, u, i + 1, j)
      BY <1>12, <3>1, <3>2, <3>3, <3>4
    <3> QED BY <1>10, <3>1, <3>5
  <2> QED BY <2>4, <2>5
<1> QED BY <1>13, <1>14

\* A step taken m times from first.
IsRun(run, first, step, m) == run = [k \in 0..m |-> IF k = 0 THEN first ELSE step[<<run[k - 1], k>>]]

LEMMA Repeated ==
  ASSUME NEW S, NEW first \in S, NEW step \in [S \X Nat -> S], NEW m \in Nat
  PROVE  \E run : run \in [0..m -> S] /\ IsRun(run, first, step, m)
<1> DEFINE Is(run, n) == run \in [0..n -> S] /\ \A k \in 0..n : run[k] = IF k = 0 THEN first ELSE step[<<run[k - 1], k>>]
           Bad == {n \in Nat : ~\E run : Is(run, n)}
<1>1. ASSUME Bad # {} PROVE FALSE
  <2>1. PICK n \in Bad : \A b \in Bad : n <= b
    BY <1>1, LeastNatural
  <2>2. CASE n = 0
    <3>1. Is([k \in 0..0 |-> first], 0)
      OBVIOUS
    <3> QED BY <2>1, <2>2, <3>1
  <2>3. CASE n # 0
    <3>1. n \in Nat /\ n - 1 \in Nat
      BY <2>1, <2>3
    <3>2. n - 1 \notin Bad
      <4> HIDE DEF Bad
      <4> QED BY <2>1, <3>1
    <3>9. PICK run : Is(run, n - 1)
      BY <3>1, <3>2
    <3> DEFINE longer == [k \in 0..n |-> IF k = n THEN step[<<run[n - 1], n>>] ELSE run[k]]
    <3>3. run \in [0..n - 1 -> S] /\ \A k \in 0..n - 1 : run[k] = IF k = 0 THEN first ELSE step[<<run[k - 1], k>>]
      BY <3>9
    <3>4. step[<<run[n - 1], n>>] \in S
      BY <3>1, <3>3
    <3>5. longer \in [0..n -> S]
      BY <3>1, <3>3, <3>4
    <3>6. ASSUME NEW k \in 0..n PROVE longer[k] = IF k = 0 THEN first ELSE step[<<longer[k - 1], k>>]
      <4>1. CASE k = n
        <5>1. longer[k] = step[<<run[n - 1], n>>] /\ longer[k - 1] = run[n - 1]
          BY <4>1, <3>1
        <5> QED BY <5>1, <4>1, <2>3
      <4>2. CASE k # n
        <5>1. longer[k] = run[k] /\ (k # 0 => longer[k - 1] = run[k - 1]) /\ k \in 0..n - 1
          BY <4>2, <3>1
        <5>2. run[k] = IF k = 0 THEN first ELSE step[<<run[k - 1], k>>]
          BY <3>3, <5>1
        <5> HIDE DEF longer
        <5> QED BY <5>1, <5>2
      <4> QED BY <4>1, <4>2
    <3> HIDE DEF longer
    <3>7. Is(longer, n)
      BY <3>5, <3>6
    <3> QED BY <2>1, <3>7
  <2> QED BY <2>2, <2>3
<1>2. PICK run : Is(run, m)
  BY <1>1
<1>3. run = [k \in 0..m |-> run[k]] /\ run \in [0..m -> S]
  BY <1>2
<1>4. run = [k \in 0..m |-> IF k = 0 THEN first ELSE step[<<run[k - 1], k>>]]
  BY <1>2, <1>3
<1> QED BY <1>3, <1>4 DEF IsRun

LEMMA WriteStays ==
  ASSUME filesize \in Nat \ {0}, NEW io \in Moment, NEW unit \in Cells
  PROVE  Sw!WriteUnit(io, unit) \in Moment
<1> DEFINE pos == Forward(io.wpos)
           put == WithUnit(io, unit)
           block == WithBlock(io, put)
           side == IF io.wbuf = io.rbuf THEN 3 - io.rbuf ELSE io.wbuf
<1>1. /\ put \in [{1, 2} -> [0..block_size - 1 -> Cells]] /\ pos \in 0..filesize - 1
      /\ pos % block_size # 0 => Sw!WriteUnit(io, unit) = [io EXCEPT !.bufs = put, !.wpos = pos]
      /\ pos % block_size = 0 => Sw!WriteUnit(io, unit) =
           [io EXCEPT !.bufs = put, !.wpos = pos, !.start = pos, !.wbuf = side, !.file = block]
  BY Written
<1> HIDE DEF pos, put
<1>2. side \in {1, 2}
  BY DEF Moment
<1>3. block \in [0..filesize - 1 -> Cells]
  <2>1. /\ io.start \in 0..filesize - 1 /\ io.file \in [0..filesize - 1 -> Cells] /\ io.wbuf \in {1, 2}
    BY DEF Moment
  <2>2. put[io.wbuf] \in [0..block_size - 1 -> Cells]
    BY <1>1, <2>1
  <2>3. \A x \in 0..Sw!Lesser(block_size, filesize - io.start) - 1 : x \in 0..block_size - 1
    BY <2>1, SwapFacts DEF Sw!Lesser
  <2>4. ASSUME NEW q \in 0..filesize - 1
        PROVE  (IF q - io.start \in 0..Sw!Lesser(block_size, filesize - io.start) - 1
                  THEN put[io.wbuf][q - io.start] ELSE io.file[q]) \in Cells
    BY <2>1, <2>2, <2>3
  <2> QED BY <2>4 DEF WithBlock
<1> HIDE DEF side, block
<1> QED BY <1>1, <1>2, <1>3 DEF Moment

LEMMA ReadStays ==
  ASSUME filesize \in Nat \ {0}, NEW io \in Moment
  PROVE  Sw!ReadUnit(io) \in Moment
<1> DEFINE pos == Forward(io.rpos)
           put == WithFilled(io, pos)
           seen == Append(io.got, io.bufs[io.rbuf][io.rpos % block_size])
<1>1. /\ put \in [{1, 2} -> [0..block_size - 1 -> Cells]] /\ pos \in 0..filesize - 1 /\ seen \in Seq(Cells)
      /\ Sw!ReadUnit(io) = IF pos % block_size # 0 THEN [io EXCEPT !.got = seen, !.rpos = pos]
                           ELSE IF Base(pos) = Base(io.wpos) THEN [io EXCEPT !.got = seen, !.rpos = pos, !.rbuf = io.wbuf]
                           ELSE [io EXCEPT !.got = seen, !.rpos = pos, !.bufs = put]
  BY Read
<1> HIDE DEF pos, put, seen
<1> QED BY <1>1 DEF Moment

\* The units of m are number j + 1 and those that follow.
Follows(u, j, m) == \A k \in 1..m[1] + 1 : u[j + k] = <<m, k>>

LEMMA MessageUnits ==
  ASSUME NEW m \in Sw!Message
  PROVE  /\ m[1] \in Nat /\ \A k \in 1..m[1] + 1 : <<m, k>> \in Cells /\ <<m, k>> # Garbage /\ Sw!UnitsOf(m)[k] = <<m, k>>
<1>1. m[1] \in 0..MaxBody
  BY DEF Sw!Message
<1>2. ASSUME NEW k \in 1..m[1] + 1 PROVE <<m, k>> \in Sw!Unit
  BY <1>1 DEF Sw!Unit
<1>3. ASSUME NEW k \in 1..m[1] + 1 PROVE Sw!UnitsOf(m)[k] = <<m, k>>
  BY DEF Sw!UnitsOf
<1> QED BY <1>1, <1>2, <1>3, SwapFacts DEF Cells

LEMMA CopiedTo ==
  ASSUME filesize \in Nat \ {0}, Sw!IO \in Moment, NEW u, NEW i, NEW j, Ring(Sw!IO, u, i, j),
         NEW m \in Sw!Message, j + m[1] + 1 - i < filesize, Follows(u, j, m)
  PROVE  /\ Sw!CopyToFile(m) \in Moment /\ Ring(Sw!CopyToFile(m), u, i, j + m[1] + 1)
         /\ Sw!CopyToFile(m).rpos = read_pos
<1> DEFINE n == m[1] + 1
           units == Sw!UnitsOf(m)
           Is(run) == run = [k \in 0..n |-> IF k = 0 THEN Sw!IO ELSE Sw!WriteUnit(run[k - 1], units[k])]
<1>1. n \in Nat /\ \A k \in 1..n : units[k] \in Cells /\ units[k] = u[j + k]
  <2>1. m[1] \in Nat /\ \A k \in 1..m[1] + 1 : <<m, k>> \in Cells /\ units[k] = <<m, k>>
    BY MessageUnits
  <2>2. \A k \in 1..m[1] + 1 : u[j + k] = <<m, k>>
    BY DEF Follows
  <2>3. n \in Nat
    BY <2>1
  <2>4. ASSUME NEW k \in 1..n PROVE units[k] \in Cells /\ units[k] = u[j + k]
    BY <2>1, <2>2
  <2> HIDE DEF units, n
  <2> QED BY <2>3, <2>4
<1>2. i \in Nat /\ j \in Nat /\ j + n = j + m[1] + 1 /\ j + n - i < filesize
  <2>1. i \in Nat /\ j \in Nat
    BY DEF Ring
  <2>2. m[1] \in Nat
    BY MessageUnits
  <2> QED BY <2>1, <2>2
<1>3. \E run : Is(run)
  <2> DEFINE step == [x \in Moment \X Nat |-> IF x[2] \in 1..n THEN Sw!WriteUnit(x[1], units[x[2]]) ELSE x[1]]
  <2>1. \A io \in Moment : \A k \in 1..n : Sw!WriteUnit(io, units[k]) \in Moment
    BY <1>1, WriteStays
  <2>2. step \in [Moment \X Nat -> Moment]
    BY <2>1
  <2>3. PICK run : run \in [0..n -> Moment] /\ IsRun(run, Sw!IO, step, n)
    <3> DEFINE first == Sw!IO
    <3>1. first \in Moment /\ n \in Nat
      BY <1>1
    <3> HIDE DEF step, first, n
    <3>2. step \in [Moment \X Nat -> Moment]
      BY <2>2
    <3>3. \E run : run \in [0..n -> Moment] /\ IsRun(run, first, step, n)
      BY <3>1, <3>2, Repeated
    <3> QED BY <3>3 DEF first
  <2>4. ASSUME NEW k \in 1..n PROVE step[<<run[k - 1], k>>] = Sw!WriteUnit(run[k - 1], units[k])
    <3>1. run \in [0..n -> Moment] /\ k - 1 \in 0..n /\ k \in Nat
      BY <1>1, <2>3
    <3>2. run[k - 1] \in Moment
      BY <3>1
    <3> QED BY <3>1, <3>2
  <2> HIDE DEF step
  <2> HIDE DEF units
  <2>5. ASSUME NEW k \in 0..n PROVE run[k] = IF k = 0 THEN Sw!IO ELSE Sw!WriteUnit(run[k - 1], units[k])
    <3>1. run[k] = IF k = 0 THEN Sw!IO ELSE step[<<run[k - 1], k>>]
      BY <2>3 DEF IsRun
    <3>2. k # 0 => k \in 1..n
      BY <1>1
    <3> QED BY <2>4, <3>1, <3>2
  <2>6. run = [k \in 0..n |-> run[k]]
    BY <2>3
  <2>7. Is(run)
    BY <2>5, <2>6
  <2> QED BY <2>7
<1>4. \E run : Is(run) /\ Sw!CopyToFile(m) = run[n]
  BY <1>3, Zenon DEF Sw!CopyToFile
<1>5. PICK run : Is(run) /\ Sw!CopyToFile(m) = run[n]
  BY <1>4
<1> DEFINE Good(k) == run[k] \in Moment /\ Ring(run[k], u, i, j + k) /\ run[k].rpos = read_pos
           Bad == {k \in 0..n : ~Good(k)}
<1>6. run[0] = Sw!IO /\ \A k \in 1..n : run[k] = Sw!WriteUnit(run[k - 1], units[k])
  BY <1>1, <1>5
<1> HIDE DEF units, n
<1>7. Good(0)
  <2>1. Sw!IO.rpos = read_pos
    BY DEF Sw!IO
  <2> QED BY <1>2, <1>6, <2>1
<1>8. ASSUME NEW k \in 1..n, Good(k - 1) PROVE Good(k)
  <2>1. run[k] = Sw!WriteUnit(run[k - 1], u[j + (k - 1) + 1]) /\ u[j + (k - 1) + 1] \in Cells
    BY <1>1, <1>2, <1>6
  <2>2. j + (k - 1) + 1 - i < filesize /\ j + (k - 1) + 1 = j + k
    BY <1>1, <1>2
  <2> DEFINE before == run[k - 1]
             out == run[k]
  <2> HIDE DEF before, out
  <2>3. before \in Moment /\ Ring(before, u, i, j + (k - 1)) /\ out = Sw!WriteUnit(before, u[j + (k - 1) + 1])
    BY <1>8, <2>1 DEF before, out
  <2>5. before.rpos = read_pos
    BY <1>8 DEF before
  <2>4. out \in Moment /\ Ring(out, u, i, j + (k - 1) + 1) /\ out.rpos = read_pos
    BY <2>1, <2>2, <2>3, <2>5, WrittenKept
  <2> QED BY <2>2, <2>4 DEF out
<1> HIDE DEF Good
<1>9. Bad = {}
  <2> SUFFICES ASSUME Bad # {} PROVE FALSE
    OBVIOUS
  <2>1. Bad \in SUBSET Nat
    BY <1>1
  <2>2. PICK k \in Bad : \A b \in Bad : k <= b
    BY <2>1, LeastNatural
  <2>3. k \in 1..n /\ k - 1 \notin Bad /\ k - 1 \in 0..n
    BY <1>1, <1>7, <2>2
  <2> QED BY <1>8, <2>2, <2>3
<1>10. Good(n)
  BY <1>1, <1>9
<1> QED BY <1>2, <1>5, <1>10 DEF Good

Units(m, n) == [k \in 1..n |-> <<m, k>>]

LEMMA OneUnitMore ==
  ASSUME NEW m, NEW n \in Nat
  PROVE  Append(Units(m, n), <<m, n + 1>>) = Units(m, n + 1)
<1> DEFINE longer == Append(Units(m, n), <<m, n + 1>>)
<1>1. Units(m, n) \in Seq({<<m, k>> : k \in 1..n + 1}) /\ Len(Units(m, n)) = n /\ <<m, n + 1>> \in {<<m, k>> : k \in 1..n + 1}
  BY DEF Units
<1>2. Units(m, n + 1) \in Seq({<<m, k>> : k \in 1..n + 1}) /\ Len(Units(m, n + 1)) = n + 1
  BY DEF Units
<1>3. /\ longer \in Seq({<<m, k>> : k \in 1..n + 1}) /\ Len(longer) = n + 1
      /\ \A k \in 1..n : longer[k] = Units(m, n)[k]
      /\ longer[n + 1] = <<m, n + 1>>
  BY <1>1, AppendProperties
<1>4. ASSUME NEW k \in 1..n + 1 PROVE longer[k] = Units(m, n + 1)[k]
  <2>1. k \in 1..n => Units(m, n)[k] = <<m, k>>
    BY DEF Units
  <2>2. Units(m, n + 1)[k] = <<m, k>>
    BY DEF Units
  <2> HIDE DEF longer
  <2>3. k \in 1..n \/ k = n + 1
    OBVIOUS
  <2> QED BY <1>3, <2>1, <2>2, <2>3
<1> HIDE DEF longer
<1> QED BY <1>2, <1>3, <1>4, SeqEqual DEF longer

LEMMA CopiedFrom ==
  ASSUME filesize \in Nat \ {0}, Sw!IO \in Moment, NEW u, NEW i, NEW j, Ring(Sw!IO, u, i, j),
         NEW m \in Sw!Message, i + m[1] + 1 <= j, Follows(u, i, m)
  PROVE  /\ Sw!CopyFromFile \in Moment /\ Ring(Sw!CopyFromFile, u, i + m[1] + 1, j)
         /\ Sw!CopyFromFile.got = Sw!UnitsOf(m) /\ Sw!CopyFromFile.wpos = write_pos
<1> DEFINE n == m[1]
           head == Sw!ReadUnit(Sw!IO)
           size == IF Sw!IsHead(head.got[1]) THEN head.got[1][1][1] ELSE 0
           Is(run) == run = [k \in 0..n |-> IF k = 0 THEN head ELSE Sw!ReadUnit(run[k - 1])]
<1>1. n \in Nat /\ \A k \in 1..n + 1 : <<m, k>> \in Cells /\ <<m, k>> # Garbage
  BY MessageUnits
<1>2. i \in Nat /\ j \in Nat /\ i + n + 1 = i + m[1] + 1 /\ i + n + 1 <= j /\ i < j
  <2>1. i \in Nat /\ j \in Nat
    BY DEF Ring
  <2>2. m[1] \in Nat
    BY MessageUnits
  <2> QED BY <2>1, <2>2
<1>3. \A k \in 1..n + 1 : u[i + k] = <<m, k>>
  BY DEF Follows
<1> HIDE DEF n, head
<1>4. head \in Moment /\ head.got = Append(<<>>, u[i + 1]) /\ Ring(head, u, i + 1, j) /\ head.wpos = write_pos
  <2> DEFINE first == Sw!IO
  <2>1. first \in Moment /\ first.got = <<>> /\ first.wpos = write_pos /\ Ring(first, u, i, j) /\ head = Sw!ReadUnit(first)
    BY DEF Sw!IO, head
  <2> HIDE DEF first
  <2>2. head \in Moment /\ head.got = Append(first.got, u[i + 1]) /\ Ring(head, u, i + 1, j) /\ head.wpos = first.wpos
    BY <1>2, <2>1, ReadKept
  <2> QED BY <2>1, <2>2
<1>5. head.got = Units(m, 1) /\ head.got[1] = <<m, 1>>
  <2>1. u[i + 1] = <<m, 1>>
    BY <1>1, <1>3
  <2>2. Units(m, 0) = <<>>
    BY DEF Units
  <2>3. Append(Units(m, 0), <<m, 0 + 1>>) = Units(m, 0 + 1)
    BY OneUnitMore
  <2>4. Units(m, 1)[1] = <<m, 1>>
    BY DEF Units
  <2>5. Units(m, 0 + 1) = Units(m, 1) /\ <<m, 0 + 1>> = <<m, 1>>
    OBVIOUS
  <2>6. head.got = Append(<<>>, <<m, 1>>)
    BY <1>4, <2>1
  <2>7. head.got = Units(m, 1)
    BY <2>2, <2>3, <2>5, <2>6
  <2> QED BY <2>4, <2>7
<1>6. size = n
  <2>1. <<m, 1>> # Garbage /\ <<m, 1>>[2] = 1 /\ <<m, 1>>[1] = m
    BY <1>1
  <2>2. Sw!IsHead(head.got[1]) /\ head.got[1][1] = m
    BY <1>5, <2>1 DEF Sw!IsHead
  <2> QED BY <2>2 DEF n
<1>7. \E run : Is(run)
  <2> DEFINE step == [x \in Moment \X Nat |-> Sw!ReadUnit(x[1])]
  <2>1. step \in [Moment \X Nat -> Moment]
    BY ReadStays
  <2>2. PICK run : run \in [0..n -> Moment] /\ IsRun(run, head, step, n)
    <3> HIDE DEF step
    <3> QED BY <1>1, <1>4, <2>1, Repeated
  <2>3. ASSUME NEW k \in 0..n PROVE run[k] = IF k = 0 THEN head ELSE Sw!ReadUnit(run[k - 1])
    <3>1. run[k] = IF k = 0 THEN head ELSE step[<<run[k - 1], k>>]
      BY <2>2 DEF IsRun
    <3>2. k # 0 => run[k - 1] \in Moment
      BY <1>1, <2>2
    <3>3. k # 0 => step[<<run[k - 1], k>>] = Sw!ReadUnit(run[k - 1])
      BY <3>2
    <3> HIDE DEF step
    <3> QED BY <3>1, <3>3
  <2>4. run = [k \in 0..n |-> run[k]]
    BY <2>2
  <2>5. Is(run)
    BY <2>3, <2>4
  <2> QED BY <2>5
<1>8. \E run : Is(run) /\ Sw!CopyFromFile = run[n]
  <2>1. \E run : run = [k \in 0..size |-> IF k = 0 THEN head ELSE Sw!ReadUnit(run[k - 1])]
    BY <1>6, <1>7
  <2>2. \E run : run = [k \in 0..size |-> IF k = 0 THEN head ELSE Sw!ReadUnit(run[k - 1])] /\ Sw!CopyFromFile = run[size]
    BY <2>1, Zenon DEF Sw!CopyFromFile, head
  <2> HIDE DEF size
  <2> QED BY <1>6, <2>2
<1>9. PICK run : Is(run) /\ Sw!CopyFromFile = run[n]
  BY <1>8
<1> DEFINE Good(k) == run[k] \in Moment /\ Ring(run[k], u, i + 1 + k, j) /\ run[k].got = Units(m, k + 1) /\ run[k].wpos = write_pos
           Bad == {k \in 0..n : ~Good(k)}
<1>10. run[0] = head /\ \A k \in 1..n : run[k] = Sw!ReadUnit(run[k - 1])
  BY <1>1, <1>9
<1>11. Good(0)
  BY <1>2, <1>4, <1>5, <1>10
<1>12. ASSUME NEW k \in 1..n, Good(k - 1) PROVE Good(k)
  <2> DEFINE before == run[k - 1]
             out == run[k]
             at == i + k
  <2>1. at \in Nat /\ at < j /\ at = i + 1 + (k - 1) /\ at + 1 = i + 1 + k /\ k - 1 + 1 = k /\ k \in Nat
    BY <1>1, <1>2
  <2>2. u[at + 1] = <<m, k + 1>>
    <3>1. k + 1 \in 1..n + 1 /\ at + 1 = i + (k + 1)
      BY <1>1, <1>2
    <3> HIDE DEF at
    <3> QED BY <1>3, <3>1
  <2>3. before \in Moment /\ Ring(before, u, at, j) /\ before.got = Units(m, k) /\ before.wpos = write_pos /\ out = Sw!ReadUnit(before)
    BY <1>10, <1>12, <2>1
  <2> HIDE DEF before, out, at
  <2>4. out \in Moment /\ out.got = Append(before.got, u[at + 1]) /\ Ring(out, u, at + 1, j) /\ out.wpos = before.wpos
    BY <2>1, <2>3, ReadKept
  <2>5. out.got = Units(m, k + 1)
    BY <2>1, <2>2, <2>3, <2>4, OneUnitMore
  <2> QED BY <2>1, <2>3, <2>4, <2>5 DEF out
<1> HIDE DEF Good
<1>13. Bad = {}
  <2> SUFFICES ASSUME Bad # {} PROVE FALSE
    OBVIOUS
  <2>1. Bad \in SUBSET Nat
    BY <1>1
  <2>2. PICK k \in Bad : \A b \in Bad : k <= b
    BY <2>1, LeastNatural
  <2>3. k \in 1..n /\ k - 1 \notin Bad /\ k - 1 \in 0..n
    BY <1>1, <1>11, <2>2
  <2> QED BY <1>12, <2>2, <2>3
<1>14. Good(n)
  BY <1>1, <1>13
<1>15. Units(m, n + 1) = Sw!UnitsOf(m) /\ i + 1 + n = i + m[1] + 1
  BY <1>1, <1>2 DEF Units, Sw!UnitsOf, n
<1> QED BY <1>9, <1>14, <1>15 DEF Good

(***************************************************************************)
(* The messages in the swap: e[k] is the number of the last unit of the    *)
(* k-th of them, e[0] that of the last unit read.                          *)
(***************************************************************************)
Lasts(s, e) ==
  /\ \A k \in 0..Len(s) : e[k] \in Nat
  /\ \A k \in 0..Len(s) - 1 : e[k + 1] = e[k] + s[k + 1][1] + 1
Flow(s, u, e) == Lasts(s, e) /\ \A k \in 0..Len(s) - 1 : Follows(u, e[k], s[k + 1])

LEMMA SizeIs ==
  ASSUME NEW s \in Seq(Sw!Message), NEW e, Lasts(s, e)
  PROVE  Sw!Size(s) = e[Len(s)] - e[0]
<1> DEFINE Is(sum) == sum = [k \in 0..Len(s) |-> IF k = 0 THEN 0 ELSE sum[k - 1] + s[k][1] + 1]
           n == Len(s)
<1>1. n \in Nat
  BY LenProperties
<1>2. ASSUME NEW k \in 1..n PROVE s[k][1] \in Nat /\ e[k] = e[k - 1] + s[k][1] + 1 /\ e[k - 1] \in Nat
  <2>1. s[k] \in Sw!Message
    BY <1>1, ElementOfSeq
  <2>2. s[k][1] \in Nat
    BY <2>1, MessageUnits
  <2>3. k - 1 \in 0..n - 1 /\ (k - 1) + 1 = k /\ k - 1 \in 0..n
    BY <1>1
  <2>4. e[(k - 1) + 1] = e[k - 1] + s[(k - 1) + 1][1] + 1 /\ e[k - 1] \in Nat
    BY <2>3 DEF Lasts
  <2> QED BY <2>2, <2>3, <2>4
<1>3. e[0] \in Nat
  BY <1>1 DEF Lasts
<1>4. \E sum : Is(sum)
  <2> DEFINE sum == [k \in 0..n |-> e[k] - e[0]]
  <2>1. ASSUME NEW k \in 0..n PROVE sum[k] = IF k = 0 THEN 0 ELSE sum[k - 1] + s[k][1] + 1
    <3>1. CASE k = 0
      BY <1>3, <3>1
    <3>2. CASE k # 0
      <4>1. k \in 1..n
        BY <1>1, <3>2
      <4>2. sum[k] = e[k] - e[0] /\ sum[k - 1] = e[k - 1] - e[0]
        BY <1>1, <4>1
      <4>3. s[k][1] \in Nat /\ e[k] = e[k - 1] + s[k][1] + 1 /\ e[k - 1] \in Nat
        BY <1>2, <4>1
      <4> HIDE DEF sum
      <4> QED BY <1>3, <3>2, <4>2, <4>3
    <3> QED BY <3>1, <3>2
  <2>2. sum = [k \in 0..n |-> sum[k]]
    OBVIOUS
  <2> HIDE DEF sum
  <2>3. Is(sum)
    BY <2>1, <2>2
  <2> QED BY <2>3
<1>5. \E sum : Is(sum) /\ Sw!Size(s) = sum[Len(s)]
  BY <1>4, Zenon DEF Sw!Size
<1>6. PICK sum : Is(sum) /\ Sw!Size(s) = sum[n]
  BY <1>5
<1>7. sum[0] = 0 /\ \A k \in 1..n : sum[k] = sum[k - 1] + s[k][1] + 1
  BY <1>1, <1>6
<1> DEFINE Bad == {k \in 0..n : sum[k] # e[k] - e[0]}
<1>8. Bad = {}
  <2> SUFFICES ASSUME Bad # {} PROVE FALSE
    OBVIOUS
  <2>1. Bad \in SUBSET Nat
    BY <1>1
  <2>2. PICK k \in Bad : \A b \in Bad : k <= b
    BY <2>1, LeastNatural
  <2>3. k # 0
    BY <1>3, <1>7, <2>2
  <2>4. k \in 1..n /\ k - 1 \notin Bad /\ k - 1 \in 0..n
    BY <1>1, <2>2, <2>3
  <2>5. sum[k - 1] = e[k - 1] - e[0]
    BY <2>4
  <2>6. sum[k] = sum[k - 1] + s[k][1] + 1
    BY <1>7, <2>4
  <2>7. s[k][1] \in Nat /\ e[k] = e[k - 1] + s[k][1] + 1 /\ e[k - 1] \in Nat
    BY <1>2, <2>4
  <2>8. sum[k] # e[k] - e[0]
    BY <2>2
  <2> HIDE DEF Bad, n
  <2> QED BY <1>3, <2>5, <2>6, <2>7, <2>8
<1> QED BY <1>1, <1>6, <1>8

LEMMA LastsGrow ==
  ASSUME NEW s \in Seq(Sw!Message), NEW e, Lasts(s, e)
  PROVE  /\ \A k \in 0..Len(s) : e[k] \in Nat /\ e[k] <= e[Len(s)] /\ (k # Len(s) => e[k] < e[Len(s)])
<1> DEFINE n == Len(s)
           Bad == {d \in 1..n : ~(e[n - d] < e[n])}
<1>1. n \in Nat /\ \A k \in 0..n : e[k] \in Nat
  BY LenProperties DEF Lasts
<1>2. ASSUME NEW k \in 0..n - 1 PROVE e[k] < e[k + 1]
  <2>1. k + 1 \in 1..n
    BY <1>1
  <2>2. s[k + 1] \in Sw!Message
    BY <2>1, ElementOfSeq
  <2>3. s[k + 1][1] \in Nat
    BY <2>2, MessageUnits
  <2>4. e[k + 1] = e[k] + s[k + 1][1] + 1 /\ e[k] \in Nat
    BY <1>1 DEF Lasts
  <2> QED BY <2>3, <2>4
<1>3. Bad = {}
  <2> SUFFICES ASSUME Bad # {} PROVE FALSE
    OBVIOUS
  <2>1. Bad \in SUBSET Nat
    BY <1>1
  <2>2. PICK d \in Bad : \A b \in Bad : d <= b
    BY <2>1, LeastNatural
  <2>3. d \in 1..n /\ n - d \in 0..n - 1 /\ (n - d) + 1 = n - (d - 1) /\ n - (d - 1) \in 0..n
    BY <1>1, <2>2
  <2>4. e[n - d] < e[n - (d - 1)]
    BY <1>2, <2>3
  <2>5. d - 1 = 0 \/ e[n - (d - 1)] < e[n]
    BY <2>2, <2>3
  <2>6. e[n - (d - 1)] <= e[n]
    BY <1>1, <2>3, <2>5
  <2>7. e[n - d] \in Nat /\ e[n - (d - 1)] \in Nat /\ e[n] \in Nat
    BY <1>1, <2>3
  <2>8. ~(e[n - d] < e[n])
    BY <2>2
  <2> HIDE DEF n, Bad
  <2> QED BY <2>4, <2>6, <2>7, <2>8
<1>4. ASSUME NEW k \in 0..n, k # n PROVE e[k] < e[n]
  <2>1. n - k \in 1..n /\ n - (n - k) = k
    BY <1>1, <1>4
  <2> QED BY <1>3, <2>1
<1> QED BY <1>1, <1>4

LEMMA LastsOfFront ==
  ASSUME NEW s \in Seq(Sw!Message), NEW e, Lasts(s, e), NEW k \in 0..Len(s),
         NEW front, Len(front) = k, \A x \in 1..k : front[x] = s[x]
  PROVE  Lasts(front, e)
<1>1. /\ Len(s) \in Nat /\ k \in Nat /\ k <= Len(s) /\ \A j \in 0..Len(s) : e[j] \in Nat
      /\ \A j \in 0..Len(s) - 1 : e[j + 1] = e[j] + s[j + 1][1] + 1
  BY LenProperties DEF Lasts
<1>2. \A j \in 0..k : e[j] \in Nat
  BY <1>1
<1>3. ASSUME NEW j \in 0..k - 1 PROVE e[j + 1] = e[j] + front[j + 1][1] + 1
  <2>1. j \in 0..Len(s) - 1 /\ j + 1 \in 1..k
    BY <1>1
  <2>2. front[j + 1] = s[j + 1] /\ e[j + 1] = e[j] + s[j + 1][1] + 1
    BY <1>1, <2>1
  <2> QED BY <2>2
<1> QED BY <1>2, <1>3 DEF Lasts

LEMMA LastsRise ==
  ASSUME NEW s \in Seq(Sw!Message), NEW e, Lasts(s, e), NEW k \in 1..Len(s)
  PROVE  e[1] <= e[k]
<1> DEFINE front == SubSeq(s, 1, k)
<1>1. Len(s) \in Nat
  BY LenProperties
<1>2. front \in Seq(Sw!Message) /\ Len(front) = k /\ \A x \in 1..k : front[x] = s[x]
  BY <1>1, SubSeqProperties
<1> HIDE DEF front
<1>3. Lasts(front, e)
  BY <1>1, <1>2, LastsOfFront
<1>4. 1 \in 0..Len(front)
  BY <1>2
<1> QED BY <1>2, <1>3, <1>4, LastsGrow

\* The position that many units after the reader's.
Place(size, R, d) == IF R + d < size THEN R + d ELSE R + d - size

\* Until a rollback goes astray, commit_pos is behind the last unit that was committed.
SwapTyped ==
  /\ filesize \in FileSizes /\ Sw!IO \in Moment /\ stored \in Seq(Sw!Message)
  /\ swap_aborted = FALSE /\ in_order = TRUE /\ settled \in -1..Len(stored)
SwapFilled ==
  \E u, e : /\ Flow(stored, u, e) /\ Ring(Sw!IO, u, e[0], e[Len(stored)])
            /\ settled >= 0 => commit_pos = Place(filesize, read_pos, e[settled] - e[0])
SwapHolds == SwapTyped /\ SwapFilled
SwapInv == astray \/ SwapHolds

\* The input and output as a copy leaves it.
LEMMA Becoming ==
  ASSUME NEW io \in Moment, Sw!Becomes(io), filesize' = filesize
  PROVE  /\ Sw!IO' \in Moment' /\ write_pos' = io.wpos /\ read_pos' = io.rpos
         /\ \A u, i, j : Ring(io, u, i, j) => Ring(Sw!IO, u, i, j)'
<1>1. /\ swap_file' = io.file /\ bufs' = io.bufs /\ read_buf' = io.rbuf /\ write_buf' = io.wbuf
      /\ write_buf_start_addr' = io.start /\ read_pos' = io.rpos /\ write_pos' = io.wpos
  BY DEF Sw!Becomes
<1>2. Sw!IO' = [file |-> io.file, bufs |-> io.bufs, rbuf |-> io.rbuf, wbuf |-> io.wbuf,
                start |-> io.start, rpos |-> io.rpos, wpos |-> io.wpos, got |-> <<>>]
  BY <1>1 DEF Sw!IO
<1>3. <<>> \in Seq(Cells)
  OBVIOUS
<1>4. Sw!IO' \in Moment'
  BY <1>2, <1>3 DEF Moment, Cells
<1> DEFINE out == Sw!IO'
<1>5. /\ out.file = io.file /\ out.bufs = io.bufs /\ out.rbuf = io.rbuf /\ out.wbuf = io.wbuf
      /\ out.start = io.start /\ out.rpos = io.rpos /\ out.wpos = io.wpos
  BY <1>2
<1>6. ASSUME NEW u, NEW i, NEW j, Ring(io, u, i, j) PROVE Ring(Sw!IO, u, i, j)'
  <2> HIDE DEF out
  <2>1. Holds(io, u, i, j)
    BY <1>6 DEF Ring
  <2>2. Holds(out, u, i, j)
    BY <1>5, <2>1 DEF Holds, Index, At, InReader, InWriter
  <2>3. Ring(out, u, i, j)
    BY <1>5, <1>6, <2>2 DEF Ring, OneBlock
  <2> QED BY <2>3 DEF out, Ring, Holds, Index, At, InReader, InWriter, OneBlock, Base
<1> QED BY <1>1, <1>4, <1>6

\* The space that buffer_space finds.
LEMMA SpaceIs ==
  ASSUME NEW u, NEW i, NEW j, Sw!IO \in Moment, Ring(Sw!IO, u, i, j), filesize \in Nat \ {0}
  PROVE  Sw!buffer_space = filesize - (j - i) /\ (read_pos = write_pos <=> i = j) /\ j - i < filesize
         /\ read_pos \in 0..filesize - 1 /\ write_pos \in 0..filesize - 1 /\ i \in Nat /\ j \in Nat /\ i <= j
<1>1. Sw!IO.rpos = read_pos /\ Sw!IO.wpos = write_pos
  BY DEF Sw!IO
<1>2. read_pos \in 0..filesize - 1 /\ write_pos \in 0..filesize - 1
  BY <1>1 DEF Moment
<1>3. /\ i \in Nat /\ j \in Nat /\ i <= j /\ j - i < filesize
      /\ write_pos = IF read_pos + (j - i) < filesize THEN read_pos + (j - i) ELSE read_pos + (j - i) - filesize
  BY <1>1 DEF Ring
<1> QED BY <1>2, <1>3 DEF Sw!buffer_space

LEMMA SwapSize == ASSUME filesize \in FileSizes PROVE filesize \in Nat \ {0}
BY SwapFacts

LEMMA StoreStep ==
  ASSUME SwapHolds, NEW m \in Sw!Message, Sw!Store(m)
  PROVE  SwapHolds'
<1>1. PICK u, e : /\ Flow(stored, u, e) /\ Ring(Sw!IO, u, e[0], e[Len(stored)])
                  /\ settled >= 0 => commit_pos = Place(filesize, read_pos, e[settled] - e[0])
  BY DEF SwapHolds, SwapTyped, SwapFilled
<1> DEFINE n == Len(stored)
           i == e[0]
           j == e[n]
           size == m[1] + 1
           units == [k \in Nat |-> IF k <= j THEN u[k] ELSE <<m, k - j>>]
           lasts == [k \in 0..n + 1 |-> IF k = n + 1 THEN j + size ELSE e[k]]
           longer == Append(stored, m)
<1>2. /\ filesize \in FileSizes /\ filesize \in Nat \ {0} /\ Sw!IO \in Moment /\ stored \in Seq(Sw!Message)
      /\ settled \in -1..n /\ filesize' = filesize /\ stored' = longer
      /\ swap_aborted' = FALSE /\ in_order' = TRUE /\ Sw!Becomes(Sw!CopyToFile(m)) /\ Sw!Fits(m)
      /\ \/ commit_pos' = commit_pos /\ settled' = settled
         \/ commit_pos' = write_pos' /\ settled' = Len(stored')
  BY SwapSize DEF SwapHolds, SwapTyped, SwapFilled, Sw!Store
<1>3. /\ n \in Nat /\ longer \in Seq(Sw!Message) /\ Len(longer) = n + 1
      /\ \A k \in 1..n : longer[k] = stored[k]
      /\ longer[n + 1] = m
  BY <1>2, LenProperties, AppendProperties
<1>4. /\ Lasts(stored, e) /\ \A k \in 0..n - 1 : Follows(u, e[k], stored[k + 1])
      /\ \A k \in 0..n : e[k] \in Nat /\ e[k] <= j
      /\ \A k \in 0..n - 1 : e[k + 1] = e[k] + stored[k + 1][1] + 1 /\ e[k + 1] <= j
  <2>1. Lasts(stored, e) /\ \A k \in 0..n - 1 : Follows(u, e[k], stored[k + 1])
    BY <1>1 DEF Flow
  <2>2. \A k \in 0..n : e[k] \in Nat /\ e[k] <= j
    BY <1>2, <2>1, LastsGrow
  <2>3. \A k \in 0..n - 1 : e[k + 1] = e[k] + stored[k + 1][1] + 1
    BY <2>1 DEF Lasts
  <2>4. \A k \in 0..n - 1 : k + 1 \in 0..n
    BY <1>3
  <2> QED BY <2>1, <2>2, <2>3, <2>4
<1>5. size \in Nat /\ size = m[1] + 1
  BY MessageUnits
<1>6. /\ i \in Nat /\ j \in Nat /\ i <= j /\ j - i < filesize /\ j + size - i < filesize
  <2>1. Sw!buffer_space = filesize - (j - i) /\ i \in Nat /\ j \in Nat /\ i <= j /\ j - i < filesize
    BY <1>1, <1>2, SpaceIs
  <2>2. Sw!buffer_space > size
    BY <1>2 DEF Sw!Fits
  <2> HIDE DEF i, j, size
  <2> QED BY <1>2, <1>5, <2>1, <2>2
<1>7. /\ \A k \in Nat : k <= j => units[k] = u[k]
      /\ \A k \in 1..size : units[j + k] = <<m, k>>
  <2> HIDE DEF size
  <2>1. ASSUME NEW k \in 1..size PROVE units[j + k] = <<m, k>>
    <3>1. j + k \in Nat /\ ~(j + k <= j) /\ (j + k) - j = k
      BY <1>5, <1>6
    <3> HIDE DEF j
    <3> QED BY <3>1
  <2> QED BY <2>1
<1>8. /\ \A k \in 0..n : lasts[k] = e[k]
      /\ lasts[n + 1] = j + size
  BY <1>3
<1> HIDE DEF units, lasts
<1>9. Lasts(longer, lasts)
  <2>1. ASSUME NEW k \in 0..n + 1 PROVE lasts[k] \in Nat
    <3>1. k \in 0..n \/ k = n + 1
      BY <1>3
    <3> QED BY <1>4, <1>5, <1>6, <1>8, <3>1
  <2>2. ASSUME NEW k \in 0..n PROVE lasts[k + 1] = lasts[k] + longer[k + 1][1] + 1
    <3>1. CASE k = n
      <4>1. lasts[k + 1] = j + size /\ lasts[k] = j /\ longer[k + 1][1] = m[1]
        BY <1>3, <1>8, <3>1
      <4>2. m[1] \in Nat
        BY MessageUnits
      <4> HIDE DEF j, longer
      <4> QED BY <1>5, <1>6, <4>1, <4>2
    <3>2. CASE k # n
      <4>1. k \in 0..n - 1 /\ k + 1 \in 1..n /\ k + 1 \in 0..n
        BY <1>3, <3>2
      <4>2. lasts[k + 1] = e[k + 1] /\ lasts[k] = e[k] /\ longer[k + 1] = stored[k + 1]
        BY <1>3, <1>8, <4>1
      <4>3. e[k + 1] = e[k] + stored[k + 1][1] + 1
        BY <1>4, <4>1
      <4> HIDE DEF longer
      <4> QED BY <4>2, <4>3
    <3> QED BY <3>1, <3>2
  <2>3. n + 1 - 1 = n
    BY <1>3
  <2> QED BY <1>3, <2>1, <2>2, <2>3 DEF Lasts
<1>10. ASSUME NEW k \in 0..n PROVE Follows(units, lasts[k], longer[k + 1])
  <2>1. CASE k = n
    <3>1. lasts[k] = j /\ longer[k + 1] = m
      BY <1>3, <1>8, <2>1
    <3> QED BY <1>7, <3>1 DEF Follows
  <2>2. CASE k # n
    <3>1. k \in 0..n - 1 /\ k + 1 \in 1..n /\ k \in 0..n
      BY <1>3, <2>2
    <3>2. lasts[k] = e[k] /\ longer[k + 1] = stored[k + 1] /\ stored[k + 1] \in Sw!Message
      BY <1>2, <1>3, <1>8, <3>1, ElementOfSeq
    <3> DEFINE this == stored[k + 1]
               base == e[k]
    <3>3. base \in Nat /\ base + this[1] + 1 <= j /\ this[1] \in Nat /\ Follows(u, base, this)
      BY <1>4, <3>1, <3>2, MessageUnits
    <3> HIDE DEF this, base, j
    <3>4. ASSUME NEW x \in 1..this[1] + 1 PROVE units[base + x] = <<this, x>>
      <4>1. base + x \in Nat /\ base + x <= j
        BY <1>6, <3>3
      <4>2. u[base + x] = <<this, x>>
        BY <3>3 DEF Follows
      <4> QED BY <1>7, <4>1, <4>2
    <3>5. Follows(units, base, this)
      BY <3>4 DEF Follows
    <3> QED BY <3>2, <3>5 DEF this, base
  <2> QED BY <2>1, <2>2
<1>11. Flow(longer, units, lasts)
  <2>1. n + 1 - 1 = n
    BY <1>3
  <2> QED BY <1>3, <1>9, <1>10, <2>1 DEF Flow
<1>12. Ring(Sw!IO, units, i, j)
  <2> DEFINE io == Sw!IO
  <2>1. Ring(io, u, i, j) /\ io \in Moment
    BY <1>1, <1>2
  <2> HIDE DEF io, i, j
  <2>2. ASSUME NEW q \in 0..filesize - 1, Index(io, q) < j - i
        PROVE  At(io, q) = units[i + Index(io, q) + 1]
    <3>1. At(io, q) = u[i + Index(io, q) + 1]
      BY <2>1, <2>2 DEF Ring, Holds
    <3>2. Index(io, q) \in Nat
      BY <1>2, <2>1 DEF Index, Moment
    <3>3. i + Index(io, q) + 1 \in Nat /\ i + Index(io, q) + 1 <= j
      BY <1>6, <2>2, <3>2
    <3> QED BY <1>7, <3>1, <3>3
  <2>3. Holds(io, units, i, j)
    BY <2>2 DEF Holds
  <2>4. Ring(io, units, i, j)
    BY <2>1, <2>3 DEF Ring
  <2> QED BY <2>4 DEF io
<1>13. Sw!CopyToFile(m) \in Moment /\ Ring(Sw!CopyToFile(m), units, i, j + size) /\ Sw!CopyToFile(m).rpos = read_pos
  <2>1. Follows(units, j, m)
    BY <1>7 DEF Follows
  <2>2. j + m[1] + 1 - i < filesize /\ j + m[1] + 1 = j + size
    <3>1. m[1] \in Nat
      BY MessageUnits
    <3> HIDE DEF i, j
    <3> QED BY <1>6, <3>1
  <2> HIDE DEF i, j, size
  <2>3. /\ Sw!CopyToFile(m) \in Moment /\ Ring(Sw!CopyToFile(m), units, i, j + m[1] + 1)
        /\ Sw!CopyToFile(m).rpos = read_pos
    BY <1>2, <1>12, <2>1, <2>2, CopiedTo
  <2> QED BY <2>2, <2>3
<1> DEFINE out == Sw!CopyToFile(m)
<1> HIDE DEF out
<1>14. PICK us, es, from, till : us = units /\ es = lasts /\ from = i /\ till = j + size
  OBVIOUS
<1>15. es[0] = from /\ es[Len(longer)] = till
  BY <1>3, <1>8, <1>14
<1>16. /\ Sw!IO' \in Moment' /\ Ring(Sw!IO, us, from, till)'
       /\ read_pos' = read_pos /\ write_pos' = out.wpos /\ Ring(out, us, from, till)
  <2>1. out \in Moment /\ Sw!Becomes(out) /\ Ring(out, us, from, till) /\ out.rpos = read_pos
    BY <1>2, <1>13, <1>14 DEF out
  <2> HIDE DEF i, j, size
  <2> QED BY <1>2, <2>1, Becoming
<1>17. Flow(stored, us, es)' /\ Ring(Sw!IO, us, es[0], es[Len(stored)])'
  <2>1. Flow(stored', us, es)
    BY <1>2, <1>11, <1>14
  <2>2. es[Len(stored')] = till
    BY <1>2, <1>15
  <2>3. Ring(Sw!IO, us, es[0], es[Len(stored)])'
    BY <1>15, <1>16, <2>2
  <2> QED BY <2>1, <2>3 DEF Flow, Lasts, Follows
<1>18. settled' \in -1..Len(stored') /\ (settled' >= 0 => commit_pos' = Place(filesize', read_pos', es[settled'] - es[0]))
  <2>1. Len(stored') = n + 1
    BY <1>2, <1>3
  <2>2. CASE commit_pos' = commit_pos /\ settled' = settled
    <3>1. settled >= 0 => settled \in 0..n
      BY <1>2, <1>3
    <3>2. settled >= 0 => es[settled] = e[settled] /\ es[0] = e[0]
      BY <1>3, <1>8, <1>14, <3>1
    <3>3. settled' \in -1..n + 1
      BY <1>2, <1>3, <2>2
    <3> QED BY <1>1, <1>2, <1>16, <2>1, <2>2, <3>2, <3>3 DEF Place
  <2>3. CASE commit_pos' = write_pos' /\ settled' = Len(stored')
    <3>1. settled' = n + 1 /\ es[settled'] = till /\ es[0] = from
      BY <1>3, <1>15, <2>1, <2>3
    <3>2. out.rpos = read_pos
      BY <1>13 DEF out
    <3>3. out.wpos = IF out.rpos + (till - from) < filesize THEN out.rpos + (till - from)
                     ELSE out.rpos + (till - from) - filesize
      BY <1>16 DEF Ring
    <3>4. commit_pos' = Place(filesize', read_pos', es[settled'] - es[0])
      BY <1>2, <1>16, <2>3, <3>1, <3>2, <3>3 DEF Place
    <3> QED BY <1>3, <2>1, <3>1, <3>4
  <2> QED BY <1>2, <2>2, <2>3
<1>19. \E u1, e1 : /\ Flow(stored, u1, e1)' /\ Ring(Sw!IO, u1, e1[0], e1[Len(stored)])'
                   /\ settled' >= 0 => commit_pos' = Place(filesize', read_pos', e1[settled'] - e1[0])
  BY <1>17, <1>18
<1>20. SwapFilled'
  BY <1>19 DEF SwapFilled
<1>21. SwapTyped'
  BY <1>2, <1>3, <1>16, <1>18 DEF SwapTyped
<1> QED BY <1>20, <1>21 DEF SwapHolds

LEMMA FetchStep ==
  ASSUME SwapHolds, Sw!Fetch
  PROVE  SwapHolds'
<1>1. PICK u, e : /\ Flow(stored, u, e) /\ Ring(Sw!IO, u, e[0], e[Len(stored)])
                  /\ settled >= 0 => commit_pos = Place(filesize, read_pos, e[settled] - e[0])
  BY DEF SwapHolds, SwapTyped, SwapFilled
<1> DEFINE n == Len(stored)
           m == Head(stored)
           rest == Tail(stored)
           out == Sw!CopyFromFile
           es == [k \in 0..n - 1 |-> e[k + 1]]
<1>2. /\ filesize \in FileSizes /\ filesize \in Nat \ {0} /\ Sw!IO \in Moment /\ stored \in Seq(Sw!Message)
      /\ settled \in -1..n /\ settled' = IF settled < 0 THEN settled ELSE settled - 1
      /\ filesize' = filesize /\ commit_pos' = commit_pos /\ Sw!Becomes(out) /\ read_pos # write_pos
      /\ swap_aborted' = FALSE /\ stored' = (IF stored = <<>> THEN <<>> ELSE rest)
      /\ in_order' = (stored # <<>> /\ out.got = Sw!UnitsOf(m))
  BY SwapSize DEF SwapHolds, SwapTyped, SwapFilled, Sw!Fetch
<1>3. n \in Nat /\ \A k \in 0..n : e[k] \in Nat /\ e[k] <= e[n]
  <2>1. Lasts(stored, e)
    BY <1>1 DEF Flow
  <2> QED BY <1>2, <2>1, LastsGrow, LenProperties
<1>4. n # 0 /\ stored # <<>>
  <2>1. e[0] # e[n]
    BY <1>1, <1>2, SpaceIs
  <2> QED BY <1>2, <2>1
<1>5. /\ m \in Sw!Message /\ m = stored[1] /\ rest \in Seq(Sw!Message) /\ Len(rest) = n - 1
      /\ \A k \in 1..n - 1 : rest[k] = stored[k + 1]
  BY <1>2, <1>4, HeadTailProperties, LenProperties
<1>6. /\ \A k \in 0..n - 1 : e[k + 1] = e[k] + stored[k + 1][1] + 1
      /\ \A k \in 0..n - 1 : Follows(u, e[k], stored[k + 1])
  BY <1>1 DEF Flow, Lasts
<1>7. /\ e[1] = e[0] + m[1] + 1 /\ e[1] <= e[n] /\ Follows(u, e[0], m)
  <2>1. 0 \in 0..n - 1 /\ 1 \in 0..n
    BY <1>3, <1>4
  <2>2. e[0 + 1] = e[0] + stored[0 + 1][1] + 1 /\ Follows(u, e[0], stored[0 + 1])
    BY <1>6, <2>1
  <2> QED BY <1>3, <1>5, <2>1, <2>2
<1>8. out \in Moment /\ Ring(out, u, e[1], e[n]) /\ out.got = Sw!UnitsOf(m) /\ out.wpos = write_pos
  <2> HIDE DEF m
  <2>1. e[0] + m[1] + 1 <= e[n]
    BY <1>7
  <2>2. out \in Moment /\ Ring(out, u, e[0] + m[1] + 1, e[n]) /\ out.got = Sw!UnitsOf(m) /\ out.wpos = write_pos
    BY <1>1, <1>2, <1>5, <1>7, <2>1, CopiedFrom
  <2> QED BY <1>7, <2>2
<1>9. PICK from, till, lasts : from = e[1] /\ till = e[n] /\ lasts = es
  OBVIOUS
<1>10. Sw!IO' \in Moment' /\ Ring(Sw!IO, u, from, till)' /\ write_pos' = out.wpos /\ read_pos' = out.rpos
  <2> HIDE DEF out, n, es
  <2>1. Ring(out, u, from, till)
    BY <1>8, <1>9
  <2> QED BY <1>2, <1>8, <2>1, Becoming
<1>11. write_pos' = write_pos
  BY <1>8, <1>10
<1>12. /\ \A k \in 0..n - 1 : lasts[k] = e[k + 1]
       /\ lasts[0] = from /\ lasts[n - 1] = till
  BY <1>3, <1>4, <1>9
<1>13. Flow(rest, u, lasts)
  <2>1. ASSUME NEW k \in 0..n - 1 PROVE lasts[k] \in Nat
    BY <1>3, <1>12
  <2>2. ASSUME NEW k \in 0..(n - 1) - 1
        PROVE  lasts[k + 1] = lasts[k] + rest[k + 1][1] + 1 /\ Follows(u, lasts[k], rest[k + 1])
    <3>1. k \in 0..n - 1 /\ k + 1 \in 0..n - 1 /\ k + 1 \in 1..n - 1
      BY <1>3
    <3>2. lasts[k + 1] = e[(k + 1) + 1] /\ lasts[k] = e[k + 1] /\ rest[k + 1] = stored[(k + 1) + 1]
      BY <1>5, <1>12, <3>1
    <3>3. /\ e[(k + 1) + 1] = e[k + 1] + stored[(k + 1) + 1][1] + 1
          /\ Follows(u, e[k + 1], stored[(k + 1) + 1])
      BY <1>6, <3>1
    <3> HIDE DEF rest
    <3> QED BY <3>2, <3>3
  <2> HIDE DEF rest
  <2> QED BY <1>5, <2>1, <2>2 DEF Flow, Lasts
<1>14. Flow(stored, u, lasts)' /\ Ring(Sw!IO, u, lasts[0], lasts[Len(stored)])'
  <2>1. stored' = rest
    BY <1>2, <1>4
  <2>2. Flow(stored', u, lasts)
    BY <1>13, <2>1
  <2>3. lasts[Len(stored')] = till
    BY <1>5, <1>12, <2>1
  <2>4. Ring(Sw!IO, u, lasts[0], lasts[Len(stored)])'
    BY <1>10, <1>12, <2>3
  <2> QED BY <2>2, <2>4 DEF Flow, Lasts, Follows
<1>15. settled' \in -1..Len(stored') /\ (settled' >= 0 => commit_pos' = Place(filesize', read_pos', lasts[settled'] - lasts[0]))
  <2>1. Len(stored') = n - 1
    BY <1>2, <1>4, <1>5
  <2>2. settled' \in -1..n - 1
    BY <1>2, <1>3, <1>4
  <2>3. ASSUME settled' >= 0 PROVE commit_pos' = Place(filesize', read_pos', lasts[settled'] - lasts[0])
    <3>1. settled \in 1..n /\ settled' = settled - 1
      BY <1>2, <1>3, <2>3
    <3>2. lasts[settled'] = e[settled] /\ lasts[0] = e[1]
      BY <1>9, <1>12, <3>1
    <3>3. commit_pos = Place(filesize, read_pos, e[settled] - e[0])
      BY <1>1, <3>1
    <3>4. e[0] \in Nat /\ e[1] \in Nat /\ e[n] \in Nat /\ e[settled] \in Nat /\ e[settled] <= e[n] /\ e[1] <= e[settled]
      <4>1. 0 \in 0..n /\ 1 \in 0..n /\ settled \in 0..n /\ n \in 0..n
        BY <1>3, <1>4, <3>1
      <4>2. e[1] <= e[settled]
        <5>1. Lasts(stored, e)
          BY <1>1 DEF Flow
        <5> QED BY <1>2, <3>1, <5>1, LastsRise
      <4> QED BY <1>3, <4>1, <4>2
    <3>5. /\ read_pos \in 0..filesize - 1 /\ e[n] - e[0] < filesize /\ e[0] <= e[1]
          /\ write_pos = IF read_pos + (e[n] - e[0]) < filesize THEN read_pos + (e[n] - e[0])
                         ELSE read_pos + (e[n] - e[0]) - filesize
      <4>1. read_pos \in 0..filesize - 1 /\ e[n] - e[0] < filesize
        BY <1>1, <1>2, SpaceIs
      <4>2. Sw!IO.rpos = read_pos /\ Sw!IO.wpos = write_pos
        BY DEF Sw!IO
      <4>3. e[0] <= e[1]
        <5>1. m[1] \in Nat
          BY <1>5, MessageUnits
        <5> HIDE DEF m
        <5> QED BY <1>7, <3>4, <5>1
      <4> QED BY <1>1, <4>1, <4>2, <4>3 DEF Ring
    <3>6. /\ out.rpos \in 0..filesize - 1
          /\ write_pos = IF out.rpos + (e[n] - e[1]) < filesize THEN out.rpos + (e[n] - e[1])
                         ELSE out.rpos + (e[n] - e[1]) - filesize
      <4> HIDE DEF out
      <4> QED BY <1>8 DEF Ring, Moment
    <3>7. Place(filesize, read_pos, e[settled] - e[0]) = Place(filesize, out.rpos, e[settled] - e[1])
      <4> DEFINE P == out.rpos
                 all == e[n] - e[0]
                 here == e[settled] - e[0]
                 one == e[1] - e[0]
      <4>1. /\ all \in Nat /\ here \in Nat /\ one \in Nat /\ one <= here /\ here <= all /\ all < filesize
            /\ e[n] - e[1] = all - one /\ e[settled] - e[1] = here - one
        BY <3>4, <3>5
      <4> HIDE DEF P, all, here, one
      <4>2. /\ P \in 0..filesize - 1 /\ read_pos \in 0..filesize - 1
            /\ write_pos = IF read_pos + all < filesize THEN read_pos + all ELSE read_pos + all - filesize
            /\ write_pos = IF P + (all - one) < filesize THEN P + (all - one) ELSE P + (all - one) - filesize
        BY <3>5, <3>6, <4>1 DEF P, all
      <4>3. Place(filesize, read_pos, here) = Place(filesize, P, here - one)
        BY <1>2, <4>1, <4>2 DEF Place
      <4> QED BY <4>1, <4>3 DEF P, here
    <3> QED BY <1>2, <1>10, <3>2, <3>3, <3>7 DEF Place
  <2> QED BY <2>1, <2>2, <2>3
<1>16. \E u1, e1 : /\ Flow(stored, u1, e1)' /\ Ring(Sw!IO, u1, e1[0], e1[Len(stored)])'
                   /\ settled' >= 0 => commit_pos' = Place(filesize', read_pos', e1[settled'] - e1[0])
  BY <1>14, <1>15
<1>17. in_order' = TRUE /\ swap_aborted' = FALSE /\ stored' \in Seq(Sw!Message) /\ filesize' \in FileSizes
  BY <1>2, <1>4, <1>5, <1>8
<1>18. SwapFilled'
  BY <1>16 DEF SwapFilled
<1>19. SwapTyped'
  BY <1>10, <1>15, <1>17 DEF SwapTyped
<1> QED BY <1>18, <1>19 DEF SwapHolds

\* Nothing has moved.
LEMMA SwapUnmoved ==
  ASSUME SwapHolds, UNCHANGED <<filesize, swap_file, bufs, read_buf, write_buf, write_buf_start_addr,
                                read_pos, write_pos, commit_pos, stored, settled, in_order, swap_aborted>>
  PROVE  SwapHolds'
<1>1. PICK u, e : /\ Flow(stored, u, e) /\ Ring(Sw!IO, u, e[0], e[Len(stored)])
                  /\ settled >= 0 => commit_pos = Place(filesize, read_pos, e[settled] - e[0])
  BY DEF SwapHolds, SwapTyped, SwapFilled
<1>2. PICK from, till : from = e[0] /\ till = e[Len(stored)]
  OBVIOUS
<1> DEFINE io == Sw!IO
<1>3. io \in Moment /\ Sw!Becomes(io) /\ Ring(io, u, from, till)
  BY <1>1, <1>2 DEF SwapHolds, SwapTyped, SwapFilled, Sw!IO, Sw!Becomes
<1> HIDE DEF io
<1>4. Sw!IO' \in Moment' /\ Ring(Sw!IO, u, from, till)'
  BY <1>3, Becoming
<1>5. Flow(stored, u, e)' /\ Ring(Sw!IO, u, e[0], e[Len(stored)])'
  <2>1. Flow(stored', u, e) /\ e[Len(stored')] = till
    BY <1>1, <1>2
  <2>2. Ring(Sw!IO, u, e[0], e[Len(stored)])'
    BY <1>2, <1>4, <2>1
  <2> QED BY <2>1, <2>2 DEF Flow, Lasts, Follows
<1>6. settled' >= 0 => commit_pos' = Place(filesize', read_pos', e[settled'] - e[0])
  BY <1>1 DEF Place
<1>7. \E u1, e1 : /\ Flow(stored, u1, e1)' /\ Ring(Sw!IO, u1, e1[0], e1[Len(stored)])'
                  /\ settled' >= 0 => commit_pos' = Place(filesize', read_pos', e1[settled'] - e1[0])
  BY <1>5, <1>6
<1>8. SwapFilled'
  BY <1>7 DEF SwapFilled
<1>9. SwapTyped'
  BY <1>4 DEF SwapHolds, SwapTyped
<1> QED BY <1>8, <1>9 DEF SwapHolds

\* Back to a position in the block that is read, behind the reader's: what is left
\* is all in its buffer, wherever the block is said to start.
LEMMA BackWhereRead ==
  ASSUME filesize \in Nat \ {0}, NEW io \in Moment, NEW u, NEW i, NEW j, Ring(io, u, i, j),
         NEW d \in Nat, d < j - i, NEW pos, pos = Place(filesize, io.rpos, d),
         Base(pos) = Base(io.rpos), io.rpos <= pos, NEW out,
         out = [io EXCEPT !.wpos = pos, !.start = pos % block_size, !.wbuf = io.rbuf]
  PROVE  out \in Moment /\ Ring(out, u, i, i + d)
<1>1. /\ i \in Nat /\ j \in Nat /\ i <= j /\ j - i < filesize /\ i + d \in Nat /\ i <= i + d /\ i + d - i = d /\ d < filesize
      /\ Holds(io, u, i, j)
  BY DEF Ring
<1> DEFINE R == io.rpos
<1>2. R \in 0..filesize - 1 /\ io.rbuf \in {1, 2}
  BY DEF Moment
<1>3. pos = R + d /\ pos \in 0..filesize - 1 /\ pos \in Nat /\ R \in Nat
  <2> HIDE DEF R
  <2>1. pos = IF R + d < filesize THEN R + d ELSE R + d - filesize
    BY DEF Place, R
  <2>2. R <= pos
    BY DEF R
  <2> QED BY <1>1, <1>2, <2>1, <2>2
<1>4. pos % block_size \in 0..filesize - 1
  <2>1. pos % block_size \in 0..block_size - 1 /\ pos % block_size = pos - Base(pos) /\ Base(pos) \in 0..pos
    BY <1>3, Offset
  <2> QED BY <1>3, <2>1
<1>5. /\ out \in Moment /\ out.file = io.file /\ out.bufs = io.bufs /\ out.rbuf = io.rbuf /\ out.wbuf = io.rbuf
      /\ out.rpos = R /\ out.wpos = pos
  BY <1>2, <1>3, <1>4 DEF Moment
<1>6. OneBlock(out)
  BY <1>5 DEF OneBlock
<1>7. ASSUME NEW q \in 0..filesize - 1, Index(out, q) < d
      PROVE  At(out, q) = u[i + Index(out, q) + 1]
  <2>1. Index(out, q) = Index(io, q)
    BY <1>5 DEF Index
  <2>2. R <= q /\ q < pos
    <3>1. Index(io, q) = IF R <= q THEN q - R ELSE q - R + filesize
      BY DEF Index
    <3> HIDE DEF R
    <3> QED BY <1>1, <1>2, <1>3, <1>7, <2>1, <3>1
  <2>3. Base(q) = Base(R)
    <3>1. q \in Nat /\ (Base(q) = Base(R) <=> Base(R) <= q /\ q < Base(R) + block_size)
      BY <1>3, InBlock
    <3>2. Base(pos) = Base(R) /\ pos < Base(pos) + block_size /\ Base(R) \in 0..R
      BY <1>3, Offset
    <3> HIDE DEF R
    <3> QED BY <1>3, <2>2, <3>1, <3>2, SwapFacts
  <2>4. InReader(io, q) /\ InReader(out, q)
    BY <1>5, <2>2, <2>3 DEF InReader
  <2>5. At(out, q) = At(io, q)
    BY <1>5, <2>4 DEF At
  <2>6. At(io, q) = u[i + Index(io, q) + 1]
    <3>1. Index(io, q) < j - i
      <4>1. Index(io, q) \in Int
        BY <1>2 DEF Index
      <4> QED BY <1>1, <1>7, <2>1, <4>1
    <3> QED BY <1>1, <3>1 DEF Holds
  <2> QED BY <2>1, <2>5, <2>6
<1>8. Holds(out, u, i, i + d)
  BY <1>1, <1>7 DEF Holds
<1>9. out.wpos = IF out.rpos + d < filesize THEN out.rpos + d ELSE out.rpos + d - filesize
  <2> HIDE DEF R
  <2> QED BY <1>1, <1>2, <1>3, <1>5
<1> QED BY <1>1, <1>5, <1>6, <1>8, <1>9 DEF Ring

\* Positions of one block which the reader's is not in: if one was written before the
\* other, it is before the other.
LEMMA InOrderInBlock ==
  ASSUME filesize \in Nat \ {0}, NEW R \in 0..filesize - 1, NEW x \in Nat, NEW y \in Nat, x < y, y < filesize,
         Base(Place(filesize, R, x)) = Base(Place(filesize, R, y)), Base(Place(filesize, R, x)) # Base(R)
  PROVE  Place(filesize, R, x) < Place(filesize, R, y)
<1> DEFINE a == Place(filesize, R, x)
           b == Place(filesize, R, y)
<1>1. /\ a = IF R + x < filesize THEN R + x ELSE R + x - filesize
      /\ b = IF R + y < filesize THEN R + y ELSE R + y - filesize
  BY DEF Place
<1> HIDE DEF a, b
<1>2. a \in Nat /\ b \in Nat /\ R \in Nat
  BY <1>1
<1> SUFFICES ASSUME b <= a PROVE FALSE
  BY <1>2 DEF a, b
<1>3. R <= a /\ b < R
  BY <1>1, <1>2
<1>4. /\ Base(b) \in 0..b /\ a < Base(a) + block_size /\ Base(a) = Base(b)
      /\ Base(R) = Base(a) <=> Base(a) <= R /\ R < Base(a) + block_size
  <2>1. Base(b) \in 0..b /\ a < Base(a) + block_size
    BY <1>2, Offset
  <2>2. Base(R) = Base(a) <=> Base(a) <= R /\ R < Base(a) + block_size
    BY <1>2, InBlock
  <2> QED BY <2>1, <2>2 DEF a, b
<1>5. Base(a) # Base(R)
  BY DEF a
<1> QED BY <1>2, <1>3, <1>4, <1>5, SwapFacts

\* Back to a position in the block that is written, and not the one that is read.
LEMMA BackWhereWritten ==
  ASSUME filesize \in Nat \ {0}, NEW io \in Moment, NEW u, NEW i, NEW j, Ring(io, u, i, j),
         NEW d \in Nat, d < j - i, NEW pos, pos = Place(filesize, io.rpos, d),
         Base(pos) # Base(io.rpos), Base(pos) = Base(io.wpos), NEW out, out = [io EXCEPT !.wpos = pos]
  PROVE  out \in Moment /\ Ring(out, u, i, i + d)
<1> DEFINE R == io.rpos
           W == io.wpos
           n == j - i
<1>1. /\ i \in Nat /\ j \in Nat /\ i <= j /\ n < filesize /\ i + d \in Nat /\ i <= i + d /\ i + d - i = d /\ d < filesize
      /\ W = Place(filesize, R, n) /\ n \in Nat /\ d < n
      /\ OneBlock(io) \/ io.start = Base(W)
      /\ io.rbuf = io.wbuf <=> OneBlock(io)
      /\ Holds(io, u, i, j)
  BY DEF Ring, Place
<1>2. R \in 0..filesize - 1 /\ W \in 0..filesize - 1
  BY DEF Moment
<1>3. pos = (IF R + d < filesize THEN R + d ELSE R + d - filesize) /\ pos \in 0..filesize - 1
  <2> HIDE DEF R
  <2>1. pos = IF R + d < filesize THEN R + d ELSE R + d - filesize
    BY DEF Place, R
  <2> QED BY <1>1, <1>2, <2>1
<1>4. /\ out \in Moment /\ out.file = io.file /\ out.bufs = io.bufs /\ out.rbuf = io.rbuf /\ out.wbuf = io.wbuf
      /\ out.rpos = R /\ out.wpos = pos /\ out.start = io.start
  BY <1>2, <1>3 DEF Moment
<1>5. ~OneBlock(io) /\ ~OneBlock(out)
  BY <1>4 DEF OneBlock
<1>6. pos < W
  <2> HIDE DEF R, W, n
  <2>1. pos = Place(filesize, R, d) /\ Base(Place(filesize, R, d)) = Base(Place(filesize, R, n)) /\ Base(Place(filesize, R, d)) # Base(R)
    BY <1>1 DEF R, W
  <2> QED BY <1>1, <1>2, <2>1, InOrderInBlock
<1>7. ASSUME NEW q \in 0..filesize - 1, Index(out, q) < d
      PROVE  At(out, q) = u[i + Index(out, q) + 1]
  <2> DEFINE x == Index(io, q)
  <2>1. Index(out, q) = x
    BY <1>4 DEF Index
  <2>2. x = IF R <= q THEN q - R ELSE q - R + filesize
    BY DEF Index
  <2>3. x \in Nat /\ x < d /\ q = Place(filesize, R, x)
    <3>1. x < d
      BY <1>7, <2>1
    <3> HIDE DEF R, x
    <3> QED BY <1>2, <2>2, <3>1 DEF Place
  <2>4. Base(q) = Base(pos) => q < pos
    <3> SUFFICES ASSUME Base(q) = Base(pos) PROVE q < pos
      OBVIOUS
    <3> HIDE DEF x, R
    <3>1. pos = Place(filesize, R, d) /\ Base(Place(filesize, R, x)) = Base(Place(filesize, R, d)) /\ Base(Place(filesize, R, x)) # Base(R)
      BY <2>3 DEF R
    <3>2. Place(filesize, R, x) < Place(filesize, R, d)
      BY <1>1, <1>2, <2>3, <3>1, InOrderInBlock
    <3> QED BY <2>3, <3>1, <3>2
  <2>5. InWriter(out, q) <=> InWriter(io, q)
    <3>1. InWriter(out, q) <=> Base(q) = Base(pos) /\ q < pos
      BY <1>4 DEF InWriter
    <3>2. InWriter(io, q) <=> Base(q) = Base(pos) /\ q < W
      BY DEF InWriter
    <3>3. q < pos => q < W
      <4> HIDE DEF W
      <4> QED BY <1>2, <1>3, <1>6
    <3> QED BY <2>4, <3>1, <3>2, <3>3
  <2>6. InReader(out, q) <=> InReader(io, q)
    BY <1>4 DEF InReader
  <2>7. At(out, q) = At(io, q)
    BY <1>4, <2>5, <2>6 DEF At
  <2>8. At(io, q) = u[i + x + 1]
    <3>1. x < j - i
      <4> HIDE DEF x
      <4> QED BY <1>1, <2>3
    <3> QED BY <1>1, <3>1 DEF Holds
  <2> QED BY <2>1, <2>7, <2>8
<1>8. Holds(out, u, i, i + d)
  BY <1>1, <1>7 DEF Holds
<1>9. out.start = Base(out.wpos)
  BY <1>1, <1>4, <1>5
<1>10. out.wpos = IF out.rpos + d < filesize THEN out.rpos + d ELSE out.rpos + d - filesize
  BY <1>3, <1>4
<1> QED BY <1>1, <1>4, <1>5, <1>8, <1>9, <1>10 DEF Ring

\* A rollback that takes nothing away, or goes back where it may.
LEMMA RollbackStep ==
  ASSUME SwapHolds, Sw!Rollback, ~Sw!GoesAstray
  PROVE  SwapHolds'
<1>1. PICK u, e : /\ Flow(stored, u, e) /\ Ring(Sw!IO, u, e[0], e[Len(stored)])
                  /\ settled >= 0 => commit_pos = Place(filesize, read_pos, e[settled] - e[0])
  BY DEF SwapHolds, SwapTyped, SwapFilled
<1> DEFINE n == Len(stored)
           io == Sw!IO
<1>2. /\ filesize \in FileSizes /\ filesize \in Nat \ {0} /\ io \in Moment /\ stored \in Seq(Sw!Message)
      /\ settled \in -1..n /\ swap_aborted = FALSE /\ in_order = TRUE /\ n \in Nat
  BY SwapSize, LenProperties DEF SwapHolds, SwapTyped, SwapFilled
<1>3. /\ filesize' = filesize /\ read_pos' = read_pos /\ commit_pos' = commit_pos /\ settled' = settled
      /\ in_order' = in_order /\ stored' = SubSeq(stored, 1, settled)
  BY DEF Sw!Rollback
<1>4. Lasts(stored, e) /\ \A k \in 0..n : e[k] \in Nat /\ e[k] <= e[n] /\ (k # n => e[k] < e[n])
  <2>1. Lasts(stored, e)
    BY <1>1 DEF Flow
  <2> QED BY <1>2, <2>1, LastsGrow
<1>5. /\ (read_pos = write_pos <=> e[0] = e[n]) /\ e[n] - e[0] < filesize
      /\ read_pos \in 0..filesize - 1 /\ write_pos \in 0..filesize - 1 /\ e[0] \in Nat /\ e[n] \in Nat /\ e[0] <= e[n]
      /\ write_pos = Place(filesize, read_pos, e[n] - e[0])
  <2>1. /\ (read_pos = write_pos <=> e[0] = e[n]) /\ e[n] - e[0] < filesize
        /\ read_pos \in 0..filesize - 1 /\ write_pos \in 0..filesize - 1 /\ e[0] \in Nat /\ e[n] \in Nat /\ e[0] <= e[n]
    BY <1>1, <1>2, SpaceIs
  <2>2. Sw!IO.rpos = read_pos /\ Sw!IO.wpos = write_pos
    BY DEF Sw!IO
  <2> QED BY <1>1, <2>1, <2>2 DEF Ring, Place
<1>6. CASE settled = n \/ stored = <<>>
  <2>1. commit_pos = write_pos \/ read_pos = write_pos
    <3>1. CASE settled = n
      BY <1>1, <1>2, <1>5, <3>1
    <3>2. CASE stored = <<>>
      BY <1>5, <3>2
    <3> QED BY <1>6, <3>1, <3>2
  <2>2. UNCHANGED <<swap_file, bufs, read_buf, write_buf, write_buf_start_addr, write_pos, swap_aborted>>
    BY <2>1 DEF Sw!Rollback, Sw!ioVars
  <2>3. stored' = stored
    <3>1. CASE settled = n
      BY <1>2, <1>3, <3>1, SubSeqFull
    <3>2. CASE stored = <<>>
      <4>1. settled <= 0
        BY <1>2, <3>2
      <4>2. SubSeq(stored, 1, settled) = <<>>
        BY <1>2, <3>2, <4>1
      <4> QED BY <1>3, <3>2, <4>2
    <3> QED BY <1>6, <3>1, <3>2
  <2> QED BY <1>3, <2>2, <2>3, SwapUnmoved
<1>7. CASE settled # n /\ stored # <<>>
  <2> DEFINE d == e[settled] - e[0]
             front == SubSeq(stored, 1, settled)
  <2>1. /\ settled < n /\ settled >= 0 /\ settled \in 0..n
        /\ IF Sw!Block(commit_pos) = Sw!Block(read_pos) THEN ~(commit_pos < read_pos)
           ELSE Sw!Block(commit_pos) = Sw!Block(write_pos)
    BY <1>2, <1>7 DEF Sw!GoesAstray
  <2>2. d \in Nat /\ d < e[n] - e[0] /\ commit_pos = Place(filesize, read_pos, d) /\ e[0] + d = e[settled]
    <3>1. e[settled] \in Nat /\ e[settled] < e[n] /\ e[0] <= e[settled]
      <4>1. e[settled] \in Nat /\ e[settled] < e[n]
        BY <1>4, <2>1
      <4>2. CASE settled = 0
        BY <4>1, <4>2
      <4>3. CASE settled # 0
        <5>1. settled \in 1..n /\ 1 \in 1..n
          BY <1>2, <2>1, <4>3
        <5>2. e[1] <= e[settled]
          BY <1>2, <1>4, <5>1, LastsRise
        <5>3. 0 \in 0..n - 1 /\ stored[1] \in Sw!Message
          BY <1>2, <5>1, ElementOfSeq
        <5>4. e[0 + 1] = e[0] + stored[0 + 1][1] + 1 /\ stored[1][1] \in Nat
          BY <1>4, <5>3, MessageUnits DEF Lasts
        <5> QED BY <1>4, <1>5, <4>1, <5>1, <5>2, <5>4
      <4> QED BY <4>2, <4>3
    <3> QED BY <1>1, <1>5, <2>1, <3>1
  <2> HIDE DEF d
  <2>3. commit_pos \in 0..filesize - 1 /\ commit_pos # write_pos /\ read_pos # write_pos /\ Sw!CommitPosBetween
    <3> DEFINE all == e[n] - e[0]
    <3>1. all \in Nat /\ all < filesize /\ d < all /\ write_pos = Place(filesize, read_pos, all) /\ e[0] # e[n]
      BY <1>4, <1>5, <2>2
    <3> HIDE DEF all, n
    <3>2. /\ commit_pos = IF read_pos + d < filesize THEN read_pos + d ELSE read_pos + d - filesize
          /\ write_pos = IF read_pos + all < filesize THEN read_pos + all ELSE read_pos + all - filesize
      BY <2>2, <3>1 DEF Place
    <3>3. commit_pos \in 0..filesize - 1 /\ commit_pos # write_pos /\ read_pos # write_pos
      BY <1>2, <1>5, <2>2, <3>1, <3>2
    <3>4. IF write_pos > read_pos THEN read_pos <= commit_pos /\ commit_pos <= write_pos
          ELSE read_pos <= commit_pos \/ commit_pos <= write_pos
      BY <1>2, <1>5, <2>2, <3>1, <3>2
    <3> QED BY <3>3, <3>4 DEF Sw!CommitPosBetween
  <2>4. Sw!MoveBack /\ swap_aborted' = swap_aborted
    BY <2>3 DEF Sw!Rollback
  <2>5. Ring(io, u, e[0], e[n]) /\ io.rpos = read_pos /\ io.wpos = write_pos /\ io.rbuf = read_buf
    BY <1>1 DEF Sw!IO
  <2>6. /\ Sw!Block(commit_pos) = Sw!Block(read_pos) <=> Base(commit_pos) = Base(read_pos)
        /\ Sw!Block(commit_pos) = Sw!Block(write_pos) <=> Base(commit_pos) = Base(write_pos)
    <3>1. commit_pos \in Nat /\ read_pos \in Nat /\ write_pos \in Nat
      BY <1>5, <2>3
    <3> QED BY <3>1, SameBlock
  <2>7. \E out \in Moment : Sw!Becomes(out) /\ Ring(out, u, e[0], e[settled])
    <3>1. CASE Sw!Block(commit_pos) = Sw!Block(read_pos)
      <4> DEFINE out == [io EXCEPT !.wpos = commit_pos, !.start = commit_pos % block_size, !.wbuf = io.rbuf]
      <4>1. Base(commit_pos) = Base(io.rpos) /\ io.rpos <= commit_pos
        <5>1. ~(commit_pos < read_pos)
          BY <2>1, <3>1
        <5> QED BY <1>5, <2>3, <2>5, <2>6, <3>1, <5>1
      <4>2. out \in Moment /\ Ring(out, u, e[0], e[0] + d)
        <5> DEFINE i == e[0]
                   j == e[n]
                   pos == commit_pos
        <5>1. /\ Ring(io, u, i, j) /\ d \in Nat /\ d < j - i /\ pos = Place(filesize, io.rpos, d)
              /\ Base(pos) = Base(io.rpos) /\ io.rpos <= pos
          BY <2>2, <2>5, <4>1
        <5>2. out = [io EXCEPT !.wpos = pos, !.start = pos % block_size, !.wbuf = io.rbuf]
          OBVIOUS
        <5> HIDE DEF io, out, i, j, pos
        <5>3. out \in Moment /\ Ring(out, u, i, i + d)
          BY <1>2, <5>1, <5>2, BackWhereRead
        <5> QED BY <5>3 DEF i
      <4>3. Sw!Becomes(out)
        BY <1>3, <2>4, <3>1 DEF Sw!MoveBack, Sw!Becomes, Sw!IO
      <4> HIDE DEF out
      <4> QED BY <2>2, <4>2, <4>3
    <3>2. CASE Sw!Block(commit_pos) # Sw!Block(read_pos)
      <4> DEFINE out == [io EXCEPT !.wpos = commit_pos]
      <4>1. Base(commit_pos) # Base(io.rpos) /\ Base(commit_pos) = Base(io.wpos)
        BY <2>1, <2>5, <2>6, <3>2
      <4>2. out \in Moment /\ Ring(out, u, e[0], e[0] + d)
        <5> DEFINE i == e[0]
                   j == e[n]
                   pos == commit_pos
        <5>1. /\ Ring(io, u, i, j) /\ d \in Nat /\ d < j - i /\ pos = Place(filesize, io.rpos, d)
              /\ Base(pos) # Base(io.rpos) /\ Base(pos) = Base(io.wpos)
          BY <2>2, <2>5, <4>1
        <5>2. out = [io EXCEPT !.wpos = pos]
          OBVIOUS
        <5> HIDE DEF io, out, i, j, pos
        <5>3. out \in Moment /\ Ring(out, u, i, i + d)
          BY <1>2, <5>1, <5>2, BackWhereWritten
        <5> QED BY <5>3 DEF i
      <4>3. Sw!Becomes(out)
        BY <1>3, <2>1, <2>4, <3>2 DEF Sw!MoveBack, Sw!Becomes, Sw!IO
      <4> HIDE DEF out
      <4> QED BY <2>2, <4>2, <4>3
    <3> QED BY <3>1, <3>2
  <2>8. PICK out \in Moment : Sw!Becomes(out) /\ Ring(out, u, e[0], e[settled])
    BY <2>7
  <2>9. front \in Seq(Sw!Message) /\ Len(front) = settled /\ \A x \in 1..settled : front[x] = stored[x]
    BY <1>2, <2>1, SubSeqProperties
  <2> HIDE DEF front
  <2>10. Flow(front, u, e)
    <3>1. Lasts(front, e)
      BY <1>2, <1>4, <2>1, <2>9, LastsOfFront
    <3>2. ASSUME NEW k \in 0..settled - 1 PROVE Follows(u, e[k], front[k + 1])
      <4>1. k \in 0..n - 1 /\ k + 1 \in 1..settled
        BY <1>2, <2>1
      <4>2. Follows(u, e[k], stored[k + 1])
        BY <1>1, <4>1 DEF Flow
      <4>3. front[k + 1] = stored[k + 1]
        BY <2>9, <4>1
      <4> QED BY <4>2, <4>3
    <3> QED BY <2>9, <3>1, <3>2 DEF Flow
  <2>11. stored' = front
    BY <1>3 DEF front
  <2>12. PICK from, till : from = e[0] /\ till = e[settled]
    OBVIOUS
  <2>13. Sw!IO' \in Moment' /\ Ring(Sw!IO, u, from, till)'
    <3>1. Ring(out, u, from, till)
      BY <2>8, <2>12
    <3> QED BY <1>3, <2>8, <3>1, Becoming
  <2>14. Flow(stored, u, e)' /\ Ring(Sw!IO, u, e[0], e[Len(stored)])'
    <3>1. Flow(stored', u, e) /\ e[Len(stored')] = till
      BY <2>9, <2>10, <2>11, <2>12
    <3>2. Ring(Sw!IO, u, e[0], e[Len(stored)])'
      BY <2>12, <2>13, <3>1
    <3> QED BY <3>1, <3>2 DEF Flow, Lasts, Follows
  <2>15. settled' >= 0 => commit_pos' = Place(filesize', read_pos', e[settled'] - e[0])
    BY <1>1, <1>3 DEF Place
  <2>16. \E u1, e1 : /\ Flow(stored, u1, e1)' /\ Ring(Sw!IO, u1, e1[0], e1[Len(stored)])'
                     /\ settled' >= 0 => commit_pos' = Place(filesize', read_pos', e1[settled'] - e1[0])
    BY <2>14, <2>15
  <2>17. settled' \in -1..Len(stored') /\ stored' \in Seq(Sw!Message)
    BY <1>3, <2>1, <2>9, <2>11
  <2>18. SwapFilled'
    BY <2>16 DEF SwapFilled
  <2>19. SwapTyped'
    BY <1>2, <1>3, <2>4, <2>13, <2>17 DEF SwapTyped
  <2> QED BY <2>18, <2>19 DEF SwapHolds
<1> QED BY <1>6, <1>7

LEMMA SwapStart == ASSUME Sw!Init PROVE SwapHolds
<1>1. filesize \in FileSizes /\ filesize \in Nat \ {0} /\ block_size \in Nat \ {0}
  BY SwapSize, SwapFacts DEF Sw!Init
<1> DEFINE io == Sw!IO
           blank == [q \in 0..filesize - 1 |-> Garbage]
           buffers == [b \in {1, 2} |-> [q \in 0..block_size - 1 |-> Garbage]]
<1>2. io = [file |-> blank, bufs |-> buffers, rbuf |-> 1, wbuf |-> 1, start |-> 0, rpos |-> 0, wpos |-> 0, got |-> <<>>]
  BY DEF Sw!IO, Sw!Init
<1>3. blank \in [0..filesize - 1 -> Cells] /\ buffers \in [{1, 2} -> [0..block_size - 1 -> Cells]] /\ <<>> \in Seq(Cells)
  BY DEF Cells
<1>4. 0 \in 0..filesize - 1
  BY <1>1
<1> HIDE DEF io, blank, buffers
<1>5. io \in Moment
  BY <1>2, <1>3, <1>4 DEF Moment
<1>6. Ring(io, blank, 0, 0)
  <2>1. ASSUME NEW q \in 0..filesize - 1 PROVE ~(Index(io, q) < 0 - 0)
    BY <1>1, <1>2 DEF Index
  <2>2. Holds(io, blank, 0, 0)
    BY <2>1 DEF Holds
  <2> QED BY <1>1, <1>2, <2>2, FirstBlock DEF Ring, OneBlock
<1> DEFINE e == [k \in 0..0 |-> 0]
<1>7. Flow(stored, blank, e) /\ Ring(io, blank, e[0], e[Len(stored)])
  <2>1. stored = <<>> /\ Len(stored) = 0 /\ e[0] = 0
    BY DEF Sw!Init
  <2> HIDE DEF e
  <2>2. Lasts(stored, e) /\ \A k \in 0..Len(stored) - 1 : Follows(blank, e[k], stored[k + 1])
    BY <2>1 DEF Lasts
  <2> QED BY <1>6, <2>1, <2>2 DEF Flow
<1>8. stored \in Seq(Sw!Message) /\ swap_aborted = FALSE /\ in_order = TRUE /\ settled \in -1..Len(stored)
  BY DEF Sw!Init
<1>9. settled >= 0 => commit_pos = Place(filesize, read_pos, e[settled] - e[0])
  <2>1. settled >= 0 => settled = 0 /\ commit_pos = 0 /\ read_pos = 0
    BY DEF Sw!Init
  <2>2. e[0] = 0 /\ Place(filesize, 0, 0 - 0) = 0
    BY <1>1 DEF Place
  <2> QED BY <2>1, <2>2
<1>10. \E u1, e1 : /\ Flow(stored, u1, e1) /\ Ring(io, u1, e1[0], e1[Len(stored)])
                   /\ settled >= 0 => commit_pos = Place(filesize, read_pos, e1[settled] - e1[0])
  BY <1>7, <1>9
<1>11. SwapFilled
  BY <1>10 DEF SwapFilled, io
<1>12. SwapTyped
  BY <1>1, <1>5, <1>8 DEF SwapTyped, io
<1> QED BY <1>11, <1>12 DEF SwapHolds

LEMMA SwapStep == ASSUME SwapInv, Sw!Next PROVE SwapInv'
<1>1. CASE astray
  <2>1. astray'
    BY <1>1 DEF Sw!Next, Sw!Store, Sw!Fetch, Sw!Rollback
  <2> QED BY <2>1 DEF SwapInv
<1>2. CASE ~astray
  <2>1. SwapHolds
    BY <1>2 DEF SwapInv
  <2>2. CASE Sw!Rollback
    <3>1. Sw!GoesAstray => astray'
      BY <2>2 DEF Sw!Rollback
    <3> QED BY <2>1, <2>2, <3>1, RollbackStep DEF SwapInv
  <2> QED BY <2>1, <2>2, StoreStep, FetchStep DEF Sw!Next, SwapInv
<1> QED BY <1>1, <1>2

LEMMA SwapStutter == ASSUME SwapInv, UNCHANGED swapVars PROVE SwapInv'
BY SwapUnmoved DEF swapVars, SwapInv

LEMMA SwapIsSound == ASSUME SwapInv PROVE Sw!SwapSound
<1> SUFFICES ASSUME SwapHolds PROVE Sw!SwapSound
  BY DEF SwapInv, Sw!SwapSound
<1>1. PICK u, e : Flow(stored, u, e) /\ Ring(Sw!IO, u, e[0], e[Len(stored)])
  BY DEF SwapHolds, SwapTyped, SwapFilled
<1>2. /\ filesize \in FileSizes /\ filesize \in Nat \ {0} /\ Sw!IO \in Moment /\ stored \in Seq(Sw!Message)
      /\ settled \in -1..Len(stored) /\ swap_aborted = FALSE /\ in_order = TRUE
  BY SwapSize DEF SwapHolds, SwapTyped, SwapFilled
<1>3. /\ swap_file \in [0..filesize - 1 -> Cells] /\ read_buf \in {1, 2} /\ write_buf \in {1, 2}
      /\ read_pos \in 0..filesize - 1 /\ write_pos \in 0..filesize - 1 /\ write_buf_start_addr \in 0..filesize - 1
  BY <1>2 DEF Moment, Sw!IO
<1>4. Sw!TypeOK
  <2>1. ASSUME NEW q \in 0..filesize - 1 PROVE swap_file[q] = Garbage \/ swap_file[q][1] \in Sw!Message
    <3>1. swap_file[q] \in Cells
      BY <1>3
    <3> QED BY <3>1 DEF Cells, Sw!Unit
  <2> QED BY <1>2, <1>3, <2>1 DEF Sw!TypeOK
<1>5. Sw!SpaceAccounted
  <2>1. /\ Sw!buffer_space = filesize - (e[Len(stored)] - e[0]) /\ e[Len(stored)] - e[0] < filesize
    BY <1>1, <1>2, SpaceIs
  <2>2. Sw!Size(stored) = e[Len(stored)] - e[0]
    BY <1>1, <1>2, SizeIs DEF Flow
  <2> QED BY <2>1, <2>2 DEF Sw!SpaceAccounted
<1> QED BY <1>2, <1>4, <1>5 DEF Sw!SwapSound, Sw!RetrievedInOrder, Sw!NeverAborts

\* Each step of the composition is one of the swap or leaves it alone.
LEMMA SwapsStep ==
  ASSUME used = "swap" => SwapInv, [SocketsNext]_socketsVars
  PROVE  (used = "swap" => SwapInv)'
<1>1. used' = used
  BY DEF SocketsNext, OtherSockets, socketsVars
<1>2. CASE used = "swap"
  <2>1. SwapInv /\ (Sw!Next \/ UNCHANGED swapVars)
    BY <1>2 DEF SocketsNext, socketsVars
  <2> QED BY <2>1, <1>1, SwapStep, SwapStutter
<1>3. CASE used # "swap"
  BY <1>1, <1>3
<1> QED BY <1>2, <1>3

\* swap.cpp: until a rollback goes astray, messages are retrieved from the swap in
\* the order and as they were stored, wherever the blocks and the file end and
\* although both ends of the ring share a buffer when they are in one block; the
\* space found free is what the messages leave, a ring that is full is not taken for
\* an empty one, and rollback's assertion holds.  A rollback that stays in the block
\* that is written, or in the one that is read without passing its end, takes away
\* the parts since the last commit and nothing else.
THEOREM SwapSoundHolds == SocketsSpec => [](used = "swap" => Sw!SwapSound)
<1> DEFINE Inv == used = "swap" => SwapInv
<1>1. SocketsInit => Inv
  BY SwapStart DEF SocketsInit, SwapInv
<1>2. Inv /\ [SocketsNext]_socketsVars => Inv'
  BY SwapsStep
<1>3. Inv => (used = "swap" => Sw!SwapSound)
  BY SwapIsSound
<1> HIDE DEF Inv
<1> QED BY <1>1, <1>2, <1>3, PTL DEF SocketsSpec

(***************************************************************************)
(* Pair sockets.  The invariant adds what the properties leave open: the   *)
(* ends of the pipes of a socket that terminates are closed, and a message *)
(* under way is for the peer the socket has, unless one has gone in the    *)
(* middle of a message.                                                    *)
(***************************************************************************)
Some(peer) == IF peer = NoPeer THEN 0 ELSE 1
PairInv ==
  /\ {inpipe, outpipe, sent_to} \subseteq Peers \union {NoPeer}
  /\ inpipe_alive \in BOOLEAN /\ outpipe_alive \in BOOLEAN /\ pair_terminating \in BOOLEAN
  /\ torn \in BOOLEAN /\ cut \in BOOLEAN /\ (torn => cut) /\ pair_aborted \in {"no", "attach"}
  /\ in_end \in [Peers -> Pa!End] /\ out_end \in [Peers -> Pa!End]
  /\ part_in \in 0..MaxParts /\ part_out \in 0..MaxParts
  /\ Pa!AliveIsAwake
  /\ pair_acks = IF pair_terminating THEN Some(inpipe) + Some(outpipe) ELSE 0
  /\ pair_terminating /\ inpipe # NoPeer => in_end[inpipe] = "closed"
  /\ pair_terminating /\ outpipe # NoPeer => out_end[outpipe] = "closed"
  /\ ~pair_terminating /\ ~cut /\ part_out > 0 => sent_to = outpipe /\ outpipe # NoPeer

LEMMA PairFacts == IsFiniteSet(Peers) /\ MaxParts \in Nat \ {0} /\ NoPeer \notin Peers
<1>1. Pa!PairAssumption
  BY SocketsAssumption DEF SocketsAssumption
<1>2. IsFiniteSet(Peers)
  BY <1>1, Zenon DEF Pa!PairAssumption, IsFiniteSet, Pa!IsFiniteSet
<1> QED BY <1>1, <1>2 DEF Pa!PairAssumption

\* The pipes whose ends process_term waits for.
LEMMA PipesCounted ==
  Pa!Cardinality({<<"in", inpipe>>, <<"out", outpipe>>} \ {<<"in", NoPeer>>, <<"out", NoPeer>>}) = Some(inpipe) + Some(outpipe)
<1> DEFINE both == {<<"in", inpipe>>, <<"out", outpipe>>} \ {<<"in", NoPeer>>, <<"out", NoPeer>>}
<1>1. Pa!Cardinality(both) = Cardinality(both)
  BY DEF Pa!Cardinality, Cardinality
<1>2. CASE inpipe = NoPeer /\ outpipe = NoPeer
  <2>1. both = {}
    BY <1>2
  <2>2. Cardinality(both) = 0
    BY <2>1, FS_EmptySet
  <2> QED BY <1>1, <1>2, <2>2 DEF Some
<1>3. CASE inpipe = NoPeer /\ outpipe # NoPeer
  <2>1. both = {<<"out", outpipe>>}
    BY <1>3
  <2>2. Cardinality(both) = 1
    BY <2>1, FS_Singleton
  <2> QED BY <1>1, <1>3, <2>2 DEF Some
<1>4. CASE inpipe # NoPeer /\ outpipe = NoPeer
  <2>1. both = {<<"in", inpipe>>}
    BY <1>4
  <2>2. Cardinality(both) = 1
    BY <2>1, FS_Singleton
  <2> QED BY <1>1, <1>4, <2>2 DEF Some
<1>5. CASE inpipe # NoPeer /\ outpipe # NoPeer
  <2>1. both = {<<"in", inpipe>>} \union {<<"out", outpipe>>} /\ <<"out", outpipe>> \notin {<<"in", inpipe>>}
    BY <1>5
  <2>2. Cardinality({<<"in", inpipe>>}) = 1 /\ IsFiniteSet({<<"in", inpipe>>})
    BY FS_Singleton
  <2>3. Cardinality({<<"in", inpipe>>} \union {<<"out", outpipe>>}) = 1 + 1
    BY <2>1, <2>2, FS_AddElement
  <2> QED BY <1>1, <1>5, <2>1, <2>3 DEF Some
<1> QED BY <1>2, <1>3, <1>4, <1>5

LEMMA PairStart == ASSUME Pa!Init PROVE PairInv
<1>1. in_end \in [Peers -> Pa!End] /\ out_end \in [Peers -> Pa!End]
  BY DEF Pa!Init, Pa!End
<1>2. Pa!AliveIsAwake
  BY DEF Pa!Init, Pa!AliveIsAwake
<1>3. part_in \in 0..MaxParts /\ part_out \in 0..MaxParts
  BY PairFacts DEF Pa!Init
<1>4. inpipe = NoPeer /\ outpipe = NoPeer /\ sent_to = NoPeer /\ part_out = 0
  BY DEF Pa!Init
<1>5. /\ inpipe_alive \in BOOLEAN /\ outpipe_alive \in BOOLEAN /\ pair_terminating = FALSE /\ pair_acks = 0
      /\ torn = FALSE /\ cut = FALSE /\ pair_aborted = "no"
  BY DEF Pa!Init
<1>6. ~(part_out > 0)
  BY <1>4
<1> QED BY <1>1, <1>2, <1>3, <1>4, <1>5, <1>6 DEF PairInv

LEMMA AttachStep == ASSUME PairInv, NEW p \in Peers, Pa!xattach_pipes(p) PROVE PairInv'
<1>1. inpipe = NoPeer /\ outpipe = NoPeer /\ inpipe' = p /\ outpipe' = p /\ p # NoPeer
  BY PairFacts DEF Pa!xattach_pipes, Pa!Apart
<1>2. /\ in_end' \in [Peers -> Pa!End] /\ out_end' \in [Peers -> Pa!End]
      /\ pair_terminating => in_end'[p] = "closed" /\ out_end'[p] = "closed"
      /\ ~pair_terminating => in_end'[p] \in {"ready", "spent"} /\ out_end'[p] \in {"ready", "spent"}
  BY DEF PairInv, Pa!xattach_pipes, Pa!End
<1>3. /\ inpipe_alive' = TRUE /\ outpipe_alive' = TRUE /\ pair_terminating' = pair_terminating
      /\ part_in' = part_in /\ part_out' = part_out /\ sent_to' = sent_to /\ torn' = torn
      /\ cut' = cut /\ pair_aborted' = pair_aborted
      /\ pair_acks' = IF pair_terminating THEN pair_acks + 2 ELSE pair_acks
  BY DEF Pa!xattach_pipes, Pa!Apart, Pa!messageVars, PairInv
<1>4. Pa!AliveIsAwake'
  BY <1>1, <1>2, <1>3 DEF Pa!AliveIsAwake
<1>5. pair_acks' = IF pair_terminating' THEN Some(inpipe') + Some(outpipe') ELSE 0
  BY <1>1, <1>3 DEF PairInv, Some
<1> QED BY <1>1, <1>2, <1>3, <1>4, <1>5 DEF PairInv

LEMMA AttachFailsStep == ASSUME PairInv, NEW p \in Peers, Pa!xattach_pipesFails(p) PROVE PairInv'
BY DEF PairInv, Pa!xattach_pipesFails, Pa!AliveIsAwake, Pa!messageVars, Pa!pairVars, Pa!endVars, Some

LEMMA InTerminatedStep == ASSUME PairInv, Pa!InTerminated PROVE PairInv'
<1>1. /\ inpipe \in Peers /\ inpipe' = NoPeer /\ outpipe' = outpipe /\ out_end' = out_end
      /\ inpipe_alive' = FALSE /\ outpipe_alive' = outpipe_alive /\ pair_terminating' = pair_terminating
      /\ part_in' = part_in /\ part_out' = part_out /\ sent_to' = sent_to /\ torn' = torn
      /\ cut' = cut /\ pair_aborted' = pair_aborted
      /\ pair_acks' = IF pair_terminating THEN pair_acks - 1 ELSE pair_acks
  BY PairFacts DEF PairInv, Pa!InTerminated, Pa!messageVars
<1>2. in_end' \in [Peers -> Pa!End]
  BY <1>1 DEF PairInv, Pa!InTerminated, Pa!End
<1>3. Pa!AliveIsAwake'
  BY <1>1 DEF PairInv, Pa!AliveIsAwake
<1>4. pair_acks' = IF pair_terminating' THEN Some(inpipe') + Some(outpipe') ELSE 0
  BY <1>1, PairFacts DEF PairInv, Some
<1> QED BY <1>1, <1>2, <1>3, <1>4 DEF PairInv

LEMMA OutTerminatedStep == ASSUME PairInv, Pa!OutTerminated PROVE PairInv'
<1>1. /\ outpipe \in Peers /\ outpipe' = NoPeer /\ inpipe' = inpipe /\ in_end' = in_end
      /\ outpipe_alive' = FALSE /\ inpipe_alive' = inpipe_alive /\ pair_terminating' = pair_terminating
      /\ part_in' = part_in /\ part_out' = part_out /\ sent_to' = sent_to /\ torn' = torn
      /\ cut' = (cut \/ part_out > 0) /\ pair_aborted' = pair_aborted
      /\ pair_acks' = IF pair_terminating THEN pair_acks - 1 ELSE pair_acks
  BY PairFacts DEF PairInv, Pa!OutTerminated, Pa!messageVars
<1>2. out_end' \in [Peers -> Pa!End]
  BY <1>1 DEF PairInv, Pa!OutTerminated, Pa!End
<1>3. Pa!AliveIsAwake'
  BY <1>1 DEF PairInv, Pa!AliveIsAwake
<1>4. pair_acks' = IF pair_terminating' THEN Some(inpipe') + Some(outpipe') ELSE 0
  BY <1>1, PairFacts DEF PairInv, Some
<1>5. ~cut' => ~(part_out' > 0)
  BY <1>1
<1>6. {inpipe', outpipe', sent_to'} \subseteq Peers \union {NoPeer}
  BY <1>1 DEF PairInv
<1> QED BY <1>1, <1>2, <1>3, <1>4, <1>5, <1>6 DEF PairInv

LEMMA PairTermStep == ASSUME PairInv, Pa!process_term PROVE PairInv'
BY PairFacts, PipesCounted DEF PairInv, Pa!process_term, Pa!AliveIsAwake, Pa!End, Pa!messageVars, Some

LEMMA PeerActsStep == ASSUME PairInv, Pa!PeerActs PROVE PairInv'
BY PairFacts DEF PairInv, Pa!PeerActs, Pa!AliveIsAwake, Pa!End, Pa!messageVars, Pa!pairVars, Some

LEMMA ActivatedStep == ASSUME PairInv, Pa!InActivated \/ Pa!OutActivated PROVE PairInv'
<1>1. CASE Pa!InActivated
  <2>1. /\ inpipe \in Peers /\ in_end[inpipe] = "asleep" /\ in_end' = [in_end EXCEPT ![inpipe] = "ready"]
        /\ inpipe_alive' = TRUE /\ pair_aborted' = (IF inpipe_alive THEN "activated" ELSE "no")
        /\ UNCHANGED <<inpipe, outpipe, outpipe_alive, pair_terminating, pair_acks, out_end, part_in, part_out, sent_to, torn, cut>>
    BY <1>1 DEF PairInv, Pa!InActivated, Pa!messageVars
  <2>2. in_end' \in [Peers -> Pa!End] /\ in_end'[inpipe] = "ready"
    BY <2>1 DEF PairInv, Pa!End
  <2>3. ~pair_terminating /\ ~inpipe_alive
    BY <2>1, PairFacts DEF PairInv, Pa!AliveIsAwake
  <2>4. Pa!AliveIsAwake'
    BY <2>1, <2>2, PairFacts DEF PairInv, Pa!AliveIsAwake
  <2> QED BY <2>1, <2>2, <2>3, <2>4 DEF PairInv
<1>2. CASE Pa!OutActivated
  <2>1. /\ outpipe \in Peers /\ out_end[outpipe] = "asleep" /\ out_end' = [out_end EXCEPT ![outpipe] = "ready"]
        /\ outpipe_alive' = TRUE /\ pair_aborted' = (IF outpipe_alive THEN "activated" ELSE "no")
        /\ UNCHANGED <<inpipe, outpipe, inpipe_alive, pair_terminating, pair_acks, in_end, part_in, part_out, sent_to, torn, cut>>
    BY <1>2 DEF PairInv, Pa!OutActivated, Pa!messageVars
  <2>2. out_end' \in [Peers -> Pa!End] /\ out_end'[outpipe] = "ready"
    BY <2>1 DEF PairInv, Pa!End
  <2>3. ~pair_terminating /\ ~outpipe_alive
    BY <2>1, PairFacts DEF PairInv, Pa!AliveIsAwake
  <2>4. Pa!AliveIsAwake'
    BY <2>1, <2>2, PairFacts DEF PairInv, Pa!AliveIsAwake
  <2> QED BY <2>1, <2>2, <2>3, <2>4 DEF PairInv
<1> QED BY <1>1, <1>2

LEMMA SendStep == ASSUME PairInv, NEW flag \in BOOLEAN, Pa!xsend(flag) PROVE PairInv'
BY PairFacts DEF PairInv, Pa!xsend, Pa!Tries, Pa!MayFollow, Pa!NextPart, Pa!AliveIsAwake, Pa!End, Pa!pairVars, Some

LEMMA ReceiveStep == ASSUME PairInv, NEW flag \in BOOLEAN, Pa!xrecv(flag) PROVE PairInv'
BY PairFacts DEF PairInv, Pa!xrecv, Pa!Tries, Pa!MayFollow, Pa!NextPart, Pa!AliveIsAwake, Pa!End, Pa!pairVars, Some

LEMMA FullOrEmptyStep == ASSUME PairInv, Pa!xhas_out \/ Pa!xhas_in PROVE PairInv'
<1>1. CASE Pa!xhas_out
  <2>1. /\ outpipe \in Peers /\ ~pair_terminating /\ out_end' = [out_end EXCEPT ![outpipe] = "asleep"]
        /\ outpipe_alive' = FALSE
        /\ UNCHANGED <<inpipe, outpipe, inpipe_alive, pair_terminating, pair_acks, in_end, part_in, part_out, sent_to, torn, cut, pair_aborted>>
    BY <1>1 DEF PairInv, Pa!xhas_out, Pa!Tries, Pa!messageVars
  <2>2. out_end' \in [Peers -> Pa!End] /\ out_end'[outpipe] = "asleep"
    BY <2>1 DEF PairInv, Pa!End
  <2>3. Pa!AliveIsAwake'
    BY <2>1, <2>2 DEF PairInv, Pa!AliveIsAwake
  <2> QED BY <2>1, <2>2, <2>3 DEF PairInv
<1>2. CASE Pa!xhas_in
  <2>1. /\ inpipe \in Peers /\ ~pair_terminating /\ inpipe_alive' = FALSE
        /\ \E e \in {"asleep", "closed"} : in_end' = [in_end EXCEPT ![inpipe] = e]
        /\ UNCHANGED <<inpipe, outpipe, outpipe_alive, pair_terminating, pair_acks, out_end, part_in, part_out, sent_to, torn, cut, pair_aborted>>
    BY <1>2 DEF PairInv, Pa!xhas_in, Pa!Tries, Pa!messageVars
  <2>2. in_end' \in [Peers -> Pa!End] /\ in_end'[inpipe] \in {"asleep", "closed"}
    BY <2>1 DEF PairInv, Pa!End
  <2>3. Pa!AliveIsAwake'
    BY <2>1, <2>2 DEF PairInv, Pa!AliveIsAwake
  <2> QED BY <2>1, <2>2, <2>3 DEF PairInv
<1> QED BY <1>1, <1>2

LEMMA PairStep == ASSUME PairInv, Pa!Next PROVE PairInv'
BY AttachStep, AttachFailsStep, InTerminatedStep, OutTerminatedStep, PairTermStep, PeerActsStep, ActivatedStep, SendStep, ReceiveStep,
   FullOrEmptyStep DEF Pa!Next

LEMMA PairStutter == ASSUME PairInv, UNCHANGED pairVars PROVE PairInv'
BY DEF PairInv, pairVars, Pa!AliveIsAwake

LEMMA PairIsSound == ASSUME PairInv PROVE Pa!PairSound
<1>1. pair_acks \in 0..2 * Cardinality(Peers)
  <2>1. Cardinality(Peers) \in Nat /\ (Peers # {} => Cardinality(Peers) >= 1)
    <3>1. Cardinality(Peers) \in Nat /\ (Cardinality(Peers) = 0 <=> Peers = {})
      BY PairFacts, FS_CardinalityType, FS_EmptySet
    <3> QED BY <3>1
  <2>2. pair_acks \in 0..2 /\ (pair_acks # 0 => Peers # {})
    BY PairFacts DEF PairInv, Some
  <2> QED BY <2>1, <2>2
<1>2. Pa!Cardinality(Peers) = Cardinality(Peers)
  BY DEF Pa!Cardinality, Cardinality
<1>3. Pa!TypeOK
  BY <1>1, <1>2 DEF PairInv, Pa!TypeOK
<1> QED BY <1>3 DEF PairInv, Pa!PairSound, Pa!WholeMessages, Pa!WokenWhenAsleep, Pa!AcksOutstanding, Some

LEMMA PairsStep ==
  ASSUME used = "pair" => PairInv, [SocketsNext]_socketsVars
  PROVE  (used = "pair" => PairInv)'
<1>1. used' = used
  BY DEF SocketsNext, OtherSockets, socketsVars
<1>2. CASE used = "pair"
  <2>1. PairInv /\ (Pa!Next \/ UNCHANGED pairVars)
    BY <1>2 DEF SocketsNext, socketsVars
  <2> QED BY <2>1, <1>1, PairStep, PairStutter
<1>3. CASE used # "pair"
  BY <1>1, <1>3
<1> QED BY <1>2, <1>3

\* pair.cpp: whatever peers come, go and wake the socket, a flag says that its
\* pipe is worth trying exactly when it is, so that the pipe is never given up and
\* never polled in vain; the parts of a message go to one peer, unless a peer has
\* gone in the middle of one; a pipe that is woken was thought to be asleep; and a
\* socket that terminates waits for exactly the pipes it still has.
THEOREM PairSoundHolds == SocketsSpec => [](used = "pair" => Pa!PairSound)
<1> DEFINE Inv == used = "pair" => PairInv
<1>1. SocketsInit => Inv
  BY PairStart DEF SocketsInit
<1>2. Inv /\ [SocketsNext]_socketsVars => Inv'
  BY PairsStep
<1>3. Inv => (used = "pair" => Pa!PairSound)
  BY PairIsSound
<1> HIDE DEF Inv
<1> QED BY <1>1, <1>2, <1>3, PTL DEF SocketsSpec

\* yqueue.hpp, swap.cpp, zmq.cpp: what holds messages is sound, whichever part is
\* used and in whatever order its calls come, of the swap until a rollback goes
\* astray.
THEOREM StorageSoundHolds == SocketsSpec => []StorageSound
<1>1. SocketsSpec => [](used = "ypipe" => Y!YPipeSound)
  BY QueueMemorySound
<1>2. SocketsSpec => [](used = "message" => Msg!MessagesSound)
  BY MessagesSoundHolds
<1>3. SocketsSpec => [](used = "swap" => Sw!SwapSound)
  BY SwapSoundHolds
<1> QED BY <1>1, <1>2, <1>3, PTL DEF StorageSound
=============================================================================
