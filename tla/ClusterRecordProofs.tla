------------------------ MODULE ClusterRecordProofs ------------------------
(***************************************************************************)
(* The record of a cluster, from the references to the coefficients read   *)
(* back: first the coefficient streams by themselves, then everything      *)
(* together.                                                               *)
(*                                                                         *)
(* Whatever cluster the layout hands over, whatever its coefficients and   *)
(* whichever stream is followed, the reader sets every coefficient to what *)
(* was written.  A code is told apart because of two bounds on its         *)
(* prefixes.  From below: a prefix shorter than its code is past all codes *)
(* of its length, since FirstCode doubles what it has passed.  From above: *)
(* the nodes of a Huffman tree at a depth (Kraft) are room for the codes   *)
(* of that length and for what lies under them, so a code of n bits has no *)
(* more than n.  No power of two is needed: the room doubles as FirstCode  *)
(* does.                                                                   *)
(*                                                                         *)
(* The record is then right because each part starts from what the one     *)
(* before it has been shown to deliver: the finished forest, IsForest, and *)
(* the levels of the layout.                                               *)
(***************************************************************************)
EXTENDS ClusterRecord, ReferenceForestProofs, ClusterLayoutProofs

(***************************************************************************)
(* `room' bounds the nodes at each depth of a tree with `leaves' of it.    *)
(***************************************************************************)
RoomFor(room, leaves) ==
    /\ room \in [Nat -> Nat] /\ leaves \in [Nat -> Nat]
    /\ room[0] = 1
    /\ \A l \in Nat : leaves[l] <= room[l] /\ room[l + 1] <= 2 * (room[l] - leaves[l])

LeavesOf(d) == [l \in Nat |-> Cardinality({s \in DOMAIN d : d[s] = l})]
Kraft(d) == \E room : RoomFor(room, LeavesOf(d))

\* The depths of the symbols under a node of the queue.
Tree(d) ==
    /\ DOMAIN d \in SUBSET Symbols /\ d \in [DOMAIN d -> Nat]
    /\ (\E s \in Symbols : DOMAIN d = {s}) \/ (\A s \in DOMAIN d : d[s] > 0)
    /\ \E n \in Nat : \A s \in DOMAIN d : d[s] <= n
    /\ Kraft(d)

Node(x) == x.freq \in Nat /\ x.sym \in DOMAIN x.depth /\ Tree(x.depth)

Apart(T) == \A x, y \in T : x # y => DOMAIN x.depth \cap DOMAIN y.depth = {}

Queue ==
    /\ IsFiniteSet(nodes) /\ nodes # {}
    /\ \A x \in nodes : Node(x)
    /\ Apart(nodes)
    /\ \A s \in Symbols : s \in Used <=> \E x \in nodes : s \in DOMAIN x.depth

Counts == [l \in Nat |-> BlCount(l)]

\* The code lengths: of the symbols in use, and those of a tree.
Model ==
    /\ len \in [Symbols -> Nat]
    /\ \A s \in Symbols : len[s] > 0 <=> s \in Used
    /\ \E n \in Nat : \A s \in Symbols : len[s] <= n
    /\ \E room : RoomFor(room, Counts)

-----------------------------------------------------------------------------
(***************************************************************************)
(* Functions on the numbers that are defined by recursion.                 *)
(***************************************************************************)
UpTo(a, G, n) ==
    {f \in [0 .. n -> Nat] : f[0] = a /\ \A i \in 0 .. n - 1 : f[i + 1] = G[i][f[i]]}

LEMMA Recursion ==
    ASSUME NEW a \in Nat, NEW G \in [Nat -> [Nat -> Nat]]
    PROVE  \E f \in [Nat -> Nat] : f[0] = a /\ \A i \in Nat : f[i + 1] = G[i][f[i]]
  <1>1. ASSUME NEW n \in Nat PROVE UpTo(a, G, n) # {}
    <2> DEFINE T == {k \in Nat : UpTo(a, G, k) = {}}
    <2>1. SUFFICES ASSUME T # {} PROVE FALSE
      OBVIOUS
    <2>2. PICK k \in T : \A j \in T : k <= j
      BY <2>1, Minimum
    <2>3. CASE k = 0
      <3>1. [i \in 0 .. 0 |-> a] \in UpTo(a, G, 0)
        BY DEF UpTo
      <3> QED BY <2>3, <3>1
    <2>4. CASE k # 0
      <3>1. k - 1 \in Nat /\ k - 1 \notin T /\ k \in Nat /\ k > 0
        BY <2>2, <2>4
      <3>2. PICK f : f \in UpTo(a, G, k - 1)
        BY <3>1
      <3>3. /\ f \in [0 .. k - 1 -> Nat] /\ f[0] = a
            /\ \A i \in 0 .. (k - 1) - 1 : f[i + 1] = G[i][f[i]]
        BY <3>1, <3>2 DEF UpTo
      <3> DEFINE g == [i \in 0 .. k |-> IF i = k THEN G[k - 1][f[k - 1]] ELSE f[i]]
      <3>4. G[k - 1][f[k - 1]] \in Nat
        BY <3>1, <3>3
      <3>5. g \in [0 .. k -> Nat] /\ g[0] = a
        <4>1. ASSUME NEW i \in 0 .. k, i # k PROVE f[i] \in Nat
          <5>1. i \in 0 .. k - 1
            BY <3>1, <4>1
          <5> QED BY <3>3, <5>1
        <4>2. 0 \in 0 .. k /\ 0 # k
          BY <3>1
        <4> QED BY <3>3, <3>4, <4>1, <4>2
      <3>6. ASSUME NEW i \in 0 .. k - 1 PROVE g[i + 1] = G[i][g[i]]
        <4>1. CASE i = k - 1
          BY <3>1, <4>1
        <4>2. CASE i # k - 1
          <5>1. i \in 0 .. (k - 1) - 1 /\ i + 1 # k /\ i # k /\ i + 1 \in 0 .. k /\ i \in 0 .. k
            BY <3>1, <4>2
          <5> QED BY <3>3, <5>1
        <4> QED BY <4>1, <4>2
      <3>7. g \in UpTo(a, G, k)
        BY <3>5, <3>6 DEF UpTo
      <3> QED BY <3>7
    <2> QED BY <2>3, <2>4
  <1>2. ASSUME NEW m \in Nat, NEW n \in Nat, NEW f \in UpTo(a, G, m), NEW g \in UpTo(a, G, n),
               NEW i \in Nat, i <= m, i <= n
        PROVE  f[i] = g[i]
    <2> DEFINE T == {k \in Nat : k <= m /\ k <= n /\ f[k] # g[k]}
    <2>1. SUFFICES ASSUME T # {} PROVE FALSE
      BY <1>2
    <2>2. PICK k \in T : \A j \in T : k <= j
      BY <2>1, Minimum
    <2>3. /\ f[0] = a /\ \A j \in 0 .. m - 1 : f[j + 1] = G[j][f[j]]
          /\ g[0] = a /\ \A j \in 0 .. n - 1 : g[j + 1] = G[j][g[j]]
      BY DEF UpTo
    <2>4. k # 0 /\ k \in Nat /\ k <= m /\ k <= n
      BY <2>2, <2>3
    <2>5. k - 1 \in Nat /\ k - 1 \in 0 .. m - 1 /\ k - 1 \in 0 .. n - 1 /\ (k - 1) + 1 = k
      BY <2>4
    <2>6. f[k - 1] = g[k - 1]
      <3>1. k - 1 \notin T
        BY <2>2, <2>5
      <3>2. k - 1 <= m /\ k - 1 <= n
        BY <2>4
      <3> QED BY <2>5, <3>1, <3>2
    <2>7. f[k] = g[k]
      BY <2>3, <2>5, <2>6
    <2> QED BY <2>2, <2>7
  <1> DEFINE Of(n) == CHOOSE f : f \in UpTo(a, G, n)
             h == [n \in Nat |-> Of(n)[n]]
  <1>3. ASSUME NEW n \in Nat PROVE Of(n) \in UpTo(a, G, n)
    BY <1>1
  <1> HIDE DEF Of
  <1>4. h \in [Nat -> Nat]
    <2>1. ASSUME NEW n \in Nat PROVE Of(n)[n] \in Nat
      <3>1. Of(n) \in [0 .. n -> Nat] /\ n \in 0 .. n
        BY <1>3 DEF UpTo
      <3> QED BY <3>1
    <2> QED BY <2>1
  <1>5. h[0] = a
    <2>1. Of(0)[0] = a
      BY <1>3 DEF UpTo
    <2> QED BY <2>1
  <1>6. ASSUME NEW i \in Nat PROVE h[i + 1] = G[i][h[i]]
    <2>1. Of(i + 1) \in UpTo(a, G, i + 1) /\ Of(i) \in UpTo(a, G, i)
      BY <1>3
    <2>2. Of(i + 1)[i] = Of(i)[i]
      BY <1>2, <2>1
    <2>3. i \in 0 .. (i + 1) - 1
      OBVIOUS
    <2>4. Of(i + 1)[i + 1] = G[i][Of(i + 1)[i]]
      BY <2>1, <2>3 DEF UpTo
    <2>5. h[i + 1] = Of(i + 1)[i + 1] /\ h[i] = Of(i)[i]
      OBVIOUS
    <2> QED BY <2>2, <2>4, <2>5
  <1> QED BY <1>4, <1>5, <1>6

\* A recursive function is what its definition says, given that there is one.
LEMMA ShiftedByNone ==
    ASSUME NEW x \in Nat
    PROVE  /\ ShiftRight(x, 0) = x
           /\ \A i \in Nat : /\ ShiftRight(x, i) \in Nat
                             /\ ShiftRight(x, i + 1) = ShiftRight(x, i) \div 2
  <1> DEFINE G == [i \in Nat |-> [n \in Nat |-> n \div 2]]
             R(f) == [j \in Nat |-> IF j = 0 THEN x ELSE f[j - 1] \div 2]
             half == CHOOSE f : f = R(f)
  <1>1. \A n \in Nat : n \div 2 \in Nat
    OBVIOUS
  <1>2. G \in [Nat -> [Nat -> Nat]]
    BY <1>1
  <1>3. PICK f \in [Nat -> Nat] : f[0] = x /\ \A i \in Nat : f[i + 1] = G[i][f[i]]
    BY <1>2, Recursion
  <1>4. f = R(f)
    <2>1. ASSUME NEW j \in Nat, j # 0 PROVE f[j] = f[j - 1] \div 2
      <3>1. j - 1 \in Nat /\ (j - 1) + 1 = j
        BY <2>1
      <3>2. f[j] = G[j - 1][f[j - 1]] /\ f[j - 1] \in Nat
        BY <1>3, <3>1
      <3> QED BY <3>1, <3>2
    <2> QED BY <1>3, <2>1
  <1>5. half = R(half)
    BY <1>4
  <1>6. \A i \in Nat : ShiftRight(x, i) = half[i]
    BY DEF ShiftRight
  <1> HIDE DEF half
  <1>7. half[0] = x
    BY <1>5
  <1>8. \A i \in Nat : half[i + 1] = half[i] \div 2
    <2>1. ASSUME NEW i \in Nat PROVE half[i + 1] = half[i] \div 2
      <3>1. i + 1 \in Nat /\ i + 1 # 0 /\ (i + 1) - 1 = i
        OBVIOUS
      <3> QED BY <1>5, <3>1
    <2> QED BY <2>1
  <1>9. ASSUME NEW i \in Nat PROVE half[i] \in Nat
    <2> DEFINE T == {k \in Nat : half[k] \notin Nat}
    <2>1. SUFFICES ASSUME T # {} PROVE FALSE
      OBVIOUS
    <2>2. PICK k \in T : \A j \in T : k <= j
      BY <2>1, Minimum
    <2>3. k # 0
      BY <1>7, <2>2
    <2>4. k - 1 \in Nat /\ k - 1 \notin T /\ (k - 1) + 1 = k
      BY <2>2, <2>3
    <2>5. half[k] = half[k - 1] \div 2 /\ half[k - 1] \in Nat
      BY <1>8, <2>4
    <2> QED BY <1>1, <2>2, <2>5
  <1> QED BY <1>6, <1>7, <1>8, <1>9

LEMMA FirstCodes ==
    ASSUME \A b \in Nat : BlCount(b) \in Nat
    PROVE  /\ FirstCode[0] = 0
           /\ \A b \in Nat : /\ FirstCode[b] \in Nat
                             /\ FirstCode[b + 1] = 2 * (FirstCode[b] + BlCount(b))
  <1> DEFINE G == [i \in Nat |-> [n \in Nat |-> 2 * (n + BlCount(i))]]
             R(f) == [b \in Nat |-> IF b = 0 THEN 0 ELSE 2 * (f[b - 1] + BlCount(b - 1))]
  <1>1. \A m, n \in Nat : 2 * (n + BlCount(m)) \in Nat
    OBVIOUS
  <1>2. G \in [Nat -> [Nat -> Nat]]
    BY <1>1
  <1>3. PICK f \in [Nat -> Nat] : f[0] = 0 /\ \A i \in Nat : f[i + 1] = G[i][f[i]]
    BY <1>2, Recursion
  <1>4. f = R(f)
    <2>1. ASSUME NEW j \in Nat, j # 0 PROVE f[j] = 2 * (f[j - 1] + BlCount(j - 1))
      <3>1. j - 1 \in Nat /\ (j - 1) + 1 = j
        BY <2>1
      <3>2. f[j] = G[j - 1][f[j - 1]] /\ f[j - 1] \in Nat
        BY <1>3, <3>1
      <3> QED BY <3>1, <3>2
    <2> QED BY <1>3, <2>1
  <1>5. FirstCode = R(FirstCode)
    BY <1>4 DEF FirstCode
  <1>6. FirstCode[0] = 0
    BY <1>5
  <1>7. ASSUME NEW b \in Nat PROVE FirstCode[b + 1] = 2 * (FirstCode[b] + BlCount(b))
    <2>1. b + 1 \in Nat /\ b + 1 # 0 /\ (b + 1) - 1 = b
      OBVIOUS
    <2> QED BY <1>5, <2>1
  <1>8. ASSUME NEW b \in Nat PROVE FirstCode[b] \in Nat
    <2> DEFINE T == {k \in Nat : FirstCode[k] \notin Nat}
    <2>1. SUFFICES ASSUME T # {} PROVE FALSE
      OBVIOUS
    <2>2. PICK k \in T : \A j \in T : k <= j
      BY <2>1, Minimum
    <2>3. k # 0
      BY <1>6, <2>2
    <2>4. k - 1 \in Nat /\ k - 1 \notin T /\ (k - 1) + 1 = k
      BY <2>2, <2>3
    <2>5. FirstCode[k] = 2 * (FirstCode[k - 1] + BlCount(k - 1)) /\ FirstCode[k - 1] \in Nat
      BY <1>7, <2>4
    <2> QED BY <1>1, <2>2, <2>4, <2>5
  <1> QED BY <1>6, <1>7, <1>8

-----------------------------------------------------------------------------
(***************************************************************************)
(* The symbols of the stream.                                              *)
(***************************************************************************)
Chosen == q \in Quantised /\ stream \in Streams /\ Group(stream.group) # {}

\* The layout puts what has no parent in front, so groups are ranges.
LEMMA Ranges ==
    ASSUME Delivered(cluster), NEW g \in {"root", "linkage"}
    PROVE  /\ Group(g) = From(g) .. To(g) - 1
           /\ From(g) \in Nat /\ To(g) \in Nat /\ From(g) <= To(g) /\ To(g) <= Total(cluster)
  <1>1. PICK n, first, nv, o : /\ n = Total(cluster) /\ first = FirstLinkage
                               /\ nv = cluster.nv /\ o = cluster.depth_offsets[1]
    OBVIOUS
  <1>2. /\ n \in Nat /\ nv \in Nat /\ o \in Nat /\ first = nv + o /\ first <= n
        /\ Locals(cluster) = 0 .. n - 1
    BY <1>1 DEF Delivered, FirstLinkage, Total, Locals
  <1>3. first \in Nat /\ nv <= first
    BY <1>2
  <1>4. \A u \in Locals(cluster) : cluster.parent[u] = 0 <=> u < first
    BY <1>1 DEF Delivered, FirstLinkage
  <1>5. Linkage = first .. n - 1
    <2>1. ASSUME NEW u \in Linkage PROVE u \in first .. n - 1
      <3>1. u \in 0 .. n - 1 /\ ~(u < first)
        BY <1>2, <1>4 DEF Linkage
      <3> QED BY <1>2, <1>3, <3>1
    <2>2. ASSUME NEW u \in first .. n - 1 PROVE u \in Linkage
      <3>1. u \in 0 .. n - 1 /\ ~(u < first) /\ u >= nv
        BY <1>2, <1>3
      <3>2. u \in Locals(cluster) /\ u >= cluster.nv /\ cluster.parent[u] # 0
        BY <1>1, <1>2, <1>4, <3>1
      <3> QED BY <3>2 DEF Linkage
    <2> QED BY <2>1, <2>2
  <1>6. Locals(cluster) \ Linkage = 0 .. first - 1
    BY <1>2, <1>3, <1>5
  <1>7. From("linkage") = first /\ To("linkage") = n /\ From("root") = 0 /\ To("root") = first
    BY <1>1 DEF From, To
  <1>8. CASE g = "linkage"
    <2>1. Group(g) = first .. n - 1 /\ From(g) = first /\ To(g) = n
      BY <1>5, <1>7, <1>8 DEF Group
    <2> QED BY <1>1, <1>2, <1>3, <2>1
  <1>9. CASE g = "root"
    <2>1. Group(g) = 0 .. first - 1 /\ From(g) = 0 /\ To(g) = first
      BY <1>6, <1>7, <1>9 DEF Group
    <2> QED BY <1>1, <1>2, <1>3, <2>1
  <1> QED BY <1>8, <1>9

LEMMA StreamFacts ==
    ASSUME Delivered(cluster), Chosen
    PROVE  /\ stream.group \in {"root", "linkage"}
           /\ stream.first \in Nat /\ stream.count \in Nat /\ stream.count > 0
           /\ \A row \in 0 .. stream.count - 1 : stream.first + row \in 1 .. Layers
           /\ ReadWidth \in Nat /\ ReadWidth > 0 /\ Width = ReadWidth
           /\ \A column \in 0 .. ReadWidth - 1 :
                 /\ Ascending(Group(stream.group))[column + 1] = From(stream.group) + column
                 /\ From(stream.group) + column \in Locals(cluster)
  <1>1. PICK g, first, count : g = stream.group /\ first = stream.first /\ count = stream.count
    OBVIOUS
  <1>2. /\ g \in {"root", "linkage"} /\ first \in Nat /\ count \in Nat /\ count > 0
        /\ first >= 1 /\ first + count - 1 <= Layers /\ Layers \in Nat
    BY <1>1, CodecAssumption DEF Chosen, Streams
  <1>3. \A row \in 0 .. count - 1 : first + row \in 1 .. Layers
    BY <1>2
  <1>4. PICK lo, hi, n, w : /\ lo = From(g) /\ hi = To(g) /\ n = Total(cluster)
                            /\ w = ReadWidth
    OBVIOUS
  <1>5. /\ Group(g) = lo .. hi - 1
        /\ lo \in Nat /\ hi \in Nat /\ lo <= hi /\ hi <= n
    BY <1>2, <1>4, Ranges
  <1>6. n \in Nat /\ Locals(cluster) = 0 .. n - 1
    BY <1>4 DEF Delivered, Locals
  <1>7. w = hi - lo
    BY <1>1, <1>4 DEF ReadWidth
  <1>8. w \in Nat /\ w > 0
    <2>1. Group(g) # {}
      BY <1>1 DEF Chosen
    <2>2. lo <= hi - 1
      BY <1>5, <2>1
    <2> QED BY <1>5, <1>7, <2>2
  <1>9. Width = w
    <2>1. Width = Cardinality(lo .. hi - 1)
      BY <1>1, <1>5 DEF Width
    <2>2. lo \in Int /\ hi - 1 \in Int /\ ~(lo > hi - 1) /\ (hi - 1) - lo + 1 = w
      BY <1>5, <1>7, <1>8
    <2> QED BY <2>1, <2>2, FS_Interval
  <1>10. ASSUME NEW column \in 0 .. w - 1
         PROVE  Ascending(Group(g))[column + 1] = lo + column /\ lo + column \in Locals(cluster)
    <2>1. column \in Nat /\ lo + column \in lo .. hi - 1 /\ lo + column \in 0 .. n - 1
      BY <1>5, <1>6, <1>7, <1>8
    <2> DEFINE B == {y \in lo .. hi - 1 : y < lo + column}
    <2>2. B = lo .. lo + column - 1
      BY <1>5, <2>1
    <2>3. lo \in Int /\ lo + column - 1 \in Int
          /\ (IF lo > lo + column - 1 THEN 0 ELSE (lo + column - 1) - lo + 1) = column
      BY <1>5, <2>1
    <2>4. Cardinality(B) = (column + 1) - 1
      <3>1. Cardinality(lo .. lo + column - 1) =
               IF lo > lo + column - 1 THEN 0 ELSE (lo + column - 1) - lo + 1
        BY <2>3, FS_Interval
      <3>2. Cardinality(B) = column
        BY <2>2, <2>3, <3>1
      <3> QED BY <2>1, <3>2
    <2>5. lo .. hi - 1 \in SUBSET Nat /\ IsFiniteSet(lo .. hi - 1) /\ column + 1 \in Nat
      BY <1>5, <2>1, FS_Interval
    <2>6. Ascending(lo .. hi - 1)[column + 1] = lo + column
      BY <2>1, <2>4, <2>5, AscendingAt
    <2> QED BY <1>5, <1>6, <2>1, <2>6
  <1> QED BY <1>1, <1>2, <1>3, <1>4, <1>8, <1>9, <1>10

\* Rows and columns of width w number the symbols of count rows.
LEMMA RowsAndColumns ==
    ASSUME NEW w \in Nat, w > 0, NEW count \in Nat
    PROVE  /\ count * w \in Nat
           /\ \A row \in 0 .. count - 1, column \in 0 .. w - 1 :
                 /\ row * w + column \in 0 .. count * w - 1
                 /\ (row * w + column) \div w = row /\ (row * w + column) % w = column
           /\ \A k \in 0 .. count * w - 1 :
                 /\ k \div w \in 0 .. count - 1 /\ k % w \in 0 .. w - 1
                 /\ k = (k \div w) * w + (k % w)
  <1>1. count * w \in Nat
    OBVIOUS
  <1>2. ASSUME NEW a \in Nat, NEW b \in Nat, a < b PROVE a * w + w <= b * w /\ a * w \in Nat
    <2>1. PICK d : d = b - a - 1
      OBVIOUS
    <2>2. d \in Nat /\ b = a + 1 + d
      BY <1>2, <2>1
    <2>3. b * w = a * w + w + d * w /\ d * w \in Nat /\ a * w \in Nat
      BY <2>2
    <2> QED BY <2>3
  <1>3. ASSUME NEW row \in 0 .. count - 1, NEW column \in 0 .. w - 1
        PROVE  /\ row * w + column \in 0 .. count * w - 1
               /\ (row * w + column) \div w = row /\ (row * w + column) % w = column
    <2>1. row \in Nat /\ row < count /\ column \in Nat /\ column < w
      OBVIOUS
    <2>2. PICK p, t : p = row * w /\ t = count * w
      OBVIOUS
    <2>3. p + w <= t /\ p \in Nat /\ t \in Nat
      BY <1>1, <1>2, <2>1, <2>2
    <2>4. p + column \in 0 .. t - 1
      BY <2>1, <2>3
    <2>5. (row * w + column) \div w = row /\ (row * w + column) % w = column
      BY <2>1
    <2> QED BY <2>2, <2>4, <2>5
  <1>4. ASSUME NEW k \in 0 .. count * w - 1
        PROVE  /\ k \div w \in 0 .. count - 1 /\ k % w \in 0 .. w - 1
               /\ k = (k \div w) * w + (k % w)
    <2>1. k \in Nat /\ k < count * w
      BY <1>1
    <2>2. k \div w \in Nat /\ k % w \in 0 .. w - 1 /\ k = (k \div w) * w + (k % w)
      BY <2>1
    <2>3. PICK a, b, t, p : a = k \div w /\ b = k % w /\ t = count * w /\ p = a * w
      OBVIOUS
    <2>4. a \in Nat /\ b \in 0 .. w - 1 /\ k = p + b /\ k < t /\ k \in Nat /\ t \in Nat
      BY <1>1, <2>1, <2>2, <2>3
    <2>5. a < count
      <3>1. ASSUME count < a PROVE FALSE
        <4>1. t + w <= p /\ p \in Nat
          BY <1>2, <2>3, <2>4, <3>1
        <4> QED BY <2>4, <4>1
      <3>2. ASSUME count = a PROVE FALSE
        <4>1. p = t
          BY <2>3, <3>2
        <4> QED BY <2>4, <4>1
      <3> QED BY <2>4, <3>1, <3>2
    <2> QED BY <2>2, <2>3, <2>4, <2>5
  <1> QED BY <1>1, <1>3, <1>4

Positions == 0 .. NSymbols - 1

LEMMA SymbolFacts ==
    ASSUME Delivered(cluster), Chosen
    PROVE  /\ NSymbols \in Nat /\ NSymbols > 0 /\ NSymbols = stream.count * ReadWidth
           /\ \A k \in Positions : Symbol(k) \in Symbols
           /\ \A row \in 0 .. stream.count - 1, column \in 0 .. ReadWidth - 1 :
                 /\ row * ReadWidth + column \in Positions
                 /\ Symbol(row * ReadWidth + column)
                       = q[stream.first + row][From(stream.group) + column] + QMax
  <1>1. PICK w, count, lo, first : /\ w = ReadWidth /\ count = stream.count
                                   /\ lo = From(stream.group) /\ first = stream.first
    OBVIOUS
  <1>2. /\ count \in Nat /\ count > 0 /\ w \in Nat /\ w > 0 /\ Width = w
        /\ \A row \in 0 .. count - 1 : first + row \in 1 .. Layers
        /\ \A column \in 0 .. w - 1 :
              /\ Ascending(Group(stream.group))[column + 1] = lo + column
              /\ lo + column \in Locals(cluster)
    BY <1>1, StreamFacts
  <1>3. NSymbols = count * w
    BY <1>1, <1>2 DEF NSymbols
  <1>4. /\ count * w \in Nat
        /\ \A row \in 0 .. count - 1, column \in 0 .. w - 1 :
              /\ row * w + column \in 0 .. count * w - 1
              /\ (row * w + column) \div w = row /\ (row * w + column) % w = column
        /\ \A k \in 0 .. count * w - 1 :
              /\ k \div w \in 0 .. count - 1 /\ k % w \in 0 .. w - 1
              /\ k = (k \div w) * w + (k % w)
    BY <1>2, RowsAndColumns
  <1>5. ASSUME NEW row \in 0 .. count - 1, NEW column \in 0 .. w - 1
        PROVE  /\ SymbolOf(row, column) = q[first + row][lo + column] + QMax
               /\ SymbolOf(row, column) \in Symbols
    <2>1. SymbolOf(row, column) = q[first + row][lo + column] + QMax
      BY <1>1, <1>2 DEF SymbolOf, SymFromQ
    <2>2. q[first + row][lo + column] \in -QMax .. QMax
      BY <1>2 DEF Chosen, Quantised
    <2>3. PICK c : c = q[first + row][lo + column]
      OBVIOUS
    <2>4. c + QMax \in 0 .. 2 * QMax
      <3>1. c \in -QMax .. QMax /\ QMax \in Nat
        BY <2>2, <2>3, CodecAssumption
      <3> QED BY <3>1
    <2>5. 0 .. 2 * QMax = Symbols
      BY CodecAssumption DEF Symbols, S
    <2> QED BY <2>1, <2>3, <2>4, <2>5
  <1>6. NSymbols > 0
    <2>1. 0 \in 0 .. count - 1 /\ 0 \in 0 .. w - 1
      BY <1>2
    <2>2. 0 * w + 0 \in 0 .. count * w - 1
      BY <1>4, <2>1
    <2> QED BY <1>3, <1>4, <2>2
  <1>7. ASSUME NEW k \in Positions PROVE Symbol(k) \in Symbols
    <2>1. k \div w \in 0 .. count - 1 /\ k % w \in 0 .. w - 1
      BY <1>3, <1>4 DEF Positions
    <2>2. Symbol(k) = SymbolOf(k \div w, k % w)
      BY <1>2 DEF Symbol
    <2> QED BY <1>5, <2>1, <2>2
  <1>8. ASSUME NEW row \in 0 .. count - 1, NEW column \in 0 .. w - 1
        PROVE  /\ row * w + column \in Positions
               /\ Symbol(row * w + column) = q[first + row][lo + column] + QMax
    <2>1. Symbol(row * w + column) = SymbolOf(row, column)
      BY <1>2, <1>4 DEF Symbol
    <2> QED BY <1>3, <1>4, <1>5, <2>1 DEF Positions
  <1> QED BY <1>1, <1>3, <1>4, <1>6, <1>7, <1>8

LEMMA SymbolsFinite ==
    /\ IsFiniteSet(Symbols) /\ Symbols \in SUBSET Nat
    /\ \A T \in SUBSET Symbols : IsFiniteSet(T) /\ Cardinality(T) \in Nat
  <1>1. 0 \in Int /\ S - 1 \in Int
    BY CodecAssumption DEF S
  <1>2. IsFiniteSet(Symbols) /\ Symbols \in SUBSET Nat
    BY <1>1, FS_Interval DEF Symbols
  <1>3. \A T \in SUBSET Symbols : IsFiniteSet(T) /\ Cardinality(T) \in Nat
    BY <1>2, FS_Subset, FS_CardinalityType
  <1> QED BY <1>2, <1>3

LEMMA UsedAre ==
    ASSUME Delivered(cluster), Chosen
    PROVE  /\ \A s \in Symbols : Freq(s) \in Nat
           /\ \A s \in Symbols : s \in Used <=> \E k \in Positions : Symbol(k) = s
           /\ Used # {}
  <1>1. NSymbols \in Nat /\ NSymbols > 0 /\ \A k \in Positions : Symbol(k) \in Symbols
    BY SymbolFacts
  <1>2. IsFiniteSet(Positions)
    <2>1. 0 \in Int /\ NSymbols - 1 \in Int
      BY <1>1
    <2> QED BY <2>1, FS_Interval DEF Positions
  <1>3. ASSUME NEW s \in Symbols
        PROVE  Freq(s) \in Nat /\ (s \in Used <=> \E k \in Positions : Symbol(k) = s)
    <2> DEFINE K == {k \in Positions : Symbol(k) = s}
    <2>1. Freq(s) = Cardinality(K)
      BY DEF Freq, Positions
    <2>2. K \in SUBSET Positions /\ (K # {} <=> \E k \in Positions : Symbol(k) = s)
      OBVIOUS
    <2> HIDE DEF K
    <2>3. IsFiniteSet(K)
      BY <1>2, <2>2, FS_Subset
    <2>4. Cardinality(K) \in Nat /\ (Cardinality(K) = 0 <=> K = {})
      BY <2>3, FS_CardinalityType, FS_EmptySet
    <2>5. Cardinality(K) > 0 <=> K # {}
      BY <2>4
    <2> QED BY <2>1, <2>2, <2>4, <2>5 DEF Used
  <1>4. Used # {}
    <2>1. 0 \in Positions
      BY <1>1 DEF Positions
    <2> QED BY <1>1, <1>3, <2>1
  <1> QED BY <1>3, <1>4

-----------------------------------------------------------------------------
(***************************************************************************)
(* The canonical code.                                                     *)
(***************************************************************************)
LEMMA CountFacts ==
    ASSUME Model
    PROVE  /\ \A b \in Nat : BlCount(b) \in Nat
           /\ FirstCode[0] = 0
           /\ \A b \in Nat : /\ FirstCode[b] \in Nat
                             /\ FirstCode[b + 1] = 2 * (FirstCode[b] + BlCount(b))
  <1>1. \A b \in Nat : BlCount(b) \in Nat
    BY SymbolsFinite DEF BlCount
  <1> QED BY <1>1, FirstCodes

LEMMA MaxLenFacts ==
    ASSUME Model
    PROVE  MaxLen \in Nat /\ \A s \in Symbols : len[s] <= MaxLen
  <1> DEFINE L == {len[s] : s \in Symbols}
             T == {n \in Nat : \A s \in Symbols : len[s] <= n}
  <1>1. len \in [Symbols -> Nat] /\ T # {}
    BY DEF Model
  <1>2. PICK n \in T : \A m \in T : n <= m
    BY <1>1, Minimum
  <1>3. 0 \in Symbols
    BY CodecAssumption DEF Symbols, S
  <1>4. ASSUME \A s \in Symbols : len[s] # n PROVE FALSE
    <2>1. \A s \in Symbols : len[s] \in Nat /\ len[s] <= n - 1
      BY <1>1, <1>2, <1>4
    <2>2. n - 1 \in Nat
      BY <1>2, <1>3, <2>1
    <2>3. n - 1 \in T
      BY <2>1, <2>2
    <2> QED BY <1>2, <2>2, <2>3
  <1>5. n \in L /\ \A s \in Symbols : len[s] <= n
    BY <1>2, <1>4
  <1>6. MaxLen \in L /\ \A s \in Symbols : len[s] <= MaxLen
    BY <1>5 DEF MaxLen
  <1> QED BY <1>1, <1>6

\* The symbols with a code of b bits, of which i are smaller than s.
OfLength(b) == {s \in Symbols : len[s] = b}
Index(s) == Cardinality({x \in 0 .. s - 1 : len[x] = len[s]})

LEMMA IndexFacts ==
    ASSUME Model, NEW s \in Symbols, len[s] > 0
    PROVE  /\ Index(s) \in Nat /\ Index(s) < BlCount(len[s])
           /\ Index(s) = Cardinality({x \in OfLength(len[s]) : x < s})
           /\ Code(s) = FirstCode[len[s]] + Index(s)
  <1>1. len \in [Symbols -> Nat]
    BY DEF Model
  <1>2. {x \in 0 .. s - 1 : len[x] = len[s]} = {x \in OfLength(len[s]) : x < s}
    <2>1. \A x : x \in 0 .. s - 1 <=> x \in Symbols /\ x < s
      BY CodecAssumption DEF Symbols, S
    <2> QED BY <2>1 DEF OfLength
  <1> DEFINE A == {x \in OfLength(len[s]) : x < s}
             B == OfLength(len[s])
  <1>3. A \in SUBSET B /\ s \in B /\ s \notin A /\ B \in SUBSET Symbols
    BY CodecAssumption DEF OfLength, Symbols, S
  <1>4. BlCount(len[s]) = Cardinality(B)
    BY DEF BlCount, OfLength
  <1>5. Index(s) = Cardinality(A)
    BY <1>2 DEF Index
  <1>6. Code(s) = FirstCode[len[s]] + Index(s)
    BY DEF Code, Index
  <1> HIDE DEF A, B
  <1>7. IsFiniteSet(B) /\ A # B /\ A \in SUBSET Symbols
    BY <1>3, SymbolsFinite
  <1>8. Cardinality(A) <= Cardinality(B) /\ (Cardinality(A) = Cardinality(B) => A = B)
    BY <1>3, <1>7, FS_Subset
  <1>9. Cardinality(A) \in Nat /\ Cardinality(B) \in Nat
    BY <1>3, <1>7, SymbolsFinite
  <1>10. Cardinality(A) < Cardinality(B)
    BY <1>7, <1>8, <1>9
  <1>11. A = {x \in OfLength(len[s]) : x < s}
    BY DEF A
  <1> QED BY <1>4, <1>5, <1>6, <1>9, <1>10, <1>11

\* The first b bits of the code of s.
Prefix(s, b) == ShiftRight(Code(s), len[s] - b)

(***************************************************************************)
(* A prefix is past the codes of its length and within the room of it.     *)
(***************************************************************************)
LEMMA Prefixes ==
    ASSUME Model, NEW s \in Symbols, len[s] > 0
    PROVE  /\ Prefix(s, 0) = 0
           /\ Prefix(s, len[s]) = Code(s)
           /\ \A b \in 0 .. len[s] - 1 :
                 /\ Prefix(s, b) \in Nat /\ Prefix(s, b + 1) \in Nat
                 /\ Prefix(s, b + 1) = 2 * Prefix(s, b) + (Prefix(s, b + 1) % 2)
                 /\ FirstCode[b] + BlCount(b) <= Prefix(s, b)
  <1>1. PICK n, code, fc, bl : /\ n = len[s] /\ code = Code(s)
                               /\ fc = [b \in Nat |-> FirstCode[b]]
                               /\ bl = [b \in Nat |-> BlCount(b)]
    OBVIOUS
  <1>2. /\ fc \in [Nat -> Nat] /\ bl \in [Nat -> Nat] /\ fc[0] = 0
        /\ \A b \in Nat : fc[b + 1] = 2 * (fc[b] + bl[b])
    BY <1>1, CountFacts
  <1>3. n \in Nat /\ n > 0
    BY <1>1 DEF Model
  <1>4. /\ code \in Nat /\ fc[n] <= code /\ code < fc[n] + bl[n]
    <2>1. PICK i : i = Index(s)
      OBVIOUS
    <2>2. i \in Nat /\ i < BlCount(len[s]) /\ Code(s) = FirstCode[len[s]] + i
      BY <2>1, IndexFacts
    <2>3. fc[n] = FirstCode[len[s]] /\ bl[n] = BlCount(len[s]) /\ fc[n] \in Nat /\ bl[n] \in Nat
      BY <1>1, <1>2, <1>3
    <2>4. code = fc[n] + i /\ i < bl[n]
      BY <1>1, <2>2, <2>3
    <2> QED BY <2>2, <2>3, <2>4
  <1>5. PICK room : RoomFor(room, bl)
    BY <1>1 DEF Model, Counts
  <1>6. /\ room \in [Nat -> Nat] /\ room[0] = 1
        /\ \A l \in Nat : bl[l] <= room[l] /\ room[l + 1] <= 2 * (room[l] - bl[l])
    BY <1>5 DEF RoomFor
  <1> DEFINE v == [b \in 0 .. n |-> ShiftRight(code, n - b)]
  <1>7. /\ v[n] = code
        /\ \A b \in 0 .. n : v[b] \in Nat
        /\ \A b \in 0 .. n - 1 : v[b] = v[b + 1] \div 2
    <2>1. v[n] = code
      <3>1. n - n = 0 /\ n \in 0 .. n
        BY <1>3
      <3> QED BY <1>4, <3>1, ShiftedByNone
    <2>2. ASSUME NEW b \in 0 .. n PROVE v[b] \in Nat
      <3>1. CASE b = n
        BY <1>4, <2>1, <3>1
      <3>2. CASE b # n
        <4>1. n - b \in Nat
          BY <1>3
        <4> QED BY <1>4, <4>1, ShiftedByNone
      <3> QED BY <3>1, <3>2
    <2>3. ASSUME NEW b \in 0 .. n - 1 PROVE v[b] = v[b + 1] \div 2
      <3>1. n - (b + 1) \in Nat /\ n - b = (n - (b + 1)) + 1 /\ b \in 0 .. n /\ b + 1 \in 0 .. n
        BY <1>3
      <3>2. ShiftRight(code, (n - (b + 1)) + 1) = ShiftRight(code, n - (b + 1)) \div 2
        BY <1>4, <3>1, ShiftedByNone
      <3>3. v[b] = ShiftRight(code, n - b) /\ v[b + 1] = ShiftRight(code, n - (b + 1))
        BY <3>1
      <3> QED BY <3>1, <3>2, <3>3
    <2> QED BY <2>1, <2>2, <2>3
  <1>8. \A b \in 0 .. n : Prefix(s, b) = v[b]
    BY <1>1 DEF Prefix
  <1> HIDE DEF v
  <1>9. ASSUME NEW b \in 0 .. n PROVE fc[b] <= v[b] /\ v[b] < fc[b] + room[b]
    <2> DEFINE T == {i \in 0 .. n : ~(fc[n - i] <= v[n - i] /\ v[n - i] < fc[n - i] + room[n - i])}
    <2>1. SUFFICES ASSUME T # {} PROVE FALSE
      <3>1. n - b \in 0 .. n /\ n - (n - b) = b
        BY <1>3
      <3>2. n - b \notin T
        BY <2>1
      <3> QED BY <3>1, <3>2
    <2>2. T \in SUBSET Nat
      OBVIOUS
    <2>3. PICK i \in T : \A j \in T : i <= j
      BY <2>1, <2>2, Minimum
    <2>4. i \in Nat /\ i <= n
      BY <2>3
    <2>5. i # 0
      <3>1. ASSUME i = 0 PROVE FALSE
        <4>1. n - i = n
          BY <1>3, <3>1
        <4>2. fc[n] <= v[n] /\ v[n] < fc[n] + room[n]
          <5>1. bl[n] <= room[n] /\ bl[n] \in Nat /\ room[n] \in Nat /\ fc[n] \in Nat
            BY <1>2, <1>3, <1>6
          <5> QED BY <1>4, <1>7, <5>1
        <4> QED BY <2>3, <4>1, <4>2
      <3> QED BY <3>1
    <2>6. i - 1 \in 0 .. n /\ i - 1 \notin T
      <3>1. i - 1 \in 0 .. n /\ i - 1 < i
        BY <1>3, <2>4, <2>5
      <3>2. ASSUME i - 1 \in T PROVE FALSE
        <4>1. i <= i - 1
          BY <2>3, <3>2
        <4> QED BY <2>4, <4>1
      <3> QED BY <3>1, <3>2
    <2>7. PICK c : c = n - i
      OBVIOUS
    <2>8. c \in 0 .. n - 1 /\ c + 1 = n - (i - 1) /\ c \in Nat /\ c + 1 \in 0 .. n
      BY <1>3, <2>4, <2>5, <2>7
    <2>9. fc[c + 1] <= v[c + 1] /\ v[c + 1] < fc[c + 1] + room[c + 1]
      BY <2>6, <2>8
    <2>10. PICK x, y : x = v[c] /\ y = v[c + 1]
      OBVIOUS
    <2>11. x = y \div 2 /\ x \in Nat /\ y \in Nat
      BY <1>3, <1>7, <2>8, <2>10
    <2>12. PICK f, m, r, r1 : f = fc[c] /\ m = bl[c] /\ r = room[c] /\ r1 = room[c + 1]
      OBVIOUS
    <2>13. /\ f \in Nat /\ m \in Nat /\ r \in Nat /\ r1 \in Nat
           /\ m <= r /\ r1 <= 2 * (r - m) /\ fc[c + 1] = 2 * (f + m)
      BY <1>2, <1>6, <2>8, <2>12
    <2>14. 2 * (f + m) <= y /\ y < 2 * (f + m) + r1
      BY <2>9, <2>10, <2>12, <2>13
    <2>15. f <= x /\ x < f + r
      BY <2>11, <2>13, <2>14
    <2> QED BY <2>3, <2>7, <2>10, <2>12, <2>15
  <1>10. v[0] = 0
    <2>1. 0 \in 0 .. n
      BY <1>3
    <2>2. v[0] \in Nat /\ v[0] < 0 + 1
      BY <1>2, <1>6, <1>7, <1>9, <2>1
    <2> QED BY <2>2
  <1>11. ASSUME NEW b \in 0 .. n - 1
         PROVE  /\ v[b] \in Nat /\ v[b + 1] \in Nat
                /\ v[b + 1] = 2 * v[b] + (v[b + 1] % 2)
                /\ fc[b] + bl[b] <= v[b]
    <2>1. b \in 0 .. n /\ b + 1 \in 0 .. n /\ b \in Nat
      BY <1>3
    <2>2. PICK x, y : x = v[b] /\ y = v[b + 1]
      OBVIOUS
    <2>3. x \in Nat /\ y \in Nat /\ x = y \div 2
      BY <1>7, <2>1, <2>2
    <2>4. y = 2 * x + (y % 2)
      BY <2>3
    <2>5. fc[b + 1] <= y /\ fc[b + 1] = 2 * (fc[b] + bl[b]) /\ fc[b] \in Nat /\ bl[b] \in Nat
      BY <1>2, <1>9, <2>1, <2>2
    <2>6. fc[b] + bl[b] <= x
      BY <2>3, <2>5
    <2> QED BY <2>2, <2>3, <2>4, <2>6
  <1>12. ASSUME NEW b \in 0 .. n - 1
         PROVE  /\ Prefix(s, b) \in Nat /\ Prefix(s, b + 1) \in Nat
                /\ Prefix(s, b + 1) = 2 * Prefix(s, b) + (Prefix(s, b + 1) % 2)
                /\ FirstCode[b] + BlCount(b) <= Prefix(s, b)
    <2>1. Prefix(s, b) = v[b] /\ Prefix(s, b + 1) = v[b + 1] /\ b \in Nat
      BY <1>3, <1>8
    <2>2. fc[b] = FirstCode[b] /\ bl[b] = BlCount(b)
      BY <1>1, <2>1
    <2> QED BY <1>11, <2>1, <2>2
  <1>13. Prefix(s, 0) = 0 /\ Prefix(s, n) = code
    BY <1>3, <1>7, <1>8, <1>10
  <1> QED BY <1>1, <1>12, <1>13

\* A symbol is where the derived tables say: the shorter codes come first.
LEMMA TablePlace ==
    ASSUME Model, NEW s \in Symbols, len[s] > 0
    PROVE  SymsSorted[FirstSym(len[s]) + Index(s) + 1] = s
  <1> DEFINE U == {x \in Symbols : len[x] > 0}
             Shorter(x) == {y \in U : SymLess(y, x)}
             R(x) == Cardinality(Shorter(x))
  <1>1. len \in [Symbols -> Nat] /\ \A x \in Symbols : len[x] \in Nat /\ x \in Nat
    BY SymbolsFinite DEF Model
  <1>2. SymsSorted = [k \in 1 .. Cardinality(U) |-> CHOOSE x \in U : R(x) = k - 1]
    BY DEF SymsSorted, SortedBy
  <1>3. s \in U /\ U \in SUBSET Symbols /\ \A x : Shorter(x) \in SUBSET U /\ x \notin Shorter(x)
    <2>1. ASSUME NEW x, x \in Shorter(x) PROVE FALSE
      <3>1. x \in Symbols /\ SymLess(x, x)
        BY <2>1
      <3> QED BY <1>1, <3>1 DEF SymLess
    <2> QED BY <2>1
  <1>4. ASSUME NEW x \in U, NEW y \in U, x # y, ~SymLess(x, y) PROVE SymLess(y, x)
    BY <1>1, <1>4 DEF SymLess
  <1>5. ASSUME NEW x \in U, NEW y \in U, SymLess(x, y)
        PROVE  Shorter(x) \in SUBSET Shorter(y) /\ x \in Shorter(y)
    <2>1. ASSUME NEW z \in U, SymLess(z, x) PROVE SymLess(z, y)
      BY <1>1, <1>5, <2>1 DEF SymLess
    <2> QED BY <1>5, <2>1
  <1>6. IsFiniteSet(U) /\ Cardinality(U) \in Nat
    BY <1>3, SymbolsFinite
  <1>7. \A x : IsFiniteSet(Shorter(x)) /\ R(x) \in Nat
    <2>1. \A x : Shorter(x) \in SUBSET Symbols
      BY <1>3
    <2> QED BY <2>1, SymbolsFinite
  <1>8. R(s) = FirstSym(len[s]) + Index(s) /\ FirstSym(len[s]) \in Nat /\ Index(s) \in Nat
    <2> DEFINE A == {x \in Symbols : len[x] \in 1 .. len[s] - 1}
               B == {x \in OfLength(len[s]) : x < s}
    <2>1. Shorter(s) = A \cup B
      <3>1. \A x \in Symbols : x \in Shorter(s) <=> x \in A \cup B
        BY <1>1 DEF SymLess, OfLength
      <3>2. Shorter(s) \in SUBSET Symbols /\ A \cup B \in SUBSET Symbols
        BY <1>3 DEF OfLength
      <3> QED BY <3>1, <3>2
    <2>2. A \cap B = {}
      <3>1. ASSUME NEW x \in A, x \in B PROVE FALSE
        <4>1. len[x] = len[s] /\ len[x] \in 1 .. len[s] - 1
          BY <3>1 DEF OfLength
        <4> QED BY <1>1, <4>1
      <3> QED BY <3>1
    <2>3. A \in SUBSET Symbols /\ B \in SUBSET Symbols
      BY DEF OfLength
    <2>4. Cardinality(A) = FirstSym(len[s]) /\ Cardinality(B) = Index(s)
      BY IndexFacts DEF FirstSym
    <2> HIDE DEF A, B, Shorter
    <2>5. Cardinality(A \cup B) = Cardinality(A) + Cardinality(B) - Cardinality(A \cap B)
      BY <2>3, SymbolsFinite, FS_Union
    <2>6. Cardinality(A \cap B) = 0
      BY <2>2, FS_EmptySet
    <2>7. Cardinality(A) \in Nat /\ Cardinality(B) \in Nat
      BY <2>3, SymbolsFinite
    <2> QED BY <2>1, <2>4, <2>5, <2>6, <2>7
  <1> HIDE DEF U, Shorter
  <1>9. ASSUME NEW x \in U, NEW y \in U, SymLess(x, y) PROVE R(x) < R(y)
    <2>1. Shorter(x) \in SUBSET Shorter(y) /\ x \in Shorter(y) /\ x \notin Shorter(x)
      BY <1>3, <1>5, <1>9
    <2>2. Shorter(x) # Shorter(y)
      BY <2>1
    <2>3. /\ Cardinality(Shorter(x)) <= Cardinality(Shorter(y))
          /\ Cardinality(Shorter(x)) = Cardinality(Shorter(y)) => Shorter(x) = Shorter(y)
      BY <1>7, <2>1, FS_Subset
    <2>4. Cardinality(Shorter(x)) \in Nat /\ Cardinality(Shorter(y)) \in Nat
      BY <1>7
    <2>5. Cardinality(Shorter(x)) < Cardinality(Shorter(y))
      BY <2>2, <2>3, <2>4
    <2> QED BY <2>5
  <1>10. ASSUME NEW x \in U, R(x) = R(s) PROVE x = s
    <2>1. ASSUME x # s PROVE FALSE
      <3>1. R(x) \in Nat /\ R(s) \in Nat
        BY <1>7
      <3>2. CASE SymLess(x, s)
        <4>1. R(x) < R(s)
          BY <1>3, <1>9, <3>2
        <4> HIDE DEF R
        <4> QED BY <1>10, <3>1, <4>1
      <3>3. CASE SymLess(s, x)
        <4>1. R(s) < R(x)
          BY <1>3, <1>9, <3>3
        <4> HIDE DEF R
        <4> QED BY <1>10, <3>1, <4>1
      <3> QED BY <1>3, <1>4, <2>1, <3>2, <3>3
    <2> QED BY <2>1
  <1>11. R(s) + 1 \in 1 .. Cardinality(U)
    <2>1. Shorter(s) \in SUBSET U /\ Shorter(s) # U
      BY <1>3
    <2>2. /\ Cardinality(Shorter(s)) <= Cardinality(U)
          /\ Cardinality(Shorter(s)) = Cardinality(U) => Shorter(s) = U
      BY <1>6, <2>1, FS_Subset
    <2>3. Cardinality(Shorter(s)) \in Nat /\ Cardinality(Shorter(s)) < Cardinality(U)
      BY <1>6, <1>7, <2>1, <2>2
    <2> QED BY <1>6, <2>3
  <1> HIDE DEF R
  <1>12. PICK k : k = R(s) + 1
    OBVIOUS
  <1>13. R(s) \in Nat
    BY <1>8
  <1>14. SymsSorted[k] = CHOOSE x \in U : R(x) = k - 1
    BY <1>2, <1>11, <1>12
  <1>15. \A x \in U : R(x) = k - 1 <=> x = s
    <2>1. k - 1 = R(s)
      BY <1>12, <1>13
    <2> QED BY <1>10, <2>1
  <1>16. SymsSorted[k] = s
    BY <1>3, <1>14, <1>15
  <1> QED BY <1>8, <1>12, <1>16

(***************************************************************************)
(* What a turn of DecodeSymbol's loop finds when it has read the first     *)
(* b + 1 bits of the code of s: the symbol at the last of them, and no     *)
(* code before.                                                            *)
(***************************************************************************)
LEMMA NoCodeBefore ==
    ASSUME Model, NEW s \in Symbols, NEW b \in Nat, b > 0, b < len[s]
    PROVE  /\ Prefix(s, b) - FirstCode[b] \notin 0 .. BlCount(b) - 1
           /\ b # MaxLen
  <1>1. len[s] \in Nat /\ b \in 0 .. len[s] - 1 /\ len[s] > 0
    BY DEF Model
  <1>2. FirstCode[b] + BlCount(b) <= Prefix(s, b) /\ Prefix(s, b) \in Nat
    BY <1>1, Prefixes
  <1>3. FirstCode[b] \in Nat /\ BlCount(b) \in Nat
    BY CountFacts
  <1>4. len[s] <= MaxLen /\ MaxLen \in Nat
    BY MaxLenFacts
  <1> QED BY <1>1, <1>2, <1>3, <1>4

LEMMA CodeFound ==
    ASSUME Model, NEW s \in Symbols, len[s] > 0
    PROVE  /\ Prefix(s, len[s]) - FirstCode[len[s]] \in 0 .. BlCount(len[s]) - 1
           /\ SymsSorted[FirstSym(len[s]) + (Prefix(s, len[s]) - FirstCode[len[s]]) + 1] = s
  <1>1. PICK i, f, n : i = Index(s) /\ f = FirstCode[len[s]] /\ n = BlCount(len[s])
    OBVIOUS
  <1>2. len[s] \in Nat
    BY DEF Model
  <1>3. i \in Nat /\ i < n /\ Code(s) = f + i
    BY <1>1, IndexFacts
  <1>4. f \in Nat /\ n \in Nat
    BY <1>1, <1>2, CountFacts
  <1>5. Prefix(s, len[s]) = f + i
    BY <1>3, Prefixes
  <1>6. Prefix(s, len[s]) - FirstCode[len[s]] = i
    BY <1>1, <1>3, <1>4, <1>5
  <1>7. SymsSorted[FirstSym(len[s]) + i + 1] = s
    BY <1>1, TablePlace
  <1> QED BY <1>1, <1>3, <1>4, <1>6, <1>7

-----------------------------------------------------------------------------
(***************************************************************************)
(* What the steps of a stream leave alone.                                 *)
(***************************************************************************)
LEMMA SameStream ==
    ASSUME cluster' = cluster, q' = q, stream' = stream
    PROVE  /\ Delivered(cluster)' <=> Delivered(cluster)
           /\ Chosen' <=> Chosen
           /\ NSymbols' = NSymbols /\ Positions' = Positions
           /\ ReadWidth' = ReadWidth
           /\ Used' = Used
           /\ \A k : Symbol(k)' = Symbol(k)
           /\ \A g : Group(g)' = Group(g) /\ From(g)' = From(g) /\ To(g)' = To(g)
  <1>1. \A g : Group(g)' = Group(g)
    BY DEF Group, Linkage, Locals, Total
  <1>2. \A g : From(g)' = From(g) /\ To(g)' = To(g)
    BY DEF From, To, FirstLinkage, Total
  <1>3. Width' = Width /\ NSymbols' = NSymbols
    BY <1>1 DEF Width, NSymbols
  <1>4. \A k : Symbol(k)' = Symbol(k)
    BY <1>1, <1>3 DEF Symbol, SymbolOf
  <1>5. \A s : Freq(s)' = Freq(s)
    BY <1>3, <1>4 DEF Freq
  <1>6. Used' = Used
    BY <1>5 DEF Used
  <1>7. Chosen' <=> Chosen
    BY <1>1 DEF Chosen, Quantised, Streams, Locals, Total
  <1> QED BY <1>1, <1>2, <1>3, <1>4, <1>6, <1>7 DEF Positions, ReadWidth

LEMMA SameModel ==
    ASSUME cluster' = cluster, q' = q, stream' = stream, len' = len
    PROVE  /\ Model' <=> Model
           /\ \A s, b : Prefix(s, b)' = Prefix(s, b)
           /\ MaxLen' = MaxLen
  <1>1. Used' = Used
    BY SameStream
  <1> DEFINE Count(l, b) == IF b = 0 THEN 0 ELSE Cardinality({s \in Symbols : l[s] = b})
             Codes(l) == CHOOSE f : f = [b \in Nat |-> IF b = 0 THEN 0
                                              ELSE 2 * (f[b - 1] + Count(l, b - 1))]
  <1>2. \A b : BlCount(b)' = BlCount(b)
    BY DEF BlCount
  <1>3. FirstCode' = FirstCode
    <2>1. FirstCode = Codes(len)
      BY DEF FirstCode, BlCount
    <2>2. FirstCode' = Codes(len')
      BY DEF FirstCode, BlCount
    <2> HIDE DEF Codes
    <2> QED BY <2>1, <2>2
  <1>4. Counts' = Counts
    BY <1>2 DEF Counts
  <1>5. Model' <=> Model
    BY <1>1, <1>4 DEF Model
  <1>6. \A s : Code(s)' = Code(s)
    BY <1>3 DEF Code
  <1>7. \A s, b : Prefix(s, b)' = Prefix(s, b)
    BY <1>6 DEF Prefix, ShiftRight
  <1>8. MaxLen' = MaxLen
    BY DEF MaxLen
  <1> QED BY <1>5, <1>7, <1>8

-----------------------------------------------------------------------------
(***************************************************************************)
(* The invariant.  `at' says where in the payload each symbol starts; the  *)
(* first n symbols have been written there; the reader is inside the code  *)
(* of the symbol after those it has decoded.                               *)
(***************************************************************************)
Starts(at) ==
    /\ at \in [Nat -> Nat] /\ at[0] = 0
    /\ \A j \in Positions : at[j + 1] = at[j] + len[Symbol(j)]

Sent(at, n) ==
    /\ n \in Nat /\ n <= NSymbols
    /\ payload \in Seq({0, 1})
    /\ \A j \in 0 .. n - 1 :
          /\ at[j + 1] <= Len(payload)
          /\ \A k \in 1 .. len[Symbol(j)] : payload[at[j] + k] = Prefix(Symbol(j), k) % 2

Inside(at) ==
    LET n == Len(decoded)
    IN n < NSymbols =>
          /\ reader \in [pos : Nat, bits : Nat, code_val : Nat]
          /\ reader.bits < len[Symbol(n)]
          /\ reader.pos = at[n] + reader.bits
          /\ reader.code_val = Prefix(Symbol(n), reader.bits)

Decoded ==
    /\ decoded \in Seq(Symbols) /\ Len(decoded) <= NSymbols
    /\ \A k \in 1 .. Len(decoded) : decoded[k] = Symbol(k - 1)

CodecInv ==
    /\ codec \in {"idle", "counting", "merging", "writing", "written", "reading", "read", "error"}
    /\ codec = "idle" => CodecIdle
    /\ codec # "idle" => stage = "final" /\ Chosen
    /\ codec \in {"counting", "merging", "writing", "written"} => decoded = <<>>
    /\ codec \in {"counting", "merging"} => coded = 0 /\ payload = <<>>
    /\ codec = "merging" => Queue
    /\ codec \in {"writing", "written", "reading", "read", "error"} => Model
    /\ codec = "writing" => \E at : Starts(at) /\ Sent(at, coded) /\ Len(payload) = at[coded]
    /\ codec \in {"written", "reading"} => \E at : Starts(at) /\ Sent(at, NSymbols)
    /\ codec = "reading" =>
          Decoded /\ \E at : Starts(at) /\ Sent(at, NSymbols) /\ Inside(at)
    /\ codec = "read" => Decoded /\ Len(decoded) = NSymbols
    /\ codec = "error" => \E s \in Symbols : len[s] > MaxBits

\* A symbol of the stream has a code.
LEMMA HasCode ==
    ASSUME Delivered(cluster), Chosen, Model, NEW k \in Positions
    PROVE  Symbol(k) \in Symbols /\ len[Symbol(k)] \in Nat /\ len[Symbol(k)] > 0
  <1>1. Symbol(k) \in Symbols
    BY SymbolFacts
  <1>2. Symbol(k) \in Used
    BY <1>1, UsedAre
  <1> QED BY <1>1, <1>2 DEF Model

LEMMA StartsExist ==
    ASSUME Delivered(cluster), Chosen, Model
    PROVE  \E at : Starts(at)
  <1> DEFINE Step(i) == IF i \in Positions THEN len[Symbol(i)] ELSE 0
             G == [i \in Nat |-> [n \in Nat |-> n + Step(i)]]
  <1>1. \A i : Step(i) \in Nat
    BY HasCode
  <1> HIDE DEF Step
  <1>2. \A i, n \in Nat : n + Step(i) \in Nat
    BY <1>1
  <1>3. G \in [Nat -> [Nat -> Nat]]
    BY <1>2
  <1>4. PICK f \in [Nat -> Nat] : f[0] = 0 /\ \A i \in Nat : f[i + 1] = G[i][f[i]]
    BY <1>3, Recursion
  <1>5. ASSUME NEW j \in Positions PROVE f[j + 1] = f[j] + len[Symbol(j)]
    <2>1. j \in Nat
      BY SymbolFacts DEF Positions
    <2>2. f[j + 1] = G[j][f[j]] /\ f[j] \in Nat
      BY <1>4, <2>1
    <2>3. f[j + 1] = f[j] + Step(j)
      BY <2>1, <2>2
    <2> QED BY <2>3 DEF Step
  <1> QED BY <1>4, <1>5 DEF Starts

LEMMA SameSent ==
    ASSUME cluster' = cluster, q' = q, stream' = stream, len' = len, NEW at, NEW n
    PROVE  /\ Starts(at) => Starts(at)'
           /\ payload' = payload /\ Sent(at, n) => Sent(at, n)'
           /\ decoded' = decoded /\ Decoded => Decoded'
           /\ decoded' = decoded /\ reader' = reader /\ Inside(at) => Inside(at)'
  <1>1. /\ NSymbols' = NSymbols /\ Positions' = Positions
        /\ \A k : Symbol(k)' = Symbol(k)
        /\ \A s, b : Prefix(s, b)' = Prefix(s, b)
    BY SameStream, SameModel
  <1>2. Starts(at) => Starts(at)'
    BY <1>1 DEF Starts
  <1>3. payload' = payload /\ Sent(at, n) => Sent(at, n)'
    BY <1>1 DEF Sent
  <1>4. decoded' = decoded /\ Decoded => Decoded'
    BY <1>1 DEF Decoded
  <1>5. decoded' = decoded /\ reader' = reader /\ Inside(at) => Inside(at)'
    BY <1>1 DEF Inside
  <1> QED BY <1>2, <1>3, <1>4, <1>5

LEMMA StartsStream ==
    ASSUME LInv, CodecInv, NEW values \in Quantised, StartStream(values), UNCHANGED layout
    PROVE  CodecInv'
  <1>1. /\ stage' = "final" /\ cluster' = cluster /\ codec' = "counting" /\ q' = values
        /\ stream' \in Streams /\ Group(stream'.group) # {}
        /\ decoded' = <<>> /\ coded' = 0 /\ payload' = <<>>
    BY DEF StartStream, layout, CodecInv, CodecIdle
  <1>2. \A g : Group(g)' = Group(g)
    BY <1>1 DEF Group, Linkage, Locals, Total
  <1>3. Quantised' = Quantised /\ Streams' = Streams
    BY <1>1 DEF Quantised, Locals, Total, Streams
  <1>4. Chosen'
    BY <1>1, <1>2, <1>3 DEF Chosen
  <1> QED BY <1>1, <1>4 DEF CodecInv

LEMMA EncodesSymbol ==
    ASSUME LInv, CodecInv, EncodeSymbol, UNCHANGED layout
    PROVE  CodecInv'
  <1>1. /\ stage' = "final" /\ stage = "final" /\ cluster' = cluster /\ codec = "writing"
        /\ codec' = "writing" /\ q' = q /\ stream' = stream /\ len' = len
        /\ decoded' = <<>> /\ coded' = coded + 1 /\ coded < NSymbols
        /\ Chosen /\ Model
    BY DEF EncodeSymbol, layout, CodecInv
  <1>2. Delivered(cluster)
    BY <1>1 DEF LInv
  <1>3. PICK at : Starts(at) /\ Sent(at, coded) /\ Len(payload) = at[coded]
    BY <1>1 DEF CodecInv
  <1>4. PICK s, n, c : s = Symbol(coded) /\ n = len[s] /\ c = coded
    OBVIOUS
  <1>5. NSymbols \in Nat /\ c \in Nat /\ c < NSymbols /\ c \in Positions
    BY <1>1, <1>2, <1>3, <1>4, SymbolFacts DEF Sent, Positions
  <1>6. s \in Symbols /\ n \in Nat /\ n > 0
    BY <1>1, <1>2, <1>4, <1>5, HasCode
  <1>7. payload' = payload \o WriteBits(Code(s), n)
    BY <1>4 DEF EncodeSymbol
  <1> DEFINE w == [k \in 1 .. n |-> Prefix(s, k) % 2]
  <1>8. WriteBits(Code(s), n) = w
    BY <1>4 DEF WriteBits, Prefix
  <1>9. w \in Seq({0, 1}) /\ Len(w) = n
    <2>1. ASSUME NEW k \in 1 .. n PROVE Prefix(s, k) % 2 \in {0, 1}
      <3>1. k - 1 \in 0 .. n - 1 /\ (k - 1) + 1 = k
        BY <1>6
      <3>2. Prefix(s, (k - 1) + 1) \in Nat
        BY <1>1, <1>4, <1>6, <3>1, Prefixes
      <3>3. Prefix(s, k) \in Nat
        BY <3>1, <3>2
      <3> QED BY <3>3
    <2>2. w \in [1 .. n -> {0, 1}]
      BY <2>1
    <2> HIDE DEF w
    <2> QED BY <1>6, <2>2
  <1>10. \A k \in 1 .. n : w[k] = Prefix(s, k) % 2
    OBVIOUS
  <1> HIDE DEF w
  <1>11. payload \in Seq({0, 1}) /\ payload' = payload \o w
    BY <1>3, <1>7, <1>8 DEF Sent
  <1>12. PICK l : l = Len(payload)
    OBVIOUS
  <1>13. /\ l \in Nat /\ payload' \in Seq({0, 1}) /\ Len(payload') = l + n
         /\ \A k \in 1 .. l : payload'[k] = payload[k]
         /\ \A k \in 1 .. n : payload'[l + k] = w[k]
    <2>1. l \in Nat
      BY <1>11, <1>12
    <2>2. payload \o w \in Seq({0, 1}) /\ Len(payload \o w) = l + n
      <3>1. payload \in Seq({0, 1}) /\ w \in Seq({0, 1})
        BY <1>9, <1>11
      <3>2. payload \o w \in Seq({0, 1})
        BY <3>1
      <3>3. Len(payload \o w) = Len(payload) + Len(w)
        BY <3>1
      <3> QED BY <1>9, <1>12, <3>2, <3>3
    <2>3. ASSUME NEW k \in 1 .. l PROVE (payload \o w)[k] = payload[k]
      BY <1>9, <1>11, <1>12
    <2>4. ASSUME NEW k \in 1 .. n PROVE (payload \o w)[l + k] = w[k]
      <3>1. l + k \in 1 .. l + n /\ l + k > l /\ (l + k) - l = k
        BY <1>6, <2>1
      <3> QED BY <1>9, <1>11, <1>12, <3>1
    <2> QED BY <1>11, <2>1, <2>2, <2>3, <2>4
  <1>14. at \in [Nat -> Nat] /\ at[c] = l /\ at[c + 1] = l + n
         /\ \A j \in Positions : at[j + 1] = at[j] + len[Symbol(j)]
    BY <1>3, <1>4, <1>5, <1>12 DEF Starts
  <1>15. ASSUME NEW j \in 0 .. (c + 1) - 1
         PROVE  /\ at[j + 1] <= Len(payload')
                /\ \A k \in 1 .. len[Symbol(j)] : payload'[at[j] + k] = Prefix(Symbol(j), k) % 2
    <2>1. CASE j = c
      <3>1. at[j + 1] <= Len(payload')
        BY <1>6, <1>13, <1>14, <2>1
      <3>2. ASSUME NEW k \in 1 .. n PROVE payload'[at[j] + k] = Prefix(Symbol(j), k) % 2
        BY <1>4, <1>10, <1>13, <1>14, <2>1
      <3> QED BY <1>4, <2>1, <3>1, <3>2
    <2>2. CASE j # c
      <3>1. j \in 0 .. c - 1 /\ j \in Nat /\ j \in Positions
        BY <1>5, <2>2 DEF Positions
      <3>2. /\ at[j + 1] <= l
            /\ \A k \in 1 .. len[Symbol(j)] : payload[at[j] + k] = Prefix(Symbol(j), k) % 2
        BY <1>3, <1>4, <1>12, <3>1 DEF Sent
      <3>3. at[j + 1] \in Nat /\ at[j] \in Nat /\ at[j + 1] = at[j] + len[Symbol(j)]
        BY <1>14, <3>1
      <3>4. len[Symbol(j)] \in Nat
        BY <1>1, <1>2, <3>1, HasCode
      <3>5. \A k \in 1 .. len[Symbol(j)] : at[j] + k \in 1 .. l
        BY <1>13, <3>2, <3>3, <3>4
      <3> QED BY <1>6, <1>13, <3>2, <3>3, <3>5
    <2> QED BY <2>1, <2>2
  <1>16. c + 1 \in Nat /\ c + 1 <= NSymbols
    BY <1>5
  <1>17. /\ NSymbols' = NSymbols /\ \A k : Symbol(k)' = Symbol(k)
         /\ \A x, b : Prefix(x, b)' = Prefix(x, b)
         /\ Chosen' /\ Model' /\ Starts(at)'
    BY <1>1, <1>3, SameStream, SameModel, SameSent
  <1>18. Sent(at, c + 1)'
    BY <1>1, <1>13, <1>15, <1>16, <1>17 DEF Sent
  <1>19. coded' = c + 1 /\ Len(payload') = at[coded']
    BY <1>1, <1>4, <1>13, <1>14
  <1>20. Sent(at, coded)'
    BY <1>18, <1>19 DEF Sent
  <1> QED BY <1>1, <1>17, <1>19, <1>20 DEF CodecInv

LEMMA ThrowsOnLong ==
    ASSUME LInv, CodecInv, EncodeThrows, UNCHANGED layout
    PROVE  CodecInv'
  <1>1. /\ stage' = "final" /\ stage = "final" /\ cluster' = cluster /\ codec = "writing"
        /\ codec' = "error" /\ q' = q /\ stream' = stream /\ len' = len
        /\ coded < NSymbols /\ len[Symbol(coded)] \notin 1 .. MaxBits /\ Chosen /\ Model
    BY DEF EncodeThrows, layout, CodecInv
  <1>2. Delivered(cluster)
    BY <1>1 DEF LInv
  <1>3. PICK at : Sent(at, coded)
    BY <1>1 DEF CodecInv
  <1>4. coded \in Positions
    BY <1>1, <1>2, <1>3, SymbolFacts DEF Sent, Positions
  <1>5. Symbol(coded) \in Symbols /\ len[Symbol(coded)] \in Nat /\ len[Symbol(coded)] > 0
    BY <1>1, <1>2, <1>4, HasCode
  <1>6. len[Symbol(coded)] > MaxBits
    BY <1>1, <1>5, CodecAssumption
  <1>7. Chosen' /\ Model'
    BY <1>1, SameStream, SameModel
  <1> QED BY <1>1, <1>5, <1>6, <1>7 DEF CodecInv

LEMMA FinishesStream ==
    ASSUME LInv, CodecInv, Finish, UNCHANGED layout
    PROVE  CodecInv'
  <1>1. /\ stage' = "final" /\ stage = "final" /\ cluster' = cluster /\ codec = "writing"
        /\ codec' = "written" /\ q' = q /\ stream' = stream /\ len' = len
        /\ coded = NSymbols /\ decoded' = <<>> /\ Chosen /\ Model
    BY DEF Finish, layout, CodecInv
  <1>2. Delivered(cluster)
    BY <1>1 DEF LInv
  <1>3. PICK at : Starts(at) /\ Sent(at, NSymbols)
    BY <1>1 DEF CodecInv
  <1>4. payload \in Seq({0, 1})
    BY <1>3 DEF Sent
  <1>5. PICK l, m : l = Len(payload) /\ m = (8 - (Len(payload) % 8)) % 8
    OBVIOUS
  <1>6. l \in Nat /\ m \in Nat
    <2>1. l \in Nat
      BY <1>4, <1>5
    <2>2. l % 8 \in 0 .. 7
      BY <2>1
    <2>3. 8 - (l % 8) \in Nat
      BY <2>2
    <2>4. (8 - (l % 8)) % 8 \in 0 .. 7
      BY <2>3
    <2> QED BY <1>5, <2>1, <2>4
  <1> DEFINE z == [k \in 1 .. m |-> 0]
  <1>7. z \in Seq({0, 1}) /\ payload' = payload \o z
    <2>1. payload' = payload \o z
      BY <1>5 DEF Finish
    <2>2. z \in [1 .. m -> {0, 1}]
      OBVIOUS
    <2> HIDE DEF z
    <2> QED BY <1>6, <2>1, <2>2
  <1> HIDE DEF z
  <1>8. /\ payload' \in Seq({0, 1}) /\ l <= Len(payload')
        /\ \A k \in 1 .. l : payload'[k] = payload[k]
    <2>1. /\ payload \o z \in Seq({0, 1}) /\ Len(payload \o z) = Len(payload) + Len(z)
          /\ \A k \in 1 .. Len(payload) : (payload \o z)[k] = payload[k]
      BY <1>4, <1>7, Appended
    <2>2. Len(z) \in Nat
      BY <1>7
    <2> QED BY <1>5, <1>6, <1>7, <2>1, <2>2
  <1>9. ASSUME NEW j \in 0 .. NSymbols - 1
        PROVE  /\ at[j + 1] <= Len(payload')
               /\ \A k \in 1 .. len[Symbol(j)] : payload'[at[j] + k] = Prefix(Symbol(j), k) % 2
    <2>1. j \in Nat /\ j \in Positions
      BY <1>2, <1>1, SymbolFacts DEF Positions
    <2>2. /\ at[j + 1] <= l
          /\ \A k \in 1 .. len[Symbol(j)] : payload[at[j] + k] = Prefix(Symbol(j), k) % 2
      BY <1>3, <1>5 DEF Sent
    <2>3. at[j + 1] \in Nat /\ at[j] \in Nat /\ at[j + 1] = at[j] + len[Symbol(j)]
      BY <1>3, <2>1 DEF Starts
    <2>4. len[Symbol(j)] \in Nat
      BY <1>1, <1>2, <2>1, HasCode
    <2>5. \A k \in 1 .. len[Symbol(j)] : at[j] + k \in 1 .. l
      BY <1>6, <2>2, <2>3, <2>4
    <2>6. Len(payload') \in Nat
      BY <1>8
    <2>7. at[j + 1] <= Len(payload')
      BY <1>6, <1>8, <2>2, <2>3, <2>6
    <2> QED BY <1>8, <2>2, <2>5, <2>7
  <1>10. NSymbols \in Nat
    BY <1>1, <1>2, SymbolFacts
  <1>11. /\ NSymbols' = NSymbols /\ \A k : Symbol(k)' = Symbol(k)
         /\ \A x, b : Prefix(x, b)' = Prefix(x, b)
         /\ Chosen' /\ Model' /\ Starts(at)'
    BY <1>1, <1>3, SameStream, SameModel, SameSent
  <1>12. Sent(at, NSymbols)'
    BY <1>1, <1>8, <1>9, <1>10, <1>11 DEF Sent
  <1> QED BY <1>1, <1>11, <1>12 DEF CodecInv

LEMMA OpensStream ==
    ASSUME LInv, CodecInv, OpenStream, UNCHANGED layout
    PROVE  CodecInv'
  <1>1. /\ stage' = "final" /\ stage = "final" /\ cluster' = cluster /\ codec = "written"
        /\ codec' = "reading" /\ q' = q /\ stream' = stream /\ len' = len /\ payload' = payload
        /\ decoded = <<>> /\ decoded' = <<>> /\ Chosen /\ Model
        /\ reader' = [pos |-> 0, bits |-> 0, code_val |-> 0]
    BY DEF OpenStream, layout, CodecInv
  <1>2. Delivered(cluster)
    BY <1>1 DEF LInv
  <1>3. PICK at : Starts(at) /\ Sent(at, NSymbols)
    BY <1>1 DEF CodecInv
  <1>4. NSymbols \in Nat /\ NSymbols > 0 /\ 0 \in Positions
    BY <1>1, <1>2, SymbolFacts DEF Positions
  <1>5. len[Symbol(0)] > 0 /\ Prefix(Symbol(0), 0) = 0
    BY <1>1, <1>2, <1>4, HasCode, Prefixes
  <1>6. at[0] = 0
    BY <1>3 DEF Starts
  <1>7. /\ NSymbols' = NSymbols /\ \A k : Symbol(k)' = Symbol(k)
        /\ \A x, b : Prefix(x, b)' = Prefix(x, b)
        /\ Chosen' /\ Model' /\ Starts(at)' /\ Sent(at, NSymbols)'
    <2>1. NSymbols' = NSymbols
      BY <1>1, SameStream
    <2>2. Sent(at, NSymbols)'
      <3>1. \A n : Sent(at, n) => Sent(at, n)'
        BY <1>1, SameSent
      <3> QED BY <1>3, <2>1, <3>1 DEF Sent
    <2> QED BY <1>1, <1>3, <2>1, <2>2, SameStream, SameModel, SameSent
  <1>8. Len(decoded') = 0
    BY <1>1
  <1>9. Inside(at)'
    BY <1>1, <1>5, <1>6, <1>7, <1>8 DEF Inside
  <1>10. Decoded'
    BY <1>1, <1>4, <1>7 DEF Decoded
  <1> QED BY <1>1, <1>7, <1>9, <1>10 DEF CodecInv

LEMMA ReadsBit ==
    ASSUME LInv, CodecInv, ReadBit, UNCHANGED layout
    PROVE  CodecInv'
  <1>1. /\ stage' = "final" /\ stage = "final" /\ cluster' = cluster /\ codec = "reading"
        /\ codec' = "reading" /\ q' = q /\ stream' = stream /\ len' = len /\ payload' = payload
        /\ Len(decoded) < stream.count * ReadWidth /\ Chosen /\ Model /\ Decoded
    BY DEF ReadBit, layout, CodecInv
  <1>2. Delivered(cluster)
    BY <1>1 DEF LInv
  <1>3. PICK at : Starts(at) /\ Sent(at, NSymbols) /\ Inside(at)
    BY <1>1 DEF CodecInv
  <1>4. PICK n : n = Len(decoded)
    OBVIOUS
  <1>5. NSymbols \in Nat /\ n \in Nat /\ n < NSymbols /\ n \in Positions
    <2>1. NSymbols \in Nat /\ NSymbols = stream.count * ReadWidth
      BY <1>1, <1>2, SymbolFacts
    <2>2. n \in Nat
      BY <1>1, <1>4 DEF Decoded
    <2> QED BY <1>1, <1>4, <2>1, <2>2 DEF Positions
  <1>6. PICK s, m : s = Symbol(n) /\ m = len[s]
    OBVIOUS
  <1>7. s \in Symbols /\ m \in Nat /\ m > 0
    BY <1>1, <1>2, <1>5, <1>6, HasCode
  <1>8. /\ reader \in [pos : Nat, bits : Nat, code_val : Nat] /\ reader.bits < m
        /\ reader.pos = at[n] + reader.bits /\ reader.code_val = Prefix(s, reader.bits)
    BY <1>3, <1>4, <1>5, <1>6 DEF Inside
  <1>9. PICK b : b = reader.bits
    OBVIOUS
  <1>10. b \in Nat /\ b < m /\ b \in 0 .. m - 1 /\ b + 1 \in 1 .. m
    BY <1>7, <1>8, <1>9
  <1>11. at[n] \in Nat /\ at[n + 1] = at[n] + m
    BY <1>3, <1>5, <1>6 DEF Starts
  <1>12. payload[reader.pos + 1] = Prefix(s, b + 1) % 2
    <2>1. payload[at[n] + (b + 1)] = Prefix(s, b + 1) % 2
      BY <1>3, <1>5, <1>6, <1>10 DEF Sent
    <2>2. reader.pos + 1 = at[n] + (b + 1)
      BY <1>8, <1>9, <1>10, <1>11
    <2> QED BY <2>1, <2>2
  <1>13. Prefix(s, b + 1) \in Nat
         /\ Prefix(s, b + 1) = 2 * reader.code_val + payload[reader.pos + 1]
    BY <1>1, <1>6, <1>7, <1>8, <1>9, <1>10, <1>12, Prefixes
  <1> DEFINE idx == Prefix(s, b + 1) - FirstCode[b + 1]
             found == idx \in 0 .. BlCount(b + 1) - 1
             ends == found \/ b + 1 = MaxLen
  <1>14. /\ reader' = [pos |-> reader.pos + 1,
                       bits |-> IF ends THEN 0 ELSE b + 1,
                       code_val |-> IF ends THEN 0 ELSE Prefix(s, b + 1)]
         /\ decoded' = CASE found -> Append(decoded, SymsSorted[FirstSym(b + 1) + idx + 1])
                         [] ends /\ ~found -> Append(decoded, 0)
                         [] OTHER -> decoded
    BY <1>9, <1>13 DEF ReadBit
  <1> HIDE DEF idx, found
  <1>15. /\ NSymbols' = NSymbols /\ \A k : Symbol(k)' = Symbol(k)
         /\ \A x, c : Prefix(x, c)' = Prefix(x, c)
         /\ Chosen' /\ Model' /\ Starts(at)' /\ Sent(at, NSymbols)'
    <2>1. NSymbols' = NSymbols
      BY <1>1, SameStream
    <2>2. Sent(at, NSymbols)'
      <3>1. \A k : Sent(at, k) => Sent(at, k)'
        BY <1>1, SameSent
      <3> QED BY <1>3, <2>1, <3>1 DEF Sent
    <2> QED BY <1>1, <1>3, <2>1, <2>2, SameStream, SameModel, SameSent
  <1>16. CASE b + 1 < m
    <2>1. ~found /\ ~ends
      BY <1>1, <1>6, <1>7, <1>10, <1>16, NoCodeBefore DEF found, idx
    <2>2. /\ reader' = [pos |-> reader.pos + 1, bits |-> b + 1, code_val |-> Prefix(s, b + 1)]
          /\ decoded' = decoded
      BY <1>14, <2>1
    <2>3. Decoded'
      BY <1>1, <2>2, SameSent
    <2>4. reader' \in [pos : Nat, bits : Nat, code_val : Nat]
          /\ reader'.bits = b + 1 /\ reader'.pos = at[n] + (b + 1)
          /\ reader'.code_val = Prefix(s, b + 1)
      BY <1>8, <1>9, <1>10, <1>11, <1>13, <2>2
    <2>5. Inside(at)'
      BY <1>1, <1>4, <1>6, <1>15, <1>16, <2>2, <2>4 DEF Inside
    <2> QED BY <1>1, <1>15, <2>3, <2>5 DEF CodecInv
  <1>17. CASE b + 1 = m
    <2>1. found /\ SymsSorted[FirstSym(m) + (Prefix(s, m) - FirstCode[m]) + 1] = s
      BY <1>1, <1>6, <1>7, <1>17, CodeFound DEF found, idx
    <2>2. SymsSorted[FirstSym(b + 1) + idx + 1] = s
      BY <1>17, <2>1 DEF idx
    <2>3. /\ reader' = [pos |-> reader.pos + 1, bits |-> 0, code_val |-> 0]
          /\ decoded' = Append(decoded, s)
      BY <1>14, <2>1, <2>2
    <2>4. /\ decoded' \in Seq(Symbols) /\ Len(decoded') = n + 1
          /\ \A k \in 1 .. n : decoded'[k] = decoded[k]
          /\ decoded'[n + 1] = s
      <3>1. decoded \in Seq(Symbols)
        BY <1>1 DEF Decoded
      <3> QED BY <1>4, <1>7, <2>3, <3>1
    <2>5. \A k \in 1 .. n + 1 : decoded'[k] = Symbol(k - 1)
      <3>1. \A k \in 1 .. n : decoded[k] = Symbol(k - 1)
        BY <1>1, <1>4 DEF Decoded
      <3>2. (n + 1) - 1 = n /\ \A k \in 1 .. n + 1 : k = n + 1 \/ k \in 1 .. n
        BY <1>5
      <3> QED BY <1>6, <2>4, <3>1, <3>2
    <2>6. Decoded'
      BY <1>5, <1>15, <2>4, <2>5 DEF Decoded
    <2>7. Inside(at)'
      <3>1. ASSUME n + 1 < NSymbols
            PROVE  0 < len[Symbol(n + 1)] /\ Prefix(Symbol(n + 1), 0) = 0
        <4>1. n + 1 \in Positions
          BY <1>5, <3>1 DEF Positions
        <4> QED BY <1>1, <1>2, <4>1, HasCode, Prefixes
      <3>2. reader' \in [pos : Nat, bits : Nat, code_val : Nat]
            /\ reader'.bits = 0 /\ reader'.pos = at[n + 1] + 0 /\ reader'.code_val = 0
        BY <1>8, <1>9, <1>10, <1>11, <1>17, <2>3
      <3> QED BY <1>1, <1>15, <2>4, <3>1, <3>2 DEF Inside
    <2> QED BY <1>1, <1>15, <2>6, <2>7 DEF CodecInv
  <1>18. b + 1 < m \/ b + 1 = m
    BY <1>7, <1>10
  <1> QED BY <1>16, <1>17, <1>18

LEMMA EndsStream ==
    ASSUME LInv, CodecInv, EndStream, UNCHANGED layout
    PROVE  CodecInv'
  <1>1. /\ stage' = "final" /\ stage = "final" /\ cluster' = cluster /\ codec = "reading"
        /\ codec' = "read" /\ q' = q /\ stream' = stream /\ len' = len /\ decoded' = decoded
        /\ Len(decoded) = stream.count * ReadWidth /\ Chosen /\ Model /\ Decoded
    BY DEF EndStream, layout, CodecInv
  <1>2. Delivered(cluster)
    BY <1>1 DEF LInv
  <1>3. NSymbols = stream.count * ReadWidth
    BY <1>1, <1>2, SymbolFacts
  <1>4. NSymbols' = NSymbols /\ Chosen' /\ Model' /\ Decoded'
    BY <1>1, SameStream, SameModel, SameSent
  <1> QED BY <1>1, <1>3, <1>4 DEF CodecInv

-----------------------------------------------------------------------------
(***************************************************************************)
(* The Huffman tree.  The nodes of the queue have no symbol in common, so  *)
(* the order of the queue tells them apart.                                *)
(***************************************************************************)
Subtrees(T) == (\A x \in T : Node(x)) /\ Apart(T)

LEMMA NodesFinite ==
    ASSUME NEW T, Subtrees(T)
    PROVE  IsFiniteSet(T) /\ \A x, y \in T : x.sym = y.sym => x = y
  <1>1. ASSUME NEW x \in T, NEW y \in T, x.sym = y.sym PROVE x = y
    <2>1. x.sym \in DOMAIN x.depth /\ y.sym \in DOMAIN y.depth
      BY DEF Subtrees, Node
    <2> QED BY <1>1, <2>1 DEF Subtrees, Apart
  <1> DEFINE f == [x \in T |-> x.sym]
  <1>2. ASSUME NEW x \in T PROVE x.sym \in Symbols
    BY DEF Subtrees, Node, Tree
  <1>3. f \in Injection(T, Symbols)
    BY <1>1, <1>2 DEF Injection, IsInjective
  <1> HIDE DEF f
  <1>4. IsFiniteSet(T)
    BY <1>3, SymbolsFinite, FS_Injection
  <1> QED BY <1>1, <1>4

LEMMA TopIs ==
    ASSUME NEW T, Subtrees(T), T # {}
    PROVE  Top(T) \in T
  <1>1. \A x \in T : x.freq \in Nat /\ x.sym \in Nat
    BY SymbolsFinite DEF Subtrees, Node, Tree
  <1> DEFINE F == {x.freq : x \in T}
  <1>2. F \in SUBSET Nat /\ F # {}
    BY <1>1
  <1>3. PICK f \in F : \A g \in F : f <= g
    BY <1>2, Minimum
  <1> DEFINE M == {x \in T : x.freq = f}
             Y == {x.sym : x \in M}
  <1>4. Y \in SUBSET Nat /\ Y # {}
    BY <1>1, <1>3
  <1>5. PICK y \in Y : \A z \in Y : y <= z
    BY <1>4, Minimum
  <1>6. PICK a \in T : a.freq = f /\ a.sym = y
    BY <1>5
  <1>7. ASSUME NEW b \in T \ {a} PROVE NodeLess(a, b)
    <2>1. b \in T /\ b # a /\ f <= b.freq /\ f \in Nat /\ b.freq \in Nat
      BY <1>1, <1>2, <1>3
    <2>2. CASE f < b.freq
      BY <1>6, <2>2 DEF NodeLess
    <2>3. CASE f = b.freq
      <3>1. b.sym \in Y
        BY <2>1, <2>3
      <3>2. y <= b.sym /\ b.sym # y /\ y \in Nat /\ b.sym \in Nat
        BY <1>1, <1>4, <1>5, <1>6, <2>1, <3>1, NodesFinite
      <3> QED BY <1>6, <2>3, <3>2 DEF NodeLess
    <2> QED BY <2>1, <2>2, <2>3
  <1>8. \E c \in T : \A b \in T \ {c} : NodeLess(c, b)
    BY <1>7
  <1> QED BY <1>8 DEF Top

\* One symbol is a tree, and so are two trees under a new node.
Leaf(s) == [x \in {s} |-> 0]

LEMMA LeafTree ==
    ASSUME NEW s \in Symbols
    PROVE  Tree(Leaf(s))
  <1> DEFINE d == Leaf(s)
             room == [l \in Nat |-> IF l = 0 THEN 1 ELSE 0]
  <1>1. DOMAIN d = {s} /\ d \in [{s} -> Nat] /\ d[s] = 0
    BY DEF Leaf
  <1>2. ASSUME NEW l \in Nat PROVE LeavesOf(d)[l] = room[l]
    <2>1. LeavesOf(d)[l] = Cardinality({x \in {s} : d[x] = l})
      BY <1>1 DEF LeavesOf
    <2>2. CASE l = 0
      <3>1. {x \in {s} : d[x] = l} = {s}
        BY <1>1, <2>2
      <3>2. Cardinality({s}) = 1
        BY FS_Singleton
      <3> QED BY <2>1, <2>2, <3>1, <3>2
    <2>3. CASE l # 0
      <3>1. {x \in {s} : d[x] = l} = {}
        BY <1>1, <2>3
      <3>2. Cardinality({}) = 0
        BY FS_EmptySet
      <3> QED BY <2>1, <2>3, <3>1, <3>2
    <2> QED BY <2>2, <2>3
  <1>3. room \in [Nat -> Nat] /\ room[0] = 1 /\ \A l \in Nat : room[l] \in Nat /\ room[l + 1] = 0
    OBVIOUS
  <1>4. LeavesOf(d) \in [Nat -> Nat]
    <2>1. \A l \in Nat : LeavesOf(d)[l] \in Nat
      BY <1>2, <1>3
    <2>2. LeavesOf(d) = [l \in Nat |-> LeavesOf(d)[l]]
      BY DEF LeavesOf
    <2> HIDE DEF d
    <2> QED BY <2>1, <2>2
  <1> HIDE DEF room
  <1>5. RoomFor(room, LeavesOf(d))
    <2>1. \A l \in Nat : LeavesOf(d)[l] <= room[l] /\ room[l + 1] <= 2 * (room[l] - LeavesOf(d)[l])
      BY <1>2, <1>3
    <2> QED BY <1>3, <1>4, <2>1 DEF RoomFor
  <1>6. Kraft(d)
    BY <1>5 DEF Kraft
  <1>7. \E n \in Nat : \A x \in DOMAIN d : d[x] <= n
    BY <1>1
  <1> HIDE DEF d
  <1>8. Tree(d)
    BY <1>1, <1>6, <1>7 DEF Tree
  <1> QED BY <1>8 DEF d

LEMMA Leaves ==
    ASSUME NEW d, DOMAIN d \in SUBSET Symbols
    PROVE  /\ LeavesOf(d) \in [Nat -> Nat]
           /\ \A l \in Nat : LeavesOf(d)[l] = Cardinality({s \in DOMAIN d : d[s] = l})
  <1>1. \A l \in Nat : Cardinality({s \in DOMAIN d : d[s] = l}) \in Nat
    <2>1. \A l : {s \in DOMAIN d : d[s] = l} \in SUBSET Symbols
      OBVIOUS
    <2> QED BY <2>1, SymbolsFinite
  <1> QED BY <1>1 DEF LeavesOf

Joined(da, db) ==
    [s \in DOMAIN da \cup DOMAIN db |-> 1 + IF s \in DOMAIN da THEN da[s] ELSE db[s]]

LEMMA JoinedTree ==
    ASSUME NEW da, NEW db, Tree(da), Tree(db), DOMAIN da \cap DOMAIN db = {}
    PROVE  /\ Tree(Joined(da, db))
           /\ DOMAIN Joined(da, db) = DOMAIN da \cup DOMAIN db
  <1> DEFINE d == Joined(da, db)
  <1>1. /\ DOMAIN da \in SUBSET Symbols /\ DOMAIN db \in SUBSET Symbols
        /\ \A s \in DOMAIN da : da[s] \in Nat
        /\ \A s \in DOMAIN db : db[s] \in Nat
    BY DEF Tree
  <1>2. /\ DOMAIN d = DOMAIN da \cup DOMAIN db
        /\ \A s \in DOMAIN da : d[s] = 1 + da[s]
        /\ \A s \in DOMAIN db : d[s] = 1 + db[s]
        /\ d = [s \in DOMAIN d |-> d[s]]
    BY DEF Joined
  <1> HIDE DEF d
  <1>3. \A s \in DOMAIN d : d[s] \in Nat /\ d[s] > 0
    BY <1>1, <1>2
  <1>4. DOMAIN d \in SUBSET Symbols /\ d \in [DOMAIN d -> Nat]
    BY <1>1, <1>2, <1>3
  <1>5. \E n \in Nat : \A s \in DOMAIN d : d[s] <= n
    <2>1. PICK na \in Nat : \A s \in DOMAIN da : da[s] <= na
      BY DEF Tree
    <2>2. PICK nb \in Nat : \A s \in DOMAIN db : db[s] <= nb
      BY DEF Tree
    <2>3. 1 + na + nb \in Nat /\ \A s \in DOMAIN d : d[s] <= 1 + na + nb
      BY <1>1, <1>2, <2>1, <2>2
    <2> QED BY <2>3
  <1>6. Kraft(d)
    <2>1. PICK la, lb, l : la = LeavesOf(da) /\ lb = LeavesOf(db) /\ l = LeavesOf(d)
      OBVIOUS
    <2>2. PICK ra, rb : RoomFor(ra, la) /\ RoomFor(rb, lb)
      BY <2>1 DEF Tree, Kraft
    <2>3. l \in [Nat -> Nat] /\ l[0] = 0
      <3>1. {s \in DOMAIN d : d[s] = 0} = {}
        BY <1>3
      <3>2. l[0] = Cardinality({})
        <4>1. LeavesOf(d)[0] = Cardinality({s \in DOMAIN d : d[s] = 0})
          BY DEF LeavesOf
        <4> QED BY <2>1, <3>1, <4>1
      <3> QED BY <1>4, <2>1, <3>2, Leaves, FS_EmptySet
    <2>4. ASSUME NEW i \in Nat PROVE l[i + 1] = la[i] + lb[i]
      <3> DEFINE A == {s \in DOMAIN da : da[s] = i}
                 B == {s \in DOMAIN db : db[s] = i}
                 D == {s \in DOMAIN d : d[s] = i + 1}
      <3>1. D = A \cup B
        BY <1>1, <1>2
      <3>2. A \cap B = {} /\ A \in SUBSET Symbols /\ B \in SUBSET Symbols
        BY <1>1
      <3>3. la[i] = Cardinality(A) /\ lb[i] = Cardinality(B)
        BY <1>1, <2>1, Leaves
      <3>4. l[i + 1] = Cardinality(D)
        BY <1>4, <2>1, Leaves
      <3> HIDE DEF A, B, D
      <3>5. Cardinality(A \cup B) = Cardinality(A) + Cardinality(B) - Cardinality(A \cap B)
        BY <3>2, SymbolsFinite, FS_Union
      <3>6. Cardinality(A \cap B) = 0
        BY <3>2, FS_EmptySet
      <3>7. Cardinality(A) \in Nat /\ Cardinality(B) \in Nat
        BY <3>2, SymbolsFinite
      <3> QED BY <3>1, <3>3, <3>4, <3>5, <3>6, <3>7
    <2> DEFINE room == [i \in Nat |-> IF i = 0 THEN 1 ELSE ra[i - 1] + rb[i - 1]]
    <2>5. /\ ra \in [Nat -> Nat] /\ la \in [Nat -> Nat] /\ ra[0] = 1
          /\ \A i \in Nat : la[i] <= ra[i] /\ ra[i + 1] <= 2 * (ra[i] - la[i])
          /\ rb \in [Nat -> Nat] /\ lb \in [Nat -> Nat] /\ rb[0] = 1
          /\ \A i \in Nat : lb[i] <= rb[i] /\ rb[i + 1] <= 2 * (rb[i] - lb[i])
      BY <2>2 DEF RoomFor
    <2>6. room[0] = 1 /\ \A i \in Nat : room[i + 1] = ra[i] + rb[i]
      <3>1. \A i \in Nat : i + 1 \in Nat /\ i + 1 # 0 /\ (i + 1) - 1 = i
        OBVIOUS
      <3> QED BY <3>1
    <2>7. room \in [Nat -> Nat]
      <3>1. ASSUME NEW i \in Nat, i # 0 PROVE ra[i - 1] + rb[i - 1] \in Nat
        <4>1. i - 1 \in Nat
          BY <3>1
        <4>2. ra[i - 1] \in Nat /\ rb[i - 1] \in Nat
          BY <2>5, <4>1
        <4> QED BY <4>2
      <3> QED BY <3>1
    <2> HIDE DEF room
    <2>8. ASSUME NEW i \in Nat PROVE l[i] <= room[i] /\ room[i + 1] <= 2 * (room[i] - l[i])
      <3>1. CASE i = 0
        <4>1. room[i + 1] = ra[i] + rb[i] /\ ra[i] = 1 /\ rb[i] = 1
          BY <2>5, <2>6, <3>1
        <4>2. room[i] = 1 /\ l[i] = 0
          BY <2>3, <2>6, <3>1
        <4> QED BY <4>1, <4>2
      <3>2. CASE i # 0
        <4>1. PICK j \in Nat : i = j + 1
          <5>1. i - 1 \in Nat /\ i = (i - 1) + 1
            BY <3>2
          <5> QED BY <5>1
        <4>2. PICK xa, xb, ya, yb, za, zb :
                 /\ xa = ra[j] /\ xb = rb[j] /\ ya = la[j] /\ yb = lb[j]
                 /\ za = ra[i] /\ zb = rb[i]
          OBVIOUS
        <4>3. /\ xa \in Nat /\ xb \in Nat /\ ya \in Nat /\ yb \in Nat /\ za \in Nat /\ zb \in Nat
              /\ ya <= xa /\ yb <= xb /\ za <= 2 * (xa - ya) /\ zb <= 2 * (xb - yb)
          BY <2>5, <4>1, <4>2
        <4>4. room[i] = xa + xb /\ l[i] = ya + yb /\ room[i + 1] = za + zb
          BY <2>4, <2>6, <4>1, <4>2
        <4> QED BY <4>3, <4>4
      <3> QED BY <3>1, <3>2
    <2>9. RoomFor(room, l)
      BY <2>3, <2>6, <2>7, <2>8 DEF RoomFor
    <2> QED BY <2>1, <2>9 DEF Kraft
  <1>7. Tree(d)
    BY <1>3, <1>4, <1>5, <1>6 DEF Tree
  <1> QED BY <1>2, <1>7 DEF d

LEMMA BuildsQueue ==
    ASSUME LInv, CodecInv, BuildFreq, UNCHANGED layout
    PROVE  CodecInv'
  <1>1. /\ stage' = "final" /\ stage = "final" /\ cluster' = cluster /\ codec = "counting"
        /\ codec' = "merging" /\ q' = q /\ stream' = stream /\ decoded' = <<>>
        /\ coded' = 0 /\ payload' = <<>> /\ Chosen
    BY DEF BuildFreq, layout, CodecInv
  <1>2. Delivered(cluster)
    BY <1>1 DEF LInv
  <1> DEFINE X(s) == [freq |-> Freq(s), sym |-> s, depth |-> Leaf(s)]
  <1>3. nodes' = {X(s) : s \in Used}
    BY DEF BuildFreq, Leaf
  <1>4. Used \in SUBSET Symbols /\ Used # {} /\ \A s \in Used : Freq(s) \in Nat
    BY <1>1, <1>2, UsedAre DEF Used
  <1>5. \A s : X(s).freq = Freq(s) /\ X(s).sym = s /\ X(s).depth = Leaf(s) /\ DOMAIN X(s).depth = {s}
    BY DEF Leaf
  <1> HIDE DEF X
  <1>6. \A s \in Used : Node(X(s))
    BY <1>4, <1>5, LeafTree DEF Node
  <1>7. Subtrees(nodes')
    BY <1>3, <1>5, <1>6 DEF Subtrees, Apart
  <1>8. \A s \in Symbols : s \in Used <=> \E x \in nodes' : s \in DOMAIN x.depth
    BY <1>3, <1>5
  <1>9. nodes' # {}
    BY <1>3, <1>4
  <1>10. Used' = Used /\ Chosen'
    BY <1>1, SameStream
  <1>11. IsFiniteSet(nodes')
    BY <1>7, NodesFinite
  <1>12. Queue'
    BY <1>7, <1>8, <1>9, <1>10, <1>11 DEF Queue, Subtrees
  <1> QED BY <1>1, <1>10, <1>12 DEF CodecInv

LEMMA MergesNodes ==
    ASSUME LInv, CodecInv, MergeNodes, UNCHANGED layout
    PROVE  CodecInv'
  <1>1. /\ stage' = "final" /\ stage = "final" /\ cluster' = cluster /\ codec = "merging"
        /\ codec' = "merging" /\ q' = q /\ stream' = stream /\ decoded' = <<>>
        /\ coded' = 0 /\ payload' = <<>> /\ Chosen /\ Queue /\ Cardinality(nodes) > 1
    BY DEF MergeNodes, layout, CodecInv
  <1>2. Subtrees(nodes) /\ nodes # {} /\ IsFiniteSet(nodes)
    BY <1>1 DEF Queue, Subtrees
  <1>3. PICK a, b, m : a = Top(nodes) /\ b = Top(nodes \ {a}) /\ m = Merged(a, b)
    OBVIOUS
  <1>4. nodes' = (nodes \ {a, b}) \cup {m}
    BY <1>3 DEF MergeNodes
  <1>5. a \in nodes
    BY <1>2, <1>3, TopIs
  <1>6. b \in nodes \ {a}
    <2>1. nodes \ {a} # {}
      <3>1. ASSUME nodes = {a} PROVE FALSE
        <4>1. Cardinality({a}) = 1
          BY FS_Singleton
        <4> QED BY <1>1, <3>1, <4>1
      <3> QED BY <1>5, <3>1
    <2>2. Subtrees(nodes \ {a})
      BY <1>2 DEF Subtrees, Apart
    <2> QED BY <1>3, <2>1, <2>2, TopIs
  <1>7. Node(a) /\ Node(b) /\ DOMAIN a.depth \cap DOMAIN b.depth = {}
    BY <1>2, <1>5, <1>6 DEF Subtrees, Apart
  <1>8. /\ m.freq = a.freq + b.freq /\ m.sym \in {a.sym, b.sym} /\ m.depth = Joined(a.depth, b.depth)
    BY <1>3 DEF Merged, Joined
  <1>9. Tree(m.depth) /\ DOMAIN m.depth = DOMAIN a.depth \cup DOMAIN b.depth
    <2>1. Tree(a.depth) /\ Tree(b.depth)
      BY <1>7 DEF Node
    <2>2. /\ Tree(Joined(a.depth, b.depth))
          /\ DOMAIN Joined(a.depth, b.depth) = DOMAIN a.depth \cup DOMAIN b.depth
      BY <1>7, <2>1, JoinedTree
    <2> QED BY <1>8, <2>2
  <1>10. Node(m)
    BY <1>7, <1>8, <1>9 DEF Node
  <1>11. Subtrees(nodes')
    <2>1. \A x \in nodes' : Node(x)
      BY <1>2, <1>4, <1>10 DEF Subtrees
    <2>2. ASSUME NEW x \in nodes \ {a, b} PROVE DOMAIN x.depth \cap DOMAIN m.depth = {}
      BY <1>2, <1>5, <1>6, <1>9 DEF Subtrees, Apart
    <2>3. Apart(nodes')
      BY <1>2, <1>4, <2>2 DEF Subtrees, Apart
    <2> QED BY <2>1, <2>3 DEF Subtrees
  <1>12. \A s \in Symbols : s \in Used <=> \E x \in nodes' : s \in DOMAIN x.depth
    <2>1. \A s \in Symbols : s \in Used <=> \E x \in nodes : s \in DOMAIN x.depth
      BY <1>1 DEF Queue
    <2>2. \A s : (\E x \in nodes : s \in DOMAIN x.depth) <=> \E x \in nodes' : s \in DOMAIN x.depth
      BY <1>4, <1>5, <1>6, <1>9
    <2> QED BY <2>1, <2>2
  <1>13. nodes' # {}
    BY <1>4
  <1>14. Used' = Used /\ Chosen'
    BY <1>1, SameStream
  <1>15. IsFiniteSet(nodes')
    BY <1>11, NodesFinite
  <1>16. Queue'
    BY <1>11, <1>12, <1>13, <1>14, <1>15 DEF Queue, Subtrees
  <1> QED BY <1>1, <1>14, <1>16 DEF CodecInv

\* The lengths are the depths of the one tree that is left.
LEMMA LengthsModel ==
    ASSUME Queue, AssignLengths, Used' = Used
    PROVE  Model'
  <1>1. PICK a : nodes = {a}
    BY FS_Singleton DEF Queue, AssignLengths
  <1>2. Subtrees(nodes)
    BY DEF Queue, Subtrees
  <1>3. Top(nodes) = a
    BY <1>1, <1>2, TopIs
  <1>4. PICK d : d = a.depth
    OBVIOUS
  <1>5. len' = [s \in Symbols |-> IF s \notin DOMAIN d THEN 0
                                  ELSE IF DOMAIN d = {s} THEN 1 ELSE d[s]]
    BY <1>3, <1>4 DEF AssignLengths
  <1>6. Tree(d)
    BY <1>1, <1>2, <1>4 DEF Subtrees, Node
  <1>7. \A s \in Symbols : s \in Used <=> s \in DOMAIN d
    BY <1>1, <1>4 DEF Queue
  <1>8. DOMAIN d \in SUBSET Symbols /\ \A s \in DOMAIN d : d[s] \in Nat
    BY <1>6 DEF Tree
  <1>9. PICK n \in Nat : \A s \in DOMAIN d : d[s] <= n
    BY <1>6 DEF Tree
  <1>10. (\E s \in Symbols : DOMAIN d = {s}) \/ (\A s \in DOMAIN d : d[s] > 0)
    BY <1>6 DEF Tree
  <1>11. \A s \in Symbols : /\ len'[s] \in Nat
                            /\ len'[s] > 0 <=> s \in DOMAIN d
                            /\ len'[s] <= n + 1
    <2>1. ASSUME NEW s \in Symbols
          PROVE  len'[s] \in Nat /\ (len'[s] > 0 <=> s \in DOMAIN d) /\ len'[s] <= n + 1
      <3>1. CASE s \notin DOMAIN d
        <4>1. len'[s] = 0
          BY <1>5, <3>1
        <4> QED BY <3>1, <4>1
      <3>2. CASE DOMAIN d = {s}
        <4>1. len'[s] = 1
          BY <1>5, <3>2
        <4> QED BY <3>2, <4>1
      <3>3. CASE s \in DOMAIN d /\ DOMAIN d # {s}
        <4>1. len'[s] = d[s]
          BY <1>5, <3>3
        <4>2. d[s] > 0 /\ d[s] \in Nat /\ d[s] <= n
          BY <1>8, <1>9, <1>10, <3>3
        <4> QED BY <3>3, <4>1, <4>2
      <3> QED BY <3>1, <3>2, <3>3
    <2> QED BY <2>1
  <1>12. len' \in [Symbols -> Nat]
    <2>1. len' = [s \in Symbols |-> len'[s]]
      BY <1>5
    <2> QED BY <1>11, <2>1
  <1>13. \A b \in Nat : Counts'[b] = IF b = 0 THEN 0 ELSE Cardinality({s \in Symbols : len'[s] = b})
    BY DEF Counts, BlCount
  <1>14. Counts' = [b \in Nat |-> Counts'[b]]
    BY DEF Counts
  <1>15. \E room : RoomFor(room, Counts')
    <2>1. CASE \E s \in Symbols : DOMAIN d = {s}
      <3>1. PICK s \in Symbols : DOMAIN d = {s}
        BY <2>1
      <3>2. \A x \in Symbols : len'[x] = IF x = s THEN 1 ELSE 0
        BY <1>5, <3>1
      <3>3. Counts'[1] = 1
        <4>1. {x \in Symbols : len'[x] = 1} = {s}
          BY <3>2
        <4>2. Counts'[1] = Cardinality({s})
          BY <1>13, <4>1
        <4> QED BY <4>2, FS_Singleton
      <3>4. ASSUME NEW b \in Nat, b # 1 PROVE Counts'[b] = 0
        <4>1. b # 0 => {x \in Symbols : len'[x] = b} = {}
          BY <3>2, <3>4
        <4> QED BY <1>13, <4>1, FS_EmptySet
      <3> DEFINE room == [l \in Nat |-> IF l \in {0, 1} THEN 1 ELSE 0]
      <3>5. Counts' \in [Nat -> Nat]
        <4>1. \A b \in Nat : Counts'[b] \in Nat
          BY <3>3, <3>4
        <4> QED BY <1>14, <4>1
      <3>6. room \in [Nat -> Nat] /\ room[0] = 1 /\ room[1] = 1
            /\ \A l \in Nat : l > 1 => room[l] = 0
        OBVIOUS
      <3> HIDE DEF room
      <3>7. ASSUME NEW l \in Nat
            PROVE  Counts'[l] <= room[l] /\ room[l + 1] <= 2 * (room[l] - Counts'[l])
        <4>1. CASE l = 0
          <5>1. Counts'[l] = 0 /\ room[l] = 1 /\ room[l + 1] = 1
            BY <3>4, <3>6, <4>1
          <5> QED BY <5>1
        <4>2. CASE l = 1
          <5>1. Counts'[l] = 1 /\ room[l] = 1 /\ room[l + 1] = 0
            BY <3>3, <3>6, <4>2
          <5> QED BY <5>1
        <4>3. CASE l > 1
          <5>1. Counts'[l] = 0 /\ room[l] = 0 /\ room[l + 1] = 0
            BY <3>4, <3>6, <4>3
          <5> QED BY <5>1
        <4> QED BY <4>1, <4>2, <4>3
      <3> QED BY <3>5, <3>6, <3>7 DEF RoomFor
    <2>2. CASE ~ \E s \in Symbols : DOMAIN d = {s}
      <3>1. \A s \in DOMAIN d : d[s] > 0 /\ DOMAIN d # {s}
        BY <1>8, <1>10, <2>2
      <3>2. \A s \in Symbols : len'[s] = IF s \in DOMAIN d THEN d[s] ELSE 0
        BY <1>5, <3>1
      <3>3. ASSUME NEW b \in Nat PROVE Counts'[b] = LeavesOf(d)[b]
        <4>1. LeavesOf(d)[b] = Cardinality({s \in DOMAIN d : d[s] = b})
          BY DEF LeavesOf
        <4>2. CASE b = 0
          <5>1. {s \in DOMAIN d : d[s] = b} = {}
            <6>1. ASSUME NEW s \in DOMAIN d PROVE d[s] # b
              <7>1. d[s] > 0 /\ d[s] \in Nat
                BY <1>8, <3>1
              <7> QED BY <4>2, <7>1
            <6> QED BY <6>1
          <5> QED BY <1>13, <4>1, <4>2, <5>1, FS_EmptySet
        <4>3. CASE b # 0
          <5>1. {s \in DOMAIN d : d[s] = b} = {s \in Symbols : len'[s] = b}
            BY <1>8, <3>2, <4>3
          <5> QED BY <1>13, <4>1, <4>3, <5>1
        <4> QED BY <4>2, <4>3
      <3>4. Counts' = LeavesOf(d)
        <4>1. LeavesOf(d) = [b \in Nat |-> LeavesOf(d)[b]]
          BY DEF LeavesOf
        <4> QED BY <1>14, <3>3, <4>1
      <3>5. PICK room : RoomFor(room, LeavesOf(d))
        BY <1>6 DEF Tree, Kraft
      <3> QED BY <3>4, <3>5
    <2> QED BY <2>1, <2>2
  <1>16. \E k \in Nat : \A s \in Symbols : len'[s] <= k
    <2>1. n + 1 \in Nat
      OBVIOUS
    <2> QED BY <1>11, <2>1
  <1> QED BY <1>7, <1>11, <1>12, <1>15, <1>16 DEF Model

LEMMA AssignsLengths ==
    ASSUME LInv, CodecInv, AssignLengths, UNCHANGED layout
    PROVE  CodecInv'
  <1>1. /\ stage' = "final" /\ stage = "final" /\ cluster' = cluster /\ codec = "merging"
        /\ codec' = "writing" /\ q' = q /\ stream' = stream /\ decoded' = <<>>
        /\ coded' = 0 /\ payload' = <<>> /\ Chosen /\ Queue
    BY DEF AssignLengths, layout, CodecInv
  <1>2. Delivered(cluster)
    BY <1>1 DEF LInv
  <1>3. Used' = Used /\ Chosen' /\ Delivered(cluster)'
    BY <1>1, <1>2, SameStream
  <1>4. Model'
    BY <1>1, <1>3, LengthsModel
  <1>5. (\E at : Starts(at))'
    <2>1. (Delivered(cluster) /\ Chosen /\ Model => \E at : Starts(at))'
      BY StartsExist, PTL
    <2> QED BY <1>3, <1>4, <2>1
  <1>6. PICK at : Starts(at)'
    BY <1>5
  <1>7. NSymbols' \in Nat
    BY <1>1, <1>2, SymbolFacts, SameStream
  <1>8. Sent(at, coded)' /\ Len(payload') = at[coded']
    BY <1>1, <1>6, <1>7 DEF Sent, Starts
  <1> QED BY <1>1, <1>3, <1>4, <1>6, <1>8 DEF CodecInv

-----------------------------------------------------------------------------
LEMMA CodecSteps ==
    ASSUME LInv, CodecInv, UNCHANGED layout,
           CodecStep \/ \E values \in Quantised : StartStream(values)
    PROVE  CodecInv'
  <1>1. ASSUME NEW values \in Quantised, StartStream(values) PROVE CodecInv'
    BY <1>1, StartsStream
  <1>2. ASSUME CodecStep PROVE CodecInv'
    BY <1>2, BuildsQueue, MergesNodes, AssignsLengths, EncodesSymbol, ThrowsOnLong,
       FinishesStream, OpensStream, ReadsBit, EndsStream DEF CodecStep
  <1> QED BY <1>1, <1>2

LEMMA CodecStays ==
    ASSUME CodecInv, UNCHANGED <<layout, coefficients>>
    PROVE  CodecInv'
  <1>1. /\ stage' = stage /\ cluster' = cluster /\ codec' = codec /\ q' = q
        /\ stream' = stream /\ nodes' = nodes /\ len' = len /\ coded' = coded
        /\ payload' = payload /\ reader' = reader /\ decoded' = decoded
    BY DEF layout, coefficients
  <1>2. /\ Chosen' <=> Chosen
        /\ Used' = Used /\ NSymbols' = NSymbols
        /\ Model' <=> Model
    BY <1>1, SameStream, SameModel
  <1>3. Queue => Queue'
    BY <1>1, <1>2 DEF Queue
  <1>4. \A at : Starts(at) => Starts(at)'
    BY <1>1, SameSent
  <1>5. \A at, n : Sent(at, n) => Sent(at, n)'
    BY <1>1, SameSent
  <1>6. \A at : Inside(at) => Inside(at)'
    BY <1>1, SameSent
  <1>7. Decoded => Decoded'
    BY <1>1, SameSent
  <1>8. CodecIdle => CodecIdle'
    BY <1>1 DEF CodecIdle
  <1>9. codec = "writing" => (\E at : Starts(at) /\ Sent(at, coded) /\ Len(payload) = at[coded])'
    <2>1. SUFFICES ASSUME codec = "writing"
                   PROVE (\E at : Starts(at) /\ Sent(at, coded) /\ Len(payload) = at[coded])'
      OBVIOUS
    <2>2. PICK at : Starts(at) /\ Sent(at, coded) /\ Len(payload) = at[coded]
      BY <2>1 DEF CodecInv
    <2>3. Starts(at)'
      BY <1>4, <2>2
    <2>4. Sent(at, coded)'
      <3>1. PICK n : n = coded
        OBVIOUS
      <3>2. Sent(at, n)' /\ coded' = n
        BY <1>1, <1>5, <2>2, <3>1
      <3> QED BY <3>2 DEF Sent
    <2> QED BY <1>1, <2>2, <2>3, <2>4
  <1>10. codec \in {"written", "reading"} => (\E at : Starts(at) /\ Sent(at, NSymbols))'
    <2>1. SUFFICES ASSUME codec \in {"written", "reading"}
                   PROVE (\E at : Starts(at) /\ Sent(at, NSymbols))'
      OBVIOUS
    <2>2. PICK at : Starts(at) /\ Sent(at, NSymbols)
      BY <2>1 DEF CodecInv
    <2>3. Starts(at)'
      BY <1>4, <2>2
    <2>4. Sent(at, NSymbols)'
      BY <1>2, <1>5, <2>2 DEF Sent
    <2> QED BY <2>3, <2>4
  <1>11. codec = "reading" => (\E at : Starts(at) /\ Sent(at, NSymbols) /\ Inside(at))'
    <2>1. SUFFICES ASSUME codec = "reading"
                   PROVE (\E at : Starts(at) /\ Sent(at, NSymbols) /\ Inside(at))'
      OBVIOUS
    <2>2. PICK at : Starts(at) /\ Sent(at, NSymbols) /\ Inside(at)
      BY <2>1 DEF CodecInv
    <2>3. Starts(at)' /\ Inside(at)'
      BY <1>4, <1>6, <2>2
    <2>4. Sent(at, NSymbols)'
      BY <1>2, <1>5, <2>2 DEF Sent
    <2> QED BY <2>3, <2>4
  <1> QED BY <1>1, <1>2, <1>3, <1>7, <1>8, <1>9, <1>10, <1>11 DEF CodecInv

\* As long as no stream has been begun, the cluster may change.
LEMMA CodecWaits ==
    ASSUME CodecInv, stage # "final", UNCHANGED coefficients
    PROVE  CodecInv'
  <1>1. codec = "idle" /\ CodecIdle
    BY DEF CodecInv
  <1>2. codec' = "idle" /\ CodecIdle'
    BY <1>1 DEF coefficients, CodecIdle
  <1> QED BY <1>2 DEF CodecInv

LEMMA InductiveCodec == CodecSpec => [](LInv /\ CodecInv)
  <1>1. LayoutInit /\ CodecIdle => LInv /\ CodecInv
    BY DEF LayoutInit, CodecIdle, LInv, SameForestInLevels, CodecInv
  <1>2. LInv /\ CodecInv /\ [CodecNext]_<<layout, coefficients>> => (LInv /\ CodecInv)'
    <2>1. ASSUME LInv, CodecInv, LayoutNext, UNCHANGED coefficients PROVE (LInv /\ CodecInv)'
      BY <2>1, LayoutSteps, CodecWaits
    <2>2. ASSUME LInv, CodecInv, UNCHANGED layout,
                 CodecStep \/ \E values \in Quantised : StartStream(values)
          PROVE  (LInv /\ CodecInv)'
      BY <2>2, LayoutStays, CodecSteps
    <2>3. ASSUME LInv, CodecInv, UNCHANGED <<layout, coefficients>> PROVE (LInv /\ CodecInv)'
      BY <2>3, LayoutStays, CodecStays
    <2> QED BY <2>1, <2>2, <2>3 DEF CodecNext
  <1> QED BY <1>1, <1>2, PTL DEF CodecSpec

\* The payload and the table do not end inside a code.
LEMMA NotPastTheEnd ==
    ASSUME LInv, CodecInv, codec = "reading", Len(decoded) < stream.count * ReadWidth
    PROVE  reader.pos < Len(payload) /\ reader.bits < MaxLen
  <1>1. stage = "final" /\ Chosen /\ Model /\ Decoded
    BY DEF CodecInv
  <1>2. Delivered(cluster)
    BY <1>1 DEF LInv
  <1>3. PICK at : Starts(at) /\ Sent(at, NSymbols) /\ Inside(at)
    BY DEF CodecInv
  <1>4. PICK n, m : n = Len(decoded) /\ m = len[Symbol(n)]
    OBVIOUS
  <1>5. NSymbols \in Nat /\ n \in Nat /\ n < NSymbols /\ n \in Positions
    <2>1. NSymbols \in Nat /\ NSymbols = stream.count * ReadWidth
      BY <1>1, <1>2, SymbolFacts
    <2>2. n \in Nat
      BY <1>1, <1>4 DEF Decoded
    <2> QED BY <1>4, <2>1, <2>2 DEF Positions
  <1>6. m \in Nat /\ m <= MaxLen /\ MaxLen \in Nat
    BY <1>1, <1>2, <1>4, <1>5, HasCode, MaxLenFacts
  <1>7. /\ reader \in [pos : Nat, bits : Nat, code_val : Nat] /\ reader.bits < m
        /\ reader.pos = at[n] + reader.bits
    BY <1>3, <1>4, <1>5 DEF Inside
  <1>8. at[n] \in Nat /\ at[n + 1] = at[n] + m
    BY <1>3, <1>4, <1>5 DEF Starts
  <1>9. at[n + 1] <= Len(payload) /\ Len(payload) \in Nat
    <2>1. n \in 0 .. NSymbols - 1
      BY <1>5
    <2> QED BY <1>3, <2>1 DEF Sent
  <1> QED BY <1>6, <1>7, <1>8, <1>9

\* What has been read is what was written, coefficient by coefficient.
LEMMA AllRead ==
    ASSUME LInv, CodecInv, codec = "read"
    PROVE  \A row \in 0 .. stream.count - 1, column \in 0 .. ReadWidth - 1 :
              QFromSym(decoded[row * ReadWidth + column + 1])
                  = q[stream.first + row][From(stream.group) + column]
  <1>1. stage = "final" /\ Chosen /\ Decoded /\ Len(decoded) = NSymbols
    BY DEF CodecInv
  <1>2. Delivered(cluster)
    BY <1>1 DEF LInv
  <1>3. ASSUME NEW row \in 0 .. stream.count - 1, NEW column \in 0 .. ReadWidth - 1
        PROVE  QFromSym(decoded[row * ReadWidth + column + 1])
                   = q[stream.first + row][From(stream.group) + column]
    <2>1. PICK k, c : /\ k = row * ReadWidth + column
                      /\ c = q[stream.first + row][From(stream.group) + column]
      OBVIOUS
    <2>2. k \in Positions /\ Symbol(k) = c + QMax /\ NSymbols \in Nat
      BY <1>1, <1>2, <2>1, SymbolFacts
    <2>3. k \in Nat /\ k + 1 \in 1 .. Len(decoded) /\ (k + 1) - 1 = k
      BY <1>1, <2>2 DEF Positions
    <2>4. decoded[k + 1] = c + QMax
      BY <1>1, <2>2, <2>3 DEF Decoded
    <2>5. c \in Int
      <3>1. stream.first + row \in 1 .. Layers
            /\ From(stream.group) + column \in Locals(cluster)
        BY <1>1, <1>2, StreamFacts
      <3>2. c \in -QMax .. QMax
        BY <1>1, <2>1, <3>1 DEF Chosen, Quantised
      <3> QED BY <3>2, CodecAssumption
    <2>6. S \div 2 = QMax
      BY CodecAssumption DEF S
    <2>7. QFromSym(decoded[k + 1]) = c
      BY <2>4, <2>5, <2>6, CodecAssumption DEF QFromSym
    <2> QED BY <2>1, <2>7
  <1> QED BY <1>3

LEMMA CoefficientsCorrect ==
    ASSUME LInv, CodecInv
    PROVE  CoefficientsReadBack
  <1>1. codec # "idle" => \A g \in {"root", "linkage"} : Group(g) = From(g) .. To(g) - 1
    <2>1. codec # "idle" => Delivered(cluster)
      BY DEF LInv, CodecInv
    <2> QED BY <2>1, Ranges
  <1>2. codec = "error" => \E s \in Symbols : len[s] > MaxBits
    BY DEF CodecInv
  <1>3. codec = "reading" /\ Len(decoded) < stream.count * ReadWidth =>
           reader.pos < Len(payload) /\ reader.bits < MaxLen
    BY NotPastTheEnd
  <1>4. codec = "read" =>
           \A row \in 0 .. stream.count - 1, column \in 0 .. ReadWidth - 1 :
              QFromSym(decoded[row * ReadWidth + column + 1])
                  = q[stream.first + row][From(stream.group) + column]
    BY AllRead
  <1> QED BY <1>1, <1>2, <1>3, <1>4 DEF CoefficientsReadBack

(***************************************************************************)
(* Whatever cluster a builder hands over, with any coefficients, layers    *)
(* and alphabet, the reader's ranges are the writer's groups, DecodeSymbol *)
(* finds the end of every code that the writer put into a stream, reads    *)
(* past neither the payload nor the table, and gives every coefficient     *)
(* back at its own vertex and layer; the writer stops only at a code       *)
(* longer than WriteBits takes.                                            *)
(***************************************************************************)
THEOREM CoefficientsComeBack == CodecSpec => []CoefficientsReadBack
  <1>1. LInv /\ CodecInv => CoefficientsReadBack
    BY CoefficientsCorrect
  <1> QED BY <1>1, InductiveCodec, PTL

-----------------------------------------------------------------------------
(***************************************************************************)
(* The whole record.  While the reference builder is at work, a vertex has *)
(* the parent that the finished forest gives it, or none; after that the   *)
(* cluster is what the layout, the LOUDS and the codec require of any      *)
(* builder.                                                                *)
(***************************************************************************)
Building ==
    /\ NotStarted
    /\ \E p \in [Nodes -> Nat] :
          /\ cluster = [nv |-> 0, nr |-> N, indices |-> [k \in Nodes |-> k], parent |-> p]
          /\ \A v \in Nodes : p[v] # 0 => phase = "done" /\ p[v] = parent[v] + 1

RecordInv ==
    /\ IInv /\ next \in Nat
    /\ stage = "forest" => Building
    /\ stage # "forest" => LInv
    /\ LoudsInv /\ CodecInv

\* The order of the forest has depths that grow from parent to child, so what
\* is built from it is a forest.
LEMMA BuiltIsForest ==
    ASSUME IInv, Building, phase = "done"
    PROVE  IsForest(cluster)
  <1>1. PICK p \in [Nodes -> Nat] :
           /\ cluster = [nv |-> 0, nr |-> N, indices |-> [k \in Nodes |-> k], parent |-> p]
           /\ \A v \in Nodes : p[v] # 0 => p[v] = parent[v] + 1
    BY DEF Building
  <1>2. N \in Nat /\ N > 0
    BY SizeAssumption
  <1>3. /\ cluster.nv = 0 /\ cluster.nr = N /\ cluster.parent = p
        /\ cluster.indices = [k \in Nodes |-> k]
        /\ Total(cluster) = N /\ Locals(cluster) = Nodes
    BY <1>1, <1>2 DEF Total, Locals, Nodes
  <1>4. ASSUME NEW v \in Nodes, p[v] # 0
        PROVE  /\ parent[v] \in Nodes /\ p[v] = parent[v] + 1
               /\ depth[v] = depth[parent[v]] + 1
    <2>1. parent[v] \in Nodes \cup {NoNode} /\ p[v] = parent[v] + 1
      BY <1>1, <1>4 DEF IInv, ForestTypeOK
    <2>2. parent[v] # NoNode
      BY <1>4, <2>1 DEF NoNode
    <2> QED BY <2>1, <2>2 DEF IInv, ParentsFirst
  <1>5. depth \in [Nodes -> Nat]
    BY DEF IInv, ForestTypeOK
  <1>6. p \in [Nodes -> 0 .. N]
    <2>1. ASSUME NEW v \in Nodes PROVE p[v] \in 0 .. N
      <3>1. CASE p[v] = 0
        BY <1>2, <3>1
      <3>2. CASE p[v] # 0
        BY <1>2, <1>4, <3>2 DEF Nodes
      <3> QED BY <3>1, <3>2
    <2> QED BY <2>1
  <1>7. cluster.indices \in [0 .. cluster.nr - 1 -> Nat]
    BY <1>2, <1>3 DEF Nodes
  <1>8. ASSUME NEW T \in SUBSET Nodes, T # {}
        PROVE  \E u \in T : p[u] = 0 \/ p[u] - 1 \notin T
    <2>1. {depth[v] : v \in T} \subseteq Nat /\ {depth[v] : v \in T} # {}
      BY <1>5, <1>8
    <2>2. PICK d \in {depth[v] : v \in T} : \A e \in {depth[v] : v \in T} : d <= e
      BY <2>1, NatMinimum
    <2>3. PICK u \in T : depth[u] = d
      BY <2>2
    <2>4. ASSUME p[u] # 0 PROVE p[u] - 1 \notin T
      <3>1. PICK w, du, dw : w = parent[u] /\ du = depth[u] /\ dw = depth[w]
        OBVIOUS
      <3>2. w \in Nodes /\ p[u] = w + 1 /\ du = dw + 1 /\ dw \in Nat
        BY <1>4, <1>5, <1>8, <2>3, <2>4, <3>1
      <3>3. p[u] - 1 = w
        BY <3>2 DEF Nodes
      <3>4. w \in T => du <= dw
        BY <2>2, <2>3, <3>1
      <3>5. ~(du <= dw)
        BY <3>2
      <3> QED BY <3>3, <3>4, <3>5
    <2> QED BY <2>4
  <1>9. Rooted(cluster)
    BY <1>3, <1>8 DEF Rooted
  <1>10. \A u \in Locals(cluster) : Virtual(cluster, u) => cluster.parent[u] = 0
    BY <1>2, <1>3 DEF Virtual, Nodes
  <1> QED BY <1>2, <1>3, <1>6, <1>7, <1>9, <1>10 DEF IsForest

\* So is what any other builder hands over.
LEMMA OthersAreForests ==
    ASSUME NEW nv \in 0 .. MaxVirtual, NEW nr \in 0 .. N, nv + nr > 0,
           NEW c \in Clusters(nv, nr)
    PROVE  IsForest(c)
  <1>1. nv \in Nat /\ nr \in Nat
    BY RecordAssumption, SizeAssumption
  <1>2. Rooted(c)
    BY DEF Clusters
  <1>3. PICK p \in [nv .. nv + nr - 1 -> 0 .. nv + nr] :
           c.parent = [u \in 0 .. nv + nr - 1 |-> IF u < nv THEN 0 ELSE p[u]]
    BY DEF Clusters
  <1>4. c.nv = nv /\ c.nr = nr /\ c.indices \in Indices(nr)
    BY DEF Clusters
  <1>5. Total(c) = nv + nr /\ Locals(c) = 0 .. nv + nr - 1
    BY <1>4 DEF Total, Locals
  <1>6. c.indices \in [0 .. nr - 1 -> Nat]
    BY <1>1, <1>4 DEF Indices
  <1>7. ASSUME NEW u \in 0 .. nv + nr - 1
        PROVE  (IF u < nv THEN 0 ELSE p[u]) \in 0 .. nv + nr
    <2>1. CASE u < nv
      BY <1>1, <2>1
    <2>2. CASE ~(u < nv)
      <3>1. u \in nv .. nv + nr - 1
        BY <1>1, <2>2
      <3> QED BY <2>2, <3>1
    <2> QED BY <2>1, <2>2
  <1>8. c.parent \in [Locals(c) -> 0 .. Total(c)]
    BY <1>3, <1>5, <1>7
  <1>9. \A u \in Locals(c) : Virtual(c, u) => c.parent[u] = 0
    BY <1>3, <1>4, <1>5 DEF Virtual
  <1> QED BY <1>1, <1>2, <1>4, <1>5, <1>6, <1>8, <1>9 DEF IsForest

LEMMA RecordStarts == Init => RecordInv
  <1> SUFFICES ASSUME Init PROVE RecordInv
    OBVIOUS
  <1>1. IInv /\ next \in Nat /\ NotStarted /\ step = "idle" /\ codec = "idle" /\ CodecIdle
    BY InitHolds DEF Init, LoudsIdle, CodecIdle
  <1>2. LoudsInv /\ CodecInv
    BY <1>1 DEF LoudsInv, CodecInv
  <1>3. CASE /\ stage = "forest"
             /\ cluster = [nv |-> 0, nr |-> N, indices |-> [k \in Nodes |-> k],
                            parent |-> [u \in Nodes |-> 0]]
    <2>1. PICK p : p = [u \in Nodes |-> 0]
      OBVIOUS
    <2>2. p \in [Nodes -> Nat] /\ \A v \in Nodes : p[v] = 0
      BY <2>1
    <2>3. Building
      BY <1>1, <1>3, <2>1, <2>2 DEF Building
    <2> QED BY <1>1, <1>2, <1>3, <2>3 DEF RecordInv
  <1>4. CASE /\ stage = "built"
             /\ \E nv \in 0 .. MaxVirtual, nr \in 0 .. N :
                   nv + nr > 0 /\ cluster \in Clusters(nv, nr)
    <2>1. IsForest(cluster)
      BY <1>4, OthersAreForests
    <2>2. LInv
      BY <1>1, <1>4, <2>1 DEF LInv, SameForestInLevels
    <2> QED BY <1>1, <1>2, <1>4, <2>2 DEF RecordInv
  <1> QED BY <1>3, <1>4 DEF Init

LEMMA BuildForestKeeps ==
    ASSUME RecordInv, BuildForest
    PROVE  RecordInv'
  <1>1. /\ IInv /\ stage = "forest" /\ stage' = "forest" /\ Building
        /\ next \in Nat /\ next' = next /\ ForestNext
        /\ UNCHANGED layout /\ UNCHANGED louds /\ UNCHANGED coefficients
    BY DEF RecordInv, BuildForest, layout
  <1>2. IInv'
    BY <1>1, ForestSteps
  <1>3. phase # "done"
    BY <1>1 DEF ForestNext, SkipVisited, StartPath, Walk, CutCycle, EndPath, ListChildren,
                QueueRoot, StartOrder, Pop, QueueChild, EndOrder
  <1>4. Building'
    BY <1>1, <1>3 DEF Building, NotStarted, layout
  <1>5. LoudsInv' /\ CodecInv'
    BY <1>1, LoudsStays, CodecStays DEF RecordInv
  <1> QED BY <1>1, <1>2, <1>4, <1>5 DEF RecordInv

LEMMA EncodeVertexKeeps ==
    ASSUME RecordInv, EncodeVertex
    PROVE  RecordInv'
  <1>1. /\ IInv /\ stage = "forest" /\ stage' = "forest" /\ Building
        /\ next \in Nat /\ next < Len(line) /\ next' = next + 1 /\ phase = "done"
        /\ UNCHANGED forest /\ UNCHANGED louds /\ UNCHANGED coefficients
    BY DEF RecordInv, EncodeVertex
  <1>2. IInv'
    BY <1>1, ForestSteps
  <1>3. NotStarted'
    BY <1>1 DEF Building, NotStarted, EncodeVertex
  <1>4. parent' = parent /\ phase' = phase
    BY <1>1 DEF forest
  <1>5. PICK v : v = line[next']
    OBVIOUS
  <1>6. v \in Nodes /\ parent \in [Nodes -> Nodes \cup {NoNode}]
    <2>1. line \in Seq(Nodes) /\ parent \in [Nodes -> Nodes \cup {NoNode}]
      BY <1>1 DEF IInv, ForestTypeOK
    <2>2. next' \in 1 .. Len(line)
      BY <1>1, <2>1
    <2> QED BY <1>5, <2>1, <2>2
  <1>7. PICK p \in [Nodes -> Nat] :
           /\ cluster = [nv |-> 0, nr |-> N, indices |-> [k \in Nodes |-> k], parent |-> p]
           /\ \A u \in Nodes : p[u] # 0 => p[u] = parent[u] + 1
    BY <1>1 DEF Building
  <1>8. ASSUME NEW r \in [Nodes -> Nat],
               cluster' = [nv |-> 0, nr |-> N, indices |-> [k \in Nodes |-> k], parent |-> r],
               \A u \in Nodes : r[u] # 0 => r[u] = parent[u] + 1
        PROVE  Building'
    <2>1. phase' = "done" /\ \A u \in Nodes : r[u] # 0 => r[u] = parent'[u] + 1
      BY <1>1, <1>4, <1>8
    <2> QED BY <1>3, <1>8, <2>1 DEF Building
  <1>9. ASSUME parent[v] # NoNode, cluster' = [cluster EXCEPT !.parent[v] = parent[v] + 1]
        PROVE  Building'
    <2>1. parent[v] \in Nodes /\ parent[v] + 1 \in Nat
      BY <1>6, <1>9 DEF Nodes
    <2>2. PICK r : r = [p EXCEPT ![v] = parent[v] + 1]
      OBVIOUS
    <2>3. r \in [Nodes -> Nat] /\ \A u \in Nodes : r[u] # 0 => r[u] = parent[u] + 1
      BY <1>6, <1>7, <2>1, <2>2
    <2>4. cluster' = [nv |-> 0, nr |-> N, indices |-> [k \in Nodes |-> k], parent |-> r]
      BY <1>7, <1>9, <2>2
    <2> QED BY <1>8, <2>3, <2>4
  <1>10. ASSUME cluster' = cluster PROVE Building'
    BY <1>7, <1>8, <1>10
  <1>11. \/ parent[v] # NoNode /\ cluster' = [cluster EXCEPT !.parent[v] = parent[v] + 1]
         \/ cluster' = cluster
    BY <1>5 DEF EncodeVertex
  <1>12. Building'
    BY <1>9, <1>10, <1>11
  <1>13. LoudsInv' /\ CodecInv'
    BY <1>1, LoudsWaits, CodecWaits DEF RecordInv
  <1> QED BY <1>1, <1>2, <1>12, <1>13 DEF RecordInv

LEMMA ForestBuiltKeeps ==
    ASSUME RecordInv, ForestBuilt
    PROVE  RecordInv'
  <1>1. /\ IInv /\ stage = "forest" /\ stage' = "built" /\ Building
        /\ next \in Nat /\ next' = next /\ phase = "done" /\ cluster' = cluster
        /\ UNCHANGED forest /\ UNCHANGED louds /\ UNCHANGED coefficients
    BY DEF RecordInv, ForestBuilt
  <1>2. IInv'
    BY <1>1, ForestSteps
  <1>3. NotStarted'
    BY <1>1 DEF Building, NotStarted, ForestBuilt
  <1>4. IsForest(cluster)'
    BY <1>1, BuiltIsForest
  <1>5. LInv'
    BY <1>1, <1>3, <1>4 DEF LInv, SameForestInLevels
  <1>6. LoudsInv' /\ CodecInv'
    BY <1>1, LoudsWaits, CodecWaits DEF RecordInv
  <1> QED BY <1>1, <1>2, <1>5, <1>6 DEF RecordInv

\* What the later actions share: the forest is finished and stays.
LEMMA ForestStays ==
    ASSUME RecordInv, stage # "forest", UNCHANGED <<forest, next>>,
           LInv', LoudsInv', CodecInv'
    PROVE  RecordInv'
  <1>1. IInv'
    BY ForestSteps DEF RecordInv
  <1>2. stage' # "forest"
    BY DEF LInv
  <1> QED BY <1>1, <1>2 DEF RecordInv

LEMMA LayoutKeeps ==
    ASSUME RecordInv, Layout
    PROVE  RecordInv'
  <1>1. /\ LayoutNext /\ UNCHANGED <<forest, next>>
        /\ UNCHANGED louds /\ UNCHANGED coefficients
    BY DEF Layout
  <1>2. stage \in {"built", "layout"}
    BY <1>1 DEF LayoutNext, StartLayout, Visit, NextLevel, Renumber
  <1>3. LInv'
    BY <1>1, <1>2, LayoutSteps DEF RecordInv
  <1>4. LoudsInv' /\ CodecInv'
    BY <1>1, <1>2, LoudsWaits, CodecWaits DEF RecordInv
  <1> QED BY <1>1, <1>2, <1>3, <1>4, ForestStays

LEMMA LoudsKeeps ==
    ASSUME RecordInv, Louds
    PROVE  RecordInv'
  <1>1. /\ stage = "final" /\ LoudsStep /\ UNCHANGED <<forest, next>>
        /\ UNCHANGED layout /\ UNCHANGED coefficients
    BY DEF Louds
  <1>2. LInv /\ LInv'
    BY <1>1, LayoutStays DEF RecordInv
  <1>3. LoudsInv'
    BY <1>1, <1>2, LoudsSteps DEF RecordInv
  <1>4. CodecInv'
    BY <1>1, CodecStays DEF RecordInv
  <1> QED BY <1>1, <1>2, <1>3, <1>4, ForestStays

LEMMA CodedKeeps ==
    ASSUME RecordInv, Coded
    PROVE  RecordInv'
  <1>1. /\ stage = "final" /\ UNCHANGED <<forest, next>>
        /\ UNCHANGED layout /\ UNCHANGED louds
        /\ CodecStep \/ \E values \in Quantised : StartStream(values)
    BY DEF Coded
  <1>2. LInv /\ LInv'
    BY <1>1, LayoutStays DEF RecordInv
  <1>3. CodecInv'
    BY <1>1, <1>2, CodecSteps DEF RecordInv
  <1>4. LoudsInv'
    BY <1>1, LoudsStays DEF RecordInv
  <1> QED BY <1>1, <1>2, <1>3, <1>4, ForestStays

LEMMA RecordStays ==
    ASSUME RecordInv, UNCHANGED vars
    PROVE  RecordInv'
  <1>1. /\ UNCHANGED <<forest, next>> /\ UNCHANGED layout /\ UNCHANGED louds
        /\ UNCHANGED coefficients
    BY DEF vars
  <1>2. LoudsInv' /\ CodecInv'
    BY <1>1, LoudsStays, CodecStays DEF RecordInv
  <1>3. CASE stage # "forest"
    BY <1>1, <1>2, <1>3, LayoutStays, ForestStays DEF RecordInv
  <1>4. CASE stage = "forest"
    <2>1. IInv'
      BY <1>1, ForestSteps DEF RecordInv
    <2>2. Building' /\ stage' = "forest" /\ next' \in Nat
      BY <1>1, <1>4 DEF RecordInv, Building, NotStarted, layout, forest
    <2> QED BY <1>2, <2>1, <2>2 DEF RecordInv
  <1> QED BY <1>3, <1>4

LEMMA InductiveRecord == Spec => []RecordInv
  <1>1. RecordInv /\ [Next]_vars => RecordInv'
    BY BuildForestKeeps, EncodeVertexKeeps, ForestBuiltKeeps, LayoutKeeps, LoudsKeeps,
       CodedKeeps, RecordStays DEF Next
  <1> QED BY <1>1, RecordStarts, PTL DEF Spec

(***************************************************************************)
(* The reference builder's part of the record is a run of                  *)
(* BuildReferenceForest: nothing after it touches the forest, so what is   *)
(* proved of ForestSpec holds here.                                        *)
(***************************************************************************)
THEOREM RecordBuildsForest == Spec => ForestSpec
  <1>1. Init => ForestInit
    BY DEF Init
  <1>2. [Next]_vars => [ForestNext]_forest
    BY DEF vars, Next, BuildForest, EncodeVertex, ForestBuilt, Layout, Louds, Coded
  <1> QED BY <1>1, <1>2, PTL DEF Spec, ForestSpec

(***************************************************************************)
(* From the references of a cluster to its record and back: the cluster    *)
(* that linkage_reference_forest_builder.inc fills in, or that another     *)
(* builder hands over, is a forest and stays that forest in the layout,    *)
(* its parents come back from the LOUDS and its coefficients from the      *)
(* streams.                                                                *)
(***************************************************************************)
THEOREM RecordComesBack ==
    Spec => [](SameForestInLevels /\ ParentsReadBack /\ CoefficientsReadBack)
  <1>1. ASSUME RecordInv
        PROVE  SameForestInLevels /\ ParentsReadBack /\ CoefficientsReadBack
    <2>1. SameForestInLevels
      BY <1>1 DEF RecordInv, LInv, SameForestInLevels
    <2>2. ParentsReadBack
      BY <1>1, ParentsCorrect DEF RecordInv
    <2>3. CASE stage = "forest"
      <3>1. codec = "idle"
        BY <1>1, <2>3 DEF RecordInv, CodecInv
      <3> QED BY <2>1, <2>2, <3>1 DEF CoefficientsReadBack
    <2>4. CASE stage # "forest"
      BY <1>1, <2>1, <2>2, <2>4, CoefficientsCorrect DEF RecordInv
    <2> QED BY <2>3, <2>4
  <1> QED BY <1>1, InductiveRecord, PTL

=============================================================================
