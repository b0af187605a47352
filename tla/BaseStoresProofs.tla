--------------------------- MODULE BaseStoresProofs ---------------------------
(***************************************************************************)
(* Proofs about BaseStores, for any number of vectors, clusters, blocks    *)
(* and runs, any assignment of vectors to clusters and any settings.       *)
(*                                                                         *)
(* A file is compared with what an uninterrupted run would have written    *)
(* record by record: the i-th record of a file is the vector of that file  *)
(* with i-1 others before it.  What a file should hold is then a number,   *)
(* the Count of its vectors below some n, and appending, cutting and       *)
(* committing become arithmetic on these numbers.                          *)
(***************************************************************************)
EXTENDS BaseStores, FiniteSetTheorems, WellFoundedInduction, TLAPS

(***************************************************************************)
(* Ranks: how many elements of a finite set of numbers are below n         *)
(***************************************************************************)

Rank(T, n) == Cardinality({x \in T : x < n})

\* A rank is a number, at most the size of the set.
LEMMA RankNat ==
    ASSUME NEW T \in SUBSET Nat, IsFiniteSet(T), NEW n \in Nat
    PROVE  /\ IsFiniteSet({x \in T : x < n})
           /\ Rank(T, n) \in Nat
           /\ Cardinality(T) \in Nat
           /\ Rank(T, n) <= Cardinality(T)
    BY FS_Subset, FS_CardinalityType DEF Rank

\* Passing an element adds one to the rank, passing anything else nothing.
LEMMA RankStep ==
    ASSUME NEW T \in SUBSET Nat, IsFiniteSet(T), NEW n \in Nat
    PROVE  Rank(T, n + 1) = Rank(T, n) + (IF n \in T THEN 1 ELSE 0)
<1> DEFINE B == {x \in T : x < n}
<1>1. IsFiniteSet(B) /\ Cardinality(B) \in Nat
    BY RankNat, FS_CardinalityType
<1>2. CASE n \in T
    <2>0. \A x \in T : x < n + 1 <=> (x < n \/ x = n)
        OBVIOUS
    <2>1. {x \in T : x < n + 1} = B \cup {n}
        BY <1>2, <2>0, Zenon
    <2>2. n \notin B
        OBVIOUS
    <2>3. Cardinality(B \cup {n}) = Cardinality(B) + 1
        BY <1>1, <2>2, FS_AddElement
    <2> QED BY <1>2, <2>1, <2>3 DEF Rank
<1>3. CASE n \notin T
    <2>0. \A x \in T : x < n + 1 <=> x < n
        BY <1>3
    <2>1. {x \in T : x < n + 1} = B
        BY <2>0
    <2> QED BY <1>1, <1>3, <2>1 DEF Rank
<1> QED BY <1>2, <1>3

\* Ranks do not fall,
LEMMA RankMono ==
    ASSUME NEW T \in SUBSET Nat, IsFiniteSet(T), NEW m \in Nat, NEW n \in Nat, m <= n
    PROVE  Rank(T, m) <= Rank(T, n)
<1>1. \A x \in T : x < m => x < n
    OBVIOUS
<1>2. IsFiniteSet({x \in T : x < n})
    BY RankNat
<1>3. {x \in T : x < m} \subseteq {x \in T : x < n}
    BY <1>1
<1> QED BY <1>2, <1>3, FS_Subset DEF Rank

\* and rise at every element, so that an element is known by its rank.
LEMMA RankStrict ==
    ASSUME NEW T \in SUBSET Nat, IsFiniteSet(T), NEW x \in T, NEW n \in Nat, x < n
    PROVE  Rank(T, x) < Rank(T, n)
<1>1. x \in Nat /\ x + 1 \in Nat /\ x + 1 <= n
    OBVIOUS
<1>2. Rank(T, x + 1) = Rank(T, x) + 1
    BY <1>1, RankStep
<1>3. Rank(T, x + 1) <= Rank(T, n)
    BY <1>1, RankMono
<1>4. Rank(T, x) \in Nat /\ Rank(T, n) \in Nat
    BY <1>1, RankNat
<1> QED BY <1>1, <1>2, <1>3, <1>4

LEMMA RankInjective ==
    ASSUME NEW T \in SUBSET Nat, IsFiniteSet(T), NEW x \in T, NEW y \in T,
           Rank(T, x) = Rank(T, y)
    PROVE  x = y
<1>1. x \in Nat /\ y \in Nat
    OBVIOUS
<1>2. Rank(T, x) \in Nat /\ Rank(T, y) \in Nat
    BY <1>1, RankNat
<1>3. ~(x < y)
    BY <1>1, <1>2, RankStrict
<1>4. ~(y < x)
    BY <1>1, <1>2, RankStrict
<1> QED BY <1>1, <1>3, <1>4

\* Beyond the last element the rank is the size of the set.
LEMMA RankFull ==
    ASSUME NEW n \in Nat, NEW T \in SUBSET (0 .. n - 1)
    PROVE  /\ IsFiniteSet(T) /\ T \in SUBSET Nat
           /\ Rank(T, n) = Cardinality(T)
<1>1. IsFiniteSet(0 .. n - 1)
    BY FS_Interval
<1>2. IsFiniteSet(T) /\ T \in SUBSET Nat
    <2>1. T \subseteq 0 .. n - 1
        OBVIOUS
    <2>2. \A x \in T : x \in Nat
        OBVIOUS
    <2> QED BY <1>1, <2>1, <2>2, FS_Subset
<1>3. \A x \in T : x < n
    OBVIOUS
<1>4. {x \in T : x < n} = T
    BY <1>3, Zenon
<1> QED BY <1>2, <1>4 DEF Rank

\* A nonempty set of numbers has a least element.
LEMMA NatLeast ==
    ASSUME NEW S \in SUBSET Nat, S # {}
    PROVE  \E m \in S : \A k \in S : m <= k
<1>1. PICK m \in S : \A k \in S : <<k, m>> \notin OpToRel(<, Nat)
    BY NatLessThanWellFounded, WFMin, Zenon
<1>2. \A k \in S : ~(k < m)
    BY <1>1 DEF OpToRel
<1> QED BY <1>2

\* Every rank below the size is the rank of an element.
LEMMA RankReaches ==
    ASSUME NEW n \in Nat, NEW T \in SUBSET (0 .. n - 1), NEW k \in Nat, k < Cardinality(T)
    PROVE  \E x \in T : Rank(T, x) = k
<1> DEFINE S == {y \in Nat : k < Rank(T, y)}
<1>1. IsFiniteSet(T) /\ T \in SUBSET Nat /\ Rank(T, n) = Cardinality(T)
    BY RankFull
<1>2. n \in S
    BY <1>1
<1>3. PICK y \in S : \A z \in S : y <= z
    BY <1>2, NatLeast
<1>4. Rank(T, 0) = 0
    <2>1. \A x \in T : ~(x < 0)
        BY <1>1
    <2>2. {x \in T : x < 0} = {}
        BY <2>1, Zenon
    <2> QED BY <2>2, FS_EmptySet DEF Rank
<1>5. y - 1 \in Nat /\ y = (y - 1) + 1
    BY <1>3, <1>4
<1>6. y - 1 \notin S
    BY <1>3, <1>5
<1>7. Rank(T, y) = Rank(T, y - 1) + (IF y - 1 \in T THEN 1 ELSE 0)
    BY <1>1, <1>5, RankStep
<1>8. Rank(T, y) \in Nat /\ Rank(T, y - 1) \in Nat
    BY <1>1, <1>3, <1>5, RankNat
<1>9. ~(k < Rank(T, y - 1)) /\ k < Rank(T, y)
    BY <1>3, <1>5, <1>6
<1>10. y - 1 \in T /\ Rank(T, y - 1) = k
    BY <1>7, <1>8, <1>9
<1> QED BY <1>10

\* Ascending puts the elements of a set in the order of their ranks.
LEMMA AscendingAt ==
    ASSUME NEW n \in Nat, NEW T \in SUBSET (0 .. n - 1)
    PROVE  /\ Ascending(T) \in Seq(T)
           /\ Cardinality(T) \in Nat
           /\ Len(Ascending(T)) = Cardinality(T)
           /\ \A k \in 1 .. Cardinality(T) :
                 Ascending(T)[k] \in T /\ Rank(T, Ascending(T)[k]) = k - 1
<1>1. IsFiniteSet(T) /\ Cardinality(T) \in Nat
    BY RankFull, FS_CardinalityType
<1> DEFINE a == [k \in 1 .. Cardinality(T) |->
                    CHOOSE x \in T : Cardinality({y \in T : y < x}) = k - 1]
<1>2. Ascending(T) = a
    BY DEF Ascending, SortedBy
<1>3. ASSUME NEW k \in 1 .. Cardinality(T)
      PROVE  a[k] \in T /\ Rank(T, a[k]) = k - 1
    <2>1. k - 1 \in Nat /\ k - 1 < Cardinality(T)
        BY <1>1
    <2>2. \E x \in T : Cardinality({y \in T : y < x}) = k - 1
        BY <2>1, RankReaches DEF Rank
    <2>3. a[k] \in T /\ Cardinality({y \in T : y < a[k]}) = k - 1
        BY <2>2
    <2> QED BY <2>3 DEF Rank
<1>4. a \in Seq(T) /\ Len(a) = Cardinality(T)
    <2>1. a \in [1 .. Cardinality(T) -> T]
        BY <1>3
    <2> HIDE DEF a
    <2> QED BY <1>1, <2>1
<1> QED BY <1>1, <1>2, <1>3, <1>4

\* The elements from m on continue the ranks below m.
LEMMA RankSplit ==
    ASSUME NEW T \in SUBSET Nat, IsFiniteSet(T),
           NEW m \in Nat, NEW x \in Nat, NEW n \in Nat, m <= x, x <= n
    PROVE  Rank(T, x) = Rank(T, m) + Rank({v \in T : m <= v /\ v < n}, x)
<1> DEFINE S == {v \in T : m <= v /\ v < n}
           A == {y \in T : y < m}
           B == {y \in S : y < x}
<1>1. IsFiniteSet(A) /\ IsFiniteSet(B)
    BY FS_Subset
<1>2. \A y \in T : y < x <=> (y < m \/ (m <= y /\ y < n /\ y < x))
    OBVIOUS
<1>3. {y \in T : y < x} = A \cup B
    BY <1>2, Zenon
<1>4. \A y \in T : ~(y < m /\ m <= y)
    OBVIOUS
<1>5. A \cap B = {}
    BY <1>4, Zenon
<1>6. Cardinality(A \cup B) = Cardinality(A) + Cardinality(B)
    <2>1. Cardinality(A \cap B) = 0
        BY <1>5, FS_EmptySet
    <2>2. Cardinality(A \cup B) = Cardinality(A) + Cardinality(B) - Cardinality(A \cap B)
        BY <1>1, FS_Union
    <2>3. Cardinality(A) \in Nat /\ Cardinality(B) \in Nat
        BY <1>1, FS_CardinalityType
    <2> HIDE DEF A, B
    <2> QED BY <2>1, <2>2, <2>3
<1> QED BY <1>3, <1>6 DEF Rank

(***************************************************************************)
(* What a file should hold                                                 *)
(***************************************************************************)

InFile(f, v) == f \in {Cid, ShardFile(v), BucketFile(v)}
VectorsOf(f) == {v \in Vector : InFile(f, v)}

\* How many of the vectors below n are in a file.
Count(f, n) == Rank(VectorsOf(f), n)

\* The records of s are those of f that follow its first k.
Continues(f, k, s) ==
    \A i \in 1 .. Len(s) :
        s[i] \in Vector /\ InFile(f, s[i]) /\ Count(f, s[i]) = k + i - 1

LEMMA Constants ==
    /\ N \in Nat \ {0} /\ BlockSize \in Nat \ {0} /\ ShardSize \in Nat \ {0}
    /\ NList \in Nat \ {0} /\ BucketSize \in Nat \ {0}
    /\ ShardSize % BlockSize = 0
    /\ Cluster \in [Vector -> 0 .. NList - 1]
    BY StoresAssumption DEF Vector

LEMMA VectorsOfFile ==
    ASSUME NEW f
    PROVE  /\ VectorsOf(f) \in SUBSET (0 .. N - 1)
           /\ VectorsOf(f) \in SUBSET Nat
           /\ IsFiniteSet(VectorsOf(f))
           /\ N \in Nat
<1>1. N \in Nat
    BY Constants
<1>2. VectorsOf(f) \in SUBSET (0 .. N - 1)
    BY DEF VectorsOf, Vector
<1> QED BY <1>1, <1>2, RankFull

LEMMA CountNat ==
    ASSUME NEW f, NEW n \in Nat
    PROVE  Count(f, n) \in Nat
    BY VectorsOfFile, RankNat DEF Count

LEMMA CountMono ==
    ASSUME NEW f, NEW m \in Nat, NEW n \in Nat, m <= n
    PROVE  Count(f, m) <= Count(f, n)
    BY VectorsOfFile, RankMono DEF Count

LEMMA CountZero ==
    ASSUME NEW f
    PROVE  Count(f, 0) = 0
<1>1. \A v \in VectorsOf(f) : ~(v < 0)
    BY VectorsOfFile
<1>2. {v \in VectorsOf(f) : v < 0} = {}
    BY <1>1, Zenon
<1> QED BY <1>2, FS_EmptySet DEF Count, Rank

\* Two numbers with no vector of the file between them have the same count.
LEMMA CountSame ==
    ASSUME NEW f, NEW m \in Nat, NEW n \in Nat, m <= n,
           \A v \in Vector : m <= v /\ v < n => ~InFile(f, v)
    PROVE  Count(f, m) = Count(f, n)
<1>1. ASSUME NEW v \in VectorsOf(f) PROVE v < m <=> v < n
    <2>1. v \in Vector /\ InFile(f, v) /\ v \in Nat
        BY VectorsOfFile DEF VectorsOf
    <2>2. ~(m <= v /\ v < n)
        BY <2>1
    <2> QED BY <2>1, <2>2
<1>2. {v \in VectorsOf(f) : v < m} = {v \in VectorsOf(f) : v < n}
    BY <1>1
<1> QED BY <1>2 DEF Count, Rank

\* A block of vectors, and what an uninterrupted run appends of it.
LEMMA RecordsAre ==
    ASSUME NEW f, NEW m \in 0 .. N, NEW n \in 0 .. N, m <= n
    PROVE  /\ Records(f, m, n) \in Seq(Vector)
           /\ Len(Records(f, m, n)) = Count(f, n) - Count(f, m)
           /\ Continues(f, Count(f, m), Records(f, m, n))
           /\ \A i \in 1 .. Len(Records(f, m, n)) :
                 Records(f, m, n)[i] >= m /\ Records(f, m, n)[i] < n
<1> DEFINE T == VectorsOf(f)
           S == {v \in T : m <= v /\ v < n}
           r == Records(f, m, n)
<1>1. N \in Nat /\ T \in SUBSET (0 .. N - 1) /\ T \in SUBSET Nat /\ IsFiniteSet(T)
    BY VectorsOfFile
<1>2. m \in Nat /\ n \in Nat
    BY <1>1
<1>3. {v \in m .. n - 1 : f \in {Cid, ShardFile(v), BucketFile(v)}} = S
    <2>1. \A v : v \in m .. n - 1 <=> v \in Vector /\ m <= v /\ v < n
        BY <1>1, <1>2 DEF Vector
    <2> QED BY <2>1, Zenon DEF VectorsOf, InFile
<1>4. S \in SUBSET (0 .. N - 1) /\ S \in SUBSET (0 .. n - 1)
    BY <1>1, <1>2
<1>5. r = Ascending(S)
    BY <1>3 DEF Records
<1>6. /\ r \in Seq(S) /\ Cardinality(S) \in Nat /\ Len(r) = Cardinality(S)
      /\ \A k \in 1 .. Cardinality(S) : r[k] \in S /\ Rank(S, r[k]) = k - 1
    BY <1>1, <1>4, <1>5, AscendingAt
<1>7. \A x \in Nat : m <= x /\ x <= n => Rank(T, x) = Rank(T, m) + Rank(S, x)
    BY <1>1, <1>2, RankSplit
<1>8. Rank(S, n) = Cardinality(S)
    BY <1>2, <1>4, RankFull
<1>9. Count(f, n) = Count(f, m) + Cardinality(S)
    BY <1>2, <1>7, <1>8 DEF Count
<1>10. Count(f, m) \in Nat /\ Count(f, n) \in Nat
    BY <1>2, CountNat
<1>11. ASSUME NEW i \in 1 .. Len(r)
       PROVE  /\ r[i] \in Vector /\ InFile(f, r[i]) /\ r[i] >= m /\ r[i] < n
              /\ Count(f, r[i]) = Count(f, m) + i - 1
    <2>1. r[i] \in S /\ Rank(S, r[i]) = i - 1
        BY <1>6
    <2>2. r[i] \in Vector /\ InFile(f, r[i]) /\ m <= r[i] /\ r[i] < n /\ r[i] \in Nat
        BY <1>1, <2>1 DEF VectorsOf
    <2>3. Rank(T, r[i]) = Rank(T, m) + Rank(S, r[i])
        BY <1>7, <2>2
    <2> HIDE DEF r, S, T
    <2> QED BY <1>2, <1>10, <2>1, <2>2, <2>3 DEF Count, T
<1>12. r \in Seq(Vector)
    <2>1. \A x \in S : x \in Vector
        BY DEF VectorsOf
    <2> HIDE DEF r, S
    <2> QED BY <1>6, <2>1
<1>13. Continues(f, Count(f, m), r)
    BY <1>11 DEF Continues
<1>14. Len(r) = Count(f, n) - Count(f, m)
    <2> HIDE DEF r, S
    <2> QED BY <1>6, <1>9, <1>10
<1> QED BY <1>11, <1>12, <1>13, <1>14

\* What follows what follows the first k records follows them.
LEMMA ContinuesConcat ==
    ASSUME NEW f, NEW s \in Seq(Vector \cup {Hole}), NEW t \in Seq(Vector \cup {Hole}),
           NEW k \in Nat, Continues(f, k, s), Continues(f, k + Len(s), t)
    PROVE  Continues(f, k, s \o t)
<1> SUFFICES ASSUME NEW i \in 1 .. Len(s \o t)
             PROVE  /\ (s \o t)[i] \in Vector /\ InFile(f, (s \o t)[i])
                    /\ Count(f, (s \o t)[i]) = k + i - 1
    BY DEF Continues
<1>1. Len(s) \in Nat /\ Len(t) \in Nat /\ Len(s \o t) = Len(s) + Len(t)
    OBVIOUS
<1>2. CASE i <= Len(s)
    <2>1. i \in 1 .. Len(s) /\ (s \o t)[i] = s[i]
        BY <1>1, <1>2
    <2> QED BY <2>1 DEF Continues
<1>3. CASE i > Len(s)
    <2>1. i - Len(s) \in 1 .. Len(t) /\ (s \o t)[i] = t[i - Len(s)]
        BY <1>1, <1>3
    <2>2. /\ t[i - Len(s)] \in Vector /\ InFile(f, t[i - Len(s)])
          /\ Count(f, t[i - Len(s)]) = k + Len(s) + (i - Len(s)) - 1
        BY <2>1 DEF Continues
    <2>3. k + Len(s) + (i - Len(s)) - 1 = k + i - 1
        BY <1>1
    <2> QED BY <2>1, <2>2, <2>3
<1> QED BY <1>1, <1>2, <1>3

\* A part that begins with the first record of what follows does so as well.
LEMMA ContinuesPrefix ==
    ASSUME NEW f, NEW k, NEW s, NEW t, Continues(f, k, t),
           Len(s) \in Nat, Len(t) \in Nat, Len(s) <= Len(t),
           \A i \in 1 .. Len(s) : s[i] = t[i]
    PROVE  Continues(f, k, s)
<1>1. \A i \in 1 .. Len(s) : i \in 1 .. Len(t)
    OBVIOUS
<1> QED BY <1>1 DEF Continues

LEMMA ContinuesEmpty ==
    ASSUME NEW f, NEW k
    PROVE  Continues(f, k, <<>>)
    BY DEF Continues

\* A file has no more records than vectors.
LEMMA ContinuesLength ==
    ASSUME NEW f, NEW s \in Seq(Vector \cup {Hole}), Continues(f, 0, s)
    PROVE  Len(s) <= Count(f, N)
<1>1. CASE Len(s) = 0
    BY <1>1, CountNat, VectorsOfFile
<1>2. CASE Len(s) # 0
    <2>1. Len(s) \in 1 .. Len(s)
        BY <1>2
    <2> DEFINE v == s[Len(s)]
    <2>2. v \in Vector /\ InFile(f, v) /\ Count(f, v) = Len(s) - 1
        BY <2>1 DEF Continues
    <2>3. v \in VectorsOf(f) /\ v \in Nat /\ v < N
        BY <2>2, Constants DEF VectorsOf, Vector
    <2>4. Count(f, v) < Count(f, N)
        BY <2>3, VectorsOfFile, RankStrict DEF Count
    <2>5. Count(f, N) \in Nat
        BY VectorsOfFile, CountNat
    <2> QED BY <2>2, <2>4, <2>5
<1> QED BY <1>1, <1>2

\* A file that holds as many right records as there are vectors below n holds
\* exactly these; with more it begins with them.
LEMMA ContinuesExpected ==
    ASSUME NEW f, NEW s \in Seq(Vector \cup {Hole}), Continues(f, 0, s),
           NEW n \in 0 .. N, Count(f, n) <= Len(s)
    PROVE  /\ SubSeq(s, 1, Len(Expected(f, n))) = Expected(f, n)
           /\ Len(Expected(f, n)) = Count(f, n)
           /\ Count(f, n) = Len(s) => s = Expected(f, n)
<1> DEFINE e == Expected(f, n)
<1>1. n \in Nat /\ 0 \in 0 .. N /\ 0 <= n
    BY Constants
<1>2. Count(f, 0) = 0
    BY CountZero
<1>3. e \in Seq(Vector) /\ Len(e) = Count(f, n) - Count(f, 0) /\ Continues(f, Count(f, 0), e)
    BY <1>1, RecordsAre DEF Expected
<1>4. Count(f, n) \in Nat
    BY <1>1, CountNat
<1>5. Len(e) = Count(f, n) /\ Continues(f, 0, e)
    BY <1>2, <1>3, <1>4
<1>6. ASSUME NEW i \in 1 .. Len(e)
      PROVE  s[i] = e[i]
    <2>1. i \in 1 .. Len(s)
        BY <1>4, <1>5
    <2>2. /\ s[i] \in VectorsOf(f) /\ Count(f, s[i]) = 0 + i - 1
          /\ e[i] \in VectorsOf(f) /\ Count(f, e[i]) = 0 + i - 1
        BY <1>5, <2>1 DEF Continues, VectorsOf
    <2> QED BY <2>2, VectorsOfFile, RankInjective DEF Count
<1> HIDE DEF e
<1>7. SubSeq(s, 1, Len(e)) = e
    <2>1. Len(s) \in Nat /\ Len(e) \in Nat /\ Len(e) <= Len(s)
        BY <1>4, <1>5
    <2>2. SubSeq(s, 1, Len(e)) = [i \in 1 .. Len(e) |-> s[i]]
        BY <2>1
    <2>3. e = [i \in 1 .. Len(e) |-> e[i]]
        BY <1>3
    <2> QED BY <1>6, <2>2, <2>3
<1>8. ASSUME Count(f, n) = Len(s)
      PROVE  s = e
    <2>1. s = [i \in 1 .. Len(s) |-> s[i]]
        OBVIOUS
    <2>2. e = [i \in 1 .. Len(e) |-> e[i]]
        BY <1>3
    <2> QED BY <1>5, <1>6, <1>8, <2>1, <2>2
<1> QED BY <1>5, <1>7, <1>8 DEF e

(***************************************************************************)
(* The three kinds of files                                                *)
(***************************************************************************)

LEMMA DivMod ==
    ASSUME NEW a \in Nat, NEW b \in Nat \ {0}
    PROVE  /\ a \div b \in Nat /\ a % b \in 0 .. b - 1
           /\ a = b * (a \div b) + (a % b)
    OBVIOUS

\* A quotient is the only one that fits.
LEMMA DivUnique ==
    ASSUME NEW a \in Nat, NEW b \in Nat \ {0}, NEW q \in Nat,
           b * q <= a, a < b * q + b
    PROVE  a \div b = q
    BY DivMod

LEMMA DivMono ==
    ASSUME NEW a \in Nat, NEW c \in Nat, NEW b \in Nat \ {0}, a <= c
    PROVE  a \div b <= c \div b
    BY DivMod

\* Every vector is in cluster_id.u32,
LEMMA CidCount ==
    ASSUME NEW n \in 0 .. N
    PROVE  Count(Cid, n) = n
<1>1. N \in Nat /\ n \in Nat
    BY Constants
<1>2. VectorsOf(Cid) = 0 .. N - 1
    BY DEF VectorsOf, InFile, Vector
<1>3. \A x : (x \in 0 .. N - 1 /\ x < n) <=> x \in 0 .. n - 1
    BY <1>1
<1>4. {x \in 0 .. N - 1 : x < n} = 0 .. n - 1
    BY <1>3
<1>5. Cardinality(0 .. n - 1) = n
    BY <1>1, FS_Interval
<1> QED BY <1>2, <1>4, <1>5 DEF Count, Rank

\* those of one quotient in one shard,
LEMMA InShard ==
    ASSUME NEW s, NEW v
    PROVE  InFile(<<"shard", s>>, v) <=> s = v \div ShardSize
    BY DEF InFile, Cid, ShardFile, BucketFile

\* of which the ones below n are in a row.
LEMMA ShardCount ==
    ASSUME NEW n \in Nat, n < N
    PROVE  Count(<<"shard", n \div ShardSize>>, n) = n % ShardSize
<1> DEFINE q == n \div ShardSize
           f == <<"shard", q>>
<1>1. N \in Nat /\ ShardSize \in Nat \ {0}
    BY Constants
<1>2. q \in Nat /\ n % ShardSize \in Nat /\ n = ShardSize * q + (n % ShardSize)
    BY <1>1, DivMod
<1>3. ASSUME NEW v PROVE (v \in VectorsOf(f) /\ v < n) <=> v \in ShardSize * q .. n - 1
    <2>1. v \in VectorsOf(f) <=> v \in 0 .. N - 1 /\ v \div ShardSize = q
        BY InShard DEF VectorsOf, Vector
    <2>2. ShardSize * q \in Nat
        BY <1>1, <1>2
    <2>3. ASSUME v \in 0 .. N - 1, v \div ShardSize = q, v < n
          PROVE  v \in ShardSize * q .. n - 1
        <3>1. v \in Nat /\ v <= n - 1
            BY <1>1, <2>3
        <3>2. v % ShardSize \in Nat /\ v = ShardSize * q + (v % ShardSize)
            <4>1. v % ShardSize \in 0 .. ShardSize - 1 /\ v = ShardSize * (v \div ShardSize) + (v % ShardSize)
                BY <1>1, <3>1, DivMod
            <4>2. v \div ShardSize = q
                BY <2>3
            <4> HIDE DEF q
            <4> QED BY <1>1, <4>1, <4>2
        <3>3. ShardSize * q <= v
            BY <2>2, <3>1, <3>2
        <3> QED BY <2>2, <3>1, <3>3
    <2>4. ASSUME v \in ShardSize * q .. n - 1
          PROVE  v \in 0 .. N - 1 /\ v \div ShardSize = q /\ v < n
        <3>1. v \in Nat /\ v < n /\ v \in 0 .. N - 1
            BY <1>1, <2>2, <2>4
        <3>2. n % ShardSize < ShardSize
            BY <1>1, DivMod
        <3>3. ShardSize * q <= v /\ v < ShardSize * q + ShardSize
            BY <1>1, <1>2, <2>2, <2>4, <3>1, <3>2
        <3> QED BY <1>1, <1>2, <3>1, <3>3, DivUnique
    <2> QED BY <2>1, <2>3, <2>4
<1>4. {x \in VectorsOf(f) : x < n} = ShardSize * q .. n - 1
    BY <1>3
<1>5. ShardSize * q \in Nat
    BY <1>1, <1>2
<1>6. Cardinality(ShardSize * q .. n - 1) = n % ShardSize
    <2> DEFINE m == ShardSize * q
               r == n % ShardSize
    <2>1. m \in Nat /\ r \in Nat /\ n = m + r
        BY <1>2, <1>5
    <2> HIDE DEF m, r
    <2>2. Cardinality(m .. n - 1) = IF m > n - 1 THEN 0 ELSE (n - 1) - m + 1
        BY <2>1, FS_Interval
    <2>3. Cardinality(m .. n - 1) = r
        BY <2>1, <2>2
    <2> QED BY <2>3 DEF m, r
<1> QED BY <1>4, <1>6 DEF Count, Rank

\* A shard is complete below a later one, and empty below an earlier one.
LEMMA ShardComplete ==
    ASSUME NEW n \in 0 .. N, NEW s \in Shard, s < n \div ShardSize
    PROVE  Count(<<"shard", s>>, n) = Count(<<"shard", s>>, N)
<1>1. N \in Nat /\ n \in Nat /\ n <= N /\ ShardSize \in Nat \ {0}
    BY Constants
<1>2. \A v \in Vector : n <= v /\ v < N => ~InFile(<<"shard", s>>, v)
    <2> SUFFICES ASSUME NEW v \in Vector, n <= v, s = v \div ShardSize
                 PROVE  FALSE
        BY InShard
    <2>1. v \in Nat
        BY <1>1 DEF Vector
    <2>2. n \div ShardSize <= v \div ShardSize
        BY <1>1, <2>1, DivMono
    <2>3. n \div ShardSize \in Nat /\ v \div ShardSize \in Nat
        BY <1>1, <2>1, DivMod
    <2> QED BY <2>2, <2>3
<1> QED BY <1>1, <1>2, CountSame

LEMMA ShardEmpty ==
    ASSUME NEW n \in 0 .. N, NEW s \in Shard, s > n \div ShardSize
    PROVE  Count(<<"shard", s>>, n) = 0
<1>1. N \in Nat /\ n \in Nat /\ n <= N /\ ShardSize \in Nat \ {0}
    BY Constants
<1>2. \A v \in Vector : 0 <= v /\ v < n => ~InFile(<<"shard", s>>, v)
    <2> SUFFICES ASSUME NEW v \in Vector, v < n, s = v \div ShardSize
                 PROVE  FALSE
        BY InShard
    <2>1. v \in Nat
        BY <1>1 DEF Vector
    <2>2. v \div ShardSize <= n \div ShardSize
        BY <1>1, <2>1, DivMono
    <2>3. n \div ShardSize \in Nat /\ v \div ShardSize \in Nat
        BY <1>1, <2>1, DivMod
    <2> QED BY <2>2, <2>3
<1>3. Count(<<"shard", s>>, 0) = Count(<<"shard", s>>, n)
    BY <1>1, <1>2, CountSame
<1> QED BY <1>3, CountZero

\* A block that begins at a multiple of the block size, or at the end, stays
\* within a shard.
LEMMA BlockInShard ==
    ASSUME NEW n \in Nat, n % BlockSize = 0, NEW v \in Nat, n <= v, v < n + BlockSize
    PROVE  v \div ShardSize = n \div ShardSize
<1> DEFINE k == ShardSize \div BlockSize
           q == n \div ShardSize
           r == n % ShardSize
           j == n \div BlockSize
<1>1. BlockSize \in Nat \ {0} /\ ShardSize \in Nat \ {0} /\ ShardSize % BlockSize = 0
    BY Constants
<1>2. k \in Nat /\ ShardSize = BlockSize * k
    BY <1>1, DivMod
<1>3. j \in Nat /\ n = BlockSize * j
    BY <1>1, DivMod
<1>4. q \in Nat /\ r \in Nat /\ r < ShardSize /\ n = ShardSize * q + r
    BY <1>1, DivMod
<1> HIDE DEF k, q, r, j
\* In blocks: the shard has k, n is at block j, and r is i whole blocks.
<1>5. k * q \in Nat /\ j - k * q \in Int
    BY <1>2, <1>3, <1>4
<1>6. r = BlockSize * (j - k * q)
    <2>1. BlockSize * (j - k * q) = BlockSize * j - (BlockSize * k) * q
        BY <1>1, <1>2, <1>3, <1>4
    <2> QED BY <1>2, <1>3, <1>4, <2>1
<1>7. j - k * q < k
    <2> DEFINE i == j - k * q
    <2>1. i \in Int /\ BlockSize * i < BlockSize * k
        BY <1>2, <1>4, <1>5, <1>6
    <2> HIDE DEF i
    <2>2. ~(k <= i)
        BY <1>1, <1>2, <2>1
    <2> QED BY <1>2, <2>1, <2>2 DEF i
<1>8. r + BlockSize <= ShardSize
    <2> DEFINE i == j - k * q
    <2>1. i \in Int /\ i + 1 <= k
        BY <1>2, <1>5, <1>7
    <2>2. r = BlockSize * i
        BY <1>6
    <2> HIDE DEF i
    <2>3. BlockSize * (i + 1) <= BlockSize * k
        BY <1>1, <1>2, <2>1
    <2>4. BlockSize * (i + 1) = BlockSize * i + BlockSize
        BY <1>1, <2>1
    <2> QED BY <1>1, <1>2, <2>1, <2>2, <2>3, <2>4
<1>9. ShardSize * q \in Nat
    BY <1>1, <1>4
<1>10. ShardSize * q <= v /\ v < ShardSize * q + ShardSize
    <2> DEFINE m == ShardSize * q
    <2>1. m \in Nat /\ n = m + r
        BY <1>4, <1>9
    <2> HIDE DEF m
    <2>2. m <= v /\ v < m + ShardSize
        BY <1>1, <1>4, <1>8, <2>1
    <2> QED BY <2>2 DEF m
<1>11. v \div ShardSize = q
    BY <1>1, <1>4, <1>10, DivUnique
<1> QED BY <1>11 DEF q

\* The files of the directory.
LEMMA Files ==
    /\ Cid \in File /\ Cid[1] = "cid"
    /\ \A s \in Shard : <<"shard", s>> \in File
    /\ \A b \in Bucket : <<"bucket", b>> \in Buckets
    /\ Buckets \subseteq File
    /\ \A f \in Buckets : f[1] = "bucket" /\ f # Cid /\ \E b \in Bucket : f = <<"bucket", b>>
    /\ \A f \in File : f = Cid \/ f \in Buckets \/ \E s \in Shard : f = <<"shard", s>>
    /\ \A f \in File : f[1] = "shard" <=> \E s \in Shard : f = <<"shard", s>>
    BY DEF File, Cid, Buckets

LEMMA FileOfVector ==
    ASSUME NEW v \in Vector
    PROVE  /\ v \div ShardSize \in Shard /\ ShardFile(v) \in File
           /\ Cluster[v] \div BucketSize \in Bucket
           /\ BucketFile(v) \in Buckets /\ BucketFile(v) \in File
<1>1. v \in Nat /\ v <= N - 1 /\ N - 1 \in Nat /\ ShardSize \in Nat \ {0}
    BY Constants DEF Vector
<1>2. v \div ShardSize \in Shard
    <2>1. v \div ShardSize <= (N - 1) \div ShardSize
        BY <1>1, DivMono
    <2>2. v \div ShardSize \in Nat /\ (N - 1) \div ShardSize \in Nat
        BY <1>1, DivMod
    <2> QED BY <2>1, <2>2 DEF Shard
<1>3. /\ Cluster[v] \in Nat /\ NList - 1 \in Nat /\ Cluster[v] <= NList - 1
      /\ BucketSize \in Nat \ {0}
    BY Constants
<1>4. Cluster[v] \div BucketSize \in Bucket
    <2>1. Cluster[v] \div BucketSize <= (NList - 1) \div BucketSize
        BY <1>3, DivMono
    <2>2. Cluster[v] \div BucketSize \in Nat /\ (NList - 1) \div BucketSize \in Nat
        BY <1>3, DivMod
    <2> QED BY <2>1, <2>2 DEF Bucket
<1> QED BY <1>2, <1>4, Files DEF ShardFile, BucketFile

(***************************************************************************)
(* The inductive invariant                                                 *)
(***************************************************************************)

Content(f) == IF disk[f] = None THEN <<>> ELSE disk[f]
Opened == [f \in File |-> IF f[1] = "shard" THEN None ELSE <<>>]
ShardOf(n) == n \div ShardSize

Encoding == {"encode", "flush", "commit"}
Early == {"basic", "hashfirst", "open", "initckpt", "truncate", "closed"} \cup Encoding
Listing == {"listmeta", "prealloc", "copy", "listhash"}
AfterUse == {"use", "linked", "idle"}

\* What is appended and not written out: only while encoding, only to files
\* that exist, and to no shard but the current one.
BufferOK ==
    /\ pc \notin {"encode", "flush"} => buf = NoBuf
    /\ \A f \in File : buf[f] # <<>> => disk[f] # None
    /\ \A s \in Shard : s # shard => buf[<<"shard", s>>] = <<>>

\* Where the writer is: at the end of a block, in the shard of the vector it
\* wrote last, if it has written any in this run.
PositionOK ==
    /\ disk[Cid] # None
    /\ pos % BlockSize = 0 \/ pos = N
    /\ shard = -1 => pos = IF resume = -1 THEN 0 ELSE resume
    /\ shard # -1 => /\ 0 < pos /\ resume < pos /\ shard = ShardOf(pos - 1)
                     /\ disk[<<"shard", shard>>] # None
    /\ shard = -1 /\ resume # -1 => disk[<<"shard", ShardOf(resume)>>] # None

WriterOK ==
    /\ pc = "basic" => at = 0
    /\ pc \in {"basic", "hashfirst", "open", "initckpt", "truncate"} =>
           resume = -1 /\ shard = -1 /\ pos = 0
    /\ rebuilt => pc \notin Early
    /\ pc \in Encoding => PositionOK
    /\ pc = "closed" => pos = N

\* A checkpoint names the end of a block and the sizes the buckets have there;
\* nothing has been written beyond its shard.
SavedOK ==
    ckpt # None =>
        /\ ckpt.next % BlockSize = 0 \/ ckpt.next = N
        /\ \A f \in Buckets : ckpt.sizes[f] = Count(f, ckpt.next)
        /\ \A s \in Shard : s > ShardOf(ckpt.next) =>
               Content(<<"shard", s>>) = <<>> /\ buf[<<"shard", s>>] = <<>>

\* The checkpoint and the control point: absent in a fresh directory, partly
\* applied while files are cut, at the last block that was committed.
CkptOK ==
    /\ pc \in {"hashfirst", "open"} => disk = NoFiles
    /\ pc = "initckpt" => disk = Opened
    /\ pc \in {"hashfirst", "open", "initckpt"} => ckpt = None /\ ~orphaned
    /\ pc \in {"hashfirst", "initckpt"} => o.ckpt
    /\ pc = "truncate" =>
        /\ o.ckpt /\ ckpt # None /\ ckpt.next < N /\ at <= Len(Cut)
        /\ \A j \in 1 .. at : /\ disk[Cut[j].file] # None
                              /\ Len(disk[Cut[j].file]) = Cut[j].len
    /\ pc \in Encoding \cup {"closed"} /\ ~o.ckpt => ckpt = None
    /\ pc \in {"encode", "closed"} /\ o.ckpt =>
        ckpt # None /\ ckpt.next = pos /\ buf = NoBuf
    /\ pc \in {"flush", "commit"} =>
        o.ckpt /\ ckpt # None /\ ckpt.next < pos /\ shard = ShardOf(ckpt.next)

\* Files hold the right records in the right order, unless a cleanup has
\* orphaned the checkpoint,
RecordsOK ==
    ~orphaned => \A f \in File : /\ Continues(f, 0, Content(f))
                                 /\ Continues(f, Len(Content(f)), buf[f])

\* and as many as they should: up to the position while a run encodes, all of
\* them once it has, and at least what the checkpoint covers at all times.
LengthOK ==
    /\ pc \in Encoding \cup {"closed"} =>
        \A f \in File : (f[1] = "shard" => ~orphaned) =>
            Len(Content(f)) + Len(buf[f]) = Count(f, pos)
    /\ rebuilt /\ pc \notin AfterUse /\ ~orphaned =>
        \A f \in File : Len(Content(f)) = Count(f, N)
    /\ ckpt # None /\ ~orphaned =>
        \A f \in File :
            \/ Count(f, ckpt.next) <= Len(Content(f))
            \/ disk[f] = None /\ ckpt.next = N

\* The IVF lists: built from all N cluster ids, and read only as a pair.
IvfOK ==
    /\ pc = "offsets" => disk[Cid] # None /\ Len(disk[Cid]) = N
    /\ OffsetsOfAllVectors
    /\ pc \in {"truncids", "ids", "list"} \cup Listing => off \notin {None, Torn}
    /\ pc = "ids" => ids \in 0 .. N
    /\ rebuilt /\ pc \in {"list", "ready", "use"} \cup Listing => ids = N

\* base_list: while it is built it has no hash, and the buckets that have been
\* copied are in the slots of their vectors.
Copied(b) ==
    \A i \in 1 .. Len(Content(<<"bucket", b>>)) :
        list[SlotOf(Content(<<"bucket", b>>)[i])] = Content(<<"bucket", b>>)[i]

ListOK ==
    /\ listHash => listMeta
    /\ ListHashTruthful
    /\ pc \in Listing => ~listHash /\ tainted = orphaned
    /\ pc \in {"prealloc", "copy", "listhash"} => listMeta
    /\ pc \in {"copy", "listhash"} => list # None /\ raw
    /\ pc = "copy" /\ ~tainted => \A b \in Bucket : b < at => Copied(b)
    /\ pc = "listhash" /\ ~tainted => ListComplete
    /\ built => pc \in {"ready"} \cup AfterUse
    /\ built /\ pc \in {"ready", "use"} => listHash
    /\ built /\ pc = "ready" => raw
    /\ built /\ pc = "use" /\ o.use = "link" => raw

IInv ==
    /\ TypeOK
    /\ BufferOK /\ WriterOK /\ SavedOK /\ CkptOK /\ RecordsOK /\ LengthOK
    /\ IvfOK /\ ListOK

-----------------------------------------------------------------------------
(* Init, and the frames: what a step of one stage cannot disturb           *)

LEMMA InitIInv == Init => IInv
<1> SUFFICES ASSUME Init PROVE IInv
    OBVIOUS
<1>1. \A f \in File : disk[f] = None /\ Content(f) = <<>> /\ buf[f] = <<>>
    BY DEF Init, NoFiles, NoBuf, Content
<1>2. TypeOK
    <2>1. o \in Settings
        BY StoresAssumption DEF Init
    <2>2. disk \in [File -> Seq(Vector \cup {Hole}) \cup {None}]
        BY DEF Init, NoFiles
    <2>3. buf \in [File -> Seq(Vector)]
        BY DEF Init, NoBuf
    <2>4. runs \in 0 .. MaxRuns /\ pos \in 0 .. N
        BY StoresAssumption DEF Init
    <2>5. {meta, hash, rebuilt, built, listMeta, raw, listHash, orphaned, tainted} \subseteq BOOLEAN
        BY DEF Init
    <2>6. ckpt = None /\ list = None /\ off \in {None, Torn} /\ ids = None
          /\ pc \in Control /\ resume = -1 /\ shard = -1 /\ at \in Nat
        BY DEF Init, Control
    <2> QED BY <2>1, <2>2, <2>3, <2>4, <2>5, <2>6 DEF TypeOK
<1>3. BufferOK
    BY <1>1, Files DEF Init, BufferOK
<1>4. WriterOK /\ SavedOK /\ CkptOK
    BY DEF Init, WriterOK, SavedOK, CkptOK, Encoding
<1>5. RecordsOK
    BY <1>1, ContinuesEmpty DEF RecordsOK
<1>6. LengthOK
    BY DEF Init, LengthOK, Encoding
<1>7. IvfOK /\ ListOK
    BY DEF Init, IvfOK, ListOK, Listing, OffsetsOfAllVectors, ListHashTruthful
<1> QED BY <1>2, <1>3, <1>4, <1>5, <1>6, <1>7 DEF IInv

\* A step after the encoding that leaves base_basic alone.
LEMMA BasicFrame ==
    ASSUME IInv, pc \notin {"encode", "flush"}, pc' \notin Early,
           UNCHANGED <<disk, buf, ckpt, resume, shard, pos, orphaned>>,
           rebuilt' = rebuilt \/ ~rebuilt',
           rebuilt' => pc \notin AfterUse \/ pc' \in AfterUse
    PROVE  BufferOK' /\ WriterOK' /\ SavedOK' /\ CkptOK' /\ RecordsOK' /\ LengthOK'
<1> USE DEF IInv
<1>1. BufferOK'
    BY DEF BufferOK
<1>2. WriterOK'
    BY DEF WriterOK, Early, Encoding
<1>3. SavedOK'
    BY DEF SavedOK, Content
<1>4. CkptOK'
    BY DEF CkptOK, Early, Encoding
<1>5. RecordsOK'
    BY DEF RecordsOK, Content
<1>6. LengthOK'
    <2>1. pc' \notin Encoding \cup {"closed"}
        BY DEF Early
    <2>2. ASSUME rebuilt', pc' \notin AfterUse, ~orphaned'
          PROVE  \A f \in File : Len(Content(f)') = Count(f, N)
        <3>1. rebuilt /\ pc \notin AfterUse /\ ~orphaned
            BY <2>2, Zenon
        <3> QED BY <3>1 DEF LengthOK, Content
    <2>3. ASSUME ckpt' # None, ~orphaned'
          PROVE  \A f \in File : \/ Count(f, ckpt'.next) <= Len(Content(f)')
                                 \/ disk'[f] = None /\ ckpt'.next = N
        BY <2>3 DEF LengthOK, Content
    <2> QED BY <2>1, <2>2, <2>3, Zenon DEF LengthOK
<1> QED BY <1>1, <1>2, <1>3, <1>4, <1>5, <1>6

\* A step before the lists, or a fresh start.
LEMMA ListFrame ==
    ASSUME IInv, pc \in Early \cup {"idle"}, pc' \in Early \cup {"ivf", "idle"},
           UNCHANGED <<listMeta, list, raw, listHash, tainted>>,
           built' = built \/ ~built', built' => pc' = "idle",
           UNCHANGED <<off, orphaned>> \/ off' = None
    PROVE  IvfOK' /\ ListOK'
<1> USE DEF IInv
<1>1. IvfOK'
    BY DEF IvfOK, OffsetsOfAllVectors, Early, Encoding, Listing
<1>2. ListOK'
    BY DEF ListOK, ListHashTruthful, ListComplete, Early, Encoding, Listing, AfterUse
<1> QED BY <1>1, <1>2

\* What TypeOK says of one file.
LEMMA FileTypes ==
    ASSUME TypeOK, NEW f \in File
    PROVE  /\ Content(f) \in Seq(Vector \cup {Hole}) /\ Len(Content(f)) \in Nat
           /\ buf[f] \in Seq(Vector) /\ buf[f] \in Seq(Vector \cup {Hole})
           /\ Len(buf[f]) \in Nat
           /\ disk[f] # None => disk[f] \in Seq(Vector \cup {Hole}) /\ Content(f) = disk[f]
           /\ disk[f] = None => Content(f) = <<>>
<1>1. disk[f] \in Seq(Vector \cup {Hole}) \cup {None} /\ buf[f] \in Seq(Vector)
    BY DEF TypeOK
<1>2. buf[f] \in Seq(Vector \cup {Hole})
    BY <1>1
<1> QED BY <1>1, <1>2 DEF Content

\* A sequence is a file that exists.
LEMMA SeqNotNone ==
    ASSUME NEW s \in Seq(Vector \cup {Hole})
    PROVE  s # None
    BY NoneAssumption

LEMMA EmptyFile == <<>> \in Seq(Vector \cup {Hole}) /\ <<>> # None
<1>1. <<>> \in Seq(Vector \cup {Hole})
    OBVIOUS
<1> QED BY <1>1, SeqNotNone

LEMMA ConcatAt ==
    ASSUME NEW S, NEW s \in Seq(S), NEW t \in Seq(S)
    PROVE  /\ s \o t \in Seq(S) /\ Len(s) \in Nat /\ Len(t) \in Nat
           /\ Len(s \o t) = Len(s) + Len(t)
           /\ \A i \in 1 .. Len(s) + Len(t) :
                 (s \o t)[i] = IF i <= Len(s) THEN s[i] ELSE t[i - Len(s)]
    OBVIOUS

\* The files that are cut: cluster_id.u32, a shard, every bucket.
LEMMA CutIs ==
    /\ Len(Cut) = 2 + Cardinality(Bucket) /\ Cardinality(Bucket) \in Nat
    /\ Cut[1] = [file |-> Cid, len |-> ckpt.next]
    /\ Cut[2] = [file |-> <<"shard", ShardOf(ckpt.next)>>, len |-> ckpt.next % ShardSize]
    /\ \A b \in Bucket : b + 3 \in 1 .. Len(Cut)
                         /\ Cut[b + 3].file = <<"bucket", b>>
                         /\ Cut[b + 3].len = ckpt.sizes[<<"bucket", b>>]
    /\ \A j \in 1 .. Len(Cut) : j \in {1, 2} \/ \E b \in Bucket : j = b + 3
<1> DEFINE m == (NList - 1) \div BucketSize
           c == Cardinality(Bucket)
           t == [i \in 1 .. c |-> [file |-> <<"bucket", i - 1>>,
                                  len |-> ckpt.sizes[<<"bucket", i - 1>>]]]
           u == <<[file |-> Cid, len |-> ckpt.next]>>
           w == <<[file |-> <<"shard", ShardOf(ckpt.next)>>, len |-> ckpt.next % ShardSize]>>
<1>1. m \in Nat /\ Bucket = 0 .. m
    BY Constants, DivMod DEF Bucket
<1>2. c = m + 1 /\ c \in Nat
    BY <1>1, FS_Interval
<1>3. Cut = (u \o w) \o t
    BY DEF Cut, ShardOf
<1> HIDE DEF c, m
<1> DEFINE R == {t[i] : i \in 1 .. c}
<1>4. Len(t) = c /\ t \in Seq(R)
    <2>1. t \in [1 .. c -> R]
        OBVIOUS
    <2> HIDE DEF t, R
    <2> QED BY <1>2, <2>1
<1>5. Len(u \o w) = 2 /\ (u \o w)[1] = u[1] /\ (u \o w)[2] = w[1] /\ u \o w \in Seq({u[1], w[1]})
    OBVIOUS
<1> DEFINE uw == u \o w
           S == {u[1], w[1]} \cup R
<1> HIDE DEF R, t
<1>6. uw \in Seq(S) /\ t \in Seq(S) /\ Len(uw) = 2
    BY <1>4, <1>5
<1> HIDE DEF uw, S
<1>7. /\ Len(uw \o t) = 2 + c
      /\ \A i \in 1 .. 2 + c : (uw \o t)[i] = IF i <= 2 THEN uw[i] ELSE t[i - 2]
    <2>1. /\ Len(uw \o t) = Len(uw) + Len(t)
          /\ \A i \in 1 .. Len(uw) + Len(t) :
                (uw \o t)[i] = IF i <= Len(uw) THEN uw[i] ELSE t[i - Len(uw)]
        BY <1>6, ConcatAt, Zenon
    <2>2. Len(uw) = 2 /\ Len(t) = c
        BY <1>4, <1>6
    <2> QED BY <2>1, <2>2, Zenon
<1>8. Len(Cut) = 2 + c /\ Cut[1] = u[1] /\ Cut[2] = w[1]
      /\ \A i \in 3 .. 2 + c : Cut[i] = t[i - 2]
    BY <1>2, <1>3, <1>5, <1>7 DEF uw
<1>9. ASSUME NEW b \in Bucket
      PROVE  b + 3 \in 3 .. 2 + c /\ t[b + 1] = [file |-> <<"bucket", b>>, len |-> ckpt.sizes[<<"bucket", b>>]]
    <2>1. b \in Nat /\ b + 1 \in 1 .. c /\ (b + 1) - 1 = b
        BY <1>1, <1>2
    <2> QED BY <1>2, <2>1 DEF t
<1>10. \A j \in 1 .. 2 + c : j \in {1, 2} \/ (j - 3 \in Bucket /\ j = (j - 3) + 3)
    BY <1>1, <1>2
<1>11. \A b \in Bucket : (b + 3) - 2 = b + 1
    BY <1>1
<1>12. ASSUME NEW b \in Bucket
       PROVE  /\ b + 3 \in 1 .. 2 + c
              /\ Cut[b + 3].file = <<"bucket", b>>
              /\ Cut[b + 3].len = ckpt.sizes[<<"bucket", b>>]
    <2>1. b + 3 \in 3 .. 2 + c /\ b + 3 \in 1 .. 2 + c
        BY <1>1, <1>2, <1>9
    <2>2. Cut[b + 3] = t[(b + 3) - 2]
        BY <1>8, <2>1, Zenon
    <2>3. Cut[b + 3] = t[b + 1]
        BY <1>11, <2>2, Zenon
    <2>4. Cut[b + 3] = [file |-> <<"bucket", b>>, len |-> ckpt.sizes[<<"bucket", b>>]]
        BY <1>9, <2>3, Zenon
    <2> QED BY <2>1, <2>4
<1> QED BY <1>2, <1>8, <1>10, <1>12 DEF c

-----------------------------------------------------------------------------
(* The steps before the encoding                                           *)

LEMMA StartRunKeeps ==
    ASSUME IInv, NEW s \in Settings, StartRun(s)
    PROVE  IInv'
<1> USE DEF IInv, StartRun, basic, ivf, baseList, history
<1>1. buf = NoBuf
    BY DEF BufferOK
<1>2. TypeOK'
    <2>1. runs' \in 0 .. MaxRuns
        BY StoresAssumption DEF TypeOK
    <2>2. buf' \in [File -> Seq(Vector)] /\ pos' \in 0 .. N
        BY <1>1, Constants DEF TypeOK
    <2> QED BY <2>1, <2>2 DEF TypeOK, Control
<1>3. BufferOK' /\ WriterOK'
    BY <1>1, Files DEF BufferOK, WriterOK, Encoding, NoBuf
<1>4. SavedOK' /\ CkptOK'
    BY <1>1 DEF SavedOK, CkptOK, Content, Encoding
<1>5. RecordsOK'
    BY <1>1 DEF RecordsOK, Content
<1>6. LengthOK'
    BY DEF LengthOK, Content, Encoding
<1>7. IvfOK' /\ ListOK'
    BY ListFrame DEF Early
<1> QED BY <1>2, <1>3, <1>4, <1>5, <1>6, <1>7

LEMMA FreshFiles ==
    ASSUME NEW f \in File
    PROVE  NoFiles[f] = None /\ NoBuf[f] = <<>>
    BY DEF NoFiles, NoBuf

LEMMA PrepareBasicKeeps ==
    ASSUME IInv, PrepareBasic
    PROVE  IInv'
<1> USE DEF IInv, PrepareBasic, Fails, run, writer, basic, ivf, baseList
<1>1. buf = NoBuf /\ pc = "basic"
    BY DEF BufferOK
<1>2. CASE UNCHANGED <<basic, ivf, orphaned>> /\ pc' = "idle"
    <2>1. TypeOK'
        BY <1>2 DEF TypeOK, Control
    <2>2. BufferOK' /\ WriterOK' /\ SavedOK' /\ CkptOK' /\ RecordsOK' /\ LengthOK'
        BY <1>1, <1>2, BasicFrame DEF AfterUse, Early, Encoding
    <2>3. IvfOK' /\ ListOK'
        BY <1>1, <1>2, ListFrame DEF Early
    <2> QED BY <2>1, <2>2, <2>3
<1>3. CASE /\ disk' = NoFiles /\ meta' = FALSE /\ hash' = FALSE /\ ckpt' = None
           /\ off' = None /\ ids' = None /\ orphaned' = FALSE
           /\ pc' = IF o.ckpt THEN "hashfirst" ELSE "open"
    <2>1. \A f \in File : disk'[f] = None /\ Content(f)' = <<>> /\ buf'[f] = <<>>
        BY <1>1, <1>3, FreshFiles DEF Content
    <2>2. TypeOK'
        <3>1. disk' \in [File -> Seq(Vector \cup {Hole}) \cup {None}]
            BY <1>3 DEF NoFiles
        <3> QED BY <1>3, <3>1 DEF TypeOK, Control
    <2>3. BufferOK' /\ WriterOK'
        BY <1>1, <1>3, <2>1, Files DEF BufferOK, WriterOK, Early, Encoding
    <2>4. SavedOK' /\ CkptOK'
        BY <1>3 DEF SavedOK, CkptOK, Encoding
    <2>5. RecordsOK'
        BY <2>1, ContinuesEmpty DEF RecordsOK
    <2>6. LengthOK'
        BY <1>1, <1>3 DEF LengthOK, WriterOK, Early, Encoding
    <2>7. IvfOK' /\ ListOK'
        BY <1>1, <1>3, ListFrame DEF Early, ListOK, AfterUse
    <2> QED BY <2>2, <2>3, <2>4, <2>5, <2>6, <2>7
<1> QED BY <1>2, <1>3

LEMMA HashFirstKeeps ==
    ASSUME IInv, HashFirst
    PROVE  IInv'
<1> USE DEF IInv, HashFirst, run, writer, basic, ivf, baseList, history
<1>1. TypeOK'
    BY DEF TypeOK, Control
<1>2. BufferOK' /\ WriterOK'
    BY DEF BufferOK, WriterOK, Early, Encoding
<1>3. SavedOK' /\ CkptOK'
    BY DEF SavedOK, CkptOK, Content, Encoding
<1>4. RecordsOK' /\ LengthOK'
    BY DEF RecordsOK, LengthOK, WriterOK, CkptOK, Content, Early, Encoding
<1>5. IvfOK' /\ ListOK'
    BY ListFrame DEF Early, Encoding, ListOK, AfterUse
<1> QED BY <1>1, <1>2, <1>3, <1>4, <1>5

LEMMA OpenFreshKeeps ==
    ASSUME IInv, OpenFresh
    PROVE  IInv'
<1> USE DEF IInv, OpenFresh, run, writer, basic, ivf, baseList, history
<1>1. /\ disk = NoFiles /\ ckpt = None /\ ~orphaned
      /\ buf = NoBuf /\ resume = -1 /\ shard = -1 /\ pos = 0
    BY DEF CkptOK, BufferOK, WriterOK
<1>1a. disk' = Opened
    BY <1>1 DEF NoFiles, Opened
<1>2. <<>> # None
    BY EmptyFile
<1>3. \A f \in File : Content(f)' = <<>> /\ buf'[f] = <<>>
    BY <1>1, <1>1a, <1>2, FreshFiles DEF Content, Opened
<1>4. disk'[Cid] # None
    BY <1>1a, <1>2, Files DEF Opened, Cid
<1>5. TypeOK'
    <2>1. disk' \in [File -> Seq(Vector \cup {Hole}) \cup {None}]
        BY <1>1a, EmptyFile DEF Opened
    <2> QED BY <2>1 DEF TypeOK, Control
<1>6. BufferOK'
    BY <1>1, <1>3, Files DEF BufferOK
<1>7. WriterOK'
    BY <1>1, <1>4, Constants DEF WriterOK, PositionOK, Early, Encoding
<1>8. SavedOK' /\ CkptOK'
    BY <1>1, <1>1a DEF SavedOK, CkptOK, Encoding
<1>9. RecordsOK'
    BY <1>3, ContinuesEmpty DEF RecordsOK
<1>10. LengthOK'
    <2>1. Len(<<>>) + Len(<<>>) = 0
        OBVIOUS
    <2>2. ~rebuilt'
        BY DEF WriterOK, Early
    <2> QED BY <1>1, <1>3, <2>1, <2>2, CountZero DEF LengthOK
<1>11. IvfOK' /\ ListOK'
    BY ListFrame DEF Early, Encoding, ListOK, AfterUse
<1> QED BY <1>5, <1>6, <1>7, <1>8, <1>9, <1>10, <1>11

LEMMA InitCkptKeeps ==
    ASSUME IInv, InitCkpt
    PROVE  IInv'
<1> USE DEF IInv, InitCkpt, run, writer, basic, ivf, baseList, history
<1>1. /\ disk = Opened /\ ckpt = None /\ ~orphaned /\ o.ckpt
      /\ buf = NoBuf /\ resume = -1 /\ shard = -1 /\ pos = 0
    BY DEF CkptOK, BufferOK, WriterOK
<1>2. <<>> # None
    BY EmptyFile
<1>3. \A f \in File : Content(f)' = <<>> /\ buf'[f] = <<>>
    BY <1>1, <1>2, FreshFiles DEF Content, Opened
<1>4. disk'[Cid] # None
    BY <1>1, <1>2, Files DEF Opened, Cid
<1>5. ckpt' \in [next : 0 .. N, sizes : [Buckets -> 0 .. N]] /\ ckpt' # None /\ ckpt'.next = 0
    BY Constants, NoneAssumption
<1>6. TypeOK'
    BY <1>5 DEF TypeOK, Control
<1>7. BufferOK' /\ WriterOK'
    BY <1>1, <1>4, Constants DEF BufferOK, WriterOK, PositionOK, Early, Encoding
<1>8. SavedOK'
    <2>1. 0 % BlockSize = 0
        BY Constants
    <2>2. \A f \in Buckets : ckpt'.sizes[f] = Count(f, 0)
        BY CountZero
    <2> QED BY <1>3, <1>5, <2>1, <2>2, Files DEF SavedOK
<1>9. CkptOK'
    BY <1>1, <1>5 DEF CkptOK, Encoding
<1>10. RecordsOK'
    BY <1>3, ContinuesEmpty DEF RecordsOK
<1>11. LengthOK'
    <2>1. Len(<<>>) + Len(<<>>) = 0 /\ 0 <= Len(<<>>)
        OBVIOUS
    <2>2. ~rebuilt'
        BY DEF WriterOK, Early
    <2> QED BY <1>1, <1>3, <1>5, <2>1, <2>2, CountZero DEF LengthOK
<1>12. IvfOK' /\ ListOK'
    BY ListFrame DEF Early, Encoding, ListOK, AfterUse
<1> QED BY <1>6, <1>7, <1>8, <1>9, <1>10, <1>11, <1>12

LEMMA ResumeBasicKeeps ==
    ASSUME IInv, ResumeBasic
    PROVE  IInv'
<1> USE DEF IInv, ResumeBasic, HaveCkpt, run, writer, basic, ivf, baseList, history
<1>1. buf = NoBuf /\ pc = "basic" /\ ckpt # None /\ o.ckpt /\ at = 0 /\ ~rebuilt
    BY DEF BufferOK, WriterOK, Early
<1>2. TypeOK'
    BY DEF TypeOK, Control
<1>3. BufferOK' /\ WriterOK'
    BY <1>1 DEF BufferOK, WriterOK, Early, Encoding
<1>4. SavedOK'
    BY DEF SavedOK, Content
<1>5. CkptOK'
    <2>1. ckpt.next \in 0 .. N
        BY <1>1 DEF TypeOK
    <2>2. Cut' = Cut /\ 0 <= Len(Cut)
        BY CutIs DEF Cut
    <2> QED BY <1>1, <2>1, <2>2, Constants DEF CkptOK, Encoding
<1>6. RecordsOK' /\ LengthOK'
    BY <1>1 DEF RecordsOK, LengthOK, Content, Encoding
<1>7. IvfOK' /\ ListOK'
    BY <1>1, ListFrame DEF Early, ListOK, AfterUse
<1> QED BY <1>2, <1>3, <1>4, <1>5, <1>6, <1>7

LEMMA ReuseBasicKeeps ==
    ASSUME IInv, ReuseBasic
    PROVE  IInv'
<1> USE DEF IInv, ReuseBasic, Fails, run, writer, basic, ivf, baseList, history
<1>1. TypeOK'
    BY DEF TypeOK, Control
<1>2. pc' \in {"ivf", "idle"}
    OBVIOUS
<1>3. BufferOK' /\ WriterOK' /\ SavedOK' /\ CkptOK' /\ RecordsOK' /\ LengthOK'
    BY <1>2, BasicFrame DEF AfterUse, Early, Encoding
<1>4. IvfOK' /\ ListOK'
    BY <1>2, ListFrame DEF Early, ListOK, AfterUse
<1> QED BY <1>1, <1>3, <1>4

-----------------------------------------------------------------------------
(* Cutting the files to a checkpoint                                       *)

LEMMA CkptTypes ==
    ASSUME TypeOK, ckpt # None
    PROVE  /\ ckpt.next \in 0 .. N /\ ckpt.next \in Nat /\ N \in Nat
           /\ \A f \in Buckets : ckpt.sizes[f] \in 0 .. N
<1>1. ckpt \in [next : 0 .. N, sizes : [Buckets -> 0 .. N]]
    BY DEF TypeOK
<1> QED BY <1>1, Constants

\* Every file is cut to what it should hold at the checkpoint.
LEMMA CutCount ==
    ASSUME TypeOK, SavedOK, ckpt # None, ckpt.next < N, NEW j \in 1 .. Len(Cut)
    PROVE  /\ Cut[j].file \in File
           /\ Cut[j].len = Count(Cut[j].file, ckpt.next) /\ Cut[j].len \in Nat
           /\ \A s \in Shard : Cut[j].file = <<"shard", s>> => s = ShardOf(ckpt.next)
<1>1. ckpt.next \in 0 .. N /\ ckpt.next \in Nat /\ N \in Nat /\ ckpt.next \in Vector
    BY CkptTypes DEF Vector
<1>2. CASE j = 1
    <2>1. Cut[j].file = Cid /\ Cut[j].len = ckpt.next
        BY <1>2, CutIs
    <2> QED BY <1>1, <2>1, CidCount, Files DEF Cid
<1>3. CASE j = 2
    <2>1. Cut[j].file = <<"shard", ShardOf(ckpt.next)>> /\ Cut[j].len = ckpt.next % ShardSize
        BY <1>3, CutIs
    <2>2. ShardOf(ckpt.next) \in Shard
        BY <1>1, FileOfVector DEF ShardOf
    <2>3. Count(<<"shard", ShardOf(ckpt.next)>>, ckpt.next) = ckpt.next % ShardSize
        BY <1>1, ShardCount DEF ShardOf
    <2> QED BY <1>1, <2>1, <2>2, <2>3, Files, CountNat
<1>4. ASSUME NEW b \in Bucket, j = b + 3
      PROVE  /\ Cut[j].file \in File
             /\ Cut[j].len = Count(Cut[j].file, ckpt.next) /\ Cut[j].len \in Nat
             /\ \A s \in Shard : Cut[j].file # <<"shard", s>>
    <2>1. Cut[j].file = <<"bucket", b>> /\ Cut[j].len = ckpt.sizes[<<"bucket", b>>]
        BY <1>4, CutIs
    <2>2. <<"bucket", b>> \in Buckets /\ <<"bucket", b>> \in File
        BY Files
    <2> QED BY <1>1, <2>1, <2>2, CountNat DEF SavedOK
<1> QED BY <1>2, <1>3, <1>4, CutIs

LEMMA ResizedIs ==
    ASSUME TypeOK, NEW f \in File, NEW len \in Nat
    PROVE  /\ Resized(disk[f], len) \in Seq(Vector \cup {Hole})
           /\ Len(Resized(disk[f], len)) = len
           /\ Continues(f, 0, Content(f)) /\ len <= Len(Content(f)) =>
                 Continues(f, 0, Resized(disk[f], len))
<1> DEFINE r == Resized(disk[f], len)
           c == Content(f)
<1>1. c \in Seq(Vector \cup {Hole}) /\ Len(c) \in Nat
    BY FileTypes
<1>2. r = [i \in 1 .. len |-> IF i <= Len(c) THEN c[i] ELSE Hole]
    BY DEF Resized, Content
<1> HIDE DEF r, c
<1>3. r \in [1 .. len -> Vector \cup {Hole}]
    <2>1. \A i \in 1 .. len : i <= Len(c) => c[i] \in Vector \cup {Hole}
        BY <1>1
    <2> QED BY <1>2, <2>1
<1>4. r \in Seq(Vector \cup {Hole}) /\ Len(r) = len
    BY <1>3
<1>5. ASSUME Continues(f, 0, c), len <= Len(c)
      PROVE  Continues(f, 0, r)
    <2>1. \A i \in 1 .. Len(r) : r[i] = c[i]
        BY <1>1, <1>2, <1>4, <1>5
    <2> QED BY <1>1, <1>4, <1>5, <2>1, ContinuesPrefix
<1> QED BY <1>4, <1>5 DEF r, c

LEMMA TruncateKeeps ==
    ASSUME IInv, Truncate
    PROVE  IInv'
<1> USE DEF IInv
<1> DEFINE c == Cut[at + 1]
           r == Resized(disk[c.file], c.len)
<1>1. /\ pc = "truncate" /\ pc' = pc /\ at < Len(Cut) /\ at' = at + 1
      /\ disk' = [disk EXCEPT ![c.file] = r]
      /\ UNCHANGED <<o, runs, buf, resume, shard, pos, meta, hash, ckpt, rebuilt, built,
                     off, ids, listMeta, list, raw, listHash, orphaned, tainted>>
    BY DEF Truncate, run, writer, ivf, baseList, history
<1>2. buf = NoBuf /\ ~rebuilt /\ o.ckpt /\ ckpt # None /\ ckpt.next < N /\ at \in Nat
    BY <1>1 DEF BufferOK, WriterOK, CkptOK, Early, TypeOK
<1>3. at + 1 \in 1 .. Len(Cut) /\ Cut' = Cut
    <2>1. Len(Cut) \in Nat
        BY CutIs
    <2>2. at + 1 \in 1 .. Len(Cut)
        BY <1>1, <1>2, <2>1
    <2>3. Cut' = Cut
        BY <1>1 DEF Cut
    <2> QED BY <2>2, <2>3
<1>4. c.file \in File /\ c.len \in Nat
    BY <1>2, <1>3, CutCount
<1> PICK g \in File : g = c.file
    BY <1>4
<1>5. /\ c.len = Count(g, ckpt.next)
      /\ \A s \in Shard : g = <<"shard", s>> => s = ShardOf(ckpt.next)
    BY <1>2, <1>3, CutCount
<1>5a. /\ r \in Seq(Vector \cup {Hole}) /\ Len(r) = c.len /\ r # None
       /\ Continues(g, 0, Content(g)) /\ c.len <= Len(Content(g)) => Continues(g, 0, r)
    BY <1>4, ResizedIs, SeqNotNone
<1>5b. disk' = [disk EXCEPT ![g] = r]
    BY <1>1
<1> HIDE DEF c, r
<1>6. \A f \in File : f # g => disk'[f] = disk[f] /\ Content(f)' = Content(f)
    BY <1>5b DEF TypeOK, Content
<1>7. disk'[g] = r /\ Content(g)' = r
    BY <1>5a, <1>5b DEF TypeOK, Content
<1>8. TypeOK'
    <2>1. disk' \in [File -> Seq(Vector \cup {Hole}) \cup {None}]
        BY <1>5a, <1>5b DEF TypeOK
    <2> QED BY <1>1, <1>2, <2>1 DEF TypeOK
<1>9. BufferOK' /\ WriterOK'
    BY <1>1, <1>2, FreshFiles DEF BufferOK, WriterOK, Encoding
<1>10. SavedOK'
    <2>1. ASSUME NEW s \in Shard, s > ShardOf(ckpt.next)
          PROVE  Content(<<"shard", s>>)' = Content(<<"shard", s>>)
        <3>1. s # ShardOf(ckpt.next)
            BY <2>1, CkptTypes, <1>2, Constants, DivMod DEF Shard, ShardOf
        <3> QED BY <1>5, <1>6, <3>1, Files
    <2> QED BY <1>1, <2>1 DEF SavedOK, ShardOf
<1>11. CkptOK'
    <2>1. at' <= Len(Cut')
        BY <1>1, <1>3
    <2>2. ASSUME NEW j \in 1 .. at'
          PROVE  disk'[Cut[j].file] # None /\ Len(disk'[Cut[j].file]) = Cut[j].len
        <3>1. j \in 1 .. Len(Cut)
            BY <1>1, <1>3, CutIs
        <3>2. Cut[j].file \in File /\ Cut[j].len = Count(Cut[j].file, ckpt.next)
            BY <1>2, <3>1, CutCount
        <3>3. CASE Cut[j].file = g
            BY <1>5, <1>7, <1>5a, <3>2, <3>3
        <3>4. CASE Cut[j].file # g
            <4>1. j # at + 1
                BY <3>4 DEF c
            <4>2. j \in 1 .. at
                BY <1>1, <1>2, <4>1
            <4> QED BY <1>1, <1>6, <3>2, <3>4, <4>2 DEF CkptOK
        <3> QED BY <3>3, <3>4
    <2> QED BY <1>1, <1>2, <1>3, <2>1, <2>2 DEF CkptOK, Encoding
<1>12. RecordsOK'
    <2> SUFFICES ASSUME ~orphaned, NEW f \in File
                 PROVE  Continues(f, 0, Content(f)') /\ Continues(f, Len(Content(f)'), buf'[f])
        BY <1>1 DEF RecordsOK
    <2>1. buf'[f] = <<>>
        BY <1>1, <1>2, FreshFiles
    <2>2. Continues(f, 0, Content(f)) /\ Count(f, ckpt.next) <= Len(Content(f))
        BY <1>2, CkptTypes DEF RecordsOK, LengthOK
    <2>3. Continues(f, 0, Content(f)')
        BY <1>5, <1>6, <1>7, <1>5a, <2>2
    <2> QED BY <2>1, <2>3, ContinuesEmpty
<1>13. LengthOK'
    <2> SUFFICES ASSUME ~orphaned, NEW f \in File
                 PROVE  Count(f, ckpt.next) <= Len(Content(f)')
        BY <1>1, <1>2 DEF LengthOK, Encoding
    <2>1. CASE f = g
        <3>1. Count(f, ckpt.next) \in Nat
            BY <1>4, <1>5, <2>1
        <3> QED BY <1>5, <1>7, <1>5a, <2>1, <3>1
    <2>2. CASE f # g
        BY <1>2, <1>6, <2>2, CkptTypes DEF LengthOK
    <2> QED BY <2>1, <2>2
<1>14. IvfOK' /\ ListOK'
    BY <1>1, ListFrame DEF Early, ListOK, AfterUse
<1> QED BY <1>8, <1>9, <1>10, <1>11, <1>12, <1>13, <1>14

\* Once they are cut the files hold what the checkpoint covers and no more.
LEMMA OpenResumeKeeps ==
    ASSUME IInv, OpenResume
    PROVE  IInv'
<1> USE DEF IInv
<1>1. /\ pc = "truncate" /\ pc' = "encode" /\ at = Len(Cut) /\ at' = 0
      /\ resume' = ckpt.next /\ pos' = ckpt.next
      /\ UNCHANGED <<o, runs, disk, buf, shard, meta, hash, ckpt, rebuilt, built,
                     off, ids, listMeta, list, raw, listHash, orphaned, tainted>>
    BY DEF OpenResume, run, basic, ivf, baseList, history
<1>2. buf = NoBuf /\ ~rebuilt /\ o.ckpt /\ ckpt # None /\ ckpt.next < N /\ shard = -1
    BY <1>1 DEF BufferOK, WriterOK, CkptOK, Early, TypeOK
<1>3. ckpt.next \in 0 .. N /\ ckpt.next \in Nat /\ N \in Nat /\ ckpt.next \in Vector
    BY <1>2, CkptTypes DEF Vector
<1>4. \A j \in 1 .. Len(Cut) : /\ disk[Cut[j].file] # None
                               /\ Len(disk[Cut[j].file]) = Count(Cut[j].file, ckpt.next)
    BY <1>1, <1>2, CutCount DEF CkptOK
<1>5. disk[Cid] # None /\ Len(Content(Cid)) = Count(Cid, ckpt.next)
    <2>1. 1 \in 1 .. Len(Cut) /\ Cut[1].file = Cid
        BY CutIs
    <2> QED BY <1>4, <2>1 DEF Content
<1> DEFINE g == <<"shard", ShardOf(ckpt.next)>>
<1>6. disk[g] # None /\ Len(Content(g)) = Count(g, ckpt.next)
    <2>1. 2 \in 1 .. Len(Cut) /\ Cut[2].file = g
        BY CutIs
    <2> QED BY <1>4, <2>1 DEF Content
<1>7. \A b \in Bucket : Len(Content(<<"bucket", b>>)) = Count(<<"bucket", b>>, ckpt.next)
    <2> SUFFICES ASSUME NEW b \in Bucket
                 PROVE  Len(Content(<<"bucket", b>>)) = Count(<<"bucket", b>>, ckpt.next)
        OBVIOUS
    <2>1. b + 3 \in 1 .. Len(Cut) /\ Cut[b + 3].file = <<"bucket", b>>
        BY CutIs
    <2> QED BY <1>4, <2>1 DEF Content
<1>8. TypeOK'
    BY <1>1, <1>3 DEF TypeOK, Control
<1>9. BufferOK'
    BY <1>1, <1>2 DEF BufferOK
<1>10. WriterOK'
    <2>1. PositionOK'
        BY <1>1, <1>2, <1>3, <1>5, <1>6 DEF PositionOK, SavedOK
    <2> QED BY <1>1, <1>2, <2>1 DEF WriterOK, Early, Encoding
<1>11. SavedOK' /\ CkptOK'
    BY <1>1, <1>2 DEF SavedOK, CkptOK, Content, Encoding
<1>12. RecordsOK'
    BY <1>1 DEF RecordsOK, Content
<1>13. LengthOK'
    <2>1. ASSUME NEW f \in File, f[1] = "shard" => ~orphaned
          PROVE  Len(Content(f)) + Len(buf[f]) = Count(f, ckpt.next)
        <3>1. Len(Content(f)) \in Nat /\ Len(buf[f]) = 0 /\ Count(f, ckpt.next) \in Nat
            BY <1>2, <1>3, FileTypes, FreshFiles, CountNat
        <3>2. ASSUME NEW s \in Shard, f = <<"shard", s>>
              PROVE  Len(Content(f)) = Count(f, ckpt.next)
            <4>1. ~orphaned
                BY <2>1, <3>2, Files
            <4>2. s \in Nat /\ ShardOf(ckpt.next) \in Nat
                BY <1>3, Constants, DivMod DEF Shard, ShardOf
            <4>3. CASE s = ShardOf(ckpt.next)
                BY <1>6, <3>2, <4>3
            <4>4. CASE s > ShardOf(ckpt.next)
                BY <1>2, <1>3, <3>2, <4>4, ShardEmpty DEF SavedOK, ShardOf
            <4>5. CASE s < ShardOf(ckpt.next)
                <5>1. Count(f, ckpt.next) = Count(f, N)
                    BY <1>3, <3>2, <4>5, ShardComplete DEF ShardOf
                <5>2. Continues(f, 0, Content(f)) /\ Content(f) \in Seq(Vector \cup {Hole})
                    BY <4>1, FileTypes DEF RecordsOK
                <5>3. Len(Content(f)) <= Count(f, N)
                    BY <5>2, ContinuesLength
                <5>4. Count(f, ckpt.next) <= Len(Content(f))
                    BY <1>2, <1>3, <4>1 DEF LengthOK
                <5> QED BY <3>1, <5>1, <5>3, <5>4
            <4> QED BY <4>2, <4>3, <4>4, <4>5
        <3>3. Len(Content(f)) = Count(f, ckpt.next)
            BY <1>5, <1>7, <3>2, Files
        <3> QED BY <3>1, <3>3
    <2>2. ckpt # None /\ ~orphaned =>
            \A f \in File : \/ Count(f, ckpt.next) <= Len(Content(f))
                            \/ disk[f] = None /\ ckpt.next = N
        BY DEF LengthOK
    <2> QED BY <1>1, <1>2, <2>1, <2>2 DEF LengthOK, Content
<1>14. IvfOK' /\ ListOK'
    BY <1>1, ListFrame DEF Early, Encoding, ListOK, AfterUse
<1> QED BY <1>8, <1>9, <1>10, <1>11, <1>12, <1>13, <1>14

-----------------------------------------------------------------------------
(* Encoding: what is written out, committed and closed                     *)

\* Writing a file out appends what was in memory.
LEMMA WrittenIs ==
    ASSUME TypeOK, BufferOK, NEW fs, NEW f \in File
    PROVE  /\ WrittenOut(fs)[f] = None <=> disk[f] = None
           /\ WrittenOut(fs)[f] \in Seq(Vector \cup {Hole}) \cup {None}
           /\ f \in fs => (IF WrittenOut(fs)[f] = None THEN <<>> ELSE WrittenOut(fs)[f])
                              = Content(f) \o buf[f]
           /\ f \notin fs \/ buf[f] = <<>> => WrittenOut(fs)[f] = disk[f]
<1>1. /\ Content(f) \in Seq(Vector \cup {Hole}) /\ buf[f] \in Seq(Vector \cup {Hole})
      /\ disk[f] # None => disk[f] = Content(f)
      /\ disk[f] = None => Content(f) = <<>>
      /\ disk[f] \in Seq(Vector \cup {Hole}) \cup {None}
    BY FileTypes DEF TypeOK
<1>2. WrittenOut(fs)[f] = IF f \in fs /\ disk[f] # None THEN disk[f] \o buf[f] ELSE disk[f]
    BY DEF WrittenOut
<1>3. Content(f) \o buf[f] \in Seq(Vector \cup {Hole}) /\ Content(f) \o buf[f] # None
    BY <1>1, ConcatAt, SeqNotNone
<1>4. disk[f] = None => buf[f] = <<>>
    BY DEF BufferOK
<1>5. <<>> \o <<>> = <<>>
    OBVIOUS
<1>6. buf[f] = <<>> => Content(f) \o buf[f] = Content(f)
    BY <1>1
<1> QED BY <1>1, <1>2, <1>3, <1>4, <1>5, <1>6

\* The files after everything has been written out.
LEMMA AllWritten ==
    ASSUME TypeOK, BufferOK, disk' = WrittenOut(File)
    PROVE  /\ disk' \in [File -> Seq(Vector \cup {Hole}) \cup {None}]
           /\ \A f \in File : /\ disk'[f] = None <=> disk[f] = None
                              /\ Content(f)' = Content(f) \o buf[f]
                              /\ Len(Content(f)') = Len(Content(f)) + Len(buf[f])
<1>1. ASSUME NEW f \in File
      PROVE  /\ disk'[f] = None <=> disk[f] = None
             /\ disk'[f] \in Seq(Vector \cup {Hole}) \cup {None}
             /\ Content(f)' = Content(f) \o buf[f]
             /\ Len(Content(f)') = Len(Content(f)) + Len(buf[f])
    <2>1. Content(f)' = Content(f) \o buf[f]
        BY WrittenIs DEF Content
    <2>2. Content(f) \in Seq(Vector \cup {Hole}) /\ buf[f] \in Seq(Vector \cup {Hole})
        BY FileTypes
    <2>3. Len(Content(f) \o buf[f]) = Len(Content(f)) + Len(buf[f])
        BY <2>2, ConcatAt
    <2> QED BY <2>1, <2>3, WrittenIs
<1>2. disk' = [f \in File |-> disk'[f]]
    BY DEF WrittenOut
<1> QED BY <1>1, <1>2

\* Everything written out: what Flush and Close share.
LEMMA WrittenKeeps ==
    ASSUME IInv, disk' = WrittenOut(File), buf' = NoBuf, pc \in {"encode", "flush"},
           pc' \in {"commit", "closed"}, UNCHANGED <<pos, ckpt, orphaned, rebuilt>>
    PROVE  /\ \A f \in Buckets : disk[f] # None => disk'[f] # None
           /\ BufferOK' /\ SavedOK' /\ RecordsOK' /\ LengthOK'
<1> USE DEF IInv
<1>1. /\ \A f \in File : /\ disk'[f] = None <=> disk[f] = None
                         /\ Content(f)' = Content(f) \o buf[f]
                         /\ Len(Content(f)') = Len(Content(f)) + Len(buf[f])
    BY AllWritten
<1>2. \A f \in File : /\ buf'[f] = <<>>
                      /\ Content(f) \in Seq(Vector \cup {Hole}) /\ Len(Content(f)) \in Nat
                      /\ buf[f] \in Seq(Vector \cup {Hole}) /\ Len(buf[f]) \in Nat
    BY FreshFiles, FileTypes
<1>3. BufferOK'
    BY <1>2, Files DEF BufferOK
<1>4. SavedOK'
    <2>1. ASSUME NEW s \in Shard, Content(<<"shard", s>>) = <<>>, buf[<<"shard", s>>] = <<>>
          PROVE  Content(<<"shard", s>>)' = <<>>
        BY <1>1, <2>1, Files
    <2> QED BY <1>2, <2>1, Files DEF SavedOK
<1>5. RecordsOK'
    <2> SUFFICES ASSUME ~orphaned, NEW f \in File
                 PROVE  Continues(f, 0, Content(f)') /\ Continues(f, Len(Content(f)'), buf'[f])
        BY DEF RecordsOK
    <2>1. Continues(f, 0, Content(f)) /\ Continues(f, Len(Content(f)), buf[f])
        BY DEF RecordsOK
    <2>2. 0 + Len(Content(f)) = Len(Content(f)) /\ 0 \in Nat
        BY <1>2
    <2>3. Continues(f, 0, Content(f) \o buf[f])
        BY <1>2, <2>1, <2>2, ContinuesConcat
    <2> QED BY <1>1, <1>2, <2>3, ContinuesEmpty
<1>6. LengthOK'
    <2>1. ASSUME NEW f \in File, f[1] = "shard" => ~orphaned
          PROVE  Len(Content(f)') + Len(buf'[f]) = Count(f, pos)
        <3>1. Len(Content(f)) + Len(buf[f]) = Count(f, pos)
            BY <2>1 DEF LengthOK, Encoding
        <3>2. Len(buf'[f]) = 0
            BY <1>2
        <3>3. Len(Content(f)') = Count(f, pos) /\ Len(Content(f)') \in Nat
            BY <1>1, <1>2, <3>1
        <3> QED BY <3>2, <3>3
    <2>2. ASSUME NEW f \in File, ckpt # None, ~orphaned
          PROVE  \/ Count(f, ckpt.next) <= Len(Content(f)')
                 \/ disk'[f] = None /\ ckpt.next = N
        <3>1. CASE Count(f, ckpt.next) <= Len(Content(f))
            <4>1. Count(f, ckpt.next) \in Nat
                BY <2>2, CkptTypes, CountNat
            <4> QED BY <1>1, <1>2, <3>1, <4>1
        <3>2. CASE disk[f] = None /\ ckpt.next = N
            BY <1>1, <3>2
        <3> QED BY <2>2, <3>1, <3>2 DEF LengthOK
    <2>3. ~rebuilt'
        BY DEF WriterOK, Early, Encoding
    <2> QED BY <2>1, <2>2, <2>3 DEF LengthOK
<1> QED BY <1>1, <1>3, <1>4, <1>5, <1>6, Files

LEMMA FlushKeeps ==
    ASSUME IInv, Flush
    PROVE  IInv'
<1> USE DEF IInv
<1>1. /\ pc = "flush" /\ pc' = "commit" /\ disk' = WrittenOut(File) /\ buf' = NoBuf
      /\ UNCHANGED <<o, runs, resume, shard, pos, meta, hash, ckpt, at, rebuilt, built,
                     off, ids, listMeta, list, raw, listHash, orphaned, tainted>>
    BY DEF Flush, run, ivf, baseList, history
<1>2. BufferOK' /\ SavedOK' /\ RecordsOK' /\ LengthOK'
    BY <1>1, WrittenKeeps
<1>3. /\ disk' \in [File -> Seq(Vector \cup {Hole}) \cup {None}]
      /\ \A f \in File : disk'[f] = None <=> disk[f] = None
    BY <1>1, AllWritten
<1>4. TypeOK'
    <2>1. buf' \in [File -> Seq(Vector)]
        BY <1>1 DEF NoBuf
    <2> QED BY <1>1, <1>3, <2>1 DEF TypeOK, Control
<1>5. WriterOK'
    <2>1. PositionOK
        BY <1>1 DEF WriterOK, Encoding
    <2>2. shard # -1 => <<"shard", shard>> \in File
        BY Files DEF TypeOK
    <2>3. shard # -1
        <3>1. ckpt # None /\ shard = ShardOf(ckpt.next)
            BY <1>1 DEF CkptOK
        <3>2. ShardOf(ckpt.next) \in Nat
            BY <3>1, CkptTypes, Constants, DivMod DEF ShardOf
        <3> QED BY <3>1, <3>2
    <2>4. PositionOK'
        BY <1>1, <1>3, <2>1, <2>2, <2>3, Files DEF PositionOK, ShardOf
    <2> QED BY <1>1, <2>4 DEF WriterOK, Early, Encoding
<1>6. CkptOK'
    BY <1>1 DEF CkptOK, Encoding, ShardOf
<1>7. IvfOK' /\ ListOK'
    BY <1>1, ListFrame DEF Early, Encoding, ListOK, AfterUse
<1> QED BY <1>2, <1>4, <1>5, <1>6, <1>7

LEMMA CloseBasicKeeps ==
    ASSUME IInv, CloseBasic
    PROVE  IInv'
<1> USE DEF IInv
<1>1. /\ pc = "encode" /\ pos = N /\ pc' = "closed" /\ disk' = WrittenOut(File)
      /\ buf' = NoBuf /\ shard' = -1
      /\ UNCHANGED <<o, runs, resume, pos, meta, hash, ckpt, at, rebuilt, built,
                     off, ids, listMeta, list, raw, listHash, orphaned, tainted>>
    BY DEF CloseBasic, run, ivf, baseList, history
<1>2. BufferOK' /\ SavedOK' /\ RecordsOK' /\ LengthOK'
    BY <1>1, WrittenKeeps
<1>3. disk' \in [File -> Seq(Vector \cup {Hole}) \cup {None}]
    BY <1>1, AllWritten
<1>4. TypeOK'
    <2>1. buf' \in [File -> Seq(Vector)]
        BY <1>1 DEF NoBuf
    <2> QED BY <1>1, <1>3, <2>1 DEF TypeOK, Control
<1>5. WriterOK' /\ CkptOK'
    BY <1>1 DEF WriterOK, CkptOK, Early, Encoding
<1>6. IvfOK' /\ ListOK'
    BY <1>1, ListFrame DEF Early, Encoding, ListOK, AfterUse
<1> QED BY <1>2, <1>4, <1>5, <1>6

\* There are at most N vectors to count.
LEMMA CountBound ==
    ASSUME NEW f, NEW n \in Nat
    PROVE  Count(f, n) \in 0 .. N
<1>1. /\ VectorsOf(f) \in SUBSET (0 .. N - 1) /\ N \in Nat
      /\ VectorsOf(f) \in SUBSET Nat /\ IsFiniteSet(VectorsOf(f))
    BY VectorsOfFile
<1>2. IsFiniteSet(0 .. N - 1) /\ Cardinality(0 .. N - 1) = N
    BY <1>1, FS_Interval
<1>3. Cardinality(VectorsOf(f)) <= N
    BY <1>1, <1>2, FS_Subset
<1>4. Count(f, n) \in Nat /\ Count(f, n) <= Cardinality(VectorsOf(f)) /\ Cardinality(VectorsOf(f)) \in Nat
    BY <1>1, RankNat DEF Count
<1> QED BY <1>1, <1>3, <1>4

\* The checkpoint that is written names the position and the sizes there.
LEMMA CheckpointIs ==
    ASSUME IInv, buf = NoBuf, pc \in Encoding \cup {"closed"}
    PROVE  /\ Checkpoint \in [next : 0 .. N, sizes : [Buckets -> 0 .. N]]
           /\ Checkpoint # None /\ Checkpoint.next = pos
           /\ \A f \in Buckets : Checkpoint.sizes[f] = Count(f, pos)
<1> USE DEF IInv
<1>1. pos \in 0 .. N /\ pos \in Nat
    BY Constants DEF TypeOK
<1>2. ASSUME NEW f \in Buckets
      PROVE  /\ (IF disk[f] = None THEN 0 ELSE Len(disk[f])) = Count(f, pos)
             /\ Count(f, pos) \in 0 .. N
    <2>1. f \in File /\ f[1] # "shard"
        BY Files
    <2>2. Len(Content(f)) + Len(buf[f]) = Count(f, pos)
        BY <2>1 DEF LengthOK
    <2>3. Len(Content(f)) \in Nat /\ Len(buf[f]) = 0
        BY <2>1, FileTypes, FreshFiles
    <2>4. (IF disk[f] = None THEN 0 ELSE Len(disk[f])) = Len(Content(f))
        BY DEF Content
    <2> QED BY <1>1, <2>2, <2>3, <2>4, CountBound
<1> DEFINE z == [f \in Buckets |-> IF disk[f] = None THEN 0 ELSE Len(disk[f])]
<1>3. z \in [Buckets -> 0 .. N] /\ \A f \in Buckets : z[f] = Count(f, pos)
    BY <1>2
<1>4. Checkpoint = [next |-> pos, sizes |-> z]
    BY DEF Checkpoint
<1> HIDE DEF z
<1>5. Checkpoint \in [next : 0 .. N, sizes : [Buckets -> 0 .. N]]
    BY <1>1, <1>3, <1>4
<1> QED BY <1>3, <1>4, <1>5, NoneAssumption

LEMMA CommitKeeps ==
    ASSUME IInv, Commit
    PROVE  IInv'
<1> USE DEF IInv
<1>1. /\ pc = "commit" /\ pc' = "encode" /\ ckpt' = Checkpoint
      /\ UNCHANGED <<o, runs, disk, buf, resume, shard, pos, meta, hash, at, rebuilt, built,
                     off, ids, listMeta, list, raw, listHash, orphaned, tainted>>
    BY DEF Commit, run, writer, ivf, baseList, history
<1>2. /\ buf = NoBuf /\ ~rebuilt /\ o.ckpt /\ ckpt # None /\ ckpt.next < pos
      /\ ckpt.next \in Nat /\ pos \in 0 .. N /\ pos \in Nat
    BY <1>1, CkptTypes, Constants DEF BufferOK, WriterOK, CkptOK, Early, Encoding, TypeOK
<1>3. /\ ckpt' \in [next : 0 .. N, sizes : [Buckets -> 0 .. N]]
      /\ ckpt' # None /\ ckpt'.next = pos
      /\ \A f \in Buckets : ckpt'.sizes[f] = Count(f, pos)
    BY <1>1, <1>2, CheckpointIs DEF Encoding
<1>4. TypeOK'
    BY <1>1, <1>3 DEF TypeOK, Control
<1>5. BufferOK' /\ WriterOK'
    BY <1>1, <1>2 DEF BufferOK, WriterOK, PositionOK, Early, Encoding
<1>6. SavedOK'
    <2>1. pos % BlockSize = 0 \/ pos = N
        BY <1>1 DEF WriterOK, PositionOK, Encoding
    <2>2. ASSUME NEW s \in Shard, s > ShardOf(pos)
          PROVE  s > ShardOf(ckpt.next)
        <3>1. ckpt.next \div ShardSize <= pos \div ShardSize
            BY <1>2, Constants, DivMono
        <3>2. ckpt.next \div ShardSize \in Nat /\ pos \div ShardSize \in Nat
            BY <1>2, Constants, DivMod
        <3>3. s \in Nat
            BY DEF Shard
        <3> QED BY <2>2, <3>1, <3>2, <3>3 DEF ShardOf
    <2> QED BY <1>1, <1>2, <1>3, <2>1, <2>2 DEF SavedOK, Content, ShardOf
<1>7. CkptOK'
    BY <1>1, <1>2, <1>3 DEF CkptOK, Encoding
<1>8. RecordsOK'
    BY <1>1 DEF RecordsOK, Content
<1>9. LengthOK'
    <2>1. ASSUME NEW f \in File, ~orphaned
          PROVE  Count(f, pos) <= Len(Content(f))
        <3>1. Len(Content(f)) + Len(buf[f]) = Count(f, pos)
            BY <1>1, <2>1 DEF LengthOK, Encoding
        <3>2. Len(Content(f)) \in Nat /\ Len(buf[f]) = 0
            BY <1>2, FileTypes, FreshFiles
        <3> QED BY <3>1, <3>2
    <2>2. \A f \in File : (f[1] = "shard" => ~orphaned) =>
              Len(Content(f)) + Len(buf[f]) = Count(f, pos)
        BY <1>1 DEF LengthOK, Encoding
    <2> QED BY <1>1, <1>2, <1>3, <2>1, <2>2 DEF LengthOK, Content
<1>10. IvfOK' /\ ListOK'
    BY <1>1, ListFrame DEF Early, Encoding, ListOK, AfterUse
<1> QED BY <1>4, <1>5, <1>6, <1>7, <1>8, <1>9, <1>10

\* The last checkpoint, written or not, names the end.
LEMMA FinishBasicKeeps ==
    ASSUME IInv, FinishBasic
    PROVE  IInv'
<1> USE DEF IInv
<1>1. /\ pc = "closed" /\ pc' = "ivf" /\ rebuilt' = TRUE /\ hash' \in {hash, TRUE}
      /\ o.ckpt => ckpt' \in {ckpt, Checkpoint}
      /\ ~o.ckpt => ckpt' = ckpt
      /\ UNCHANGED <<o, runs, disk, buf, resume, shard, pos, meta, at, built,
                     off, ids, listMeta, list, raw, listHash, orphaned, tainted>>
    BY DEF FinishBasic, run, writer, ivf, baseList, history
<1>2. buf = NoBuf /\ pos = N /\ N \in Nat /\ ~built
    BY <1>1, Constants DEF BufferOK, WriterOK, ListOK, AfterUse
<1>3. ckpt' # None =>
          /\ ckpt # None /\ ckpt.next = N /\ ckpt'.next = N
          /\ ckpt' \in [next : 0 .. N, sizes : [Buckets -> 0 .. N]]
          /\ \A f \in Buckets : ckpt'.sizes[f] = Count(f, N)
    <2>1. CASE ~o.ckpt
        BY <1>1, <2>1 DEF CkptOK
    <2>2. CASE o.ckpt
        <3>1. ckpt # None /\ ckpt.next = N
            BY <1>1, <1>2, <2>2 DEF CkptOK
        <3>2. CASE ckpt' = ckpt
            BY <3>1, <3>2 DEF SavedOK, TypeOK
        <3>3. CASE ckpt' = Checkpoint
            BY <1>1, <1>2, <3>1, <3>3, CheckpointIs
        <3> QED BY <1>1, <2>2, <3>2, <3>3
    <2> QED BY <2>1, <2>2
<1>4. TypeOK'
    <2>1. hash' \in BOOLEAN
        BY <1>1 DEF TypeOK
    <2> QED BY <1>1, <1>3, <2>1 DEF TypeOK, Control
<1>5. BufferOK' /\ WriterOK'
    BY <1>1, <1>2 DEF BufferOK, WriterOK, Early, Encoding
<1>6. SavedOK'
    BY <1>1, <1>2, <1>3 DEF SavedOK, Content
<1>7. CkptOK'
    BY <1>1 DEF CkptOK, Encoding
<1>8. RecordsOK'
    BY <1>1 DEF RecordsOK, Content
<1>9. LengthOK'
    <2>1. ASSUME NEW f \in File, ~orphaned
          PROVE  Len(Content(f)) = Count(f, N) /\ Count(f, N) <= Len(Content(f))
        <3>1. Len(Content(f)) + Len(buf[f]) = Count(f, N)
            BY <1>1, <1>2, <2>1 DEF LengthOK
        <3>2. Len(Content(f)) \in Nat /\ Len(buf[f]) = 0
            BY <1>2, FileTypes, FreshFiles
        <3> QED BY <3>1, <3>2
    <2> QED BY <1>1, <1>3, <2>1 DEF LengthOK, Content, Encoding
<1>10. IvfOK' /\ ListOK'
    BY <1>1, <1>2, ListFrame DEF Early
<1> QED BY <1>4, <1>5, <1>6, <1>7, <1>8, <1>9, <1>10

-----------------------------------------------------------------------------
(* Encoding: a block                                                       *)

\* Between one end of a block and the next.
LEMMA BlockIs ==
    ASSUME pos \in Nat, pos < N, pos % BlockSize = 0
    PROVE  /\ BlockEnd \in 0 .. N /\ BlockEnd \in Nat
           /\ pos < BlockEnd /\ BlockEnd <= pos + BlockSize
           /\ BlockEnd % BlockSize = 0 \/ BlockEnd = N
           /\ pos \in Vector /\ ShardOf(pos) \in Shard /\ ShardOf(BlockEnd - 1) = ShardOf(pos)
           /\ \A v \in pos .. BlockEnd - 1 : v \in Vector /\ ShardOf(v) = ShardOf(pos)
<1>1. N \in Nat \ {0} /\ BlockSize \in Nat \ {0}
    BY Constants
<1> DEFINE e == BlockEnd
<1>2. e \in 0 .. N /\ e \in Nat /\ pos < e /\ e <= pos + BlockSize
    BY <1>1 DEF BlockEnd
<1>3. (pos + BlockSize) % BlockSize = 0
    <2>1. pos = BlockSize * (pos \div BlockSize) + 0 /\ pos \div BlockSize \in Nat
        BY <1>1, DivMod
    <2> DEFINE q == pos \div BlockSize
    <2> HIDE DEF q
    <2>2. q \in Nat /\ pos = BlockSize * q
        BY <1>1, <2>1 DEF q
    <2>3. BlockSize * (q + 1) = BlockSize * q + BlockSize
        BY <1>1, <2>2
    <2>4. /\ BlockSize * (q + 1) <= pos + BlockSize
          /\ pos + BlockSize < BlockSize * (q + 1) + BlockSize
          /\ q + 1 \in Nat /\ pos + BlockSize \in Nat
        BY <1>1, <2>2, <2>3
    <2>5. (pos + BlockSize) \div BlockSize = q + 1
        BY <1>1, <2>4, DivUnique
    <2>6. /\ pos + BlockSize = BlockSize * ((pos + BlockSize) \div BlockSize)
                               + ((pos + BlockSize) % BlockSize)
          /\ (pos + BlockSize) % BlockSize \in Nat
        BY <1>1, <2>4, DivMod
    <2>7. pos + BlockSize = BlockSize * (q + 1) + ((pos + BlockSize) % BlockSize)
        BY <2>5, <2>6
    <2> DEFINE r == (pos + BlockSize) % BlockSize
    <2>8. r \in Nat /\ pos + BlockSize = (pos + BlockSize) + r
        BY <2>2, <2>3, <2>6, <2>7
    <2> HIDE DEF r
    <2>9. r = 0
        BY <1>1, <2>8
    <2> QED BY <2>9 DEF r
<1>4. e % BlockSize = 0 \/ e = N
    BY <1>3 DEF BlockEnd
<1>5. ASSUME NEW v \in pos .. e - 1
      PROVE  v \in Vector /\ ShardOf(v) = ShardOf(pos)
    <2>1. v \in Nat /\ pos <= v /\ v < pos + BlockSize /\ v < N
        BY <1>1, <1>2
    <2> QED BY <1>1, <2>1, BlockInShard DEF Vector, ShardOf
<1>6. e - 1 \in pos .. e - 1 /\ pos \in pos .. e - 1
    BY <1>2
<1>7. ShardOf(pos) \in Shard
    BY <1>5, <1>6, FileOfVector DEF ShardOf
<1> QED BY <1>2, <1>4, <1>5, <1>6, <1>7

\* A shard is opened empty only at its first vector; where it is appended to,
\* or was open already, it exists.
LEMMA ShardSwitch ==
    ASSUME IInv, pc = "encode", pos < N
    PROVE  /\ pos \in Nat /\ pos % BlockSize = 0 /\ resume <= pos
           /\ ShardOf(pos) = shard \/ Appends(ShardOf(pos)) => disk[ShardFile(pos)] # None
           /\ ShardOf(pos) # shard => buf[ShardFile(pos)] = <<>>
           /\ ShardOf(pos) # shard /\ ~Appends(ShardOf(pos)) => Count(ShardFile(pos), pos) = 0
<1> USE DEF IInv
<1>1. /\ pos \in Nat /\ N \in Nat /\ ShardSize \in Nat \ {0} /\ BlockSize \in Nat \ {0}
      /\ shard \in {-1} \cup Shard /\ resume \in {-1} \cup Nat /\ pos \in Vector
    BY Constants DEF TypeOK, Vector
<1>2. PositionOK
    BY DEF WriterOK, Encoding
<1>3. pos % BlockSize = 0
    BY <1>1, <1>2 DEF PositionOK
<1> DEFINE s == ShardOf(pos)
<1>4. /\ s \in Shard /\ s \in Nat /\ ShardFile(pos) = <<"shard", s>>
      /\ pos = ShardSize * s + (pos % ShardSize)
      /\ pos % ShardSize \in 0 .. ShardSize - 1
    BY <1>1, FileOfVector, DivMod DEF ShardOf, ShardFile
<1>5. s # shard => buf[ShardFile(pos)] = <<>>
    BY <1>4 DEF BufferOK
<1>6. shard # -1 => 0 < pos /\ resume < pos /\ shard = ShardOf(pos - 1)
                    /\ disk[<<"shard", shard>>] # None
    BY <1>2 DEF PositionOK
<1>7. shard = -1 => pos = IF resume = -1 THEN 0 ELSE resume
    BY <1>2 DEF PositionOK
<1>8. resume <= pos
    BY <1>1, <1>6, <1>7
<1> HIDE DEF s
<1>9. ASSUME shard # -1, s # shard
      PROVE  pos % ShardSize = 0 /\ ~Appends(s)
    <2>1. pos - 1 \in Nat
        BY <1>1, <1>6, <1>9
    <2> DEFINE r == pos % ShardSize
               m == ShardSize * s
    <2>2. m \in Nat /\ r \in 0 .. ShardSize - 1 /\ pos = m + r
        BY <1>1, <1>4
    <2> HIDE DEF r
    <2>3. ASSUME r # 0 PROVE FALSE
        <3>1. m <= pos - 1 /\ pos - 1 < m + ShardSize
            BY <1>1, <2>2, <2>3
        <3>2. (pos - 1) \div ShardSize = s
            BY <1>1, <1>4, <2>1, <3>1, DivUnique
        <3> QED BY <1>6, <1>9, <3>2 DEF ShardOf
    <2>4. ASSUME resume >= 0, s = resume \div ShardSize
          PROVE  FALSE
        <3>1. resume \in Nat /\ resume < pos
            BY <1>1, <1>6, <1>9, <2>4
        <3>2. /\ resume = ShardSize * (resume \div ShardSize) + (resume % ShardSize)
              /\ resume % ShardSize \in Nat
            BY <1>1, <3>1, DivMod
        <3>3. resume = m + (resume % ShardSize)
            BY <2>4, <3>2
        <3>4. m <= resume
            BY <2>2, <3>1, <3>2, <3>3
        <3> QED BY <2>2, <2>3, <3>1, <3>4
    <2> QED BY <2>3, <2>4 DEF Appends, r
<1>10. ASSUME Appends(s)
       PROVE  disk[ShardFile(pos)] # None
    <2>1. resume # -1 /\ s = ShardOf(resume)
        BY <1>10 DEF Appends, ShardOf
    <2>2. CASE shard = -1
        BY <1>2, <1>4, <2>1, <2>2 DEF PositionOK
    <2>3. CASE shard # -1
        <3>1. s = shard
            BY <1>9, <1>10, <2>3
        <3> QED BY <1>4, <1>6, <2>3, <3>1
    <2> QED BY <2>2, <2>3
<1>11. ASSUME s = shard
       PROVE  disk[ShardFile(pos)] # None
    BY <1>1, <1>4, <1>6, <1>11
<1>12. ASSUME s # shard, ~Appends(s)
       PROVE  Count(ShardFile(pos), pos) = 0
    <2>1. Count(ShardFile(pos), pos) = pos % ShardSize
        BY <1>1, <1>4, ShardCount DEF s, ShardOf, ShardFile
    <2>2. CASE shard # -1
        BY <1>9, <1>12, <2>1, <2>2
    <2>3. CASE shard = -1 /\ resume = -1
        BY <1>7, <2>3, CountZero
    <2>4. CASE shard = -1 /\ resume # -1
        <3>1. pos = resume /\ resume >= 0
            BY <1>1, <1>7, <2>4
        <3>2. s = resume \div ShardSize
            BY <3>1 DEF s, ShardOf
        <3>3. ~(pos % ShardSize > 0)
            BY <1>12, <3>1, <3>2 DEF Appends
        <3> QED BY <1>1, <1>4, <2>1, <3>3
    <2> QED BY <2>2, <2>3, <2>4
<1> QED BY <1>1, <1>3, <1>5, <1>8, <1>10, <1>11, <1>12 DEF s

\* What is appended in the right place leaves the right number of records.
LEMMA Appended ==
    ASSUME NEW f, NEW c \in Seq(Vector \cup {Hole}), NEW b \in Seq(Vector),
           NEW m \in 0 .. N, NEW n \in 0 .. N, m <= n,
           Len(c) + Len(b) = Count(f, m)
    PROVE  /\ b \o Records(f, m, n) \in Seq(Vector)
           /\ Len(c) + Len(b \o Records(f, m, n)) = Count(f, n)
           /\ Continues(f, Len(c), b) => Continues(f, Len(c), b \o Records(f, m, n))
<1> DEFINE r == Records(f, m, n)
<1>1. /\ r \in Seq(Vector) /\ Len(r) = Count(f, n) - Count(f, m)
      /\ Continues(f, Count(f, m), r)
    BY RecordsAre
<1>2. Count(f, m) \in Nat /\ Count(f, n) \in Nat
    BY Constants, CountNat
<1> HIDE DEF r
<1>3. b \o r \in Seq(Vector) /\ Len(b \o r) = Len(b) + Len(r) /\ Len(b) \in Nat /\ Len(r) \in Nat
    BY <1>1, ConcatAt
<1>4. Len(c) \in Nat
    OBVIOUS
<1>5. Len(c) + Len(b \o r) = Count(f, n)
    BY <1>1, <1>2, <1>3, <1>4
<1>6. ASSUME Continues(f, Len(c), b) PROVE Continues(f, Len(c), b \o r)
    <2>1. b \in Seq(Vector \cup {Hole}) /\ r \in Seq(Vector \cup {Hole})
        BY <1>1
    <2>2. Continues(f, Len(c) + Len(b), r)
        BY <1>1
    <2> QED BY <1>4, <1>6, <2>1, <2>2, ContinuesConcat
<1> QED BY <1>3, <1>5, <1>6 DEF r

\* The shard of the block: continued, or begun.
LEMMA BlockShard ==
    ASSUME IInv, EncodeBlock, NEW f, f = ShardFile(pos)
    PROVE  /\ f \in File /\ disk'[f] \in Seq(Vector \cup {Hole}) /\ disk'[f] # None
           /\ buf'[f] \in Seq(Vector)
           /\ ~orphaned => Content(f)' = Content(f) /\ buf'[f] = buf[f] \o Records(f, pos, BlockEnd)
<1> USE DEF IInv
<1> DEFINE s == ShardOf(pos)
           r == Records(f, pos, BlockEnd)
<1>1. pc = "encode" /\ pos < N
    BY DEF EncodeBlock
<1>2. /\ pos \in Nat /\ pos % BlockSize = 0
      /\ s = shard \/ Appends(s) => disk[f] # None
      /\ s # shard => buf[f] = <<>>
      /\ s # shard /\ ~Appends(s) => Count(f, pos) = 0
    BY <1>1, ShardSwitch
<1>3. /\ f \in File /\ pos \in Vector /\ s \in Shard /\ f = <<"shard", s>> /\ f[1] = "shard"
      /\ pos \in 0 .. N /\ BlockEnd \in 0 .. N /\ pos <= BlockEnd
    <2>1. /\ BlockEnd \in 0 .. N /\ pos < BlockEnd /\ BlockEnd \in Nat
          /\ pos \in Vector /\ s \in Shard
        BY <1>1, <1>2, BlockIs
    <2>2. f \in File /\ f = <<"shard", s>>
        BY <2>1, FileOfVector DEF ShardOf, ShardFile
    <2>3. pos \in 0 .. N /\ pos <= BlockEnd
        BY <1>2, <2>1, Constants
    <2> QED BY <2>1, <2>2, <2>3
<1>4. f \notin {BucketFile(v) : v \in pos .. BlockEnd - 1}
    BY <1>3 DEF BucketFile
<1>5. /\ Content(f) \in Seq(Vector \cup {Hole}) /\ buf[f] \in Seq(Vector)
      /\ disk[f] # None => disk[f] \in Seq(Vector \cup {Hole}) /\ Content(f) = disk[f]
      /\ r \in Seq(Vector)
    BY <1>3, FileTypes, RecordsAre
<1>6. /\ disk'[f] = IF s # shard /\ ~Appends(s) THEN <<>>
                    ELSE WrittenOut(IF s # shard THEN {"shard"} \X Shard ELSE {})[f]
      /\ buf'[f] = (IF f \in (IF s # shard THEN {"shard"} \X Shard ELSE {}) THEN <<>> ELSE buf[f]) \o r
    <2>1. disk'[f] = IF \/ f = ShardFile(pos) /\ s # shard /\ ~Appends(s)
                        \/ disk[f] = None /\ f \in {BucketFile(v) : v \in pos .. BlockEnd - 1}
                     THEN <<>> ELSE WrittenOut(IF s # shard THEN {"shard"} \X Shard ELSE {})[f]
        BY <1>3, Zenon DEF EncodeBlock, ShardOf
    <2>2. buf'[f] = (IF f \in (IF s # shard THEN {"shard"} \X Shard ELSE {}) THEN <<>> ELSE buf[f]) \o
                    (IF f[1] = "shard" /\ f # ShardFile(pos) THEN <<>> ELSE Records(f, pos, BlockEnd))
        BY <1>3, Zenon DEF EncodeBlock, ShardOf
    <2> QED BY <1>4, <2>1, <2>2, Zenon
<1> HIDE DEF r, s
<1>7. buf'[f] = buf[f] \o r /\ buf'[f] \in Seq(Vector)
    <2>1. f \in {"shard"} \X Shard
        BY <1>3
    <2>2. buf'[f] = buf[f] \o r
        BY <1>2, <1>6, <2>1
    <2> QED BY <1>5, <2>2, ConcatAt
<1>8. CASE s # shard /\ ~Appends(s)
    <2>1. disk'[f] = <<>> /\ Content(f)' = <<>>
        BY <1>6, <1>8 DEF Content
    <2>2. ASSUME ~orphaned PROVE Content(f) = <<>>
        <3>1. Len(Content(f)) + Len(buf[f]) = 0
            BY <1>1, <1>2, <1>3, <1>8, <2>2 DEF LengthOK, Encoding
        <3>2. Len(Content(f)) \in Nat /\ Len(buf[f]) \in Nat
            BY <1>5
        <3>3. Len(Content(f)) = 0
            BY <3>1, <3>2
        <3> QED BY <1>5, <3>3
    <2> QED BY <1>3, <1>7, <2>1, <2>2, EmptyFile DEF r
<1>9. CASE ~(s # shard /\ ~Appends(s))
    <2>1. disk[f] # None
        BY <1>2, <1>9
    <2>2. WrittenOut(IF s # shard THEN {"shard"} \X Shard ELSE {})[f] = disk[f]
        BY <1>2, <1>3, WrittenIs
    <2>3. disk'[f] = disk[f]
        BY <1>6, <1>9, <2>2
    <2>4. Content(f)' = Content(f)
        BY <2>3 DEF Content
    <2> QED BY <1>3, <1>5, <1>7, <2>1, <2>3, <2>4 DEF r
<1> QED BY <1>8, <1>9

\* Another shard gets nothing, and is written out when the shard changes.
LEMMA OtherShard ==
    ASSUME IInv, EncodeBlock, NEW t \in Shard, t # ShardOf(pos), NEW f, f = <<"shard", t>>
    PROVE  /\ f \in File /\ disk'[f] \in Seq(Vector \cup {Hole}) \cup {None}
           /\ disk'[f] = None <=> disk[f] = None
           /\ buf'[f] = <<>> /\ Content(f)' = Content(f) \o buf[f]
           /\ Count(f, BlockEnd) = Count(f, pos)
<1> USE DEF IInv
<1> DEFINE s == ShardOf(pos)
           closed == IF s # shard THEN {"shard"} \X Shard ELSE {}
<1>1. pc = "encode" /\ pos < N
    BY DEF EncodeBlock
<1>2. /\ pos \in Nat /\ BlockEnd \in Nat /\ pos <= BlockEnd /\ f \in File /\ f[1] = "shard"
      /\ \A v \in pos .. BlockEnd - 1 : ShardOf(v) = s
    BY <1>1, ShardSwitch, BlockIs, Files
<1>3. f # ShardFile(pos) /\ f \notin {BucketFile(v) : v \in pos .. BlockEnd - 1}
    BY DEF ShardFile, ShardOf, BucketFile
<1>4. Count(f, pos) = Count(f, BlockEnd)
    <2>1. \A v \in Vector : pos <= v /\ v < BlockEnd => v \in pos .. BlockEnd - 1
        BY <1>2, Constants DEF Vector
    <2>2. \A v \in pos .. BlockEnd - 1 : ~InFile(f, v)
        BY <1>2, InShard DEF ShardOf
    <2> QED BY <1>2, <2>1, <2>2, CountSame
<1>5. disk'[f] = WrittenOut(closed)[f]
    <2>1. disk'[f] = IF \/ f = ShardFile(pos) /\ s # shard /\ ~Appends(s)
                        \/ disk[f] = None /\ f \in {BucketFile(v) : v \in pos .. BlockEnd - 1}
                     THEN <<>> ELSE WrittenOut(closed)[f]
        BY <1>2, Zenon DEF EncodeBlock, ShardOf
    <2> QED BY <1>3, <2>1, Zenon
<1>6. buf'[f] = (IF f \in closed THEN <<>> ELSE buf[f]) \o <<>>
    <2>1. buf'[f] = (IF f \in closed THEN <<>> ELSE buf[f]) \o
                    (IF f[1] = "shard" /\ f # ShardFile(pos) THEN <<>> ELSE Records(f, pos, BlockEnd))
        BY <1>2, Zenon DEF EncodeBlock, ShardOf
    <2> QED BY <1>2, <1>3, <2>1, Zenon
<1>7. f \in {"shard"} \X Shard
    OBVIOUS
<1>8. f \in closed \/ buf[f] = <<>>
    <2>1. CASE s = shard
        BY <2>1 DEF BufferOK
    <2>2. CASE s # shard
        BY <1>7, <2>2
    <2> QED BY <2>1, <2>2
<1> HIDE DEF closed, s
<1>9. /\ WrittenOut(closed)[f] = None <=> disk[f] = None
      /\ WrittenOut(closed)[f] \in Seq(Vector \cup {Hole}) \cup {None}
      /\ f \in closed => (IF WrittenOut(closed)[f] = None THEN <<>> ELSE WrittenOut(closed)[f])
                             = Content(f) \o buf[f]
      /\ f \notin closed \/ buf[f] = <<>> => WrittenOut(closed)[f] = disk[f]
    BY <1>2, WrittenIs
<1>10. Content(f) \in Seq(Vector \cup {Hole}) /\ buf[f] \in Seq(Vector)
    BY <1>2, FileTypes
<1>11. buf'[f] = <<>>
    BY <1>6, <1>8, <1>10
<1>12. Content(f)' = Content(f) \o buf[f]
    <2>1. CASE f \in closed
        BY <1>5, <1>9, <2>1 DEF Content
    <2>2. CASE f \notin closed
        <3>1. buf[f] = <<>> /\ disk'[f] = disk[f]
            BY <1>5, <1>8, <1>9, <2>2
        <3>2. Content(f)' = Content(f)
            BY <3>1 DEF Content
        <3> QED BY <1>10, <3>1, <3>2
    <2> QED BY <2>1, <2>2
<1> QED BY <1>2, <1>4, <1>5, <1>9, <1>11, <1>12

\* The other files get their records; a bucket that gets one exists then.
LEMMA BlockOthers ==
    ASSUME IInv, EncodeBlock, NEW f \in File, f[1] # "shard"
    PROVE  /\ disk'[f] \in Seq(Vector \cup {Hole}) \cup {None}
           /\ disk[f] # None => disk'[f] = disk[f]
           /\ buf'[f] = buf[f] \o Records(f, pos, BlockEnd)
           /\ buf'[f] # <<>> => disk'[f] # None
           /\ Content(f)' = Content(f)
<1> USE DEF IInv
<1> DEFINE s == ShardOf(pos)
           closed == IF s # shard THEN {"shard"} \X Shard ELSE {}
           r == Records(f, pos, BlockEnd)
<1>1. pc = "encode" /\ pos < N
    BY DEF EncodeBlock
<1>2. /\ pos \in Nat /\ pos \in 0 .. N /\ BlockEnd \in 0 .. N /\ pos <= BlockEnd
      /\ ShardOf(pos) \in Shard
    BY <1>1, ShardSwitch, BlockIs, Constants
<1>3. f # ShardFile(pos) /\ f \notin closed
    <2>1. f # ShardFile(pos)
        BY DEF ShardFile
    <2>2. f \notin {"shard"} \X Shard
        OBVIOUS
    <2> QED BY <2>1, <2>2
<1>4. disk'[f] = IF disk[f] = None /\ f \in {BucketFile(v) : v \in pos .. BlockEnd - 1}
                 THEN <<>> ELSE WrittenOut(closed)[f]
    <2>1. disk'[f] = IF \/ f = ShardFile(pos) /\ s # shard /\ ~Appends(s)
                        \/ disk[f] = None /\ f \in {BucketFile(v) : v \in pos .. BlockEnd - 1}
                     THEN <<>> ELSE WrittenOut(closed)[f]
        BY Zenon DEF EncodeBlock, ShardOf
    <2> QED BY <1>3, <2>1, Zenon
<1>5. buf'[f] = buf[f] \o r
    <2>1. buf'[f] = (IF f \in closed THEN <<>> ELSE buf[f]) \o
                    (IF f[1] = "shard" /\ f # ShardFile(pos) THEN <<>> ELSE Records(f, pos, BlockEnd))
        BY Zenon DEF EncodeBlock, ShardOf
    <2> QED BY <1>3, <2>1, Zenon
<1> HIDE DEF closed, s
<1>6. WrittenOut(closed)[f] = disk[f] /\ disk[f] \in Seq(Vector \cup {Hole}) \cup {None}
    BY <1>3, WrittenIs DEF TypeOK
<1>7. /\ disk'[f] \in Seq(Vector \cup {Hole}) \cup {None}
      /\ disk[f] # None => disk'[f] = disk[f]
    BY <1>4, <1>6, EmptyFile
<1>8. Content(f)' = Content(f)
    BY <1>4, <1>6, EmptyFile DEF Content
<1>9. ASSUME buf'[f] # <<>>, disk'[f] = None
      PROVE  FALSE
    <2>1. disk[f] = None /\ buf[f] = <<>>
        BY <1>4, <1>6, <1>9, EmptyFile DEF BufferOK
    <2>2. /\ r \in Seq(Vector)
          /\ \A i \in 1 .. Len(r) : r[i] \in Vector /\ InFile(f, r[i]) /\ r[i] >= pos /\ r[i] < BlockEnd
        BY <1>2, RecordsAre DEF Continues
    <2> HIDE DEF r
    <2>3. r # <<>>
        BY <1>5, <1>9, <2>1, <2>2
    <2>4. 1 \in 1 .. Len(r)
        BY <2>2, <2>3
    <2>5. PICK v \in Vector : InFile(f, v) /\ v >= pos /\ v < BlockEnd
        BY <2>2, <2>4
    <2>6. v \in pos .. BlockEnd - 1
        BY <1>2, <2>5, Constants DEF Vector
    <2>7. CASE f = Cid
        BY <1>1, <2>1, <2>7 DEF WriterOK, PositionOK, Encoding
    <2>8. CASE f = BucketFile(v)
        BY <1>4, <1>9, <2>1, <2>6, <2>8, EmptyFile
    <2>9. CASE f = ShardFile(v)
        BY <2>9 DEF ShardFile
    <2> QED BY <2>5, <2>7, <2>8, <2>9 DEF InFile
<1> QED BY <1>5, <1>7, <1>8, <1>9 DEF r

LEMMA EncodeBlockKeeps ==
    ASSUME IInv, EncodeBlock
    PROVE  IInv'
<1> USE DEF IInv
<1> DEFINE s == ShardOf(pos)
           e == BlockEnd
<1>1. /\ pc = "encode" /\ pos < N /\ shard' = s /\ pos' = e
      /\ pc' = IF o.ckpt THEN "flush" ELSE "encode"
      /\ UNCHANGED <<o, runs, resume, meta, hash, ckpt, at, rebuilt, built,
                     off, ids, listMeta, list, raw, listHash, orphaned, tainted>>
    BY DEF EncodeBlock, run, ivf, baseList, history, ShardOf
<1>2. /\ disk' = [f \in File |-> disk'[f]] /\ buf' = [f \in File |-> buf'[f]]
    BY DEF EncodeBlock
<1>3. pos \in Nat /\ pos % BlockSize = 0 /\ resume <= pos
    BY <1>1, ShardSwitch
<1>4. /\ e \in 0 .. N /\ e \in Nat /\ pos < e /\ (e % BlockSize = 0 \/ e = N)
      /\ s \in Shard /\ s \in Nat /\ ShardOf(e - 1) = s /\ pos \in 0 .. N /\ pos <= e
    BY <1>1, <1>3, BlockIs, Constants DEF Shard
<1>5. ~rebuilt /\ PositionOK /\ resume \in {-1} \cup Nat /\ shard \in {-1} \cup Shard
    BY <1>1, Constants DEF WriterOK, Early, Encoding, TypeOK
<1>6. ckpt # None => o.ckpt /\ ckpt.next = pos
    BY <1>1 DEF CkptOK, Encoding
<1>7. PICK g \in File : g = ShardFile(pos) /\ g = <<"shard", s>>
    <2>1. ShardFile(pos) \in File /\ ShardFile(pos) = <<"shard", s>>
        BY <1>4, Files DEF ShardOf, ShardFile
    <2> QED BY <2>1
<1>8. /\ g \in File /\ disk'[g] \in Seq(Vector \cup {Hole}) /\ disk'[g] # None
      /\ buf'[g] \in Seq(Vector)
      /\ ~orphaned => Content(g)' = Content(g) /\ buf'[g] = buf[g] \o Records(g, pos, e)
    BY <1>7, BlockShard
<1>9. ASSUME NEW t \in Shard, t # s
      PROVE  /\ <<"shard", t>> \in File
             /\ disk'[<<"shard", t>>] \in Seq(Vector \cup {Hole}) \cup {None}
             /\ disk'[<<"shard", t>>] = None <=> disk[<<"shard", t>>] = None
             /\ buf'[<<"shard", t>>] = <<>>
             /\ Content(<<"shard", t>>)' = Content(<<"shard", t>>) \o buf[<<"shard", t>>]
             /\ Count(<<"shard", t>>, e) = Count(<<"shard", t>>, pos)
    BY <1>9, OtherShard
<1>10. ASSUME NEW f \in File, f[1] # "shard"
       PROVE  /\ disk'[f] \in Seq(Vector \cup {Hole}) \cup {None}
              /\ disk[f] # None => disk'[f] = disk[f]
              /\ buf'[f] = buf[f] \o Records(f, pos, e)
              /\ buf'[f] # <<>> => disk'[f] # None
              /\ Content(f)' = Content(f)
    BY <1>10, BlockOthers
<1> HIDE DEF s, e
<1>11. ASSUME NEW f \in File
       PROVE  \/ f[1] # "shard" \/ f = g \/ \E t \in Shard : t # s /\ f = <<"shard", t>>
    BY <1>7, Files
\* What is in a file, file by file.
<1>12. ASSUME NEW f \in File
       PROVE  /\ Content(f) \in Seq(Vector \cup {Hole}) /\ Len(Content(f)) \in Nat
              /\ buf[f] \in Seq(Vector) /\ buf[f] \in Seq(Vector \cup {Hole})
              /\ Len(buf[f]) \in Nat
              /\ (f[1] = "shard" => ~orphaned) => Len(Content(f)) + Len(buf[f]) = Count(f, pos)
              /\ ~orphaned => Continues(f, 0, Content(f)) /\ Continues(f, Len(Content(f)), buf[f])
    BY <1>1, FileTypes DEF LengthOK, RecordsOK, Encoding
<1>13. ASSUME NEW f \in File,
              Len(Content(f)) + Len(buf[f]) = Count(f, pos),
              Content(f)' = Content(f), buf'[f] = buf[f] \o Records(f, pos, e)
       PROVE  /\ buf'[f] \in Seq(Vector) /\ Len(Content(f)') + Len(buf'[f]) = Count(f, e)
              /\ Len(Content(f)) <= Len(Content(f)')
              /\ ~orphaned => Continues(f, 0, Content(f)') /\ Continues(f, Len(Content(f)'), buf'[f])
    <2>1. /\ buf[f] \o Records(f, pos, e) \in Seq(Vector)
          /\ Len(Content(f)) + Len(buf[f] \o Records(f, pos, e)) = Count(f, e)
          /\ Continues(f, Len(Content(f)), buf[f]) =>
                 Continues(f, Len(Content(f)), buf[f] \o Records(f, pos, e))
        BY <1>4, <1>12, <1>13, Appended
    <2> QED BY <1>12, <1>13, <2>1
<1>14. ASSUME NEW f \in File
       PROVE  /\ disk'[f] \in Seq(Vector \cup {Hole}) \cup {None}
              /\ buf'[f] \in Seq(Vector)
              /\ disk[f] # None => disk'[f] # None
              /\ buf'[f] # <<>> => disk'[f] # None
              /\ (f[1] = "shard" => ~orphaned) =>
                    /\ Len(Content(f)') + Len(buf'[f]) = Count(f, e)
                    /\ Len(Content(f)) <= Len(Content(f)')
              /\ ~orphaned => Continues(f, 0, Content(f)') /\ Continues(f, Len(Content(f)'), buf'[f])
    <2>1. CASE f[1] # "shard"
        BY <1>10, <1>12, <1>13, <2>1
    <2>2. CASE f = g
        <3>1. f[1] = "shard"
            BY <1>7, <2>2
        <3>2. ASSUME ~orphaned
              PROVE  /\ Len(Content(f)') + Len(buf'[f]) = Count(f, e)
                     /\ Len(Content(f)) <= Len(Content(f)')
                     /\ Continues(f, 0, Content(f)') /\ Continues(f, Len(Content(f)'), buf'[f])
            <4>1. Content(f)' = Content(f) /\ buf'[f] = buf[f] \o Records(f, pos, e)
                BY <1>8, <2>2, <3>2
            <4> QED BY <1>12, <1>13, <3>2, <4>1
        <3> QED BY <1>8, <2>2, <3>1, <3>2
    <2>3. ASSUME NEW t \in Shard, t # s, f = <<"shard", t>>
          PROVE  /\ disk'[f] \in Seq(Vector \cup {Hole}) \cup {None}
                 /\ disk'[f] = None <=> disk[f] = None
                 /\ buf'[f] = <<>> /\ Content(f)' = Content(f) \o buf[f]
                 /\ Count(f, e) = Count(f, pos)
        BY <1>9, <2>3
    <2>4. CASE \E t \in Shard : t # s /\ f = <<"shard", t>>
        <3>1. /\ disk'[f] \in Seq(Vector \cup {Hole}) \cup {None}
              /\ disk'[f] = None <=> disk[f] = None
              /\ buf'[f] = <<>> /\ Content(f)' = Content(f) \o buf[f]
              /\ Count(f, e) = Count(f, pos)
            BY <2>3, <2>4
        <3>2. f[1] = "shard"
            BY <2>4
        <3>3. Len(Content(f) \o buf[f]) = Len(Content(f)) + Len(buf[f]) /\ Len(<<>>) = 0
            BY <1>12, ConcatAt
        <3>4. ASSUME ~orphaned
              PROVE  /\ Len(Content(f)') + Len(buf'[f]) = Count(f, e)
                     /\ Len(Content(f)) <= Len(Content(f)')
            <4>1. Len(Content(f)) + Len(buf[f]) = Count(f, pos)
                BY <1>12, <3>4
            <4>2. Len(Content(f)') = Len(Content(f)) + Len(buf[f]) /\ Len(buf'[f]) = 0
                BY <3>1, <3>3
            <4> QED BY <1>12, <3>1, <4>1, <4>2
        <3>5. ASSUME ~orphaned
              PROVE  Continues(f, 0, Content(f)') /\ Continues(f, Len(Content(f)'), buf'[f])
            <4>1. 0 + Len(Content(f)) = Len(Content(f)) /\ 0 \in Nat
                BY <1>12
            <4>2. Continues(f, 0, Content(f) \o buf[f])
                BY <1>12, <3>5, <4>1, ContinuesConcat
            <4> QED BY <3>1, <4>2, ContinuesEmpty
        <3>6. <<>> \in Seq(Vector)
            OBVIOUS
        <3> QED BY <3>1, <3>2, <3>4, <3>5, <3>6
    <2> QED BY <1>11, <2>1, <2>2, <2>4
<1>15. TypeOK'
    <2>1. /\ disk' \in [File -> Seq(Vector \cup {Hole}) \cup {None}]
          /\ buf' \in [File -> Seq(Vector)]
        BY <1>2, <1>14
    <2> QED BY <1>1, <1>4, <2>1 DEF TypeOK, Control
<1>16. BufferOK'
    <2>1. \A t \in Shard : t # s => buf'[<<"shard", t>>] = <<>>
        BY <1>9
    <2> QED BY <1>1, <1>14, <2>1 DEF BufferOK
<1>17. WriterOK'
    <2>1. resume < e /\ 0 < e /\ s # -1
        BY <1>3, <1>4, <1>5
    <2>2. disk'[Cid] # None
        BY <1>5, <1>14, Files DEF PositionOK
    <2>3. PositionOK'
        BY <1>1, <1>4, <1>7, <1>8, <2>1, <2>2 DEF PositionOK, ShardOf
    <2> QED BY <1>1, <1>5, <2>3 DEF WriterOK, Early, Encoding
<1>18. SavedOK'
    <2>1. ASSUME NEW t \in Shard, ckpt # None, t > ShardOf(ckpt.next)
          PROVE  Content(<<"shard", t>>)' = <<>> /\ buf'[<<"shard", t>>] = <<>>
        <3>1. t # s /\ s = ShardOf(ckpt.next)
            BY <1>4, <1>6, <2>1 DEF s, Shard
        <3>2. Content(<<"shard", t>>) = <<>> /\ buf[<<"shard", t>>] = <<>>
            BY <2>1 DEF SavedOK
        <3>3. <<>> \o <<>> = <<>>
            OBVIOUS
        <3> QED BY <1>9, <3>1, <3>2, <3>3
    <2> QED BY <1>1, <2>1 DEF SavedOK, ShardOf
<1>19. CkptOK'
    BY <1>1, <1>4, <1>6 DEF CkptOK, Encoding, s, ShardOf
<1>20. RecordsOK'
    BY <1>1, <1>14 DEF RecordsOK
<1>21. LengthOK'
    <2>1. \A f \in File : (f[1] = "shard" => ~orphaned) =>
              Len(Content(f)') + Len(buf'[f]) = Count(f, e)
        BY <1>14
    <2>2. ASSUME ckpt # None, ~orphaned, NEW f \in File
          PROVE  Count(f, ckpt.next) <= Len(Content(f)')
        <3>1. ckpt.next \in Nat /\ ckpt.next # N /\ Count(f, ckpt.next) \in Nat
            BY <1>1, <1>3, <1>6, <2>2, CountNat, Constants
        <3>2. Count(f, ckpt.next) <= Len(Content(f))
            BY <2>2, <3>1 DEF LengthOK
        <3>3. Len(Content(f)) <= Len(Content(f)') /\ Len(Content(f)) \in Nat
            BY <1>12, <1>14, <2>2
        <3>4. Content(f)' \in Seq(Vector \cup {Hole})
            BY <1>14, EmptyFile DEF Content
        <3>5. Len(Content(f)') \in Nat
            BY <3>4
        <3> QED BY <3>1, <3>2, <3>3, <3>5
    <2> QED BY <1>1, <1>5, <2>1, <2>2 DEF LengthOK
<1>22. IvfOK' /\ ListOK'
    BY <1>1, ListFrame DEF Early, Encoding, ListOK, AfterUse
<1> QED BY <1>15, <1>16, <1>17, <1>18, <1>19, <1>20, <1>21, <1>22

-----------------------------------------------------------------------------
(* A kill                                                                  *)

\* Of every file's share a prefix is kept.
LEMMA KilledFile ==
    ASSUME TypeOK, BufferOK, NEW f \in File, NEW k \in Nat, k <= Len(buf[f]), buf[f] # <<>>,
           disk'[f] = disk[f] \o SubSeq(buf[f], 1, k)
    PROVE  /\ disk'[f] \in Seq(Vector \cup {Hole}) /\ disk'[f] # None
           /\ Len(Content(f)) <= Len(Content(f)')
           /\ Continues(f, 0, Content(f)) /\ Continues(f, Len(Content(f)), buf[f]) =>
                  Continues(f, 0, Content(f)')
<1> DEFINE b == SubSeq(buf[f], 1, k)
           c == Content(f)
<1>1. /\ c \in Seq(Vector \cup {Hole}) /\ Len(c) \in Nat /\ disk[f] = c
      /\ buf[f] \in Seq(Vector) /\ Len(buf[f]) \in Nat
    BY FileTypes DEF BufferOK
<1>2. /\ b \in Seq(Vector \cup {Hole}) /\ Len(b) = k /\ b \in Seq(Vector)
      /\ \A i \in 1 .. k : b[i] = buf[f][i]
    <2>1. b = [i \in 1 .. k |-> buf[f][i]]
        BY <1>1
    <2>2. \A i \in 1 .. k : buf[f][i] \in Vector
        BY <1>1
    <2> HIDE DEF b
    <2>3. b \in [1 .. k -> Vector]
        BY <2>1, <2>2
    <2>4. b \in Seq(Vector) /\ Len(b) = k
        BY <2>3
    <2> QED BY <2>1, <2>4
<1> HIDE DEF b
<1>3. disk'[f] = c \o b
    BY <1>1 DEF b
<1> HIDE DEF c
<1>4. c \o b \in Seq(Vector \cup {Hole}) /\ Len(c \o b) = Len(c) + k /\ c \o b # None
    BY <1>1, <1>2, ConcatAt, SeqNotNone
<1>5. Content(f)' = c \o b
    BY <1>3, <1>4 DEF Content
<1>6. ASSUME Continues(f, 0, c), Continues(f, Len(c), buf[f])
      PROVE  Continues(f, 0, c \o b)
    <2>1. Continues(f, Len(c), b)
        BY <1>1, <1>2, <1>6, ContinuesPrefix
    <2>2. 0 + Len(c) = Len(c) /\ 0 \in Nat
        BY <1>1
    <2> QED BY <1>1, <1>2, <1>6, <2>1, <2>2, ContinuesConcat
<1>7. Len(c) <= Len(c) + k
    BY <1>1
<1> QED BY <1>3, <1>4, <1>5, <1>6, <1>7 DEF c

LEMMA CrashKeeps ==
    ASSUME IInv, Crash
    PROVE  IInv'
<1> USE DEF IInv
<1>1. /\ pc' = "idle" /\ buf' = NoBuf
      /\ UNCHANGED <<o, runs, resume, shard, pos, meta, hash, ckpt, at, rebuilt, built,
                     off, ids, listMeta, list, raw, listHash, orphaned, tainted>>
    BY DEF Crash, run, ivf, baseList, history
<1>2. PICK k \in [{f \in File : buf[f] # <<>>} -> 0 .. N] :
          /\ \A f \in DOMAIN k : k[f] <= Len(buf[f])
          /\ disk' = [f \in File |-> IF f \in DOMAIN k
                         THEN disk[f] \o SubSeq(buf[f], 1, k[f]) ELSE disk[f]]
    BY DEF Crash
<1>3. DOMAIN k = {f \in File : buf[f] # <<>>}
    OBVIOUS
<1>4. ASSUME NEW f \in File, buf[f] = <<>>
      PROVE  disk'[f] = disk[f] /\ Content(f)' = Content(f)
    <2>1. disk'[f] = disk[f]
        BY <1>2, <1>3, <1>4
    <2> QED BY <2>1 DEF Content
<1>5. ASSUME NEW f \in File, buf[f] # <<>>
      PROVE  /\ disk'[f] \in Seq(Vector \cup {Hole}) /\ disk'[f] # None
             /\ Len(Content(f)) <= Len(Content(f)')
             /\ Continues(f, 0, Content(f)) /\ Continues(f, Len(Content(f)), buf[f]) =>
                    Continues(f, 0, Content(f)')
    <2>1. k[f] \in Nat /\ k[f] <= Len(buf[f]) /\ disk'[f] = disk[f] \o SubSeq(buf[f], 1, k[f])
        <3>1. f \in DOMAIN k
            BY <1>3, <1>5
        <3>2. k[f] \in 0 .. N
            BY <1>3, <3>1
        <3>3. k[f] \in Nat
            BY <3>2
        <3>4. k[f] <= Len(buf[f]) /\ disk'[f] = disk[f] \o SubSeq(buf[f], 1, k[f])
            BY <1>2, <3>1, Zenon
        <3> QED BY <3>3, <3>4
    <2> QED BY <1>5, <2>1, KilledFile
<1>6. ASSUME NEW f \in File
      PROVE  /\ disk'[f] \in Seq(Vector \cup {Hole}) \cup {None} /\ buf'[f] = <<>>
             /\ Len(Content(f)) <= Len(Content(f)')
             /\ Continues(f, 0, Content(f)) /\ Continues(f, Len(Content(f)), buf[f]) =>
                    Continues(f, 0, Content(f)')
    <2>1. buf'[f] = <<>>
        BY <1>1, FreshFiles
    <2>2. CASE buf[f] # <<>>
        BY <1>5, <2>1, <2>2
    <2>3. CASE buf[f] = <<>>
        <3>1. disk[f] \in Seq(Vector \cup {Hole}) \cup {None} /\ Len(Content(f)) \in Nat
            BY FileTypes DEF TypeOK
        <3> QED BY <1>4, <2>1, <2>3, <3>1
    <2> QED BY <2>2, <2>3
<1>7. TypeOK'
    <2>1. disk' \in [File -> Seq(Vector \cup {Hole}) \cup {None}]
        <3>1. disk' = [f \in File |-> disk'[f]]
            BY <1>2
        <3> QED BY <1>6, <3>1
    <2>2. buf' \in [File -> Seq(Vector)]
        BY <1>1 DEF NoBuf
    <2> QED BY <1>1, <2>1, <2>2 DEF TypeOK, Control
<1>8. BufferOK' /\ WriterOK'
    BY <1>1, <1>6, Files DEF BufferOK, WriterOK, Early, Encoding
<1>9. SavedOK'
    BY <1>1, <1>4, <1>6, Files DEF SavedOK
<1>10. CkptOK'
    BY <1>1 DEF CkptOK, Encoding
<1>11. RecordsOK'
    BY <1>1, <1>6, ContinuesEmpty DEF RecordsOK
<1>12. LengthOK'
    <2>1. ASSUME ckpt # None, ~orphaned, NEW f \in File
          PROVE  \/ Count(f, ckpt.next) <= Len(Content(f)')
                 \/ disk'[f] = None /\ ckpt.next = N
        <3>1. CASE Count(f, ckpt.next) <= Len(Content(f))
            <4>1. Count(f, ckpt.next) \in Nat /\ Len(Content(f)) \in Nat
                BY <2>1, CkptTypes, CountNat, FileTypes
            <4>2. Content(f)' \in Seq(Vector \cup {Hole})
                BY <1>6, EmptyFile DEF Content
            <4>3. Len(Content(f)') \in Nat
                BY <4>2
            <4> QED BY <1>6, <3>1, <4>1, <4>3
        <3>2. CASE disk[f] = None /\ ckpt.next = N
            BY <1>4, <3>2 DEF BufferOK
        <3> QED BY <2>1, <3>1, <3>2 DEF LengthOK
    <2> QED BY <1>1, <2>1 DEF LengthOK, Encoding, AfterUse
<1>13. IvfOK'
    BY <1>1 DEF IvfOK, OffsetsOfAllVectors, Listing
<1>14. ListOK'
    BY <1>1 DEF ListOK, ListHashTruthful, ListComplete, Listing, AfterUse
<1> QED BY <1>7, <1>8, <1>9, <1>10, <1>11, <1>12, <1>13, <1>14

-----------------------------------------------------------------------------
(* The IVF lists                                                           *)

\* One set is mapped into another without joining two elements.
LEMMA OneToOne ==
    ASSUME NEW S, NEW T, IsFiniteSet(T), NEW F \in [S -> T],
           \A x, y \in S : F[x] = F[y] => x = y
    PROVE  /\ IsFiniteSet(S) /\ Cardinality(S) <= Cardinality(T)
           /\ (\A t \in T : \E x \in S : F[x] = t) <=> Cardinality(S) = Cardinality(T)
<1>1. F \in Injection(S, T)
    BY DEF Injection, IsInjective
<1>2. F \in Surjection(S, T) <=> \A t \in T : \E x \in S : F[x] = t
    BY DEF Surjection
<1> QED BY <1>1, <1>2, FS_Injection

\* A complete cluster_id.u32 has the vectors in order.
LEMMA IdsInOrder ==
    ASSUME TypeOK, RecordsOK, ~orphaned, disk[Cid] # None, Len(disk[Cid]) = N,
           NEW i \in 1 .. N
    PROVE  disk[Cid][i] = i - 1
<1>1. Cid \in File /\ N \in Nat
    BY Files, Constants
<1>2. Continues(Cid, 0, disk[Cid])
    BY <1>1 DEF RecordsOK, Content
<1>3. disk[Cid][i] \in Vector /\ Count(Cid, disk[Cid][i]) = 0 + i - 1
    BY <1>2 DEF Continues
<1>4. disk[Cid][i] \in 0 .. N
    BY <1>1, <1>3 DEF Vector
<1>5. Count(Cid, disk[Cid][i]) = disk[Cid][i]
    BY <1>4, CidCount
<1> QED BY <1>3, <1>5

\* The offsets count what the file holds; from a complete one, all vectors.
LEMMA OffsetsAre ==
    ASSUME TypeOK, disk[Cid] # None, Len(disk[Cid]) = N
    PROVE  /\ Offsets(disk[Cid]) \in [0 .. NList -> 0 .. N]
           /\ RecordsOK /\ ~orphaned =>
                Offsets(disk[Cid]) = [c \in 0 .. NList |-> Cardinality({v \in Vector : Cluster[v] < c})]
<1>1. N \in Nat /\ IsFiniteSet(1 .. N) /\ Cardinality(1 .. N) = N
    BY Constants, FS_Interval
<1> DEFINE of(c) == {i \in 1 .. Len(disk[Cid]) : ClusterOf(disk[Cid][i]) < c}
           below(c) == {v \in Vector : Cluster[v] < c}
<1>2. Offsets(disk[Cid]) = [c \in 0 .. NList |-> Cardinality(of(c))]
    BY DEF Offsets
<1>3. ASSUME NEW c \in 0 .. NList
      PROVE  IsFiniteSet(of(c)) /\ Cardinality(of(c)) \in 0 .. N
    <2>1. of(c) \in SUBSET (1 .. N)
        OBVIOUS
    <2> HIDE DEF of
    <2>2. IsFiniteSet(of(c)) /\ Cardinality(of(c)) <= N /\ Cardinality(of(c)) \in Nat
        BY <1>1, <2>1, FS_Subset, FS_CardinalityType
    <2> QED BY <1>1, <2>2
<1>4. ASSUME RecordsOK, ~orphaned, NEW c \in 0 .. NList
      PROVE  Cardinality(of(c)) = Cardinality(below(c))
    <2> DEFINE F == [v \in below(c) |-> v + 1]
    <2>1. \A i \in 1 .. N : disk[Cid][i] = i - 1 /\ i - 1 \in Vector /\ i - 1 # Hole
        BY <1>1, <1>4, IdsInOrder DEF Vector, Hole
    <2>2. \A v \in below(c) : v + 1 \in of(c)
        <3> SUFFICES ASSUME NEW v \in Vector, Cluster[v] < c PROVE v + 1 \in of(c)
            OBVIOUS
        <3>1. v + 1 \in 1 .. N /\ (v + 1) - 1 = v
            BY <1>1 DEF Vector
        <3>2. ClusterOf(disk[Cid][v + 1]) = Cluster[v]
            BY <2>1, <3>1 DEF ClusterOf
        <3> QED BY <3>1, <3>2
    <2>3. \A i \in of(c) : i - 1 \in below(c) /\ F[i - 1] = i
        <3> SUFFICES ASSUME NEW i \in 1 .. N, ClusterOf(disk[Cid][i]) < c
                     PROVE  i - 1 \in below(c) /\ (i - 1) + 1 = i
            BY DEF F
        <3>1. ClusterOf(disk[Cid][i]) = Cluster[i - 1]
            BY <2>1 DEF ClusterOf
        <3> QED BY <2>1, <3>1
    <2>4. \A v \in below(c) : v \in Nat /\ F[v] = v + 1
        BY DEF Vector
    <2>5. F \in [below(c) -> of(c)]
        BY <2>2
    <2> HIDE DEF F, of, below
    <2>6. \A x, y \in below(c) : F[x] = F[y] => x = y
        BY <2>4
    <2>7. \A i \in of(c) : \E v \in below(c) : F[v] = i
        BY <2>3
    <2> QED BY <1>3, <2>5, <2>6, <2>7, OneToOne
<1> HIDE DEF of, below
<1>5. Offsets(disk[Cid]) \in [0 .. NList -> 0 .. N]
    BY <1>2, <1>3
<1>6. ASSUME RecordsOK, ~orphaned
      PROVE  Offsets(disk[Cid]) = [c \in 0 .. NList |-> Cardinality(below(c))]
    BY <1>2, <1>4, <1>6
<1> QED BY <1>5, <1>6 DEF below

\* The steps of the IVF stage leave base_list alone.
LEMMA IvfFrame ==
    ASSUME IInv, pc \in {"ivf", "offsets", "truncids", "ids"},
           pc' \in {"idle", "offsets", "truncids", "ids", "list"},
           UNCHANGED <<disk, buf, ckpt, resume, shard, pos, orphaned, rebuilt, built,
                       listMeta, list, raw, listHash, tainted>>
    PROVE  /\ BufferOK' /\ WriterOK' /\ SavedOK' /\ CkptOK' /\ RecordsOK' /\ LengthOK'
           /\ ListOK'
<1>1. BufferOK' /\ WriterOK' /\ SavedOK' /\ CkptOK' /\ RecordsOK' /\ LengthOK'
    BY BasicFrame DEF Early, Encoding, AfterUse
<1>2. ListOK'
    BY DEF IInv, ListOK, ListHashTruthful, ListComplete, Listing, AfterUse
<1> QED BY <1>1, <1>2

LEMMA StartIvfKeeps ==
    ASSUME IInv, StartIvf
    PROVE  IInv'
<1> USE DEF IInv
<1>1. /\ pc = "ivf" /\ pc' \in {"idle", "list", "offsets"}
      /\ pc' = "list" => IvfUsable /\ off' = off
      /\ pc' = "idle" => off' = off
      /\ pc' = "offsets" => HasAllIds /\ off' = Torn
      /\ UNCHANGED <<o, runs, disk, buf, resume, shard, pos, meta, hash, ckpt, at, rebuilt,
                     built, ids, listMeta, list, raw, listHash, orphaned, tainted>>
    BY DEF StartIvf, Fails, run, writer, basic, baseList, history
<1>2. BufferOK' /\ WriterOK' /\ SavedOK' /\ CkptOK' /\ RecordsOK' /\ LengthOK' /\ ListOK'
    BY <1>1, IvfFrame
<1>3. TypeOK'
    BY <1>1 DEF TypeOK, Control
<1>4. IvfOK'
    BY <1>1 DEF IvfOK, OffsetsOfAllVectors, IvfUsable, HasAllIds, Listing
<1> QED BY <1>2, <1>3, <1>4

LEMMA WriteOffsetsKeeps ==
    ASSUME IInv, WriteOffsets
    PROVE  IInv'
<1> USE DEF IInv
<1>1. /\ pc = "offsets" /\ pc' = "truncids" /\ off' = Offsets(disk[Cid])
      /\ UNCHANGED <<o, runs, disk, buf, resume, shard, pos, meta, hash, ckpt, at, rebuilt,
                     built, ids, listMeta, list, raw, listHash, orphaned, tainted>>
    BY DEF WriteOffsets, run, writer, basic, baseList, history
<1>2. BufferOK' /\ WriterOK' /\ SavedOK' /\ CkptOK' /\ RecordsOK' /\ LengthOK' /\ ListOK'
    BY <1>1, IvfFrame
<1>3. disk[Cid] # None /\ Len(disk[Cid]) = N
    BY <1>1 DEF IvfOK
<1>4. /\ off' \in [0 .. NList -> 0 .. N] /\ off' \notin {None, Torn}
      /\ ~orphaned => off' = [c \in 0 .. NList |-> Cardinality({v \in Vector : Cluster[v] < c})]
    <2>1. off' \in [0 .. NList -> 0 .. N]
        BY <1>1, <1>3, OffsetsAre
    <2>2. off' \notin {None, Torn}
        BY <2>1, NoneAssumption
    <2> QED BY <1>1, <1>3, <2>1, <2>2, OffsetsAre
<1>5. TypeOK'
    BY <1>1, <1>4 DEF TypeOK, Control
<1>6. IvfOK'
    BY <1>1, <1>4 DEF IvfOK, OffsetsOfAllVectors, Listing
<1> QED BY <1>2, <1>5, <1>6

LEMMA TruncIdsKeeps ==
    ASSUME IInv, TruncIds
    PROVE  IInv'
<1> USE DEF IInv
<1>1. /\ pc = "truncids" /\ pc' = "ids" /\ ids' = 0
      /\ UNCHANGED <<o, runs, disk, buf, resume, shard, pos, meta, hash, ckpt, at, rebuilt,
                     built, off, listMeta, list, raw, listHash, orphaned, tainted>>
    BY DEF TruncIds, run, writer, basic, baseList, history
<1>2. BufferOK' /\ WriterOK' /\ SavedOK' /\ CkptOK' /\ RecordsOK' /\ LengthOK' /\ ListOK'
    BY <1>1, IvfFrame
<1>3. ids' \in 0 .. N
    BY <1>1, Constants
<1>4. TypeOK'
    BY <1>1, <1>3 DEF TypeOK, Control
<1>5. IvfOK'
    BY <1>1, <1>3 DEF IvfOK, OffsetsOfAllVectors, Listing
<1> QED BY <1>2, <1>4, <1>5

LEMMA WriteIdsKeeps ==
    ASSUME IInv, WriteIds
    PROVE  IInv'
<1> USE DEF IInv
<1>1. /\ pc = "ids" /\ pc' = (IF ids' = N THEN "list" ELSE "ids") /\ ids' \in ids + 1 .. N
      /\ UNCHANGED <<o, runs, disk, buf, resume, shard, pos, meta, hash, ckpt, at, rebuilt,
                     built, off, listMeta, list, raw, listHash, orphaned, tainted>>
    BY DEF WriteIds, run, writer, basic, baseList, history
<1>2. BufferOK' /\ WriterOK' /\ SavedOK' /\ CkptOK' /\ RecordsOK' /\ LengthOK' /\ ListOK'
    BY <1>1, IvfFrame
<1>3. ids' \in 0 .. N
    BY <1>1, Constants DEF IvfOK
<1>4. TypeOK'
    BY <1>1, <1>3 DEF TypeOK, Control
<1>5. IvfOK'
    BY <1>1, <1>3 DEF IvfOK, OffsetsOfAllVectors, Listing
<1> QED BY <1>2, <1>4, <1>5

-----------------------------------------------------------------------------
(* base_list: slots                                                        *)

Below(c) == {v \in Vector : Cluster[v] < c}
In(c) == {v \in Vector : Cluster[v] = c}
Before(v) == {w \in Vector : Cluster[w] < Cluster[v] \/ (Cluster[w] = Cluster[v] /\ w < v)}

LEMMA ClusterTypes ==
    ASSUME NEW c
    PROVE  /\ N \in Nat /\ Vector \in SUBSET Nat /\ IsFiniteSet(Vector) /\ Cardinality(Vector) = N
           /\ Below(c) \in SUBSET Vector /\ IsFiniteSet(Below(c)) /\ Cardinality(Below(c)) \in Nat
           /\ In(c) \in SUBSET Vector /\ In(c) \in SUBSET (0 .. N - 1) /\ In(c) \in SUBSET Nat
           /\ IsFiniteSet(In(c)) /\ Cardinality(In(c)) \in Nat
           /\ \A v \in Vector : Cluster[v] \in 0 .. NList - 1 /\ Cluster[v] \in Nat
<1>1. N \in Nat /\ Vector = 0 .. N - 1 /\ \A v \in Vector : v \in Nat
    BY Constants DEF Vector
<1>2. IsFiniteSet(Vector) /\ Cardinality(Vector) = N
    BY <1>1, FS_Interval
<1>3. Below(c) \in SUBSET Vector /\ In(c) \in SUBSET Vector
    BY DEF Below, In
<1>4. IsFiniteSet(Below(c)) /\ IsFiniteSet(In(c))
    BY <1>2, <1>3, FS_Subset
<1>5. \A v \in In(c) : v \in Nat
    BY <1>1, <1>3
<1> QED BY <1>1, <1>2, <1>3, <1>4, <1>5, FS_CardinalityType, Constants

\* The slots of a cluster follow those of the clusters below it, in order.
LEMMA SlotIs ==
    ASSUME NEW v \in Vector
    PROVE  /\ SlotOf(v) = Cardinality(Below(Cluster[v])) + Rank(In(Cluster[v]), v)
           /\ SlotOf(v) = Cardinality(Before(v)) /\ IsFiniteSet(Before(v)) /\ SlotOf(v) \in Nat
<1> DEFINE B == Below(Cluster[v])
           I == {w \in In(Cluster[v]) : w < v}
<1>1. Before(v) = B \cup I
    BY DEF Before, Below, In
<1>2. B \cap I = {}
    <2>1. \A w \in Vector : ~(Cluster[w] < Cluster[v] /\ Cluster[w] = Cluster[v])
        BY ClusterTypes
    <2> QED BY <2>1 DEF Below, In
<1>3. IsFiniteSet(B) /\ IsFiniteSet(I) /\ Cardinality(B) \in Nat /\ Cardinality(I) \in Nat
    <2>1. I \in SUBSET In(Cluster[v])
        OBVIOUS
    <2> QED BY <2>1, ClusterTypes, FS_Subset, FS_CardinalityType
<1> HIDE DEF B, I
<1>4. Cardinality(B \cap I) = 0
    BY <1>2, FS_EmptySet
<1>5. IsFiniteSet(B \cup I) /\ Cardinality(B \cup I) = Cardinality(B) + Cardinality(I)
    <2>1. /\ IsFiniteSet(B \cup I)
          /\ Cardinality(B \cup I) = Cardinality(B) + Cardinality(I) - Cardinality(B \cap I)
        BY <1>3, FS_Union, Zenon
    <2> QED BY <1>3, <1>4, <2>1
<1>6. SlotOf(v) = Cardinality(Before(v))
    BY DEF SlotOf, Before
<1> QED BY <1>1, <1>3, <1>5, <1>6 DEF B, I, Rank

\* Each vector has a slot of its own in base_list.
LEMMA SlotInList ==
    ASSUME NEW v \in Vector
    PROVE  SlotOf(v) \in Vector
<1>1. Before(v) \in SUBSET (Vector \ {v})
    <2>1. \A w \in Before(v) : w \in Vector /\ w # v
        BY ClusterTypes DEF Before
    <2> QED BY <2>1
<1>2. IsFiniteSet(Vector \ {v}) /\ Cardinality(Vector \ {v}) = N - 1
    BY ClusterTypes, FS_RemoveElement
<1>3. Cardinality(Before(v)) <= N - 1
    BY <1>1, <1>2, FS_Subset
<1> QED BY <1>3, SlotIs, ClusterTypes DEF Vector

LEMMA SlotInjective ==
    ASSUME NEW u \in Vector, NEW v \in Vector, SlotOf(u) = SlotOf(v)
    PROVE  u = v
<1>1. ASSUME NEW x \in Vector, NEW y \in Vector, x \in Before(y)
      PROVE  SlotOf(x) < SlotOf(y)
    <2>1. \A w \in Before(x) \cup {x} : w \in Before(y)
        <3> SUFFICES ASSUME NEW w \in Before(x) PROVE w \in Before(y)
            BY <1>1
        <3> QED BY <1>1, ClusterTypes DEF Before
    <2>2. x \notin Before(x)
        BY ClusterTypes DEF Before
    <2>3. Cardinality(Before(x) \cup {x}) = Cardinality(Before(x)) + 1
        BY <2>2, SlotIs, FS_AddElement
    <2>4. Cardinality(Before(x) \cup {x}) <= Cardinality(Before(y))
        BY <2>1, SlotIs, FS_Subset
    <2> QED BY <2>3, <2>4, SlotIs
<1>2. u = v \/ u \in Before(v) \/ v \in Before(u)
    BY ClusterTypes DEF Before
<1>3. SlotOf(u) \in Nat
    BY SlotIs
<1> QED BY <1>1, <1>2, <1>3

\* The size of a list is the distance of two offsets.
LEMMA BelowNext ==
    ASSUME NEW c \in 0 .. NList - 1
    PROVE  Cardinality(Below(c + 1)) = Cardinality(Below(c)) + Cardinality(In(c))
<1>1. Below(c + 1) = Below(c) \cup In(c)
    <2>1. \A v \in Vector : Cluster[v] < c + 1 <=> Cluster[v] < c \/ Cluster[v] = c
        BY ClusterTypes
    <2> QED BY <2>1 DEF Below, In
<1>2. Below(c) \cap In(c) = {}
    <2>1. \A v \in Vector : ~(Cluster[v] < c /\ Cluster[v] = c)
        BY ClusterTypes
    <2> QED BY <2>1 DEF Below, In
<1>3. Cardinality(Below(c) \cap In(c)) = 0
    BY <1>2, FS_EmptySet
<1>4. Cardinality(Below(c) \cup In(c)) = Cardinality(Below(c)) + Cardinality(In(c)) - 0
    <2>1. IsFiniteSet(Below(c)) /\ IsFiniteSet(In(c))
        BY ClusterTypes
    <2> QED BY <1>3, <2>1, FS_Union, Zenon
<1>5. Cardinality(Below(c)) \in Nat /\ Cardinality(In(c)) \in Nat
    BY ClusterTypes
<1>6. Cardinality(Below(c + 1)) = Cardinality(Below(c)) + Cardinality(In(c)) - 0
    BY <1>1, <1>4, Zenon
<1> QED BY <1>5, <1>6

-----------------------------------------------------------------------------
(* base_list: the records of a cluster                                     *)

\* Where the records of a cluster are in its bucket.
Places(b, c) == {i \in 1 .. Len(Content(<<"bucket", b>>)) :
                     ClusterOf(Content(<<"bucket", b>>)[i]) = c}

LEMMA RecordsOfIs ==
    ASSUME TypeOK, NEW b \in Bucket, NEW c
    PROVE  LET a == Ascending(Places(b, c))
               n == Cardinality(Places(b, c))
               l == Len(Content(<<"bucket", b>>))
           IN  /\ l \in Nat /\ Places(b, c) \in SUBSET (0 .. (l + 1) - 1)
               /\ Places(b, c) \in SUBSET Nat
               /\ IsFiniteSet(Places(b, c)) /\ n \in Nat /\ Len(RecordsOf(b, c)) = n
               /\ \A k \in 1 .. n : /\ RecordsOf(b, c)[k] = Content(<<"bucket", b>>)[a[k]]
                                    /\ RecordsOf(b, c)[k] \in Vector \cup {Hole}
                                    /\ a[k] \in Places(b, c) /\ Rank(Places(b, c), a[k]) = k - 1
<1> DEFINE f == <<"bucket", b>>
           l == Len(Content(f))
           P == Places(b, c)
           a == Ascending(P)
           n == Cardinality(P)
<1>1. f \in File
    BY Files
<1>2. /\ Content(f) \in Seq(Vector \cup {Hole}) /\ l \in Nat
      /\ disk[f] # None => Content(f) = disk[f]
      /\ disk[f] = None => Content(f) = <<>>
    BY <1>1, FileTypes
<1>3. P = IF disk[f] = None THEN {} ELSE {i \in 1 .. Len(disk[f]) : ClusterOf(disk[f][i]) = c}
    <2>1. CASE disk[f] = None
        <3>1. Content(f) = <<>> /\ Len(<<>>) = 0
            BY <1>2, <2>1
        <3>2. \A i \in 1 .. Len(Content(f)) : FALSE
            BY <3>1
        <3> QED BY <2>1, <3>2 DEF Places
    <2>2. CASE disk[f] # None
        BY <1>2, <2>2 DEF Places
    <2> QED BY <2>1, <2>2
<1>4. RecordsOf(b, c) = [k \in 1 .. n |-> disk[f][a[k]]]
    BY <1>3 DEF RecordsOf
<1>5. P \in SUBSET (1 .. l)
    BY DEF Places
<1> HIDE DEF P
<1>6. P \in SUBSET (0 .. (l + 1) - 1) /\ P \in SUBSET Nat /\ l + 1 \in Nat
    <2>1. \A i \in P : i \in 0 .. (l + 1) - 1 /\ i \in Nat
        BY <1>2, <1>5
    <2> QED BY <1>2, <2>1
<1>7. /\ IsFiniteSet(P) /\ n \in Nat
      /\ \A k \in 1 .. n : a[k] \in P /\ Rank(P, a[k]) = k - 1
    BY <1>6, RankFull, AscendingAt
<1>8. P # {} => disk[f] # None
    BY <1>3
<1> HIDE DEF a, n
<1>9. ASSUME NEW k \in 1 .. n
      PROVE  RecordsOf(b, c)[k] = Content(f)[a[k]] /\ RecordsOf(b, c)[k] \in Vector \cup {Hole}
    <2>1. a[k] \in P /\ a[k] \in 1 .. l
        BY <1>5, <1>7
    <2>2. disk[f] = Content(f)
        BY <1>2, <1>8, <2>1
    <2>3. RecordsOf(b, c)[k] = Content(f)[a[k]]
        BY <1>4, <2>2
    <2>4. Content(f)[a[k]] \in Vector \cup {Hole}
        BY <1>2, <2>1
    <2> QED BY <2>3, <2>4
<1>10. Len(RecordsOf(b, c)) = n
    BY <1>4, <1>7
<1> QED BY <1>2, <1>6, <1>7, <1>9, <1>10 DEF P, a, n

\* In a bucket without holes a record has before it, of its cluster, the
\* vectors that are smaller.
LEMMA PlaceRank ==
    ASSUME TypeOK, RecordsOK, ~orphaned, NEW c \in 0 .. NList - 1,
           NEW b \in Bucket, b = c \div BucketSize, NEW i \in Places(b, c)
    PROVE  /\ Content(<<"bucket", b>>)[i] \in In(c)
           /\ Rank(In(c), Content(<<"bucket", b>>)[i]) = Rank(Places(b, c), i)
<1> DEFINE f == <<"bucket", b>>
           P == Places(b, c)
           l == Len(Content(f))
           S == {j \in P : j < i}
           T == {w \in In(c) : w < Content(f)[i]}
<1>1. f \in File /\ Continues(f, 0, Content(f))
    BY Files DEF RecordsOK
<1>2. /\ l \in Nat /\ P \in SUBSET Nat /\ IsFiniteSet(P)
    BY RecordsOfIs
<1>3. ASSUME NEW j \in 1 .. l
      PROVE  /\ Content(f)[j] \in Vector /\ Content(f)[j] \in VectorsOf(f)
             /\ Count(f, Content(f)[j]) = j - 1 /\ Content(f)[j] \in Nat
             /\ ClusterOf(Content(f)[j]) = Cluster[Content(f)[j]]
    <2>1. /\ Content(f)[j] \in Vector /\ InFile(f, Content(f)[j])
          /\ Count(f, Content(f)[j]) = 0 + j - 1
        BY <1>1 DEF Continues
    <2>2. Content(f)[j] \in Nat
        BY <2>1 DEF Vector
    <2> QED BY <2>1, <2>2 DEF VectorsOf, ClusterOf, Hole
<1>4. ASSUME NEW j \in P
      PROVE  j \in 1 .. l /\ Content(f)[j] \in In(c)
    <2>1. j \in 1 .. l /\ ClusterOf(Content(f)[j]) = c
        BY DEF Places
    <2> QED BY <1>3, <2>1 DEF In
<1>5. ASSUME NEW j \in 1 .. l, Content(f)[j] \in In(c)
      PROVE  j \in P
    BY <1>3, <1>5 DEF Places, In
<1>6. ASSUME NEW w \in In(c)
      PROVE  w \in VectorsOf(f) /\ w \in Nat
    <2>1. w \in Vector /\ BucketFile(w) = f
        BY <1>6 DEF In, BucketFile
    <2> QED BY <2>1, ClusterTypes DEF VectorsOf, InFile
<1> HIDE DEF P
<1>7. ASSUME NEW j \in 1 .. l, NEW k \in 1 .. l, j < k
      PROVE  Content(f)[j] < Content(f)[k]
    <2>1. Content(f)[k] <= Content(f)[j] => Count(f, Content(f)[k]) <= Count(f, Content(f)[j])
        BY <1>3, CountMono
    <2>2. Count(f, Content(f)[k]) = k - 1 /\ Count(f, Content(f)[j]) = j - 1
        BY <1>3
    <2>3. ~(k - 1 <= j - 1)
        BY <1>2, <1>7
    <2> QED BY <1>3, <2>1, <2>2, <2>3
<1>8. i \in 1 .. l /\ Content(f)[i] \in In(c) /\ IsFiniteSet(T)
    <2>1. T \in SUBSET In(c)
        OBVIOUS
    <2> QED BY <1>4, <2>1, ClusterTypes, FS_Subset DEF P
<1> DEFINE F == [j \in S |-> Content(f)[j]]
<1>9. F \in [S -> T]
    BY <1>4, <1>7, <1>8
<1>10. \A x, y \in S : F[x] = F[y] => x = y
    <2> SUFFICES ASSUME NEW x \in S, NEW y \in S, Content(f)[x] = Content(f)[y]
                 PROVE  x = y
        BY DEF F
    <2>1. x \in 1 .. l /\ y \in 1 .. l
        BY <1>4
    <2>2. Count(f, Content(f)[x]) = x - 1 /\ Count(f, Content(f)[y]) = y - 1
        BY <1>3, <2>1
    <2>3. x - 1 = y - 1
        BY <2>2
    <2> QED BY <1>2, <2>1, <2>3
<1>11. ASSUME NEW w \in T PROVE \E j \in S : F[j] = w
    <2>1. w \in VectorsOf(f) /\ w \in Nat /\ w < Content(f)[i] /\ Content(f)[i] \in Nat
        BY <1>3, <1>6, <1>8
    <2>2. Count(f, w) < i - 1 /\ Count(f, w) \in Nat
        <3>1. Count(f, w) < Count(f, Content(f)[i])
            BY <2>1, VectorsOfFile, RankStrict DEF Count
        <3> QED BY <1>3, <1>8, <2>1, <3>1, CountNat
    <2> DEFINE j == Count(f, w) + 1
    <2>3. j \in 1 .. l /\ j < i /\ j - 1 = Count(f, w)
        BY <1>2, <1>8, <2>2
    <2> HIDE DEF j
    <2>4. Content(f)[j] \in VectorsOf(f) /\ Count(f, Content(f)[j]) = Count(f, w)
        BY <1>3, <2>3
    <2>5. Content(f)[j] = w
        BY <2>1, <2>4, VectorsOfFile, RankInjective DEF Count
    <2>6. j \in P
        BY <1>5, <2>3, <2>5
    <2> QED BY <2>3, <2>5, <2>6
<1> HIDE DEF F, S, T
<1>12. Cardinality(S) = Cardinality(T)
    BY <1>8, <1>9, <1>10, <1>11, OneToOne
<1> QED BY <1>8, <1>12 DEF S, T, P, Rank

\* The k-th record that is copied for a cluster is its k-th vector; no vector
\* is copied twice, and all of them are if there are as many records.
LEMMA ClusterRecords ==
    ASSUME TypeOK, RecordsOK, ~orphaned, NEW c \in 0 .. NList - 1,
           NEW b \in Bucket, b = c \div BucketSize
    PROVE  /\ \A k \in 1 .. Len(RecordsOf(b, c)) :
                  RecordsOf(b, c)[k] \in In(c) /\ Rank(In(c), RecordsOf(b, c)[k]) = k - 1
           /\ \A i \in Places(b, c) :
                  LET v == Content(<<"bucket", b>>)[i]
                  IN  /\ Rank(In(c), v) + 1 \in 1 .. Len(RecordsOf(b, c))
                      /\ RecordsOf(b, c)[Rank(In(c), v) + 1] = v
           /\ Len(RecordsOf(b, c)) = Cardinality(In(c)) =>
                  \A v \in In(c) : \E i \in Places(b, c) : Content(<<"bucket", b>>)[i] = v
<1> DEFINE f == <<"bucket", b>>
           P == Places(b, c)
           l == Len(Content(f))
           a == Ascending(P)
           n == Cardinality(P)
<1>1. /\ l \in Nat /\ P \in SUBSET (0 .. (l + 1) - 1) /\ P \in SUBSET Nat
      /\ IsFiniteSet(P) /\ n \in Nat /\ Len(RecordsOf(b, c)) = n
      /\ \A k \in 1 .. n : /\ RecordsOf(b, c)[k] = Content(f)[a[k]]
                           /\ a[k] \in P /\ Rank(P, a[k]) = k - 1
    BY RecordsOfIs
<1>2. \A i \in P : Content(f)[i] \in In(c) /\ Rank(In(c), Content(f)[i]) = Rank(P, i)
    BY PlaceRank
<1> HIDE DEF P, a, l
<1>3. l + 1 \in Nat /\ Rank(P, l + 1) = n
    <2>1. l + 1 \in Nat
        BY <1>1
    <2> QED BY <1>1, <2>1, RankFull
<1> HIDE DEF n
<1>4. \A k \in 1 .. n : RecordsOf(b, c)[k] \in In(c) /\ Rank(In(c), RecordsOf(b, c)[k]) = k - 1
    BY <1>1, <1>2
<1>4a. \A x, y \in P : Rank(P, x) = Rank(P, y) => x = y
    BY <1>1, RankInjective
<1>5. ASSUME NEW i \in P
      PROVE  /\ Rank(In(c), Content(f)[i]) + 1 \in 1 .. n
             /\ RecordsOf(b, c)[Rank(In(c), Content(f)[i]) + 1] = Content(f)[i]
    <2>1. i \in Nat /\ i < l + 1
        BY <1>1
    <2>2. Rank(P, i) \in Nat /\ Rank(P, i) < n
        BY <1>1, <1>3, <2>1, RankNat, RankStrict
    <2> DEFINE k == Rank(P, i) + 1
    <2>3. k \in 1 .. n /\ k - 1 = Rank(P, i)
        BY <1>1, <2>2
    <2> HIDE DEF k
    <2>4. a[k] \in P /\ Rank(P, a[k]) = Rank(P, i)
        BY <1>1, <2>3
    <2>5. a[k] = i
        BY <1>4a, <2>4, Zenon
    <2>6. RecordsOf(b, c)[k] = Content(f)[i]
        BY <1>1, <2>3, <2>5
    <2> QED BY <1>2, <2>3, <2>6 DEF k
<1>6. ASSUME n = Cardinality(In(c))
      PROVE  \A v \in In(c) : \E i \in P : Content(f)[i] = v
    <2> DEFINE F == [i \in P |-> Content(f)[i]]
    <2>1. F \in [P -> In(c)]
        BY <1>2
    <2>2. \A x, y \in P : F[x] = F[y] => x = y
        <3> SUFFICES ASSUME NEW x \in P, NEW y \in P, Content(f)[x] = Content(f)[y]
                     PROVE  x = y
            BY DEF F
        <3>1. Rank(P, x) = Rank(P, y)
            BY <1>2
        <3> QED BY <1>4a, <3>1
    <2> HIDE DEF F
    <2>3. \A v \in In(c) : \E i \in P : F[i] = v
        BY <1>6, <2>1, <2>2, ClusterTypes, OneToOne DEF n
    <2> QED BY <2>3 DEF F
<1> QED BY <1>1, <1>4, <1>5, <1>6 DEF P, n

-----------------------------------------------------------------------------
(* base_list: the steps that build it                                      *)

\* The steps of the list stage and the cleanup leave base_basic alone but for
\* what the cleanup takes; here those that take nothing.
LEMMA ListStageFrame ==
    ASSUME IInv, pc \in {"list", "ready", "use"} \cup Listing,
           pc' \in {"list", "ready", "use", "linked", "idle"} \cup Listing,
           pc = "list" \/ pc' # "list", pc \in Listing => pc' \in Listing \cup {"ready", "idle"},
           pc = "ready" => pc' = "use", pc = "use" => pc' \in {"linked", "idle"},
           UNCHANGED <<disk, buf, ckpt, resume, shard, pos, orphaned, rebuilt, off, ids>>
    PROVE  BufferOK' /\ WriterOK' /\ SavedOK' /\ CkptOK' /\ RecordsOK' /\ LengthOK' /\ IvfOK'
<1>1. BufferOK' /\ WriterOK' /\ SavedOK' /\ CkptOK' /\ RecordsOK' /\ LengthOK'
    BY BasicFrame DEF Early, Encoding, AfterUse, Listing
<1>2. IvfOK'
    BY DEF IInv, IvfOK, OffsetsOfAllVectors, Listing
<1> QED BY <1>1, <1>2

LEMMA StartListKeeps ==
    ASSUME IInv, StartList
    PROVE  IInv'
<1> USE DEF IInv
<1>1. /\ pc = "list" /\ pc' \in {"ready", "idle", "listmeta"}
      /\ \/ pc' # "listmeta" /\ UNCHANGED <<listMeta, list, raw, listHash, tainted>>
         \/ /\ pc' = "listmeta" /\ listMeta' = FALSE /\ list' = None /\ raw' = FALSE
            /\ listHash' = FALSE /\ tainted' = orphaned
      /\ UNCHANGED <<o, runs, disk, buf, resume, shard, pos, meta, hash, ckpt, at, rebuilt,
                     built, off, ids, orphaned>>
    BY DEF StartList, Fails, run, writer, basic, ivf, baseList, history
<1>2. BufferOK' /\ WriterOK' /\ SavedOK' /\ CkptOK' /\ RecordsOK' /\ LengthOK' /\ IvfOK'
    BY <1>1, ListStageFrame DEF Listing
<1>3. TypeOK'
    BY <1>1 DEF TypeOK, Control
<1>4. ListOK'
    BY <1>1 DEF ListOK, ListHashTruthful, ListComplete, Listing, AfterUse
<1> QED BY <1>2, <1>3, <1>4

LEMMA ListMetaKeeps ==
    ASSUME IInv, ListMeta
    PROVE  IInv'
<1> USE DEF IInv
<1>1. /\ pc = "listmeta" /\ pc' = "prealloc" /\ listMeta' = TRUE
      /\ UNCHANGED <<o, runs, disk, buf, resume, shard, pos, meta, hash, ckpt, at, rebuilt,
                     built, off, ids, list, raw, listHash, orphaned, tainted>>
    BY DEF ListMeta, run, writer, basic, ivf, history
<1>2. BufferOK' /\ WriterOK' /\ SavedOK' /\ CkptOK' /\ RecordsOK' /\ LengthOK' /\ IvfOK'
    BY <1>1, ListStageFrame DEF Listing
<1>3. TypeOK'
    BY <1>1 DEF TypeOK, Control
<1>4. ListOK'
    BY <1>1 DEF ListOK, ListHashTruthful, ListComplete, Listing, AfterUse
<1> QED BY <1>2, <1>3, <1>4

LEMMA PreallocKeeps ==
    ASSUME IInv, Prealloc
    PROVE  IInv'
<1> USE DEF IInv
<1>1. /\ pc = "prealloc" /\ at' = 0
      /\ \/ list = None /\ list' = [p \in Vector |-> Hole] /\ raw' = raw /\ pc' = pc
         \/ list # None /\ list' = list /\ raw' = TRUE /\ pc' = "copy"
      /\ UNCHANGED <<o, runs, disk, buf, resume, shard, pos, meta, hash, ckpt, rebuilt,
                     built, off, ids, listMeta, listHash, orphaned, tainted>>
    BY DEF Prealloc, run, writer, basic, ivf, history
<1>2. BufferOK' /\ WriterOK' /\ SavedOK' /\ CkptOK' /\ RecordsOK' /\ LengthOK' /\ IvfOK'
    BY <1>1, ListStageFrame DEF Listing
<1>3. TypeOK'
    BY <1>1 DEF TypeOK, Control
<1>4. \A b \in Bucket : ~(b < 0)
    BY DEF Bucket
<1>5. ListOK'
    BY <1>1, <1>4 DEF ListOK, ListHashTruthful, Listing, AfterUse
<1> QED BY <1>2, <1>3, <1>5

\* What a copied bucket puts into slot p.
Copying(p) ==
    IF \E c \in ClustersOf(at) : p \in Begin(c) .. Begin(c) + Len(RecordsOf(at, c)) - 1
    THEN LET c == CHOOSE c \in ClustersOf(at) :
                      p \in Begin(c) .. Begin(c) + Len(RecordsOf(at, c)) - 1
         IN  RecordsOf(at, c)[p - Begin(c) + 1]
    ELSE list[p]

LEMMA BeginIs ==
    ASSUME IInv, pc = "copy", NEW c \in 0 .. NList - 1
    PROVE  /\ Begin(c) \in Nat
           /\ ~orphaned => /\ Begin(c) = Cardinality(Below(c))
                           /\ ListSize(c) = Cardinality(In(c))
<1> USE DEF IInv
<1>1. off \in [0 .. NList -> 0 .. N] /\ c \in 0 .. NList /\ c + 1 \in 0 .. NList /\ N \in Nat
    BY Constants DEF IvfOK, Listing, TypeOK
<1>2. Begin(c) \in Nat
    BY <1>1 DEF Begin
<1>3. ASSUME ~orphaned
      PROVE  Begin(c) = Cardinality(Below(c)) /\ ListSize(c) = Cardinality(In(c))
    <2>1. \A d \in 0 .. NList : off[d] = Cardinality(Below(d))
        BY <1>3 DEF IvfOK, Listing, OffsetsOfAllVectors, Below
    <2>2. off[c] = Cardinality(Below(c)) /\ off[c + 1] = Cardinality(Below(c)) + Cardinality(In(c))
        BY <1>1, <2>1, BelowNext
    <2>3. Cardinality(Below(c)) \in Nat /\ Cardinality(In(c)) \in Nat
        BY ClusterTypes
    <2> QED BY <2>2, <2>3 DEF Begin, ListSize
<1> QED BY <1>2, <1>3

\* It is what was there, or a vector whose slot is p.
LEMMA CopyingIs ==
    ASSUME IInv, pc = "copy", at \in Bucket, NEW p \in Vector
    PROVE  /\ Copying(p) \in Vector \cup {Hole}
           /\ ~orphaned =>
                 \/ Copying(p) \in Vector /\ SlotOf(Copying(p)) = p
                 \/ /\ \A c \in ClustersOf(at) : p \notin Begin(c) .. Begin(c) + Len(RecordsOf(at, c)) - 1
                    /\ Copying(p) = list[p]
<1> USE DEF IInv
<1> DEFINE filled(c) == Begin(c) .. Begin(c) + Len(RecordsOf(at, c)) - 1
<1>1. CASE ~ \E c \in ClustersOf(at) : p \in filled(c)
    <2>1. Copying(p) = list[p]
        BY <1>1, Zenon DEF Copying
    <2>2. list \in [Vector -> Vector \cup {Hole}]
        BY DEF ListOK, TypeOK
    <2> QED BY <1>1, <2>1, <2>2
<1>2. CASE \E c \in ClustersOf(at) : p \in filled(c)
    <2>1. PICK c \in ClustersOf(at) : p \in filled(c) /\ Copying(p) = RecordsOf(at, c)[p - Begin(c) + 1]
        <3> DEFINE d == CHOOSE c \in ClustersOf(at) : p \in filled(c)
        <3>1. d \in ClustersOf(at) /\ p \in filled(d)
            BY <1>2, Zenon
        <3>2. Copying(p) = RecordsOf(at, d)[p - Begin(d) + 1]
            BY <1>2, Zenon DEF Copying
        <3> QED BY <3>1, <3>2, Zenon
    <2>2. c \in 0 .. NList - 1 /\ at = c \div BucketSize
        BY DEF ClustersOf
    <2>3. /\ Begin(c) \in Nat /\ Len(RecordsOf(at, c)) \in Nat /\ p \in Nat
          /\ Len(RecordsOf(at, c)) = Cardinality(Places(at, c))
        <3>1. Begin(c) \in Nat
            BY <2>2, BeginIs
        <3>2. Len(RecordsOf(at, c)) = Cardinality(Places(at, c)) /\ Cardinality(Places(at, c)) \in Nat
            BY RecordsOfIs
        <3>3. p \in Nat
            BY ClusterTypes
        <3> QED BY <3>1, <3>2, <3>3
    <2> DEFINE k == p - Begin(c) + 1
    <2>4. k \in 1 .. Len(RecordsOf(at, c)) /\ Begin(c) + (k - 1) = p
        BY <2>1, <2>3
    <2> HIDE DEF k
    <2>5. RecordsOf(at, c)[k] \in Vector \cup {Hole}
        BY <2>3, <2>4, RecordsOfIs
    <2>6. ASSUME ~orphaned
          PROVE  Copying(p) \in Vector /\ SlotOf(Copying(p)) = p
        <3> DEFINE v == RecordsOf(at, c)[k]
        <3>1. v \in In(c) /\ Rank(In(c), v) = k - 1
            BY <2>2, <2>4, <2>6, ClusterRecords
        <3>2. v \in Vector /\ Cluster[v] = c
            BY <3>1 DEF In
        <3>3. SlotOf(v) = Cardinality(Below(c)) + Rank(In(c), v)
            BY <3>2, SlotIs
        <3>4. SlotOf(v) = Begin(c) + (k - 1)
            BY <2>2, <2>6, <3>1, <3>3, BeginIs
        <3> QED BY <2>1, <2>4, <3>2, <3>4 DEF k
    <2> QED BY <2>1, <2>5, <2>6 DEF k
<1> QED BY <1>1, <1>2

\* A record of the bucket is in a range that is filled.
LEMMA RecordFilled ==
    ASSUME IInv, pc = "copy", at \in Bucket, ~orphaned,
           NEW i \in 1 .. Len(Content(<<"bucket", at>>))
    PROVE  LET v == Content(<<"bucket", at>>)[i]
           IN  /\ v \in Vector
               /\ \E c \in ClustersOf(at) :
                     SlotOf(v) \in Begin(c) .. Begin(c) + Len(RecordsOf(at, c)) - 1
<1> USE DEF IInv
<1> DEFINE f == <<"bucket", at>>
           v == Content(f)[i]
           c == Cluster[v]
<1>1. f \in File /\ v \in Vector /\ InFile(f, v)
    BY Files DEF RecordsOK, Continues
<1>3. c \in 0 .. NList - 1 /\ ClusterOf(v) = c /\ at = c \div BucketSize
    <2>1. at = c \div BucketSize
        BY <1>1 DEF InFile, Cid, ShardFile, BucketFile
    <2>2. v # Hole
        BY <1>1 DEF Vector, Hole
    <2> QED BY <1>1, <2>1, <2>2, ClusterTypes DEF ClusterOf
<1>4. i \in Places(at, c)
    BY <1>3 DEF Places
<1>5. c \in ClustersOf(at)
    BY <1>3 DEF ClustersOf
<1> HIDE DEF v, c
<1>6. Rank(In(c), v) + 1 \in 1 .. Len(RecordsOf(at, c))
    BY <1>3, <1>4, ClusterRecords DEF v
<1>7. SlotOf(v) = Begin(c) + Rank(In(c), v)
    BY <1>1, <1>3, SlotIs, BeginIs DEF c
<1>8. Begin(c) \in Nat /\ Len(RecordsOf(at, c)) \in Nat /\ Rank(In(c), v) \in Nat
    <2>1. Begin(c) \in Nat
        BY <1>3, BeginIs
    <2>2. Len(RecordsOf(at, c)) = Cardinality(Places(at, c)) /\ Cardinality(Places(at, c)) \in Nat
        BY RecordsOfIs
    <2>3. v \in Nat
        BY <1>1 DEF Vector
    <2>4. Rank(In(c), v) \in Nat
        BY <2>3, ClusterTypes, RankNat
    <2> QED BY <2>1, <2>2, <2>4
<1>9. SlotOf(v) \in Begin(c) .. Begin(c) + Len(RecordsOf(at, c)) - 1
    BY <1>6, <1>7, <1>8
<1> QED BY <1>1, <1>5, <1>9 DEF v

LEMMA CopyBucketKeeps ==
    ASSUME IInv, CopyBucket
    PROVE  IInv'
<1> USE DEF IInv
<1>1. /\ pc = "copy" /\ at \in Bucket
      /\ \/ pc' = "idle" /\ list' = list /\ at' = at
         \/ pc' = pc /\ at' = at + 1 /\ list' = [p \in Vector |-> Copying(p)]
      /\ UNCHANGED <<o, runs, disk, buf, resume, shard, pos, meta, hash, ckpt, rebuilt,
                     built, off, ids, listMeta, raw, listHash, orphaned, tainted>>
    BY DEF CopyBucket, Copying, Fails, run, writer, basic, ivf, history
<1>2. BufferOK' /\ WriterOK' /\ SavedOK' /\ CkptOK' /\ RecordsOK' /\ LengthOK' /\ IvfOK'
    BY <1>1, ListStageFrame DEF Listing
<1>3. CASE pc' = "idle" /\ list' = list /\ at' = at
    <2>1. TypeOK'
        BY <1>1, <1>3 DEF TypeOK, Control
    <2>2. ListOK'
        BY <1>1, <1>3 DEF ListOK, ListHashTruthful, ListComplete, Listing, AfterUse
    <2> QED BY <1>2, <2>1, <2>2
<1>4. CASE pc' = pc /\ at' = at + 1 /\ list' = [p \in Vector |-> Copying(p)]
    <2>1. list' \in [Vector -> Vector \cup {Hole}] /\ list' # None
        <3>1. \A p \in Vector : Copying(p) \in Vector \cup {Hole}
            BY <1>1, CopyingIs
        <3>2. list' \in [Vector -> Vector \cup {Hole}]
            BY <1>4, <3>1
        <3> QED BY <3>2, NoneAssumption
    <2>2. TypeOK'
        BY <1>1, <1>4, <2>1 DEF TypeOK, Control, Bucket
    <2>3. ASSUME ~tainted
          PROVE  \A b \in Bucket : b < at' => Copied(b)'
        <3>1. ~orphaned /\ at \in Nat
            BY <1>1, <2>3 DEF ListOK, Listing, Bucket
        <3>2. \A u \in Vector : SlotOf(u) \in Vector /\ list'[SlotOf(u)] = Copying(SlotOf(u))
            BY <1>4, SlotInList
        <3>3. ASSUME NEW u \in Vector, list[SlotOf(u)] = u
              PROVE  list'[SlotOf(u)] = u
            <4>1. CASE Copying(SlotOf(u)) \in Vector /\ SlotOf(Copying(SlotOf(u))) = SlotOf(u)
                BY <3>2, <4>1, SlotInjective
            <4>2. CASE Copying(SlotOf(u)) = list[SlotOf(u)]
                BY <3>2, <3>3, <4>2
            <4> QED BY <1>1, <3>1, <3>2, <4>1, <4>2, CopyingIs
        <3>4. ASSUME NEW b \in Bucket, b < at', NEW i \in 1 .. Len(Content(<<"bucket", b>>))
              PROVE  list'[SlotOf(Content(<<"bucket", b>>)[i])] = Content(<<"bucket", b>>)[i]
            <4> DEFINE u == Content(<<"bucket", b>>)[i]
            <4>1. u \in Vector
                BY <3>1, Files DEF RecordsOK, Continues
            <4>2. CASE b < at
                <5>1. list[SlotOf(u)] = u
                    BY <1>1, <2>3, <4>2 DEF ListOK, Copied
                <5> QED BY <3>3, <4>1, <5>1
            <4>3. CASE b = at
                <5>1. \E c \in ClustersOf(at) :
                          SlotOf(u) \in Begin(c) .. Begin(c) + Len(RecordsOf(at, c)) - 1
                    BY <1>1, <3>1, <4>3, RecordFilled
                <5>2. Copying(SlotOf(u)) \in Vector /\ SlotOf(Copying(SlotOf(u))) = SlotOf(u)
                    BY <1>1, <3>1, <3>2, <4>1, <5>1, CopyingIs
                <5>3. Copying(SlotOf(u)) = u
                    BY <4>1, <5>2, SlotInjective
                <5> QED BY <3>2, <4>1, <5>3
            <4>4. b < at \/ b = at
                BY <1>4, <3>1, <3>4 DEF Bucket
            <4> QED BY <4>2, <4>3, <4>4
        <3>5. \A b \in Bucket : Content(<<"bucket", b>>)' = Content(<<"bucket", b>>)
            BY <1>1 DEF Content
        <3> QED BY <3>4, <3>5 DEF Copied
    <2>4. ListOK'
        BY <1>1, <1>4, <2>1, <2>3 DEF ListOK, ListHashTruthful, Listing, AfterUse
    <2> QED BY <1>2, <2>2, <2>4
<1> QED BY <1>1, <1>3, <1>4

\* When every list has got its number of records, every vector is in its slot.
LEMMA CountsSuffice ==
    ASSUME IInv, pc = "copy", at \notin Bucket, ~tainted,
           \A c \in 0 .. NList - 1 : Len(RecordsOf(c \div BucketSize, c)) = ListSize(c)
    PROVE  ListComplete
<1> USE DEF IInv
<1>1. ~orphaned /\ list # None
    BY DEF ListOK, Listing
<1>2. \A b \in Bucket : Copied(b)
    <2>1. \A b \in Bucket : b < at
        <3>1. NList - 1 \in Nat /\ at \in Nat
            BY Constants DEF TypeOK
        <3>2. (NList - 1) \div BucketSize \in Nat
            BY <3>1, Constants, DivMod
        <3> QED BY <3>1, <3>2 DEF Bucket
    <2> QED BY <2>1 DEF ListOK
<1>3. ASSUME NEW v \in Vector
      PROVE  list[SlotOf(v)] = v
    <2> DEFINE c == Cluster[v]
               b == c \div BucketSize
    <2>1. c \in 0 .. NList - 1 /\ b \in Bucket /\ v \in In(c)
        BY FileOfVector, ClusterTypes DEF In
    <2> HIDE DEF c
    <2>2. Len(RecordsOf(b, c)) = Cardinality(In(c))
        BY <1>1, <2>1, BeginIs
    <2>3. PICK i \in Places(b, c) : Content(<<"bucket", b>>)[i] = v
        BY <1>1, <2>1, <2>2, ClusterRecords
    <2>4. i \in 1 .. Len(Content(<<"bucket", b>>))
        BY DEF Places
    <2> QED BY <1>2, <2>1, <2>3, <2>4 DEF Copied
<1> QED BY <1>1, <1>3 DEF ListComplete

LEMMA ValidateKeeps ==
    ASSUME IInv, Validate
    PROVE  IInv'
<1> USE DEF IInv
<1>1. /\ pc = "copy" /\ at \notin Bucket /\ pc' \in {"listhash", "idle"}
      /\ pc' = "listhash" =>
            \A c \in 0 .. NList - 1 : Len(RecordsOf(c \div BucketSize, c)) = ListSize(c)
      /\ UNCHANGED <<o, runs, disk, buf, resume, shard, pos, meta, hash, ckpt, at, rebuilt,
                     built, off, ids, listMeta, list, raw, listHash, orphaned, tainted>>
    BY DEF Validate, Fails, run, writer, basic, ivf, baseList, history
<1>2. BufferOK' /\ WriterOK' /\ SavedOK' /\ CkptOK' /\ RecordsOK' /\ LengthOK' /\ IvfOK'
    BY <1>1, ListStageFrame DEF Listing
<1>3. TypeOK'
    BY <1>1 DEF TypeOK, Control
<1>4. pc' = "listhash" /\ ~tainted => ListComplete
    BY <1>1, CountsSuffice
<1>5. ListComplete' <=> ListComplete
    BY <1>1 DEF ListComplete
<1>6. ListOK'
    BY <1>1, <1>4, <1>5 DEF ListOK, ListHashTruthful, Listing, AfterUse
<1> QED BY <1>2, <1>3, <1>6

LEMMA WriteListHashKeeps ==
    ASSUME IInv, WriteListHash
    PROVE  IInv'
<1> USE DEF IInv
<1>1. /\ pc = "listhash" /\ pc' = "ready" /\ listHash' = TRUE /\ built' = TRUE
      /\ UNCHANGED <<o, runs, disk, buf, resume, shard, pos, meta, hash, ckpt, at, rebuilt,
                     off, ids, listMeta, list, raw, orphaned, tainted>>
    BY DEF WriteListHash, run, writer, basic, ivf, history
<1>2. BufferOK' /\ WriterOK' /\ SavedOK' /\ CkptOK' /\ RecordsOK' /\ LengthOK' /\ IvfOK'
    BY <1>1, ListStageFrame DEF Listing
<1>3. TypeOK'
    BY <1>1 DEF TypeOK, Control
<1>4. ListOK'
    BY <1>1 DEF ListOK, ListHashTruthful, ListComplete, Listing, AfterUse
<1> QED BY <1>2, <1>3, <1>4

-----------------------------------------------------------------------------
(* The cleanups                                                            *)

LEMMA CleanupAfterBaseListKeeps ==
    ASSUME IInv, CleanupAfterBaseList
    PROVE  IInv'
<1> USE DEF IInv
<1>1. /\ pc = "ready" /\ pc' = "use" /\ raw' = (raw /\ ("raw" \in o.keep \/ o.use = "link"))
      /\ orphaned' = (orphaned \/ (ckpt # None /\ ckpt.next < N /\ disk' # disk))
      /\ UNCHANGED <<o, runs, buf, resume, shard, pos, meta, hash, ckpt, at, rebuilt, built,
                     off, ids, listMeta, list, listHash, tainted>>
    BY DEF CleanupAfterBaseList, run, writer, ivf
<1>2. disk' = [f \in File |-> disk'[f]] /\ \A f \in File : disk'[f] \in {disk[f], None}
    BY DEF CleanupAfterBaseList
<1>3. buf = NoBuf
    BY <1>1 DEF BufferOK
<1>4. ASSUME NEW f \in File
      PROVE  Content(f)' \in {Content(f), <<>>} /\ buf'[f] = <<>>
    BY <1>1, <1>2, <1>3, FreshFiles DEF Content
<1>5. TypeOK'
    <2>1. disk' \in [File -> Seq(Vector \cup {Hole}) \cup {None}]
        BY <1>2 DEF TypeOK
    <2>2. raw' \in BOOLEAN /\ orphaned' \in BOOLEAN
        BY <1>1, Zenon
    <2> QED BY <1>1, <2>1, <2>2 DEF TypeOK, Control
<1>6. BufferOK' /\ WriterOK'
    BY <1>1, <1>3, <1>4, Files DEF BufferOK, WriterOK, Early, Encoding
<1>7. SavedOK'
    BY <1>1, <1>4, Files DEF SavedOK
<1>8. CkptOK'
    BY <1>1 DEF CkptOK, Encoding
<1>9. ~orphaned' => ~orphaned
    BY <1>1
<1>10. RecordsOK'
    BY <1>4, <1>9, ContinuesEmpty DEF RecordsOK
<1>11. LengthOK'
    <2>1. ASSUME ckpt # None, ~orphaned', NEW f \in File
          PROVE  \/ Count(f, ckpt.next) <= Len(Content(f)')
                 \/ disk'[f] = None /\ ckpt.next = N
        <3>1. \/ Count(f, ckpt.next) <= Len(Content(f))
              \/ disk[f] = None /\ ckpt.next = N
            BY <1>9, <2>1 DEF LengthOK
        <3>2. CASE disk'[f] = disk[f]
            BY <3>1, <3>2 DEF Content
        <3>3. CASE disk'[f] # disk[f]
            <4>1. disk'[f] = None
                BY <1>2, <3>3
            <4>2. ~(ckpt.next < N) /\ ckpt.next \in 0 .. N /\ N \in Nat
                BY <1>1, <2>1, <3>3, CkptTypes
            <4> QED BY <4>1, <4>2
        <3> QED BY <3>2, <3>3
    <2> QED BY <1>1, <2>1 DEF LengthOK, Encoding, AfterUse
<1>12. IvfOK'
    BY <1>1, <1>9 DEF IvfOK, OffsetsOfAllVectors, Listing
<1>13. ListOK'
    <2>1. raw /\ o.use = "link" => raw'
        BY <1>1
    <2> QED BY <1>1, <2>1 DEF ListOK, ListHashTruthful, ListComplete, Listing, AfterUse
<1> QED BY <1>5, <1>6, <1>7, <1>8, <1>10, <1>11, <1>12, <1>13

LEMMA UseStoresKeeps ==
    ASSUME IInv, UseStores
    PROVE  IInv'
<1> USE DEF IInv
<1>1. /\ pc = "use" /\ pc' \in {"linked", "idle"}
      /\ UNCHANGED <<o, runs, disk, buf, resume, shard, pos, meta, hash, ckpt, at, rebuilt,
                     built, off, ids, listMeta, list, raw, listHash, orphaned, tainted>>
    BY DEF UseStores, Fails, run, writer, basic, ivf, baseList, history
<1>2. BufferOK' /\ WriterOK' /\ SavedOK' /\ CkptOK' /\ RecordsOK' /\ LengthOK' /\ IvfOK'
    BY <1>1, ListStageFrame DEF Listing
<1>3. TypeOK'
    BY <1>1 DEF TypeOK, Control
<1>4. ListOK'
    BY <1>1 DEF ListOK, ListHashTruthful, ListComplete, Listing, AfterUse
<1> QED BY <1>2, <1>3, <1>4

LEMMA CleanupAfterLinkageKeeps ==
    ASSUME IInv, CleanupAfterLinkage
    PROVE  IInv'
<1> USE DEF IInv
<1>1. /\ pc = "linked" /\ pc' = "idle"
      /\ \/ off' = off /\ ids' = ids
         \/ off' = None /\ ids' = None
      /\ \/ disk' = disk /\ meta' = meta /\ hash' = hash /\ ckpt' = ckpt
         \/ disk' = NoFiles /\ meta' = FALSE /\ hash' = FALSE /\ ckpt' = None
      /\ \/ raw' = (raw /\ "raw" \in o.keep) /\ listMeta' = listMeta /\ list' = list
            /\ listHash' = listHash
         \/ listMeta' = FALSE /\ list' = None /\ raw' = FALSE /\ listHash' = FALSE
      /\ UNCHANGED <<o, runs, buf, resume, shard, pos, at, rebuilt, built, orphaned, tainted>>
    <2>1. /\ pc = "linked" /\ pc' = "idle"
          /\ UNCHANGED <<o, runs, buf, resume, shard, pos, at, rebuilt, built, orphaned, tainted>>
        BY DEF CleanupAfterLinkage, run, writer, history
    <2>2. \/ off' = off /\ ids' = ids
          \/ off' = None /\ ids' = None
        BY DEF CleanupAfterLinkage, ivf
    <2>3. \/ disk' = disk /\ meta' = meta /\ hash' = hash /\ ckpt' = ckpt
          \/ disk' = NoFiles /\ meta' = FALSE /\ hash' = FALSE /\ ckpt' = None
        BY DEF CleanupAfterLinkage, basic
    <2>4. \/ raw' = (raw /\ "raw" \in o.keep) /\ listMeta' = listMeta /\ list' = list
             /\ listHash' = listHash
          \/ listMeta' = FALSE /\ list' = None /\ raw' = FALSE /\ listHash' = FALSE
        BY DEF CleanupAfterLinkage
    <2> QED BY <2>1, <2>2, <2>3, <2>4
<1>2. buf = NoBuf
    BY <1>1 DEF BufferOK
<1>3. ASSUME NEW f \in File
      PROVE  Content(f)' \in {Content(f), <<>>} /\ buf'[f] = <<>>
    BY <1>1, <1>2, FreshFiles DEF Content
<1>4. TypeOK'
    <2>1. disk' \in [File -> Seq(Vector \cup {Hole}) \cup {None}]
        BY <1>1 DEF TypeOK, NoFiles
    <2>2. raw' \in BOOLEAN
        BY <1>1, Zenon
    <2>3. {meta', hash', listMeta', listHash'} \subseteq BOOLEAN
        BY <1>1 DEF TypeOK
    <2>4. ckpt' # None => ckpt' \in [next : 0 .. N, sizes : [Buckets -> 0 .. N]]
        BY <1>1 DEF TypeOK
    <2>5. off' \in {None, Torn} \/ off' \in [0 .. NList -> 0 .. N]
        BY <1>1 DEF TypeOK
    <2>6. ids' \in {None} \cup 0 .. N
        BY <1>1 DEF TypeOK
    <2>7. list' # None => list' \in [Vector -> Vector \cup {Hole}]
        BY <1>1 DEF TypeOK
    <2> QED BY <1>1, <2>1, <2>2, <2>3, <2>4, <2>5, <2>6, <2>7 DEF TypeOK, Control
<1>5. BufferOK' /\ WriterOK'
    BY <1>1, <1>2, <1>3, Files DEF BufferOK, WriterOK, Early, Encoding
<1>6. SavedOK'
    BY <1>1, <1>3, Files DEF SavedOK
<1>7. CkptOK'
    BY <1>1 DEF CkptOK, Encoding
<1>8. RecordsOK'
    BY <1>1, <1>3, ContinuesEmpty DEF RecordsOK
<1>9. LengthOK'
    BY <1>1 DEF LengthOK, Content, Encoding, AfterUse
<1>10. IvfOK'
    BY <1>1 DEF IvfOK, OffsetsOfAllVectors, Listing
<1>11. ListOK'
    BY <1>1 DEF ListOK, ListHashTruthful, ListComplete, Listing, AfterUse
<1> QED BY <1>4, <1>5, <1>6, <1>7, <1>8, <1>9, <1>10, <1>11

-----------------------------------------------------------------------------
(* The theorems                                                            *)

LEMMA NextIInv ==
    ASSUME IInv, [Next]_vars
    PROVE  IInv'
<1>1. ASSUME NEW s \in Settings, StartRun(s) PROVE IInv'
    BY <1>1, StartRunKeeps
<1>2. CASE BasicStage
    BY <1>2, PrepareBasicKeeps, HashFirstKeeps, OpenFreshKeeps, InitCkptKeeps, ResumeBasicKeeps,
       TruncateKeeps, OpenResumeKeeps, EncodeBlockKeeps, FlushKeeps, CommitKeeps,
       CloseBasicKeeps, FinishBasicKeeps, ReuseBasicKeeps DEF BasicStage
<1>3. CASE IvfStage
    BY <1>3, StartIvfKeeps, WriteOffsetsKeeps, TruncIdsKeeps, WriteIdsKeeps DEF IvfStage
<1>4. CASE ListStage
    BY <1>4, StartListKeeps, ListMetaKeeps, PreallocKeeps, CopyBucketKeeps, ValidateKeeps,
       WriteListHashKeeps DEF ListStage
<1>5. CASE CleanupAfterBaseList \/ UseStores \/ CleanupAfterLinkage
    BY <1>5, CleanupAfterBaseListKeeps, UseStoresKeeps, CleanupAfterLinkageKeeps
<1>6. CASE Crash
    BY <1>6, CrashKeeps
<1>7. CASE UNCHANGED vars
    <2>1. UNCHANGED <<o, runs, pc, disk, buf, resume, shard, pos, meta, hash, ckpt, at, rebuilt,
                      built, off, ids, listMeta, list, raw, listHash, orphaned, tainted>>
        BY <1>7 DEF vars, run, writer, basic, ivf, baseList, history
    <2>2. TypeOK'
        BY <2>1 DEF IInv, TypeOK
    <2>3. BufferOK' /\ WriterOK'
        BY <2>1 DEF IInv, BufferOK, WriterOK, PositionOK
    <2>4. SavedOK' /\ RecordsOK' /\ LengthOK'
        BY <2>1 DEF IInv, SavedOK, RecordsOK, LengthOK, Content
    <2>5. CkptOK'
        <3>1. Cut' = Cut
            BY <2>1 DEF Cut
        <3> QED BY <2>1, <3>1 DEF IInv, CkptOK
    <2>6. IvfOK' /\ ListOK'
        BY <2>1 DEF IInv, IvfOK, OffsetsOfAllVectors, ListOK, ListHashTruthful, ListComplete,
                    Copied, Content
    <2> QED BY <2>2, <2>3, <2>4, <2>5, <2>6 DEF IInv
<1> QED BY <1>1, <1>2, <1>3, <1>4, <1>5, <1>6, <1>7 DEF Next

\* The stores are always in a state that the runs so far, killed between any two steps, can
\* leave: the invariant from which the rest follows.
THEOREM StoresInductive == Spec => []IInv
    BY InitIInv, NextIInv, PTL DEF Spec

\* Every variable keeps its type through any number of runs and kills.
THEOREM StoresTyped == Spec => []TypeOK
<1>1. IInv => TypeOK
    BY DEF IInv
<1> QED BY <1>1, StoresInductive, PTL

\* What a file should hold, in the words of the properties.
LEMMA FileExpected ==
    ASSUME TypeOK, RecordsOK, ~orphaned, NEW f \in File, NEW n \in 0 .. N,
           Count(f, n) <= Len(Content(f))
    PROVE  /\ SubSeq(Content(f), 1, Len(Expected(f, n))) = Expected(f, n)
           /\ Len(Expected(f, n)) = Count(f, n)
           /\ Count(f, n) = Len(Content(f)) => Content(f) = Expected(f, n)
    BY FileTypes, ContinuesExpected DEF RecordsOK

\* While a run encodes, what is on disk and in memory is, file by file, what
\* an uninterrupted run would have produced so far, whatever was killed before
\* and wherever the run resumed: EnsureShard, AppendBlock, Flush and
\* TruncateBaseBasicToCheckpoint together neither repeat nor lose a record.
THEOREM ResumeInStep == Spec => []WriterInStep
<1>1. IInv => WriterInStep
    <2> SUFFICES ASSUME IInv, ~orphaned, pc \in {"encode", "flush", "commit"}, NEW f \in File
                 PROVE  (IF disk[f] = None THEN <<>> ELSE disk[f]) \o buf[f] = Expected(f, pos)
        BY DEF WriterInStep, ResumeContinues
    <2> USE DEF IInv
    <2> DEFINE s == Content(f) \o buf[f]
    <2>1. /\ Content(f) \in Seq(Vector \cup {Hole}) /\ Len(Content(f)) \in Nat
          /\ buf[f] \in Seq(Vector \cup {Hole})
        BY FileTypes
    <2>2. Continues(f, 0, Content(f)) /\ Continues(f, Len(Content(f)), buf[f])
        BY DEF RecordsOK
    <2>3. s \in Seq(Vector \cup {Hole}) /\ Len(s) = Len(Content(f)) + Len(buf[f])
        BY <2>1, ConcatAt
    <2>4. Continues(f, 0, s)
        <3>1. 0 + Len(Content(f)) = Len(Content(f)) /\ 0 \in Nat
            BY <2>1
        <3> QED BY <2>1, <2>2, <3>1, ContinuesConcat
    <2>5. Len(s) = Count(f, pos) /\ pos \in 0 .. N
        BY <2>3 DEF LengthOK, Encoding, TypeOK
    <2> HIDE DEF s
    <2>6. Len(s) \in Nat
        BY <2>3
    <2>7. Count(f, pos) <= Len(s)
        BY <2>5, <2>6
    <2>8. s = Expected(f, pos)
        BY <2>3, <2>4, <2>5, <2>7, ContinuesExpected
    <2> QED BY <2>8 DEF s, Content
<1> QED BY <1>1, StoresInductive, PTL

\* When ckpt.bin says next_id, every file holds the records of the vectors
\* before it, first and in order, and the buckets have the sizes it names:
\* CommitBlock replaces it only after the flush, and nothing cuts a file below it.
THEOREM CommittedDurable == Spec => []CommittedIsDurable
<1>1. IInv => CommittedIsDurable
    <2> SUFFICES ASSUME IInv, ckpt # None, ~orphaned, NEW f \in File
                 PROVE  LET want == Expected(f, ckpt.next)
                        IN  /\ f \in Buckets => ckpt.sizes[f] = Len(want)
                            /\ IF disk[f] = None THEN want = <<>> \/ ckpt.next = N
                               ELSE Len(want) <= Len(disk[f]) /\ SubSeq(disk[f], 1, Len(want)) = want
        BY DEF CommittedIsDurable
    <2> USE DEF IInv
    <2> DEFINE want == Expected(f, ckpt.next)
    <2>1. ckpt.next \in 0 .. N /\ ckpt.next \in Nat /\ Count(f, ckpt.next) \in Nat
        BY CkptTypes, CountNat
    <2>2. want \in Seq(Vector) /\ Len(want) = Count(f, ckpt.next)
        <3>1. 0 \in 0 .. N /\ 0 <= ckpt.next
            BY <2>1, Constants
        <3>2. want \in Seq(Vector) /\ Len(want) = Count(f, ckpt.next) - Count(f, 0)
            BY <2>1, <3>1, RecordsAre DEF Expected
        <3> QED BY <2>1, <3>2, CountZero
    <2>3. f \in Buckets => ckpt.sizes[f] = Len(want)
        BY <2>2 DEF SavedOK
    <2>4. \/ Count(f, ckpt.next) <= Len(Content(f))
          \/ disk[f] = None /\ ckpt.next = N
        BY DEF LengthOK
    <2>5. CASE disk[f] = None
        <3>1. Len(Content(f)) = 0
            BY <2>5 DEF Content
        <3>2. Count(f, ckpt.next) <= 0 => want = <<>>
            <4> HIDE DEF want
            <4> QED BY <2>1, <2>2
        <3> QED BY <2>3, <2>4, <2>5, <3>1, <3>2
    <2>6. CASE disk[f] # None
        <3>1. Content(f) = disk[f] /\ Count(f, ckpt.next) <= Len(Content(f))
            BY <2>4, <2>6 DEF Content
        <3>2. SubSeq(disk[f], 1, Len(want)) = want
            BY <2>1, <3>1, FileExpected
        <3> QED BY <2>2, <2>3, <2>6, <3>1, <3>2
    <2> QED BY <2>5, <2>6
<1> QED BY <1>1, StoresInductive, PTL

\* A run that has encoded leaves, until the cleanup, the files of a run that
\* nothing interrupted.
THEOREM EncodedWhole == Spec => []EncodedStoreIsWhole
<1>1. IInv => EncodedStoreIsWhole
    <2> SUFFICES ASSUME IInv, rebuilt, pc \notin AfterUse, ~orphaned, NEW f \in File
                 PROVE  Holds(f, Expected(f, N))
        BY DEF EncodedStoreIsWhole, AfterUse
    <2> USE DEF IInv
    <2>1. Len(Content(f)) = Count(f, N) /\ N \in 0 .. N
        BY Constants DEF LengthOK
    <2>2. Len(Content(f)) \in Nat
        BY FileTypes
    <2>3. Content(f) = Expected(f, N)
        BY <2>1, <2>2, FileExpected
    <2> QED BY <2>3 DEF Holds, Content
<1> QED BY <1>1, StoresInductive, PTL

\* Offsets that can be read are those of all N vectors: the IVF build never
\* takes them from a cluster_id.u32 that lacks some.
THEOREM OffsetsWhole == Spec => []OffsetsOfAllVectors
<1>1. IInv => OffsetsOfAllVectors
    BY DEF IInv, IvfOK
<1> QED BY <1>1, StoresInductive, PTL

\* base_list has its hash only when every slot holds its vector, unless it was
\* begun from an orphaned checkpoint: the counts that ValidateCounts compares
\* then suffice.
THEOREM ListHashMeansComplete == Spec => []ListHashTruthful
<1>1. IInv => ListHashTruthful
    BY DEF IInv, ListOK
<1> QED BY <1>1, StoresInductive, PTL

\* A run that has built base_list finds, after the first cleanup, all that the
\* base evaluation and the linkage build go on to read.
THEOREM BuiltUsable == Spec => []BuiltIsUsable
<1>1. IInv => BuiltIsUsable
    BY DEF IInv, ListOK, IvfOK, BuiltIsUsable, ListHashTruthful
<1> QED BY <1>1, StoresInductive, PTL

\* With the protection switch a run takes away neither a finished base_list
\* nor vectors that a checkpoint covers, except in its cleanups.
THEOREM ProtectionHolds == Spec => ProtectedStays
<1> DEFINE Stays ==
        o.protect /\ pc \notin {"idle", "ready", "linked"} =>
            /\ listHash => listHash' /\ list' = list
            /\ ckpt # None /\ o.ckpt => ckpt' # None /\ ckpt'.next >= ckpt.next
<1>1. ASSUME IInv, [Next]_vars
      PROVE  Stays
    <2> SUFFICES ASSUME o.protect, pc \notin {"idle", "ready", "linked"}
                 PROVE  /\ listHash => listHash' /\ list' = list
                        /\ ckpt # None /\ o.ckpt => ckpt' # None /\ ckpt'.next >= ckpt.next
        OBVIOUS
    <2> USE <1>1 DEF IInv
    <2>1. ckpt # None => ckpt.next \in Nat
        BY CkptTypes
    <2>2. CASE UNCHANGED <<list, listHash, ckpt>>
        BY <2>1, <2>2
    <2>3. CASE \/ HashFirst \/ OpenFresh \/ ResumeBasic \/ Truncate \/ OpenResume \/ EncodeBlock
               \/ Flush \/ CloseBasic \/ ReuseBasic \/ IvfStage \/ Validate \/ UseStores \/ Crash
               \/ UNCHANGED vars
        <3>1. UNCHANGED <<list, listHash, ckpt>>
            BY <2>3 DEF HashFirst, OpenFresh, ResumeBasic, Truncate, OpenResume, EncodeBlock,
               Flush, CloseBasic, ReuseBasic, IvfStage, StartIvf, WriteOffsets, TruncIds,
               WriteIds, Validate, UseStores, Crash, vars, basic, baseList
        <3> QED BY <2>2, <3>1
    <2>4. CASE PrepareBasic
        BY <2>1, <2>4 DEF PrepareBasic, HaveCkpt, basic, baseList
    <2>5. CASE InitCkpt
        BY <2>5 DEF InitCkpt, CkptOK, baseList
    <2>6. CASE Commit
        <3>1. pc = "commit" /\ ckpt' = Checkpoint /\ UNCHANGED <<list, listHash>>
            BY <2>6 DEF Commit, baseList
        <3>2. buf = NoBuf /\ ckpt.next < pos /\ pos \in Nat
            BY <3>1, Constants DEF BufferOK, CkptOK, TypeOK
        <3>3. ckpt' # None /\ ckpt'.next = pos
            BY <3>1, <3>2, CheckpointIs DEF Encoding
        <3> QED BY <2>1, <3>1, <3>2, <3>3
    <2>7. CASE FinishBasic
        <3>1. /\ pc = "closed" /\ (o.ckpt => ckpt' \in {ckpt, Checkpoint})
              /\ UNCHANGED <<list, listHash>>
            BY <2>7 DEF FinishBasic, baseList
        <3>2. buf = NoBuf /\ (o.ckpt => ckpt.next = pos) /\ pos \in Nat
            BY <3>1, Constants DEF BufferOK, CkptOK, TypeOK
        <3>3. Checkpoint # None /\ Checkpoint.next = pos
            BY <3>1, <3>2, CheckpointIs
        <3> QED BY <2>1, <3>1, <3>2, <3>3
    <2>8. CASE StartList
        <3>1. UNCHANGED ckpt /\ (listHash => UNCHANGED <<list, listHash>>)
            BY <2>8 DEF StartList, ListOK, basic, baseList
        <3> QED BY <2>1, <3>1
    <2>9. CASE ListMeta \/ Prealloc \/ CopyBucket \/ WriteListHash
        <3>1. UNCHANGED ckpt /\ pc \in Listing
            BY <2>9 DEF ListMeta, Prealloc, CopyBucket, WriteListHash, basic, Listing
        <3>2. ~listHash
            BY <3>1 DEF ListOK
        <3> QED BY <2>1, <3>1, <3>2
    <2>10. ~CleanupAfterBaseList /\ ~CleanupAfterLinkage /\ \A s \in Settings : ~StartRun(s)
        BY DEF CleanupAfterBaseList, CleanupAfterLinkage, StartRun
    <2> QED BY <1>1, <2>3, <2>4, <2>5, <2>6, <2>7, <2>8, <2>9, <2>10
            DEF Next, BasicStage, ListStage
<1>2. IInv /\ [Next]_vars => [Stays]_vars
    BY <1>1
<1> QED BY <1>2, StoresInductive, PTL DEF Spec, ProtectedStays

=============================================================================
