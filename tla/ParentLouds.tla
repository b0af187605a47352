---------------------------- MODULE ParentLouds ----------------------------
(***************************************************************************)
(* ParentLOUDS (src/src/succinct/parent_louds.cpp) over                    *)
(* RankSelectBitVector (src/include/stlq/succinct/bitvec_rank_select.h):   *)
(* the parents of a cluster as a bit string, one run of ones per vertex    *)
(* (its children) and a zero after it, the super-root first.               *)
(*                                                                         *)
(* The writer and two of the readers are loops, and one action is one turn *)
(* of a loop.  The third reader, over rank and select, is an operator on   *)
(* the finished words.  Clusters come from the layout of ClusterLayout.    *)
(*                                                                         *)
(* A machine word is the set of its one bits; W is the width of a word     *)
(* (64 in the code), so a small W puts word boundaries inside small        *)
(* clusters.  The packing of the rank counters into bytes is left out.     *)
(***************************************************************************)
EXTENDS ClusterLayout

CONSTANTS
    W,             \* bits of a word
    SelectStride,  \* select_stride: a sample for every so many ones
    SuperWords     \* words of a superblock of the rank directory

ASSUME WidthAssumption == W \in Nat \ {0} /\ SelectStride \in Nat \ {0} /\ SuperWords \in Nat \ {0}

VARIABLES
    step,   \* "idle", "writing", "written", "decoding", "decoded", "reading" or "error"
    words,  \* the bit vector
    put,    \* BuildLoudsWordsFromDegrees: the vertex, the bit and the ones still to write
    full,   \* DecodeParent1Based: its counters and its result
    dec,    \* SequentialParentDecoder: the ones of the current word still to be read,
            \* the position of its first bit, the next word, the children emitted
    call    \* its caller: the skips under way, the children asked for, the last answer

louds == <<step, words, put, full, dec, call>>

LoudsIdle ==
    /\ step = "idle"
    /\ words = <<>> /\ put = <<>> /\ full = <<>> /\ dec = <<>> /\ call = <<>>

Word(pos) == pos \div W
Bit(pos) == pos % W
One(pos) == Bit(pos) \in words[Word(pos)]

Bits == 2 * Total(cluster) + 1
NWords == (Bits + W - 1) \div W

Lesser(a, b) == IF a < b THEN a ELSE b

(***************************************************************************)
(* Building.  What is encoded is a zero for every virtual vertex and the   *)
(* stored parents of the real ones (AppendCluster of                       *)
(* src/src/io/linkage_list_store.cpp).                                     *)
(***************************************************************************)
ParentAll == [u \in Locals(cluster) |-> IF Virtual(cluster, u) THEN 0 ELSE cluster.parent[u]]

Degree(p) == Cardinality({u \in Locals(cluster) : ParentAll[u] = p})

StartLouds ==
    /\ stage = "final" /\ step = "idle"
    /\ step' = IF \A u \in Locals(cluster) : ParentAll[u] <= Total(cluster)
               THEN "writing" ELSE "error"
    /\ words' = [w \in 0 .. NWords - 1 |-> {}]
    /\ put' = [u |-> 0, pos |-> 0, remain |-> Degree(0)]
    /\ UNCHANGED <<full, dec, call>>

\* As many ones as the current word still has room for.
PutOnes ==
    /\ step = "writing" /\ put.u <= Total(cluster) /\ put.remain > 0
    /\ LET bi == Bit(put.pos)
           take == Lesser(put.remain, W - bi)
       IN /\ words' = [words EXCEPT ![Word(put.pos)] = @ \cup (bi .. bi + take - 1)]
          /\ put' = [put EXCEPT !.pos = @ + take, !.remain = @ - take]
    /\ UNCHANGED <<step, full, dec, call>>

\* The zero that ends the children of a vertex is there already.
PutZero ==
    /\ step = "writing" /\ put.u <= Total(cluster) /\ put.remain = 0
    /\ put' = [u |-> put.u + 1, pos |-> put.pos + 1, remain |-> Degree(put.u + 1)]
    /\ UNCHANGED <<step, words, full, dec, call>>

EndLouds ==
    /\ step = "writing" /\ put.u > Total(cluster)
    /\ step' = IF put.pos = Bits THEN "written" ELSE "error"
    /\ UNCHANGED <<words, put, full, dec, call>>

(***************************************************************************)
(* Rank and select.                                                        *)
(***************************************************************************)
\* Ones among the bits lo .. hi-1.
Ones(lo, hi) == Cardinality({p \in lo .. hi - 1 : One(p)})

SuperRank(s) == Ones(0, s * SuperWords * W)
WordRankInSuper(w) == Ones((w \div SuperWords) * SuperWords * W, w * W)

\* Seeded bug: (1 << (bit + 1)) - 1, which is 0 for the last bit of a word.
MaskByShift(bit) == IF bit = W - 1 THEN {} ELSE 0 .. bit

Mask(bit) == 0 .. bit

\* Ones and zeros among the bits 0 .. pos.
Rank1(pos) ==
    SuperRank(Word(pos) \div SuperWords) + WordRankInSuper(Word(pos))
        + Cardinality(words[Word(pos)] \cap Mask(Bit(pos)))
Rank0(pos) == pos + 1 - Rank1(pos)

Select1InWord(w, k) == Ascending(w)[k]

\* Position of every SelectStride-th one, from the first.
Sample(s) == Ascending({p \in 0 .. NWords * W - 1 : One(p)})[s * SelectStride + 1]

\* What is left to find after the sample of k's bucket, the sample included.
Bucket(k) == (k - 1) \div SelectStride
Remaining(k) == k - Bucket(k) * SelectStride

\* The scan from a sample stops in the first word that holds what is left.
ScanStops(pos, left) ==
    CHOOSE w \in Word(pos) .. NWords - 1 :
        Ones(pos, w * W) < left /\ left <= Ones(pos, (w + 1) * W)

Select1(k) ==
    LET pos == Sample(Bucket(k))
        w == ScanStops(pos, Remaining(k))
    IN w * W + Select1InWord({x \in words[w] : w * W + x >= pos},
                             Remaining(k) - Ones(pos, w * W))

Parent1BasedOf(u) == Rank0(Select1(u + 1))

(***************************************************************************)
(* DecodeParent1Based: every zero ends the children of one vertex.         *)
(***************************************************************************)
NoParent == -1   \* an element of the result that is not written

StartDecode ==
    /\ step = "written" /\ step' = "decoding"
    /\ full' = [prev_zero |-> -1, node_id |-> 0, next_child |-> 1,
                out |-> [u \in Locals(cluster) |-> NoParent]]
    /\ UNCHANGED <<words, put, dec, call>>

ZerosLeft == {p \in full.prev_zero + 1 .. Bits - 1 : ~One(p)}

DecodeNode ==
    /\ step = "decoding" /\ full.node_id <= Total(cluster)
    /\ \E zpos \in ZerosLeft :
          LET end == full.next_child + (zpos - full.prev_zero - 1)
          IN /\ \A p \in ZerosLeft : zpos <= p
             /\ full' = [prev_zero |-> zpos, node_id |-> full.node_id + 1,
                         next_child |-> Lesser(end, Total(cluster) + 1),
                         out |-> [u \in Locals(cluster) |->
                                    IF u + 1 \in full.next_child .. end - 1
                                    THEN full.node_id ELSE full.out[u]]]
    /\ UNCHANGED <<step, words, put, dec, call>>

EndDecode ==
    /\ step = "decoding" /\ (full.node_id > Total(cluster) \/ ZerosLeft = {})
    /\ step' = "decoded"
    /\ UNCHANGED <<words, put, full, dec, call>>

(***************************************************************************)
(* SequentialParentDecoder, opened at the first vertex or behind the roots *)
(* of a cluster (BuildProviderClusterView of                               *)
(* src/src/eval/recall_linkage_disk_parent_louds_native.cpp).              *)
(***************************************************************************)
Roots == cluster.nv + cluster.depth_offsets[1]

Open(d, asked) ==
    /\ step = "written" /\ step' = "reading"
    /\ dec' = d
    /\ call' = [skip |-> 0, asked |-> asked, answer |-> NoParent]
    /\ UNCHANGED <<words, put, full>>

OpenFirst == Open([ones |-> {}, base |-> 0, next |-> 0, emitted |-> 0], 0)

\* The first bit after the ones of the roots and the zero of the super-root.
FirstLinked == Roots + 1

InitializeAfterValidatedRootPrefix ==
    Open([ones |-> words[Word(FirstLinked)] \cap (Bit(FirstLinked) .. W - 1),
          base |-> Word(FirstLinked) * W, next |-> Word(FirstLinked) + 1,
          emitted |-> Roots], Roots)

\* The words from the next one that still hold a child.
FullWords == {w \in dec.next .. NWords - 1 : words[w] # {}}

Refilled ==
    IF dec.ones # {} THEN dec
    ELSE LET w == CHOOSE v \in FullWords : \A x \in FullWords : v <= x
         IN [dec EXCEPT !.ones = words[w], !.base = w * W, !.next = w + 1]

CallSkip ==
    /\ step = "reading" /\ call.skip = 0
    /\ \E k \in 1 .. Total(cluster) - call.asked :
          call' = [skip |-> k, asked |-> call.asked + k, answer |-> NoParent]
    /\ UNCHANGED <<step, words, put, full, dec>>

\* One turn of Skip's loop: the lowest ones of a word, or all of it.
Skip ==
    /\ step = "reading" /\ call.skip > 0
    /\ LET d == Refilled
           consumed == Lesser(call.skip, Cardinality(d.ones))
           Kept == {x \in d.ones : Cardinality({y \in d.ones : y < x}) >= consumed}
       IN /\ dec' = [d EXCEPT !.ones = Kept, !.emitted = @ + consumed]
          /\ call' = [call EXCEPT !.skip = @ - consumed]
    /\ UNCHANGED <<step, words, put, full>>

NextParent1Based ==
    /\ step = "reading" /\ call.skip = 0 /\ call.asked < Total(cluster)
    /\ \E bit \in Refilled.ones :
          /\ \A x \in Refilled.ones : bit <= x
          /\ dec' = [Refilled EXCEPT !.ones = @ \ {bit}, !.emitted = @ + 1]
          /\ call' = [call EXCEPT !.asked = @ + 1,
                                  !.answer = Refilled.base + bit - Refilled.emitted]
    /\ UNCHANGED <<step, words, put, full>>

LoudsStep ==
    \/ StartLouds \/ PutOnes \/ PutZero \/ EndLouds
    \/ StartDecode \/ DecodeNode \/ EndDecode
    \/ OpenFirst \/ InitializeAfterValidatedRootPrefix
    \/ CallSkip \/ Skip \/ NextParent1Based

LoudsNext ==
    \/ LayoutNext /\ UNCHANGED louds
    \/ LoudsStep /\ UNCHANGED layout

LoudsSpec == LayoutInit /\ LoudsIdle /\ [][LoudsNext]_<<layout, louds>>

-----------------------------------------------------------------------------
(***************************************************************************)
(* Every way the program reads parents back gives what was stored: random  *)
(* access over rank and select, the full decode (whose counters end where  *)
(* its assertions say), and the sequential decoder from anywhere it is     *)
(* opened at or skipped to, which also finds a word whenever it looks for  *)
(* one.  The writer never meets its internal errors, the vertices that     *)
(* depth_offsets counts as roots are those without a parent, and every     *)
(* other one has its parent before it, as the walks that read linked       *)
(* vertices in one pass rely on.                                           *)
(***************************************************************************)
ParentsReadBack ==
    /\ step # "error"
    /\ step = "written" =>
          \A u \in Locals(cluster) :
             /\ Parent1BasedOf(u) = cluster.parent[u]
             /\ cluster.parent[u] \in IF u < Roots THEN {0} ELSE 1 .. u
    /\ step = "decoded" =>
          /\ full.out = cluster.parent
          /\ full.node_id = Total(cluster) + 1 /\ full.next_child = Total(cluster) + 1
    /\ step = "reading" =>
          /\ call.answer = NoParent \/ call.answer = cluster.parent[call.asked - 1]
          /\ call.skip > 0 \/ call.asked < Total(cluster) => dec.ones # {} \/ FullWords # {}

=============================================================================
