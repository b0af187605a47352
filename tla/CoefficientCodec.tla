-------------------------- MODULE CoefficientCodec --------------------------
(***************************************************************************)
(* The lossless half of the coefficient codec: the quantised coefficients  *)
(* of a cluster, a small integer for each layer and vertex, as canonical   *)
(* Huffman streams.  Writing is CompressClusterCoeffsFromQ                 *)
(* (src/src/coeff/coeff_cluster_codec.cpp) with huffman_canonical.cpp and  *)
(* bit_io.h; reading is DecodeGroupIntoRanges                              *)
(* (src/src/eval/linkage_cluster_provider.cpp).  The writer splits the     *)
(* vertices by a flag of each; the reader knows only two numbers and       *)
(* fills ranges of positions.                                              *)
(*                                                                         *)
(* The streams of a cluster share nothing: each has its own model, writer  *)
(* and reader.  A behaviour follows one of them, any one, from its symbols *)
(* to the coefficients the reader sets, one action to a turn of the loops. *)
(* The derived tables are operators on the code lengths, as the reader     *)
(* rebuilds them from nothing else.                                        *)
(***************************************************************************)
EXTENDS ClusterLayout

CONSTANTS
    Layers,   \* number of layers, m
    QMax,     \* largest quantised magnitude: the alphabet is -QMax .. QMax
    MaxBits   \* WriteBits takes no more bits at once (32 in the code)

ASSUME CodecAssumption == Layers \in Nat \ {0} /\ QMax \in Nat \ {0} /\ MaxBits \in Nat

VARIABLES
    codec,    \* "idle", "counting", "merging", "writing", "written", "reading",
              \* "read" or "error"
    q,        \* the quantised coefficients: q[l][u] of layer l and vertex u
    stream,   \* the group of vertices and the layers of the stream that is followed
    nodes,    \* HuffmanCodeLengths: the priority queue
    len,      \* the model: the code length of each symbol, 0 if it has no code
    coded,    \* EncodeAllLayers, EncodeOneLayer: how many symbols are written
    payload,  \* BitWriter: the bits
    reader,   \* BitReader and DecodeSymbol: the bits read, and how many of them and
              \* what value belong to the current symbol
    decoded   \* the symbols read

coefficients == <<codec, q, stream, nodes, len, coded, payload, reader, decoded>>

CodecIdle ==
    /\ codec = "idle"
    /\ q = <<>> /\ stream = <<>> /\ nodes = {} /\ len = <<>> /\ coded = 0
    /\ payload = <<>> /\ reader = <<>> /\ decoded = <<>>

S == 2 * QMax + 1
Symbols == 0 .. S - 1
SymFromQ(c) == c + QMax
QFromSym(s) == s - S \div 2     \* the reader's base

(***************************************************************************)
(* The symbols of a stream: those of a layer after those of another, in    *)
(* each the vertices of the group in ascending order.  Layers share one    *)
(* stream of a group, or each has its own.                                 *)
(***************************************************************************)
Streams ==
    LET groups == {"root", "linkage"}
    IN [group : groups, first : {1}, count : {Layers}]
          \cup [group : groups, first : 1 .. Layers, count : {1}]

Linkage == {u \in Locals(cluster) : u >= cluster.nv /\ cluster.parent[u] # 0}
Group(g) == IF g = "linkage" THEN Linkage ELSE Locals(cluster) \ Linkage

Width == Cardinality(Group(stream.group))
NSymbols == stream.count * Width

SymbolOf(row, column) ==
    SymFromQ(q[stream.first + row][Ascending(Group(stream.group))[column + 1]])

\* Seeded bug: the two loops of the writer are exchanged.
SymbolByVertex(k) == SymbolOf(k % stream.count, k \div stream.count)

Symbol(k) == SymbolOf(k \div Width, k % Width)

Freq(s) == Cardinality({k \in 0 .. NSymbols - 1 : Symbol(k) = s})
Used == {s \in Symbols : Freq(s) > 0}

\* A group without vertices has no stream.
StartStream(values) ==
    /\ stage = "final" /\ codec = "idle"
    /\ codec' = "counting"
    /\ q' = values
    /\ \E s \in Streams : Group(s.group) # {} /\ stream' = s
    /\ UNCHANGED <<nodes, len, coded, payload, reader, decoded>>

(***************************************************************************)
(* HuffmanCodeLengths.  A node of the queue is its frequency, its smallest *)
(* symbol and the depth of the symbols under it.                           *)
(***************************************************************************)
NodeLess(a, b) == a.freq < b.freq \/ (a.freq = b.freq /\ a.sym < b.sym)
Top(T) == CHOOSE a \in T : \A b \in T \ {a} : NodeLess(a, b)

Merged(a, b) ==
    [freq |-> a.freq + b.freq, sym |-> IF a.sym < b.sym THEN a.sym ELSE b.sym,
     depth |-> [s \in DOMAIN a.depth \cup DOMAIN b.depth |->
                  1 + IF s \in DOMAIN a.depth THEN a.depth[s] ELSE b.depth[s]]]

BuildFreq ==
    /\ codec = "counting" /\ codec' = "merging"
    /\ nodes' = {[freq |-> Freq(s), sym |-> s, depth |-> [x \in {s} |-> 0]] : s \in Used}
    /\ UNCHANGED <<q, stream, len, coded, payload, reader, decoded>>

MergeNodes ==
    /\ codec = "merging" /\ Cardinality(nodes) > 1
    /\ LET a == Top(nodes)
           b == Top(nodes \ {a})
       IN nodes' = (nodes \ {a, b}) \cup {Merged(a, b)}
    /\ UNCHANGED <<codec, q, stream, len, coded, payload, reader, decoded>>

AssignLengths ==
    /\ codec = "merging" /\ Cardinality(nodes) = 1
    /\ codec' = "writing"
    /\ LET depth_of == Top(nodes).depth
       IN len' = [s \in Symbols |-> IF s \notin DOMAIN depth_of THEN 0
                                    ELSE IF DOMAIN depth_of = {s} THEN 1 ELSE depth_of[s]]
    /\ UNCHANGED <<q, stream, nodes, coded, payload, reader, decoded>>

(***************************************************************************)
(* BuildDerivedTables: the canonical code of the lengths.                  *)
(***************************************************************************)
MaxLen == CHOOSE n \in {len[s] : s \in Symbols} : \A s \in Symbols : len[s] <= n
BlCount(b) == IF b = 0 THEN 0 ELSE Cardinality({s \in Symbols : len[s] = b})

FirstCode[b \in Nat] == IF b = 0 THEN 0 ELSE 2 * (FirstCode[b - 1] + BlCount(b - 1))

FirstSym(b) == Cardinality({s \in Symbols : len[s] \in 1 .. b - 1})

SymLess(x, y) == len[x] < len[y] \/ (len[x] = len[y] /\ x < y)
SymsSorted == SortedBy({s \in Symbols : len[s] > 0}, SymLess)

Code(s) == FirstCode[len[s]] + Cardinality({x \in 0 .. s - 1 : len[x] = len[s]})

(***************************************************************************)
(* The bits of a code, the highest first; the last byte is filled up with  *)
(* zeros.                                                                  *)
(***************************************************************************)
ShiftRight(x, i) ==
    LET half[j \in Nat] == IF j = 0 THEN x ELSE half[j - 1] \div 2
    IN half[i]

WriteBits(bits, nbits) == [k \in 1 .. nbits |-> ShiftRight(bits, nbits - k) % 2]

EncodeSymbol ==
    /\ codec = "writing" /\ coded < NSymbols
    /\ LET s == Symbol(coded)
       IN /\ len[s] \in 1 .. MaxBits
          /\ payload' = payload \o WriteBits(Code(s), len[s])
    /\ coded' = coded + 1
    /\ UNCHANGED <<codec, q, stream, nodes, len, reader, decoded>>

EncodeThrows ==
    /\ codec = "writing" /\ coded < NSymbols
    /\ len[Symbol(coded)] \notin 1 .. MaxBits
    /\ codec' = "error"
    /\ UNCHANGED <<q, stream, nodes, len, coded, payload, reader, decoded>>

Finish ==
    /\ codec = "writing" /\ coded = NSymbols
    /\ codec' = "written"
    /\ payload' = payload \o [k \in 1 .. (8 - (Len(payload) % 8)) % 8 |-> 0]
    /\ UNCHANGED <<q, stream, nodes, len, coded, reader, decoded>>

(***************************************************************************)
(* Reading: the range From .. To - 1 of positions, layer by layer.         *)
(***************************************************************************)
FirstLinkage == cluster.nv + cluster.depth_offsets[1]
From(g) == IF g = "linkage" THEN FirstLinkage ELSE 0
To(g) == IF g = "linkage" THEN Total(cluster) ELSE FirstLinkage

ReadWidth == To(stream.group) - From(stream.group)

OpenStream ==
    /\ codec = "written" /\ codec' = "reading"
    /\ reader' = [pos |-> 0, bits |-> 0, code_val |-> 0]
    /\ UNCHANGED <<q, stream, nodes, len, coded, payload, decoded>>

\* One turn of DecodeSymbol's loop, which gives 0 for bits that are no code.
ReadBit ==
    /\ codec = "reading" /\ Len(decoded) < stream.count * ReadWidth
    /\ LET bits == reader.bits + 1
           code_val == 2 * reader.code_val + payload[reader.pos + 1]
           idx == code_val - FirstCode[bits]
           found == idx \in 0 .. BlCount(bits) - 1
           ends == found \/ bits = MaxLen
       IN /\ reader' = [pos |-> reader.pos + 1,
                        bits |-> IF ends THEN 0 ELSE bits,
                        code_val |-> IF ends THEN 0 ELSE code_val]
          /\ decoded' = CASE found -> Append(decoded, SymsSorted[FirstSym(bits) + idx + 1])
                          [] ends /\ ~found -> Append(decoded, 0)
                          [] OTHER -> decoded
    /\ UNCHANGED <<codec, q, stream, nodes, len, coded, payload>>

EndStream ==
    /\ codec = "reading" /\ Len(decoded) = stream.count * ReadWidth
    /\ codec' = "read"
    /\ UNCHANGED <<q, stream, nodes, len, coded, payload, reader, decoded>>

CodecStep ==
    \/ BuildFreq \/ MergeNodes \/ AssignLengths
    \/ EncodeSymbol \/ EncodeThrows \/ Finish
    \/ OpenStream \/ ReadBit \/ EndStream

Quantised == [1 .. Layers -> [Locals(cluster) -> -QMax .. QMax]]

CodecNext ==
    \/ LayoutNext /\ UNCHANGED coefficients
    \/ \E values \in Quantised : StartStream(values) /\ UNCHANGED layout
    \/ CodecStep /\ UNCHANGED layout

CodecSpec == LayoutInit /\ CodecIdle /\ [][CodecNext]_<<layout, coefficients>>

-----------------------------------------------------------------------------
(***************************************************************************)
(* Every coefficient comes back at its own vertex and layer: the reader's  *)
(* ranges are the writer's groups, the codes are told apart bit by bit,    *)
(* and neither the payload nor the table ends before the symbols do.  Only *)
(* a code that is too long for WriteBits stops the writer.                 *)
(***************************************************************************)
CoefficientsReadBack ==
    /\ codec # "idle" =>
          \A g \in {"root", "linkage"} : Group(g) = From(g) .. To(g) - 1
    /\ codec = "error" => \E s \in Symbols : len[s] > MaxBits
    /\ codec = "reading" /\ Len(decoded) < stream.count * ReadWidth =>
          reader.pos < Len(payload) /\ reader.bits < MaxLen
    /\ codec = "read" =>
          \A row \in 0 .. stream.count - 1, column \in 0 .. ReadWidth - 1 :
             QFromSym(decoded[row * ReadWidth + column + 1])
                 = q[stream.first + row][From(stream.group) + column]

=============================================================================
