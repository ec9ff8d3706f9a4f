------------------------------ MODULE BvhTree ------------------------------
(***************************************************************************)
(* The collision tree of an .rmdl (src/src/studiomdl/rmdl_bvh.cpp).  The   *)
(* triangles are divided along the longest axis into four parts, again and *)
(* again, until a part fits a leaf (BuildBVH4Node); the tree is then       *)
(* written out as nodes, leaf words and packed vertices (EmitBVH4Nodes,    *)
(* EmitPoly3Leaf) and the three are put into one blob.  The two recursive  *)
(* functions are a stack of calls each, one step one call.                 *)
(*                                                                         *)
(* Abstractions: coordinates are multiples of 1/Unit; floats are exact.    *)
(* Build nodes count from 1 (0: no child), the indices that are written    *)
(* out from 0.  A leaf word is a record of its bit fields.                 *)
(***************************************************************************)
EXTENDS Integers, Sequences, FiniteSets, FiniteSetsExt, Functions

CONSTANTS
    Soups,       \* the triangle lists CollectTriangles can return
    MaxLeaf,     \* MAX_TRIS_PER_LEAF
    MaxDepth,    \* MAX_BVH_DEPTH
    FourWayAt,   \* the number of triangles from which a node has four parts
    Unit,        \* coordinate steps in a unit of the model
    PackMax,     \* 32000: the largest extent that is packed unscaled
    Int16Max,    \* 32767
    BaseUnit,    \* 1024: what a leaf's base vertex is a multiple of
    BaseField    \* 2^16: the values of its field

ASSUME LeafAssumption == MaxLeaf \in Nat \ {0} /\ MaxLeaf <= 16
ASSUME DepthAssumption == MaxDepth \in Nat \ {0}
ASSUME FourWayAssumption == FourWayAt \in Nat
ASSUME PackAssumption ==
    Unit \in Nat \ {0} /\ PackMax \in Nat \ {0} /\ Int16Max \in Nat /\ PackMax <= Int16Max
ASSUME BaseAssumption == BaseUnit \in Nat \ {0, 1} /\ BaseField \in Nat \ {0}

\* How many triangles d levels of at least two parts and then leaves can hold.
Capacity[d \in 0..MaxDepth] == IF d = 0 THEN MaxLeaf ELSE 2 * Capacity[d - 1]

\* Triangles are counted by an int: there are fewer than 16 * 2^32.
ASSUME SoupAssumption ==
    \A s \in Soups : s \in Seq([1..3 -> [1..3 -> Int]]) /\ Len(s) <= Capacity[MaxDepth]
\* The base field counts 2^26 packed vertices of 6 bytes.  The code does not compare,
\* but the buffer that the blob is copied to holds 32 MB (RMDL_FILEBUF_SIZE).
ASSUME FieldAssumption == \A s \in Soups : 3 * Len(s) <= BaseUnit * BaseField

VARIABLES
    pc,      \* "build", "emit", "serialize", "done"
    tris,    \* g_tris
    frame,   \* g_bvhOrigin and g_bvhScale: the overall bounds they come from
    calls,   \* the calls of BuildBVH4Node that are still to be made
    nodes,   \* g_buildNodes
    emits,   \* the calls of EmitBVH4Nodes and EmitPoly3Leaf still to be made
    bvh,     \* g_bvhNodes
    leaves,  \* g_leafData
    verts,   \* g_packedVerts
    blob     \* the section offsets of the result

vars == <<pc, tris, frame, calls, nodes, emits, bvh, leaves, verts, blob>>

Node == 0
None == 1
Poly3 == 5
Axes == 1..3
Slots == 1..4

\* ComputeTriBounds of the triangles in S
Corners(S) == {tris[p[1]][p[2]] : p \in S \X (1..3)}
Mins(S) == [a \in Axes |-> Min({v[a] : v \in Corners(S)})]
Maxs(S) == [a \in Axes |-> Max({v[a] : v \in Corners(S)})]

TypeOK ==
    /\ pc \in {"build", "emit", "serialize", "done"}
    /\ tris \in Soups
    /\ \A c \in Range(calls) : c.depth \in 0..MaxDepth /\ c.tris # << >>
    /\ \A n \in Range(nodes) :
          /\ n.isLeaf => Range(n.type) = {None}
          /\ \A s \in Slots : n.child[s] \in 0..Len(nodes) /\ n.type[s] \in {Node, None, Poly3}
    /\ \A n \in Range(bvh) : \A s \in Slots :
          /\ n.index[s] \in 0..(Len(bvh) + Len(leaves))
          /\ Range(n.mins[s]) \cup Range(n.maxs[s]) \subseteq (-Int16Max - 1)..Int16Max
    /\ \A v \in Range(verts) : Range(v) \subseteq (-Int16Max - 1)..Int16Max

Call(ts, depth, parent, slot) ==
    [tris |-> ts, depth |-> depth, parent |-> parent, slot |-> slot]

\* R5_BuildBVHCollision up to step 3; without triangles there is no tree.
Init ==
    /\ pc = "build"
    /\ tris \in {s \in Soups : s # << >>}
    /\ frame = [mins |-> Mins(DOMAIN tris), maxs |-> Maxs(DOMAIN tris)]
    /\ calls = <<Call([i \in DOMAIN tris |-> i], 0, 0, 1)>>
    /\ nodes = << >>
    /\ emits = << >>
    /\ bvh = << >>
    /\ leaves = << >>
    /\ verts = << >>
    /\ blob = << >>

-----------------------------------------------------------------------------
\* PartitionTriangles: sort along the longest axis, then cut.  std::sort leaves
\* triangles of equal centroid in any order.  The parts are filled one after the
\* other, so those that stay empty, which the code removes, are the last ones.
LongestAxis(S) ==
    LET size == [a \in Axes |-> Maxs(S)[a] - Mins(S)[a]]
        xy == IF size[2] > size[1] THEN 2 ELSE 1
    IN  IF size[3] > size[xy] THEN 3 ELSE xy
Centroid3(t, a) == tris[t][1][a] + tris[t][2][a] + tris[t][3][a]

SortedOrders(ts) ==
    LET axis == LongestAxis(Range(ts))
        Along(s) == \A i \in 1..(Len(s) - 1) : Centroid3(s[i], axis) <= Centroid3(s[i + 1], axis)
    IN  {s \in [DOMAIN ts -> Range(ts)] : Range(s) = Range(ts) /\ Along(s)}

Parts(s) ==
    LET count == Len(s)
        n == IF count >= FourWayAt THEN 4 ELSE 2
        per == (count + n - 1) \div n
        full == (count + per - 1) \div per
    IN  [p \in 1..full |-> SubSeq(s, (p - 1) * per + 1, Min({p * per, count}))]

EmptyChildren == [s \in Slots |-> 0]
LeafNode(ts) ==
    [isLeaf |-> TRUE, tris |-> ts, mins |-> Mins(Range(ts)), maxs |-> Maxs(Range(ts)),
     child |-> EmptyChildren, type |-> [s \in Slots |-> None]]
InnerNode(ts) == [LeafNode(ts) EXCEPT !.isLeaf = FALSE, !.tris = << >>]

\* The caller notes the new node in its child slot.
Link(call, type) ==
    IF call.parent = 0 THEN nodes
    ELSE [nodes EXCEPT ![call.parent].child[call.slot] = Len(nodes) + 1,
                       ![call.parent].type[call.slot] = type]

FitsLeaf(ts) == Len(ts) <= MaxLeaf

AfterBuild(rest) == IF rest = << >> THEN "emit" ELSE "build"
FirstEmit == <<[build |-> 1, parent |-> 0, slot |-> 1]>>

BuildLeaf ==
    LET c == Head(calls)
    IN  /\ pc = "build"
        /\ FitsLeaf(c.tris) \/ c.depth >= MaxDepth
        /\ nodes' = Append(Link(c, Poly3), LeafNode(c.tris))
        /\ calls' = Tail(calls)
        /\ pc' = AfterBuild(calls')
        /\ emits' = IF pc' = "emit" THEN FirstEmit ELSE emits
        /\ UNCHANGED <<tris, frame, bvh, leaves, verts, blob>>

BuildInner ==
    LET c == Head(calls)
        me == Len(nodes) + 1
    IN  /\ pc = "build"
        /\ ~FitsLeaf(c.tris) /\ c.depth < MaxDepth
        /\ nodes' = Append(Link(c, Node), InnerNode(c.tris))
        /\ \E s \in SortedOrders(c.tris) :
              calls' = [p \in DOMAIN Parts(s) |-> Call(Parts(s)[p], c.depth + 1, me, p)]
                          \o Tail(calls)
        /\ UNCHANGED <<pc, tris, frame, emits, bvh, leaves, verts, blob>>

-----------------------------------------------------------------------------
\* A coordinate relative to the origin, the centre, in packed units: a fraction.
Extent == Max({frame.maxs[a] - frame.mins[a] : a \in Axes} \cup {2 * Unit})
\* Mutant: a large model is not scaled.
ScaleUnit == <<1, 2 * Unit>>
Scale == IF Extent <= 2 * Unit * PackMax THEN <<1, 2 * Unit>> ELSE <<PackMax, Extent>>
Num(w, a) == (2 * w - (frame.mins[a] + frame.maxs[a])) * Scale[1]
Den == Scale[2]

Clamp(x) == Max({-Int16Max - 1, Min({Int16Max, x})})
Floor(w, a) == Clamp(Num(w, a) \div Den)
\* Mutant: the upper bound is rounded down like the lower.
CeilRoundedDown(w, a) == Clamp(Num(w, a) \div Den)
Ceil(w, a) == Clamp(-((-Num(w, a)) \div Den))
\* EmitPackedVertex: the conversion to int16 drops the fraction.
Truncate(w, a) ==
    Clamp(IF Num(w, a) >= 0 THEN Num(w, a) \div Den ELSE -((-Num(w, a)) \div Den))
Packed(v) == [a \in Axes |-> Truncate(v[a], a)]

\* PackBoundsToInt16, for one child.
PackMins(mins) == [a \in Axes |-> Floor(mins[a], a)]
PackMaxs(maxs) == [a \in Axes |-> Ceil(maxs[a], a)]

\* EmitPoly3Leaf: the vertices v0, v2, v1 of every triangle, one header word, one
\* word per triangle.  Mutant: later offsets count from the leaf's base, too.
LeafWordsFromBase(n, base) ==
    LET shifted == (base \div BaseUnit) % BaseField
    IN  <<[num |-> n - 1, base |-> shifted]>> \o
        [i \in 1..n |-> [offset |-> (base + 3 * (i - 1) - BaseUnit * (base \div BaseUnit))
                                      % (2 * BaseUnit), d1 |-> 0, d2 |-> 1]]
LeafWords(n, base) ==
    LET shifted == (base \div BaseUnit) % BaseField
        Running(i) == IF i = 1 THEN BaseUnit * (base \div BaseUnit) ELSE base + 3 * (i - 2)
    IN  <<[num |-> n - 1, base |-> shifted]>> \o
        [i \in 1..n |-> [offset |-> (base + 3 * (i - 1) - Running(i)) % (2 * BaseUnit),
                         d1 |-> 0, d2 |-> 1]]

LeafTris(b) == SubSeq(nodes[b].tris, 1, Min({Len(nodes[b].tris), MaxLeaf}))
LeafVerts(ts) ==
    [i \in 1..(3 * Len(ts)) |->
        LET t == tris[ts[(i + 2) \div 3]]
        IN  Packed(CASE i % 3 = 1 -> t[1] [] i % 3 = 2 -> t[3] [] i % 3 = 0 -> t[2])]

EmitLeafData(b) ==
    /\ leaves' = leaves \o LeafWords(Len(LeafTris(b)), Len(verts))
    /\ verts' = verts \o LeafVerts(LeafTris(b))

AfterEmit(rest) == IF rest = << >> THEN "serialize" ELSE "emit"

\* An unused child gets its parent's bounds turned inside out.
ChildMins(b, s) == IF nodes[b].child[s] = 0 THEN nodes[b].maxs ELSE nodes[nodes[b].child[s]].mins
ChildMaxs(b, s) == IF nodes[b].child[s] = 0 THEN nodes[b].mins ELSE nodes[nodes[b].child[s]].maxs

\* A tree of one leaf: a node with the leaf as its first child.
EmitRootLeaf ==
    LET b == nodes[1]
    IN  /\ pc = "emit"
        /\ Head(emits).parent = 0 /\ b.isLeaf
        /\ EmitLeafData(1)
        /\ bvh' = <<[type |-> [s \in Slots |-> IF s = 1 THEN Poly3 ELSE None],
                     index |-> [s \in Slots |-> IF s = 1 THEN Len(leaves) ELSE 0],
                     mins |-> [s \in Slots |-> PackMins(IF s = 1 THEN b.mins ELSE b.maxs)],
                     maxs |-> [s \in Slots |-> PackMaxs(IF s = 1 THEN b.maxs ELSE b.mins)]]>>
        /\ emits' = Tail(emits)
        /\ pc' = AfterEmit(emits')
        /\ UNCHANGED <<tris, frame, calls, nodes, blob>>

EmitLeafChild ==
    LET e == Head(emits)
    IN  /\ pc = "emit"
        /\ e.parent # 0 /\ nodes[e.build].isLeaf
        /\ EmitLeafData(e.build)
        /\ bvh' = [bvh EXCEPT ![e.parent].index[e.slot] = Len(leaves)]
        /\ emits' = Tail(emits)
        /\ pc' = AfterEmit(emits')
        /\ UNCHANGED <<tris, frame, calls, nodes, blob>>

EmitInner ==
    LET e == Head(emits)
        b == nodes[e.build]
        linked == IF e.parent = 0 THEN bvh
                  ELSE [bvh EXCEPT ![e.parent].index[e.slot] = Len(bvh)]
        Visit(s) == IF b.child[s] = 0 THEN << >>
                    ELSE <<[build |-> b.child[s], parent |-> Len(bvh) + 1, slot |-> s]>>
    IN  /\ pc = "emit"
        /\ ~b.isLeaf
        /\ bvh' = Append(linked,
                    [type |-> b.type, index |-> [s \in Slots |-> 0],
                     mins |-> [s \in Slots |-> PackMins(ChildMins(e.build, s))],
                     maxs |-> [s \in Slots |-> PackMaxs(ChildMaxs(e.build, s))]])
        /\ emits' = Visit(1) \o Visit(2) \o Visit(3) \o Visit(4) \o Tail(emits)
        /\ UNCHANGED <<pc, tris, frame, calls, nodes, leaves, verts, blob>>

-----------------------------------------------------------------------------
AlignUp(n, a) == ((n + a - 1) \div a) * a
NodeSection(end) == AlignUp(end, 64)

\* Step 5.  The fixed sections take 0x48 bytes; a packed vertex takes 6, a leaf
\* word 4, a node 64.
Serialize ==
    LET leafOfs == AlignUp(72 + 6 * Len(verts), 4)
        nodesOfs == NodeSection(leafOfs + 4 * Len(leaves))
    IN  /\ pc = "serialize"
        /\ blob' = [packedVertsOfs |-> 72, leafDataOfs |-> leafOfs, nodesOfs |-> nodesOfs,
                    total |-> AlignUp(nodesOfs + 64 * Len(bvh), 4)]
        /\ pc' = "done"
        /\ UNCHANGED <<tris, frame, calls, nodes, emits, bvh, leaves, verts>>

Next ==
    \/ BuildLeaf \/ BuildInner
    \/ EmitRootLeaf \/ EmitLeafChild \/ EmitInner
    \/ Serialize

Spec == Init /\ [][Next]_vars

-----------------------------------------------------------------------------
\* What the engine finds: the leaf slots under node i (an index refers to a later
\* node), and the triangles of a leaf, read word by word.
Leads(i, s) == bvh[i].type[s] = Node /\ bvh[i].index[s] + 1 \in (i + 1)..Len(bvh)
LeafSlots ==
    LET under[i \in 1..Len(bvh)] ==
            UNION {IF Leads(i, s) THEN under[bvh[i].index[s] + 1]
                   ELSE IF bvh[i].type[s] = Poly3 THEN {<<i, s>>} ELSE {}
                   : s \in Slots}
    IN  under

VertAt(i) == IF i + 1 \in DOMAIN verts THEN verts[i + 1] ELSE <<>>
ReadLeaf(index) ==
    LET header == leaves[index + 1]
        base[i \in 0..(header.num + 1)] ==
            IF i = 0 THEN header.base * BaseUnit
            ELSE base[i - 1] + leaves[index + 1 + i].offset
    IN  [i \in 1..(header.num + 1) |->
            <<VertAt(base[i]), VertAt(base[i] + 1 + leaves[index + 1 + i].d1),
              VertAt(base[i] + 1 + leaves[index + 1 + i].d2)>>]

ReadAt(p) == ReadLeaf(bvh[p[1]].index[p[2]])

\* Every triangle of the model is found in the tree exactly once, with the winding
\* the engine wants: v0, v2, v1 (PartitionTriangles, EmitBVH4Nodes, EmitPoly3Leaf).
EveryTriangleOnce ==
    pc \in {"serialize", "done"} =>
        LET Wanted(t) == <<Packed(tris[t][1]), Packed(tris[t][3]), Packed(tris[t][2])>>
            wanted == {<<t, Wanted(t)>> : t \in DOMAIN tris}
            found == UNION {{<<p, i, ReadAt(p)[i]>> : i \in DOMAIN ReadAt(p)}
                            : p \in LeafSlots[1]}
            Like(S, w) == Cardinality({x \in S : x[Len(x)] = w})
        IN  /\ Cardinality(found) = Len(tris)
            /\ \A w \in wanted : Like(found, w[2]) = Like(wanted, w[2])

\* A ray that misses the bounds of a child misses everything below it: the packed
\* vertices under a child lie within its packed bounds, at every level, although
\* vertices are truncated and bounds are rounded outwards.
BoundsEnclose ==
    pc \in {"serialize", "done"} =>
        \A i \in DOMAIN bvh : \A s \in Slots :
            LET below == IF bvh[i].type[s] = Poly3 THEN {<<i, s>>}
                         ELSE IF Leads(i, s) THEN LeafSlots[bvh[i].index[s] + 1] ELSE {}
            IN  \A p \in below : \A t \in Range(ReadAt(p)) : \A v \in Range(t) : \A a \in Axes :
                    bvh[i].mins[s][a] <= v[a] /\ v[a] <= bvh[i].maxs[s][a]

\* Reading a packed vertex back with the stored origin and scale gives the vertex
\* to within one packed unit: the scale keeps every coordinate out of the clamp
\* (R5_BuildBVHCollision, step 2, and EmitPackedVertex).
VerticesNear ==
    \A t \in DOMAIN tris : \A c \in 1..3 : \A a \in Axes :
        LET off == Num(tris[t][c][a], a) - Packed(tris[t][c])[a] * Den
        IN  -Den < off /\ off < Den

\* No leaf of the build tree holds more than EmitPoly3Leaf writes, so the depth
\* limit never cuts triangles off (BuildBVH4Node: leaf at MAX_BVH_DEPTH).
LeavesFit == \A n \in Range(nodes) : Len(n.tris) <= MaxLeaf

\* The sections of the blob follow each other without overlap, and the nodes
\* start at a multiple of 64 within it (R5_BuildBVHCollision, step 5).
SectionsFit ==
    pc = "done" =>
        /\ blob.packedVertsOfs + 6 * Len(verts) <= blob.leafDataOfs
        /\ blob.leafDataOfs + 4 * Len(leaves) <= blob.nodesOfs
        /\ blob.nodesOfs + 64 * Len(bvh) <= blob.total
        /\ blob.nodesOfs % 64 = 0

\* What Serialize leaves: vertices near their triangles, leaves of a size that
\* EmitPoly3Leaf writes, and sections that fit, on top of the type invariant.
BlobPacked == TypeOK /\ VerticesNear /\ LeavesFit /\ SectionsFit
=============================================================================
