--------------------------- MODULE VertexReaders ---------------------------
(***************************************************************************)
(* The two consumers of the files that LodVertices leaves behind, in the   *)
(* order WriteRMDLFiles (rmdl_write.cpp) runs them: CollectTriangles       *)
(* (rmdl_bvh.cpp) gathers the collision triangles of LOD 0, R5_BuildVGData *)
(* fills the .vg file.  Each walks the meshes with an offset into the      *)
(* loaded vertices that it advances by itself; one step is one mesh.  Both *)
(* take the vertex counts from mdl, the header in memory.                  *)
(*                                                                         *)
(* Abstractions: a .vg vertex is the vertex it was made from, the vertex   *)
(* whose weights it carries, and its index into the mesh's extra weights;  *)
(* an extra weight is <<vertex, number of the influence>>.  Flags are      *)
(* reduced to what they do to the size of a vertex; the model has more     *)
(* than one bone, so vertices carry weights.  Bone renaming, and the       *)
(* vertices' coordinates, are left out.                                    *)
(***************************************************************************)
EXTENDS LodVertices

CONSTANTS
    Influences,   \* Influences[p]: number of weights of the vertex at position p
    LargeModels,  \* isLargeModel: can full positions be needed
    IndexRange    \* 2^16: the values of a .vg index

VARIABLES
    stage,      \* "" until the files are done, then "collect", "vg", "written"
    lod, mesh,  \* the mesh the walk is at
    base,       \* localVertBase, localVertOffset
    tris,       \* g_tris: three vertices each
    large,      \* isLargeModel
    vg          \* r5_VGBuilder

readerVars == <<stage, lod, mesh, base, tris, large, vg>>
vars == <<lodVars, readerVars>>

EmptyVg == [meshes |-> << >>, vertices |-> << >>, indices |-> << >>,
            strips |-> << >>, extra |-> << >>, legacy |-> << >>, bytes |-> 0]

ReadersTypeOK ==
    /\ TypeOK
    /\ stage \in {"", "collect", "vg", "written"}
    /\ lod \in Nat /\ mesh \in Nat
    /\ base \in 0..(src.numLODs * NumVertexes)
    /\ \A t \in DOMAIN tris : Range(tris[t]) \subseteq 1..NumVertexes
    /\ \A v \in DOMAIN vg.vertices :
          /\ vg.vertices[v].mesh \in 1..(src.numLODs * Len(src.meshes))
          /\ vg.vertices[v].vertex \in 1..NumVertexes
    /\ \A i \in DOMAIN vg.indices : vg.indices[i] \in 0..(IndexRange - 1)

Init ==
    /\ LodInit
    /\ stage = ""
    /\ lod = 0 /\ mesh = 1
    /\ base = 0
    /\ tris = << >>
    /\ large \in LargeModels
    /\ vg = EmptyVg

Compile ==
    /\ LodNext
    /\ stage' = IF pc' = "sorted" THEN "collect" ELSE ""
    /\ UNCHANGED <<lod, mesh, base, tris, large, vg>>

-----------------------------------------------------------------------------
\* CollectTriangles copies the runs it takes for LOD 0: those whose LOD is 0.
CollectedVerts ==
    IF vvd.fixups = << >> THEN SubSeq(vvd.verts, 1, vvd.numLODVertexes[0])
    ELSE Concat([f \in DOMAIN vvd.fixups |->
            LET x == vvd.fixups[f]
            IN  IF x.lod <= 0 THEN SubSeq(vvd.verts, x.source + 1, x.source + x.num)
                ELSE << >>])

\* IsDegenerate: two corners on one point.
Degenerate(t) == Cardinality(Range(t)) < 3

GroupTriangles(verts, group, offset) ==
    LET Corner(i) == offset + group.verts[i]
        Known(t) == \A c \in 1..3 : /\ t[c] \in DOMAIN group.verts
                                    /\ Corner(t[c]) \in DOMAIN verts
        Placed(t) == [c \in 1..3 |-> verts[Corner(t[c])]]
    IN  [i \in DOMAIN group.tris |->
            IF Known(group.tris[i]) /\ ~Degenerate(Placed(group.tris[i]))
            THEN <<Placed(group.tris[i])>> ELSE << >>]

\* Mutant: the offset is never advanced.
BaseAfterMeshStuck(k) == 0
\* localVertBase: advanced by the mesh, and 0 again at the next model.
BaseAfterMesh(k) ==
    IF k < Len(src.meshes) /\ src.meshes[k + 1].model # src.meshes[k].model
    THEN 0 ELSE base + mdl[k].numvertices

CollectMesh ==
    /\ stage = "collect"
    /\ mesh <= Len(src.meshes)
    /\ LET verts == CollectedVerts
       IN tris' = tris \o Concat([g \in DOMAIN vtx[mesh][0] |->
                             Concat(GroupTriangles(verts, vtx[mesh][0][g], base))])
    /\ base' = BaseAfterMesh(mesh)
    /\ mesh' = mesh + 1
    /\ UNCHANGED <<lodVars, stage, lod, large, vg>>

FinishCollect ==
    /\ stage = "collect"
    /\ mesh > Len(src.meshes)
    /\ stage' = "vg"
    /\ mesh' = 1 /\ lod' = 0 /\ base' = 0
    /\ UNCHANGED <<lodVars, tris, large, vg>>

-----------------------------------------------------------------------------
\* R5_GetVerticesForLOD
LodVerts(n) ==
    IF vvd.fixups = << >> THEN SubSeq(vvd.verts, 1, vvd.numLODVertexes[0])
    ELSE Concat([f \in DOMAIN vvd.fixups |->
            LET x == vvd.fixups[f]
            IN  IF x.lod >= n THEN SubSeq(vvd.verts, x.source + 1, x.source + x.num)
                ELSE << >>])

\* The stride from one mesh to the next.
MeshStride(n, k) ==
    IF vvd.fixups # << >> THEN mdl[k].numLODVertexes[n]
    ELSE IF mdl[k].numvertices # 0 THEN mdl[k].numvertices ELSE mdl[k].numLODVertexes[0]

\* More than three influences on any vertex, and all are written the long way.
UsesExtendedWeights == \E i \in DOMAIN sidecar : Influences[sidecar[i]] > 3

\* R5_EncodeExtendedWeights: all influences but the first and the last.
MiddleWeights(p) == [i \in 1..Max({Influences[p] - 2, 0}) |-> <<p, i + 1>>]

\* R5_CalcVertexSize, and the bytes R5_WriteVertex writes.
WrittenSize == (IF large THEN 12 ELSE 8) + 4 + 4 + 4 + 8
VertCacheSize(count) == IF count = 0 THEN 0 ELSE (IF large THEN 12 ELSE 8) + 4 + 4 + 4 + 8

\* Mutant: the index counts from the start of the file's extra weights.
ExtraIndexFromFile(sofar, before) == before + sofar
\* meshExtraWeightIndex: relative to the mesh's block.
ExtraIndex(sofar, before) == sofar

\* Mutant: strip groups after the first keep their own numbering.
GroupIndexUnshifted(i, first) == (i - 1) % IndexRange
\* srcIdx[ii] + meshVertBase, in 16 bits; the .vg counts from 0.
GroupIndex(i, first) == (i - 1 + first) % IndexRange

BuildVgMesh ==
    LET groups == vtx[mesh][lod]
        verts == LodVerts(lod)
        Clamped(i) == IF i > Len(verts) THEN Len(verts) ELSE i
        slots == Concat([g \in DOMAIN groups |->
                    [v \in DOMAIN groups[g].verts |-> Clamped(base + groups[g].verts[v])]])
        First(g) == SumOver(1..(g - 1), LAMBDA h : Len(groups[h].verts))
        count == Len(slots)
        \* The weights are looked up under the loaded vertex's number.
        Weights(i) == sidecar[slots[i]]
        extras == [i \in 1..count |->
                    IF UsesExtendedWeights THEN MiddleWeights(Weights(i)) ELSE << >>]
        sofar == [i \in 1..count |-> SumOver(1..(i - 1), LAMBDA j : Len(extras[j]))]
        nextMesh == mesh < Len(src.meshes)
    IN  /\ stage = "vg"
        /\ vg' = [meshes |-> Append(vg.meshes,
                    [lod |-> lod, k |-> mesh,
                     stripOffset |-> Len(vg.strips), stripCount |-> IF count = 0 THEN 0 ELSE 1,
                     indexOffset |-> Len(vg.indices),
                     indexCount |-> SumOver(DOMAIN groups, LAMBDA g : 3 * Len(groups[g].tris)),
                     vertOffset |-> vg.bytes, vertCount |-> count,
                     vertCacheSize |-> VertCacheSize(count),
                     extraOffset |-> Len(vg.extra),
                     extraSize |-> SumOver(1..count, LAMBDA i : Len(extras[i])),
                     legacyOffset |-> Len(vg.legacy)]),
                  vertices |-> vg.vertices \o
                    [i \in 1..count |->
                        [mesh |-> Len(vg.meshes) + 1, vertex |-> verts[slots[i]],
                         weights |-> Weights(i),
                         extra |-> ExtraIndex(sofar[i], Len(vg.extra))]],
                  indices |-> vg.indices \o Concat([g \in DOMAIN groups |->
                    Concat([t \in DOMAIN groups[g].tris |->
                        [c \in 1..3 |-> GroupIndex(groups[g].tris[t][c], First(g))]])]),
                  strips |-> vg.strips \o (IF count = 0 THEN << >> ELSE <<Len(vg.meshes) + 1>>),
                  extra |-> vg.extra \o Concat(extras),
                  legacy |-> vg.legacy \o [i \in 1..count |-> Weights(i)],
                  bytes |-> vg.bytes + VertCacheSize(count) * count]
        /\ mesh' = IF nextMesh THEN mesh + 1 ELSE 1
        /\ lod' = IF nextMesh THEN lod ELSE lod + 1
        /\ base' = IF nextMesh THEN base + MeshStride(lod, mesh) ELSE 0
        /\ stage' = IF nextMesh \/ lod + 1 < src.numLODs THEN "vg" ELSE "written"
        /\ UNCHANGED <<lodVars, tris, large>>

Next == Compile \/ CollectMesh \/ FinishCollect \/ BuildVgMesh

Spec == Init /\ [][Next]_vars

-----------------------------------------------------------------------------
\* What a reader of the .vg file gets for vertex i of its mesh m: the file has
\* the vertices back to back, each as long as R5_WriteVertex made it.
VgVertex(m, i) == vg.vertices[vg.meshes[m].vertOffset \div WrittenSize + i]
VgShown(m) == Shown(vg.meshes[m].k, vg.meshes[m].lod)
MeantVerts(m) ==
    Concat([g \in DOMAIN VgShown(m) |->
        [v \in DOMAIN VgShown(m)[g].verts |-> Meant(vg.meshes[m].k, VgShown(m)[g].verts[v])]])
MeantTris(k, groups) ==
    Concat([g \in DOMAIN groups |->
        [t \in DOMAIN groups[g].tris |->
            [c \in 1..3 |-> Meant(k, groups[g].verts[groups[g].tris[t][c]])]]])

\* Every vertex of every mesh and LOD of the .vg file is the one the optimizer
\* meant there, although its number has been through the sort, the fixup table,
\* the per-LOD stride (R5_BuildVGData) and a clamp that hides a wrong number.
\* A cut model (-minlod) is left out: it is read with the counts of the uncut one.
VgVerticesMeant ==
    RootLod = 0 => \A m \in DOMAIN vg.meshes :
        /\ vg.meshes[m].vertCount = Len(MeantVerts(m))
        /\ \A i \in 1..vg.meshes[m].vertCount :
              /\ vg.meshes[m].vertOffset \div WrittenSize + i \in DOMAIN vg.vertices
              /\ VgVertex(m, i).vertex = MeantVerts(m)[i]

\* The index slice of a mesh spells out its triangles, over all strip groups:
\* an index refers to a vertex of that mesh, found at the mesh's vertOffset.
\* Of cut models the same is left out as above.
VgTrianglesMeant ==
    RootLod = 0 => \A m \in DOMAIN vg.meshes :
        LET x == vg.meshes[m]
            wanted == MeantTris(x.k, VgShown(m))
        IN  /\ x.indexCount = 3 * Len(wanted)
            /\ \A t \in DOMAIN wanted : \A c \in 1..3 :
                  LET i == vg.indices[x.indexOffset + 3 * (t - 1) + c]
                  IN  /\ i < x.vertCount
                      /\ VgVertex(m, i + 1).vertex = wanted[t][c]

\* A vertex's extra weights are found in its mesh's block of the extra-weight
\* stream, at the index it carries, as many as its influences call for
\* (R5_EncodeExtendedWeights: "relative to the current mesh's extra-weight block").
ExtraWeightsFound ==
    UsesExtendedWeights =>
        \A v \in DOMAIN vg.vertices :
            LET x == vg.vertices[v]
                m == vg.meshes[x.mesh]
                wanted == MiddleWeights(x.weights)
            IN  /\ x.extra + Len(wanted) <= m.extraSize
                /\ SubSeq(vg.extra, m.extraOffset + x.extra + 1,
                          m.extraOffset + x.extra + Len(wanted)) = wanted

\* The vertex data of a mesh starts where the header says and the strips of the
\* meshes that have any lie one after the other (R5_BuildVGData, R5_WriteVGFile).
VgSlicesTile ==
    \A m \in DOMAIN vg.meshes :
        LET x == vg.meshes[m]
            before == {j \in DOMAIN vg.meshes : j < m}
        IN  /\ x.vertOffset = WrittenSize * SumOver(before, LAMBDA j : vg.meshes[j].vertCount)
            /\ x.legacyOffset = SumOver(before, LAMBDA j : vg.meshes[j].vertCount)
            /\ x.stripCount = 1 => vg.strips[x.stripOffset + 1] = m

\* The collision triangles are the triangles that LOD 0 shows
\* (CollectTriangles: "Build LOD 0 vertex array (apply fixups)").
CollisionTrianglesMeant ==
    stage \in {"vg", "written"} =>
        tris = Concat([k \in Meshes |->
                  SelectSeq(MeantTris(k, Shown(k, 0)), LAMBDA t : ~Degenerate(t))])

\* A .vg vertex carries its own weights (R5_GetWeightSet: "Resolve a vertex's
\* complete source influence list").
VgWeightsMeant == \A v \in DOMAIN vg.vertices : vg.vertices[v].weights = vg.vertices[v].vertex

\* What holds of the two statements above: with one LOD there is no fixup
\* table, and with one model the vertex base is right.
OneLod == src.numLODs = 1
OneModel == \A k \in Meshes : src.meshes[k].model = 1
OneLodMeant ==
    OneLod => VgWeightsMeant /\ (OneModel => CollisionTrianglesMeant)

\* A reader of the .vg file finds each mesh's slices, and in them the mesh's own
\* vertices and triangles (R5_BuildVGData, R5_WriteVGFile), on top of the types.
VgMeant == ReadersTypeOK /\ VgSlicesTile /\ VgVerticesMeant /\ VgTrianglesMeant
=============================================================================
