---------------------------- MODULE LodVertices ----------------------------
(***************************************************************************)
(* What the compiler does to a model's vertices after the optimizer has    *)
(* run (src/src/studiomdl/write.cpp).  The vertices of all meshes are      *)
(* sorted so that those a low-detail LOD needs come first; the .vvd file,  *)
(* the weight sidecar, the strip groups of the .vtx file and the .mdl      *)
(* header are rewritten to agree with the new order, and -minlod then cuts *)
(* the LODs above a root off.  One action is one file's pass.              *)
(*                                                                         *)
(* Abstractions: bodyparts, models and meshes are one sequence of meshes,  *)
(* each with the number of its model.  A vertex is its position in the     *)
(* .vvd file the compiler wrote first (its coordinates, tangent and weight *)
(* record go with it).  Positions and mesh-relative vertex numbers count   *)
(* from 1, LODs from 0 as in the code.  Only the entries of the arrays     *)
(* below numLODs are kept (the code repeats the last one).                 *)
(***************************************************************************)
EXTENDS Integers, Sequences, FiniteSets, FiniteSetsExt, Functions, TLC

CONSTANTS
    Compiled,   \* the models the optimizer can hand over
    MinLods,    \* the values g_minLod can have
    AllowedRootLods   \* the values of $allowrootlods, 0 where it is not given

VARIABLES
    pc,        \* the pass that runs next
    src,       \* the model as compiled, for reference
    minLod,    \* g_minLod
    allowed,   \* g_numAllowedRootLODs, and numAllowedRootLODs of the header
    list,      \* pVertexList: the sorted vertices
    lodMesh,   \* lodMesh[k][n]: where mesh k's run of LOD n is in list, and its length
    vvd,       \* the .vvd file: vertices, numLODVertexes, fixup table
    sidecar,   \* the .r5weights file: the vertex each record belongs to
    vtx,       \* vtx[k][n]: the strip groups of mesh k at LOD n
    mdl,       \* phdr, the header in memory: what it says of each mesh
    mdlFile    \* the .mdl file on disk

lodVars == <<pc, src, minLod, allowed, list, lodMesh, vvd, sidecar, vtx, mdl, mdlFile>>

Lods == 0..(src.numLODs - 1)
Meshes == DOMAIN src.meshes
Concat(ss) ==
    LET f[i \in 0..Len(ss)] == IF i = 0 THEN << >> ELSE f[i - 1] \o ss[i]
    IN  f[Len(ss)]
SumOver(S, F(_)) == MapThenSumSet(F, S)
Iota(n, base) == [i \in 1..n |-> base + i]

\* Vertices of the meshes before mesh k: the key "vertexOffset" of mesh k.
VertexOffset(k) == SumOver(1..(k - 1), LAMBDA m : src.meshes[m].numvertices)
NumVertexes == VertexOffset(Len(src.meshes) + 1)
StripVerts(groups) == UNION {Range(groups[g].verts) : g \in DOMAIN groups}

TypeOK ==
    /\ pc \in {"sort", "vvd", "vtx", "mdl", "clamp", "sorted"}
    /\ src \in Compiled
    /\ minLod \in MinLods
    /\ allowed = 0 \/ allowed >= minLod
    /\ \A i \in DOMAIN list :
          list[i].final \in 1..NumVertexes /\ list[i].flags # {}
    /\ Range(vvd.verts) \subseteq 1..NumVertexes
    /\ Range(sidecar) \subseteq 1..NumVertexes
    /\ \A k \in Meshes, n \in Lods :
          StripVerts(vtx[k][n]) \subseteq 1..src.meshes[k].numvertices
    /\ \A k \in Meshes : \A n \in Lods :
          mdl[k].numLODVertexes[n] \in 0..mdl[k].numvertices

\* Cmd_MinLOD, Cmd_AllowRootLODs: "minlod" rules over "allowrootlods".
Ruled(given) == IF given > 0 /\ given < minLod THEN minLod ELSE given

LodInit ==
    /\ pc = "sort"
    /\ src \in Compiled
    /\ minLod \in MinLods
    /\ \E given \in AllowedRootLods : allowed = Ruled(given)
    /\ list = << >>
    /\ lodMesh = << >>
    /\ vvd = [verts |-> Iota(NumVertexes, 0), fixups |-> << >>,
              numLODVertexes |-> [n \in Lods |-> NumVertexes]]
    /\ sidecar = Iota(NumVertexes, 0)
    /\ vtx = [k \in Meshes |-> src.meshes[k].lods]
    /\ mdl = [k \in Meshes |->
                [numvertices |-> src.meshes[k].numvertices,
                 numLODVertexes |-> [n \in Lods |-> src.meshes[k].numvertices],
                 flex |-> src.meshes[k].flex]]
    /\ mdlFile = mdl

-----------------------------------------------------------------------------
\* The sanity checks of BuildSortedVertexList; where they fail the compiler exits.
WellFormed ==
    \A k \in Meshes, n \in Lods : \A g \in DOMAIN vtx[k][n] :
        LET group == vtx[k][n][g]
            corners == UNION {Range(group.tris[t]) : t \in DOMAIN group.tris}
        IN  /\ corners = DOMAIN group.verts
            /\ Range(group.verts) \subseteq 1..src.meshes[k].numvertices

\* lodFlags: the LODs that use a vertex; an orphan belongs to the last LOD.
LodFlags(k, id) ==
    LET used == {n \in Lods : id \in StripVerts(vtx[k][n])}
    IN  IF used = {} THEN {src.numLODs - 1} ELSE used

\* _CompareUsedVertexes: lowest detail first, then by mesh, then by vertex.
ComparesBefore(a, b) ==
    \/ Max(a.flags) > Max(b.flags)
    \/ /\ Max(a.flags) = Max(b.flags)
       /\ a.offset < b.offset \/ (a.offset = b.offset /\ a.id < b.id)

\* The meshes' pools one after the other, before the sort.
UsedVertexes ==
    Concat([k \in Meshes |->
        LET offset == VertexOffset(k)
        IN  [v \in 1..src.meshes[k].numvertices |->
                [offset |-> offset, id |-> v, flags |-> LodFlags(k, v)]]])

\* FindVertexOffsets: the run of mesh k's vertices of LOD n in the sorted list.
FindVertexOffsets(sorted, k, n) ==
    LET own == {i \in DOMAIN sorted : /\ sorted[i].offset = VertexOffset(k)
                                      /\ Max(sorted[i].flags) <= n}
        start == Min(own)
        stops == {i \in start..Len(sorted) : \/ sorted[i].offset # VertexOffset(k)
                                             \/ n \notin sorted[i].flags}
        end == IF stops = {} THEN Len(sorted) + 1 ELSE Min(stops)
    IN  IF src.meshes[k].numvertices = 0 \/ own = {} \/ start = end
        THEN [offset |-> 0, count |-> 0]
        ELSE [offset |-> start - 1, count |-> end - start]

\* finalMeshVertID: a mesh's runs are gathered from the last LOD to the first.
\* Mutant: from the first to the last.
FinalMeshVertIDAscending(runs, i) ==
    LET n == CHOOSE n \in DOMAIN runs :
                 i - runs[n].offset \in 1..runs[n].count
    IN  SumOver({p \in DOMAIN runs : p < n}, LAMBDA p : runs[p].count)
          + (i - runs[n].offset)
FinalMeshVertID(runs, i) ==
    LET n == CHOOSE n \in DOMAIN runs :
                 i - runs[n].offset \in 1..runs[n].count
    IN  SumOver({p \in DOMAIN runs : p > n}, LAMBDA p : runs[p].count)
          + (i - runs[n].offset)

MeshAt(offset) ==
    CHOOSE k \in Meshes : VertexOffset(k) = offset /\ src.meshes[k].numvertices > 0

BuildSortedVertexList ==
    LET sorted == SortSeq(UsedVertexes, ComparesBefore)
        runs == [k \in Meshes |-> [n \in Lods |-> FindVertexOffsets(sorted, k, n)]]
        Runs(i) == runs[MeshAt(sorted[i].offset)]
        InRun(i) == \E n \in Lods : i - Runs(i)[n].offset \in 1..Runs(i)[n].count
    IN  /\ pc = "sort"
        /\ WellFormed
        /\ \A i \in DOMAIN sorted : InRun(i)      \* "safety check"
        /\ lodMesh' = runs
        /\ list' = [i \in DOMAIN sorted |->
                       [offset |-> sorted[i].offset, id |-> sorted[i].id,
                        flags |-> sorted[i].flags,
                        final |-> FinalMeshVertID(Runs(i), i)]]
        /\ pc' = "vvd"
        /\ UNCHANGED <<src, minLod, allowed, vvd, sidecar, vtx, mdl, mdlFile>>

\* pVertexList[pVertexMap[id]].finalMeshVertID
Remapped(k, id) ==
    list[CHOOSE i \in DOMAIN list :
             list[i].offset = VertexOffset(k) /\ list[i].id = id].final

-----------------------------------------------------------------------------
\* The vertices mesh by mesh, as pFlatVertexes points at them: the model's
\* vertexindex, the mesh's vertexoffset, the vertex.
Flat == Concat([k \in Meshes |-> Iota(src.meshes[k].numvertices, src.meshes[k].at)])

Fixup(k, n) == [lod |-> n, source |-> lodMesh[k][n].offset, num |-> lodMesh[k][n].count]

\* The fixup table: for every mesh its runs from the last LOD to the first.
AllFixups ==
    Concat([k \in Meshes |->
        Concat([i \in 1..src.numLODs |->
            LET n == src.numLODs - i
            IN  IF lodMesh[k][n].count = 0 THEN << >> ELSE <<Fixup(k, n)>>])])

FixupTable ==
    LET table == AllFixups
    IN  IF Len(src.meshes) = 1 \/ Len(table) = 1 \/ src.numLODs = 1 THEN << >> ELSE table

\* Mutant: the records are taken in flat mesh order.
SourceWeightIndexFlat(i) == list[i].offset + list[i].id
\* sourceWeightIndex: the place in the old .vvd, which need not be in mesh order.
SourceWeightIndex(i) == Flat[list[i].offset + list[i].id]

\* Mutant: the maximum starts anew at every LOD.
NumLODVertexesReset(n) == Max({0} \cup {i \in DOMAIN list : Max(list[i].flags) = n})
NumLODVertexes(n) == Max({0} \cup {i \in DOMAIN list : \E m \in list[i].flags : m >= n})

FixupVVDFile ==
    /\ pc = "vvd"
    /\ vvd' = [verts |-> LET flat == Flat IN
                   [i \in DOMAIN list |-> vvd.verts[flat[list[i].offset + list[i].id]]],
               fixups |-> FixupTable,
               numLODVertexes |-> [n \in Lods |-> NumLODVertexes(n)]]
    /\ sidecar' = [i \in DOMAIN list |-> sidecar[SourceWeightIndex(i)]]
    /\ pc' = "vtx"
    /\ UNCHANGED <<src, minLod, allowed, list, lodMesh, vtx, mdl, mdlFile>>

RemapGroups(k, groups) ==
    [g \in DOMAIN groups |->
        [groups[g] EXCEPT !.verts = [v \in DOMAIN @ |-> Remapped(k, @[v])]]]

FixupVTXFile ==
    /\ pc = "vtx"
    /\ vtx' = [k \in Meshes |-> [n \in Lods |-> RemapGroups(k, vtx[k][n])]]
    /\ pc' = "mdl"
    /\ UNCHANGED <<src, minLod, allowed, list, lodMesh, vvd, sidecar, mdl, mdlFile>>

\* Mutant: the flexes keep the numbers they were compiled with.
FlexRemapForgotten(k) == mdl[k].flex
FlexRemap(k) == [f \in DOMAIN mdl[k].flex |-> Remapped(k, mdl[k].flex[f])]

FixupMDLFile ==
    LET fixed == [k \in Meshes |->
                    [numvertices |-> mdl[k].numvertices,
                     numLODVertexes |->
                        [n \in Lods |-> SumOver({p \in Lods : p >= n},
                                                LAMBDA p : lodMesh[k][p].count)],
                     flex |-> FlexRemap(k)]]
    IN  /\ pc = "mdl"
        /\ \A k \in Meshes : Range(mdl[k].flex) \subseteq 1..mdl[k].numvertices
        /\ mdl' = fixed
        /\ mdlFile' = fixed
        /\ pc' = "clamp"
        /\ UNCHANGED <<src, minLod, allowed, list, lodMesh, vvd, sidecar, vtx>>

-----------------------------------------------------------------------------
\* Studio_LoadVertexes: the vertices left when the LODs above root are dropped,
\* in mesh order when there is a fixup table.
LoadVertexes(seq, file, root) ==
    IF file.fixups = << >> THEN SubSeq(seq, 1, file.numLODVertexes[root])
    ELSE Concat([f \in DOMAIN file.fixups |->
            LET x == file.fixups[f]
            IN  IF x.lod < root THEN << >>
                ELSE SubSeq(seq, x.source + 1, x.source + x.num)])

\* Studio_SetRootLOD: a root that the header does not allow is not set.
SetRootLOD(header, root) ==
    LET honored == IF allowed > 0 /\ root >= allowed THEN allowed - 1 ELSE root
    IN  [k \in DOMAIN header |->
            [header[k] EXCEPT !.numvertices = header[k].numLODVertexes[honored]]]

RootLod == IF minLod > src.numLODs - 1 THEN src.numLODs - 1 ELSE minLod

\* Clamp_RootLOD, when there is nothing to cut.
KeepAllLods ==
    /\ pc = "clamp"
    /\ RootLod = 0
    /\ pc' = "sorted"
    /\ UNCHANGED <<src, minLod, allowed, list, lodMesh, vvd, sidecar, vtx, mdl, mdlFile>>

\* Clamp_RootLOD: the files on disk are cut; phdr, in memory, is not.
ClampRootLOD ==
    /\ pc = "clamp"
    /\ RootLod > 0
    /\ mdlFile' = SetRootLOD(mdlFile, RootLod)
    /\ vvd' = [verts |-> LoadVertexes(vvd.verts, vvd, RootLod), fixups |-> << >>,
               numLODVertexes |-> [n \in Lods |->
                    vvd.numLODVertexes[IF n < RootLod THEN RootLod ELSE n]]]
    /\ sidecar' = LoadVertexes(sidecar, vvd, RootLod)
    /\ vtx' = [k \in Meshes |-> [n \in Lods |->
                  vtx[k][IF n < RootLod THEN RootLod ELSE n]]]
    /\ pc' = "sorted"
    /\ UNCHANGED <<src, minLod, allowed, list, lodMesh, mdl>>

LodNext ==
    \/ BuildSortedVertexList \/ FixupVVDFile \/ FixupVTXFile \/ FixupMDLFile
    \/ KeepAllLods \/ ClampRootLOD

LodSpec == LodInit /\ [][LodNext]_lodVars

-----------------------------------------------------------------------------
\* The vertex the optimizer meant by vertex id of mesh k.
Meant(k, id) == src.meshes[k].at + id
\* What LOD n shows: what it was compiled to, or the root LOD's groups.
Shown(k, n) == src.meshes[k].lods[IF n < RootLod THEN RootLod ELSE n]

\* The engine loads the files at a root LOD r: it drops the LODs above r, and the
\* vertices of mesh k follow those of the meshes before it.  Files that were cut
\* are in mesh order for the LOD they were cut at, and only for that.
LoadableRoots == IF RootLod = 0 THEN Lods ELSE {RootLod}
LoadedMesh(r, k) ==
    LET base == SumOver(1..(k - 1), LAMBDA m : mdlFile[m].numLODVertexes[r])
        verts == LoadVertexes(vvd.verts, vvd, r)
    IN  SubSeq(verts, base + 1, Min({base + mdlFile[k].numLODVertexes[r], Len(verts)}))

\* The three files agree: whatever root LOD the model is loaded at, a vertex of
\* a strip group of that LOD or a lower one is the vertex the optimizer meant.
\* (BuildSortedVertexList, FixupVVDFile, FixupVTXFile, FixupMDLFile, Clamp_*.)
StripsFollowVertices ==
    pc = "sorted" =>
        \A r \in LoadableRoots, k \in Meshes :
            LET loaded == LoadedMesh(r, k)
            IN  \A n \in Lods : n >= r =>
                    \A g \in DOMAIN vtx[k][n] : \A v \in DOMAIN vtx[k][n][g].verts :
                        /\ vtx[k][n][g].verts[v] \in DOMAIN loaded
                        /\ loaded[vtx[k][n][g].verts[v]]
                              = Meant(k, Shown(k, n)[g].verts[v])

\* A flex moves the vertex it was made for, at full detail: every vertex of the
\* model is loaded then, so no flex vertex is out of reach (FixupMDLFile).
FlexesFollowVertices ==
    pc = "sorted" /\ RootLod = 0 =>
        \A k \in Meshes : \A f \in DOMAIN mdlFile[k].flex :
            LET loaded == LoadedMesh(0, k)
            IN  /\ mdlFile[k].flex[f] \in DOMAIN loaded
                /\ loaded[mdlFile[k].flex[f]] = Meant(k, src.meshes[k].flex[f])

\* Record i of the weight sidecar belongs to vertex i of the .vvd file: after
\* the sort (FixupVVDFile) and after the cut (Clamp_VVD_LODS) as before.
SidecarFollowsVertices == sidecar = vvd.verts

\* A loader may stop reading the .vvd after numLODVertexes[r] vertices: every
\* run that root LOD r keeps lies before that point.
PrefixHoldsLod ==
    \A f \in DOMAIN vvd.fixups : \A r \in Lods :
        r <= vvd.fixups[f].lod =>
            vvd.fixups[f].source + vvd.fixups[f].num <= vvd.numLODVertexes[r]

\* The sort (FixupVVDFile) moves vertices, it neither drops nor doubles one, and
\* the cut (Clamp_VVD_LODS) doubles none.
VerticesPreserved ==
    /\ Cardinality(Range(vvd.verts)) = Len(vvd.verts)
    /\ pc # "sorted" \/ RootLod = 0 => Len(vvd.verts) = NumVertexes

\* The header has as many vertices as the .vvd: the cut leaves both at one root
\* LOD (Clamp_MDL_LODS, Clamp_VVD_LODS), where the header allows that one.
RootAllowed == allowed = 0 \/ RootLod < allowed
HeaderCountsVertices ==
    pc = "sorted" /\ RootAllowed =>
        SumOver(Meshes, LAMBDA k : mdlFile[k].numvertices) = Len(vvd.verts)

\* The sort loses nothing: no vertex, and no run from a root LOD's prefix; and
\* the cut takes the same vertices from the .vvd and the header.
SortSound == TypeOK /\ PrefixHoldsLod /\ VerticesPreserved /\ HeaderCountsVertices
=============================================================================
