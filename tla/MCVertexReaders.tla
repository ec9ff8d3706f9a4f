-------------------------- MODULE MCVertexReaders --------------------------
(***************************************************************************)
(* The models of MCLodVertices, and the subsets the single questions are   *)
(* asked about.                                                            *)
(***************************************************************************)
EXTENDS VertexReaders, MCLodVertices

\* Vertices 2 and 7 have more influences than a .vvd vertex can hold.
MCInfluences == [p \in 1..8 |-> IF p \in {2, 7} THEN 5 ELSE IF p = 4 THEN 4 ELSE 1 + (p % 3)]

MCAll == MCCompiled
\* One LOD: no fixup table, and nothing to sort.
Single(m) == [numLODs |-> 1, meshes |-> [k \in DOMAIN m.meshes |->
                 [m.meshes[k] EXCEPT !.lods = [l \in {0} |-> @[0]]]]]
MCSeveralModels == {Single(m) : m \in MCAll}
MCReaders == MCAll \cup MCSeveralModels
MCOneModelLods == {m \in MCAll : \A k \in DOMAIN m.meshes : m.meshes[k].model = 1}
=============================================================================
