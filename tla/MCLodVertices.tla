--------------------------- MODULE MCLodVertices ---------------------------
(***************************************************************************)
(* Models of at most three meshes, with two or three LODs.  A mesh has up  *)
(* to four vertices: at a LOD it shows one triangle, two that share an     *)
(* edge, two strip groups, or nothing.                                     *)
(***************************************************************************)
EXTENDS LodVertices

Tri(a, b, c) == <<[verts |-> <<a, b, c>>, tris |-> <<<<1, 2, 3>>>>]>>
Quad == <<[verts |-> <<1, 2, 3, 4>>, tris |-> <<<<1, 2, 3>>, <<4, 3, 2>>>>]>>
Split == Tri(4, 2, 1) \o Tri(1, 3, 4)
Nothing == << >>

\* LODs of a mesh: a lower LOD shows a part of what is left.
MCLods(n) ==
    {[l \in 0..(n - 1) |-> IF l = 0 THEN a ELSE b] :
        a \in {Tri(1, 2, 3), Quad, Split}, b \in {Tri(4, 2, 3), Tri(1, 2, 4), Nothing}}
    \cup {[l \in 0..(n - 1) |-> IF l = 0 THEN Quad ELSE IF l = 1 THEN Tri(2, 3, 4) ELSE Nothing]}
    \cup {[l \in 0..(n - 1) |-> Nothing]}

Mesh(model, at, n, lods) ==
    [model |-> model, at |-> at, numvertices |-> n, lods |-> lods, flex |-> <<1, n>>]
NoVertices(model, at, n) ==
    [model |-> model, at |-> at, numvertices |-> 0,
     lods |-> [l \in 0..(n - 1) |-> Nothing], flex |-> << >>]

\* The .vvd holds the models in order; within a model the meshes of the .mdl may
\* come in another order than their vertices.
MCOneMesh == {[numLODs |-> 2, meshes |-> <<Mesh(1, 0, 4, ls)>>] : ls \in MCLods(2)}
MCTwoMeshes ==
    UNION {{[numLODs |-> n, meshes |-> <<Mesh(1, p[1], 4, a), Mesh(p[2], 4 - p[1], 4, b)>>] :
        a \in MCLods(n), b \in {[l \in 0..(n - 1) |-> IF l = 0 THEN Split ELSE Tri(1, 2, 4)],
                                [l \in 0..(n - 1) |-> IF l = 1 THEN Tri(2, 4, 1) ELSE Nothing]},
        p \in {<<0, 2>>, <<4, 1>>}} : n \in 2..3}
MCThreeMeshes ==
    {[numLODs |-> 2, meshes |-> <<Mesh(1, 0, 4, a), NoVertices(1, 4, 2), Mesh(2, 4, 4, b)>>] :
        a \in MCLods(2), b \in {[l \in 0..1 |-> Tri(4, 3, 2)]}}
MCCompiled == MCOneMesh \cup MCTwoMeshes \cup MCThreeMeshes
=============================================================================
