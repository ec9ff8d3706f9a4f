----------------------------- MODULE MCBvhTree -----------------------------
(***************************************************************************)
(* Up to seven triangles, a leaf of two, the four-way split from six       *)
(* triangles on, a base unit of four vertices.  The unit of the model is   *)
(* two steps, so coordinates fall between packed units.                    *)
(***************************************************************************)
EXTENDS BvhTree

T(x, y, z, d) == <<<<x, y, z>>, <<x + d, y, z>>, <<x, y + d, z + 1>>>>
Tiny == T(0, 0, 0, 1)
Palette == {Tiny, T(-9, 3, 0, 3), T(4, -5, 2, 5), T(1, 8, -3, 2)}
Row(n, dx, dy, dz) == [i \in 1..n |-> T(dx * i, dy * i * i, dz * (i % 3), 2)]

MCSoups ==
    {<< >>} \cup UNION {[1..n -> Palette] : n \in 1..3}
      \cup {Row(n, 3, 0, 0) : n \in 4..7} \cup {Row(n, 0, 1, 1) : n \in {5, 7}}
      \cup {Row(5, 0, 0, 4), Row(6, 0, 0, 0), Row(7, -11, 1, 0)}
=============================================================================
