------------------------- MODULE MCRmdlStringTable --------------------------
(***************************************************************************)
(* Two structs with two fields each (one of them registered at the same    *)
(* struct address as its neighbour) and strings of different lengths.      *)
(***************************************************************************)
EXTENDS RmdlStringTable, TLC

CONSTANTS empty, a, bcd

MCStrings == {empty, a, bcd}
MCStrLen == (empty :> 0) @@ (a :> 1) @@ (bcd :> 3)
MCFields == {"bone0.name", "bone0.prop", "att0.name"}
MCBase == [f \in MCFields |-> IF f = "att0.name" THEN 24 ELSE 8]

=============================================================================
