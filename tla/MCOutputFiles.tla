---------------------------- MODULE MCOutputFiles ----------------------------
(***************************************************************************)
(* Two compiles, so that the second finds what the first left.             *)
(***************************************************************************)
EXTENDS OutputFiles

Named(dir, file) == [dir |-> dir, file |-> file]
MCNames == {Named("mdl", "name"), Named("mdl", "longname"), Named("weapons", "name")}

Plain == [bodies |-> "mesh", solid |-> "no", anims |-> FALSE, internal |-> NoName,
          rp |-> "none", minlod |-> FALSE, error |-> "none"]
MCSources ==
    {Plain,
     [Plain EXCEPT !.solid = "yes"],
     [Plain EXCEPT !.solid = "yes", !.anims = TRUE, !.minlod = TRUE],
     [Plain EXCEPT !.solid = "named"],
     [Plain EXCEPT !.anims = TRUE, !.rp = "given"],
     [Plain EXCEPT !.anims = TRUE, !.internal = Named("mdl", "name")],
     [Plain EXCEPT !.anims = TRUE, !.internal = Named("mdl", "other")],
     [Plain EXCEPT !.bodies = "none", !.anims = TRUE, !.rp = "given"],
     [Plain EXCEPT !.bodies = "blank", !.solid = "yes"],
     [Plain EXCEPT !.error = "script"],
     [Plain EXCEPT !.solid = "yes", !.error = "materials"]}
=============================================================================
