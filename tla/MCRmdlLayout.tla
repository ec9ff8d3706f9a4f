---------------------------- MODULE MCRmdlLayout ----------------------------
(***************************************************************************)
(* The struct sizes of rmdl_write.cpp, and compiled models that vary one   *)
(* aspect at a time around a common core, plus models that combine them.   *)
(***************************************************************************)
EXTENDS RmdlLayout, TLC

MCSizeOf == [studiohdr |-> 548, bone |-> 184, jigglebone |-> 124, attachment |-> 60,
             hitboxset |-> 12, bbox |-> 44, seqdesc |-> 208, animdesc |-> 52,
             bodypart |-> 16, model |-> 136, mesh |-> 92, poseparam |-> 20,
             ruiheader |-> 8, ruimesh |-> 28, texture |-> 12, srcbonetransform |-> 100,
             linearbone |-> 28, oldlinearbone |-> 64]

MCStrLen == ("" :> 0) @@ ("@ref" :> 4) @@ ("a" :> 1) @@ ("bone" :> 4) @@ ("skin" :> 5)
            @@ ("pose" :> 4) @@ ("body" :> 4) @@ ("default" :> 7) @@ ("mdl/x.rmdl" :> 10)

MCBaseAddrs == {0, 16, 32, 48}

Plain == [name |-> "bone", proctype |-> 0, procindex |-> 0]
Jiggle == [name |-> "a", proctype |-> 5, procindex |-> 400]
SkeletonsOf(n) == [1..n -> {Plain, Jiggle}]

Panel(name, p, v, f) == [name |-> name, parents |-> p, vertices |-> v, faces |-> f]
MCPanels == {<< >>, <<Panel("a", 1, 2, 1)>>, <<Panel("bone", 2, 1, 1), Panel("", 0, 4, 2)>>}

MCBodyParts == {<<<<1>>>>, <<<<2, 0>>, <<1>>>>, <<<<1, 1>>, << >>, <<0, 2>>>>}
MCHitboxSets == {<< >>, <<<<"a">>>>, <<<<"a", "bone">>, << >>, <<"">>>>}

Core == [name |-> "mdl/x.rmdl", bones |-> <<Plain, Jiggle, Plain>>,
         attachments |-> <<"a">>, hitboxsets |-> <<<<"a">>, <<"", "bone">>>>,
         bodyparts |-> <<<<2, 0>>, <<1>>>>, poseparams |-> 1, rui |-> << >>,
         textures |-> <<"a", "bone">>, skins |-> <<2, 3>>, xforms |-> 1,
         linear |-> TRUE, bvh |-> 200]

MCModels ==
    {[Core EXCEPT !.bones = b, !.linear = l, !.attachments = a] :
        b \in UNION {SkeletonsOf(n) : n \in 1..3}, l \in BOOLEAN, a \in {<< >>, <<"a", "bone">>}}
    \cup {[Core EXCEPT !.bodyparts = p, !.hitboxsets = h, !.poseparams = q] :
        p \in MCBodyParts, h \in MCHitboxSets, q \in 0..1}
    \cup {[Core EXCEPT !.rui = r, !.textures = t, !.bones = b] :
        r \in MCPanels, t \in {<<"a">>, <<"a", "bone", "a">>},
        b \in {<<Plain>>, <<Plain, Jiggle>>}}
    \cup {[Core EXCEPT !.skins = k, !.xforms = x, !.bvh = v] :
        k \in {<<0, 0>>, <<1, 1>>, <<3, 2>>}, x \in {0, 2}, v \in {0, 200}}
=============================================================================
