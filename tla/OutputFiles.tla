----------------------------- MODULE OutputFiles -----------------------------
(***************************************************************************)
(* The files that compiles of one model name leave on disk.  A compile     *)
(* writes intermediate files under models\ (WriteModelFiles of write.cpp), *)
(* rewrites them in place (the LOD fix-ups), and then WriteRMDLFiles of    *)
(* rmdl_write.cpp reads them back, writes the outputs under compiled\ and  *)
(* removes the intermediates.  Each step opens one file.  The open may be  *)
(* refused, which some steps treat as fatal and some as a warning, and the *)
(* process may be killed at any step, with the file of the step half       *)
(* written.  What one compile leaves, the next one finds.                  *)
(*                                                                         *)
(* A file's contents are the compile that produced them, and what else the *)
(* properties tell apart.                                                  *)
(***************************************************************************)
EXTENDS Naturals

CONSTANTS
    Sources,      \* what a QC script and the command line may ask for
    Names,        \* what $modelname may be
    CanFail,      \* the steps whose open may be refused
    Crashes,      \* whether the process may be killed
    MaxCompiles   \* bound on the number of compiles

States == {"absent", "torn", "whole"}
Work == {"mdl", "vvd", "weights", "vtx"}
Stages == {"raw", "sorted", "cut"}

(* A name, of a model or of its rig: the first directory and the file, the   *)
(* extension cut.  "name.v2" has a dot, "longname" does not fit in the name   *)
(* field of the .mdl header.                                                  *)
NameType == [dir : {"mdl", "MDL", "mdlx", "weapons"},
             file : {"name", "other", "name.v2", "longname"}]
NoName == [dir |-> "", file |-> ""]

(* solid: no collision model, one, or one that $phyname gives another file;  *)
(* internal: $internalname, or NoName; rp: -rp.                               *)
SourceType == [bodies : {"none", "blank", "mesh"}, solid : {"no", "yes", "named"},
               anims : BOOLEAN,
               internal : NameType \cup {NoName}, rp : {"none", "given"},
               minlod : BOOLEAN,
               error : {"none", "script", "materials"}]

(* The steps of one compile, named for the file they open.                 *)
Rewriting ==
    [sort_vvd     |-> [file |-> "vvd",     stage |-> "sorted", next |-> "sort_weights"],
     sort_weights |-> [file |-> "weights", stage |-> "sorted", next |-> "sort_vtx"],
     sort_vtx     |-> [file |-> "vtx",     stage |-> "sorted", next |-> "sort_mdl"],
     sort_mdl     |-> [file |-> "mdl",     stage |-> "sorted", next |-> "clamp"],
     cut_mdl      |-> [file |-> "mdl",     stage |-> "cut",    next |-> "cut_vvd"],
     cut_vvd      |-> [file |-> "vvd",     stage |-> "cut",    next |-> "cut_weights"],
     cut_weights  |-> [file |-> "weights", stage |-> "cut",    next |-> "cut_vtx"],
     cut_vtx      |-> [file |-> "vtx",     stage |-> "cut",    next |-> "convert"]]

Steps == {"idle", "open_mdl", "write_phy", "write_mdl", "write_vvd", "write_weights",
          "write_vtx", "sort", "clamp", "convert", "check", "load", "write_rmdl",
          "write_rson", "write_vg", "read_phy", "write_cphy", "patch", "remove"}
             \cup DOMAIN Rewriting

ASSUME FilesAssumption ==
    /\ Sources \subseteq SourceType
    /\ Names \subseteq NameType
    /\ CanFail \subseteq Steps
    /\ Crashes \in BOOLEAN
    /\ MaxCompiles \in Nat

VARIABLES
    compile,   \* number of the compile, counted from one
    name,      \* g_outname: the model's name, the same for all compiles
    source,    \* what the running compile was asked for
    pc,        \* its next step
    ended,     \* "running", or how the last compile ended
    failed,    \* the steps of this compile whose open was refused
    \* models\
    work,      \* the intermediate files
    srcphy,    \* the .phy of collisionmodel.cpp
    \* compiled\
    rmdl, vg, phy, rson,
    rigs,      \* the .rrig files, by their path
    \* memory of the running compile
    loaded,    \* .vvd, .vtx and .r5weights as read by WriteRMDLFiles
    held       \* phyBuf, the contents of srcphy

disk == <<work, srcphy, rmdl, vg, phy, rson, rigs>>
memory == <<loaded, held>>
vars == <<compile, name, source, pc, ended, failed, disk, memory>>

NoWork == [f \in Work |-> [state |-> "absent", of |-> 0, stage |-> "raw"]]
NoPhy == [state |-> "absent", of |-> 0]

(* phdr->name of the .mdl: $internalname, where it is given, for $modelname. *)
HeaderName == IF source.internal = NoName THEN name ELSE source.internal

(* The converter takes the file's name up to its last dot, out of a field    *)
(* that holds 62 characters of the path.                                     *)
Stem(file) ==
    CASE file = "name.v2"  -> "name"
      [] file = "longname" -> "longna"
      [] OTHER             -> file

(* The path of the .rrig, from the header's name and from -rp: the converter *)
(* replaces a leading "mdl", of whatever is left of it, by "animrig".       *)
RigPath(header, rp) ==
    <<CASE rp = "given"        -> "rp"
        [] header.dir = "mdl"  -> "animrig"
        [] header.dir = "mdlx" -> "animrigx"
        [] OTHER               -> header.dir,
      Stem(header.file)>>

(* Variant: the name is linked as it is.                                     *)
LinkPathVerbatim(n) == <<n.dir, n.file>>
(* The path that the .rson names, from the name of the output files: a       *)
(* leading "mdl\", spelt in any case, becomes "animrig\", and any other name *)
(* is put under "animrig\".                                                  *)
LinkPath(n) ==
    <<CASE n.dir \in {"mdl", "MDL"} -> "animrig"
        [] n.dir = "mdlx"           -> "animrig\\mdlx"
        [] OTHER                    -> "animrig\\weapons",
      n.file>>

(* The paths that the two of them can make.                                 *)
RigPaths == {"animrig", "animrigx", "MDL", "weapons", "rp", "animrig\\mdlx", "animrig\\weapons"}
                \X {"name", "other", "name.v2", "longname", "longna"}

-----------------------------------------------------------------------------
Refused == pc \in CanFail /\ failed' = failed \cup {pc}

(* exit(-1) from Error, which removes nothing.                             *)
ExitError == pc' = "idle" /\ ended' = "error" /\ UNCHANGED <<compile, name, source, disk, memory>>

(* MdlError: the files it knows by extension are removed from models\.  The *)
(* .rmdl it looks for is not there but under compiled\.                      *)
KnownExtensions == {"mdl", "vvd", "vtx"}
MdlError ==
    /\ pc' = "idle" /\ ended' = "mdlerror"
    /\ work' = [f \in Work |-> IF f \in KnownExtensions THEN NoWork[f] ELSE work[f]]
    /\ srcphy' = NoPhy
    /\ UNCHANGED <<compile, name, source, failed, rmdl, vg, phy, rson, rigs, memory>>

Goto(step) == pc' = step /\ UNCHANGED <<compile, name, source, ended>>

(* The QC script is parsed before any file is opened.                       *)
Begin ==
    /\ pc = "idle" /\ compile < MaxCompiles
    /\ source' \in Sources
    /\ compile' = compile + 1
    /\ pc' = "open_mdl" /\ ended' = "running" /\ failed' = {}
    /\ loaded' = NoWork /\ held' = NoPhy
    /\ UNCHANGED <<name, disk>>

OpenMdl ==
    /\ pc = "open_mdl"
    /\ \/ source.error = "script" /\ MdlError
       \/ /\ source.error # "script"
          /\ \/ /\ work' = [work EXCEPT !["mdl"] = [state |-> "torn", of |-> compile, stage |-> "raw"]]
                /\ Goto("write_phy")
                /\ UNCHANGED <<failed, srcphy, rmdl, vg, phy, rson, rigs, memory>>
             \/ Refused /\ ExitError

(* Variant: a .phy that is already there is kept.                            *)
SolidWrittenOnce ==
    IF srcphy.state = "absent" THEN [state |-> "whole", of |-> compile] ELSE srcphy
SolidWritten == [state |-> "whole", of |-> compile]

(* CollisionModel_Write: without a collision list nothing is opened, and a  *)
(* refused open is only a warning.  The file of $phyname is not one that any    *)
(* later step opens.                                                        *)
WritePhy ==
    /\ pc = "write_phy" /\ Goto("write_mdl")
    /\ \/ /\ source.solid = "yes" /\ srcphy' = SolidWritten
          /\ UNCHANGED failed
       \/ source.solid # "no" /\ Refused /\ UNCHANGED srcphy
       \/ source.solid # "yes" /\ UNCHANGED <<srcphy, failed>>
    /\ UNCHANGED <<work, rmdl, vg, phy, rson, rigs, memory>>

(* Variant: a file that is already there is kept.                            *)
FreshKeepsOld(f) ==
    IF work[f].state = "whole" THEN work
    ELSE [work EXCEPT ![f] = [state |-> "whole", of |-> compile, stage |-> "raw"]]
Fresh(f) == [work EXCEPT ![f] = [state |-> "whole", of |-> compile, stage |-> "raw"]]

WriteMdl ==
    /\ pc = "write_mdl"
    /\ work' = Fresh("mdl")
    /\ Goto(IF source.bodies = "none" THEN "convert" ELSE "write_vvd")
    /\ UNCHANGED <<failed, srcphy, rmdl, vg, phy, rson, rigs, memory>>

(* WriteVertices saves the .vvd and the weight sidecar; SaveFile exits when *)
(* the open is refused.                                                     *)
SaveVertices(f, next) ==
    \/ /\ work' = Fresh(f) /\ Goto(next)
       /\ UNCHANGED <<failed, srcphy, rmdl, vg, phy, rson, rigs, memory>>
    \/ Refused /\ ExitError

WriteVvd == pc = "write_vvd" /\ SaveVertices("vvd", "write_weights")
WriteWeights == pc = "write_weights" /\ SaveVertices("weights", "write_vtx")

(* WriteOptimizedFiles checks the LOD materials, then writes the .vtx, a    *)
(* refused open being a warning.                                            *)
WriteVtx ==
    /\ pc = "write_vtx"
    /\ \/ source.error = "materials" /\ MdlError
       \/ /\ source.error # "materials" /\ Goto("sort")
          /\ \/ work' = Fresh("vtx") /\ UNCHANGED failed
             \/ Refused /\ UNCHANGED work
          /\ UNCHANGED <<srcphy, rmdl, vg, phy, rson, rigs, memory>>

(* FixupToSortedLODVertexes reads the .vtx.  One of another compile may or  *)
(* may not pass for this model's.                                           *)
Sort ==
    /\ pc = "sort"
    /\ \/ work["vtx"].state = "absent" /\ ExitError /\ UNCHANGED failed
       \/ /\ work["vtx"].state # "absent"
          /\ Goto("sort_vvd") /\ UNCHANGED <<failed, disk, memory>>
       \/ /\ work["vtx"].state # "absent"
          /\ work["vtx"].of # compile \/ work["vtx"].state = "torn"
          /\ MdlError

(* The fix-ups and the clamp rewrite the four files one after the other.    *)
Rewrite ==
    /\ pc \in DOMAIN Rewriting
    /\ \/ /\ work' = [work EXCEPT ![Rewriting[pc].file].stage = Rewriting[pc].stage]
          /\ Goto(Rewriting[pc].next)
          /\ UNCHANGED <<failed, srcphy, rmdl, vg, phy, rson, rigs, memory>>
       \/ Refused /\ ExitError

Clamp ==
    /\ pc = "clamp"
    /\ Goto(IF source.minlod THEN "cut_mdl" ELSE "convert")
    /\ UNCHANGED <<failed, disk, memory>>
-----------------------------------------------------------------------------
(* WriteRMDLFiles.                                                         *)

(* R5_RunAnimConv: whatever goes wrong is printed and forgotten.            *)
Convert ==
    /\ pc = "convert" /\ Goto("check")
    /\ \/ ~source.anims /\ UNCHANGED <<rigs, failed>>
       \/ /\ source.anims
          /\ rigs' = [rigs EXCEPT ![RigPath(HeaderName, source.rp)] = compile] /\ UNCHANGED failed
       \/ source.anims /\ Refused /\ UNCHANGED rigs
    /\ UNCHANGED <<work, srcphy, rmdl, vg, phy, rson, memory>>

(* R5_HasRenderableMesh.                                                    *)
Check ==
    /\ pc = "check" /\ Goto(IF source.bodies = "mesh" THEN "load" ELSE "remove")
    /\ UNCHANGED <<failed, disk, memory>>

(* A .vvd or .vtx that cannot be read ends the compile, as a success and    *)
(* with the intermediate files in place.                                    *)
Load ==
    /\ pc = "load"
    /\ \/ /\ loaded' = work /\ Goto("write_rmdl") /\ UNCHANGED <<failed, disk, held>>
       \/ /\ Refused /\ pc' = "idle" /\ ended' = "done"
          /\ UNCHANGED <<compile, name, source, disk, memory>>

(* The header is written with phySize 0.                                    *)
(* Variant: the size is claimed before there is a file.                      *)
NewRmdlClaiming ==
    [state |-> "whole", of |-> compile, phy |-> IF source.solid = "yes" THEN compile ELSE 0]
NewRmdl == [state |-> "whole", of |-> compile, phy |-> 0]
WriteRmdl ==
    /\ pc = "write_rmdl"
    /\ \/ rmdl' = NewRmdl /\ UNCHANGED failed
       \/ Refused /\ UNCHANGED rmdl
    /\ Goto(IF source.anims THEN "write_rson" ELSE "write_vg")
    /\ UNCHANGED <<work, srcphy, vg, phy, rson, rigs, memory>>

WriteRson ==
    /\ pc = "write_rson" /\ Goto("write_vg")
    /\ \/ /\ rson' = [state |-> "whole", of |-> compile, link |-> LinkPath(name)]
          /\ UNCHANGED failed
       \/ Refused /\ UNCHANGED rson
    /\ UNCHANGED <<work, srcphy, rmdl, vg, phy, rigs, memory>>

WriteVg ==
    /\ pc = "write_vg" /\ Goto("read_phy")
    /\ \/ vg' = [state |-> "whole", of |-> compile, from |-> loaded] /\ UNCHANGED failed
       \/ Refused /\ UNCHANGED vg
    /\ UNCHANGED <<work, srcphy, rmdl, phy, rson, rigs, memory>>

(* Any .phy found under models\ is taken, and removed once it is read.      *)
ReadPhy ==
    /\ pc = "read_phy"
    /\ \/ /\ srcphy.state = "absent" /\ Goto("remove")
          /\ UNCHANGED <<failed, srcphy, held>>
       \/ /\ srcphy.state # "absent"
          /\ held' = srcphy /\ srcphy' = NoPhy
          /\ Goto("write_cphy") /\ UNCHANGED failed
       \/ /\ srcphy.state # "absent" /\ Refused
          /\ Goto("remove") /\ UNCHANGED <<srcphy, held>>
    /\ UNCHANGED <<work, rmdl, vg, phy, rson, rigs, loaded>>

WriteCompiledPhy ==
    /\ pc = "write_cphy"
    /\ \/ /\ phy' = [state |-> "whole", of |-> held.of, check |-> compile]
          /\ Goto("patch") /\ UNCHANGED failed
       \/ Refused /\ Goto("remove") /\ UNCHANGED phy
    /\ UNCHANGED <<work, srcphy, rmdl, vg, rson, rigs, memory>>

(* phySize is patched into whatever .rmdl is there.                         *)
Patch ==
    /\ pc = "patch" /\ Goto("remove")
    /\ \/ rmdl.state # "absent" /\ rmdl' = [rmdl EXCEPT !.phy = held.of] /\ UNCHANGED failed
       \/ rmdl.state = "absent" /\ UNCHANGED <<rmdl, failed>>
       \/ Refused /\ UNCHANGED rmdl
    /\ UNCHANGED <<work, srcphy, vg, phy, rson, rigs, memory>>

(* R5_RemoveIntermediateModelFiles; WriteRMDLFiles returns.                 *)
(* Variant: the list from before there was a weight sidecar.                 *)
TemporaryExtensionsOfSource == {"mdl", "vvd", "vtx"}
TemporaryExtensions == {"mdl", "vvd", "weights", "vtx"}
Remove ==
    /\ pc = "remove" /\ pc' = "idle" /\ ended' = "done"
    /\ work' = [f \in Work |-> IF f \in TemporaryExtensions THEN NoWork[f] ELSE work[f]]
    /\ UNCHANGED <<compile, name, source, failed, srcphy, rmdl, vg, phy, rson, rigs, memory>>
-----------------------------------------------------------------------------
(* The process is killed: between two steps, with the file of the step half *)
(* written, or with the first of the intermediate files removed.            *)
Tears(step, file) == pc = step /\ file' = [file EXCEPT !.state = "torn"]
WorkAt == [write_mdl |-> "mdl", write_vvd |-> "vvd", write_weights |-> "weights",
           write_vtx |-> "vtx"]
RemovedSoFar == {{"mdl"}, {"mdl", "vvd"}, {"mdl", "vvd", "weights"}}

Crash ==
    /\ Crashes /\ pc # "idle" /\ pc' = "idle" /\ ended' = "crashed"
    /\ UNCHANGED <<compile, name, source, failed, memory, rigs>>
    /\ \/ UNCHANGED <<work, srcphy, rmdl, vg, phy, rson>>
       \/ /\ \/ pc \in DOMAIN WorkAt
                  /\ work' = [work EXCEPT ![WorkAt[pc]] =
                                [state |-> "torn", of |-> compile, stage |-> "raw"]]
             \/ pc \in DOMAIN Rewriting
                  /\ work' = [work EXCEPT ![Rewriting[pc].file].state = "torn"]
             \/ pc = "remove" /\ \E gone \in RemovedSoFar :
                  work' = [f \in Work |-> IF f \in gone THEN NoWork[f] ELSE work[f]]
          /\ UNCHANGED <<srcphy, rmdl, vg, phy, rson>>
       \/ /\ pc = "write_phy" /\ source.solid = "yes"
          /\ srcphy' = [state |-> "torn", of |-> compile]
          /\ UNCHANGED <<work, rmdl, vg, phy, rson>>
       \/ Tears("write_rmdl", rmdl) /\ UNCHANGED <<work, srcphy, vg, phy, rson>>
       \/ Tears("write_rson", rson) /\ UNCHANGED <<work, srcphy, rmdl, vg, phy>>
       \/ Tears("write_vg", vg) /\ UNCHANGED <<work, srcphy, rmdl, phy, rson>>
       \/ Tears("write_cphy", phy) /\ UNCHANGED <<work, srcphy, rmdl, vg, rson>>

(* An exception that nothing catches reaches MdlExceptionFilter, which goes   *)
(* through MdlError.                                                         *)
Fault == Crashes /\ pc # "idle" /\ MdlError

Init ==
    /\ compile = 0 /\ name \in Names /\ source \in Sources
    /\ pc = "idle" /\ ended = "done" /\ failed = {}
    /\ work = NoWork /\ srcphy = NoPhy
    /\ rmdl = [state |-> "absent", of |-> 0, phy |-> 0]
    /\ vg = [state |-> "absent", of |-> 0, from |-> NoWork]
    /\ phy = [state |-> "absent", of |-> 0, check |-> 0]
    /\ rson = [state |-> "absent", of |-> 0, link |-> LinkPath(name)]
    /\ rigs = [p \in RigPaths |-> 0]
    /\ loaded = NoWork /\ held = NoPhy

Next ==
    \/ Begin \/ OpenMdl \/ WritePhy \/ WriteMdl \/ WriteVvd \/ WriteWeights \/ WriteVtx
    \/ Sort \/ Rewrite \/ Clamp \/ Convert \/ Check \/ Load \/ WriteRmdl \/ WriteRson
    \/ WriteVg \/ ReadPhy \/ WriteCompiledPhy \/ Patch \/ Remove \/ Crash \/ Fault

Spec == Init /\ [][Next]_vars
-----------------------------------------------------------------------------
Compiles == 0..compile
WorkFiles == [Work -> [state : States, of : Compiles, stage : Stages]]

(* Types: every file is absent, torn or whole and of a compile that ran.    *)
TypeOK ==
    /\ compile \in 0..MaxCompiles /\ name \in Names /\ source \in Sources
    /\ pc \in Steps /\ failed \subseteq CanFail
    /\ ended \in {"running", "done", "error", "mdlerror", "crashed"}
    /\ work \in WorkFiles /\ loaded \in WorkFiles
    /\ srcphy \in [state : States, of : Compiles] /\ held \in [state : States, of : Compiles]
    /\ rmdl \in [state : States, of : Compiles, phy : Compiles]
    /\ vg \in [state : States, of : Compiles, from : WorkFiles]
    /\ phy \in [state : States, of : Compiles, check : Compiles]
    /\ rson \in [state : States, of : Compiles, link : RigPaths]
    /\ rigs \in [RigPaths -> Compiles]

(* Whenever the disk holds a whole .rmdl with a phySize, after a kill at any *)
(* step too, the compiled .phy is whole, it is the one whose size the header *)
(* has, and it carries the checksum of that .rmdl: WriteRMDLFiles writes the *)
(* header with size 0, then the .phy, then patches the size.                 *)
ClaimedPhysics ==
    rmdl.state = "whole" /\ rmdl.phy # 0 =>
        phy.state = "whole" /\ phy.of = rmdl.phy /\ phy.check = rmdl.of

Done == pc = "idle" /\ ended = "done" /\ compile > 0

(* A compile that ends without a refused open of the files concerned leaves  *)
(* an .rmdl and a .vg of its own, and the .vg was built from a .vvd, a .vtx  *)
(* and a weight sidecar of this compile that were all sorted, and all cut if *)
(* a root LOD was asked for, whatever an earlier compile left behind.        *)
LastStage == IF source.minlod THEN "cut" ELSE "sorted"
LoadableSet ==
    Done /\ source.bodies = "mesh"
      /\ failed \cap {"load", "write_vtx", "write_rmdl", "write_vg"} = {} =>
        /\ rmdl.state = "whole" /\ rmdl.of = compile
        /\ vg.state = "whole" /\ vg.of = compile
        /\ \A f \in Work : vg.from[f] = [state |-> "whole", of |-> compile, stage |-> LastStage]

(* A model with a collision model gets its own: when no open was refused the *)
(* .phy is built from what CollisionModel_Write wrote in this compile, and   *)
(* the .rmdl names it.                                                       *)
PhysicsKept ==
    Done /\ source.bodies = "mesh" /\ source.solid = "yes" /\ failed = {} =>
        rmdl.phy = compile /\ phy = [state |-> "whole", of |-> compile, check |-> compile]

(* No intermediate file survives a compile that ended well, be it left by an *)
(* earlier one that was killed, unless the files could not be read back:     *)
(* "deleted afterwards, along with the MDL file itself" (rmdl_write.h).      *)
IntermediatesGone ==
    Done /\ "load" \notin failed => \A f \in Work : work[f].state = "absent"

(* Two programs make the path of the rig, R5_ConvertMDLAnimations from the      *)
(* header's name and from -rp, WriteRMDLFiles from the name of the output.  They *)
(* agree on a name under mdl\ (in lower case) whose file has no dot and fits in *)
(* the header, when the header has that name and -rp is not given.              *)
SameName ==
    /\ name.dir = "mdl" /\ Stem(name.file) = name.file
    /\ source.internal \in {NoName, name} /\ source.rp = "none"

(* Then the rig that the .rson of a compile names is in place, and is the one    *)
(* that this compile wrote, whatever the compiles before wrote or tore.         *)
RsonLinksRrig ==
    Done /\ SameName /\ failed = {} /\ rson.state = "whole" /\ rson.of = compile =>
        \E p \in RigPaths : p = rson.link /\ rigs[p] = compile
=============================================================================
