-------------------------- MODULE OutputFiles_proofs --------------------------
(***************************************************************************)
(* The claim an .rmdl makes about its .phy, for every number of compiles,  *)
(* every set of sources and every set of steps that may be refused except  *)
(* the opening of the .rmdl itself; and what a compile leaves behind that   *)
(* ended well, whatever may be refused: no property of OutputFiles looks    *)
(* further back than the compile before, and each is secured by the order   *)
(* of the steps.                                                           *)
(***************************************************************************)
EXTENDS OutputFiles, TLAPS

-----------------------------------------------------------------------------
(* Type correctness.                                                       *)

LEMMA StepsOfRewriting ==
    ASSUME NEW step \in DOMAIN Rewriting
    PROVE  /\ Rewriting[step].file \in Work
           /\ Rewriting[step].stage \in Stages
           /\ Rewriting[step].next \in Steps
           /\ Rewriting[step].next # "idle"
BY DEF Rewriting, Work, Stages, Steps

LEMMA PathsTyped ==
    ASSUME NEW n \in NameType, NEW rp \in {"none", "given"}
    PROVE  LinkPath(n) \in RigPaths /\ RigPath(n, rp) \in RigPaths
<1>1. /\ n.dir \in {"mdl", "MDL", "mdlx", "weapons"}
      /\ n.file \in {"name", "other", "name.v2", "longname"}
  BY DEF NameType
<1>2. LinkPath(n) \in RigPaths
  BY <1>1 DEF RigPaths, LinkPath
<1>3. Stem(n.file) \in {"name", "other", "longna"}
  BY <1>1 DEF Stem
<1>4. RigPath(n, rp) \in RigPaths
  BY <1>1, <1>3 DEF RigPaths, RigPath
<1> QED BY <1>2, <1>4

LEMMA TypeInit == Init => TypeOK
<1> SUFFICES ASSUME Init PROVE TypeOK
  OBVIOUS
<1> USE FilesAssumption
<1>1. compile \in 0..MaxCompiles /\ name \in Names /\ source \in Sources
  BY DEF Init
<1>2. pc \in Steps /\ failed \subseteq CanFail /\ ended = "done"
  BY DEF Init, Steps
<1>3. NoWork \in WorkFiles
  BY DEF Init, NoWork, WorkFiles, States, Stages, Compiles
<1>4. NoPhy \in [state : States, of : Compiles]
  BY DEF Init, NoPhy, States, Compiles
<1>5. work \in WorkFiles /\ loaded \in WorkFiles
  BY <1>3 DEF Init
<1>6. srcphy \in [state : States, of : Compiles] /\ held \in [state : States, of : Compiles]
  BY <1>4 DEF Init
<1>7. rmdl \in [state : States, of : Compiles, phy : Compiles]
      /\ phy \in [state : States, of : Compiles, check : Compiles]
  BY DEF Init, States, Compiles
<1>8. vg \in [state : States, of : Compiles, from : WorkFiles]
  BY <1>3 DEF Init, States, Compiles
<1>9. rson \in [state : States, of : Compiles, link : RigPaths]
  BY PathsTyped DEF Init, States, Compiles
<1>10. rigs \in [RigPaths -> Compiles]
  BY DEF Init, Compiles
<1> QED BY <1>1, <1>2, <1>5, <1>6, <1>7, <1>8, <1>9, <1>10 DEF TypeOK

(* What a step of the same compile keeps.                                   *)
LEMMA CompileTyped ==
    ASSUME TypeOK
    PROVE  compile \in Compiles /\ 0 \in Compiles
BY FilesAssumption DEF TypeOK, Compiles

LEMMA NothingTyped ==
    ASSUME TypeOK
    PROVE  NoWork \in WorkFiles /\ NoPhy \in [state : States, of : Compiles]
BY CompileTyped DEF NoWork, NoPhy, WorkFiles, States, Stages

LEMMA FreshTyped ==
    ASSUME TypeOK, NEW f \in Work, NEW state \in States, NEW stage \in Stages
    PROVE  [work EXCEPT ![f] = [state |-> state, of |-> compile, stage |-> stage]] \in WorkFiles
BY CompileTyped DEF TypeOK, WorkFiles

(* The variables a step may change, the compile staying the same.           *)
SameCompile == UNCHANGED <<compile, name, source>>
PcTyped == pc \in Steps /\ failed \subseteq CanFail
             /\ ended \in {"running", "done", "error", "mdlerror", "crashed"}
WorkTyped == work \in WorkFiles /\ loaded \in WorkFiles
PhyTyped == /\ srcphy \in [state : States, of : Compiles]
            /\ held \in [state : States, of : Compiles]
            /\ phy \in [state : States, of : Compiles, check : Compiles]
OutTyped == /\ rmdl \in [state : States, of : Compiles, phy : Compiles]
            /\ vg \in [state : States, of : Compiles, from : WorkFiles]
            /\ rson \in [state : States, of : Compiles, link : RigPaths]
            /\ rigs \in [RigPaths -> Compiles]

LEMMA TypeParts ==
    ASSUME TypeOK
    PROVE  PcTyped /\ WorkTyped /\ PhyTyped /\ OutTyped
BY DEF TypeOK, PcTyped, WorkTyped, PhyTyped, OutTyped

LEMMA TypeFromParts ==
    ASSUME TypeOK, SameCompile, PcTyped', WorkTyped', PhyTyped', OutTyped'
    PROVE  TypeOK'
BY DEF TypeOK, SameCompile, PcTyped, WorkTyped, PhyTyped, OutTyped

(* Each part is kept by a step that leaves its variables alone.             *)
LEMMA PartsKept ==
    ASSUME TypeOK, SameCompile
    PROVE  /\ UNCHANGED <<work, loaded>> => WorkTyped'
           /\ work' \in WorkFiles /\ UNCHANGED loaded => WorkTyped'
           /\ UNCHANGED <<srcphy, held, phy>> => PhyTyped'
           /\ UNCHANGED <<rmdl, vg, rson, rigs>> => OutTyped'
BY DEF TypeOK, SameCompile, WorkTyped, PhyTyped, OutTyped, WorkFiles, Compiles

LEMMA RefusedTyped ==
    ASSUME TypeOK, Refused PROVE failed' \subseteq CanFail
BY DEF TypeOK, Refused

LEMMA MdlErrorTyped == ASSUME TypeOK, MdlError PROVE TypeOK'
<1>1. SameCompile /\ PcTyped'
  BY DEF MdlError, SameCompile, PcTyped, TypeOK, Steps
<1>2. WorkTyped'
  <2>1. work' \in WorkFiles
    BY NothingTyped DEF MdlError, TypeOK, WorkFiles
  <2> QED BY <1>1, <2>1, PartsKept DEF MdlError, memory
<1>3. PhyTyped'
  BY <1>1, NothingTyped DEF MdlError, TypeOK, PhyTyped, memory, SameCompile, Compiles
<1>4. OutTyped'
  BY <1>1, PartsKept DEF MdlError
<1> QED BY <1>1, <1>2, <1>3, <1>4, TypeFromParts

LEMMA ErrorTyped == ASSUME TypeOK, ExitError, failed' \subseteq CanFail PROVE TypeOK'
<1>1. SameCompile /\ PcTyped'
  BY DEF ExitError, SameCompile, PcTyped, TypeOK, Steps
<1>2. WorkTyped' /\ PhyTyped' /\ OutTyped'
  BY <1>1, PartsKept DEF ExitError, disk, memory
<1> QED BY <1>1, <1>2, TypeFromParts

(* A step that goes on to another and rewrites one intermediate file.       *)
LEMMA WorkStepTyped ==
    ASSUME TypeOK, NEW next \in Steps, Goto(next), work' \in WorkFiles, failed' \subseteq CanFail,
           UNCHANGED <<srcphy, rmdl, vg, phy, rson, rigs, memory>>
    PROVE  TypeOK'
<1>1. SameCompile /\ PcTyped'
  BY DEF Goto, SameCompile, PcTyped, TypeOK
<1>2. WorkTyped' /\ PhyTyped' /\ OutTyped'
  BY <1>1, PartsKept DEF memory
<1> QED BY <1>1, <1>2, TypeFromParts
-----------------------------------------------------------------------------
(* One lemma per group of actions.                                         *)

LEMMA BeginTyped == ASSUME TypeOK, Begin PROVE TypeOK'
<1> USE FilesAssumption
<1>1. compile' = compile + 1 /\ compile' \in 0..MaxCompiles /\ Compiles \subseteq Compiles'
  BY DEF Begin, TypeOK, Compiles
<1>2. 0 \in Compiles'
  BY <1>1 DEF Compiles, TypeOK
<1>3. /\ name' \in Names /\ source' \in Sources /\ pc' \in Steps /\ failed' \subseteq CanFail
      /\ ended' = "running"
  BY DEF Begin, TypeOK, Steps, disk
<1>4. WorkFiles \subseteq WorkFiles'
  BY <1>1 DEF WorkFiles
<1>5. work' \in WorkFiles' /\ loaded' \in WorkFiles'
  BY <1>4, NothingTyped DEF Begin, disk, TypeOK
<1>6. srcphy' \in [state : States, of : Compiles'] /\ held' \in [state : States, of : Compiles']
  BY <1>1, NothingTyped DEF Begin, disk, TypeOK
<1>7. /\ rmdl' \in [state : States, of : Compiles', phy : Compiles']
      /\ phy' \in [state : States, of : Compiles', check : Compiles']
  BY <1>1 DEF Begin, disk, TypeOK
<1>8. vg' \in [state : States, of : Compiles', from : WorkFiles']
  BY <1>1, <1>4 DEF Begin, disk, TypeOK
<1>9. rson' \in [state : States, of : Compiles', link : RigPaths] /\ rigs' \in [RigPaths -> Compiles']
  BY <1>1 DEF Begin, disk, TypeOK
<1> QED BY <1>1, <1>3, <1>5, <1>6, <1>7, <1>8, <1>9 DEF TypeOK

LEMMA OpenMdlTyped == ASSUME TypeOK, OpenMdl PROVE TypeOK'
<1>1. CASE MdlError
  BY <1>1, MdlErrorTyped
<1>2. CASE Refused /\ ExitError
  BY <1>2, RefusedTyped, ErrorTyped
<1>3. CASE /\ work' = [work EXCEPT !["mdl"] = [state |-> "torn", of |-> compile, stage |-> "raw"]]
           /\ Goto("write_phy")
           /\ UNCHANGED <<failed, srcphy, rmdl, vg, phy, rson, rigs, memory>>
  <2>1. work' \in WorkFiles
    BY <1>3, FreshTyped DEF Work, States, Stages
  <2>2. "write_phy" \in Steps /\ failed' \subseteq CanFail
    BY <1>3 DEF Steps, TypeOK
  <2> QED BY <1>3, <2>1, <2>2, WorkStepTyped
<1> QED BY <1>1, <1>2, <1>3 DEF OpenMdl

LEMMA WritePhyTyped == ASSUME TypeOK, WritePhy PROVE TypeOK'
<1>1. SameCompile /\ PcTyped'
  BY RefusedTyped DEF WritePhy, Goto, SameCompile, PcTyped, TypeOK, Steps
<1>2. srcphy' \in [state : States, of : Compiles]
  BY CompileTyped DEF WritePhy, SolidWritten, TypeOK, States
<1>3. PhyTyped'
  BY <1>1, <1>2 DEF WritePhy, PhyTyped, TypeOK, memory, SameCompile, Compiles
<1>4. WorkTyped' /\ OutTyped'
  BY <1>1, PartsKept DEF WritePhy, memory
<1> QED BY <1>1, <1>3, <1>4, TypeFromParts

LEMMA FreshFile == ASSUME TypeOK, NEW f \in Work PROVE Fresh(f) \in WorkFiles
BY FreshTyped DEF Fresh, States, Stages

LEMMA SaveTyped ==
    ASSUME TypeOK, NEW f \in Work, NEW next \in Steps, SaveVertices(f, next)
    PROVE  TypeOK'
<1>1. CASE Refused /\ ExitError
  BY <1>1, RefusedTyped, ErrorTyped
<1>2. CASE work' = Fresh(f) /\ Goto(next)
           /\ UNCHANGED <<failed, srcphy, rmdl, vg, phy, rson, rigs, memory>>
  BY <1>2, FreshFile, WorkStepTyped DEF TypeOK
<1> QED BY <1>1, <1>2 DEF SaveVertices

LEMMA WritersTyped ==
    ASSUME TypeOK, WriteMdl \/ WriteVvd \/ WriteWeights \/ WriteVtx
    PROVE  TypeOK'
<1> {"mdl", "vvd", "weights", "vtx"} \subseteq Work
  BY DEF Work
<1> {"convert", "write_vvd", "write_weights", "write_vtx", "sort"} \subseteq Steps
  BY DEF Steps
<1>1. CASE WriteMdl
  <2>1. work' \in WorkFiles /\ failed' \subseteq CanFail
    BY <1>1, FreshFile DEF WriteMdl, TypeOK
  <2>2. PICK next \in Steps : Goto(next)
    BY <1>1 DEF WriteMdl
  <2> QED BY <1>1, <2>1, <2>2, WorkStepTyped DEF WriteMdl
<1>2. CASE WriteVvd
  BY <1>2, SaveTyped DEF WriteVvd
<1>3. CASE WriteWeights
  BY <1>3, SaveTyped DEF WriteWeights
<1>4. CASE WriteVtx
  <2>1. CASE MdlError
    BY <2>1, MdlErrorTyped
  <2>2. CASE ~MdlError
    <3>1. work' \in WorkFiles /\ failed' \subseteq CanFail
      BY <1>4, <2>2, FreshFile, RefusedTyped DEF WriteVtx, TypeOK
    <3> QED BY <1>4, <2>2, <3>1, WorkStepTyped DEF WriteVtx
  <2> QED BY <2>1, <2>2
<1> QED BY <1>1, <1>2, <1>3, <1>4

LEMMA FixupsTyped ==
    ASSUME TypeOK, Sort \/ Rewrite \/ Clamp
    PROVE  TypeOK'
<1>0. {"sort_vvd", "cut_mdl", "convert"} \subseteq Steps
  BY DEF Steps, Rewriting
<1>1. CASE Sort
  <2>1. CASE MdlError
    BY <2>1, MdlErrorTyped
  <2>2. CASE ExitError /\ UNCHANGED failed
    BY <2>2, ErrorTyped DEF TypeOK
  <2>3. CASE Goto("sort_vvd") /\ UNCHANGED <<failed, disk, memory>>
    BY <1>0, <2>3, WorkStepTyped DEF TypeOK, disk
  <2> QED BY <1>1, <2>1, <2>2, <2>3 DEF Sort
<1>2. CASE Rewrite
  <2>1. CASE Refused /\ ExitError
    BY <2>1, RefusedTyped, ErrorTyped
  <2>2. CASE /\ work' = [work EXCEPT ![Rewriting[pc].file].stage = Rewriting[pc].stage]
             /\ Goto(Rewriting[pc].next)
             /\ UNCHANGED <<failed, srcphy, rmdl, vg, phy, rson, rigs, memory>>
    <3>1. pc \in DOMAIN Rewriting
      BY <1>2 DEF Rewrite
    <3>2. Rewriting[pc].file \in Work /\ Rewriting[pc].stage \in Stages /\ Rewriting[pc].next \in Steps
      BY <3>1, StepsOfRewriting
    <3>3. work' \in WorkFiles
      BY <2>2, <3>2 DEF TypeOK, WorkFiles
    <3> QED BY <2>2, <3>2, <3>3, WorkStepTyped DEF TypeOK
  <2> QED BY <1>2, <2>1, <2>2 DEF Rewrite
<1>3. CASE Clamp
  <2>1. PICK next \in Steps : Goto(next)
    BY <1>0, <1>3 DEF Clamp
  <2> QED BY <1>3, <2>1, WorkStepTyped DEF Clamp, TypeOK, disk
<1> QED BY <1>1, <1>2, <1>3

LEMMA ReadersTyped ==
    ASSUME TypeOK, Check \/ Load \/ Remove
    PROVE  TypeOK'
<1>0. {"load", "remove", "write_rmdl", "idle"} \subseteq Steps
  BY DEF Steps
<1>1. CASE Check
  <2>1. PICK next \in Steps : Goto(next)
    BY <1>0, <1>1 DEF Check
  <2> QED BY <1>1, <2>1, WorkStepTyped DEF Check, TypeOK, disk
<1>2. CASE Load
  <2>1. SameCompile /\ PcTyped'
    BY <1>0, <1>2, RefusedTyped DEF Load, Goto, SameCompile, PcTyped, TypeOK
  <2>2. PhyTyped' /\ OutTyped'
    BY <1>2, <2>1, PartsKept DEF Load, disk, memory
  <2>3. WorkTyped'
    BY <1>2, <2>1 DEF Load, disk, memory, WorkTyped, TypeOK, WorkFiles, SameCompile, Compiles
  <2> QED BY <2>1, <2>2, <2>3, TypeFromParts
<1>3. CASE Remove
  <2>1. SameCompile /\ PcTyped'
    BY <1>0, <1>3 DEF Remove, SameCompile, PcTyped, TypeOK
  <2>2. work' \in WorkFiles
    BY <1>3, NothingTyped DEF Remove, TypeOK, WorkFiles
  <2>3. WorkTyped' /\ PhyTyped' /\ OutTyped'
    BY <1>3, <2>1, <2>2, PartsKept DEF Remove, memory
  <2> QED BY <2>1, <2>3, TypeFromParts
<1> QED BY <1>1, <1>2, <1>3

LEMMA OutputsTyped ==
    ASSUME TypeOK, Convert \/ WriteRmdl \/ WriteRson \/ WriteVg
    PROVE  TypeOK'
<1>1. SameCompile /\ PcTyped'
  BY RefusedTyped
  DEF Convert, WriteRmdl, WriteRson, WriteVg, Goto, SameCompile, PcTyped, TypeOK, Steps
<1>2. WorkTyped' /\ PhyTyped'
  BY <1>1, PartsKept DEF Convert, WriteRmdl, WriteRson, WriteVg, memory
<1>3. name \in NameType /\ HeaderName \in NameType /\ source.rp \in {"none", "given"}
  BY FilesAssumption DEF TypeOK, SourceType, HeaderName
<1>4. rmdl' \in [state : States, of : Compiles, phy : Compiles]
  BY CompileTyped DEF Convert, WriteRmdl, WriteRson, WriteVg, TypeOK, NewRmdl, States
<1>5. vg' \in [state : States, of : Compiles, from : WorkFiles]
  BY CompileTyped DEF Convert, WriteRmdl, WriteRson, WriteVg, TypeOK, States
<1>6. rson' \in [state : States, of : Compiles, link : RigPaths]
  BY <1>3, CompileTyped, PathsTyped DEF Convert, WriteRmdl, WriteRson, WriteVg, TypeOK, States
<1>7. rigs' \in [RigPaths -> Compiles]
  BY <1>3, CompileTyped, PathsTyped DEF Convert, WriteRmdl, WriteRson, WriteVg, TypeOK
<1>8. OutTyped'
  BY <1>1, <1>4, <1>5, <1>6, <1>7 DEF OutTyped, SameCompile, Compiles, WorkFiles
<1> QED BY <1>1, <1>2, <1>8, TypeFromParts

LEMMA PhysicsTyped ==
    ASSUME TypeOK, ReadPhy \/ WriteCompiledPhy \/ Patch
    PROVE  TypeOK'
<1>1. SameCompile /\ PcTyped'
  BY RefusedTyped
  DEF ReadPhy, WriteCompiledPhy, Patch, Goto, SameCompile, PcTyped, TypeOK, Steps
<1>2. WorkTyped'
  BY <1>1, PartsKept DEF ReadPhy, WriteCompiledPhy, Patch, memory
<1>3. /\ srcphy' \in [state : States, of : Compiles]
      /\ held' \in [state : States, of : Compiles]
  BY NothingTyped DEF ReadPhy, WriteCompiledPhy, Patch, TypeOK, memory
<1>4. phy' \in [state : States, of : Compiles, check : Compiles]
  BY CompileTyped DEF ReadPhy, WriteCompiledPhy, Patch, TypeOK, States
<1>5. rmdl' \in [state : States, of : Compiles, phy : Compiles]
  BY DEF ReadPhy, WriteCompiledPhy, Patch, TypeOK
<1>6. PhyTyped'
  BY <1>1, <1>3, <1>4 DEF PhyTyped, SameCompile, Compiles
<1>7. OutTyped'
  BY <1>1, <1>5 DEF ReadPhy, WriteCompiledPhy, Patch, OutTyped, TypeOK, SameCompile, Compiles, WorkFiles
<1> QED BY <1>1, <1>2, <1>6, <1>7, TypeFromParts

LEMMA TornTyped ==
    ASSUME NEW S, NEW T, NEW old \in [state : States, of : S, stage : T]
    PROVE  [old EXCEPT !.state = "torn"] \in [state : States, of : S, stage : T]
BY DEF States

LEMMA CrashTyped == ASSUME TypeOK, Crash PROVE TypeOK'
<1>1. SameCompile /\ PcTyped'
  BY DEF Crash, SameCompile, PcTyped, TypeOK, Steps
<1>2. work' \in WorkFiles
  <2>1. CASE UNCHANGED work
    BY <2>1 DEF TypeOK
  <2>2. CASE pc \in DOMAIN WorkAt /\ work' = [work EXCEPT ![WorkAt[pc]] =
                                [state |-> "torn", of |-> compile, stage |-> "raw"]]
    <3>1. WorkAt[pc] \in Work
      BY <2>2 DEF WorkAt, Work
    <3> QED BY <2>2, <3>1, FreshTyped DEF States, Stages
  <2>3. CASE pc \in DOMAIN Rewriting /\ work' = [work EXCEPT ![Rewriting[pc].file].state = "torn"]
    <3>1. Rewriting[pc].file \in Work
      BY <2>3, StepsOfRewriting
    <3> DEFINE old == work[Rewriting[pc].file]
    <3>2. old \in [state : States, of : Compiles, stage : Stages]
      BY <3>1 DEF TypeOK, WorkFiles
    <3>3. [old EXCEPT !.state = "torn"] \in [state : States, of : Compiles, stage : Stages]
      BY <3>2, TornTyped
    <3> QED BY <2>3, <3>1, <3>3 DEF TypeOK, WorkFiles
  <2>4. CASE \E gone \in RemovedSoFar :
               work' = [f \in Work |-> IF f \in gone THEN NoWork[f] ELSE work[f]]
    BY <2>4, NothingTyped DEF TypeOK, WorkFiles
  <2> QED BY <2>1, <2>2, <2>3, <2>4 DEF Crash, Tears
<1>3. WorkTyped'
  BY <1>1, <1>2, PartsKept DEF Crash, memory
<1>4. PhyTyped'
  BY <1>1, CompileTyped DEF Crash, Tears, PhyTyped, TypeOK, memory, States, SameCompile, Compiles
<1>5. OutTyped'
  BY <1>1 DEF Crash, Tears, OutTyped, TypeOK, States, SameCompile, Compiles, WorkFiles
<1> QED BY <1>1, <1>3, <1>4, <1>5, TypeFromParts

LEMMA TypeStep == TypeOK /\ [Next]_vars => TypeOK'
<1> SUFFICES ASSUME TypeOK, [Next]_vars PROVE TypeOK'
  OBVIOUS
<1>1. CASE UNCHANGED vars
  BY <1>1 DEF vars, disk, memory, TypeOK, WorkFiles, Compiles
<1>2. CASE Begin
  BY <1>2, BeginTyped
<1>3. CASE OpenMdl \/ WritePhy
  BY <1>3, OpenMdlTyped, WritePhyTyped
<1>4. CASE WriteMdl \/ WriteVvd \/ WriteWeights \/ WriteVtx
  BY <1>4, WritersTyped
<1>5. CASE Sort \/ Rewrite \/ Clamp
  BY <1>5, FixupsTyped
<1>6. CASE Check \/ Load \/ Remove
  BY <1>6, ReadersTyped
<1>7. CASE Convert \/ WriteRmdl \/ WriteRson \/ WriteVg
  BY <1>7, OutputsTyped
<1>8. CASE ReadPhy \/ WriteCompiledPhy \/ Patch
  BY <1>8, PhysicsTyped
<1>9. CASE Crash \/ Fault
  BY <1>9, CrashTyped, MdlErrorTyped DEF Fault
<1> QED BY <1>1, <1>2, <1>3, <1>4, <1>5, <1>6, <1>7, <1>8, <1>9 DEF Next

(* Type correctness: every file on disk is absent, torn or whole and comes   *)
(* from a compile that was run.                                              *)
THEOREM FilesTyped == Spec => []TypeOK
BY TypeInit, TypeStep, PTL DEF Spec
-----------------------------------------------------------------------------
(* The claim of an .rmdl about its .phy.                                    *)
(*                                                                         *)
(* ClaimedPhysics alone is not inductive: writing the .phy under an .rmdl  *)
(* that already claims one would break it, and so would patching an .rmdl  *)
(* of another compile.  IClaim adds what the order of the steps secures:   *)
(* from the writing of the .rmdl on, the file on disk is this compile's    *)
(* and claims nothing, and when it is patched the .phy is in place.        *)

AfterRmdl == {"write_rson", "write_vg", "read_phy", "write_cphy", "patch"}
RmdlIsOwn == pc \in AfterRmdl => rmdl = NewRmdl
PhyInPlace == pc = "patch" => phy = [state |-> "whole", of |-> held.of, check |-> compile]
IClaim == ClaimedPhysics /\ RmdlIsOwn /\ PhyInPlace

LEMMA ClaimInit == Init => IClaim
BY DEF Init, IClaim, ClaimedPhysics, RmdlIsOwn, PhyInPlace, AfterRmdl

(* A step that leaves .rmdl and .phy alone and goes nowhere behind the      *)
(* writing of the .rmdl.                                                    *)
LEMMA ClaimKept ==
    ASSUME IClaim, UNCHANGED <<rmdl, phy>>, pc' \notin AfterRmdl
    PROVE  IClaim'
BY DEF IClaim, ClaimedPhysics, RmdlIsOwn, PhyInPlace, AfterRmdl

LEMMA ClaimBefore ==
    ASSUME IClaim,
           \/ Begin \/ OpenMdl \/ WritePhy \/ WriteMdl \/ WriteVvd \/ WriteWeights
           \/ WriteVtx \/ Sort \/ Clamp \/ Convert \/ Check \/ Load \/ Remove \/ Fault
    PROVE  IClaim'
<1>1. UNCHANGED <<rmdl, phy>>
  BY DEF Begin, OpenMdl, WritePhy, WriteMdl, WriteVvd, WriteWeights, SaveVertices, WriteVtx,
         Sort, Clamp, Convert, Check, Load, Remove, Fault, MdlError, ExitError, disk
<1>2. pc' \notin AfterRmdl
  BY DEF Begin, OpenMdl, WritePhy, WriteMdl, WriteVvd, WriteWeights, SaveVertices, WriteVtx,
         Sort, Clamp, Convert, Check, Load, Remove, Fault, MdlError, ExitError, Goto, AfterRmdl
<1> QED BY <1>1, <1>2, ClaimKept

LEMMA ClaimRewrite == ASSUME IClaim, Rewrite PROVE IClaim'
<1>1. UNCHANGED <<rmdl, phy>>
  BY DEF Rewrite, ExitError, disk
<1>2. pc' \notin AfterRmdl
  BY DEF Rewrite, Rewriting, ExitError, Goto, AfterRmdl
<1> QED BY <1>1, <1>2, ClaimKept

LEMMA ClaimWriteRmdl ==
    ASSUME IClaim, WriteRmdl, "write_rmdl" \notin CanFail
    PROVE  IClaim'
<1>1. rmdl' = NewRmdl /\ UNCHANGED <<phy, compile>> /\ pc' \in {"write_rson", "write_vg"}
  BY DEF WriteRmdl, Refused, Goto
<1> QED BY <1>1 DEF IClaim, ClaimedPhysics, RmdlIsOwn, PhyInPlace, NewRmdl

LEMMA ClaimOutputs ==
    ASSUME IClaim, WriteRson \/ WriteVg \/ ReadPhy
    PROVE  IClaim'
<1>1. UNCHANGED <<rmdl, phy, compile>> /\ pc \in AfterRmdl
      /\ pc' \in {"write_vg", "read_phy", "write_cphy", "remove"}
  BY DEF WriteRson, WriteVg, ReadPhy, Goto, AfterRmdl
<1> QED BY <1>1 DEF IClaim, ClaimedPhysics, RmdlIsOwn, PhyInPlace, NewRmdl, AfterRmdl

(* The .phy is rewritten while the .rmdl claims nothing.                    *)
LEMMA ClaimWritePhy == ASSUME IClaim, WriteCompiledPhy PROVE IClaim'
<1>1. rmdl = NewRmdl
  BY DEF IClaim, RmdlIsOwn, AfterRmdl, WriteCompiledPhy
<1>2. UNCHANGED <<rmdl, compile, held>>
  BY DEF WriteCompiledPhy, Goto, memory
<1>3. ClaimedPhysics' /\ RmdlIsOwn'
  BY <1>1, <1>2 DEF ClaimedPhysics, RmdlIsOwn, NewRmdl
<1>4. PhyInPlace'
  BY <1>2 DEF WriteCompiledPhy, Goto, PhyInPlace
<1> QED BY <1>3, <1>4 DEF IClaim

LEMMA ClaimPatch == ASSUME IClaim, Patch PROVE IClaim'
<1>1. rmdl = NewRmdl /\ phy = [state |-> "whole", of |-> held.of, check |-> compile]
  BY DEF IClaim, RmdlIsOwn, PhyInPlace, AfterRmdl, Patch
<1>2. UNCHANGED phy /\ pc' = "remove" /\ (rmdl' = rmdl \/ rmdl' = [rmdl EXCEPT !.phy = held.of])
  BY DEF Patch, Goto
<1> QED BY <1>1, <1>2 DEF IClaim, ClaimedPhysics, RmdlIsOwn, PhyInPlace, NewRmdl, AfterRmdl

(* A kill tears the .rmdl before it claims anything, or the .phy while the  *)
(* .rmdl claims nothing.                                                    *)
LEMMA ClaimCrash == ASSUME TypeOK, IClaim, Crash PROVE IClaim'
<1>1. pc' = "idle"
  BY DEF Crash
<1>2. CASE UNCHANGED <<rmdl, phy>>
  BY <1>1, <1>2, ClaimKept DEF AfterRmdl
<1>3. CASE Tears("write_rmdl", rmdl) /\ UNCHANGED phy
  <2>1. rmdl'.state = "torn"
    BY <1>3 DEF Tears, TypeOK
  <2> QED BY <1>1, <2>1 DEF IClaim, ClaimedPhysics, RmdlIsOwn, PhyInPlace, AfterRmdl
<1>4. CASE Tears("write_cphy", phy) /\ UNCHANGED rmdl
  <2>1. rmdl' = NewRmdl
    BY <1>4 DEF Tears, IClaim, RmdlIsOwn, AfterRmdl
  <2> QED BY <1>1, <2>1 DEF IClaim, ClaimedPhysics, RmdlIsOwn, PhyInPlace, AfterRmdl, NewRmdl
<1> QED BY <1>2, <1>3, <1>4 DEF Crash

LEMMA ClaimStep ==
    ASSUME "write_rmdl" \notin CanFail
    PROVE  TypeOK /\ IClaim /\ [Next]_vars => IClaim'
<1> SUFFICES ASSUME TypeOK, IClaim, [Next]_vars PROVE IClaim'
  OBVIOUS
<1>1. CASE UNCHANGED vars
  BY <1>1 DEF vars, disk, memory, IClaim, ClaimedPhysics, RmdlIsOwn, PhyInPlace, NewRmdl
<1>2. CASE \/ Begin \/ OpenMdl \/ WritePhy \/ WriteMdl \/ WriteVvd \/ WriteWeights
           \/ WriteVtx \/ Sort \/ Clamp \/ Convert \/ Check \/ Load \/ Remove \/ Fault
  BY <1>2, ClaimBefore
<1>3. CASE Rewrite
  BY <1>3, ClaimRewrite
<1>4. CASE WriteRmdl
  BY <1>4, ClaimWriteRmdl
<1>5. CASE WriteRson \/ WriteVg \/ ReadPhy
  BY <1>5, ClaimOutputs
<1>6. CASE WriteCompiledPhy
  BY <1>6, ClaimWritePhy
<1>7. CASE Patch
  BY <1>7, ClaimPatch
<1>8. CASE Crash
  BY <1>8, ClaimCrash
<1> QED BY <1>1, <1>2, <1>3, <1>4, <1>5, <1>6, <1>7, <1>8 DEF Next

(* If the .rmdl itself can always be opened for writing, then at every       *)
(* moment, after a kill at any step of any number of compiles too, a whole   *)
(* .rmdl that claims physics stands beside the whole .phy it claims.         *)
THEOREM PhysicsClaimed ==
    ASSUME "write_rmdl" \notin CanFail
    PROVE  Spec => []ClaimedPhysics
<1>1. TypeOK /\ IClaim /\ [Next]_vars => IClaim'
  BY ClaimStep
<1>2. Init => IClaim
  BY ClaimInit
<1>3. IClaim => ClaimedPhysics
  BY DEF IClaim
<1>4. Spec => []TypeOK
  BY FilesTyped
<1> QED BY <1>1, <1>2, <1>3, <1>4, PTL DEF Spec

-----------------------------------------------------------------------------
(* What a compile leaves that ended well.                                   *)

(* What the file of a step of this compile looks like.                       *)
OfCompile(stage) == [state |-> "whole", of |-> compile, stage |-> stage]

-----------------------------------------------------------------------------
(* Only Remove and a refused Load end a compile well.                        *)
LEMMA GoneStep == IntermediatesGone /\ [Next]_vars => IntermediatesGone'
<1> SUFFICES ASSUME IntermediatesGone, [Next]_vars PROVE IntermediatesGone'
    OBVIOUS
<1> USE DEF IntermediatesGone, Done
<1>1. CASE UNCHANGED vars
    BY <1>1 DEF vars, disk
<1>2. CASE Begin \/ OpenMdl \/ WritePhy \/ WriteMdl \/ WriteVvd \/ WriteWeights \/ WriteVtx
    BY <1>2 DEF Begin, OpenMdl, WritePhy, WriteMdl, WriteVvd, WriteWeights, SaveVertices, WriteVtx,
                MdlError, ExitError, Goto
<1>3. CASE Sort \/ Clamp \/ Convert \/ Check
    BY <1>3 DEF Sort, Clamp, Convert, Check, MdlError, ExitError, Goto
<1>4. CASE Rewrite
    BY <1>4, StepsOfRewriting DEF Rewrite, ExitError, Goto
<1>5. CASE Load
    BY <1>5 DEF Load, Refused, Goto
<1>6. CASE WriteRmdl \/ WriteRson \/ WriteVg \/ ReadPhy \/ WriteCompiledPhy \/ Patch
    BY <1>6 DEF WriteRmdl, WriteRson, WriteVg, ReadPhy, WriteCompiledPhy, Patch, Goto
<1>7. CASE Remove
    <2>1. work' = [f \in Work |-> NoWork[f]]
        BY <1>7 DEF Remove, TemporaryExtensions, Work
    <2> QED
        BY <2>1 DEF NoWork
<1>8. CASE Crash \/ Fault
    BY <1>8 DEF Crash, Fault, MdlError
<1> QED
    BY <1>1, <1>2, <1>3, <1>4, <1>5, <1>6, <1>7, <1>8 DEF Next

(* No intermediate file survives a compile that ended well, not even one of  *)
(* an earlier compile that was killed, unless the files could not be read.   *)
THEOREM NothingLeft == Spec => []IntermediatesGone
<1>1. Init => IntermediatesGone
    BY DEF Init, IntermediatesGone, Done
<1> QED
    BY <1>1, GoneStep, PTL DEF Spec
-----------------------------------------------------------------------------
(* The collision model of this compile, on its way from CollisionModel_Write *)
(* to the .phy that the .rmdl names.                                         *)

SolidWanted == source.bodies = "mesh" /\ source.solid = "yes" /\ failed = {}

BeforeRmdl == {"write_mdl", "write_vvd", "write_weights", "write_vtx", "sort", "clamp",
               "convert", "check", "load", "write_rmdl"} \cup DOMAIN Rewriting

OwnPhy == [state |-> "whole", of |-> compile, check |-> compile]

ISolid ==
    SolidWanted =>
        /\ pc \in BeforeRmdl \cup {"write_rson", "write_vg", "read_phy"} => srcphy = SolidWritten
        /\ pc \in {"write_cphy", "patch"} => held = SolidWritten
        /\ pc \in AfterRmdl => rmdl = NewRmdl
        /\ pc = "patch" => phy = OwnPhy
        /\ pc = "remove" \/ Done => rmdl.phy = compile /\ phy = OwnPhy

(* A step that ends the compile badly, or is not there yet.                  *)
LEMMA SolidAside ==
    ASSUME \/ pc' = "idle" /\ ended' # "done"
           \/ pc' \in {"open_mdl", "write_phy"}
           \/ failed' # {}
    PROVE  ISolid'
BY DEF ISolid, SolidWanted, BeforeRmdl, AfterRmdl, Done, Rewriting

(* The steps between CollisionModel_Write and the .rmdl.                     *)
LEMMA SolidBefore ==
    ASSUME ISolid,
           \/ WriteMdl \/ WriteVvd \/ WriteWeights \/ WriteVtx \/ Sort \/ Rewrite \/ Clamp
           \/ Convert \/ Check \/ Load
    PROVE  ISolid'
<1>1. \/ pc' = "idle" /\ ended' # "done"
      \/ failed' # {}
      \/ source.bodies # "mesh" /\ source' = source
      \/ /\ pc \in BeforeRmdl /\ pc' \in BeforeRmdl
         /\ UNCHANGED <<source, failed, srcphy, compile>>
    <2> USE DEF Goto, ExitError, MdlError, Refused, BeforeRmdl, disk, memory
    <2>1. CASE WriteMdl \/ WriteVvd \/ WriteWeights \/ WriteVtx
        BY <2>1 DEF WriteMdl, WriteVvd, WriteWeights, SaveVertices, WriteVtx
    <2>2. CASE Sort \/ Clamp
        BY <2>2 DEF Sort, Clamp, Rewriting
    <2>3. CASE Rewrite
        BY <2>3 DEF Rewrite, Rewriting
    <2>4. CASE Convert \/ Check \/ Load
        BY <2>4 DEF Convert, Check, Load
    <2> QED
        BY <2>1, <2>2, <2>3, <2>4
<1>2. CASE source.bodies # "mesh" /\ source' = source
    BY <1>2 DEF ISolid, SolidWanted
<1>3. CASE /\ pc \in BeforeRmdl /\ pc' \in BeforeRmdl
           /\ UNCHANGED <<source, failed, srcphy, compile>>
    BY <1>3 DEF ISolid, SolidWanted, BeforeRmdl, AfterRmdl, Done, Rewriting, SolidWritten
<1> QED
    BY <1>1, <1>2, <1>3, SolidAside

(* From the .rmdl on: it is this compile's, then the .phy is, then both.     *)
LEMMA SolidAfter ==
    ASSUME ISolid,
           \/ WritePhy \/ WriteRmdl \/ WriteRson \/ WriteVg \/ ReadPhy \/ WriteCompiledPhy
           \/ Patch \/ Remove
    PROVE  ISolid'
<1>1. CASE Refused
    BY <1>1, SolidAside DEF Refused
<1>2. CASE ~Refused
    <2> USE DEF ISolid, SolidWanted, BeforeRmdl, AfterRmdl, Done, Rewriting, SolidWritten, NewRmdl, Goto, memory
    <2>1. CASE WritePhy
        BY <1>2, <2>1 DEF WritePhy
    <2>2. CASE WriteRmdl
        BY <1>2, <2>2 DEF WriteRmdl
    <2>3. CASE WriteRson \/ WriteVg
        BY <1>2, <2>3 DEF WriteRson, WriteVg
    <2>4. CASE ReadPhy
        BY <1>2, <2>4 DEF ReadPhy
    <2>5. CASE WriteCompiledPhy
        BY <1>2, <2>5 DEF WriteCompiledPhy, OwnPhy
    <2>6. CASE Patch
        BY <1>2, <2>6 DEF Patch, OwnPhy
    <2>7. CASE Remove
        BY <1>2, <2>7 DEF Remove, OwnPhy
    <2> QED
        BY <2>1, <2>2, <2>3, <2>4, <2>5, <2>6, <2>7
<1> QED
    BY <1>1, <1>2

(* The steps together.                                                       *)
LEMMA SolidStep == ISolid /\ [Next]_vars => ISolid'
<1> SUFFICES ASSUME ISolid, [Next]_vars PROVE ISolid'
    OBVIOUS
<1>1. CASE UNCHANGED vars
    BY <1>1 DEF vars, disk, memory, ISolid, SolidWanted, Done, SolidWritten, NewRmdl, OwnPhy
<1>2. CASE Begin \/ OpenMdl \/ Crash \/ Fault
    BY <1>2, SolidAside DEF Begin, OpenMdl, Crash, Fault, MdlError, ExitError, Goto
<1> QED
    BY <1>1, <1>2, SolidBefore, SolidAfter DEF Next

(* A model with a collision model whose opens all succeeded has its own .phy *)
(* beside its .rmdl, whatever .phy earlier compiles left under models\ or    *)
(* under compiled\.                                                          *)
THEOREM OwnPhysics == Spec => []PhysicsKept
<1>1. Init => ISolid
    BY DEF Init, ISolid, SolidWanted, BeforeRmdl, AfterRmdl, Done, Rewriting
<1>2. ISolid => PhysicsKept
    BY DEF ISolid, SolidWanted, PhysicsKept, OwnPhy
<1> QED
    BY <1>1, <1>2, SolidStep, PTL DEF Spec
-----------------------------------------------------------------------------
(* What the .vg is built from: each intermediate file is raw, sorted or cut  *)
(* at a step of this compile, until all are read.                            *)

Wanted == source.bodies = "mesh" /\ failed \cap {"load", "write_vtx", "write_rmdl", "write_vg"} = {}

(* The steps at which a file is known to be raw, sorted and cut.             *)
Sorts   == {"sort", "sort_vvd", "sort_weights", "sort_vtx", "sort_mdl"}
Cuts    == {"cut_mdl", "cut_vvd", "cut_weights", "cut_vtx"}
Reads   == {"convert", "check", "load"}
Writers == {"write_vvd", "write_weights", "write_vtx"}

RawAt == [mdl     |-> Writers \cup Sorts,
          vvd     |-> {"write_weights", "write_vtx", "sort", "sort_vvd"},
          weights |-> {"write_vtx", "sort", "sort_vvd", "sort_weights"},
          vtx     |-> {"sort", "sort_vvd", "sort_weights", "sort_vtx"}]

SortedAt == [mdl     |-> {"clamp", "cut_mdl"},
             vvd     |-> {"sort_weights", "sort_vtx", "sort_mdl", "clamp", "cut_mdl", "cut_vvd"},
             weights |-> {"sort_vtx", "sort_mdl", "clamp", "cut_mdl", "cut_vvd", "cut_weights"},
             vtx     |-> {"sort_mdl", "clamp"} \cup Cuts]

CutAt == [mdl     |-> {"cut_vvd", "cut_weights", "cut_vtx"},
          vvd     |-> {"cut_weights", "cut_vtx"},
          weights |-> {"cut_vtx"},
          vtx     |-> {}]

(* The steps after the .rmdl, and after the .vg.                             *)
AfterVg == {"read_phy", "write_cphy", "patch", "remove"}

ILoaded ==
    /\ pc \in Cuts => source.minlod
    /\ Wanted =>
        /\ \A f \in Work : /\ pc \in RawAt[f] => work[f] = OfCompile("raw")
                           /\ pc \in SortedAt[f] => work[f] = OfCompile("sorted")
                           /\ pc \in CutAt[f] => work[f] = OfCompile("cut")
                           /\ pc \in Reads => work[f] = OfCompile(LastStage)
        /\ pc \in {"write_rmdl", "write_rson", "write_vg"} =>
               \A f \in Work : loaded[f] = OfCompile(LastStage)
        /\ pc \in AfterVg \/ Done =>
               /\ vg.state = "whole" /\ vg.of = compile
               /\ \A f \in Work : vg.from[f] = OfCompile(LastStage)
        /\ pc \in {"write_rson", "write_vg"} \cup AfterVg \/ Done =>
               rmdl.state = "whole" /\ rmdl.of = compile

(* All steps at which something is claimed.                                  *)
Claiming == Writers \cup Sorts \cup Cuts \cup Reads \cup AfterVg
              \cup {"clamp", "write_rmdl", "write_rson", "write_vg"}

(* ILoaded claims nothing of a file at any other step.                       *)
LEMMA Claims == \A f \in Work : RawAt[f] \cup SortedAt[f] \cup CutAt[f] \subseteq Claiming
BY DEF Work, RawAt, SortedAt, CutAt, Claiming, Writers, Sorts, Cuts

(* A step that ends the compile badly, is not there yet, or was refused.     *)
LEMMA LoadedAside ==
    ASSUME \/ pc' = "idle" /\ ended' # "done"
           \/ pc' \in {"open_mdl", "write_phy", "write_mdl"}
           \/ pc' \notin Cuts /\ ~Wanted'
    PROVE  ILoaded'
<1>1. CASE pc' \notin Cuts /\ ~Wanted'
    BY <1>1 DEF ILoaded
<1>2. CASE pc' \notin Claiming /\ ~Done'
    BY <1>2, Claims DEF ILoaded, Claiming, AfterVg, Cuts, Reads
<1>3. ~(pc' \notin Cuts /\ ~Wanted') => pc' \notin Claiming /\ ~Done'
    BY DEF Claiming, Writers, Sorts, Cuts, Reads, AfterVg, Done
<1> QED
    BY <1>1, <1>2, <1>3

(* The files are written one after the other, and all are new.               *)
LEMMA LoadedWriters ==
    ASSUME TypeOK, ILoaded, WriteMdl \/ WriteVvd \/ WriteWeights \/ WriteVtx
    PROVE  ILoaded'
<1> USE DEF Goto, Refused, ExitError, MdlError
<1>1. \A f \in Work, g \in Work :
          Fresh(f)[g] = IF g = f THEN OfCompile("raw") ELSE work[g]
    BY DEF Fresh, OfCompile, TypeOK, WorkFiles
<1>2. CASE WriteMdl
    <2>1. CASE source.bodies # "mesh"
        BY <1>2, <2>1, LoadedAside DEF WriteMdl, Wanted, Cuts
    <2>2. CASE source.bodies = "mesh"
        <3>1. pc' = "write_vvd" /\ work' = Fresh("mdl") /\ compile' = compile
            BY <1>2, <2>2 DEF WriteMdl
        <3> QED
            BY <1>1, <3>1
               DEF ILoaded, Work, RawAt, SortedAt, CutAt, Writers, Sorts, Cuts, Reads, AfterVg, Done, OfCompile
    <2> QED
        BY <2>1, <2>2
<1>3. CASE WriteVvd \/ WriteWeights
    <2>1. CASE pc' = "idle" /\ ended' # "done"
        BY <2>1, LoadedAside
    <2>2. PICK f \in {"vvd", "weights"} :
              /\ pc = IF f = "vvd" THEN "write_vvd" ELSE "write_weights"
              /\ \/ pc' = "idle" /\ ended' # "done"
                 \/ /\ pc' = IF f = "vvd" THEN "write_weights" ELSE "write_vtx"
                    /\ work' = Fresh(f)
                    /\ UNCHANGED <<compile, source, failed>>
        BY <1>3 DEF WriteVvd, WriteWeights, SaveVertices
    <2> QED
        BY <1>1, <2>1, <2>2
           DEF ILoaded, Wanted, Work, RawAt, SortedAt, CutAt, Writers, Sorts, Cuts, Reads, AfterVg, Done, OfCompile
<1>4. CASE WriteVtx
    <2>1. \/ pc' = "idle" /\ ended' # "done"
          \/ pc' = "sort" /\ failed' = failed \cup {"write_vtx"}
          \/ pc = "write_vtx" /\ pc' = "sort" /\ work' = Fresh("vtx")
               /\ UNCHANGED <<compile, source, failed>>
        BY <1>4 DEF WriteVtx
    <2>2. CASE pc' = "sort" /\ failed' = failed \cup {"write_vtx"}
        BY <2>2, LoadedAside DEF Wanted, Cuts
    <2>3. CASE pc = "write_vtx" /\ pc' = "sort" /\ work' = Fresh("vtx")
                 /\ UNCHANGED <<compile, source, failed>>
        BY <1>1, <2>3
           DEF ILoaded, Wanted, Work, RawAt, SortedAt, CutAt, Writers, Sorts, Cuts, Reads, AfterVg, Done, OfCompile
    <2> QED
        BY <2>1, <2>2, <2>3, LoadedAside
<1> QED
    BY <1>2, <1>3, <1>4

(* Each fix-up takes one file to its next stage and keeps the other three.   *)
LEMMA LoadedFixups ==
    ASSUME TypeOK, ILoaded, Sort \/ Rewrite \/ Clamp
    PROVE  ILoaded'
<1> USE DEF Goto, Refused, ExitError, MdlError
<1> DEFINE next == Rewriting[pc].next
           file == Rewriting[pc].file
           stage == Rewriting[pc].stage
<1>1. CASE Sort
    <2>1. \/ pc' = "idle" /\ ended' # "done"
          \/ pc = "sort" /\ pc' = "sort_vvd" /\ UNCHANGED <<compile, source, failed, work>>
        BY <1>1 DEF Sort, disk
    <2> QED
        BY <2>1, LoadedAside
           DEF ILoaded, Wanted, Work, RawAt, SortedAt, CutAt, Writers, Sorts, Cuts, Reads, AfterVg, Done, OfCompile
<1>2. CASE Clamp
    <2>1. /\ pc = "clamp" /\ UNCHANGED <<compile, source, failed, work>>
          /\ pc' = IF source.minlod THEN "cut_mdl" ELSE "convert"
        BY <1>2 DEF Clamp, disk
    <2> QED
        BY <2>1
           DEF ILoaded, Wanted, Work, RawAt, SortedAt, CutAt, Writers, Sorts, Cuts, Reads, AfterVg, Done,
               OfCompile, LastStage
<1>3. CASE Rewrite
    <2>1. CASE pc' = "idle" /\ ended' # "done"
        BY <2>1, LoadedAside
    <2>2. CASE /\ pc \in DOMAIN Rewriting /\ pc' = next
               /\ work' = [work EXCEPT ![file].stage = stage]
               /\ UNCHANGED <<compile, source, failed>>
        <3>1. file \in Work
            BY <2>2, StepsOfRewriting
        <3>2. \A g \in Work : /\ g # file => work'[g] = work[g]
                              /\ \A st : work[file] = OfCompile(st) => work'[file] = OfCompile(stage)
            BY <2>2, <3>1 DEF TypeOK, WorkFiles, OfCompile
        <3>3. CASE pc \in Sorts
            <4>1. <<pc, file, stage, next>> \in {<<"sort_vvd", "vvd", "sorted", "sort_weights">>,
                      <<"sort_weights", "weights", "sorted", "sort_vtx">>,
                      <<"sort_vtx", "vtx", "sorted", "sort_mdl">>,
                      <<"sort_mdl", "mdl", "sorted", "clamp">>}
                BY <2>2, <3>3 DEF Rewriting, Sorts
            <4> QED
                BY <2>2, <3>2, <4>1
                   DEF ILoaded, Wanted, Work, RawAt, SortedAt, CutAt, Writers, Sorts, Cuts, Reads, AfterVg, Done, OfCompile
        <3>4. CASE pc \in Cuts
            <4>1. <<pc, file, stage, next>> \in {<<"cut_mdl", "mdl", "cut", "cut_vvd">>,
                      <<"cut_vvd", "vvd", "cut", "cut_weights">>,
                      <<"cut_weights", "weights", "cut", "cut_vtx">>,
                      <<"cut_vtx", "vtx", "cut", "convert">>}
                BY <2>2, <3>4 DEF Rewriting, Cuts
            <4> QED
                BY <2>2, <3>2, <4>1
                   DEF ILoaded, Wanted, Work, RawAt, SortedAt, CutAt, Writers, Sorts, Cuts, Reads, AfterVg, Done,
                       OfCompile, LastStage
        <3> QED
            BY <2>2, <3>3, <3>4 DEF Rewriting, Sorts, Cuts
    <2> QED
        BY <1>3, <2>1, <2>2 DEF Rewrite
<1> QED
    BY <1>1, <1>2, <1>3

(* From the reading on, loaded and then vg have what the files were.         *)
LEMMA LoadedReaders ==
    ASSUME TypeOK, ILoaded,
           \/ WritePhy \/ Convert \/ Check \/ Load \/ WriteRmdl \/ WriteRson \/ WriteVg
           \/ ReadPhy \/ WriteCompiledPhy \/ Patch \/ Remove
    PROVE  ILoaded'
<1> USE DEF Goto, Refused, disk, memory
<1>1. CASE WritePhy
    BY <1>1, LoadedAside DEF WritePhy
<1> DEFINE Same == UNCHANGED <<compile, source>> /\ failed \subseteq failed'
<1>2. CASE Convert \/ Check
    <2>1. \/ pc' = "remove" /\ source.bodies # "mesh" /\ source' = source
          \/ pc \in Reads /\ pc' \in Reads /\ Same /\ work' = work
        BY <1>2 DEF Convert, Check, Reads
    <2>2. CASE pc' = "remove" /\ source.bodies # "mesh" /\ source' = source
        BY <2>2, LoadedAside DEF Wanted, Cuts
    <2>3. CASE pc \in Reads /\ pc' \in Reads /\ Same /\ work' = work
        BY <2>3
           DEF ILoaded, Wanted, Work, RawAt, SortedAt, CutAt, Writers, Sorts, Cuts, Reads, AfterVg, Done,
               OfCompile, LastStage
    <2> QED
        BY <2>1, <2>2, <2>3
<1>3. CASE Load
    <2>1. \/ pc' = "idle" /\ "load" \in failed'
          \/ pc = "load" /\ pc' = "write_rmdl" /\ Same /\ loaded' = work
        BY <1>3 DEF Load
    <2>2. CASE pc' = "idle" /\ "load" \in failed'
        BY <2>2, LoadedAside DEF Wanted, Cuts
    <2>3. CASE pc = "load" /\ pc' = "write_rmdl" /\ Same /\ loaded' = work
        BY <2>3
           DEF ILoaded, Wanted, Work, RawAt, SortedAt, CutAt, Writers, Sorts, Cuts, Reads, AfterVg, Done,
               OfCompile, LastStage
    <2> QED
        BY <2>1, <2>2, <2>3
<1>4. CASE WriteRmdl \/ WriteRson \/ WriteVg
    <2>1. \/ failed' \cap {"write_rmdl", "write_vg"} # {} /\ pc' \in {"write_rson", "write_vg", "read_phy"}
          \/ /\ pc = "write_rmdl" /\ pc' \in {"write_rson", "write_vg"} /\ Same /\ loaded' = loaded
             /\ rmdl' = NewRmdl
          \/ pc = "write_rson" /\ pc' = "write_vg" /\ Same /\ UNCHANGED <<loaded, rmdl>>
          \/ /\ pc = "write_vg" /\ pc' = "read_phy" /\ Same /\ UNCHANGED <<loaded, rmdl>>
             /\ vg' = [state |-> "whole", of |-> compile, from |-> loaded]
        BY <1>4 DEF WriteRmdl, WriteRson, WriteVg
    <2>2. CASE failed' \cap {"write_rmdl", "write_vg"} # {} /\ pc' \in {"write_rson", "write_vg", "read_phy"}
        BY <2>2, LoadedAside DEF Wanted, Cuts
    <2>3. CASE ~(failed' \cap {"write_rmdl", "write_vg"} # {})
        BY <2>1, <2>3
           DEF ILoaded, Wanted, Work, RawAt, SortedAt, CutAt, Writers, Sorts, Cuts, Reads, AfterVg, Done,
               OfCompile, LastStage, NewRmdl
    <2> QED
        BY <2>1, <2>2, <2>3
<1>5. CASE ReadPhy \/ WriteCompiledPhy \/ Patch \/ Remove
    <2>1. /\ pc \in AfterVg /\ pc' \in AfterVg \cup {"idle"}
          /\ Same /\ vg' = vg
          /\ rmdl'.state = rmdl.state /\ rmdl'.of = rmdl.of
        BY <1>5 DEF ReadPhy, WriteCompiledPhy, Patch, Remove, AfterVg, TypeOK
    <2> QED
        BY <2>1
           DEF ILoaded, Wanted, Work, RawAt, SortedAt, CutAt, Writers, Sorts, Cuts, Reads, AfterVg, Done,
               OfCompile, LastStage
<1> QED
    BY <1>1, <1>2, <1>3, <1>4, <1>5

(* The steps together.                                                       *)
LEMMA LoadedStep == TypeOK /\ ILoaded /\ [Next]_vars => ILoaded'
<1> SUFFICES ASSUME TypeOK, ILoaded, [Next]_vars PROVE ILoaded'
    OBVIOUS
<1>1. CASE UNCHANGED vars
    BY <1>1 DEF vars, disk, memory, ILoaded, Wanted, Done, OfCompile, LastStage
<1>2. CASE Begin \/ OpenMdl \/ Crash \/ Fault
    BY <1>2, LoadedAside DEF Begin, OpenMdl, Crash, Fault, MdlError, ExitError, Goto
<1> QED
    BY <1>1, <1>2, LoadedWriters, LoadedFixups, LoadedReaders DEF Next

(* The .vg of a compile that ended well was built from a .vvd, a .vtx and a  *)
(* weight sidecar of the same compile, all at their last stage.              *)
THEOREM Loadable == Spec => []LoadableSet
<1>1. Init => ILoaded
    BY DEF Init, ILoaded, Wanted, Done, Work, RawAt, SortedAt, CutAt, Writers, Sorts, Cuts, Reads, AfterVg
<1>2. ILoaded => LoadableSet
    BY DEF ILoaded, Wanted, LoadableSet, OfCompile
<1>3. Spec => []TypeOK
    BY FilesTyped
<1> QED
    BY <1>1, <1>2, <1>3, LoadedStep, PTL DEF Spec
-----------------------------------------------------------------------------
(* The .rson of this compile and the rig that it names.                      *)

Linking == SameName /\ failed = {}
RigWritten == rigs[LinkPath(name)] = compile

(* Where the names agree, so do the paths.                                    *)
LEMMA SamePath ==
    ASSUME TypeOK, SameName
    PROVE  RigPath(HeaderName, source.rp) = LinkPath(name) /\ LinkPath(name) \in RigPaths
<1>1. HeaderName = name /\ name.dir = "mdl" /\ Stem(name.file) = name.file
  BY DEF SameName, HeaderName
<1>2. RigPath(name, "none") = <<"animrig", name.file>> /\ LinkPath(name) = <<"animrig", name.file>>
  BY <1>1 DEF RigPath, LinkPath
<1>3. LinkPath(name) \in RigPaths
  BY PathsTyped, FilesAssumption DEF TypeOK
<1> QED BY <1>1, <1>2, <1>3 DEF SameName

(* A step before WriteRson finds the .rson of an earlier compile, which is   *)
(* why the rig of this one may be written first.                             *)
ILinked ==
    /\ rson.of = compile => pc \in {"idle", "write_vg"} \cup AfterVg
    /\ pc = "write_rson" => source.anims
    /\ Linking /\ source.anims /\ pc \in {"check", "load", "write_rmdl", "write_rson"} => RigWritten
    /\ Linking /\ rson.state = "whole" /\ rson.of = compile => rson.link = LinkPath(name) /\ RigWritten

(* During a compile nothing about the names changes.                          *)
LEMMA NamesKept ==
    ASSUME UNCHANGED <<name, source>>
    PROVE  (SameName' <=> SameName) /\ name' = name
BY DEF SameName

(* The next compile has no .rson yet.                                        *)
LEMMA LinkedBegin == ASSUME TypeOK, ILinked, Begin PROVE ILinked'
<1>1. rson'.of # compile' /\ pc' = "open_mdl"
    BY DEF Begin, TypeOK, Compiles, disk
<1> QED
    BY <1>1 DEF ILinked

(* A step that leaves the .rson and the rigs alone and enters no step at     *)
(* which more is claimed of them.                                            *)
LEMMA LinkedAside ==
    ASSUME ILinked, UNCHANGED <<compile, name, source, rigs>>, failed \subseteq failed',
           rson' = rson \/ (rson' = [rson EXCEPT !.state = "torn"] /\ pc' = "idle"),
           rson \in [state : States, of : Compiles, link : RigPaths],
           pc' \in {"idle", "write_vg"} \cup AfterVg \/ rson.of # compile,
           \/ pc' \notin {"check", "load", "write_rmdl", "write_rson"}
           \/ /\ pc \in {"check", "load", "write_rmdl"}
              /\ pc' = "write_rson" => source.anims
    PROVE  ILinked'
<1>1. rson'.of = rson.of /\ rson'.link = rson.link /\ (rson'.state = "whole" => rson.state = "whole")
    OBVIOUS
<1>2. (Linking' => Linking) /\ name' = name
    BY NamesKept DEF Linking
<1>3. RigWritten' = RigWritten
    BY <1>2 DEF RigWritten
<1> QED
    BY <1>1, <1>2, <1>3 DEF ILinked

(* The converter writes the rig, before the .rson.                           *)
LEMMA LinkedConvert == ASSUME TypeOK, ILinked, Convert PROVE ILinked'
<1>1. rson.of # compile /\ rson' = rson /\ UNCHANGED <<compile, name, source>> /\ pc' = "check"
    BY DEF Convert, Goto, ILinked, AfterVg
<1>2. Linking' /\ source.anims => RigWritten'
    <2> SUFFICES ASSUME Linking', source.anims PROVE RigWritten'
        OBVIOUS
    <2>1. rigs' = [rigs EXCEPT ![RigPath(HeaderName, source.rp)] = compile]
        BY DEF Convert, Refused, Linking
    <2>2. SameName /\ name' = name /\ compile' = compile
        BY <1>1, NamesKept DEF Linking
    <2>3. rigs' = [rigs EXCEPT ![LinkPath(name)] = compile] /\ LinkPath(name) \in RigPaths
        BY <2>1, <2>2, SamePath
    <2>4. LinkPath(name)' = LinkPath(name)
        BY <2>2
    <2> QED
        BY <2>2, <2>3, <2>4 DEF RigWritten, TypeOK
<1> QED
    BY <1>1, <1>2 DEF ILinked

(* The .rson links the rig that is already there.                            *)
LEMMA LinkedRson == ASSUME TypeOK, ILinked, WriteRson PROVE ILinked'
<1>1. /\ pc = "write_rson" /\ pc' = "write_vg" /\ UNCHANGED <<compile, name, source, rigs>>
      /\ \/ rson' = [state |-> "whole", of |-> compile, link |-> LinkPath(name)] /\ failed' = failed
         \/ "write_rson" \in failed'
    BY DEF WriteRson, Goto, Refused
<1>2. Linking' => Linking /\ RigWritten'
                  /\ rson' = [state |-> "whole", of |-> compile, link |-> LinkPath(name)]
    BY <1>1, NamesKept DEF Linking, ILinked, RigWritten
<1> QED
    BY <1>1, <1>2 DEF ILinked

(* The steps together.                                                       *)
LEMMA LinkedStep == TypeOK /\ ILinked /\ [Next]_vars => ILinked'
<1> SUFFICES ASSUME TypeOK, ILinked, [Next]_vars PROVE ILinked'
    OBVIOUS
<1>0. rson \in [state : States, of : Compiles, link : RigPaths]
    BY DEF TypeOK
<1> USE DEF Goto, Refused, ExitError, MdlError, disk, memory
<1>1. CASE UNCHANGED vars
    BY <1>1, NamesKept DEF vars, ILinked, Linking, RigWritten
<1>2. CASE OpenMdl \/ WritePhy \/ WriteMdl \/ WriteVvd \/ WriteWeights \/ WriteVtx
    <2>1. rson.of # compile /\ UNCHANGED <<compile, name, source, rigs, rson>> /\ failed \subseteq failed'
          /\ pc' \notin {"check", "load", "write_rmdl", "write_rson"}
        BY <1>2
           DEF OpenMdl, WritePhy, WriteMdl, WriteVvd, WriteWeights, SaveVertices, WriteVtx, ILinked, AfterVg
    <2> QED
        BY <1>0, <2>1, LinkedAside
<1>3. CASE Sort \/ Rewrite \/ Clamp
    <2>1. rson.of # compile /\ UNCHANGED <<compile, name, source, rigs, rson>> /\ failed \subseteq failed'
          /\ pc' \notin {"check", "load", "write_rmdl", "write_rson"}
        BY <1>3 DEF Sort, Rewrite, Clamp, Rewriting, ILinked, AfterVg
    <2> QED
        BY <1>0, <2>1, LinkedAside
<1>4. CASE Check \/ Load \/ WriteRmdl
    <2>1. /\ rson.of # compile /\ UNCHANGED <<compile, name, source, rigs, rson>> /\ failed \subseteq failed'
          /\ pc \in {"check", "load", "write_rmdl"} /\ (pc' = "write_rson" => source.anims)
        BY <1>4 DEF Check, Load, WriteRmdl, ILinked, AfterVg
    <2> QED
        BY <1>0, <2>1, LinkedAside
<1>5. CASE WriteVg \/ ReadPhy \/ WriteCompiledPhy \/ Patch \/ Remove
    <2>1. UNCHANGED <<compile, name, source, rigs, rson>> /\ failed \subseteq failed'
          /\ pc' \in {"idle"} \cup AfterVg
        BY <1>5 DEF WriteVg, ReadPhy, WriteCompiledPhy, Patch, Remove, AfterVg
    <2> QED
        BY <1>0, <2>1, LinkedAside DEF AfterVg
<1>6. CASE Crash \/ Fault
    <2>1. /\ UNCHANGED <<compile, name, source, rigs, failed>> /\ pc' = "idle"
          /\ rson' = rson \/ rson' = [rson EXCEPT !.state = "torn"]
        BY <1>6 DEF Crash, Fault, Tears
    <2> QED
        BY <1>0, <2>1, LinkedAside
<1> QED
    BY <1>1, <1>2, <1>3, <1>4, <1>5, <1>6, LinkedBegin, LinkedConvert, LinkedRson DEF Next

(* Where the output and the header have one name that both programs treat    *)
(* alike, the rig that the .rson of a compile names is the one that the       *)
(* compile wrote, whatever rigs and .rson earlier compiles left.              *)
THEOREM LinkedRig == Spec => []RsonLinksRrig
<1>1. Init => ILinked
    BY DEF Init, ILinked, Linking, AfterVg
<1>2. TypeOK /\ ILinked => RsonLinksRrig
    <2>1. TypeOK /\ SameName => LinkPath(name) \in RigPaths
        BY SamePath
    <2> QED
        BY <2>1 DEF ILinked, Linking, RigWritten, RsonLinksRrig
<1>3. Spec => []TypeOK
    BY FilesTyped
<1> QED
    BY <1>1, <1>2, <1>3, LinkedStep, PTL DEF Spec
=============================================================================
