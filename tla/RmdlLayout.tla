----------------------------- MODULE RmdlLayout -----------------------------
(***************************************************************************)
(* How WriteRMDLFiles (src/src/studiomdl/rmdl_write.cpp) lays an .rmdl     *)
(* out.  One buffer is filled from front to back by converters that share  *)
(* the cursor s_pData: each records in the header, or in a struct it wrote *)
(* before, the distance to what it writes now, so that a reader can follow *)
(* the file by offsets alone.  One action is one converter.                *)
(*                                                                         *)
(* Abstractions: a written struct is a region [at, size, what], its        *)
(* content a tag that says which piece of the compiled model it is; only   *)
(* the ints that hold offsets and counts are kept, in ints, by <<address   *)
(* of the struct, field>>.  Offsets are from s_pBase; the address of the   *)
(* buffer matters to alignment and is baseAddr.                            *)
(***************************************************************************)
EXTENDS Integers, Sequences, FiniteSets

CONSTANTS
    Models,      \* the compiled models (studiohdr_t) that can be converted
    BaseAddrs,   \* the addresses new char[RMDL_FILEBUF_SIZE] can return
    SizeOf,      \* SizeOf[struct]: its size in bytes
    StrLen       \* StrLen[s]: length of a string without its NUL

Strings == DOMAIN StrLen
Kinds == {"studiohdr", "bone", "jigglebone", "attachment", "hitboxset", "bbox", "seqdesc",
          "animdesc", "bodypart", "model", "mesh", "poseparam", "ruiheader", "ruimesh",
          "texture", "srcbonetransform", "linearbone", "oldlinearbone"}

\* What the converters read of a compiled model: a body part is the sequence of
\* its models' numbers of meshes, skins are <<references, families>>.
CompiledModels ==
    [name : Strings,
     bones : Seq([name : Strings, proctype : Int, procindex : Int]),
     attachments : Seq(Strings), hitboxsets : Seq(Seq(Strings)),
     bodyparts : Seq(Seq(Nat)), poseparams : Nat,
     rui : Seq([name : Strings, parents : Nat, vertices : Nat, faces : Nat]),
     textures : Seq(Strings), skins : Int \X Int, xforms : Nat,
     linear : BOOLEAN, bvh : Nat]

\* The structs consist of ints and floats, and operator new aligns for them.
ASSUME LayoutAssumption ==
    /\ Models \subseteq CompiledModels
    /\ BaseAddrs \subseteq {a \in Nat : a % 4 = 0}
    /\ DOMAIN SizeOf = Kinds
    /\ \A k \in Kinds : SizeOf[k] \in Nat \ {0} /\ SizeOf[k] % 4 = 0
    /\ IsFiniteSet(Strings)
    /\ {"", "@ref", "body", "pose", "default", "skin", "bone"} \subseteq Strings
    /\ \A s \in Strings : StrLen[s] \in Nat

VARIABLES
    pc,        \* the converter that runs next
    old,       \* pOldHdr: the compiled model (and the .rui file, and the BVH blob)
    baseAddr,  \* s_pBase, as an address
    pos,       \* s_pData - s_pBase
    regions,   \* what has been written where
    ints,      \* the offsets and counts that have been stored
    regs       \* s_stringTable: fields waiting for a string

vars == <<pc, old, baseAddr, pos, regions, ints, regs>>

Stages == {"header", "bones", "attachments", "hitboxes", "bonebyname",
           "sequence", "bodyparts", "poseparams", "rui", "textures", "skins",
           "keyvalues", "xforms", "linearbones", "strings", "bvh", "done"}

Region(at, size, what) == [at |-> at, size |-> size, what |-> what]
Reg(at, field, s) == [at |-> at, field |-> field, string |-> s]

\* Structs of one size, each at its rank from at on; an array is ranked by index.
Laid(kind, size, at, rank) ==
    {Region(at + rank[x] * size, size, <<kind, x>>) : x \in DOMAIN rank}
Indices(n) == [i \in 1..n |-> i - 1]
ArrayOf(kind, at, n) == Laid(kind, SizeOf[kind], at, Indices(n))
ElementsAt(kind, at, n) == [i \in 1..n |-> at + (i - 1) * SizeOf[kind]]

\* f[1] + ... + f[n]
SumTo(f, n) ==
    LET sum[i \in 0..Len(f)] == IF i = 0 THEN 0 ELSE sum[i - 1] + f[i]
    IN  sum[n]

\* Groups of f[1], f[2], ... things: the things, and how many come before each.
Members(f) == UNION {{i} \X (1..f[i]) : i \in 1..Len(f)}
MemberRank(f) == [b \in Members(f) |-> SumTo(f, b[1] - 1) + b[2] - 1]

\* R5_AlignData: the padding is computed from the address, not the offset.
AlignData(p, align) == p + ((align - ((baseAddr + p) % align)) % align)

\* What f stores and then, where f stores nothing, what g stores.
f ++ g == [k \in DOMAIN f \cup DOMAIN g |-> IF k \in DOMAIN f THEN f[k] ELSE g[k]]

\* The header's own offset fields live at address 0.
HdrInt(field, v) == [k \in {<<0, field>>} |-> v]
StructInt(at, field, v) == [k \in {<<at, field>>} |-> v]
\* An int of each struct: the value v[x] in the struct at at[x].
IntsOver(at, field, v) ==
    [k \in {<<at[x], field>> : x \in DOMAIN at} |->
        v[CHOOSE x \in DOMAIN at : at[x] = k[1]]]

TypeOK ==
    /\ pc \in Stages
    /\ old \in Models
    /\ baseAddr \in BaseAddrs
    /\ pos \in Nat
    /\ pc # "done" => (baseAddr + pos) % 4 = 0
    /\ \A r \in regions : r.at \in Nat /\ r.size \in Nat
    /\ \A k \in DOMAIN ints : k[1] \in Nat /\ ints[k] \in Int
    /\ \A g \in regs : g.at \in Nat /\ g.string \in Strings

Init ==
    /\ pc = "header"
    /\ old \in Models
    /\ baseAddr \in BaseAddrs
    /\ pos = 0
    /\ regions = {}
    /\ ints = << >>
    /\ regs = {}

\* A converter that returns early leaves everything to the next one.
Skip(next) ==
    /\ pc' = next
    /\ UNCHANGED <<old, baseAddr, pos, regions, ints, regs>>

Write(next, to, rs, is, gs) ==
    /\ pc' = next
    /\ pos' = to
    /\ regions' = regions \cup rs
    /\ ints' = is ++ ints
    /\ regs' = regs \cup gs
    /\ UNCHANGED <<old, baseAddr>>

-----------------------------------------------------------------------------
WriteHeader ==
    /\ pc = "header"
    /\ Write("bones", SizeOf["studiohdr"],
             {Region(0, SizeOf["studiohdr"], <<"studiohdr">>)},
             HdrInt("numbones", Len(old.bones)) ++
             HdrInt("numhitboxsets", Len(old.hitboxsets)) ++
             HdrInt("numtextures", Len(old.textures)) ++
             HdrInt("numbodyparts", Len(old.bodyparts)) ++
             HdrInt("numlocalattachments", Len(old.attachments)) ++
             HdrInt("bvhOffset", 0) ++
             HdrInt("uiPanelCount", 0) ++ HdrInt("procBoneCount", 0) ++
             HdrInt("linearboneindex", 0) ++ HdrInt("length", 0),
             {Reg(0, "sznameindex", old.name), Reg(0, "surfacepropindex", ""),
              Reg(0, "unkStringOffset", "")})

\* The bones, then a jiggle struct for each bone of proctype 5, then the table
\* of these bones and, for each bone, its place in that table (0xFF: none).
Jiggles == {i \in 1..Len(old.bones) : old.bones[i].proctype = 5}
JiggleRank == [i \in Jiggles |-> Cardinality({j \in Jiggles : j < i})]

ConvertBones ==
    LET n == Len(old.bones)
        count == Cardinality(Jiggles)
        Bone == ElementsAt("bone", pos, n)
        jiggles == AlignData(pos + n * SizeOf["bone"], 4)
        tables == AlignData(jiggles + count * SizeOf["jigglebone"], 4)
        ProcIndex == [i \in 1..n |->
            IF i \in Jiggles THEN jiggles + JiggleRank[i] * SizeOf["jigglebone"] - Bone[i]
            ELSE old.bones[i].procindex]
    IN  /\ pc = "bones"
        /\ Write("attachments",
                 IF count = 0 THEN tables ELSE AlignData(tables + count + n, 4),
                 ArrayOf("bone", pos, n)
                   \cup Laid("jigglebone", SizeOf["jigglebone"], jiggles, JiggleRank)
                   \cup Laid("procBone", 1, tables, JiggleRank)
                   \cup (IF count = 0 THEN {}
                         ELSE {Region(tables + count + i - 1, 1,
                                 <<"linearProcBone",
                                   IF i \in Jiggles THEN JiggleRank[i] ELSE 255>>)
                               : i \in 1..n}),
                 HdrInt("boneindex", pos)
                   ++ IntsOver(Bone, "procindex", ProcIndex)
                   ++ (IF count = 0 THEN << >>
                       ELSE HdrInt("procBoneCount", count)
                              ++ HdrInt("procBoneTableOffset", tables)
                              ++ HdrInt("linearProcBoneOffset", tables + count)),
                 {Reg(Bone[i], "sznameindex", old.bones[i].name) : i \in 1..n}
                   \cup {Reg(Bone[i], "surfacepropidx", "") : i \in 1..n})

ConvertAttachments ==
    LET n == Len(old.attachments)
        Att == ElementsAt("attachment", pos, n)
    IN  /\ pc = "attachments"
        /\ IF n = 0 THEN Skip("hitboxes")
           ELSE Write("hitboxes", AlignData(pos + n * SizeOf["attachment"], 4),
                      ArrayOf("attachment", pos, n),
                      HdrInt("localattachmentindex", pos),
                      {Reg(Att[i], "sznameindex", old.attachments[i]) : i \in 1..n})

\* All the set headers first, then the boxes of one set after the other.
ConvertHitboxes ==
    LET n == Len(old.hitboxsets)
        NumBoxes == [i \in 1..n |-> Len(old.hitboxsets[i])]
        Set == ElementsAt("hitboxset", pos, n)
        first == pos + n * SizeOf["hitboxset"]
        boxes == Members(NumBoxes)
        BoxRank == MemberRank(NumBoxes)
        Box == [b \in boxes |-> first + BoxRank[b] * SizeOf["bbox"]]
        HitboxIndex == [i \in 1..n |->
            first + SumTo(NumBoxes, i - 1) * SizeOf["bbox"] - Set[i]]
    IN  /\ pc = "hitboxes"
        /\ Write("bonebyname", AlignData(first + SumTo(NumBoxes, n) * SizeOf["bbox"], 4),
                 ArrayOf("hitboxset", pos, n) \cup Laid("bbox", SizeOf["bbox"], first, BoxRank),
                 HdrInt("hitboxsetindex", pos)
                   ++ IntsOver(Set, "numhitboxes", NumBoxes)
                   ++ IntsOver(Set, "hitboxindex", HitboxIndex),
                 {Reg(Set[i], "sznameindex", "default") : i \in 1..n}
                   \cup {Reg(Box[b], "szhitboxnameindex", old.hitboxsets[b[1]][b[2]]) : b \in boxes}
                   \cup {Reg(Box[b], "hitdataGroupOffset", "") : b \in boxes})

ConvertBoneByName ==
    LET n == Len(old.bones) IN
    /\ pc = "bonebyname"
    /\ Write("sequence", AlignData(pos + n, 4),
             {Region(pos, n, <<"bonetablebyname">>)},
             HdrInt("bonetablebynameindex", pos), {})

\* One "@ref" sequence: descriptor, a weight per bone, the blend index, and the
\* animation descriptor the blend index leads to.
WriteDefaultSequence ==
    LET seq == pos
        weights == seq + SizeOf["seqdesc"]
        blend == weights + 4 * Len(old.bones)
        anim == blend + 4
    IN  /\ pc = "sequence"
        /\ Write("bodyparts", AlignData(anim + SizeOf["animdesc"], 4),
                 {Region(seq, SizeOf["seqdesc"], <<"seqdesc">>),
                  Region(weights, 4 * Len(old.bones), <<"weightlist">>),
                  Region(blend, 4, <<"blends">>),
                  Region(anim, SizeOf["animdesc"], <<"animdesc">>)},
                 HdrInt("localseqindex", seq) ++ HdrInt("numlocalseq", 1)
                   ++ StructInt(seq, "weightlistindex", SizeOf["seqdesc"])
                   ++ StructInt(seq, "animindexindex", blend - seq)
                   ++ StructInt(blend, "blend", (blend - seq) + 4)
                   ++ StructInt(seq, "unused0", anim + SizeOf["animdesc"] - seq),
                 {Reg(seq, "szlabelindex", "@ref"), Reg(seq, "szactivitynameindex", ""),
                  Reg(anim, "sznameindex", "")})

\* The body parts; then, part by part, its models and after them the meshes of
\* each of these models.
MeshesBefore(part, j) == SumTo(part, j - 1)
PartBytes(part) == Len(part) * SizeOf["model"] + SumTo(part, Len(part)) * SizeOf["mesh"]

\* Mutant: the distance is taken from the first model of the part.
MeshIndexFromFirst(part, j) ==
    Len(part) * SizeOf["model"] + MeshesBefore(part, j) * SizeOf["mesh"]
\* From model j of a part to its own first mesh.
MeshIndex(part, j) ==
    (Len(part) - (j - 1)) * SizeOf["model"] + MeshesBefore(part, j) * SizeOf["mesh"]

ConvertBodyParts ==
    LET n == Len(old.bodyparts)
        parts == old.bodyparts
        Bytes == [i \in 1..n |-> PartBytes(parts[i])]
        Part == ElementsAt("bodypart", pos, n)
        First == [i \in 1..(n + 1) |-> pos + n * SizeOf["bodypart"] + SumTo(Bytes, i - 1)]
        models == Members([i \in 1..n |-> Len(parts[i])])
        meshes == UNION {{<<m[1], m[2], k>> : k \in 1..parts[m[1]][m[2]]} : m \in models}
        Model == [m \in models |-> First[m[1]] + (m[2] - 1) * SizeOf["model"]]
        Mesh == [m \in meshes |-> First[m[1]] + Len(parts[m[1]]) * SizeOf["model"]
                    + (MeshesBefore(parts[m[1]], m[2]) + m[3] - 1) * SizeOf["mesh"]]
    IN  /\ pc = "bodyparts"
        /\ Write("poseparams", AlignData(First[n + 1], 4),
                 ArrayOf("bodypart", pos, n)
                   \cup {Region(Model[m], SizeOf["model"], <<"model", m>>) : m \in models}
                   \cup {Region(Mesh[m], SizeOf["mesh"], <<"mesh", m>>) : m \in meshes},
                 HdrInt("bodypartindex", pos)
                   ++ IntsOver(Part, "nummodels", [i \in 1..n |-> Len(parts[i])])
                   ++ IntsOver(Part, "modelindex", [i \in 1..n |-> First[i] - Part[i]])
                   ++ IntsOver(Model, "nummeshes", [m \in models |-> parts[m[1]][m[2]]])
                   ++ IntsOver(Model, "meshindex",
                               [m \in models |-> MeshIndex(parts[m[1]], m[2])])
                   ++ IntsOver(Mesh, "modelindex",
                               [m \in meshes |-> Model[<<m[1], m[2]>>] - Mesh[m]]),
                 {Reg(Part[i], "sznameindex", "body") : i \in 1..n})

\* R5_ConvertIKChains, which follows, only stores the cursor.
ConvertPoseParams ==
    LET n == old.poseparams
        Pose == ElementsAt("poseparam", pos, n)
        next == IF n = 0 THEN pos ELSE AlignData(pos + n * SizeOf["poseparam"], 4)
    IN  /\ pc = "poseparams"
        /\ Write("rui", next,
                 ArrayOf("poseparam", pos, n),
                 HdrInt("ikchainindex", next)
                   ++ HdrInt("numlocalposeparameters", n)
                   ++ (IF n = 0 THEN << >> ELSE HdrInt("localposeparamindex", pos)),
                 {Reg(Pose[i], "sznameindex", "pose") : i \in 1..n})

-----------------------------------------------------------------------------
\* The layout of one RUI mesh blob that starts at p (offset from s_pBase).
RuiPadding(p, m) ==
    LET preVertexFixed == SizeOf["ruimesh"] + (StrLen[m.name] + 1)
                          + 2 * m.parents + 8 * m.faces
    IN  (16 - ((p + preVertexFixed) % 16)) % 16
RuiParent(p, m) == SizeOf["ruimesh"] + (StrLen[m.name] + 1) + RuiPadding(p, m)
RuiVertMap(p, m) == RuiParent(p, m) + 2 * m.parents
RuiUnk(p, m) == RuiVertMap(p, m) + 6 * m.faces
RuiVertex(p, m) == RuiUnk(p, m) + 2 * m.faces
RuiFaceData(p, m) == RuiVertex(p, m) + 16 * m.vertices
RuiEnd(p, m) == p + RuiFaceData(p, m) + 32 * m.faces

RuiFieldNames == {"parentindex", "vertmapindex", "unkindex", "vertexindex", "facedataindex"}
RuiField(p, m, f) ==
    CASE f = "parentindex" -> RuiParent(p, m)
      [] f = "vertmapindex" -> RuiVertMap(p, m)
      [] f = "unkindex" -> RuiUnk(p, m)
      [] f = "vertexindex" -> RuiVertex(p, m)
      [] f = "facedataindex" -> RuiFaceData(p, m)
RuiFieldSize(m, f) ==
    CASE f = "parentindex" -> 2 * m.parents
      [] f = "vertmapindex" -> 6 * m.faces
      [] f = "unkindex" -> 2 * m.faces
      [] f = "vertexindex" -> 16 * m.vertices
      [] f = "facedataindex" -> 32 * m.faces

RuiRegions(p, m, i) ==
    {Region(p, SizeOf["ruimesh"], <<"ruimesh", i>>),
     Region(p + SizeOf["ruimesh"], StrLen[m.name] + 1, <<"ruiname", i>>)}
      \cup {Region(p + RuiField(p, m, f), RuiFieldSize(m, f), <<"rui", i, f>>) : f \in RuiFieldNames}

\* The 8-byte entries (hash, distance from the entry to its mesh), then the
\* meshes one after the other.
WriteRuiSection ==
    LET n == Len(old.rui)
        Entry == ElementsAt("ruiheader", pos, n)
        end[i \in 0..n] ==
            IF i = 0 THEN pos + n * SizeOf["ruiheader"] ELSE RuiEnd(end[i - 1], old.rui[i])
        Start == [i \in 1..n |-> end[i - 1]]
        Ints(f) == IntsOver(Start, f, [i \in 1..n |-> RuiField(Start[i], old.rui[i], f)])
    IN  /\ pc = "rui"
        /\ IF n = 0 THEN Skip("textures")
           ELSE Write("textures", AlignData(end[n], 4),
                  ArrayOf("ruiheader", pos, n)
                    \cup UNION {RuiRegions(Start[i], old.rui[i], i) : i \in 1..n},
                  HdrInt("uiPanelCount", n) ++ HdrInt("uiPanelOffset", pos)
                    ++ IntsOver(Entry, "ruimeshindex", [i \in 1..n |-> Start[i] - Entry[i]])
                    ++ Ints("parentindex") ++ Ints("vertmapindex") ++ Ints("unkindex")
                    ++ Ints("vertexindex") ++ Ints("facedataindex"),
                  {})

\* Mutant: the struct pointer is not advanced from one texture to the next.
TextureNamesAtFirst(at) ==
    {Reg(at, "sznameindex", old.textures[i]) : i \in 1..Len(old.textures)}
TextureNames(at) ==
    {Reg(ElementsAt("texture", at, Len(old.textures))[i], "sznameindex", old.textures[i]) :
        i \in 1..Len(old.textures)}

\* The textures, a material type byte for each, and one empty cdtexture.
ConvertTextures ==
    LET n == Len(old.textures)
        types == AlignData(pos + n * SizeOf["texture"], 4)
        cd == AlignData(types + n, 4)
    IN  /\ pc = "textures"
        /\ Write("skins", cd + 4,
                 ArrayOf("texture", pos, n)
                   \cup {Region(types, n, <<"materialtypes">>), Region(cd, 4, <<"cdtexture">>)},
                 HdrInt("textureindex", pos) ++ HdrInt("materialtypesindex", types)
                   ++ HdrInt("cdtextureindex", cd) ++ HdrInt("numcdtextures", 1),
                 TextureNames(pos) \cup {Reg(cd, "cdtexture", "")})

\* Mutant: the cursor stays on the first name.
SkinNamesEndAtFirst(names, fam) == names
SkinNamesEnd(names, fam) == names + 4 * (fam - 1)

\* A short per family and reference, then the names of the families but the first.
ConvertSkins ==
    LET ref == old.skins[1]
        fam == old.skins[2]
        names == AlignData(pos + 2 * ref * fam, 4)
    IN  /\ pc = "skins"
        /\ IF ref <= 0 \/ fam <= 0 THEN Skip("keyvalues")
           ELSE Write("keyvalues", AlignData(SkinNamesEnd(names, fam), 4),
                      {Region(pos, 2 * ref * fam, <<"skins">>)}
                        \cup Laid("skinname", 4, names, Indices(fam - 1)),
                      HdrInt("skinindex", pos) ++ HdrInt("numskinref", ref)
                        ++ HdrInt("numskinfamilies", fam),
                      {Reg(names + (i - 1) * 4, "skinname", "skin") : i \in 1..(fam - 1)})

KeyValueLen == 33     \* mdlkeyvalue{prop_data{base ""}}\n and its NUL
WriteKeyValues ==
    LET padded == 2 * ((KeyValueLen + 1) \div 2) IN
    /\ pc = "keyvalues"
    /\ Write("xforms", AlignData(pos + padded, 4),
             {Region(pos, padded, <<"keyvalues">>)},
             HdrInt("keyvalueindex", pos) ++ HdrInt("keyvaluesize", padded), {})

ConvertSrcBoneTransforms ==
    LET n == old.xforms
        Xform == ElementsAt("srcbonetransform", pos, n)
    IN  /\ pc = "xforms"
        /\ IF n = 0 THEN Skip("linearbones")
           ELSE Write("linearbones", AlignData(pos + n * SizeOf["srcbonetransform"], 4),
                      ArrayOf("srcbonetransform", pos, n),
                      HdrInt("numsrcbonetransform", n) ++ HdrInt("srcbonetransformindex", pos),
                      {Reg(Xform[i], "sznameindex", "bone") : i \in 1..n})

-----------------------------------------------------------------------------
\* The arrays of the compiled linear bones: bytes per bone, and how many bytes
\* per bone the arrays before it take.
LinearElem == [flagsindex |-> 4, parentindex |-> 4, posindex |-> 12, quatindex |-> 16,
               rotindex |-> 12, posetoboneindex |-> 48]
LinearBefore == [flagsindex |-> 0, parentindex |-> 4, posindex |-> 8, quatindex |-> 20,
                 rotindex |-> 36, posetoboneindex |-> 48]
LinearArrays == DOMAIN LinearElem
OldLinearIndex(a) == SizeOf["oldlinearbone"] + Len(old.bones) * LinearBefore[a]

IndexAdjust == SizeOf["oldlinearbone"] - SizeOf["linearbone"]
NewLinearIndex(a) == OldLinearIndex(a) - IndexAdjust

\* The new header is shorter than the old one by IndexAdjust: the arrays are
\* copied in one block, and every index shrinks by as much.
ConvertLinearBones ==
    LET data == pos + SizeOf["linearbone"]
        dataToCopy == OldLinearIndex("posetoboneindex") + Len(old.bones) * 48
    IN  /\ pc = "linearbones"
        /\ IF ~old.linear \/ Len(old.bones) <= 1 THEN Skip("strings")
           ELSE Write("strings", AlignData(data + dataToCopy - IndexAdjust, 4),
                      {Region(pos, SizeOf["linearbone"], <<"linearbone">>)}
                        \cup {Region(data + OldLinearIndex(a) - SizeOf["oldlinearbone"],
                                     Len(old.bones) * LinearElem[a], <<"linear", a>>)
                              : a \in LinearArrays},
                      HdrInt("linearboneindex", pos)
                        ++ [k \in {pos} \X LinearArrays |-> NewLinearIndex(k[2])],
                      {})

\* R5_WriteStringTable (module RmdlStringTable): the empty string, then every
\* other distinct string once, a byte for each character and the NUL.
WriteStrings ==
    LET strings == {g.string : g \in regs} \cup {""}
        size == Cardinality(UNION {{s} \X (0..StrLen[s]) : s \in strings})
    IN  /\ pc = "strings"
        /\ Write("bvh", AlignData(pos + size, 4),
                 {Region(pos, size, <<"strings">>)}, << >>, {})

\* The collision blob, and the length of the file.
AppendBvh ==
    LET at == AlignData(pos, 64) IN
    /\ pc = "bvh"
    /\ IF old.bvh = 0
         THEN Write("done", pos, {}, HdrInt("length", pos), {})
         ELSE Write("done", at + old.bvh,
                    {Region(at, old.bvh, <<"bvh">>)},
                    HdrInt("bvhOffset", at) ++ HdrInt("length", at + old.bvh), {})

Next ==
    \/ WriteHeader \/ ConvertBones \/ ConvertAttachments \/ ConvertHitboxes
    \/ ConvertBoneByName \/ WriteDefaultSequence \/ ConvertBodyParts
    \/ ConvertPoseParams \/ WriteRuiSection \/ ConvertTextures \/ ConvertSkins
    \/ WriteKeyValues \/ ConvertSrcBoneTransforms \/ ConvertLinearBones
    \/ WriteStrings \/ AppendBvh

Spec == Init /\ [][Next]_vars

-----------------------------------------------------------------------------
(* Reading the finished file back, by its offsets alone.                    *)
H(field) == ints[<<0, field>>]
Get(at, field) == ints[<<at, field>>]
At(at, what) == \E r \in regions : r.at = at /\ r.what = what
Done == pc = "done"

(* Nothing that was written is overwritten: the structs of all converters   *)
(* are disjoint, and all of them lie inside the length the header states.   *)
RegionsDisjoint ==
    Done => /\ \A r \in regions : r.at + r.size <= H("length")
            /\ \A r, q \in regions :
                  r # q => r.at + r.size <= q.at \/ q.at + q.size <= r.at

(* Every struct that holds ints starts at a multiple of 4 in the file.      *)
PackedKinds == {"procBone", "linearProcBone", "bonetablebyname", "materialtypes",
                "skins", "keyvalues", "strings", "ruiname", "rui"}
StructsAligned ==
    Done => \A r \in regions : r.what[1] \notin PackedKinds => r.at % 4 = 0

(* Each field that waits for a string lies in a struct that was written,    *)
(* and no field waits for two.                                              *)
StringFieldsOwned ==
    Done => /\ \A g \in regs : \E r \in regions : r.at = g.at /\ r.size > 0
            /\ \A g, h \in regs : (g.at = h.at /\ g.field = h.field) => g = h

(* A reader that starts at boneindex meets every bone in order; a jiggle    *)
(* bone's procindex leads to its own jiggle data, and the two byte tables   *)
(* are inverse to one another.                                              *)
SkeletonReadable ==
    Done =>
      LET Bone(i) == H("boneindex") + (i - 1) * SizeOf["bone"]
          Linear(i, c) == At(H("linearProcBoneOffset") + i - 1, <<"linearProcBone", c>>)
      IN  \A i \in 1..H("numbones") :
            /\ At(Bone(i), <<"bone", i>>)
            /\ i \in Jiggles =>
                 /\ At(Bone(i) + Get(Bone(i), "procindex"), <<"jigglebone", i>>)
                 /\ \E c \in 0..(H("procBoneCount") - 1) :
                      Linear(i, c) /\ At(H("procBoneTableOffset") + c, <<"procBone", i>>)
            /\ (i \notin Jiggles /\ H("procBoneCount") > 0) => Linear(i, 255)

(* From a body part to its models, from a model to its meshes, and from a   *)
(* mesh back to its model: the offsets of the file reproduce the tree of    *)
(* the compiled model, and the hitboxes of each set.                        *)
GeometryReadable ==
    Done =>
      LET Part(i) == H("bodypartindex") + (i - 1) * SizeOf["bodypart"]
          Model(i, j) == Part(i) + Get(Part(i), "modelindex") + (j - 1) * SizeOf["model"]
          Mesh(i, j, k) == Model(i, j) + Get(Model(i, j), "meshindex")
                           + (k - 1) * SizeOf["mesh"]
          Set(i) == H("hitboxsetindex") + (i - 1) * SizeOf["hitboxset"]
      IN  /\ \A i \in 1..H("numbodyparts") :
               /\ Get(Part(i), "nummodels") = Len(old.bodyparts[i])
               /\ \A j \in 1..Len(old.bodyparts[i]) :
                    /\ At(Model(i, j), <<"model", <<i, j>>>>)
                    /\ \A k \in 1..old.bodyparts[i][j] :
                         /\ At(Mesh(i, j, k), <<"mesh", <<i, j, k>>>>)
                         /\ Mesh(i, j, k) + Get(Mesh(i, j, k), "modelindex") = Model(i, j)
          /\ \A i \in 1..H("numhitboxsets") : \A b \in 1..Len(old.hitboxsets[i]) :
               At(Set(i) + Get(Set(i), "hitboxindex") + (b - 1) * SizeOf["bbox"],
                  <<"bbox", <<i, b>>>>)

(* The default sequence's blend index leads to its animation descriptor,    *)
(* and the shortened linear bones lead to the arrays copied with them.      *)
AnimationReadable ==
    Done =>
      LET seq == H("localseqindex")
          linear == H("linearboneindex")
      IN  /\ At(seq + Get(seq, "weightlistindex"), <<"weightlist">>)
          /\ At(seq + Get(seq + Get(seq, "animindexindex"), "blend"), <<"animdesc">>)
          /\ linear # 0 => \A a \in LinearArrays :
                At(linear + Get(linear, a), <<"linear", a>>)

(* Every RUI mesh is reached through its 8-byte entry, its five arrays are  *)
(* where its offsets say, and its vertices start at a multiple of 16 of the *)
(* file, whatever the length of its name.                                   *)
PanelsReadable ==
    Done =>
      LET Entry(i) == H("uiPanelOffset") + (i - 1) * SizeOf["ruiheader"]
          Mesh(i) == Entry(i) + Get(Entry(i), "ruimeshindex")
      IN  \A i \in 1..H("uiPanelCount") :
            /\ At(Mesh(i), <<"ruimesh", i>>)
            /\ \A f \in RuiFieldNames : At(Mesh(i) + Get(Mesh(i), f), <<"rui", i, f>>)
            /\ (Mesh(i) + Get(Mesh(i), "vertexindex")) % 16 = 0

(* The image is well formed: structs are disjoint and aligned, on top of the *)
(* type invariant.                                                          *)
StructsPlaced == TypeOK /\ RegionsDisjoint /\ StructsAligned

(* All that a reader of the finished file looks for, it finds: skeleton,    *)
(* geometry, animation and panels, each by the offsets of the file alone.   *)
Readable ==
    SkeletonReadable /\ GeometryReadable /\ AnimationReadable /\ PanelsReadable
=============================================================================
