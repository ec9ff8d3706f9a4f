-------------------------- MODULE RmdlStringTable ---------------------------
(***************************************************************************)
(* The deferred string table of the RMDL writer                            *)
(* (src/src/studiomdl/rmdl_write.cpp: r5_stringentry_t,                    *)
(* R5_BeginStringTable, R5_AddToStringTable, R5_WriteStringTable).         *)
(*                                                                         *)
(* The converters register <<struct base, int field, string>> while they   *)
(* lay out the file; R5_WriteStringTable then walks the entries in order,  *)
(* appends each distinct string at the cursor pData and stores in every    *)
(* registered field the distance from its struct to the string.  A string  *)
(* already in the table is not stored again: the entry keeps the position  *)
(* of the first one (dupindex) and takes its address.                      *)
(*                                                                         *)
(* Abstractions: a string is an element of Strings with a length; the      *)
(* table is a sequence, so a position here is the code's index + 1 and     *)
(* Unique (0) stands for its dupindex -1; a registered field f is          *)
(* identified with the pair (base, ptr) the code is given, its struct at   *)
(* address Base[f].  mem[f] is the int stored in f; pool is the set of     *)
(* NUL-terminated strings the loop has copied.                             *)
(***************************************************************************)
EXTENDS Integers, Sequences, FiniteSets

CONSTANTS
    Strings,     \* the strings that can be registered
    Empty,       \* ""
    StrLen,      \* StrLen[s]: its length without the NUL
    Fields,      \* the int fields that can be registered
    Base,        \* Base[f]: address of the struct that holds f
    PoolStart,   \* s_pData when R5_WriteStringTable is called
    MaxEntries   \* bound on the registrations of a behaviour

ASSUME StringAssumption ==
    /\ Empty \in Strings
    /\ StrLen \in [Strings -> Nat]
    /\ StrLen[Empty] = 0

NoField == "null"    \* ptr = nullptr

ASSUME LayoutAssumption ==
    /\ NoField \notin Fields
    /\ Base \in [Fields -> Nat]
    /\ PoolStart \in Nat
    /\ MaxEntries \in Nat

VARIABLES
    phase,   \* "idle", "collecting", "writing" or "written"
    table,   \* s_stringTable
    cur,     \* position of the entry the writing loop visits next
    pData,   \* the cursor of R5_WriteStringTable
    mem,     \* mem[f]: the int stored in f
    pool     \* the strings copied so far: records [at, string]

vars == <<phase, table, cur, pData, mem, pool>>

Unique == 0          \* dupindex = -1
NoAddr == -1         \* addr = nullptr: never the address of a string

Entry(f, s, d) == [ptr |-> f, string |-> s, dupindex |-> d, addr |-> NoAddr]

StringEntry == [ptr : Fields \cup {NoField}, string : Strings,
                dupindex : Nat, addr : Nat \cup {NoAddr}]

TypeOK ==
    /\ phase \in {"idle", "collecting", "writing", "written"}
    /\ table \in Seq(StringEntry)
    /\ cur \in Nat
    /\ pData \in Nat
    /\ mem \in [Fields -> Int]
    /\ pool \subseteq [at : Nat, string : Strings]

Init ==
    /\ phase = "idle"
    /\ table = << >>
    /\ cur = 1
    /\ pData = PoolStart
    /\ mem = [f \in Fields |-> 0]
    /\ pool = {}

-----------------------------------------------------------------------------
\* The position of the first entry with string s.
Holds(s, i) == table[i].string = s
Known(s) == \E i \in 1..Len(table) : Holds(s, i)
FirstMatch(s) ==
    CHOOSE i \in 1..Len(table) :
        Holds(s, i) /\ \A j \in 1..(i - 1) : ~Holds(s, j)

BeginStringTable ==
    /\ phase = "idle"
    /\ phase' = "collecting"
    /\ table' = << Entry(NoField, Empty, Unique) >>
    /\ UNCHANGED <<cur, pData, mem, pool>>

AddToStringTable(f, s) ==
    /\ phase = "collecting"
    /\ Len(table) <= MaxEntries
    /\ table' = Append(table,
                       Entry(f, s, IF Known(s) THEN FirstMatch(s) ELSE Unique))
    /\ UNCHANGED <<phase, cur, pData, mem, pool>>

BeginWrite ==
    /\ phase = "collecting"
    /\ phase' = "writing"
    /\ UNCHANGED <<table, cur, pData, mem, pool>>

\* Mutant: only an entry with a field keeps its address.
WriteUniqueNoAddr ==
    LET e == table[cur] IN
    /\ phase = "writing"
    /\ cur <= Len(table)
    /\ e.dupindex = Unique
    /\ table' = IF e.ptr = NoField THEN table
                ELSE [table EXCEPT ![cur].addr = pData]
    /\ pool' = pool \cup
         {[at |-> pData, string |-> IF e.ptr = NoField THEN Empty ELSE e.string]}
    /\ IF e.ptr = NoField
         THEN /\ mem' = mem
              /\ pData' = pData + 1
         ELSE /\ mem' = [mem EXCEPT ![e.ptr] = pData - Base[e.ptr]]
              /\ pData' = pData + StrLen[e.string] + 1
    /\ cur' = cur + 1
    /\ UNCHANGED phase

\* An entry that owns its string: the address is recorded, and the string is
\* copied unless the entry has no field (entry 0, the empty string).
WriteUnique ==
    LET e == table[cur] IN
    /\ phase = "writing"
    /\ cur <= Len(table)
    /\ e.dupindex = Unique
    /\ table' = [table EXCEPT ![cur].addr = pData]
    /\ pool' = pool \cup
         {[at |-> pData, string |-> IF e.ptr = NoField THEN Empty ELSE e.string]}
    /\ IF e.ptr = NoField
         THEN /\ mem' = mem
              /\ pData' = pData + 1
         ELSE /\ mem' = [mem EXCEPT ![e.ptr] = pData - Base[e.ptr]]
              /\ pData' = pData + StrLen[e.string] + 1
    /\ cur' = cur + 1
    /\ UNCHANGED phase

\* Mutant: the distance is taken from the owner's struct, not from its own.
WriteDuplicateOwnerBase ==
    LET e == table[cur]
        o == table[e.dupindex] IN
    /\ phase = "writing"
    /\ cur <= Len(table)
    /\ e.dupindex # Unique
    /\ mem' = [mem EXCEPT ![e.ptr] =
                 o.addr - (IF o.ptr = NoField THEN 0 ELSE Base[o.ptr])]
    /\ cur' = cur + 1
    /\ UNCHANGED <<phase, table, pData, pool>>

\* Mutant: a duplicate's field is left as it is.
WriteDuplicateSkipped ==
    /\ phase = "writing"
    /\ cur <= Len(table)
    /\ table[cur].dupindex # Unique
    /\ cur' = cur + 1
    /\ UNCHANGED <<phase, table, pData, mem, pool>>

\* A later entry of the same string: the field gets the distance to the copy
\* the first entry made.
WriteDuplicate ==
    LET e == table[cur] IN
    /\ phase = "writing"
    /\ cur <= Len(table)
    /\ e.dupindex # Unique
    /\ mem' = [mem EXCEPT ![e.ptr] = table[e.dupindex].addr - Base[e.ptr]]
    /\ cur' = cur + 1
    /\ UNCHANGED <<phase, table, pData, pool>>

EndWrite ==
    /\ phase = "writing"
    /\ cur > Len(table)
    /\ phase' = "written"
    /\ UNCHANGED <<table, cur, pData, mem, pool>>

Next ==
    \/ BeginStringTable
    \/ \E f \in Fields, s \in Strings : AddToStringTable(f, s)
    \/ BeginWrite
    \/ WriteUnique
    \/ WriteDuplicate
    \/ EndWrite

Spec == Init /\ [][Next]_vars

-----------------------------------------------------------------------------
StringsAt(a) == {p \in pool : p.at = a}
Registrations(f) == {i \in 1..Len(table) : table[i].ptr = f}
LastRegistration(f) ==
    CHOOSE i \in Registrations(f) : \A j \in Registrations(f) : j <= i

(* Every duplicate names an earlier entry that owns the same string, so the *)
(* address R5_WriteStringTable reads through dupindex has always been set.  *)
DupSound ==
    \A i \in 1..Len(table) :
        LET d == table[i].dupindex IN
        d # Unique => /\ d \in 1..(i - 1)
                      /\ table[d].dupindex = Unique
                      /\ table[d].string = table[i].string
                      /\ table[i].ptr # NoField

(* No string is stored twice: two owning entries differ in their string.    *)
OwnersDiffer ==
    \A i, j \in 1..Len(table) :
        (i # j /\ table[i].dupindex = Unique /\ table[j].dupindex = Unique)
            => table[i].string # table[j].string

(* An owning entry the loop has passed has an address in the pool, where    *)
(* its own string was copied; entries not reached yet have none.            *)
AddrSound ==
    \A i \in 1..Len(table) :
        table[i].dupindex = Unique =>
            IF i < cur
              THEN [at |-> table[i].addr, string |-> table[i].string] \in pool
              ELSE table[i].addr = NoAddr

(* The copies never overlap: each ends, with its NUL, before the next one   *)
(* and before the cursor.                                                   *)
PoolDisjoint ==
    /\ \A p \in pool : PoolStart <= p.at /\ p.at + StrLen[p.string] < pData
    /\ \A p, q \in pool :
          p # q => \/ p.at + StrLen[p.string] < q.at
                   \/ q.at + StrLen[q.string] < p.at

(* The loop's progress: the fields of the entries it has passed hold, for   *)
(* the last such entry of each field, the distance to the owner's copy.     *)
Owner(i) == IF table[i].dupindex = Unique THEN i ELSE table[i].dupindex
LastPassed(i) ==
    /\ i < cur
    /\ table[i].ptr # NoField
    /\ \A j \in (i + 1)..(cur - 1) : table[j].ptr # table[i].ptr
PassedResolve ==
    \A i \in 1..Len(table) :
        LastPassed(i) => mem[table[i].ptr] + Base[table[i].ptr] = table[Owner(i)].addr

(* The control of the writer: one entry has no field, the empty string's at *)
(* the front, and the loop runs from the first entry to the last.           *)
PhaseSound ==
    /\ phase = "idle" => table = << >>
    /\ phase \in {"idle", "collecting"} => cur = 1 /\ pool = {}
    /\ phase # "idle" => Len(table) > 0
    /\ 1 <= cur /\ cur <= Len(table) + 1
    /\ phase = "written" => cur = Len(table) + 1
    /\ \A i \in 1..Len(table) : table[i].ptr = NoField <=> i = 1
    /\ \A i \in 1..Len(table) :
          i = 1 => table[i].string = Empty /\ table[i].dupindex = Unique
    /\ PoolStart <= pData

IInv ==
    /\ TypeOK
    /\ PhaseSound
    /\ DupSound
    /\ OwnersDiffer
    /\ AddrSound
    /\ PoolDisjoint
    /\ PassedResolve

(* After the table is written, every registered field leads, from its own   *)
(* struct, to a copy of the string it was last registered with.             *)
Resolves(f) ==
    [at |-> Base[f] + mem[f], string |-> table[LastRegistration(f)].string]
        \in pool
AllResolved ==
    phase = "written" => \A f \in Fields : Registrations(f) # {} => Resolves(f)

(* The table implements the pool of registered strings.                     *)
wantedOf == [f \in Fields |->
    IF Registrations(f) = {} THEN "nothing" ELSE table[LastRegistration(f)].string]
resolvedOf == [f \in Fields |->
    IF phase # "written" \/ Registrations(f) = {} \/ StringsAt(Base[f] + mem[f]) = {}
    THEN "nothing"
    ELSE (CHOOSE p \in StringsAt(Base[f] + mem[f]) : TRUE).string]
Pool == INSTANCE StringPool WITH
    wanted <- wantedOf, resolved <- resolvedOf, sealed <- (phase = "written")
PoolRefined == Pool!PoolSpec
=============================================================================
