----------------------- MODULE RmdlStringTable_proofs -----------------------
(***************************************************************************)
(* Proofs about the string table for every set of strings, of fields, and  *)
(* every layout of the structs the fields live in.                         *)
(***************************************************************************)
EXTENDS RmdlStringTable, SequenceTheorems, NatLemmas

-----------------------------------------------------------------------------
(* FirstMatch, used on a string the table knows, returns a position of that *)
(* string before which there is no other.                                   *)
LEMMA FirstMatchIsFirst ==
    ASSUME Len(table) \in Nat, NEW s, Known(s)
    PROVE  /\ FirstMatch(s) \in 1..Len(table)
           /\ Holds(s, FirstMatch(s))
           /\ \A j \in 1..(FirstMatch(s) - 1) : ~Holds(s, j)
<1> DEFINE S == {i \in 1..Len(table) : Holds(s, i)}
<1>1. S # {} /\ S \in SUBSET Nat
  BY DEF Known
<1>2. PICK m \in S : \A n \in S : m <= n
  BY <1>1, LeastNat
<1>3. \E i \in 1..Len(table) : Holds(s, i) /\ \A j \in 1..(i - 1) : ~Holds(s, j)
  BY <1>2
<1> QED BY <1>3 DEF FirstMatch

(* With the table sound, the first entry of a string is its owner.          *)
LEMMA FirstMatchOwns ==
    ASSUME TypeOK, DupSound, NEW s, Known(s)
    PROVE  table[FirstMatch(s)].dupindex = Unique
<1> DEFINE k == FirstMatch(s)
<1>1. Len(table) \in Nat
  BY DEF TypeOK
<1>2. /\ k \in 1..Len(table)
      /\ Holds(s, k)
      /\ \A j \in 1..(k - 1) : ~Holds(s, j)
  BY <1>1, FirstMatchIsFirst
<1> HIDE DEF k
<1>3. table[k].dupindex = Unique
  BY <1>1, <1>2 DEF DupSound, Holds
<1> QED BY <1>3 DEF k

-----------------------------------------------------------------------------
LEMMA TableTyped ==
    ASSUME TypeOK
    PROVE  /\ Len(table) \in Nat
           /\ \A i \in 1..Len(table) :
                 /\ table[i] \in StringEntry
                 /\ table[i].ptr \in Fields \cup {NoField}
                 /\ table[i].string \in Strings
                 /\ table[i].dupindex \in Nat
                 /\ table[i].addr \in Nat \cup {NoAddr}
<1>1. Len(table) \in Nat
  BY DEF TypeOK
<1>2. ASSUME NEW i \in 1..Len(table) PROVE table[i] \in StringEntry
  BY ElementOfSeq DEF TypeOK
<1> QED BY <1>1, <1>2 DEF StringEntry

LEMMA EntryTyped ==
    ASSUME NEW f \in Fields \cup {NoField}, NEW s \in Strings, NEW d \in Nat
    PROVE  Entry(f, s, d) \in StringEntry
BY DEF Entry, StringEntry

LEMMA InitIInv == Init => IInv
BY StringAssumption, LayoutAssumption
   DEF Init, IInv, TypeOK, PhaseSound, DupSound, OwnersDiffer, AddrSound,
       PoolDisjoint, PassedResolve, LastPassed, Unique, NoAddr

LEMMA BeginStringTableKeeps == IInv /\ BeginStringTable => IInv'
<1> SUFFICES ASSUME IInv, BeginStringTable PROVE IInv'
  OBVIOUS
<1> USE StringAssumption, LayoutAssumption
<1>1. /\ phase' = "collecting"
      /\ table' = << Entry(NoField, Empty, Unique) >>
      /\ UNCHANGED <<cur, pData, mem, pool>>
      /\ cur = 1 /\ pool = {}
  BY DEF BeginStringTable, IInv, PhaseSound
<1>2. /\ Len(table') = 1
      /\ table'[1].ptr = NoField /\ table'[1].string = Empty
      /\ table'[1].dupindex = Unique /\ table'[1].addr = NoAddr
  BY <1>1 DEF Entry
<1>3. TypeOK'
  BY <1>1, EntryTyped DEF IInv, TypeOK, Unique
<1>4. PhaseSound' /\ DupSound' /\ OwnersDiffer' /\ AddrSound'
  BY <1>1, <1>2 DEF IInv, PhaseSound, DupSound, OwnersDiffer, AddrSound
<1>5. PoolDisjoint' /\ PassedResolve'
  BY <1>1 DEF PoolDisjoint, PassedResolve, LastPassed
<1> QED BY <1>3, <1>4, <1>5 DEF IInv

LEMMA AddKeeps ==
    ASSUME IInv, NEW f \in Fields, NEW s \in Strings, AddToStringTable(f, s)
    PROVE  IInv'
<1> USE StringAssumption, LayoutAssumption
<1> DEFINE d == IF Known(s) THEN FirstMatch(s) ELSE Unique
           n == Len(table)
<1>1. /\ phase = "collecting" /\ phase' = phase
      /\ table' = Append(table, Entry(f, s, d))
      /\ cur' = cur /\ pData' = pData /\ mem' = mem /\ pool' = pool
      /\ cur = 1 /\ pool = {} /\ n \in Nat /\ n > 0
  BY DEF AddToStringTable, IInv, TypeOK, PhaseSound
<1>2. /\ d \in 0..n
      /\ d = 0 => \A i \in 1..n : table[i].string # s
      /\ d # 0 => table[d].string = s /\ table[d].dupindex = Unique
  <2>1. CASE Known(s)
    <3>1. /\ FirstMatch(s) \in 1..n
          /\ Holds(s, FirstMatch(s))
          /\ table[FirstMatch(s)].dupindex = Unique
      BY <1>1, <2>1, FirstMatchIsFirst, FirstMatchOwns DEF IInv
    <3> QED BY <1>1, <2>1, <3>1 DEF Holds
  <2>2. CASE ~Known(s)
    BY <1>1, <2>2 DEF Known, Holds, Unique
  <2> QED BY <2>1, <2>2
<1> HIDE DEF d
<1>3. /\ Len(table') = n + 1
      /\ \A i \in 1..n : table'[i] = table[i]
      /\ table'[n + 1] = [ptr |-> f, string |-> s, dupindex |-> d, addr |-> NoAddr]
  BY <1>1 DEF IInv, TypeOK, Entry
<1> HIDE DEF n
<1>4. TypeOK'
  <2>1. Entry(f, s, d) \in StringEntry
    BY <1>1, <1>2, EntryTyped
  <2>2. table' \in Seq(StringEntry)
    BY <1>1, <2>1, AppendProperties DEF IInv, TypeOK
  <2> QED BY <1>1, <2>2 DEF IInv, TypeOK
<1>5. PhaseSound'
  BY <1>1, <1>3 DEF IInv, PhaseSound, TypeOK, n
<1>6. DupSound'
  BY <1>1, <1>2, <1>3 DEF IInv, DupSound, Unique, n
<1>7. OwnersDiffer'
  BY <1>1, <1>2, <1>3 DEF IInv, OwnersDiffer, Unique, n
<1>8. AddrSound'
  BY <1>1, <1>3 DEF IInv, AddrSound, n
<1>9. PoolDisjoint'
  BY <1>1 DEF IInv, PoolDisjoint
<1>10. PassedResolve'
  BY <1>1, <1>3 DEF PassedResolve, LastPassed, n
<1> QED BY <1>4, <1>5, <1>6, <1>7, <1>8, <1>9, <1>10 DEF IInv

LEMMA BeginWriteKeeps == IInv /\ BeginWrite => IInv'
<1> SUFFICES ASSUME IInv, BeginWrite PROVE IInv'
  OBVIOUS
<1>1. /\ phase = "collecting" /\ phase' = "writing"
      /\ UNCHANGED <<table, cur, pData, mem, pool>>
  BY DEF BeginWrite
<1>2. TypeOK' /\ PhaseSound'
  BY <1>1 DEF IInv, TypeOK, PhaseSound
<1>3. DupSound' /\ OwnersDiffer' /\ AddrSound' /\ PoolDisjoint' /\ PassedResolve'
  BY <1>1 DEF IInv, DupSound, OwnersDiffer, AddrSound, PoolDisjoint,
              PassedResolve, LastPassed, Owner
<1> QED BY <1>2, <1>3 DEF IInv

LEMMA EndWriteKeeps == IInv /\ EndWrite => IInv'
BY DEF EndWrite, IInv, TypeOK, PhaseSound, DupSound, OwnersDiffer,
       AddrSound, PoolDisjoint, PassedResolve, LastPassed, Owner

LEMMA StutterKeeps == IInv /\ UNCHANGED vars => IInv'
BY DEF vars, IInv, TypeOK, PhaseSound, DupSound, OwnersDiffer,
       AddrSound, PoolDisjoint, PassedResolve, LastPassed, Owner
LEMMA WriteUniqueKeeps == IInv /\ WriteUnique => IInv'
<1> SUFFICES ASSUME IInv, WriteUnique PROVE IInv'
  OBVIOUS
<1> USE StringAssumption, LayoutAssumption
<1> DEFINE n == Len(table)
           e == table[cur]
           str == IF e.ptr = NoField THEN Empty ELSE e.string
           e2 == [e EXCEPT !.addr = pData]
<1>1. /\ phase = "writing" /\ phase' = phase
      /\ cur \in 1..n /\ cur' = cur + 1 /\ n \in Nat
      /\ e.dupindex = Unique /\ e.string = str /\ str \in Strings
      /\ table' = [table EXCEPT ![cur] = e2]
      /\ pool' = pool \cup {[at |-> pData, string |-> str]}
      /\ e \in StringEntry /\ pData \in Nat
  BY TableTyped DEF WriteUnique, IInv, PhaseSound, TypeOK
<1>2. /\ table' \in Seq(StringEntry)
      /\ Len(table') = n
      /\ \A i \in 1..n : /\ table'[i].ptr = table[i].ptr
                         /\ table'[i].string = table[i].string
                         /\ table'[i].dupindex = table[i].dupindex
                         /\ i # cur => table'[i].addr = table[i].addr
      /\ table'[cur].addr = pData
  <2>1. /\ e2 \in StringEntry
        /\ e2.ptr = e.ptr /\ e2.string = e.string
        /\ e2.dupindex = e.dupindex /\ e2.addr = pData
    BY <1>1 DEF StringEntry
  <2> HIDE DEF e2
  <2>2. table \in Seq(StringEntry)
    BY DEF IInv, TypeOK
  <2>3. /\ table' \in Seq(StringEntry)
        /\ Len(table') = n
        /\ \A i \in 1..n : table'[i] = IF i = cur THEN e2 ELSE table[i]
    BY <1>1, <2>1, <2>2, ExceptSeq
  <2> QED BY <1>1, <2>1, <2>3
<1> HIDE DEF e2
<1>3. /\ pData' = pData + StrLen[str] + 1
      /\ e.ptr = NoField => mem' = mem
      /\ e.ptr # NoField => mem' = [mem EXCEPT ![e.ptr] = pData - Base[e.ptr]]
      /\ StrLen[str] \in Nat /\ pData \in Nat
  BY <1>1 DEF WriteUnique, IInv, TypeOK
<1>4. TypeOK'
  <2>1. mem' \in [Fields -> Int]
    <3>1. mem \in [Fields -> Int]
      BY DEF IInv, TypeOK
    <3>2. CASE e.ptr = NoField
      BY <1>3, <3>1, <3>2
    <3>3. CASE e.ptr # NoField
      <4>1. e.ptr \in Fields
        BY <1>1, <3>3, TableTyped DEF IInv
      <4>2. pData - Base[e.ptr] \in Int
        BY <1>1, <4>1
      <4> QED BY <1>3, <3>1, <3>3, <4>1, <4>2
    <3> QED BY <3>2, <3>3
  <2> QED BY <1>1, <1>2, <1>3, <2>1 DEF IInv, TypeOK
<1> HIDE DEF str
<1>5. PhaseSound'
  BY <1>1, <1>2, <1>3 DEF IInv, PhaseSound
<1>6. DupSound' /\ OwnersDiffer'
  BY <1>1, <1>2 DEF IInv, DupSound, OwnersDiffer, Unique
<1>7. AddrSound'
  BY <1>1, <1>2 DEF IInv, AddrSound
<1>8. PoolDisjoint'
  BY <1>1, <1>3 DEF IInv, PoolDisjoint, PhaseSound, TypeOK
<1>9. PassedResolve'
  <2> SUFFICES ASSUME NEW i \in 1..n, LastPassed(i)'
               PROVE  mem'[table[i].ptr] + Base[table[i].ptr] = table'[Owner(i)'].addr
    BY <1>2 DEF PassedResolve
  <2>1. /\ i <= cur /\ table[i].ptr # NoField /\ table[i].ptr \in Fields
        /\ \A j \in (i + 1)..cur : table[j].ptr # table[i].ptr
    BY <1>1, <1>2, TableTyped DEF LastPassed, IInv, TypeOK
  <2>2. Owner(i)' = Owner(i)
    BY <1>1, <1>2 DEF Owner
  <2>3. CASE i = cur
    BY <1>1, <1>2, <1>3, <2>1, <2>2, <2>3 DEF Owner, Unique, IInv, TypeOK
  <2>4. CASE i < cur
    <3>1. mem'[table[i].ptr] = mem[table[i].ptr]
      BY <1>1, <1>3, <2>1, <2>4 DEF IInv, TypeOK
    <3>2. LastPassed(i)
      BY <1>1, <2>1, <2>4 DEF LastPassed
    <3>3. Owner(i) \in 1..i
      BY <1>1 DEF Owner, IInv, DupSound, Unique, TypeOK
    <3> QED BY <1>1, <1>2, <2>2, <2>4, <3>1, <3>2, <3>3 DEF IInv, PassedResolve
  <2> QED BY <1>1, <2>1, <2>3, <2>4
<1> QED BY <1>4, <1>5, <1>6, <1>7, <1>8, <1>9 DEF IInv

LEMMA WriteDuplicateKeeps == IInv /\ WriteDuplicate => IInv'
<1> SUFFICES ASSUME IInv, WriteDuplicate PROVE IInv'
  OBVIOUS
<1> USE StringAssumption, LayoutAssumption
<1> DEFINE n == Len(table)
           e == table[cur]
<1>1. /\ phase = "writing" /\ UNCHANGED <<phase, table, pData, pool>>
      /\ cur \in 1..n /\ cur' = cur + 1 /\ n \in Nat
      /\ e.dupindex # Unique
      /\ mem' = [mem EXCEPT ![e.ptr] = table[e.dupindex].addr - Base[e.ptr]]
  BY DEF WriteDuplicate, IInv, TypeOK, PhaseSound
<1>2. /\ e.dupindex \in 1..(cur - 1)
      /\ table[e.dupindex].dupindex = Unique
      /\ e.ptr \in Fields
      /\ table[e.dupindex].addr \in Int
  <2>1. /\ e.dupindex \in 1..(cur - 1)
        /\ table[e.dupindex].dupindex = Unique
        /\ e.ptr # NoField
    BY <1>1 DEF IInv, DupSound
  <2>2. e.dupindex \in 1..n /\ e.ptr \in Fields \cup {NoField}
    BY <1>1, <2>1, TableTyped DEF IInv
  <2>3. table[e.dupindex].addr \in Nat \cup {NoAddr}
    BY <2>2, TableTyped DEF IInv
  <2> QED BY <2>1, <2>2, <2>3 DEF NoAddr
<1>3. TypeOK'
  BY <1>1, <1>2 DEF IInv, TypeOK
<1>4. PhaseSound' /\ DupSound' /\ OwnersDiffer' /\ PoolDisjoint'
  BY <1>1 DEF IInv, PhaseSound, DupSound, OwnersDiffer, PoolDisjoint
<1>5. AddrSound'
  BY <1>1 DEF IInv, AddrSound
<1>6. PassedResolve'
  <2> SUFFICES ASSUME NEW i \in 1..n, LastPassed(i)'
               PROVE  mem'[table[i].ptr] + Base[table[i].ptr] = table[Owner(i)].addr
    BY <1>1 DEF PassedResolve, Owner
  <2>1. /\ i <= cur /\ table[i].ptr # NoField /\ table[i].ptr \in Fields
        /\ \A j \in (i + 1)..cur : table[j].ptr # table[i].ptr
    BY <1>1, TableTyped DEF LastPassed, IInv, TypeOK
  <2>2. CASE i = cur
    BY <1>1, <1>2, <2>1, <2>2 DEF Owner, IInv, TypeOK
  <2>3. CASE i < cur
    <3>1. LastPassed(i)
      BY <1>1, <2>1, <2>3 DEF LastPassed
    <3>2. mem'[table[i].ptr] = mem[table[i].ptr]
      BY <1>1, <1>2, <2>1, <2>3 DEF IInv, TypeOK
    <3> QED BY <3>1, <3>2 DEF IInv, PassedResolve
  <2> QED BY <1>1, <2>1, <2>2, <2>3
<1> QED BY <1>3, <1>4, <1>5, <1>6 DEF IInv

-----------------------------------------------------------------------------
(* The table invariant, for every set of strings and fields, every length   *)
(* of a string and every layout of the structs.                             *)
THEOREM TableInvariant == Spec => []IInv
<1>1. IInv /\ [Next]_vars => IInv'
  <2> SUFFICES ASSUME IInv, [Next]_vars PROVE IInv'
    OBVIOUS
  <2>1. ASSUME NEW f \in Fields, NEW s \in Strings, AddToStringTable(f, s)
        PROVE  IInv'
    BY <2>1, AddKeeps
  <2> QED BY <2>1, BeginStringTableKeeps, BeginWriteKeeps, WriteUniqueKeeps,
             WriteDuplicateKeeps, EndWriteKeeps, StutterKeeps DEF Next
<1> QED BY <1>1, InitIInv, PTL DEF Spec

(* The table is well typed in every behaviour of the writer.                *)
THEOREM TypeCorrect == Spec => []TypeOK
BY TableInvariant, PTL DEF IInv

(* A duplicate entry always names an earlier owner of the same string.      *)
THEOREM DupCorrect == Spec => []DupSound
BY TableInvariant, PTL DEF IInv
-----------------------------------------------------------------------------
(* LastRegistration is well defined for every registered field.             *)
LEMMA LastRegistrationIsLast ==
    ASSUME Len(table) \in Nat, NEW f, Registrations(f) # {}
    PROVE  /\ LastRegistration(f) \in Registrations(f)
           /\ \A j \in Registrations(f) : j <= LastRegistration(f)
<1> DEFINE T == {m \in Nat : Len(table) - m \in Registrations(f)}
<1>1. T # {} /\ T \in SUBSET Nat
  <2>1. PICK i \in Registrations(f) : TRUE
    OBVIOUS
  <2>2. i \in 1..Len(table)
    BY <2>1 DEF Registrations
  <2>3. Len(table) - (Len(table) - i) = i /\ Len(table) - i \in Nat
    BY <2>2
  <2> QED BY <2>1, <2>3
<1>2. PICK m \in T : \A n \in T : m <= n
  BY <1>1, LeastNat
<1>3. ASSUME NEW j \in Registrations(f) PROVE j <= Len(table) - m
  <2>1. j \in 1..Len(table)
    BY DEF Registrations
  <2>2. Len(table) - j \in T
    <3>1. Len(table) - (Len(table) - j) = j /\ Len(table) - j \in Nat
      BY <2>1
    <3> QED BY <3>1
  <2>3. m <= Len(table) - j /\ m \in Nat
    <3> HIDE DEF T
    <3> QED BY <1>1, <1>2, <2>2
  <2> QED BY <2>1, <2>3
<1>4. Len(table) - m \in Registrations(f)
  BY <1>2
<1>5. \E i \in Registrations(f) : \A j \in Registrations(f) : j <= i
  BY <1>3, <1>4
<1> QED BY <1>5 DEF LastRegistration

(* What a finished table says of a registered field: the int stored in it   *)
(* leads to the copy of the string it was last registered with.             *)
LEMMA WrittenResolves ==
    ASSUME IInv, phase = "written", NEW f \in Fields, Registrations(f) # {}
    PROVE  Resolves(f)
<1> DEFINE i == LastRegistration(f)
<1>1. /\ i \in 1..Len(table) /\ table[i].ptr = f
      /\ \A j \in Registrations(f) : j <= i
      /\ Len(table) \in Nat /\ cur = Len(table) + 1
  BY TableTyped, LastRegistrationIsLast DEF IInv, PhaseSound, Registrations
<1> HIDE DEF i
<1>2. LastPassed(i)
  BY <1>1, LayoutAssumption DEF LastPassed, Registrations
<1>3. mem[f] + Base[f] = table[Owner(i)].addr
  BY <1>1, <1>2 DEF IInv, PassedResolve
<1>4. /\ Owner(i) \in 1..Len(table)
      /\ table[Owner(i)].dupindex = Unique
      /\ table[Owner(i)].string = table[i].string
  BY <1>1 DEF Owner, IInv, DupSound
<1>5. [at |-> table[Owner(i)].addr, string |-> table[Owner(i)].string] \in pool
  BY <1>1, <1>4 DEF IInv, AddrSound
<1>6. Base[f] + mem[f] = mem[f] + Base[f]
  BY LayoutAssumption DEF IInv, TypeOK
<1> QED BY <1>3, <1>4, <1>5, <1>6 DEF Resolves, i

(* Once R5_WriteStringTable has returned, every field any converter has     *)
(* registered leads a reader to its string.                                 *)
THEOREM Resolution == Spec => []AllResolved
<1>1. IInv => AllResolved
  BY WrittenResolves DEF AllResolved
<1> QED BY <1>1, TableInvariant, PTL

-----------------------------------------------------------------------------
(* One address of a sound pool holds one string.                            *)
LEMMA OneStringPerAddress ==
    ASSUME IInv, NEW p \in pool, NEW q \in pool, p.at = q.at
    PROVE  p = q
<1>1. p.at \in Nat /\ q.at \in Nat /\ p.string \in Strings /\ q.string \in Strings
  BY DEF IInv, TypeOK
<1>2. StrLen[p.string] \in Nat /\ StrLen[q.string] \in Nat
  BY <1>1, StringAssumption
<1> QED BY <1>1, <1>2 DEF IInv, PoolDisjoint

LEMMA ReaderFinds ==
    ASSUME IInv, NEW a, NEW s, [at |-> a, string |-> s] \in pool
    PROVE  /\ StringsAt(a) # {}
           /\ (CHOOSE p \in StringsAt(a) : TRUE).string = s
<1>1. [at |-> a, string |-> s] \in StringsAt(a)
  BY DEF StringsAt
<1>2. (CHOOSE p \in StringsAt(a) : TRUE) \in StringsAt(a)
  BY <1>1
<1>3. \A p \in StringsAt(a) : p = [at |-> a, string |-> s]
  BY OneStringPerAddress DEF StringsAt
<1> QED BY <1>1, <1>2, <1>3

LEMMA SealedMatches == IInv /\ phase = "written" => resolvedOf = wantedOf
<1> SUFFICES ASSUME IInv, phase = "written" PROVE resolvedOf = wantedOf
  OBVIOUS
<1>1. ASSUME NEW f \in Fields
      PROVE  resolvedOf[f] = wantedOf[f]
  <2>1. CASE Registrations(f) = {}
    BY <2>1 DEF resolvedOf, wantedOf
  <2>2. CASE Registrations(f) # {}
    BY <2>2, WrittenResolves, ReaderFinds DEF resolvedOf, wantedOf, Resolves
  <2> QED BY <2>1, <2>2
<1> QED BY <1>1 DEF resolvedOf, wantedOf
(* What the pool sees of the table is who registered what, last.            *)
LEMMA SameRegistrations ==
    ASSUME IInv, Len(table') = Len(table),
           \A i \in 1..Len(table) : /\ table'[i].ptr = table[i].ptr
                                    /\ table'[i].string = table[i].string
    PROVE  wantedOf' = wantedOf
<1>1. ASSUME NEW f \in Fields
      PROVE  wantedOf'[f] = wantedOf[f]
  <2>1. Registrations(f)' = Registrations(f)
    BY DEF Registrations
  <2>2. LastRegistration(f)' = LastRegistration(f)
    BY <2>1 DEF LastRegistration
  <2>3. CASE Registrations(f) = {}
    BY <2>1, <2>3 DEF wantedOf
  <2>4. CASE Registrations(f) # {}
    <3>1. LastRegistration(f) \in 1..Len(table)
      BY <2>4, TableTyped, LastRegistrationIsLast DEF IInv, Registrations
    <3>2. wantedOf[f] = table[LastRegistration(f)].string
      BY <2>4 DEF wantedOf
    <3>3. wantedOf'[f] = table'[LastRegistration(f)'].string
      BY <2>1, <2>4 DEF wantedOf
    <3> QED BY <2>2, <3>1, <3>2, <3>3
  <2> QED BY <2>3, <2>4
<1> QED BY <1>1 DEF wantedOf

LEMMA UnsealedUnresolved ==
    ASSUME phase # "written", phase' # "written"
    PROVE  resolvedOf' = resolvedOf
BY DEF resolvedOf

LEMMA AddRegisters ==
    ASSUME IInv, IInv', NEW f \in Fields, NEW s \in Strings, AddToStringTable(f, s)
    PROVE  Pool!Register(f, s)
<1> DEFINE n == Len(table)
<1>1. /\ phase = "collecting" /\ phase' = "collecting" /\ n \in Nat
      /\ Len(table') = n + 1
      /\ \A i \in 1..n : table'[i] = table[i]
      /\ table'[n + 1].ptr = f /\ table'[n + 1].string = s
  BY TableTyped DEF AddToStringTable, IInv, TypeOK, Entry
<1>2. wantedOf'[f] = s
  <2>1. n + 1 \in Registrations(f)'
    BY <1>1 DEF Registrations
  <2>2. \A j \in Registrations(f)' : j \in Nat /\ j <= n + 1
    BY <1>1 DEF Registrations
  <2>3. LastRegistration(f)' = n + 1
    <3>1. /\ LastRegistration(f)' \in Registrations(f)'
          /\ \A j \in Registrations(f)' : j <= LastRegistration(f)'
      BY <2>1, <2>2 DEF LastRegistration
    <3> QED BY <1>1, <2>1, <2>2, <3>1
  <2> QED BY <1>1, <2>1, <2>3 DEF wantedOf
<1>3. ASSUME NEW g \in Fields, g # f
      PROVE  wantedOf'[g] = wantedOf[g]
  <2>1. Registrations(g)' = Registrations(g)
    BY <1>1, <1>3 DEF Registrations
  <2>2. LastRegistration(g)' = LastRegistration(g)
    BY <2>1 DEF LastRegistration
  <2>3. CASE Registrations(g) = {}
    BY <2>1, <2>3 DEF wantedOf
  <2>4. CASE Registrations(g) # {}
    <3>1. LastRegistration(g) \in 1..n
      BY <2>4, TableTyped, LastRegistrationIsLast DEF IInv, Registrations
    <3>2. wantedOf[g] = table[LastRegistration(g)].string
      BY <2>4 DEF wantedOf
    <3>3. wantedOf'[g] = table'[LastRegistration(g)'].string
      BY <2>1, <2>4 DEF wantedOf
    <3> QED BY <1>1, <2>2, <3>1, <3>2, <3>3
  <2> QED BY <2>3, <2>4
<1>4. wantedOf' = [wantedOf EXCEPT ![f] = s]
  BY <1>2, <1>3 DEF wantedOf
<1>5. resolvedOf' = resolvedOf
  BY <1>1, UnsealedUnresolved
<1> QED BY <1>1, <1>4, <1>5 DEF Pool!Register

(* The table implements the pool: registering is Register, the end of the   *)
(* writing loop is Seal, and every step between them is a stutter.          *)
THEOREM Refinement == Spec => PoolRefined
<1>1. Init => Pool!PoolInit
  BY DEF Init, Pool!PoolInit, Pool!Nothing, wantedOf, resolvedOf, Registrations
<1>2. IInv /\ IInv' /\ [Next]_vars => [Pool!PoolNext]_<<wantedOf, resolvedOf, phase = "written">>
  <2> SUFFICES ASSUME IInv, IInv', [Next]_vars
               PROVE  [Pool!PoolNext]_<<wantedOf, resolvedOf, phase = "written">>
    OBVIOUS
  <2>1. ASSUME NEW f \in Fields, NEW s \in Strings, AddToStringTable(f, s)
        PROVE  Pool!Register(f, s)
    BY <2>1, AddRegisters
  <2>2. CASE BeginStringTable
    <3>1. \A f \in Fields : Registrations(f) = {} /\ Registrations(f)' = {}
      BY <2>2, LayoutAssumption
         DEF BeginStringTable, IInv, PhaseSound, Registrations, Entry
    <3>2. wantedOf' = wantedOf
      BY <3>1 DEF wantedOf
    <3> QED BY <2>2, <3>2, UnsealedUnresolved DEF BeginStringTable
  <2>3. CASE BeginWrite
    BY <2>3, SameRegistrations, UnsealedUnresolved DEF BeginWrite
  <2>4. CASE WriteUnique
    <3>1. /\ Len(table') = Len(table)
          /\ \A i \in 1..Len(table) : /\ table'[i].ptr = table[i].ptr
                                       /\ table'[i].string = table[i].string
      <4> DEFINE e2 == [table[cur] EXCEPT !.addr = pData]
      <4>1. /\ table \in Seq(StringEntry) /\ cur \in 1..Len(table)
            /\ table[cur] \in StringEntry /\ pData \in Nat
            /\ table' = [table EXCEPT ![cur] = e2]
        BY <2>4, TableTyped DEF WriteUnique, IInv, TypeOK, PhaseSound
      <4>2. /\ e2 \in StringEntry
            /\ e2.ptr = table[cur].ptr /\ e2.string = table[cur].string
        BY <4>1 DEF StringEntry
      <4> HIDE DEF e2
      <4>3. /\ Len(table') = Len(table)
            /\ \A i \in 1..Len(table) : table'[i] = IF i = cur THEN e2 ELSE table[i]
        BY <4>1, <4>2, ExceptSeq
      <4> QED BY <4>2, <4>3
    <3> QED BY <2>4, <3>1, SameRegistrations, UnsealedUnresolved DEF WriteUnique
  <2>5. CASE WriteDuplicate
    BY <2>5, SameRegistrations, UnsealedUnresolved DEF WriteDuplicate
  <2>6. CASE EndWrite
    <3>1. phase # "written" /\ phase' = "written"
      BY <2>6 DEF EndWrite
    <3>2. wantedOf' = wantedOf
      BY <2>6, SameRegistrations DEF EndWrite
    <3>3. (IInv /\ phase = "written" => resolvedOf = wantedOf)'
      BY SealedMatches, PTL
    <3> QED BY <3>1, <3>2, <3>3 DEF Pool!PoolNext, Pool!Seal
  <2>7. CASE UNCHANGED vars
    BY <2>7 DEF vars, wantedOf, resolvedOf, Registrations, LastRegistration, StringsAt
  <2> QED BY <2>1, <2>2, <2>3, <2>4, <2>5, <2>6, <2>7 DEF Next, Pool!PoolNext
<1> QED BY <1>1, <1>2, TableInvariant, PTL DEF Spec, PoolRefined, Pool!PoolSpec, Pool!poolVars
=============================================================================
