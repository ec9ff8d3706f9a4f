----------------------------- MODULE StringPool -----------------------------
(***************************************************************************)
(* What a string table promises to the converters that use it: a field     *)
(* registered with a string is, once the table has been written, an offset *)
(* at which a reader of the file finds that string.  Nothing is said of    *)
(* addresses, duplicates or of the order in which the pool is laid out.    *)
(* RmdlStringTable implements this module.                                 *)
(***************************************************************************)
EXTENDS FiniteSets

CONSTANTS
    Fields,    \* the int fields of the file that hold a string offset
    Strings    \* the strings that are registered

VARIABLES
    wanted,    \* wanted[f]: the string last registered for f, or Nothing
    resolved,  \* resolved[f]: the string a reader finds through f, or Nothing
    sealed     \* the pool has been written: no registration follows

poolVars == <<wanted, resolved, sealed>>

Nothing == "nothing"     \* no string: Strings is a set of model values

PoolInit ==
    /\ wanted = [f \in Fields |-> Nothing]
    /\ resolved = [f \in Fields |-> Nothing]
    /\ sealed = FALSE

Register(f, s) ==
    /\ ~sealed
    /\ wanted' = [wanted EXCEPT ![f] = s]
    /\ UNCHANGED <<resolved, sealed>>

\* Every registered field is readable at once, with the string it wants.
Seal ==
    /\ ~sealed
    /\ sealed' = TRUE
    /\ resolved' = wanted
    /\ UNCHANGED wanted

PoolNext ==
    \/ \E f \in Fields, s \in Strings : Register(f, s)
    \/ Seal

PoolSpec == PoolInit /\ [][PoolNext]_poolVars
=============================================================================
