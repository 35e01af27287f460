------------------------------ MODULE WisdomSet ------------------------------
(***************************************************************************)
(* What a hash table of FFTW's planner promises: it is a set of entries.   *)
(* PlannerTable is shown to implement it.                                  *)
(***************************************************************************)
EXTENDS Wisdom

CONSTANT Entries    \* the entries a planner may insert

VARIABLES
    entries,    \* the live entries of the table
    importing,  \* an import is under way
    backup      \* then, the entries before it

vars == <<entries, importing, backup>>

Init == entries = {} /\ importing = FALSE /\ backup = {}

\* htab_insert.
Insert(e) ==
    /\ entries' = Inserted(entries, e)
    /\ UNCHANGED <<importing, backup>>

\* forget.
Forget ==
    /\ ~importing
    /\ entries' = {}
    /\ UNCHANGED <<importing, backup>>

\* imprt, which keeps the entries to restore them if the wisdom is bad.
StartImport ==
    /\ ~importing
    /\ importing' = TRUE
    /\ backup' = entries
    /\ UNCHANGED entries

EndImport ==
    /\ importing
    /\ importing' = FALSE
    /\ backup' = {}
    /\ UNCHANGED entries

BadImport ==
    /\ importing
    /\ entries' = backup
    /\ importing' = FALSE
    /\ backup' = {}

Next ==
    \/ \E e \in Entries : Insert(e)
    \/ Forget \/ StartImport \/ EndImport \/ BadImport

Spec == Init /\ [][Next]_vars

-----------------------------------------------------------------------------
TypeOK == entries \subseteq Entries /\ importing \in BOOLEAN /\ backup \subseteq Entries
=============================================================================
