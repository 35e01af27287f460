----------------------------- MODULE PlannerTable -----------------------------
(***************************************************************************)
(* The hash table of FFTW's planner (kernel/planner.c:150-395, 747-904):   *)
(* open addressing with double hashing in a table of prime size.  A slot   *)
(* that was killed stays valid, so that searches go past it.  The key of   *)
(* an entry is the two words of its signature that the hash functions use. *)
(***************************************************************************)
EXTENDS Wisdom, FiniteSets

CONSTANTS
    Entries,     \* what a planner may insert
    MaxElems     \* bound: live entries

\* The words of a signature are unsigned.
ASSUME EntriesAssumption == \A e \in Entries : e.key[1] \in Nat /\ e.key[2] \in Nat

VARIABLES
    ht,          \* the table: hashsiz, nelem and the slots
    importing,   \* imprt is running
    old          \* then, its backup of the table

vars == <<ht, importing, old>>

Keys == {e.key : e \in Entries}

\* A slot: H_VALID, H_LIVE, and the entry if it is live.
NoEntry == [key |-> <<>>]
Invalid == [valid |-> FALSE, live |-> FALSE, e |-> NoEntry]
Dead == [valid |-> TRUE, live |-> FALSE, e |-> NoEntry]
Filled(e) == [valid |-> TRUE, live |-> TRUE, e |-> e]

LiveSlots(t) == {g \in DOMAIN t.slot : t.slot[g].live}
LiveEntries(t) == {t.slot[g].e : g \in LiveSlots(t)}

-----------------------------------------------------------------------------
h1(siz, key) == key[1] % siz
h2(siz, key) == 1 + (key[2] % (siz - 1))

\* The slots in the order that repeated addmod visits them, until it is back
\* at the first one.
Orbit(siz, key) ==
    LET d == h2(siz, key)
        n == CHOOSE k \in 1 .. siz :
                (k * d) % siz = 0 /\ \A j \in 1 .. k - 1 : (j * d) % siz # 0
    IN  [k \in 1 .. n |-> (h1(siz, key) + (k - 1) * d) % siz]

\* Mutant: a search ends at a killed slot too.
ChainOfLive(t, key) ==
    LET o == Orbit(t.siz, key)
    IN  [k \in {k \in DOMAIN o : \A j \in 1 .. k : t.slot[o[j]].live} |-> o[k]]

\* The slots that htab_lookup and htab_insert look at: up to the first that
\* is not valid.
Chain(t, key) ==
    LET o == Orbit(t.siz, key)
    IN  [k \in {k \in DOMAIN o : \A j \in 1 .. k : t.slot[o[j]].valid} |-> o[k]]

Match(t, g, key) == t.slot[g].live /\ t.slot[g].e.key = key

NoSlot == -1

\* Mutant: the first answer is returned, not the one with the lowest u.
BetterFirst(t, best, g) == IF best = NoSlot THEN g ELSE best

Better(t, best, g) ==
    IF best = NoSlot \/ t.slot[g].e.u \subseteq t.slot[best].e.u THEN g ELSE best

\* htab_lookup: the slot of the best answer, or none.
Lookup(t, key, flags) ==
    LET chain == Chain(t, key)
        Answer(g) == Match(t, g, key) /\ Subsumes(t.slot[g].e, flags)
        best[k \in 0 .. t.siz] ==
            IF k = 0 THEN NoSlot
            ELSE IF k \in DOMAIN chain /\ Answer(chain[k]) THEN Better(t, best[k - 1], chain[k])
            ELSE best[k - 1]
    IN  best[t.siz]

-----------------------------------------------------------------------------
\* hinsert0: the first slot of the orbit that is not live is filled.  If all
\* are live its loop does not end; then nelem counts an entry that is nowhere.
HInsert0(t, e) ==
    LET o == Orbit(t.siz, e.key)
        Free == {k \in DOMAIN o : ~t.slot[o[k]].live}
        counted == [t EXCEPT !.nelem = @ + 1]
    IN  IF Free = {} THEN counted
        ELSE [counted EXCEPT
                !.slot[o[CHOOSE k \in Free : \A j \in Free : k <= j]] = Filled(e)]

IsPrime(n) == n > 1 /\ \A d \in 2 .. n - 1 : n % d # 0
NextPrime[n \in Nat] == IF IsPrime(n) THEN n ELSE NextPrime[n + 1]

\* rehash: the live entries move to a new table, in the order of the slots.
Rehash(t, nsiz) ==
    LET siz == NextPrime[nsiz]
        new == [siz |-> siz, nelem |-> 0, slot |-> [g \in 0 .. siz - 1 |-> Invalid]]
        moved[n \in 0 .. t.siz] ==
            IF n = 0 THEN new
            ELSE IF t.slot[n - 1].live THEN HInsert0(moved[n - 1], t.slot[n - 1].e)
            ELSE moved[n - 1]
    IN  moved[t.siz]

minsz(nelem) == 1 + nelem + nelem \div 8
nextsz(nelem) == minsz(minsz(nelem))

\* Mutant: the table grows one entry too late, when no slot is left.
HGrowLate(t) == IF minsz(t.nelem) > t.siz THEN Rehash(t, nextsz(t.nelem)) ELSE t

HGrow(t) == IF minsz(t.nelem) >= t.siz THEN Rehash(t, nextsz(t.nelem)) ELSE t

\* mkhashtab.
MkHashtab == HGrow([siz |-> 0, nelem |-> 0, slot |-> <<>>])

\* htab_insert: the entries that the new one subsumes are killed, the first
\* of them is overwritten; if there is none the table may have to grow.
HtabInsert(t, e) ==
    LET chain == Chain(t, e.key)
        Killed == {k \in DOMAIN chain :
                    Match(t, chain[k], e.key) /\ Subsumes(e, t.slot[chain[k]].e)}
        first == chain[CHOOSE k \in Killed : \A j \in Killed : k <= j]
    IN  IF Killed = {} THEN HInsert0(HGrow(t), e)
        ELSE [t EXCEPT
                !.nelem = @ - Cardinality(Killed) + 1,
                !.slot = [g \in DOMAIN @ |->
                            IF g = first THEN Filled(e)
                            ELSE IF \E k \in Killed : chain[k] = g THEN Dead
                            ELSE @[g]]]

-----------------------------------------------------------------------------
Init == ht = MkHashtab /\ importing = FALSE /\ old = MkHashtab

\* A planner inserts any solution, one that the table answers too: that this is
\* an error is an assertion, which only a debugging build evaluates.  imprt does
\* insert no line that a lookup of its flags answers.
Insert(e) ==
    /\ importing => Lookup(ht, e.key, e) = NoSlot
    /\ Cardinality(LiveEntries(ht) \cup {e}) <= MaxElems
    /\ ht' = HtabInsert(ht, e)
    /\ UNCHANGED <<importing, old>>

Forget ==
    /\ ~importing
    /\ ht' = MkHashtab
    /\ UNCHANGED <<importing, old>>

\* imprt: the backup is made, entries follow that are not known yet, and the
\* backup takes the place of the table if one cannot be read.
StartImport ==
    /\ ~importing
    /\ importing' = TRUE
    /\ old' = ht
    /\ UNCHANGED ht

EndImport ==
    /\ importing
    /\ importing' = FALSE
    /\ old' = MkHashtab
    /\ UNCHANGED ht

BadImport ==
    /\ importing
    /\ importing' = FALSE
    /\ ht' = old
    /\ old' = MkHashtab

Next ==
    \/ \E e \in Entries : Insert(e)
    \/ Forget \/ StartImport \/ EndImport \/ BadImport

Spec == Init /\ [][Next]_vars

-----------------------------------------------------------------------------
(* Properties *)

\* The assertions of check (planner.c:992-1031) but for the subsumption:
\* there is a slot that is not live, so that no insertion searches for ever;
\* nelem is the number of live entries; and every live entry is found by a
\* search for its key, through killed slots and moved by every growth.
TableSound ==
    /\ ht.nelem < ht.siz
    /\ ht.nelem = Cardinality(LiveSlots(ht))
    /\ \A g \in LiveSlots(ht) :
         \E k \in DOMAIN Chain(ht, ht.slot[g].e.key) :
             Chain(ht, ht.slot[g].e.key)[k] = g

Requests == [l : {e.l : e \in Entries}, u : {e.u : e \in Entries}, ti : {0, 1}]

\* htab_lookup finds an entry exactly if one answers the request, whatever
\* slots were killed on the way to it, and then one with the lowest u.
LookupAnswers ==
    \A key \in Keys, r \in Requests :
        LET g == Lookup(ht, key, r)
            found == IF g = NoSlot THEN {} ELSE {ht.slot[g].e}
            answers == Answers(LiveEntries(ht), key, r)
        IN  found \subseteq answers /\ (answers = {} <=> found = {})

\* The table implements the set of entries it stands for.
Promise == INSTANCE WisdomSet WITH
    entries <- LiveEntries(ht),
    backup <- IF importing THEN LiveEntries(old) ELSE {}

WisdomSetImplemented == Promise!Spec
=============================================================================
