-------------------------------- MODULE Wisdom --------------------------------
(***************************************************************************)
(* What FFTW's planner remembers (kernel/planner.c, kernel/ifftw.h): an    *)
(* entry says, for the signature of a problem, which solver is best or     *)
(* that there is none, between two sets of impatience flags L and U.  The  *)
(* bit masks are sets of flags, so LEQ is inclusion.                       *)
(***************************************************************************)
EXTENDS Integers

\* INFEASIBLE_SLVNDX.
Infeasible == "infeasible"

\* subsumes: entry a answers a request with flags b.
Subsumes(a, b) ==
    IF a.slv # Infeasible
    THEN a.u \subseteq b.u /\ b.l \subseteq a.l
    ELSE a.l \subseteq b.l /\ a.ti <= b.ti

\* What htab_lookup may return: the entries that answer the request and
\* whose u is lowest.
Answers(T, key, flags) ==
    LET Matches == {x \in T : x.key = key /\ Subsumes(x, flags)}
    IN  {x \in Matches : \A y \in Matches : y.u \subseteq x.u => x.u \subseteq y.u}

\* What htab_insert leaves: the new entry without those it subsumes.
Inserted(T, e) == {x \in T : ~(x.key = e.key /\ Subsumes(e, x))} \cup {e}

\* planner.c:368-369: "It is an error to insert an element that is subsumed
\* by an existing entry."
MayInsert(T, e) ==
    \A x \in T : x.key = e.key /\ Subsumes(x, e) => Subsumes(e, x)
=============================================================================
