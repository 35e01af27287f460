------------------------------- MODULE Planner -------------------------------
(***************************************************************************)
(* FFTW's planner (kernel/planner.c:476-745) and the retries of the API    *)
(* around it (api/apiplan.c).  A call of the API is one step: the planner  *)
(* is sequential, and what is open in it, measured times and the moment    *)
(* the time limit is exceeded, makes a call have several outcomes.  Each   *)
(* operator below is a C function and gives the set of its outcomes, a     *)
(* planner state `st` with the plan `pln` that the function returns, known *)
(* by its solver.  `mk` is the mkplan that the solvers call for their      *)
(* sub-problems: one that nests one level less.                            *)
(***************************************************************************)
EXTENDS Wisdom, Sequences, FiniteSets

CONSTANTS
    Problems,    \* the problems of the library, sub-problems included
    Flags,       \* the impatience flags
    Solvers,     \* the solvers of each problem's kind, in their order
    Rejects,     \* the impatience flags with which a solver is not applicable
    Children,    \* the sub-problems of a solver, with the arguments of mkplan_f_d
    Requested,   \* the problems the application plans
    Limits,      \* time limits as impatience; 0 for none
    Importable,  \* entries that a wisdom file may hold, sound or not
    Depth        \* bound: how deep sub-problems nest

AllSolvers == DOMAIN Rejects
SolversOf(p) == {Solvers[p][i] : i \in 1 .. Len(Solvers[p])}
ChildrenOf(s) == {Children[s][i] : i \in 1 .. Len(Children[s])}

\* A plan that is NULL, recorded as INFEASIBLE_SLVNDX.
NoPlan == Infeasible

\* The flags that the model names: those the search relaxes and the one that
\* stands for the estimator.
Estimate == "ESTIMATE"
NoSlow == "NO_SLOW"
NoUgly == "NO_UGLY"
RelaxTab == <<{}, {NoSlow}, {NoUgly}>>

\* mapflags: what the API flags ESTIMATE, MEASURE and EXHAUSTIVE make of u.
Pats == <<{Estimate, NoSlow, NoUgly}, {NoSlow, NoUgly}, {}>>

\* solution_s, the planner, flags_t and the arguments of mkplan_f_d.
Solutions == [key : Problems, l : SUBSET Flags, u : SUBSET Flags, ti : Nat,
              slv : AllSolvers \cup {Infeasible}]
States == [blessed : SUBSET Solutions, unblessed : SUBSET Solutions,
           ws : {"normal", "only", "ignore_infeasible", "ignore_all", "bogus"},
           timed : BOOLEAN, need : BOOLEAN, late : BOOLEAN, limit : Nat,
           illegal : BOOLEAN]
FlagSets == [l : SUBSET Flags, u : SUBSET Flags, ti : Nat, bless : BOOLEAN]
SubProblems == [p : Problems, lset : SUBSET Flags, uset : SUBSET Flags,
             reset : SUBSET (Flags \ {Estimate})]
Calls == States \X Problems \X FlagSets
Outcomes == [st : States, pln : AllSolvers \cup {NoPlan}]

\* No solver resets ESTIMATE for a sub-problem.
ASSUME LibraryAssumption ==
    /\ Requested \subseteq Problems /\ Importable \subseteq Solutions
    /\ IsFiniteSet(Flags) /\ {Estimate, NoSlow, NoUgly} \subseteq Flags
    /\ Limits \subseteq Nat /\ Depth \in Nat
    /\ Infeasible \notin AllSolvers
    /\ \A s \in AllSolvers : Rejects[s] \subseteq Flags /\ Children[s] \in Seq(SubProblems)
    /\ \A p \in Problems : Solvers[p] \in Seq(AllSolvers)

VARIABLES
    blessed,   \* htab_blessed, which stays from call to call
    sound,     \* no wisdom was imported since the wisdom was forgotten
    last       \* the last call and what it returned

vars == <<blessed, sound, last>>

None == "none"

-----------------------------------------------------------------------------
(* A loop of n rounds: step[i][o] has the outcomes of round i after o. *)

Loop(n, start, step) ==
    LET after[i \in 0 .. n] ==
            IF i = 0 THEN {start} ELSE UNION {step[i][o] : o \in after[i - 1]}
    IN  after[n]

-----------------------------------------------------------------------------
(* The state of the planner during a call *)

Entry(p, f, slv) == [key |-> p, l |-> f.l, u |-> f.u, ti |-> f.ti, slv |-> slv]

\* Mutant: only the table of this call is searched.
HLookupUnblessed(st, p, f) == Answers(st.unblessed, p, f)

\* hlookup.
HLookup(st, p, f) ==
    LET found == Answers(st.blessed, p, f)
    IN  IF found # {} THEN found ELSE Answers(st.unblessed, p, f)

\* hinsert; `illegal` notes that the assertion of htab_insert failed.
HInsert(st, p, f, slv) ==
    LET e == Entry(p, f, slv)
    IN  IF f.bless
        THEN [st EXCEPT !.blessed = Inserted(@, e),
                        !.illegal = @ \/ ~MayInsert(st.blessed, e)]
        ELSE [st EXCEPT !.unblessed = Inserted(@, e),
                        !.illegal = @ \/ ~MayInsert(st.unblessed, e)]

Bogus(st) == {[st |-> [st EXCEPT !.ws = "bogus"], pln |-> NoPlan]}

\* timeout_p: it returns `timed`.  When the limit is exceeded is open.
TimeoutP(st, f) ==
    IF Estimate \in f.u THEN {[st EXCEPT !.need = FALSE]}
    ELSE IF st.timed THEN {st}
    ELSE {[st EXCEPT !.late = l, !.timed = l, !.need = l] :
            l \in IF st.late THEN {TRUE} ELSE {FALSE, st.limit # 0}}

\* The test in the loop of search0.
CheckTimeout(st, f) == IF st.need THEN TimeoutP(st, f) ELSE {st}

\* The flags of a sub-problem, mkplan_f_d.
ChildFlags(f, c) ==
    [f EXCEPT !.l = (@ \ c.reset) \cup c.lset,
              !.u = (@ \ c.reset) \cup c.uset \cup c.lset]

-----------------------------------------------------------------------------
(* kernel/planner.c *)

\* The sub-plans of a solver, one after the other until one is missing.
MkChild(mk, s, f, c, o) ==
    IF o.pln = NoPlan THEN {o}
    ELSE {[st |-> r.st, pln |-> IF r.pln = NoPlan THEN NoPlan ELSE s] :
            r \in mk[<<o.st, c.p, ChildFlags(f, c)>>]}

MkChildren(mk, st, s, f) ==
    Loop(Len(Children[s]), [st |-> st, pln |-> s],
         [i \in 1 .. Len(Children[s]) |->
            [o \in Outcomes |-> MkChild(mk, s, f, Children[s][i], o)]])

\* invoke_solver: the sub-plans have no timeout of their own.
InvokeSolver(mk, st, s, f) ==
    IF Rejects[s] \cap f.l # {} THEN {[st |-> st, pln |-> NoPlan]}
    ELSE MkChildren(mk, st, s, [f EXCEPT !.ti = 0])

\* One round of the loop of search0, with the best plan so far in o.
TrySolver(mk, s, f, o) ==
    IF o.st.timed THEN {o}
    ELSE UNION {UNION {
        IF t.timed THEN {[st |-> t, pln |-> NoPlan]}
        ELSE IF r.pln = NoPlan THEN {[st |-> t, pln |-> o.pln]}
        ELSE IF o.pln = NoPlan THEN {[st |-> t, pln |-> s]}
        ELSE {[st |-> [t EXCEPT !.need = @ \/ Estimate \notin f.u], pln |-> b] :
                b \in {o.pln, s}} :
          t \in CheckTimeout(r.st, f)} :
        r \in InvokeSolver(mk, o.st, s, f)}

\* search0: a search that timed out returns no plan.
Search0(mk, st, p, f) ==
    UNION {IF t.timed THEN {[st |-> t, pln |-> NoPlan]}
           ELSE Loop(Len(Solvers[p]), [st |-> t, pln |-> NoPlan],
                     [i \in 1 .. Len(Solvers[p]) |->
                        [o \in Outcomes |-> TrySolver(mk, Solvers[p][i], f, o)]]) :
             t \in TimeoutP(st, f)}

\* The values search gives to l: u, u without more and more of the flags that
\* are not in l, and at last l.
Impatience(f, i) ==
    IF i > Len(RelaxTab) THEN f.l
    ELSE f.u \ ((UNION {RelaxTab[j] : j \in 1 .. i}) \ f.l)

Searched == [st : States, pln : AllSolvers \cup {NoPlan}, l : SUBSET Flags]

SearchAgain(mk, p, f, i, o) ==
    IF o.pln # NoPlan \/ (i > 1 /\ Impatience(f, i) = Impatience(f, i - 1)) THEN {o}
    ELSE {[st |-> r.st, pln |-> r.pln, l |-> Impatience(f, i)] :
            r \in Search0(mk, o.st, p, [f EXCEPT !.l = Impatience(f, i)])}

\* search: less and less impatient until a plan is found.
Search(mk, st, p, f) ==
    Loop(Len(RelaxTab) + 1, [st |-> st, pln |-> NoPlan, l |-> f.u],
         [i \in 1 .. Len(RelaxTab) + 1 |->
            [o \in Searched |-> SearchAgain(mk, p, f, i, o)]])

\* Mutant: sub-plans made from wisdom are not remembered again.
RememberNormal(st, p, f, slv) ==
    [st |-> IF st.ws = "normal" THEN HInsert(st, p, f, slv) ELSE st, pln |-> slv]

\* skip_search: the solution is remembered.
Remember(st, p, f, slv) ==
    [st |-> IF st.ws \in {"normal", "only"} THEN HInsert(st, p, f, slv) ELSE st,
     pln |-> slv]

\* Mutant: a search that ran out of time is recorded for every time limit.
DoSearchTimeless(mk, st, p, f) ==
    IF st.ws = "only" THEN Bogus(st)
    ELSE UNION {
           LET fl == [f EXCEPT !.l = o.l]
           IN  IF o.st.ws = "bogus" THEN Bogus(o.st)
               ELSE IF o.st.timed /\ f.ti = 0 THEN {[st |-> o.st, pln |-> NoPlan]}
               ELSE {Remember(o.st, p, [fl EXCEPT !.ti = 0, !.bless = @ \/ o.st.timed],
                              o.pln)} :
             o \in Search(mk, st, p, f)}

\* do_search.
DoSearch(mk, st, p, f) ==
    IF st.ws = "only" THEN Bogus(st)
    ELSE UNION {
           LET fl == [f EXCEPT !.l = o.l]
           IN  IF o.st.ws = "bogus" THEN Bogus(o.st)
               ELSE IF ~o.st.timed THEN {Remember(o.st, p, [fl EXCEPT !.ti = 0], o.pln)}
               ELSE IF f.ti = 0 THEN {[st |-> o.st, pln |-> NoPlan]}
               ELSE {Remember(o.st, p, [fl EXCEPT !.bless = TRUE], NoPlan)} :
             o \in Search(mk, st, p, f)}

\* A solution is known: the plan is made again from wisdom alone.  The
\* entries of the table hold no blessing, so it comes from the planner.
UseWisdom(mk, st, p, f, sol) ==
    LET fl == [l |-> sol.l, u |-> sol.u, ti |-> sol.ti, bless |-> f.bless]
    IN  IF sol.slv \notin SolversOf(p) THEN Bogus(st)
        ELSE UNION {IF o.st.ws = "bogus" \/ o.pln = NoPlan THEN Bogus(o.st)
                    ELSE {Remember([o.st EXCEPT !.ws = st.ws], p, fl, sol.slv)} :
                      o \in InvokeSolver(mk, [st EXCEPT !.ws = "only"], sol.slv, fl)}

\* mkplan of planner.c.
MkPlan(mk, st, p, flags) ==
    LET f == IF Estimate \in flags.u THEN [flags EXCEPT !.ti = 0] ELSE flags
        st0 == [st EXCEPT !.timed = FALSE]
        sols == IF st.ws = "ignore_all" THEN {} ELSE HLookup(st, p, f)
    IN  IF st.ws = "bogus" THEN {[st |-> st, pln |-> NoPlan]}
        ELSE IF sols = {} THEN DoSearch(mk, st0, p, f)
        ELSE UNION {IF sol.slv # Infeasible THEN UseWisdom(mk, st0, p, f, sol)
                    ELSE IF st.ws = "ignore_infeasible" THEN DoSearch(mk, st0, p, f)
                    ELSE {[st |-> st0, pln |-> NoPlan]} : sol \in sols}

\* mkplan with at most n levels of sub-problems; no outcome if there are more.
MkPlanAt[n \in 0 .. Depth] ==
    [c \in Calls |-> IF n = 0 THEN {} ELSE MkPlan(MkPlanAt[n - 1], c[1], c[2], c[3])]

-----------------------------------------------------------------------------
(* api/apiplan.c *)

MkPlan0(st, p, pat, bless, ws) ==
    MkPlanAt[Depth][<<[st EXCEPT !.ws = ws], p,
                      [l |-> {}, u |-> Pats[pat], ti |-> st.limit, bless |-> bless]>>]

ForgetEverything(st) == [st EXCEPT !.blessed = {}, !.unblessed = {}]

\* mkplan of apiplan.c: again with the estimator if the planner found nothing,
\* again without wisdom if the wisdom was inconsistent.
Retry(o, p, bless) ==
    IF o.st.ws = "normal" /\ o.pln = NoPlan
    THEN MkPlan0(o.st, p, 1, bless, "ignore_infeasible") ELSE {o}

\* Mutant: inconsistent wisdom is not forgotten before planning again.
AgainRemembering(o, p, pat, bless) ==
    IF o.st.ws # "bogus" THEN {o} ELSE MkPlan0(o.st, p, pat, bless, "normal")

Again(o, p, pat, bless) ==
    IF o.st.ws # "bogus" THEN {o}
    ELSE UNION {IF n.st.ws # "bogus" THEN {n}
                ELSE MkPlan0(ForgetEverything(n.st), p, 1, bless, "ignore_all") :
                  n \in MkPlan0(ForgetEverything(o.st), p, pat, bless, "normal")}

ApiMkPlan(st, p, pat, bless) ==
    UNION {UNION {Again(r, p, pat, bless) : r \in Retry(o, p, bless)} :
             o \in MkPlan0(st, p, pat, bless, "normal")}

\* The loop of mkapiplan, left when there is no plan: `used` is the patience of
\* the last plan, 0 if none.
Patience == [st : States, used : 0 .. Len(Pats), go : BOOLEAN]

TryPat(p, first, pat, o) ==
    IF pat < first \/ ~o.go THEN {o}
    ELSE {[st |-> r.st, used |-> IF r.pln = NoPlan THEN o.used ELSE pat,
           go |-> r.pln # NoPlan] : r \in ApiMkPlan(o.st, p, pat, FALSE)}

Patiently(st, p, first, pat_max) ==
    Loop(pat_max, [st |-> st, used |-> 0, go |-> TRUE],
         [pat \in 1 .. pat_max |-> [o \in Patience |-> TryPat(p, first, pat, o)]])

\* The plan is made again from wisdom, with blessing.  mkapiplan uses what
\* it gets without a test.
Recreate(st, p, used) ==
    IF used = 0 THEN {[st |-> st, result |-> None]}
    ELSE {[st |-> r.st, result |-> IF r.pln = NoPlan THEN "crash" ELSE "plan"] :
            r \in ApiMkPlan(st, p, used, TRUE)}

MkApiPlan(st, p, pat_max) ==
    UNION {Recreate(o.st, p, o.used) :
             o \in Patiently(st, p, IF st.limit # 0 THEN 1 ELSE pat_max, pat_max)}

\* FFTW_WISDOM_ONLY.
MkWisdomOnly(st, p, pat) ==
    UNION {Recreate(o.st, p, IF o.pln = NoPlan THEN 0 ELSE pat) :
             o \in MkPlan0(st, p, pat, FALSE, "only")}

-----------------------------------------------------------------------------
\* The planner at the beginning of a call; forget(FORGET_ACCURSED) ended the
\* one before.
Ready(limit) ==
    [blessed |-> blessed, unblessed |-> {}, ws |-> "normal", timed |-> FALSE,
     need |-> TRUE, late |-> FALSE, limit |-> limit, illegal |-> FALSE]

NoCall == [op |-> "none", illegal |-> FALSE]

Init == blessed = {} /\ sound = TRUE /\ last = NoCall

Returned(op, p, pat, o) ==
    /\ blessed' = o.st.blessed
    /\ last' = [op |-> op, p |-> p, pat |-> pat, result |-> o.result,
                limit |-> o.st.limit, illegal |-> o.st.illegal]

Plan(p, pat, limit) ==
    /\ \E o \in MkApiPlan(Ready(limit), p, pat) : Returned("plan", p, pat, o)
    /\ UNCHANGED sound

PlanWisdomOnly(p, pat, limit) ==
    /\ \E o \in MkWisdomOnly(Ready(limit), p, pat) : Returned("wisdom only", p, pat, o)
    /\ UNCHANGED sound

ForgetWisdom ==
    /\ blessed' = {} /\ sound' = TRUE /\ last' = NoCall

\* imprt, one line of the file: an entry that is known is left out.
Import(e) ==
    /\ Answers(blessed, e.key, e) = {}
    /\ blessed' = Inserted(blessed, e)
    /\ sound' = FALSE
    /\ last' = NoCall

Next ==
    \/ \E p \in Requested, pat \in DOMAIN Pats, limit \in Limits :
         Plan(p, pat, limit) \/ PlanWisdomOnly(p, pat, limit)
    \/ ForgetWisdom
    \/ \E e \in Importable : Import(e)

Spec == Init /\ [][Next]_vars

-----------------------------------------------------------------------------
(* Properties *)

\* Reference: the solvers that make a plan with at most n levels of sub-plans,
\* and the flags l under which they do, the sub-problems being solved under the
\* flags that the solver hands down.
PlansAt[n \in 0 .. Depth] ==
    IF n = 0 THEN {}
    ELSE {x \in AllSolvers \X SUBSET Flags :
            /\ Rejects[x[1]] \cap x[2] = {}
            /\ \A c \in ChildrenOf(x[1]) : \E t \in SolversOf(c.p) :
                 <<t, (x[2] \ c.reset) \cup c.lset>> \in PlansAt[n - 1]}

Plannable(s, f) == <<s, f.l>> \in PlansAt[Depth]

Solvable(p, f) == \E s \in SolversOf(p) : Plannable(s, f)

AnyPlan == [l |-> {}, u |-> {}]

\* The planner finds a plan if and only if the problem has one, with foreign
\* wisdom and whenever time runs out.  apiplan.c:133-136 makes that plan again
\* from wisdom and uses what it gets without a test: it does get a plan if all
\* wisdom is the planner's own or there is no time limit.  (Otherwise the wisdom
\* can turn out inconsistent at this point, and time run out in the search
\* that replaces it.)
PlansAreMade ==
    /\ last.op = "plan" => (last.result # None <=> Solvable(last.p, AnyPlan))
    /\ last.op \in {"plan", "wisdom only"} /\ (sound \/ last.limit = 0) => last.result # "crash"

\* What is remembered suffices to make the plan again: after a call without
\* a time limit the same request succeeds with FFTW_WISDOM_ONLY, unless a
\* foreign entry calls the problem infeasible.
WisdomSuffices ==
    sound /\ last.op = "plan" /\ last.result = "plan" /\ last.limit = 0 =>
        \A o \in MkWisdomOnly(Ready(0), last.p, last.pat) : o.result = "plan"

\* ifftw.h:614-621, the interpretation of L and U, for the wisdom the planner
\* found itself: a solution is made of plans at least as impatient as L, and
\* a problem recorded as infeasible has no such plan.
WisdomIsTrue ==
    sound => \A e \in blessed :
                IF e.slv # Infeasible THEN Plannable(e.slv, e)
                ELSE e.ti = 0 => ~Solvable(e.key, e)

\* The assertion of planner.c:368-370, as long as all wisdom is the planner's
\* own: what mkplan inserts is not subsumed.
InsertsAreNew == sound => ~last.illegal
=============================================================================
