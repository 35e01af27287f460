----------------------------- MODULE PlannerProofs -----------------------------
(***************************************************************************)
(* The planner of FFTW finds a plan exactly for the problems that have     *)
(* one, and without foreign wisdom what it remembers is true and suffices  *)
(* to plan again, for every library of solvers, every set of flags and     *)
(* every sequence of calls.                                                *)
(*                                                                         *)
(* mkplan calls itself through the solvers; the proof shows by induction   *)
(* over the depth of the sub-problems that it answers (IsMkPlan), function *)
(* by function in the order of Planner, then goes through the retries of   *)
(* the API to the invariant PlannerInv.                                    *)
(***************************************************************************)
EXTENDS Planner, FiniteSetTheorems, WellFoundedInduction, TLAPS

-----------------------------------------------------------------------------
(* Loops                                                                   *)

\* A set of naturals that is not empty has a least element.
LEMMA Least ==
  ASSUME NEW T \in SUBSET Nat, T # {} PROVE \E x \in T : \A y \in T : x <= y
<1>1. ASSUME NEW R, R = {ss \in Nat \X Nat : ss[1] < ss[2]}, IsWellFoundedOn(R, Nat)
      PROVE  \E x \in T : \A y \in T : x <= y
  <2>1. PICK x \in T : \A y \in T : ~ (<<y, x>> \in R)
    BY <1>1, WFMin
  <2>2. ASSUME NEW y \in T PROVE x <= y
    <3>1. ~ (<<y, x>>[1] < <<y, x>>[2])
      BY <1>1, <2>1
    <3>2. QED
      BY <3>1
  <2>3. QED
    BY <2>2
<1>2. OpToRel(<, Nat) = {ss \in Nat \X Nat : ss[1] < ss[2]}
  BY DEF OpToRel
<1>3. IsWellFoundedOn(OpToRel(<, Nat), Nat)
  BY NatLessThanWellFounded
<1>4. QED
  BY <1>1, <1>2, <1>3, Zenon

\* A set that a loop cannot leave.
LEMMA LoopStaysIn ==
  ASSUME NEW N \in Nat, NEW S, 0 \in S, \A k \in 1..N : k - 1 \in S => k \in S
  PROVE  \A k \in 0..N : k \in S
<1>1. PICK T : T = {k \in 0..N : k \notin S}
  OBVIOUS
<1>2. SUFFICES ASSUME T # {} PROVE FALSE
  BY <1>1
<1>3. PICK k \in T : \A j \in T : k <= j
  <2>1. T \in SUBSET Nat
    BY <1>1
  <2>2. QED
    BY <1>2, <2>1, Least
<1>4. k \in 1..N /\ k \notin S
  BY <1>1, <1>3
<1>5. k - 1 \notin T /\ k - 1 \in 0..N
  BY <1>3, <1>4
<1>6. QED
  BY <1>1, <1>4, <1>5

\* A loop whose body is a function of its counter and its state has a run.
LoopRun(N, V, a, body, f) ==
  /\ f \in [0..N -> V]
  /\ f[0] = a
  /\ \A k \in 1..N : f[k] = body[k, f[k - 1]]

\* Such a run exists, whatever the body.
LEMMA LoopRuns ==
  ASSUME NEW N \in Nat, NEW V, NEW a \in V, NEW body \in [(1..N) \X V -> V]
  PROVE  \E f : LoopRun(N, V, a, body, f)
<1>1. PICK S : S = {n \in 0..N : \E f : LoopRun(n, V, a, body, f)}
  OBVIOUS
<1>2. 0 \in S
  <2>1. PICK f : f = [k \in 0..0 |-> a]
    OBVIOUS
  <2>2. LoopRun(0, V, a, body, f)
    BY <2>1 DEF LoopRun
  <2>3. QED
    BY <1>1, <2>2
<1>3. ASSUME NEW n \in 1..N, n - 1 \in S PROVE n \in S
  <2> n \in Nat /\ n - 1 \in 0..(n - 1) /\ n \in 0..n /\ 0 \in 0..n /\ n # 0
    OBVIOUS
  <2>1. PICK f : LoopRun(n - 1, V, a, body, f)
    BY <1>1, <1>3
  <2>2. f \in [0..(n - 1) -> V] /\ f[0] = a
          /\ \A k \in 1..(n - 1) : f[k] = body[k, f[k - 1]]
    BY <2>1 DEF LoopRun
  <2>3. PICK g : g = [k \in 0..n |-> IF k = n THEN body[n, f[n - 1]] ELSE f[k]]
    OBVIOUS
  <2>4. f[n - 1] \in V
    BY <2>2, Zenon
  <2>5. body[n, f[n - 1]] \in V
    <3>1. <<n, f[n - 1]>> \in (1..N) \X V
      BY <2>4
    <3>2. QED
      BY <3>1
  <2>6. g \in [0..n -> V]
    <3>1. ASSUME NEW k \in 0..n PROVE g[k] \in V
      <4>1. CASE k = n
        BY <2>3, <2>5, <4>1
      <4>2. CASE k # n
        <5>1. k \in 0..(n - 1)
          BY <4>2
        <5>2. f[k] \in V
          BY <2>2, <5>1, Zenon
        <5>3. QED
          BY <2>3, <4>2, <5>2
      <4>3. QED
        BY <4>1, <4>2
    <3>2. QED
      BY <2>3, <3>1
  <2>7. g[0] = a
    <3>1. g[0] = f[0]
      BY <2>3
    <3>2. QED
      BY <2>2, <3>1
  <2>8. ASSUME NEW k \in 1..n PROVE g[k] = body[k, g[k - 1]]
    <3>1. k - 1 \in 0..n /\ k - 1 # n
      OBVIOUS
    <3>2. g[k - 1] = f[k - 1]
      BY <2>3, <3>1
    <3>3. CASE k = n
      <4>1. g[n] = body[n, f[n - 1]]
        BY <2>3
      <4>2. QED
        BY <3>2, <3>3, <4>1
    <3>4. CASE k # n
      <4>1. k \in 1..(n - 1) /\ k \in 0..n
        BY <3>4
      <4>2. g[k] = f[k]
        BY <2>3, <3>4, <4>1
      <4>3. f[k] = body[k, f[k - 1]]
        BY <2>2, <4>1
      <4>4. QED
        BY <3>2, <4>2, <4>3
    <3>5. QED
      BY <3>3, <3>4
  <2>9. LoopRun(n, V, a, body, g)
    BY <2>6, <2>7, <2>8, Zenon DEF LoopRun
  <2>10. QED
    BY <1>1, <2>9
<1>4. \A n \in 0..N : n \in S
  BY <1>2, <1>3, LoopStaysIn
<1>5. QED
  BY <1>1, <1>4

\* What holds before a loop and is kept by each of its rounds holds after it; J
\* relates rounds and outcomes.
LEMMA LoopKeeps ==
  ASSUME NEW n \in Nat, NEW O, NEW start \in O,
         NEW step \in [1..n -> [O -> SUBSET O]],
         NEW J, <<0, start>> \in J,
         \A k \in 1..n : \A o \in O : <<k - 1, o>> \in J => \A q \in step[k][o] : <<k, q>> \in J
  PROVE  \A q \in Loop(n, start, step) : q \in O /\ <<n, q>> \in J
<1> DEFINE Run(f) == f = [i \in 0..n |-> IF i = 0 THEN {start}
                                         ELSE UNION {step[i][o] : o \in f[i - 1]}]
<1> n \in Nat /\ \A k \in 1..n : k \in 0..n /\ k - 1 \in 0..n /\ k # 0
  OBVIOUS
<1> HIDE DEF Run
<1>1. PICK body : body = [x \in (1..n) \X SUBSET O |-> UNION {step[x[1]][o] : o \in x[2]}]
  OBVIOUS
<1>2. body \in [(1..n) \X SUBSET O -> SUBSET O]
  <2>1. ASSUME NEW i \in 1..n, NEW s \in SUBSET O PROVE UNION {step[i][o] : o \in s} \in SUBSET O
    <3>1. \A o \in s : step[i][o] \in SUBSET O
      OBVIOUS
    <3>2. QED
      BY <3>1
  <2>2. QED
    BY <1>1, <2>1
<1>3. {start} \in SUBSET O
  OBVIOUS
<1>4. PICK f : LoopRun(n, SUBSET O, {start}, body, f)
  BY <1>2, <1>3, LoopRuns
<1>5. f \in [0..n -> SUBSET O] /\ f[0] = {start} /\ \A k \in 1..n : f[k] = body[k, f[k - 1]]
  BY <1>4 DEF LoopRun
<1>6. ASSUME NEW k \in 1..n PROVE f[k] = UNION {step[k][o] : o \in f[k - 1]}
  <2>1. f[k - 1] \in SUBSET O
    BY <1>5
  <2>2. body[k, f[k - 1]] = UNION {step[k][o] : o \in f[k - 1]}
    BY <1>1, <2>1
  <2>3. QED
    BY <1>5, <2>2
<1>7. Run(f)
  <2>1. \A i \in 0..n : f[i] = IF i = 0 THEN {start} ELSE UNION {step[i][o] : o \in f[i - 1]}
    <3>1. TAKE i \in 0..n
    <3>2. CASE i = 0
      BY <1>5, <3>2
    <3>3. CASE i # 0
      <4>1. i \in 1..n
        BY <3>3
      <4>2. QED
        BY <1>6, <3>3, <4>1
    <3>4. QED
      BY <3>2, <3>3
  <2>2. f = [i \in 0..n |-> f[i]]
    BY <1>5
  <2>3. QED
    BY <2>1, <2>2, Zenon DEF Run
<1>8. ASSUME NEW g, Run(g) PROVE \A k \in 0..n : g[k] \in SUBSET O /\ \A q \in g[k] : <<k, q>> \in J
  <2>1. PICK S : S = {k \in 0..n : g[k] \in SUBSET O /\ \A q \in g[k] : <<k, q>> \in J}
    OBVIOUS
  <2> \A i \in 0..n : g[i] = IF i = 0 THEN {start} ELSE UNION {step[i][o] : o \in g[i - 1]}
    BY <1>8 DEF Run
  <2>2. 0 \in S
    <3> 0 \in 0..n
      OBVIOUS
    <3>1. g[0] = {start}
      OBVIOUS
    <3>2. QED
      BY <2>1, <3>1
  <2>3. ASSUME NEW k \in 1..n, k - 1 \in S PROVE k \in S
    <3>1. g[k] = UNION {step[k][o] : o \in g[k - 1]}
      OBVIOUS
    <3>2. k - 1 \in 0..n /\ g[k - 1] \in SUBSET O /\ \A q \in g[k - 1] : <<k - 1, q>> \in J
      BY <2>1, <2>3
    <3>3. ASSUME NEW q \in g[k] PROVE q \in O /\ <<k, q>> \in J
      <4>1. PICK o \in g[k - 1] : q \in step[k][o]
        BY <3>1
      <4>2. o \in O /\ <<k - 1, o>> \in J
        BY <3>2, <4>1
      <4>3. step[k][o] \in SUBSET O
        BY <4>2
      <4>4. QED
        BY <4>1, <4>2, <4>3
    <3>4. QED
      BY <2>1, <3>3
  <2>4. \A k \in 0..n : k \in S
    BY <2>2, <2>3, LoopStaysIn
  <2>5. QED
    BY <2>1, <2>4
<1>9. PICK g : g = CHOOSE h : Run(h)
  OBVIOUS
<1>10. Run(g)
  BY <1>7, <1>9, Zenon
<1>11. Loop(n, start, step) = g[n]
  BY <1>9, Zenon DEF Loop, Run
<1>12. n \in 0..n
  OBVIOUS
<1>13. \A q \in g[n] : q \in O /\ <<n, q>> \in J
  BY <1>8, <1>10, <1>12
<1>14. QED
  BY <1>11, <1>13, Zenon

-----------------------------------------------------------------------------
(* Every operation of the planner stays in the planner's types.            *)

Plans == AllSolvers \cup {NoPlan}
Planners == [Calls -> SUBSET Outcomes]

\* The library, one fact at a time.
LEMMA LibraryFacts ==
  /\ Requested \subseteq Problems /\ Importable \subseteq Solutions
  /\ IsFiniteSet(Flags) /\ Estimate \in Flags /\ NoSlow \in Flags /\ NoUgly \in Flags
  /\ Limits \subseteq Nat /\ Depth \in Nat /\ Infeasible \notin AllSolvers
  /\ \A s \in AllSolvers : Rejects[s] \in SUBSET Flags
  /\ \A s \in AllSolvers : Children[s] \in Seq(SubProblems)
  /\ \A p \in Problems : Solvers[p] \in Seq(AllSolvers)
  BY LibraryAssumption

\* The rounds of the loops over the solvers and over the sub-problems.
LEMMA LibraryLoops ==
  /\ \A p \in Problems : /\ Len(Solvers[p]) \in Nat /\ SolversOf(p) \in SUBSET AllSolvers
                         /\ \A i \in 1..Len(Solvers[p]) : Solvers[p][i] \in SolversOf(p)
  /\ \A s \in AllSolvers : /\ Len(Children[s]) \in Nat /\ ChildrenOf(s) \in SUBSET SubProblems
                           /\ \A i \in 1..Len(Children[s]) : Children[s][i] \in ChildrenOf(s)
<1>1. ASSUME NEW p \in Problems
      PROVE  /\ Len(Solvers[p]) \in Nat /\ SolversOf(p) \in SUBSET AllSolvers
             /\ \A i \in 1..Len(Solvers[p]) : Solvers[p][i] \in SolversOf(p)
  <2>1. Solvers[p] \in Seq(AllSolvers)
    BY LibraryFacts
  <2>2. Len(Solvers[p]) \in Nat /\ \A i \in 1..Len(Solvers[p]) : Solvers[p][i] \in AllSolvers
    BY <2>1
  <2>3. QED
    BY <2>2 DEF SolversOf
<1>2. ASSUME NEW s \in AllSolvers
      PROVE  /\ Len(Children[s]) \in Nat /\ ChildrenOf(s) \in SUBSET SubProblems
             /\ \A i \in 1..Len(Children[s]) : Children[s][i] \in ChildrenOf(s)
  <2>1. Children[s] \in Seq(SubProblems)
    BY LibraryFacts
  <2>2. Len(Children[s]) \in Nat /\ \A i \in 1..Len(Children[s]) : Children[s][i] \in SubProblems
    BY <2>1
  <2>3. QED
    BY <2>2 DEF ChildrenOf
<1>3. QED
  BY <1>1, <1>2

\* An insertion changes the two tables only.
LEMMA HInsertType ==
  ASSUME NEW st \in States, NEW p \in Problems, NEW f \in FlagSets, NEW slv \in Plans
  PROVE  /\ HInsert(st, p, f, slv) \in States
         /\ Entry(p, f, slv) \in Solutions
         /\ HInsert(st, p, f, slv).blessed =
              IF f.bless THEN Inserted(st.blessed, Entry(p, f, slv)) ELSE st.blessed
         /\ HInsert(st, p, f, slv).unblessed =
              IF f.bless THEN st.unblessed ELSE Inserted(st.unblessed, Entry(p, f, slv))
         /\ HInsert(st, p, f, slv).ws = st.ws
         /\ HInsert(st, p, f, slv).timed = st.timed
         /\ HInsert(st, p, f, slv).late = st.late
         /\ HInsert(st, p, f, slv).limit = st.limit
<1>1. Entry(p, f, slv) \in Solutions
  BY DEF Entry, Solutions, FlagSets, Plans, NoPlan
<1>2. \A T \in SUBSET Solutions : Inserted(T, Entry(p, f, slv)) \in SUBSET Solutions
  BY <1>1 DEF Inserted
<1> DEFINE e == Entry(p, f, slv)
           b == Inserted(st.blessed, e)
           u == Inserted(st.unblessed, e)
           mb == ~MayInsert(st.blessed, e)
           mu == ~MayInsert(st.unblessed, e)
<1>3. b \in SUBSET Solutions /\ u \in SUBSET Solutions /\ mb \in BOOLEAN /\ mu \in BOOLEAN
  BY <1>2 DEF States, MayInsert
<1>4. HInsert(st, p, f, slv) =
        IF f.bless THEN [st EXCEPT !.blessed = b, !.illegal = @ \/ mb]
        ELSE [st EXCEPT !.unblessed = u, !.illegal = @ \/ mu]
  BY DEF HInsert
<1> HIDE DEF b, u, mb, mu
<1>5. f.bless \in BOOLEAN
  BY DEF FlagSets
<1>6. CASE f.bless
  <2>1. HInsert(st, p, f, slv) = [st EXCEPT !.blessed = b, !.illegal = @ \/ mb]
    BY <1>4, <1>6
  <2>2. QED
    BY <2>1, <1>1, <1>3, <1>6 DEF States, b, e
<1>7. CASE ~ f.bless
  <2>1. HInsert(st, p, f, slv) = [st EXCEPT !.unblessed = u, !.illegal = @ \/ mu]
    BY <1>4, <1>7
  <2>2. QED
    BY <2>1, <1>1, <1>3, <1>7 DEF States, u, e
<1>8. QED
  BY <1>5, <1>6, <1>7

\* A lookup answers with an entry of one of the tables, for the problem and the
\* flags that were asked for.
LEMMA HLookupType ==
  ASSUME NEW st \in States, NEW p \in Problems, NEW f \in FlagSets,
         NEW sol \in HLookup(st, p, f)
  PROVE  /\ sol \in Solutions /\ sol \in st.blessed \cup st.unblessed
         /\ sol.key = p /\ Subsumes(sol, f)
<1>1. \A T : \A x \in Answers(T, p, f) : x \in T /\ x.key = p /\ Subsumes(x, f)
  BY DEF Answers
<1>2. sol \in Answers(st.blessed, p, f) \/ sol \in Answers(st.unblessed, p, f)
  BY DEF HLookup
<1>3. st.blessed \subseteq Solutions /\ st.unblessed \subseteq Solutions
  BY DEF States
<1>4. QED
  BY <1>1, <1>2, <1>3

\* timeout_p: it looks at the clock, and an estimator or a planner without a
\* limit does not run out of time.
LEMMA TimeoutPType ==
  ASSUME NEW st \in States, NEW f, NEW t \in TimeoutP(st, f)
  PROVE  /\ t \in States /\ t.blessed = st.blessed /\ t.unblessed = st.unblessed
         /\ t.ws = st.ws /\ t.limit = st.limit
         /\ st.limit = 0 /\ ~st.late => ~t.late
         /\ Estimate \in f.u \/ (st.limit = 0 /\ ~st.late) => (t.timed => st.timed)
         /\ st.timed => t.timed
<1>1. CASE Estimate \in f.u
  BY <1>1 DEF TimeoutP, States
<1>2. CASE Estimate \notin f.u /\ st.timed
  BY <1>2 DEF TimeoutP, States
<1>3. CASE Estimate \notin f.u /\ ~st.timed
  <2>1. st.late \in BOOLEAN /\ (st.limit # 0) \in BOOLEAN
    BY DEF States
  <2>2. PICK l \in IF st.late THEN {TRUE} ELSE {FALSE, st.limit # 0} :
               t = [st EXCEPT !.late = l, !.timed = l, !.need = l]
    BY <1>3 DEF TimeoutP
  <2>3. l \in BOOLEAN /\ (st.limit = 0 /\ ~st.late => ~l)
    BY <2>1, <2>2
  <2>4. QED
    BY <1>3, <2>2, <2>3 DEF States
<1>4. QED
  BY <1>1, <1>2, <1>3

\* The test between two solvers changes what timeout_p does, if anything.
LEMMA CheckTimeoutType ==
  ASSUME NEW st \in States, NEW f, NEW t \in CheckTimeout(st, f)
  PROVE  /\ t \in States /\ t.blessed = st.blessed /\ t.unblessed = st.unblessed
         /\ t.ws = st.ws /\ t.limit = st.limit
         /\ st.limit = 0 /\ ~st.late => ~t.late
         /\ Estimate \in f.u \/ (st.limit = 0 /\ ~st.late) => (t.timed => st.timed)
         /\ st.timed => t.timed
<1>1. CASE st.need
  <2>1. t \in TimeoutP(st, f)
    BY <1>1 DEF CheckTimeout
  <2>2. QED
    BY <2>1, TimeoutPType
<1>2. CASE ~st.need
  BY <1>2 DEF CheckTimeout
<1>3. QED
  BY <1>1, <1>2

\* The flags of a sub-problem.
LEMMA ChildFlagsType ==
  ASSUME NEW f \in FlagSets, NEW c \in SubProblems
  PROVE  /\ ChildFlags(f, c) \in FlagSets
         /\ ChildFlags(f, c).l = (f.l \ c.reset) \cup c.lset
         /\ ChildFlags(f, c).u = (f.u \ c.reset) \cup c.uset \cup c.lset
         /\ ChildFlags(f, c).ti = f.ti /\ ChildFlags(f, c).bless = f.bless
         /\ f.l \subseteq f.u => ChildFlags(f, c).l \subseteq ChildFlags(f, c).u
         /\ Estimate \in f.u => Estimate \in ChildFlags(f, c).u
         /\ c.p \in Problems
<1> DEFINE l == (f.l \ c.reset) \cup c.lset
           u == (f.u \ c.reset) \cup c.uset \cup c.lset
<1>1. ChildFlags(f, c) = [f EXCEPT !.l = l, !.u = u]
  BY DEF ChildFlags
<1>2. Estimate \notin c.reset /\ c.p \in Problems
  BY DEF SubProblems
<1>3. l \in SUBSET Flags /\ u \in SUBSET Flags
  BY DEF FlagSets, SubProblems
<1>4. /\ f.l \subseteq f.u => l \subseteq u
      /\ Estimate \in f.u => Estimate \in u
  BY <1>2
<1>5. /\ ChildFlags(f, c) \in FlagSets
      /\ ChildFlags(f, c).l = l /\ ChildFlags(f, c).u = u
      /\ ChildFlags(f, c).ti = f.ti /\ ChildFlags(f, c).bless = f.bless
  <2> HIDE DEF l, u
  <2>1. QED
    BY <1>1, <1>3 DEF FlagSets
<1>6. QED
  BY <1>2, <1>4, <1>5

\* A loop stays in the type of its outcomes.
LEMMA LoopType ==
  ASSUME NEW n \in Nat, NEW O, NEW start \in O, NEW step \in [1..n -> [O -> SUBSET O]]
  PROVE  Loop(n, start, step) \in SUBSET O
<1>1. PICK J : J = (0..n) \X O
  OBVIOUS
<1>2. <<0, start>> \in J
  BY <1>1
<1>3. \A k \in 1..n : \A o \in O : <<k - 1, o>> \in J => \A q \in step[k][o] : <<k, q>> \in J
  <2>1. TAKE k \in 1..n
  <2>2. TAKE o \in O
  <2>3. step[k][o] \in SUBSET O /\ k \in 0..n
    OBVIOUS
  <2>4. QED
    BY <1>1, <2>3
<1>4. \A q \in Loop(n, start, step) : q \in O /\ <<n, q>> \in J
  BY <1>2, <1>3, LoopKeeps
<1>5. QED
  BY <1>4

\* Outcomes are pairs of a state and a plan,
LEMMA OutcomeType ==
  ASSUME NEW st \in States, NEW pln \in Plans
  PROVE  [st |-> st, pln |-> pln] \in Outcomes
  BY DEF Outcomes, Plans

\* An outcome is nothing but a state and a plan.
LEMMA OutcomeParts ==
  ASSUME NEW o \in Outcomes PROVE o.st \in States /\ o.pln \in Plans
  BY DEF Outcomes, Plans

\* A bogus outcome has no plan and differs in the wisdom state only.
LEMMA BogusType ==
  ASSUME NEW st \in States, NEW o \in Bogus(st)
  PROVE  /\ o \in Outcomes /\ o.pln = NoPlan /\ o.st = [st EXCEPT !.ws = "bogus"]
         /\ o.st \in States
  BY DEF Bogus, States, Outcomes

\* A sub-problem, given any planner for it, leaves an outcome.
LEMMA MkChildType ==
  ASSUME NEW mk \in Planners, NEW s \in AllSolvers, NEW f \in FlagSets, NEW c \in SubProblems,
         NEW o \in Outcomes
  PROVE  MkChild(mk, s, f, c, o) \in SUBSET Outcomes
<1>1. o.st \in States
  BY OutcomeParts
<1>2. ChildFlags(f, c) \in FlagSets /\ c.p \in Problems
  BY ChildFlagsType
<1>3. <<o.st, c.p, ChildFlags(f, c)>> \in Calls
  BY <1>1, <1>2 DEF Calls
<1>4. mk[<<o.st, c.p, ChildFlags(f, c)>>] \in SUBSET Outcomes
  BY <1>3 DEF Planners
<1>5. \A r \in mk[<<o.st, c.p, ChildFlags(f, c)>>] :
        [st |-> r.st, pln |-> IF r.pln = NoPlan THEN NoPlan ELSE s] \in Outcomes
  BY <1>4, OutcomeParts, OutcomeType DEF Plans
<1>6. QED
  BY <1>5 DEF MkChild

\* The rounds over the sub-problems of a solver.
ChildRounds(mk, s, f) ==
    [i \in 1 .. Len(Children[s]) |-> [o \in Outcomes |-> MkChild(mk, s, f, Children[s][i], o)]]

\* A round over a solver's sub-problems (X(mkplan_d) for each) yields outcomes.
LEMMA ChildRoundsType ==
  ASSUME NEW mk \in Planners, NEW s \in AllSolvers, NEW f \in FlagSets
  PROVE  ChildRounds(mk, s, f) \in [1..Len(Children[s]) -> [Outcomes -> SUBSET Outcomes]]
<1>1. \A i \in 1..Len(Children[s]) : Children[s][i] \in SubProblems
  BY LibraryLoops
<1>2. \A i \in 1..Len(Children[s]) : \A o \in Outcomes :
        MkChild(mk, s, f, Children[s][i], o) \in SUBSET Outcomes
  BY <1>1, MkChildType
<1>3. QED
  BY <1>2 DEF ChildRounds

\* A solver asked for a plan yields outcomes.
LEMMA InvokeSolverType ==
  ASSUME NEW mk \in Planners, NEW st \in States, NEW s \in AllSolvers, NEW f \in FlagSets
  PROVE  /\ InvokeSolver(mk, st, s, f) \in SUBSET Outcomes
         /\ [f EXCEPT !.ti = 0] \in FlagSets
<1>1. [f EXCEPT !.ti = 0] \in FlagSets
  BY DEF FlagSets
<1>2. s \in Plans /\ NoPlan \in Plans
  BY DEF Plans
<1>3. [st |-> st, pln |-> s] \in Outcomes /\ [st |-> st, pln |-> NoPlan] \in Outcomes
  BY <1>2, OutcomeType
<1>4. PICK g \in FlagSets : g = [f EXCEPT !.ti = 0]
  BY <1>1
<1>5. PICK step \in [1..Len(Children[s]) -> [Outcomes -> SUBSET Outcomes]] :
        step = ChildRounds(mk, s, g)
  BY ChildRoundsType
<1>6. Len(Children[s]) \in Nat
  BY LibraryLoops
<1>7. Loop(Len(Children[s]), [st |-> st, pln |-> s], step) \in SUBSET Outcomes
  BY <1>3, <1>6, LoopType
<1>8. MkChildren(mk, st, s, g) = Loop(Len(Children[s]), [st |-> st, pln |-> s], step)
  BY <1>5 DEF MkChildren, ChildRounds
<1>9. QED
  BY <1>1, <1>3, <1>4, <1>7, <1>8 DEF InvokeSolver

\* A solver whose plan is compared with the best so far yields outcomes.
LEMMA TrySolverType ==
  ASSUME NEW mk \in Planners, NEW s \in AllSolvers, NEW f \in FlagSets, NEW o \in Outcomes
  PROVE  TrySolver(mk, s, f, o) \in SUBSET Outcomes
<1>1. SUFFICES ASSUME ~o.st.timed, NEW r \in InvokeSolver(mk, o.st, s, f),
                      NEW t \in CheckTimeout(r.st, f), NEW q,
                      q \in IF t.timed THEN {[st |-> t, pln |-> NoPlan]}
                            ELSE IF r.pln = NoPlan THEN {[st |-> t, pln |-> o.pln]}
                            ELSE IF o.pln = NoPlan THEN {[st |-> t, pln |-> s]}
                            ELSE {[st |-> [t EXCEPT !.need = @ \/ Estimate \notin f.u], pln |-> b] :
                                    b \in {o.pln, s}}
               PROVE  q \in Outcomes
  BY DEF TrySolver
<1>2. o.st \in States /\ o.pln \in Plans
  BY OutcomeParts
<1>3. r \in Outcomes
  BY <1>2, InvokeSolverType
<1>4. r.st \in States
  BY <1>3, OutcomeParts
<1>5. t \in States
  BY <1>4, CheckTimeoutType
<1>6. [t EXCEPT !.need = @ \/ Estimate \notin f.u] \in States
  BY <1>5 DEF States
<1>7. s \in Plans /\ NoPlan \in Plans
  BY DEF Plans
<1>8. QED
  BY <1>1, <1>2, <1>5, <1>6, <1>7, OutcomeType

\* The rounds over the solvers of a problem.
SolverRounds(mk, p, f) ==
    [i \in 1 .. Len(Solvers[p]) |-> [o \in Outcomes |-> TrySolver(mk, Solvers[p][i], f, o)]]

\* A round over the solvers (FORALL_SOLVERS_OF_KIND in search0) yields outcomes.
LEMMA SolverRoundsType ==
  ASSUME NEW mk \in Planners, NEW p \in Problems, NEW f \in FlagSets
  PROVE  SolverRounds(mk, p, f) \in [1..Len(Solvers[p]) -> [Outcomes -> SUBSET Outcomes]]
<1>1. \A i \in 1..Len(Solvers[p]) : Solvers[p][i] \in AllSolvers
  BY LibraryLoops
<1>2. \A i \in 1..Len(Solvers[p]) : \A o \in Outcomes :
        TrySolver(mk, Solvers[p][i], f, o) \in SUBSET Outcomes
  BY <1>1, TrySolverType
<1>3. QED
  BY <1>2 DEF SolverRounds

\* search0 under one set of flags yields outcomes.
LEMMA Search0Type ==
  ASSUME NEW mk \in Planners, NEW st \in States, NEW p \in Problems, NEW f \in FlagSets
  PROVE  Search0(mk, st, p, f) \in SUBSET Outcomes
<1>1. ASSUME NEW t \in TimeoutP(st, f)
      PROVE  /\ [st |-> t, pln |-> NoPlan] \in Outcomes
             /\ Loop(Len(Solvers[p]), [st |-> t, pln |-> NoPlan], SolverRounds(mk, p, f))
                  \in SUBSET Outcomes
  <2>1. t \in States
    BY TimeoutPType
  <2>2. [st |-> t, pln |-> NoPlan] \in Outcomes
    BY <2>1, OutcomeType DEF Plans
  <2>3. PICK step \in [1..Len(Solvers[p]) -> [Outcomes -> SUBSET Outcomes]] :
          step = SolverRounds(mk, p, f)
    BY SolverRoundsType
  <2>4. Len(Solvers[p]) \in Nat
    BY LibraryLoops
  <2>5. Loop(Len(Solvers[p]), [st |-> t, pln |-> NoPlan], step) \in SUBSET Outcomes
    BY <2>2, <2>4, LoopType
  <2>6. QED
    BY <2>2, <2>3, <2>5
<1>2. Search0(mk, st, p, f) =
        UNION {IF t.timed THEN {[st |-> t, pln |-> NoPlan]}
               ELSE Loop(Len(Solvers[p]), [st |-> t, pln |-> NoPlan], SolverRounds(mk, p, f)) :
                 t \in TimeoutP(st, f)}
  BY DEF Search0, SolverRounds
<1>3. QED
  BY <1>1, <1>2

\* The values of l in a search.
LEMMA ImpatienceType ==
  ASSUME NEW f \in FlagSets, NEW i \in 1..4
  PROVE  /\ Impatience(f, i) \in SUBSET Flags
         /\ [f EXCEPT !.l = Impatience(f, i)] \in FlagSets
         /\ f.l \subseteq f.u => f.l \subseteq Impatience(f, i) /\ Impatience(f, i) \subseteq f.u
         /\ Impatience(f, 4) = f.l
<1>1. Len(RelaxTab) = 3
  BY DEF RelaxTab
<1>2. f.l \in SUBSET Flags /\ f.u \in SUBSET Flags
  BY DEF FlagSets
<1> DEFINE Within == /\ Impatience(f, i) \in SUBSET Flags
                     /\ f.l \subseteq f.u => f.l \subseteq Impatience(f, i)
                                            /\ Impatience(f, i) \subseteq f.u
<1>3. ASSUME i > Len(RelaxTab) PROVE Within
  <2>1. Impatience(f, i) = f.l
    BY <1>3 DEF Impatience
  <2>2. QED
    BY <1>2, <2>1
<1>4. ASSUME ~ (i > Len(RelaxTab)) PROVE Within
  <2>1. Impatience(f, i) = f.u \ ((UNION {RelaxTab[j] : j \in 1..i}) \ f.l)
    BY <1>4 DEF Impatience
  <2>2. \A x \in Impatience(f, i) : x \in f.u
    BY <2>1
  <2>3. \A x \in f.u : x \in f.l => x \in Impatience(f, i)
    BY <2>1
  <2>4. QED
    BY <1>2, <2>2, <2>3
<1>5. Impatience(f, i) \in SUBSET Flags
  BY <1>2, <1>3, <1>4
<1>6. f.l \subseteq f.u => f.l \subseteq Impatience(f, i) /\ Impatience(f, i) \subseteq f.u
  BY <1>3, <1>4
<1>7. Impatience(f, 4) = f.l
  <2>1. 4 > Len(RelaxTab)
    BY <1>1
  <2>2. QED
    BY <2>1 DEF Impatience
<1>8. [f EXCEPT !.l = Impatience(f, i)] \in FlagSets
  BY <1>5 DEF FlagSets
<1>9. QED
  BY <1>5, <1>6, <1>7, <1>8

\* A search with relaxed flags also says under which flags it ended;
LEMMA SearchAgainType ==
  ASSUME NEW mk \in Planners, NEW p \in Problems, NEW f \in FlagSets, NEW i \in 1..4,
         NEW o \in Searched
  PROVE  SearchAgain(mk, p, f, i, o) \in SUBSET Searched
<1>1. o.st \in States
  BY DEF Searched
<1>2. [f EXCEPT !.l = Impatience(f, i)] \in FlagSets /\ Impatience(f, i) \in SUBSET Flags
  BY ImpatienceType
<1>3. Search0(mk, o.st, p, [f EXCEPT !.l = Impatience(f, i)]) \in SUBSET Outcomes
  BY <1>1, <1>2, Search0Type
<1>4. \A r \in Search0(mk, o.st, p, [f EXCEPT !.l = Impatience(f, i)]) :
        [st |-> r.st, pln |-> r.pln, l |-> Impatience(f, i)] \in Searched
  BY <1>2, <1>3, OutcomeParts DEF Searched, Plans
<1>5. QED
  BY <1>4 DEF SearchAgain

\* The rounds of the search that relax the impatience.
SearchRounds(mk, p, f) ==
    [i \in 1..4 |-> [o \in Searched |-> SearchAgain(mk, p, f, i, o)]]

\* search, with every relaxation of the flags, yields outcomes.
LEMMA SearchType ==
  ASSUME NEW mk \in Planners, NEW st \in States, NEW p \in Problems, NEW f \in FlagSets
  PROVE  /\ SearchRounds(mk, p, f) \in [1..4 -> [Searched -> SUBSET Searched]]
         /\ [st |-> st, pln |-> NoPlan, l |-> f.u] \in Searched
         /\ Search(mk, st, p, f) = Loop(4, [st |-> st, pln |-> NoPlan, l |-> f.u],
                                        SearchRounds(mk, p, f))
         /\ Search(mk, st, p, f) \in SUBSET Searched
<1>1. SearchRounds(mk, p, f) \in [1..4 -> [Searched -> SUBSET Searched]]
  BY SearchAgainType DEF SearchRounds
<1>2. [st |-> st, pln |-> NoPlan, l |-> f.u] \in Searched
  BY DEF Searched, FlagSets
<1>3. Len(RelaxTab) + 1 = 4
  BY DEF RelaxTab
<1>4. Search(mk, st, p, f) = Loop(4, [st |-> st, pln |-> NoPlan, l |-> f.u],
                                  SearchRounds(mk, p, f))
  BY <1>3, Zenon DEF Search, SearchRounds
<1>5. PICK step \in [1..4 -> [Searched -> SUBSET Searched]] : step = SearchRounds(mk, p, f)
  BY <1>1
<1>6. Loop(4, [st |-> st, pln |-> NoPlan, l |-> f.u], step) \in SUBSET Searched
  BY <1>2, LoopType
<1>7. QED
  BY <1>1, <1>2, <1>4, <1>5, <1>6

\* What is remembered leaves an outcome,
LEMMA RememberType ==
  ASSUME NEW st \in States, NEW p \in Problems, NEW f \in FlagSets, NEW slv \in Plans
  PROVE  Remember(st, p, f, slv) \in Outcomes
<1>1. HInsert(st, p, f, slv) \in States
  BY HInsertType
<1>2. QED
  BY <1>1, OutcomeType DEF Remember

\* A search whose answer is remembered yields outcomes.
LEMMA DoSearchType ==
  ASSUME NEW mk \in Planners, NEW st \in States, NEW p \in Problems, NEW f \in FlagSets
  PROVE  DoSearch(mk, st, p, f) \in SUBSET Outcomes
<1>1. Bogus(st) \in SUBSET Outcomes
  BY BogusType
<1>2. ASSUME NEW o \in Search(mk, st, p, f)
      PROVE  /\ Bogus(o.st) \in SUBSET Outcomes
             /\ Remember(o.st, p, [[f EXCEPT !.l = o.l] EXCEPT !.ti = 0], o.pln) \in Outcomes
             /\ [st |-> o.st, pln |-> NoPlan] \in Outcomes
             /\ Remember(o.st, p, [[f EXCEPT !.l = o.l] EXCEPT !.bless = TRUE], NoPlan) \in Outcomes
  <2>1. o.st \in States /\ o.pln \in Plans /\ o.l \in SUBSET Flags
    <3>1. o \in Searched
      BY SearchType
    <3>2. QED
      BY <3>1 DEF Searched, Plans
  <2>2. NoPlan \in Plans
    BY DEF Plans
  <2>3. /\ [[f EXCEPT !.l = o.l] EXCEPT !.ti = 0] \in FlagSets
        /\ [[f EXCEPT !.l = o.l] EXCEPT !.bless = TRUE] \in FlagSets
    BY <2>1 DEF FlagSets
  <2>4. QED
    BY <2>1, <2>2, <2>3, BogusType, RememberType, OutcomeType
<1>3. QED
  BY <1>1, <1>2 DEF DoSearch

\* The flags that an entry hands to its solver.
EntryFlags(sol, f) == [l |-> sol.l, u |-> sol.u, ti |-> sol.ti, bless |-> f.bless]

\* A plan re-created from an entry is an outcome: the entry's flags are flags of a call.
LEMMA UseWisdomType ==
  ASSUME NEW mk \in Planners, NEW st \in States, NEW p \in Problems, NEW f \in FlagSets,
         NEW sol \in Solutions, sol.slv # Infeasible
  PROVE  /\ UseWisdom(mk, st, p, f, sol) \in SUBSET Outcomes
         /\ EntryFlags(sol, f) \in FlagSets
<1>1. EntryFlags(sol, f) \in FlagSets
  BY DEF EntryFlags, FlagSets, Solutions
<1>2. Bogus(st) \in SUBSET Outcomes
  BY BogusType
<1>3. sol.slv \in AllSolvers
  BY DEF Solutions
<1>4. [st EXCEPT !.ws = "only"] \in States
  BY DEF States
<1>5. ASSUME NEW o \in InvokeSolver(mk, [st EXCEPT !.ws = "only"], sol.slv, EntryFlags(sol, f))
      PROVE  /\ Bogus(o.st) \in SUBSET Outcomes
             /\ Remember([o.st EXCEPT !.ws = st.ws], p, EntryFlags(sol, f), sol.slv) \in Outcomes
  <2>1. o \in Outcomes
    BY <1>1, <1>3, <1>4, InvokeSolverType
  <2>2. o.st \in States
    BY <2>1, OutcomeParts
  <2>3. [o.st EXCEPT !.ws = st.ws] \in States
    BY <2>2 DEF States
  <2>4. sol.slv \in Plans
    BY <1>3 DEF Plans
  <2>5. QED
    BY <1>1, <2>2, <2>3, <2>4, BogusType, RememberType
<1>6. QED
  BY <1>1, <1>2, <1>5 DEF UseWisdom, EntryFlags

\* mkplan as a whole yields outcomes.
LEMMA MkPlanType ==
  ASSUME NEW mk \in Planners, NEW st \in States, NEW p \in Problems, NEW flags \in FlagSets
  PROVE  MkPlan(mk, st, p, flags) \in SUBSET Outcomes
<1>1. PICK f \in FlagSets : f = IF Estimate \in flags.u THEN [flags EXCEPT !.ti = 0] ELSE flags
  BY DEF FlagSets
<1>2. PICK st0 \in States : st0 = [st EXCEPT !.timed = FALSE]
  BY DEF States
<1>3. PICK sols : sols = IF st.ws = "ignore_all" THEN {} ELSE HLookup(st, p, f)
  OBVIOUS
<1>4. sols \in SUBSET Solutions
  BY <1>3, HLookupType
<1>5. [st |-> st, pln |-> NoPlan] \in Outcomes /\ [st |-> st0, pln |-> NoPlan] \in Outcomes
  BY OutcomeType DEF Plans
<1>6. DoSearch(mk, st0, p, f) \in SUBSET Outcomes
  BY DoSearchType
<1>7. \A sol \in sols : sol.slv # Infeasible => UseWisdom(mk, st0, p, f, sol) \in SUBSET Outcomes
  BY <1>4, UseWisdomType
<1>8. MkPlan(mk, st, p, flags) =
        IF st.ws = "bogus" THEN {[st |-> st, pln |-> NoPlan]}
        ELSE IF sols = {} THEN DoSearch(mk, st0, p, f)
        ELSE UNION {IF sol.slv # Infeasible THEN UseWisdom(mk, st0, p, f, sol)
                    ELSE IF st.ws = "ignore_infeasible" THEN DoSearch(mk, st0, p, f)
                    ELSE {[st |-> st0, pln |-> NoPlan]} : sol \in sols}
  BY <1>1, <1>2, <1>3 DEF MkPlan
<1>9. QED
  BY <1>5, <1>6, <1>7, <1>8

\* mkplan exists for every depth of sub-problems.
LEMMA MkPlanAtUnfolds ==
  /\ \A n \in 0..Depth : MkPlanAt[n] \in Planners
  /\ \A c \in Calls : MkPlanAt[0][c] = {}
  /\ \A n \in 1..Depth : \A c \in Calls : MkPlanAt[n][c] = MkPlan(MkPlanAt[n - 1], c[1], c[2], c[3])
<1> DEFINE Fcn(f) == f = [n \in 0..Depth |->
                            [c \in Calls |-> IF n = 0 THEN {}
                                             ELSE MkPlan(f[n - 1], c[1], c[2], c[3])]]
<1> HIDE DEF Fcn
<1>1. Depth \in Nat /\ \A k \in 1..Depth : k \in 0..Depth /\ k - 1 \in 0..Depth /\ k # 0
  BY LibraryFacts
<1>2. PICK none : none = [c \in Calls |-> {}]
  OBVIOUS
<1>3. none \in Planners
  BY <1>2 DEF Planners
<1>4. ASSUME NEW mk \in Planners
      PROVE  [c \in Calls |-> MkPlan(mk, c[1], c[2], c[3])] \in Planners
  <2>1. \A c \in Calls : MkPlan(mk, c[1], c[2], c[3]) \in SUBSET Outcomes
    <3>1. \A c \in Calls : c[1] \in States /\ c[2] \in Problems /\ c[3] \in FlagSets
      BY DEF Calls
    <3>2. QED
      BY <3>1, MkPlanType
  <2>2. QED
    BY <2>1 DEF Planners
<1>5. PICK body : body = [x \in (1..Depth) \X Planners |->
                            [c \in Calls |-> MkPlan(x[2], c[1], c[2], c[3])]]
  OBVIOUS
<1>6. body \in [(1..Depth) \X Planners -> Planners]
  BY <1>4, <1>5
<1>7. PICK f : LoopRun(Depth, Planners, none, body, f)
  BY <1>1, <1>3, <1>6, LoopRuns
<1>8. f \in [0..Depth -> Planners] /\ f[0] = none /\ \A k \in 1..Depth : f[k] = body[k, f[k - 1]]
  BY <1>7 DEF LoopRun
<1>9. ASSUME NEW k \in 1..Depth
      PROVE  f[k] = [c \in Calls |-> MkPlan(f[k - 1], c[1], c[2], c[3])]
  <2>1. f[k - 1] \in Planners /\ <<k, f[k - 1]>> \in (1..Depth) \X Planners
    BY <1>1, <1>8
  <2>2. f[k] = body[<<k, f[k - 1]>>]
    BY <1>8, Zenon
  <2>3. QED
    BY <1>5, <2>1, <2>2
<1>10. Fcn(f)
  <2>1. \A n \in 0..Depth : f[n] = [c \in Calls |-> IF n = 0 THEN {}
                                                   ELSE MkPlan(f[n - 1], c[1], c[2], c[3])]
    <3>1. TAKE n \in 0..Depth
    <3>2. CASE n = 0
      BY <1>2, <1>8, <3>2
    <3>3. CASE n # 0
      <4>1. n \in 1..Depth
        BY <1>1, <3>3
      <4>2. QED
        BY <1>9, <3>3, <4>1, Zenon
    <3>4. QED
      BY <3>2, <3>3
  <2>2. f = [n \in 0..Depth |-> f[n]]
    BY <1>8
  <2>3. QED
    BY <2>1, <2>2, Zenon DEF Fcn
<1>11. PICK g : g = CHOOSE h : Fcn(h)
  OBVIOUS
<1>12. Fcn(g)
  BY <1>10, <1>11, Zenon
<1>13. MkPlanAt = g
  BY <1>11, Zenon DEF MkPlanAt, Fcn
<1>14. g[0] = none
  <2>1. 0 \in 0..Depth
    BY <1>1
  <2>2. g[0] = [c \in Calls |-> IF 0 = 0 THEN {} ELSE MkPlan(g[0 - 1], c[1], c[2], c[3])]
    BY <1>12, <2>1, Zenon DEF Fcn
  <2>3. QED
    BY <1>2, <2>2, Zenon
<1>15. ASSUME NEW n \in 1..Depth PROVE g[n] = [c \in Calls |-> MkPlan(g[n - 1], c[1], c[2], c[3])]
  <2>1. n \in 0..Depth /\ n # 0
    BY <1>1
  <2>2. g[n] = [c \in Calls |-> IF n = 0 THEN {} ELSE MkPlan(g[n - 1], c[1], c[2], c[3])]
    BY <1>12, <2>1, Zenon DEF Fcn
  <2>3. QED
    BY <2>1, <2>2, Zenon
<1>16. \A n \in 0..Depth : g[n] \in Planners
  <2>1. PICK T : T = {n \in 0..Depth : g[n] \in Planners}
    OBVIOUS
  <2>2. 0 \in T
    BY <1>1, <1>3, <1>14, <2>1
  <2>3. \A k \in 1..Depth : k - 1 \in T => k \in T
    BY <1>1, <1>4, <1>15, <2>1
  <2>4. \A n \in 0..Depth : n \in T
    BY <1>1, <2>2, <2>3, LoopStaysIn
  <2>5. QED
    BY <2>1, <2>4
<1>17. \A c \in Calls : g[0][c] = {}
  BY <1>2, <1>14
<1>18. \A n \in 1..Depth : \A c \in Calls : g[n][c] = MkPlan(g[n - 1], c[1], c[2], c[3])
  <2>1. TAKE n \in 1..Depth
  <2>2. g[n] = [c \in Calls |-> MkPlan(g[n - 1], c[1], c[2], c[3])]
    BY <1>15
  <2>3. TAKE c \in Calls
  <2>4. QED
    BY <2>2, Zenon
<1>19. QED
  BY <1>13, <1>16, <1>17, <1>18, Zenon

-----------------------------------------------------------------------------
(* The plans that the library can make.                                    *)

\* The flags l under which a sub-problem is solved.
ChildL(l, c) == (l \ c.reset) \cup c.lset

\* The plans whose sub-problems have plans in P.
PlansOver(P) ==
    {x \in AllSolvers \X SUBSET Flags :
        /\ Rejects[x[1]] \cap x[2] = {}
        /\ \A c \in ChildrenOf(x[1]) : \E t \in SolversOf(c.p) : <<t, ChildL(x[2], c)>> \in P}

\* The reference is what its recursive definition says, depth by depth.
LEMMA PlansAtUnfolds ==
  /\ PlansAt[0] = {}
  /\ \A n \in 1..Depth : PlansAt[n] = PlansOver(PlansAt[n - 1])
<1> DEFINE Fcn(f) == f = [n \in 0..Depth |-> IF n = 0 THEN {} ELSE PlansOver(f[n - 1])]
<1> HIDE DEF Fcn
<1>1. Depth \in Nat /\ \A k \in 1..Depth : k \in 0..Depth /\ k - 1 \in 0..Depth /\ k # 0
  BY LibraryFacts
<1>2. PICK V : V = SUBSET (AllSolvers \X SUBSET Flags)
  OBVIOUS
<1>3. \A P : PlansOver(P) \in V
  BY <1>2 DEF PlansOver
<1>4. {} \in V
  BY <1>2
<1>5. PICK body : body = [x \in (1..Depth) \X V |-> PlansOver(x[2])]
  OBVIOUS
<1>6. body \in [(1..Depth) \X V -> V]
  BY <1>3, <1>5
<1>7. PICK f : LoopRun(Depth, V, {}, body, f)
  BY <1>1, <1>4, <1>6, LoopRuns
<1>8. f \in [0..Depth -> V] /\ f[0] = {} /\ \A k \in 1..Depth : f[k] = body[k, f[k - 1]]
  BY <1>7 DEF LoopRun
<1>9. ASSUME NEW k \in 1..Depth PROVE f[k] = PlansOver(f[k - 1])
  <2>1. <<k, f[k - 1]>> \in (1..Depth) \X V
    BY <1>1, <1>8
  <2>2. f[k] = body[<<k, f[k - 1]>>]
    BY <1>8, Zenon
  <2>3. QED
    BY <1>5, <2>1, <2>2
<1>10. Fcn(f)
  <2>1. \A n \in 0..Depth : f[n] = IF n = 0 THEN {} ELSE PlansOver(f[n - 1])
    <3>1. TAKE n \in 0..Depth
    <3>2. CASE n = 0
      BY <1>8, <3>2
    <3>3. CASE n # 0
      <4>1. n \in 1..Depth
        BY <1>1, <3>3
      <4>2. QED
        BY <1>9, <3>3, <4>1, Zenon
    <3>4. QED
      BY <3>2, <3>3
  <2>2. f = [n \in 0..Depth |-> f[n]]
    BY <1>8
  <2>3. QED
    BY <2>1, <2>2, Zenon DEF Fcn
<1>11. PICK g : g = CHOOSE h : Fcn(h)
  OBVIOUS
<1>12. Fcn(g)
  BY <1>10, <1>11, Zenon
<1>13. PlansAt = g
  BY <1>11, Zenon DEF PlansAt, Fcn, PlansOver, ChildL
<1>14. g[0] = {}
  <2>1. 0 \in 0..Depth
    BY <1>1
  <2>2. QED
    BY <1>12, <2>1, Zenon DEF Fcn
<1>15. ASSUME NEW n \in 1..Depth PROVE g[n] = PlansOver(g[n - 1])
  <2>1. n \in 0..Depth /\ n # 0
    BY <1>1
  <2>2. QED
    BY <1>12, <2>1, Zenon DEF Fcn
<1>16. QED
  BY <1>13, <1>14, <1>15, Zenon

\* When a solver makes a plan from sub-plans in P.
LEMMA PlansOverIff ==
  ASSUME NEW P, NEW s \in AllSolvers, NEW l \in SUBSET Flags
  PROVE  <<s, l>> \in PlansOver(P) <=>
           /\ Rejects[s] \cap l = {}
           /\ \A c \in ChildrenOf(s) : \E t \in SolversOf(c.p) : <<t, ChildL(l, c)>> \in P
<1>1. <<s, l>> \in AllSolvers \X SUBSET Flags /\ <<s, l>>[1] = s /\ <<s, l>>[2] = l
  OBVIOUS
<1>2. PICK x : x = <<s, l>>
  OBVIOUS
<1>3. QED
  BY <1>1, <1>2 DEF PlansOver

\* A sub-problem is asked for under flags of the library.
LEMMA ChildLType ==
  ASSUME NEW c \in SubProblems, NEW l \in SUBSET Flags
  PROVE  ChildL(l, c) \in SUBSET Flags
  BY DEF ChildL, SubProblems

\* Plans are pairs of a solver and flags.
LEMMA PlansAtType ==
  ASSUME NEW n \in 0..Depth, NEW x \in PlansAt[n]
  PROVE  /\ n \in 1..Depth /\ n - 1 \in 0..Depth
         /\ x[1] \in AllSolvers /\ x[2] \in SUBSET Flags /\ x = <<x[1], x[2]>>
<1>1. n \in 1..Depth /\ n - 1 \in 0..Depth
  BY PlansAtUnfolds, LibraryFacts
<1>2. x \in PlansOver(PlansAt[n - 1])
  BY <1>1, PlansAtUnfolds
<1>3. x \in AllSolvers \X SUBSET Flags
  BY <1>2 DEF PlansOver
<1>4. QED
  BY <1>1, <1>3

\* With less impatience there are more plans.
LEMMA PlansAntitone ==
  ASSUME NEW n \in 0..Depth, NEW s, NEW l, <<s, l>> \in PlansAt[n], NEW m, m \subseteq l
  PROVE  <<s, m>> \in PlansAt[n]
<1>1. PICK S : S = {k \in 0..Depth : \A t, a, b : <<t, a>> \in PlansAt[k] /\ b \subseteq a
                                                   => <<t, b>> \in PlansAt[k]}
  OBVIOUS
<1>2. 0 \in S
  BY <1>1, PlansAtUnfolds, LibraryFacts
<1>3. ASSUME NEW k \in 1..Depth, k - 1 \in S PROVE k \in S
  <2>1. k \in 0..Depth
    BY LibraryFacts
  <2>2. ASSUME NEW t, NEW a, NEW b, <<t, a>> \in PlansAt[k], b \subseteq a
        PROVE  <<t, b>> \in PlansAt[k]
    <3>1. <<t, a>> \in PlansOver(PlansAt[k - 1])
      BY <2>2, PlansAtUnfolds
    <3>2. t \in AllSolvers /\ a \in SUBSET Flags /\ b \in SUBSET Flags
      BY <2>1, <2>2, PlansAtType
    <3>3. /\ Rejects[t] \cap a = {}
          /\ \A c \in ChildrenOf(t) : \E u \in SolversOf(c.p) : <<u, ChildL(a, c)>> \in PlansAt[k - 1]
      BY <3>1, <3>2, PlansOverIff
    <3>4. \A c \in ChildrenOf(t) : ChildL(b, c) \subseteq ChildL(a, c)
      BY <2>2 DEF ChildL
    <3>5. \A c \in ChildrenOf(t) : \E u \in SolversOf(c.p) : <<u, ChildL(b, c)>> \in PlansAt[k - 1]
      BY <1>1, <1>3, <3>3, <3>4
    <3>6. Rejects[t] \cap b = {}
      BY <2>2, <3>3
    <3>7. <<t, b>> \in PlansOver(PlansAt[k - 1])
      BY <3>2, <3>5, <3>6, PlansOverIff
    <3>8. QED
      BY <3>7, PlansAtUnfolds
  <2>3. QED
    BY <1>1, <2>1, <2>2
<1>4. \A k \in 0..Depth : k \in S
  BY <1>2, <1>3, LibraryFacts, LoopStaysIn
<1>5. QED
  BY <1>1, <1>4

\* With more levels there are more plans.
LEMMA PlansGrow ==
  ASSUME NEW n \in 0..Depth PROVE PlansAt[n] \subseteq PlansAt[Depth]
<1>1. \A k \in 1..Depth : k - 1 \in 0..Depth /\ k \in 0..Depth
  BY LibraryFacts
<1>2. PICK S : S = {k \in 0..Depth : k # 0 => PlansAt[k - 1] \subseteq PlansAt[k]}
  OBVIOUS
<1>3. 0 \in S
  BY <1>2, LibraryFacts
<1>4. ASSUME NEW k \in 1..Depth, k - 1 \in S PROVE k \in S
  <2>1. PlansAt[k] = PlansOver(PlansAt[k - 1])
    BY PlansAtUnfolds
  <2>2. CASE k - 1 = 0
    <3>1. PlansAt[k - 1] = {}
      BY <2>2, PlansAtUnfolds
    <3>2. QED
      BY <1>1, <1>2, <3>1
  <2>3. CASE k - 1 # 0
    <3>1. k - 1 \in 1..Depth
      BY <2>3, LibraryFacts
    <3>2. PlansAt[k - 1] = PlansOver(PlansAt[(k - 1) - 1])
      BY <3>1, PlansAtUnfolds
    <3>3. PlansAt[(k - 1) - 1] \subseteq PlansAt[k - 1]
      BY <1>2, <1>4, <2>3
    <3>4. PlansOver(PlansAt[(k - 1) - 1]) \subseteq PlansOver(PlansAt[k - 1])
      BY <3>3 DEF PlansOver
    <3>5. QED
      BY <1>1, <1>2, <2>1, <3>2, <3>4
  <2>4. QED
    BY <2>2, <2>3
<1>5. \A k \in 0..Depth : k \in S
  BY <1>3, <1>4, LibraryFacts, LoopStaysIn
\* From n levels to Depth, one at a time.
<1>6. PICK T : T = {j \in 0..(Depth - n) : PlansAt[n] \subseteq PlansAt[n + j]}
  OBVIOUS
<1>7. Depth - n \in Nat /\ 0 \in T
  BY <1>6, LibraryFacts
<1>8. ASSUME NEW j \in 1..(Depth - n), j - 1 \in T PROVE j \in T
  <2>1. n + j \in 0..Depth /\ n + j # 0 /\ (n + j) - 1 = n + (j - 1)
    BY LibraryFacts
  <2>2. PlansAt[n + (j - 1)] \subseteq PlansAt[n + j]
    BY <1>2, <1>5, <2>1
  <2>3. QED
    BY <1>6, <1>8, <2>2
<1>9. \A j \in 0..(Depth - n) : j \in T
  BY <1>7, <1>8, LoopStaysIn
<1>10. n + (Depth - n) = Depth /\ Depth - n \in 0..(Depth - n)
  BY <1>7, LibraryFacts
<1>11. QED
  BY <1>6, <1>9, <1>10

\* A solver whose plan fails at one of its sub-problems makes no plan.
LEMMA PlanNeedsChildren ==
  ASSUME NEW s \in AllSolvers, NEW l \in SUBSET Flags, <<s, l>> \in PlansAt[Depth]
  PROVE  /\ Rejects[s] \cap l = {}
         /\ \A c \in ChildrenOf(s) : \E t \in SolversOf(c.p) :
              <<t, ChildL(l, c)>> \in PlansAt[Depth]
<1>1. Depth \in 0..Depth
  BY LibraryFacts
<1>2. Depth \in 1..Depth /\ Depth - 1 \in 0..Depth
  BY <1>1, PlansAtType
<1>3. <<s, l>> \in PlansOver(PlansAt[Depth - 1])
  BY <1>2, PlansAtUnfolds
<1>4. /\ Rejects[s] \cap l = {}
      /\ \A c \in ChildrenOf(s) : \E t \in SolversOf(c.p) : <<t, ChildL(l, c)>> \in PlansAt[Depth - 1]
  BY <1>3, PlansOverIff
<1>5. PlansAt[Depth - 1] \subseteq PlansAt[Depth]
  BY <1>2, PlansGrow
<1>6. QED
  BY <1>4, <1>5

-----------------------------------------------------------------------------
(* What the planner remembers is true, and it finds a plan if there is one. *)

\* ifftw.h:614-621 for one entry.
TrueEntry(e) ==
    IF e.slv # Infeasible THEN Plannable(e.slv, e) ELSE e.ti = 0 => ~Solvable(e.key, e)

Known(st) == st.blessed \cup st.unblessed
TrueState(st) == \A e \in Known(st) : TrueEntry(e)

\* Wisdom T has a solution for problem p under the flags l and u.
Answered(T, p, l, u) ==
    \E e \in T : e.key = p /\ e.slv # Infeasible /\ l \subseteq e.l /\ e.u \subseteq u

Remembered(st, bless, p, l, u) ==
    Answered(Known(st), p, l, u) /\ (bless => Answered(st.blessed, p, l, u))

\* The flags u of a sub-problem.
ChildU(u, c) == (u \ c.reset) \cup c.uset \cup c.lset

ChildrenAnswered(T, s, l, u) ==
    \A c \in ChildrenOf(s) : Answered(T, c.p, ChildL(l, c), ChildU(u, c))

ChildrenRemembered(st, bless, s, l, u) ==
    \A c \in ChildrenOf(s) : Remembered(st, bless, c.p, ChildL(l, c), ChildU(u, c))

\* Whoever uses an entry finds the sub-problems of its solver solved too.
Closed(T) == \A e \in T : e.slv # Infeasible => ChildrenAnswered(T, e.slv, e.l, e.u)

\* An entry that the planner made itself.
SoundEntry(e) ==
    TrueEntry(e) /\ (e.slv # Infeasible => e.ti = 0 /\ e.slv \in SolversOf(e.key))

\* The wisdom of a planner that imported none.
SoundState(st) ==
    (\A e \in Known(st) : SoundEntry(e)) /\ Closed(st.blessed) /\ Closed(Known(st))

\* What T solves, U solves.
Keeps(T, U) == \A p, l, u : Answered(T, p, l, u) => Answered(U, p, l, u)

\* There is no time limit.
OnTime(st) == st.limit = 0 /\ ~st.late

\* What no operation of the planner undoes.
Kept(st, t) ==
    /\ t.ws \in {st.ws, "bogus"} /\ (st.ws = "ignore_all" => t.ws = "ignore_all")
    /\ t.limit = st.limit /\ (OnTime(st) => OnTime(t))
    /\ TrueState(st) => TrueState(t)
    /\ SoundState(st) => SoundState(t) /\ Keeps(st.blessed, t.blessed) /\ Keeps(Known(st), Known(t))

\* mkplan asserts that L is below U; a call that may not search needs less.
Legal(st, f) == f.l \subseteq f.u \/ st.ws \in {"only", "bogus"}

\* No wrong entry says that a problem is infeasible, or such entries are ignored.
Trusted(st) == TrueState(st) \/ st.ws \in {"ignore_infeasible", "ignore_all"}

\* Time does not run out in such a call.
Calm(st, f) == Estimate \in f.u \/ st.ws \in {"only", "bogus"} \/ OnTime(st)

\* o says that there is no plan, and neither time nor the wisdom is to blame.
Fails(o) == o.pln = NoPlan /\ o.st.ws # "bogus" /\ ~o.st.timed

Unsolvable(p, l) == \A s \in SolversOf(p) : <<s, l>> \notin PlansAt[Depth]

\* What invoke_solver may answer.
SolverAnswer(n, st, s, f, o) ==
    /\ Kept(st, o.st)
    /\ o.pln \in {s, NoPlan}
    /\ o.pln # NoPlan => <<s, f.l>> \in PlansAt[n]
    /\ Calm(st, f) /\ ~st.timed => ~o.st.timed
    /\ Trusted(st) /\ Fails(o) => <<s, f.l>> \notin PlansAt[Depth]
    /\ SoundState(st) /\ o.pln # NoPlan /\ o.st.ws \in {"normal", "only"} =>
         ChildrenRemembered(o.st, f.bless, s, f.l, f.u)
    /\ SoundState(st) /\ st.ws # "bogus"
         /\ (st.ws = "only" => ChildrenAnswered(Known(st), s, f.l, f.u)) => o.st.ws # "bogus"

\* What mkplan may answer.
PlanAnswer(n, st, p, f, o) ==
    /\ Kept(st, o.st)
    /\ o.pln # NoPlan => o.pln \in SolversOf(p) /\ <<o.pln, f.l>> \in PlansAt[n]
    /\ Calm(st, f) /\ (st.ws = "bogus" => ~st.timed) => ~o.st.timed
    /\ (f.ti = 0 \/ Estimate \in f.u \/ Known(st) = {}) /\ Trusted(st) /\ Fails(o) => Unsolvable(p, f.l)
    /\ SoundState(st) /\ o.pln # NoPlan /\ o.st.ws \in {"normal", "only"} =>
         Remembered(o.st, f.bless, p, f.l, f.u)
    /\ SoundState(st) /\ st.ws # "bogus" /\ (st.ws = "only" => Answered(Known(st), p, f.l, f.u)) =>
         o.st.ws # "bogus"

\* mk is a mkplan for n levels of sub-problems.
IsMkPlan(mk, n) ==
    /\ mk \in Planners /\ n \in 0..Depth
    /\ \A st \in States, p \in Problems, f \in FlagSets :
         Legal(st, f) => \A o \in mk[<<st, p, f>>] : PlanAnswer(n, st, p, f, o)

\* Doing nothing keeps everything.
LEMMA KeptSame == \A st : Kept(st, st)
  BY DEF Kept, Keeps

\* What two operations keep, both keep one after the other.
LEMMA KeptTwice ==
  ASSUME NEW a, NEW b, NEW c, Kept(a, b), Kept(b, c) PROVE Kept(a, c)
<1>1. SoundState(a) => SoundState(c) /\ Keeps(a.blessed, c.blessed) /\ Keeps(Known(a), Known(c))
  <2>1. ASSUME NEW T, NEW U, NEW V, Keeps(T, U), Keeps(U, V) PROVE Keeps(T, V)
    BY <2>1 DEF Keeps
  <2>2. QED
    BY <2>1 DEF Kept
<1>2. QED
  BY <1>1 DEF Kept

\* Setting flags that are not the tables.
LEMMA KeptTables ==
  ASSUME NEW a, NEW b, a.blessed = b.blessed, a.unblessed = b.unblessed, a.ws = b.ws,
         a.limit = b.limit, OnTime(a) => OnTime(b)
  PROVE  Kept(a, b)
<1>1. Known(a) = Known(b)
  BY DEF Known
<1>2. \A T : Keeps(T, T)
  BY DEF Keeps
<1>3. (TrueState(a) => TrueState(b)) /\ (SoundState(a) => SoundState(b))
  BY <1>1 DEF TrueState, SoundState
<1>4. QED
  BY <1>1, <1>2, <1>3 DEF Kept

\* Wisdom that is trusted stays so until it is found bogus.
LEMMA TrustKept ==
  ASSUME NEW a, NEW b, Kept(a, b), Trusted(a), b.ws # "bogus" PROVE Trusted(b)
  BY DEF Kept, Trusted

\* q is what a solver has after one more sub-problem, o what it had before.
ChildAnswer(n, st, s, f, c, o, q) ==
    /\ Kept(st, q.st) /\ Kept(o.st, q.st) /\ q.pln \in {s, NoPlan}
    /\ Calm(st, f) /\ ~st.timed => ~q.st.timed
    /\ q.pln # NoPlan => \E t \in SolversOf(c.p) : <<t, ChildL(f.l, c)>> \in PlansAt[n - 1]
    /\ Trusted(st) /\ Fails(q) => Unsolvable(c.p, ChildL(f.l, c))
    /\ SoundState(st) /\ q.pln # NoPlan /\ q.st.ws \in {"normal", "only"} =>
         Remembered(q.st, f.bless, c.p, ChildL(f.l, c), ChildU(f.u, c))
    /\ SoundState(st) /\ o.st.ws # "bogus"
         /\ (st.ws = "only" => Answered(Known(st), c.p, ChildL(f.l, c), ChildU(f.u, c))) =>
         q.st.ws # "bogus"

\* One more sub-problem.
LEMMA ChildAnswers ==
  ASSUME NEW n \in 1..Depth, NEW mk, IsMkPlan(mk, n - 1),
         NEW st \in States, NEW s \in AllSolvers, NEW f \in FlagSets, f.ti = 0, Legal(st, f),
         NEW c \in ChildrenOf(s), NEW o \in Outcomes, Kept(st, o.st), o.pln = s,
         Calm(st, f) /\ ~st.timed => ~o.st.timed,
         NEW q \in MkChild(mk, s, f, c, o)
  PROVE  q \in Outcomes /\ ChildAnswer(n, st, s, f, c, o, q)
<1>1. mk \in Planners /\ c \in SubProblems /\ s # NoPlan /\ o.st \in States
  BY LibraryFacts, LibraryLoops, OutcomeParts DEF IsMkPlan, NoPlan
<1>2. q \in Outcomes
  BY <1>1, MkChildType
<1>3. PICK g \in FlagSets : g = ChildFlags(f, c)
  BY <1>1, ChildFlagsType
<1>4. /\ g.l = ChildL(f.l, c) /\ g.u = ChildU(f.u, c) /\ g.ti = 0 /\ g.bless = f.bless /\ c.p \in Problems
      /\ (f.l \subseteq f.u => g.l \subseteq g.u) /\ (Estimate \in f.u => Estimate \in g.u)
  BY <1>1, <1>3, ChildFlagsType DEF ChildL, ChildU
<1>5. PICK r \in mk[<<o.st, c.p, g>>] :
        q = [st |-> r.st, pln |-> IF r.pln = NoPlan THEN NoPlan ELSE s]
  BY <1>1, <1>3 DEF MkChild
<1>6. Legal(o.st, g)
  BY <1>4 DEF Legal, Kept
<1>7. PlanAnswer(n - 1, o.st, c.p, g, r)
  BY <1>1, <1>4, <1>5, <1>6 DEF IsMkPlan
<1>8. q.st = r.st /\ (q.pln = NoPlan <=> r.pln = NoPlan) /\ q.pln \in {s, NoPlan}
  BY <1>1, <1>5
<1>9. Kept(o.st, q.st)
  BY <1>7, <1>8 DEF PlanAnswer
<1>10. Kept(st, q.st)
  BY <1>9, KeptTwice
<1>11. Calm(st, f) /\ ~st.timed => ~q.st.timed
  <2>1. Calm(st, f) => Calm(o.st, g)
    BY <1>4 DEF Calm, Kept
  <2>2. QED
    BY <1>7, <1>8, <2>1 DEF PlanAnswer
<1>12. q.pln # NoPlan => \E t \in SolversOf(c.p) : <<t, ChildL(f.l, c)>> \in PlansAt[n - 1]
  BY <1>4, <1>7, <1>8 DEF PlanAnswer
<1>13. Trusted(st) /\ Fails(q) => Unsolvable(c.p, ChildL(f.l, c))
  <2>1. SUFFICES ASSUME Trusted(st), Fails(q) PROVE Unsolvable(c.p, g.l)
    BY <1>4
  <2>2. Fails(r)
    BY <1>8, <2>1 DEF Fails
  <2>3. o.st.ws # "bogus"
    BY <1>9, <2>1 DEF Kept, Fails
  <2>4. Trusted(o.st)
    BY <2>1, <2>3, TrustKept
  <2>5. QED
    BY <1>4, <1>7, <2>2, <2>4 DEF PlanAnswer
<1>14. SoundState(st) /\ q.pln # NoPlan /\ q.st.ws \in {"normal", "only"} =>
         Remembered(q.st, f.bless, c.p, ChildL(f.l, c), ChildU(f.u, c))
  <2>1. SoundState(st) => SoundState(o.st)
    BY DEF Kept
  <2>2. QED
    BY <1>4, <1>7, <1>8, <2>1 DEF PlanAnswer
<1>15. SoundState(st) /\ o.st.ws # "bogus"
         /\ (st.ws = "only" => Answered(Known(st), c.p, ChildL(f.l, c), ChildU(f.u, c))) =>
         q.st.ws # "bogus"
  <2>1. SUFFICES ASSUME SoundState(st), o.st.ws # "bogus",
                        st.ws = "only" => Answered(Known(st), c.p, g.l, g.u)
                 PROVE  q.st.ws # "bogus"
    BY <1>4
  <2>2. SoundState(o.st) /\ Keeps(Known(st), Known(o.st)) /\ o.st.ws = st.ws
    BY <2>1 DEF Kept
  <2>3. o.st.ws = "only" => Answered(Known(o.st), c.p, g.l, g.u)
    BY <2>1, <2>2 DEF Keeps
  <2>4. QED
    BY <1>7, <1>8, <2>1, <2>2, <2>3 DEF PlanAnswer
<1>16. QED
  BY <1>2, <1>8, <1>9, <1>10, <1>11, <1>12, <1>13, <1>14, <1>15 DEF ChildAnswer

\* The first k sub-problems of solver s.
SubPlans(n, st, s, f, k, o) ==
    /\ Kept(st, o.st) /\ o.pln \in {s, NoPlan}
    /\ Calm(st, f) /\ ~st.timed => ~o.st.timed
    /\ o.pln # NoPlan =>
         \A i \in 1..k : \E t \in SolversOf(Children[s][i].p) :
           <<t, ChildL(f.l, Children[s][i])>> \in PlansAt[n - 1]
    /\ Trusted(st) /\ Fails(o) => \E c \in ChildrenOf(s) : Unsolvable(c.p, ChildL(f.l, c))
    /\ SoundState(st) /\ o.pln # NoPlan /\ o.st.ws \in {"normal", "only"} =>
         \A i \in 1..k : Remembered(o.st, f.bless, Children[s][i].p,
                                    ChildL(f.l, Children[s][i]), ChildU(f.u, Children[s][i]))
    /\ SoundState(st) /\ st.ws # "bogus"
         /\ (st.ws = "only" => ChildrenAnswered(Known(st), s, f.l, f.u)) => o.st.ws # "bogus"

\* What is remembered stays so,
LEMMA RememberedKept ==
  ASSUME NEW a, NEW b, Kept(a, b), SoundState(a), NEW bless, NEW p, NEW l, NEW u,
         Remembered(a, bless, p, l, u)
  PROVE  Remembered(b, bless, p, l, u)
<1>1. Keeps(a.blessed, b.blessed) /\ Keeps(Known(a), Known(b))
  BY DEF Kept
<1>2. QED
  BY <1>1 DEF Remembered, Keeps

\* mkplan for the next sub-problem keeps what the ones before it established.
LEMMA NextSubPlan ==
  ASSUME NEW n \in 1..Depth, NEW mk, IsMkPlan(mk, n - 1),
         NEW st \in States, NEW s \in AllSolvers, NEW f \in FlagSets, f.ti = 0, Legal(st, f),
         NEW k \in 1..Len(Children[s]), NEW o \in Outcomes, SubPlans(n, st, s, f, k - 1, o),
         NEW q \in MkChild(mk, s, f, Children[s][k], o)
  PROVE  q \in Outcomes /\ SubPlans(n, st, s, f, k, q)
<1>1. PICK c \in ChildrenOf(s) : c = Children[s][k]
  BY LibraryLoops
<1>2. s # NoPlan
  BY LibraryFacts DEF NoPlan
<1>3. ASSUME o.pln = NoPlan PROVE q \in Outcomes /\ SubPlans(n, st, s, f, k, q)
  <2>1. q = o
    BY <1>3 DEF MkChild
  <2>2. QED
    BY <1>3, <2>1 DEF SubPlans
<1>4. ASSUME o.pln # NoPlan PROVE q \in Outcomes /\ SubPlans(n, st, s, f, k, q)
  <2>1. o.pln = s /\ Kept(st, o.st) /\ (Calm(st, f) /\ ~st.timed => ~o.st.timed)
    BY <1>4 DEF SubPlans
  <2>2. q \in Outcomes /\ ChildAnswer(n, st, s, f, c, o, q)
    BY <1>1, <2>1, ChildAnswers
  <2>3. q.pln # NoPlan =>
          \A i \in 1..k : \E t \in SolversOf(Children[s][i].p) :
            <<t, ChildL(f.l, Children[s][i])>> \in PlansAt[n - 1]
    <3>1. SUFFICES ASSUME q.pln # NoPlan, NEW i \in 1..k
                   PROVE  \E t \in SolversOf(Children[s][i].p) :
                            <<t, ChildL(f.l, Children[s][i])>> \in PlansAt[n - 1]
      OBVIOUS
    <3>2. CASE i = k
      BY <1>1, <2>2, <3>1, <3>2 DEF ChildAnswer
    <3>3. CASE i # k
      <4>1. i \in 1..(k - 1)
        BY <3>3
      <4>2. QED
        BY <1>4, <4>1 DEF SubPlans
    <3>4. QED
      BY <3>2, <3>3
  <2>4. SoundState(st) /\ q.pln # NoPlan /\ q.st.ws \in {"normal", "only"} =>
          \A i \in 1..k : Remembered(q.st, f.bless, Children[s][i].p,
                                     ChildL(f.l, Children[s][i]), ChildU(f.u, Children[s][i]))
    <3>1. SUFFICES ASSUME SoundState(st), q.pln # NoPlan, q.st.ws \in {"normal", "only"}, NEW i \in 1..k
                   PROVE  Remembered(q.st, f.bless, Children[s][i].p,
                                     ChildL(f.l, Children[s][i]), ChildU(f.u, Children[s][i]))
      OBVIOUS
    <3>2. CASE i = k
      BY <1>1, <2>2, <3>1, <3>2 DEF ChildAnswer
    <3>3. CASE i # k
      <4>1. i \in 1..(k - 1)
        BY <3>3
      <4>2. SoundState(o.st) /\ o.st.ws \in {"normal", "only"}
        BY <2>1, <2>2, <3>1 DEF Kept, ChildAnswer
      <4>3. Remembered(o.st, f.bless, Children[s][i].p,
                       ChildL(f.l, Children[s][i]), ChildU(f.u, Children[s][i]))
        BY <1>4, <3>1, <4>1, <4>2 DEF SubPlans
      <4>4. Kept(o.st, q.st)
        BY <2>2 DEF ChildAnswer
      <4>5. QED
        BY <4>2, <4>3, <4>4, RememberedKept
    <3>4. QED
      BY <3>2, <3>3
  <2>5. SoundState(st) /\ st.ws # "bogus"
          /\ (st.ws = "only" => ChildrenAnswered(Known(st), s, f.l, f.u)) => q.st.ws # "bogus"
    <3>1. SUFFICES ASSUME SoundState(st), st.ws # "bogus",
                          st.ws = "only" => ChildrenAnswered(Known(st), s, f.l, f.u)
                   PROVE  q.st.ws # "bogus"
      OBVIOUS
    <3>2. o.st.ws # "bogus"
      BY <3>1 DEF SubPlans
    <3>3. st.ws = "only" => Answered(Known(st), c.p, ChildL(f.l, c), ChildU(f.u, c))
      BY <3>1 DEF ChildrenAnswered
    <3>4. QED
      BY <2>2, <3>1, <3>2, <3>3 DEF ChildAnswer
  <2>6. QED
    BY <2>2, <2>3, <2>4, <2>5 DEF SubPlans, ChildAnswer
<1>5. QED
  BY <1>3, <1>4

\* What a solver answers once all its sub-problems were planned.
LEMMA AllSubPlans ==
  ASSUME NEW n \in 1..Depth, NEW st \in States, NEW s \in AllSolvers, NEW f \in FlagSets,
         Rejects[s] \cap f.l = {},
         NEW o \in Outcomes, SubPlans(n, st, s, f, Len(Children[s]), o)
  PROVE  SolverAnswer(n, st, s, f, o)
<1>1. \A c \in ChildrenOf(s) : \E i \in 1..Len(Children[s]) : c = Children[s][i]
  BY DEF ChildrenOf
<1>2. f.l \in SUBSET Flags
  BY DEF FlagSets
<1>3. o.pln # NoPlan => <<s, f.l>> \in PlansAt[n]
  <2>1. SUFFICES ASSUME o.pln # NoPlan PROVE <<s, f.l>> \in PlansAt[n]
    OBVIOUS
  <2>2. \A i \in 1..Len(Children[s]) : \E t \in SolversOf(Children[s][i].p) :
          <<t, ChildL(f.l, Children[s][i])>> \in PlansAt[n - 1]
    BY <2>1 DEF SubPlans
  <2>3. \A c \in ChildrenOf(s) : \E t \in SolversOf(c.p) : <<t, ChildL(f.l, c)>> \in PlansAt[n - 1]
    BY <1>1, <2>2
  <2>4. <<s, f.l>> \in PlansOver(PlansAt[n - 1])
    <3>1. PICK P : P = PlansAt[n - 1]
      OBVIOUS
    <3>2. \A c \in ChildrenOf(s) : \E t \in SolversOf(c.p) : <<t, ChildL(f.l, c)>> \in P
      BY <2>3, <3>1
    <3>3. PICK l \in SUBSET Flags : l = f.l
      BY <1>2
    <3>4. <<s, l>> \in PlansOver(P)
      <4>1. Rejects[s] \cap l = {}
        BY <3>3
      <4>2. \A c \in ChildrenOf(s) : \E t \in SolversOf(c.p) : <<t, ChildL(l, c)>> \in P
        BY <3>2, <3>3
      <4>3. QED
        BY <4>1, <4>2, PlansOverIff
    <3>5. QED
      BY <3>1, <3>3, <3>4
  <2>5. QED
    BY <2>4, PlansAtUnfolds
<1>4. Trusted(st) /\ Fails(o) => <<s, f.l>> \notin PlansAt[Depth]
  <2>1. SUFFICES ASSUME Trusted(st), Fails(o), <<s, f.l>> \in PlansAt[Depth] PROVE FALSE
    OBVIOUS
  <2>2. PICK c \in ChildrenOf(s) : Unsolvable(c.p, ChildL(f.l, c))
    BY <2>1 DEF SubPlans
  <2>3. \E t \in SolversOf(c.p) : <<t, ChildL(f.l, c)>> \in PlansAt[Depth]
    BY <1>2, <2>1, PlanNeedsChildren
  <2>4. QED
    BY <2>2, <2>3 DEF Unsolvable
<1>5. SoundState(st) /\ o.pln # NoPlan /\ o.st.ws \in {"normal", "only"} =>
        ChildrenRemembered(o.st, f.bless, s, f.l, f.u)
  BY <1>1 DEF SubPlans, ChildrenRemembered
<1>6. QED
  BY <1>3, <1>4, <1>5 DEF SubPlans, SolverAnswer

\* invoke_solver, when mkplan does as it should for the sub-problems.
LEMMA SolverAnswers ==
  ASSUME NEW n \in 1..Depth, NEW mk, IsMkPlan(mk, n - 1),
         NEW st \in States, NEW s \in AllSolvers, NEW f \in FlagSets, Legal(st, f),
         NEW o \in InvokeSolver(mk, st, s, f)
  PROVE  SolverAnswer(n, st, s, f, o)
<1>1. PICK g \in FlagSets : g = [f EXCEPT !.ti = 0]
  BY DEF FlagSets
<1>2. g.l = f.l /\ g.u = f.u /\ g.bless = f.bless /\ g.ti = 0
  BY <1>1 DEF FlagSets
<1>3. s # NoPlan /\ mk \in Planners /\ f.l \in SUBSET Flags
  BY LibraryFacts DEF NoPlan, IsMkPlan, FlagSets
<1>4. ASSUME Rejects[s] \cap f.l # {} PROVE SolverAnswer(n, st, s, f, o)
  <2>1. o = [st |-> st, pln |-> NoPlan]
    BY <1>4 DEF InvokeSolver
  <2>2. o.st = st /\ o.pln = NoPlan
    BY <2>1
  <2>3. <<s, f.l>> \notin PlansAt[Depth]
    BY <1>3, <1>4, PlanNeedsChildren
  <2>4. QED
    BY <2>2, <2>3, KeptSame DEF SolverAnswer
<1>5. ASSUME Rejects[s] \cap f.l = {} PROVE SolverAnswer(n, st, s, f, o)
  <2>1. PICK N \in Nat : N = Len(Children[s])
    BY LibraryLoops
  <2>2. PICK step \in [1..N -> [Outcomes -> SUBSET Outcomes]] : step = ChildRounds(mk, s, g)
    BY <1>3, <2>1, ChildRoundsType
  <2>3. o \in Loop(N, [st |-> st, pln |-> s], step)
    BY <1>1, <1>5, <2>1, <2>2 DEF InvokeSolver, MkChildren, ChildRounds
  <2>4. PICK J : J = {x \in (0..N) \X Outcomes : SubPlans(n, st, s, g, x[1], x[2])}
    OBVIOUS
  <2>5. PICK start \in Outcomes : start = [st |-> st, pln |-> s]
    BY OutcomeType DEF Plans
  <2>6. <<0, start>> \in J
    <3>1. start.st = st /\ start.pln = s
      BY <2>5
    <3>2. SubPlans(n, st, s, g, 0, start)
      BY <1>3, <3>1, KeptSame DEF SubPlans, Fails
    <3>3. QED
      BY <2>4, <3>2
  <2>7. Legal(st, g)
    BY <1>2 DEF Legal
  <2>8. ASSUME NEW k \in 1..N, NEW a \in Outcomes, <<k - 1, a>> \in J, NEW q \in step[k][a]
        PROVE  <<k, q>> \in J
    <3>1. SubPlans(n, st, s, g, k - 1, a) /\ k \in 0..N
      BY <2>4, <2>8
    <3>2. step[k][a] = MkChild(mk, s, g, Children[s][k], a)
      BY <2>1, <2>2 DEF ChildRounds
    <3>3. q \in MkChild(mk, s, g, Children[s][k], a)
      BY <2>8, <3>2
    <3>4. k \in 1..Len(Children[s])
      BY <2>1
    <3>5. q \in Outcomes /\ SubPlans(n, st, s, g, k, q)
      BY <1>2, <2>7, <3>1, <3>3, <3>4, NextSubPlan
    <3>6. QED
      BY <2>4, <3>1, <3>5
  <2>9. \A x \in Loop(N, start, step) : x \in Outcomes /\ <<N, x>> \in J
    BY <2>6, <2>8, LoopKeeps
  <2>10. o \in Outcomes /\ SubPlans(n, st, s, g, Len(Children[s]), o)
    BY <2>1, <2>3, <2>4, <2>5, <2>9
  <2>11. SolverAnswer(n, st, s, g, o)
    BY <1>2, <1>5, <2>10, AllSubPlans
  <2>12. QED
    BY <1>2, <2>11 DEF SolverAnswer, Calm
<1>6. QED
  BY <1>4, <1>5

-----------------------------------------------------------------------------
(* The search among the solvers.                                           *)

\* There is no time limit for a search.
Unhurried(st, f) == Estimate \in f.u \/ OnTime(st)

\* The first k solvers of problem p.
SolversTried(n, st, p, f, k, o) ==
    /\ Kept(st, o.st)
    /\ o.pln # NoPlan => o.pln \in SolversOf(p) /\ <<o.pln, f.l>> \in PlansAt[n]
    /\ Unhurried(st, f) /\ ~st.timed => ~o.st.timed
    /\ Trusted(st) /\ Fails(o) => \A i \in 1..k : <<Solvers[p][i], f.l>> \notin PlansAt[Depth]
    /\ SoundState(st) /\ o.pln # NoPlan /\ o.st.ws \in {"normal", "only"} =>
         ChildrenRemembered(o.st, f.bless, o.pln, f.l, f.u)
    /\ SoundState(st) /\ st.ws \notin {"only", "bogus"} => o.st.ws # "bogus"

\* What a round of search0 makes of the plan so far in o and the solver's in r.
RoundOf(s, f, o, r, q) ==
    /\ Kept(r.st, q.st) /\ q.st.ws = r.st.ws
    /\ r.st.timed => q.st.timed
    /\ Unhurried(r.st, f) /\ q.st.timed => r.st.timed
    /\ q.pln \in {o.pln, r.pln, NoPlan}
    /\ q.pln = NoPlan => q.st.timed \/ (o.pln = NoPlan /\ r.pln = NoPlan)

\* A round over the solvers is an answer of the solver and a choice of the best.
LEMMA TryRound ==
  ASSUME NEW n \in 1..Depth, NEW mk, IsMkPlan(mk, n - 1), NEW s \in AllSolvers, NEW f \in FlagSets,
         f.l \subseteq f.u, NEW o \in Outcomes, ~o.st.timed, NEW q \in TrySolver(mk, s, f, o)
  PROVE  \E r : SolverAnswer(n, o.st, s, f, r) /\ RoundOf(s, f, o, r, q)
<1>1. PICK r \in InvokeSolver(mk, o.st, s, f) : \E t \in CheckTimeout(r.st, f) :
        q \in IF t.timed THEN {[st |-> t, pln |-> NoPlan]}
              ELSE IF r.pln = NoPlan THEN {[st |-> t, pln |-> o.pln]}
              ELSE IF o.pln = NoPlan THEN {[st |-> t, pln |-> s]}
              ELSE {[st |-> [t EXCEPT !.need = @ \/ Estimate \notin f.u], pln |-> b] : b \in {o.pln, s}}
  BY DEF TrySolver
<1>2. mk \in Planners /\ o.st \in States /\ s # NoPlan
  BY OutcomeParts, LibraryFacts DEF IsMkPlan, NoPlan
<1>3. r \in Outcomes
  BY <1>1, <1>2, InvokeSolverType
<1>4. Legal(o.st, f)
  BY DEF Legal
<1>5. SolverAnswer(n, o.st, s, f, r)
  BY <1>1, <1>2, <1>4, SolverAnswers
<1>6. r.pln \in {s, NoPlan} /\ r.st \in States
  BY <1>3, <1>5, OutcomeParts DEF SolverAnswer
<1>7. PICK t \in CheckTimeout(r.st, f) :
        q \in IF t.timed THEN {[st |-> t, pln |-> NoPlan]}
              ELSE IF r.pln = NoPlan THEN {[st |-> t, pln |-> o.pln]}
              ELSE IF o.pln = NoPlan THEN {[st |-> t, pln |-> s]}
              ELSE {[st |-> [t EXCEPT !.need = @ \/ Estimate \notin f.u], pln |-> b] : b \in {o.pln, s}}
  BY <1>1
<1>8. /\ t \in States /\ t.blessed = r.st.blessed /\ t.unblessed = r.st.unblessed
      /\ t.ws = r.st.ws /\ t.limit = r.st.limit
      /\ r.st.limit = 0 /\ ~r.st.late => ~t.late
      /\ Unhurried(r.st, f) => (t.timed => r.st.timed)
      /\ r.st.timed => t.timed
  BY <1>6, <1>7, CheckTimeoutType DEF Unhurried, OnTime
<1>9. PICK b : b = [t EXCEPT !.need = @ \/ Estimate \notin f.u]
  OBVIOUS
<1>10. /\ b.blessed = t.blessed /\ b.unblessed = t.unblessed /\ b.ws = t.ws /\ b.limit = t.limit
      /\ b.late = t.late /\ b.timed = t.timed
  BY <1>8, <1>9 DEF States
<1>11. q.st \in {t, b} /\ q.pln \in {o.pln, r.pln, NoPlan}
       /\ (q.pln = NoPlan => t.timed \/ (o.pln = NoPlan /\ r.pln = NoPlan))
  BY <1>2, <1>6, <1>9, <1>7
<1>12. Kept(r.st, q.st)
  <2>1. OnTime(r.st) => OnTime(q.st)
    BY <1>8, <1>10, <1>11 DEF OnTime
  <2>2. QED
    BY <1>8, <1>10, <1>11, <2>1, KeptTables
<1>13. RoundOf(s, f, o, r, q)
  BY <1>8, <1>10, <1>11, <1>12 DEF RoundOf
<1>14. QED
  BY <1>5, <1>13

\* So it is for all sub-problems of a solver, one after the other.
LEMMA ChildrenKept ==
  ASSUME NEW a, NEW b, Kept(a, b), SoundState(a), NEW bless, NEW s, NEW l, NEW u,
         ChildrenRemembered(a, bless, s, l, u)
  PROVE  ChildrenRemembered(b, bless, s, l, u)
  BY RememberedKept DEF ChildrenRemembered

\* One more solver is tried.
LEMMA NextSolver ==
  ASSUME NEW n \in 1..Depth, NEW mk, IsMkPlan(mk, n - 1), NEW st \in States, NEW p \in Problems,
         NEW f \in FlagSets, f.l \subseteq f.u, NEW k \in 1..Len(Solvers[p]),
         NEW o \in Outcomes, SolversTried(n, st, p, f, k - 1, o),
         NEW q \in TrySolver(mk, Solvers[p][k], f, o)
  PROVE  q \in Outcomes /\ SolversTried(n, st, p, f, k, q)
<1>1. PICK s \in SolversOf(p) : s = Solvers[p][k]
  BY LibraryLoops
<1>2. s \in AllSolvers /\ s # NoPlan /\ mk \in Planners
  BY LibraryLoops, LibraryFacts DEF NoPlan, IsMkPlan
<1>3. q \in Outcomes
  BY <1>1, <1>2, TrySolverType
<1>4. ASSUME o.st.timed PROVE SolversTried(n, st, p, f, k, q)
  <2>1. q = o
    BY <1>4 DEF TrySolver
  <2>2. QED
    BY <1>4, <2>1 DEF SolversTried, Fails
<1>5. ASSUME ~o.st.timed PROVE SolversTried(n, st, p, f, k, q)
  <2>1. PICK r : SolverAnswer(n, o.st, s, f, r) /\ RoundOf(s, f, o, r, q)
    BY <1>1, <1>2, <1>5, TryRound
  <2>2. Kept(o.st, q.st) /\ Kept(st, q.st)
    BY <2>1, KeptTwice DEF SolversTried, SolverAnswer, RoundOf
  <2>3. q.pln # NoPlan => q.pln \in SolversOf(p) /\ <<q.pln, f.l>> \in PlansAt[n]
    BY <2>1 DEF SolversTried, SolverAnswer, RoundOf
  <2>4. Unhurried(st, f) /\ ~st.timed => ~q.st.timed
    <3>1. SUFFICES ASSUME Unhurried(st, f) PROVE ~q.st.timed
      OBVIOUS
    <3>2. Unhurried(o.st, f)
      BY <3>1 DEF SolversTried, Kept, Unhurried
    <3>3. Unhurried(r.st, f)
      BY <2>1, <3>2 DEF SolverAnswer, Kept, Unhurried
    <3>4. ~r.st.timed
      BY <1>5, <2>1, <3>2 DEF SolverAnswer, Unhurried, Calm
    <3>5. QED
      BY <2>1, <3>3, <3>4 DEF RoundOf
  <2>5. Trusted(st) /\ Fails(q) => \A i \in 1..k : <<Solvers[p][i], f.l>> \notin PlansAt[Depth]
    <3>1. SUFFICES ASSUME Trusted(st), Fails(q), NEW i \in 1..k
                   PROVE  <<Solvers[p][i], f.l>> \notin PlansAt[Depth]
      OBVIOUS
    <3>2. Fails(r) /\ o.pln = NoPlan
      BY <2>1, <3>1 DEF Fails, RoundOf
    <3>3. Fails(o)
      BY <1>5, <2>2, <3>1, <3>2 DEF Fails, Kept
    <3>4. CASE i = k
      <4>1. Trusted(o.st)
        BY <3>1, <3>3, TrustKept DEF SolversTried, Fails
      <4>2. QED
        BY <1>1, <2>1, <3>2, <3>4, <4>1 DEF SolverAnswer
    <3>5. CASE i # k
      <4>1. i \in 1..(k - 1)
        BY <3>5
      <4>2. QED
        BY <3>1, <3>3, <4>1 DEF SolversTried
    <3>6. QED
      BY <3>4, <3>5
  <2>6. SoundState(st) /\ q.pln # NoPlan /\ q.st.ws \in {"normal", "only"} =>
          ChildrenRemembered(q.st, f.bless, q.pln, f.l, f.u)
    <3>1. SUFFICES ASSUME SoundState(st), q.pln # NoPlan, q.st.ws \in {"normal", "only"}
                   PROVE  ChildrenRemembered(q.st, f.bless, q.pln, f.l, f.u)
      OBVIOUS
    <3>2. SoundState(o.st) /\ o.st.ws = q.st.ws
      BY <2>2, <3>1 DEF SolversTried, Kept
    <3>3. CASE q.pln = o.pln
      <4>1. ChildrenRemembered(o.st, f.bless, o.pln, f.l, f.u)
        BY <3>1, <3>2, <3>3 DEF SolversTried
      <4>2. QED
        BY <2>2, <3>2, <3>3, <4>1, ChildrenKept
    <3>4. CASE q.pln # o.pln
      <4>1. q.pln = r.pln /\ r.pln = s /\ r.st.ws = q.st.ws /\ SoundState(r.st) /\ Kept(r.st, q.st)
        BY <2>1, <3>1, <3>2, <3>4 DEF RoundOf, SolverAnswer, Kept
      <4>2. ChildrenRemembered(r.st, f.bless, s, f.l, f.u)
        BY <2>1, <3>1, <3>2, <4>1 DEF SolverAnswer
      <4>3. QED
        BY <4>1, <4>2, ChildrenKept
    <3>5. QED
      BY <3>3, <3>4
  <2>7. SoundState(st) /\ st.ws \notin {"only", "bogus"} => q.st.ws # "bogus"
    <3>1. SUFFICES ASSUME SoundState(st), st.ws \notin {"only", "bogus"} PROVE q.st.ws # "bogus"
      OBVIOUS
    <3>2. SoundState(o.st) /\ o.st.ws = st.ws
      BY <3>1 DEF SolversTried, Kept
    <3>3. QED
      BY <2>1, <3>1, <3>2 DEF SolverAnswer, RoundOf
  <2>8. QED
    BY <2>2, <2>3, <2>4, <2>5, <2>6, <2>7 DEF SolversTried
<1>6. QED
  BY <1>3, <1>4, <1>5

\* search0.
LEMMA Search0Answers ==
  ASSUME NEW n \in 1..Depth, NEW mk, IsMkPlan(mk, n - 1), NEW st \in States, NEW p \in Problems,
         NEW f \in FlagSets, f.l \subseteq f.u, NEW o \in Search0(mk, st, p, f)
  PROVE  o \in Outcomes /\ SolversTried(n, st, p, f, Len(Solvers[p]), o)
<1>1. PICK t \in TimeoutP(st, f) :
        o \in IF t.timed THEN {[st |-> t, pln |-> NoPlan]}
              ELSE Loop(Len(Solvers[p]), [st |-> t, pln |-> NoPlan], SolverRounds(mk, p, f))
  BY DEF Search0, SolverRounds
<1>2. /\ t \in States /\ t.blessed = st.blessed /\ t.unblessed = st.unblessed
      /\ t.ws = st.ws /\ t.limit = st.limit
      /\ OnTime(st) => OnTime(t)
      /\ Unhurried(st, f) => (t.timed => st.timed)
  BY <1>1, TimeoutPType DEF Unhurried, OnTime
<1>3. Kept(st, t)
  BY <1>2, KeptTables
<1>4. PICK start : start = [st |-> t, pln |-> NoPlan]
  OBVIOUS
<1>5. start \in Outcomes /\ start.st = t /\ start.pln = NoPlan
  BY <1>2, <1>4, OutcomeType DEF Plans
<1>6. ASSUME t.timed PROVE SolversTried(n, st, p, f, Len(Solvers[p]), o) /\ o \in Outcomes
  <2>1. o = start
    BY <1>1, <1>4, <1>6
  <2>2. QED
    BY <1>2, <1>3, <1>5, <1>6, <2>1 DEF SolversTried, Fails
<1>7. ASSUME ~t.timed PROVE SolversTried(n, st, p, f, Len(Solvers[p]), o) /\ o \in Outcomes
  <2>1. PICK N \in Nat : N = Len(Solvers[p])
    BY LibraryLoops
  <2>2. PICK step \in [1..N -> [Outcomes -> SUBSET Outcomes]] : step = SolverRounds(mk, p, f)
    BY <2>1, SolverRoundsType DEF IsMkPlan
  <2>3. o \in Loop(N, start, step)
    BY <1>1, <1>4, <1>7, <2>1, <2>2
  <2>4. PICK J : J = {x \in (0..N) \X Outcomes : SolversTried(n, st, p, f, x[1], x[2])}
    OBVIOUS
  <2>5. <<0, start>> \in J
    <3>1. SolversTried(n, st, p, f, 0, start)
      <4>1. \A i \in 1..0 : FALSE
        OBVIOUS
      <4>2. \A i \in 1..0 : <<Solvers[p][i], f.l>> \notin PlansAt[Depth]
        BY <4>1
      <4>3. QED
        BY <1>2, <1>3, <1>5, <1>7, <4>2 DEF SolversTried
    <3>2. QED
      BY <1>5, <2>4, <3>1
  <2>6. ASSUME NEW k \in 1..N, NEW a \in Outcomes, <<k - 1, a>> \in J, NEW q \in step[k][a]
        PROVE  <<k, q>> \in J
    <3>1. SolversTried(n, st, p, f, k - 1, a) /\ k \in 0..N
      BY <2>4, <2>6
    <3>2. q \in TrySolver(mk, Solvers[p][k], f, a)
      BY <2>1, <2>2, <2>6 DEF SolverRounds
    <3>3. k \in 1..Len(Solvers[p])
      BY <2>1
    <3>4. q \in Outcomes /\ SolversTried(n, st, p, f, k, q)
      BY <3>1, <3>2, <3>3, NextSolver
    <3>5. QED
      BY <2>4, <3>1, <3>4
  <2>7. \A x \in Loop(N, start, step) : x \in Outcomes /\ <<N, x>> \in J
    BY <1>5, <2>5, <2>6, LoopKeeps
  <2>8. QED
    BY <2>1, <2>3, <2>4, <2>7
<1>8. QED
  BY <1>6, <1>7

\* The first k values of l in a search.
Relaxed(n, st, p, f, k, o) ==
    /\ Kept(st, o.st)
    /\ f.l \subseteq o.l /\ o.l \subseteq f.u
    /\ k # 0 /\ o.pln = NoPlan => o.l = Impatience(f, k)
    /\ o.pln # NoPlan => o.pln \in SolversOf(p) /\ <<o.pln, o.l>> \in PlansAt[n]
    /\ Unhurried(st, f) /\ ~st.timed => ~o.st.timed
    /\ k # 0 /\ Trusted(st) /\ Fails(o) => Unsolvable(p, o.l)
    /\ SoundState(st) /\ o.pln # NoPlan /\ o.st.ws \in {"normal", "only"} =>
         ChildrenRemembered(o.st, f.bless, o.pln, o.l, f.u)
    /\ SoundState(st) /\ st.ws \notin {"only", "bogus"} => o.st.ws # "bogus"

\* One more set of flags is tried, unless there is a plan or nothing changes.
LEMMA NextImpatience ==
  ASSUME NEW n \in 1..Depth, NEW mk, IsMkPlan(mk, n - 1), NEW st \in States, NEW p \in Problems,
         NEW f \in FlagSets, f.l \subseteq f.u, NEW k \in 1..4,
         NEW o \in Searched, Relaxed(n, st, p, f, k - 1, o),
         NEW q \in SearchAgain(mk, p, f, k, o)
  PROVE  q \in Searched /\ Relaxed(n, st, p, f, k, q)
<1>1. mk \in Planners /\ o.st \in States
  BY DEF IsMkPlan, Searched
<1>2. q \in Searched
  BY <1>1, SearchAgainType
<1>3. ASSUME o.pln # NoPlan \/ (k > 1 /\ Impatience(f, k) = Impatience(f, k - 1))
      PROVE  Relaxed(n, st, p, f, k, q)
  <2>1. q = o
    BY <1>3 DEF SearchAgain
  <2>2. CASE o.pln # NoPlan
    BY <2>1, <2>2 DEF Relaxed, Fails
  <2>3. CASE o.pln = NoPlan
    <3>1. k - 1 # 0 /\ o.l = Impatience(f, k)
      BY <1>3, <2>3 DEF Relaxed
    <3>2. QED
      BY <2>1, <2>3, <3>1 DEF Relaxed
  <2>4. QED
    BY <2>2, <2>3
<1>4. ASSUME ~(o.pln # NoPlan \/ (k > 1 /\ Impatience(f, k) = Impatience(f, k - 1)))
      PROVE  Relaxed(n, st, p, f, k, q)
  <2>1. PICK g \in FlagSets : g = [f EXCEPT !.l = Impatience(f, k)]
    BY ImpatienceType
  <2>2. PICK r \in Search0(mk, o.st, p, g) : q = [st |-> r.st, pln |-> r.pln, l |-> Impatience(f, k)]
    BY <1>4, <2>1 DEF SearchAgain
  <2>3. /\ g.l = Impatience(f, k) /\ g.u = f.u /\ g.bless = f.bless
        /\ f.l \subseteq g.l /\ g.l \subseteq g.u
    BY <2>1, ImpatienceType DEF FlagSets
  <2>4. r \in Outcomes /\ SolversTried(n, o.st, p, g, Len(Solvers[p]), r)
    BY <1>1, <2>3, Search0Answers
  <2>5. q.st = r.st /\ q.pln = r.pln /\ q.l = g.l
    BY <2>2, <2>3
  <2>6. Kept(st, q.st) /\ Kept(o.st, q.st)
    BY <2>4, <2>5, KeptTwice DEF SolversTried, Relaxed
  <2>7. Unhurried(st, f) /\ ~st.timed => ~q.st.timed
    BY <2>3, <2>4, <2>5 DEF SolversTried, Relaxed, Unhurried, Kept
  <2>8. Trusted(st) /\ Fails(q) => Unsolvable(p, q.l)
    <3>1. SUFFICES ASSUME Trusted(st), Fails(q) PROVE Unsolvable(p, g.l)
      BY <2>5
    <3>2. o.st.ws # "bogus" /\ Fails(r)
      BY <2>5, <2>6, <3>1 DEF Fails, Kept
    <3>3. Trusted(o.st)
      BY <3>1, <3>2, TrustKept DEF Relaxed
    <3>4. \A i \in 1..Len(Solvers[p]) : <<Solvers[p][i], g.l>> \notin PlansAt[Depth]
      BY <2>4, <3>2, <3>3 DEF SolversTried
    <3>5. QED
      BY <3>4 DEF Unsolvable, SolversOf
  <2>9. SoundState(st) /\ q.pln # NoPlan /\ q.st.ws \in {"normal", "only"} =>
          ChildrenRemembered(q.st, f.bless, q.pln, q.l, f.u)
    BY <2>3, <2>4, <2>5 DEF Relaxed, Kept, SolversTried
  <2>10. SoundState(st) /\ st.ws \notin {"only", "bogus"} => q.st.ws # "bogus"
    <3>1. SUFFICES ASSUME SoundState(st), st.ws \notin {"only", "bogus"} PROVE q.st.ws # "bogus"
      OBVIOUS
    <3>2. SoundState(o.st) /\ o.st.ws = st.ws
      BY <3>1 DEF Relaxed, Kept
    <3>3. QED
      BY <2>4, <2>5, <3>1, <3>2 DEF SolversTried
  <2>11. q.pln # NoPlan => q.pln \in SolversOf(p) /\ <<q.pln, q.l>> \in PlansAt[n]
    BY <2>4, <2>5 DEF SolversTried
  <2>12. QED
    BY <2>3, <2>5, <2>6, <2>7, <2>8, <2>9, <2>10, <2>11 DEF Relaxed
<1>5. QED
  BY <1>2, <1>3, <1>4

\* What search may answer: the flags l say how impatient the plan is.
SearchAnswer(n, st, p, f, o) ==
    /\ Kept(st, o.st)
    /\ f.l \subseteq o.l /\ o.l \subseteq f.u
    /\ o.pln # NoPlan => o.pln \in SolversOf(p) /\ <<o.pln, o.l>> \in PlansAt[n]
    /\ o.pln = NoPlan => o.l = f.l
    /\ Unhurried(st, f) /\ ~st.timed => ~o.st.timed
    /\ Trusted(st) /\ Fails(o) => Unsolvable(p, f.l)
    /\ SoundState(st) /\ o.pln # NoPlan /\ o.st.ws \in {"normal", "only"} =>
         ChildrenRemembered(o.st, f.bless, o.pln, o.l, f.u)
    /\ SoundState(st) /\ st.ws \notin {"only", "bogus"} => o.st.ws # "bogus"

\* The search as a whole: under l in the end, if under nothing more impatient.
LEMMA SearchAnswers ==
  ASSUME NEW n \in 1..Depth, NEW mk, IsMkPlan(mk, n - 1), NEW st \in States, NEW p \in Problems,
         NEW f \in FlagSets, f.l \subseteq f.u, NEW o \in Search(mk, st, p, f)
  PROVE  o \in Searched /\ SearchAnswer(n, st, p, f, o)
<1>1. mk \in Planners
  BY DEF IsMkPlan
<1>2. PICK step \in [1..4 -> [Searched -> SUBSET Searched]] : step = SearchRounds(mk, p, f)
  BY <1>1, SearchType
<1>3. PICK start \in Searched : start = [st |-> st, pln |-> NoPlan, l |-> f.u]
  BY <1>1, SearchType
<1>4. o \in Loop(4, start, step)
  BY <1>1, <1>2, <1>3, SearchType
<1>5. PICK J : J = {x \in (0..4) \X Searched : Relaxed(n, st, p, f, x[1], x[2])}
  OBVIOUS
<1>6. <<0, start>> \in J
  <2>1. start.st = st /\ start.pln = NoPlan /\ start.l = f.u
    BY <1>3
  <2>2. Relaxed(n, st, p, f, 0, start)
    BY <2>1, KeptSame DEF Relaxed
  <2>3. QED
    BY <1>5, <2>2
<1>7. ASSUME NEW k \in 1..4, NEW a \in Searched, <<k - 1, a>> \in J, NEW q \in step[k][a]
      PROVE  <<k, q>> \in J
  <2>1. Relaxed(n, st, p, f, k - 1, a) /\ k \in 0..4
    BY <1>5, <1>7
  <2>2. q \in SearchAgain(mk, p, f, k, a)
    BY <1>2, <1>7 DEF SearchRounds
  <2>3. q \in Searched /\ Relaxed(n, st, p, f, k, q)
    BY <2>1, <2>2, NextImpatience
  <2>4. QED
    BY <1>5, <2>1, <2>3
<1>8. \A x \in Loop(4, start, step) : x \in Searched /\ <<4, x>> \in J
  BY <1>6, <1>7, LoopKeeps
<1>9. o \in Searched /\ Relaxed(n, st, p, f, 4, o)
  BY <1>4, <1>5, <1>8
<1>10. Impatience(f, 4) = f.l
  <2>1. PICK i \in 1..4 : i = 4
    OBVIOUS
  <2>2. Impatience(f, 4) = f.l
    BY <2>1, ImpatienceType, Zenon
  <2>3. QED
    BY <2>2
<1>11. QED
  BY <1>9, <1>10 DEF Relaxed, SearchAnswer, Fails

-----------------------------------------------------------------------------
(* What is remembered                                                      *)

\* An insertion adds the entry and may leave out what it makes superfluous.
LEMMA InsertedEntries ==
  ASSUME NEW T, NEW e
  PROVE  e \in Inserted(T, e) /\ \A x \in Inserted(T, e) : x \in T \/ x = e
  BY DEF Inserted

\* What is left out stays answered, if what is inserted is true and what is
\* left out was made by the planner itself.
LEMMA InsertedKeeps ==
  ASSUME NEW T \in SUBSET Solutions, NEW e \in Solutions,
         \A x \in T : SoundEntry(x), TrueEntry(e)
  PROVE  Keeps(T, Inserted(T, e))
<1>1. SUFFICES ASSUME NEW p, NEW l, NEW u, Answered(T, p, l, u)
               PROVE  Answered(Inserted(T, e), p, l, u)
  BY DEF Keeps
<1>2. PICK x \in T : x.key = p /\ x.slv # Infeasible /\ l \subseteq x.l /\ x.u \subseteq u
  BY <1>1 DEF Answered
<1>3. CASE ~(x.key = e.key /\ Subsumes(e, x))
  <2>1. x \in Inserted(T, e)
    BY <1>3 DEF Inserted
  <2>2. QED
    BY <1>2, <2>1 DEF Answered
<1>4. CASE x.key = e.key /\ Subsumes(e, x)
  <2>1. x.ti = 0 /\ x.slv \in SolversOf(x.key) /\ <<x.slv, x.l>> \in PlansAt[Depth]
    BY <1>2 DEF SoundEntry, TrueEntry, Plannable
  <2>2. CASE e.slv # Infeasible
    <3>1. e.u \subseteq x.u /\ x.l \subseteq e.l
      BY <1>4, <2>2 DEF Subsumes
    <3>2. QED
      BY <1>2, <1>4, <2>2, <3>1, InsertedEntries DEF Answered
  <2>3. CASE e.slv = Infeasible
    <3>1. e.l \subseteq x.l /\ e.ti <= 0
      BY <1>4, <2>1, <2>3 DEF Subsumes
    <3>2. e.ti = 0
      BY <3>1 DEF Solutions
    <3>3. <<x.slv, e.l>> \in PlansAt[Depth]
      BY <2>1, <3>1, LibraryFacts, PlansAntitone
    <3>4. Solvable(e.key, e)
      BY <1>4, <2>1, <3>3 DEF Solvable, Plannable
    <3>5. QED
      BY <2>3, <3>2, <3>4 DEF TrueEntry
  <2>4. QED
    BY <2>2, <2>3
<1>5. QED
  BY <1>3, <1>4

\* Adding a solution whose sub-problems are solved leaves the wisdom closed.
LEMMA InsertedCloses ==
  ASSUME NEW T \in SUBSET Solutions, NEW U, NEW e \in Solutions, Closed(T), Keeps(T, U), e \in U,
         \A x \in U : x \in T \/ x = e,
         e.slv # Infeasible => ChildrenAnswered(T, e.slv, e.l, e.u)
  PROVE  Closed(U)
<1>1. ASSUME NEW s, NEW l, NEW u, ChildrenAnswered(T, s, l, u) PROVE ChildrenAnswered(U, s, l, u)
  BY <1>1 DEF ChildrenAnswered, Keeps
<1>2. \A x \in U : x.slv # Infeasible => ChildrenAnswered(T, x.slv, x.l, x.u)
  BY DEF Closed
<1>3. QED
  BY <1>1, <1>2 DEF Closed

\* skip_search: a is the planner when the call began, st when it remembers.
LEMMA RememberKeeps ==
  ASSUME NEW a \in States, NEW st \in States, NEW p \in Problems, NEW f \in FlagSets,
         NEW slv \in Plans, Kept(a, st),
         TrueState(a) => TrueEntry(Entry(p, f, slv)),
         SoundState(a) /\ st.ws \in {"normal", "only"} =>
           /\ SoundEntry(Entry(p, f, slv))
           /\ slv # NoPlan => ChildrenRemembered(st, f.bless, slv, f.l, f.u),
         NEW q, q = Remember(st, p, f, slv)
  PROVE  /\ q.pln = slv /\ q.st.ws = st.ws /\ q.st.timed = st.timed
         /\ Kept(a, q.st)
         /\ SoundState(a) /\ slv # NoPlan /\ st.ws \in {"normal", "only"} =>
              Remembered(q.st, f.bless, p, f.l, f.u)
<1>1. CASE st.ws \notin {"normal", "only"}
  <2>1. q.st = st /\ q.pln = slv
    BY <1>1 DEF Remember
  <2>2. QED
    BY <1>1, <2>1
<1>2. CASE st.ws \in {"normal", "only"}
  <2>1. PICK t : t = HInsert(st, p, f, slv)
    OBVIOUS
  <2>2. PICK e : e = Entry(p, f, slv)
    OBVIOUS
  <2>3. q.st = t /\ q.pln = slv
    BY <1>2, <2>1 DEF Remember
  <2>4. /\ t \in States /\ e \in Solutions
        /\ t.blessed = IF f.bless THEN Inserted(st.blessed, e) ELSE st.blessed
        /\ t.unblessed = IF f.bless THEN st.unblessed ELSE Inserted(st.unblessed, e)
        /\ t.ws = st.ws /\ t.timed = st.timed /\ t.late = st.late /\ t.limit = st.limit
    BY <2>1, <2>2, HInsertType
  <2>5. e.key = p /\ e.l = f.l /\ e.u = f.u /\ e.slv = slv /\ f.bless \in BOOLEAN
    BY <2>2 DEF Entry, FlagSets
  <2>6. /\ st.blessed \in SUBSET Solutions /\ st.unblessed \in SUBSET Solutions
        /\ Known(st) \in SUBSET Solutions
    BY DEF States, Known
  <2>7. /\ \A x \in Known(t) : x \in Known(st) \/ x = e
        /\ \A x \in t.blessed : x \in st.blessed \/ x = e
        /\ e \in Known(t) /\ (f.bless => e \in t.blessed)
    BY <2>4, <2>5, InsertedEntries DEF Known
  <2>8. OnTime(a) => OnTime(t)
    BY <2>4 DEF Kept, OnTime
  <2>9. TrueState(a) => TrueState(t)
    BY <2>2, <2>7 DEF TrueState, Kept
  <2>10. SoundState(a) =>
           /\ SoundState(t) /\ Keeps(a.blessed, t.blessed) /\ Keeps(Known(a), Known(t))
           /\ slv # NoPlan => Remembered(t, f.bless, p, f.l, f.u)
    <3>1. SUFFICES ASSUME SoundState(a)
                   PROVE  /\ SoundState(t) /\ Keeps(a.blessed, t.blessed) /\ Keeps(Known(a), Known(t))
                          /\ slv # NoPlan => Remembered(t, f.bless, p, f.l, f.u)
      OBVIOUS
    <3>2. SoundState(st) /\ Keeps(a.blessed, st.blessed) /\ Keeps(Known(a), Known(st))
      BY <3>1 DEF Kept
    <3>3. /\ SoundEntry(e) /\ TrueEntry(e)
          /\ slv # NoPlan => ChildrenRemembered(st, f.bless, slv, f.l, f.u)
      BY <1>2, <2>2, <3>1 DEF SoundEntry
    <3>4. /\ \A x \in Known(st) : SoundEntry(x)
          /\ \A x \in st.blessed : SoundEntry(x)
          /\ \A x \in st.unblessed : SoundEntry(x)
      BY <3>2 DEF SoundState, Known
    <3>5. Keeps(st.blessed, Inserted(st.blessed, e))
      BY <2>4, <2>6, <3>3, <3>4, InsertedKeeps
    <3>6. Keeps(st.unblessed, Inserted(st.unblessed, e))
      BY <2>4, <2>6, <3>3, <3>4, InsertedKeeps
    <3>7. Keeps(st.blessed, t.blessed) /\ Keeps(st.unblessed, t.unblessed)
      BY <2>4, <2>5, <3>5, <3>6 DEF Keeps
    <3>8. Keeps(Known(st), Known(t))
      <4>1. SUFFICES ASSUME NEW b, NEW l, NEW u, Answered(Known(st), b, l, u)
                     PROVE  Answered(Known(t), b, l, u)
        BY DEF Keeps
      <4>2. Answered(st.blessed, b, l, u) \/ Answered(st.unblessed, b, l, u)
        BY <4>1 DEF Answered, Known
      <4>3. Answered(t.blessed, b, l, u) \/ Answered(t.unblessed, b, l, u)
        BY <3>7, <4>2 DEF Keeps
      <4>4. QED
        BY <4>3 DEF Answered, Known
    <3>9. e.slv # Infeasible =>
            /\ ChildrenAnswered(Known(st), e.slv, e.l, e.u)
            /\ f.bless => ChildrenAnswered(st.blessed, e.slv, e.l, e.u)
      BY <2>5, <3>3 DEF ChildrenRemembered, ChildrenAnswered, Remembered, NoPlan
    <3>10. Closed(Known(t))
      <4>1. Closed(Known(st))
        BY <3>2 DEF SoundState
      <4>2. QED
        BY <2>4, <2>6, <2>7, <3>8, <3>9, <4>1, InsertedCloses
    <3>11. Closed(t.blessed)
      <4>1. Closed(st.blessed)
        BY <3>2 DEF SoundState
      <4>2. CASE f.bless
        BY <2>4, <2>6, <2>7, <3>7, <3>9, <4>1, <4>2, InsertedCloses
      <4>3. CASE ~f.bless
        BY <2>4, <4>1, <4>3
      <4>4. QED
        BY <2>5, <4>2, <4>3
    <3>12. \A x \in Known(t) : SoundEntry(x)
      BY <2>7, <3>3, <3>4
    <3>13. slv # NoPlan => Remembered(t, f.bless, p, f.l, f.u)
      BY <2>5, <2>7 DEF Remembered, Answered, NoPlan
    <3>14. Keeps(a.blessed, t.blessed) /\ Keeps(Known(a), Known(t))
      BY <3>2, <3>7, <3>8 DEF Keeps
    <3>15. QED
      BY <3>10, <3>11, <3>12, <3>13, <3>14 DEF SoundState
  <2>11. Kept(a, t)
    BY <2>4, <2>8, <2>9, <2>10 DEF Kept
  <2>12. QED
    BY <2>3, <2>4, <2>10, <2>11
<1>3. QED
  BY <1>1, <1>2

\* What is remembered answers less demanding requests too.
LEMMA RememberedWeaker ==
  ASSUME NEW st, NEW bless, NEW p, NEW l, NEW u, Remembered(st, bless, p, l, u),
         NEW m, m \subseteq l, NEW v, u \subseteq v
  PROVE  Remembered(st, bless, p, m, v)
<1>1. \A T : Answered(T, p, l, u) => Answered(T, p, m, v)
  BY DEF Answered
<1>2. QED
  BY <1>1 DEF Remembered

\* Wisdom that is found inconsistent.
LEMMA BogusKeeps ==
  ASSUME NEW a \in States, NEW st \in States, Kept(a, st), a.ws # "ignore_all", NEW q \in Bogus(st)
  PROVE  /\ Kept(a, q.st) /\ q.pln = NoPlan /\ q.st.ws = "bogus" /\ q.st.timed = st.timed
<1>1. /\ q.pln = NoPlan /\ q.st.ws = "bogus" /\ q.st.timed = st.timed
      /\ q.st.blessed = st.blessed /\ q.st.unblessed = st.unblessed
      /\ q.st.limit = st.limit /\ q.st.late = st.late
  <2>1. q.pln = NoPlan /\ q.st = [st EXCEPT !.ws = "bogus"]
    BY BogusType
  <2>2. QED
    BY <2>1 DEF States
<1>2. Known(q.st) = Known(st) /\ (TrueState(st) => TrueState(q.st)) /\ (SoundState(st) => SoundState(q.st))
  BY <1>1 DEF Known, TrueState, SoundState
<1>3. OnTime(st) => OnTime(q.st)
  BY <1>1 DEF OnTime
<1>4. Kept(a, q.st)
  BY <1>1, <1>2, <1>3 DEF Kept
<1>5. QED
  BY <1>1, <1>4

\* do_search.
LEMMA DoSearchAnswers ==
  ASSUME NEW n \in 1..Depth, NEW mk, IsMkPlan(mk, n - 1), NEW st \in States, NEW p \in Problems,
         NEW f \in FlagSets, f.l \subseteq f.u, ~st.timed, st.ws \notin {"only", "bogus"},
         NEW q \in DoSearch(mk, st, p, f)
  PROVE  PlanAnswer(n, st, p, f, q)
<1>1. PICK o \in Search(mk, st, p, f) :
        q \in IF o.st.ws = "bogus" THEN Bogus(o.st)
              ELSE IF ~o.st.timed
                   THEN {Remember(o.st, p, [[f EXCEPT !.l = o.l] EXCEPT !.ti = 0], o.pln)}
              ELSE IF f.ti = 0 THEN {[st |-> o.st, pln |-> NoPlan]}
              ELSE {Remember(o.st, p, [[f EXCEPT !.l = o.l] EXCEPT !.bless = TRUE], NoPlan)}
  BY DEF DoSearch
<1>2. o \in Searched /\ SearchAnswer(n, st, p, f, o)
  BY <1>1, SearchAnswers
<1>3. o.st \in States /\ o.pln \in Plans /\ o.l \in SUBSET Flags
  BY <1>2 DEF Searched, Plans
<1>4. Kept(st, o.st) /\ n \in 0..Depth
  BY <1>2 DEF SearchAnswer
<1>5. Calm(st, f) => Unhurried(st, f)
  BY DEF Calm, Unhurried
<1>6. ASSUME o.st.ws = "bogus" PROVE PlanAnswer(n, st, p, f, q)
  <2>1. q \in Bogus(o.st)
    BY <1>1, <1>6
  <2>2. st.ws # "ignore_all"
    BY <1>4, <1>6 DEF Kept
  <2>3. Kept(st, q.st) /\ q.pln = NoPlan /\ q.st.ws = "bogus" /\ q.st.timed = o.st.timed
    BY <1>3, <1>4, <2>1, <2>2, BogusKeeps
  <2>4. QED
    BY <1>2, <1>5, <1>6, <2>3 DEF PlanAnswer, SearchAnswer, Fails
<1>7. ASSUME o.st.ws # "bogus", ~o.st.timed PROVE PlanAnswer(n, st, p, f, q)
  <2>1. PICK g \in FlagSets : g = [[f EXCEPT !.l = o.l] EXCEPT !.ti = 0]
    BY <1>3 DEF FlagSets
  <2>2. g.l = o.l /\ g.u = f.u /\ g.ti = 0 /\ g.bless = f.bless
    BY <1>3, <2>1 DEF FlagSets
  <2>3. q = Remember(o.st, p, g, o.pln)
    BY <1>1, <1>7, <2>1
  <2>4. PICK e : e = Entry(p, g, o.pln)
    OBVIOUS
  <2>5. e.key = p /\ e.l = o.l /\ e.u = f.u /\ e.ti = 0 /\ e.slv = o.pln
    BY <2>2, <2>4 DEF Entry
  <2>6. Trusted(st) => TrueEntry(e)
    <3>1. CASE o.pln # NoPlan
      <4>1. <<o.pln, o.l>> \in PlansAt[Depth]
        BY <1>2, <1>4, <3>1, PlansGrow DEF SearchAnswer
      <4>2. QED
        BY <2>5, <3>1, <4>1 DEF TrueEntry, Plannable, NoPlan
    <3>2. CASE o.pln = NoPlan
      <4>1. SUFFICES ASSUME Trusted(st) PROVE ~Solvable(p, e)
        BY <2>5, <3>2 DEF TrueEntry, NoPlan
      <4>2. Unsolvable(p, f.l) /\ o.l = f.l
        BY <1>2, <1>7, <3>2, <4>1 DEF SearchAnswer, Fails
      <4>3. QED
        BY <2>5, <4>2 DEF Unsolvable, Solvable, Plannable
    <3>3. QED
      BY <3>1, <3>2
  <2>7. TrueState(st) => TrueEntry(e)
    BY <2>6 DEF Trusted
  <2>8. SoundState(st) /\ o.st.ws \in {"normal", "only"} =>
          /\ SoundEntry(e)
          /\ o.pln # NoPlan => ChildrenRemembered(o.st, g.bless, o.pln, g.l, g.u)
    <3>1. SUFFICES ASSUME SoundState(st), o.st.ws \in {"normal", "only"}
                   PROVE  /\ SoundEntry(e)
                          /\ o.pln # NoPlan => ChildrenRemembered(o.st, g.bless, o.pln, g.l, g.u)
      OBVIOUS
    <3>2. TrueState(st)
      BY <3>1 DEF SoundState, SoundEntry, TrueState
    <3>3. SoundEntry(e)
      BY <1>2, <2>5, <2>7, <3>2 DEF SoundEntry, SearchAnswer, NoPlan
    <3>4. QED
      BY <1>2, <2>2, <3>1, <3>3 DEF SearchAnswer
  <2>9. /\ q.pln = o.pln /\ q.st.ws = o.st.ws /\ q.st.timed = o.st.timed
        /\ Kept(st, q.st)
        /\ SoundState(st) /\ o.pln # NoPlan /\ o.st.ws \in {"normal", "only"} =>
             Remembered(q.st, g.bless, p, g.l, g.u)
    BY <1>3, <1>4, <2>3, <2>4, <2>7, <2>8, RememberKeeps
  <2>10. SoundState(st) /\ q.pln # NoPlan /\ q.st.ws \in {"normal", "only"} =>
           Remembered(q.st, f.bless, p, f.l, f.u)
    <3>1. f.l \subseteq g.l /\ g.u \subseteq f.u /\ g.bless = f.bless
      BY <1>2, <2>2 DEF SearchAnswer
    <3>2. QED
      BY <2>9, <3>1, RememberedWeaker
  <2>11. q.pln # NoPlan => q.pln \in SolversOf(p) /\ <<q.pln, f.l>> \in PlansAt[n]
    BY <1>2, <1>4, <2>9, PlansAntitone DEF SearchAnswer
  <2>12. Trusted(st) /\ Fails(q) => Unsolvable(p, f.l)
    BY <1>2, <2>9 DEF Fails, SearchAnswer
  <2>13. SoundState(st) => q.st.ws # "bogus"
    BY <1>7, <2>9
  <2>14. QED
    BY <1>7, <2>9, <2>10, <2>11, <2>12, <2>13 DEF PlanAnswer
<1>8. ASSUME o.st.ws # "bogus", o.st.timed, f.ti = 0 PROVE PlanAnswer(n, st, p, f, q)
  <2>1. q.st = o.st /\ q.pln = NoPlan
    BY <1>1, <1>8
  <2>2. QED
    BY <1>2, <1>4, <1>5, <1>8, <2>1 DEF PlanAnswer, SearchAnswer, Fails
<1>9. ASSUME o.st.ws # "bogus", o.st.timed, f.ti # 0 PROVE PlanAnswer(n, st, p, f, q)
  <2>1. PICK g \in FlagSets : g = [[f EXCEPT !.l = o.l] EXCEPT !.bless = TRUE]
    BY <1>3 DEF FlagSets
  <2>2. g.ti = f.ti
    BY <1>3, <2>1 DEF FlagSets
  <2>3. q = Remember(o.st, p, g, NoPlan)
    BY <1>1, <1>9, <2>1
  <2>4. TrueEntry(Entry(p, g, NoPlan)) /\ SoundEntry(Entry(p, g, NoPlan))
    BY <1>9, <2>2 DEF Entry, TrueEntry, SoundEntry, NoPlan
  <2>5. NoPlan \in Plans
    BY DEF Plans
  <2>6. q.pln = NoPlan /\ q.st.ws = o.st.ws /\ q.st.timed = o.st.timed /\ Kept(st, q.st)
    BY <1>3, <1>4, <2>3, <2>4, <2>5, RememberKeeps
  <2>7. QED
    BY <1>2, <1>5, <1>9, <2>6 DEF PlanAnswer, SearchAnswer, Fails
<1>10. QED
  BY <1>6, <1>7, <1>8, <1>9

\* mkplan with a solution from the tables.
LEMMA UseWisdomAnswers ==
  ASSUME NEW n \in 1..Depth, NEW mk, IsMkPlan(mk, n - 1), NEW st \in States, NEW p \in Problems,
         NEW f \in FlagSets, ~st.timed, st.ws \notin {"ignore_all", "bogus"},
         NEW sol \in Known(st), sol \in Solutions, sol.key = p, Subsumes(sol, f),
         sol.slv # Infeasible, NEW q \in UseWisdom(mk, st, p, f, sol)
  PROVE  PlanAnswer(n, st, p, f, q)
<1>1. PICK g \in FlagSets : g = EntryFlags(sol, f)
  BY UseWisdomType DEF IsMkPlan
<1>2. g.l = sol.l /\ g.u = sol.u /\ g.ti = sol.ti /\ g.bless = f.bless
  BY <1>1 DEF EntryFlags
<1>3. PICK a \in States : a = [st EXCEPT !.ws = "only"]
  BY DEF States
<1>4. /\ a.blessed = st.blessed /\ a.unblessed = st.unblessed /\ a.limit = st.limit
      /\ a.late = st.late /\ ~a.timed /\ a.ws = "only" /\ st.ws # "bogus"
  BY <1>3 DEF States
<1>5. /\ Known(a) = Known(st) /\ (TrueState(a) <=> TrueState(st)) /\ (SoundState(a) <=> SoundState(st))
      /\ (OnTime(a) <=> OnTime(st))
  BY <1>4 DEF Known, TrueState, SoundState, OnTime
<1>6. sol.u \subseteq f.u /\ f.l \subseteq sol.l /\ sol.slv \in AllSolvers /\ n \in 0..Depth
  BY DEF Subsumes, Solutions
<1>7. SoundState(st) => SoundEntry(sol) /\ ChildrenAnswered(Known(a), sol.slv, sol.l, sol.u)
  BY <1>5 DEF SoundState, Closed
<1>8. ASSUME sol.slv \notin SolversOf(p) PROVE PlanAnswer(n, st, p, f, q)
  <2>1. q \in Bogus(st)
    BY <1>8 DEF UseWisdom
  <2>2. Kept(st, q.st) /\ q.pln = NoPlan /\ q.st.ws = "bogus" /\ ~q.st.timed
    BY <2>1, KeptSame, BogusKeeps
  <2>3. ~SoundState(st)
    BY <1>7, <1>8 DEF SoundEntry
  <2>4. QED
    BY <2>2, <2>3 DEF PlanAnswer, Fails
<1>9. ASSUME sol.slv \in SolversOf(p) PROVE PlanAnswer(n, st, p, f, q)
  <2>1. PICK o \in InvokeSolver(mk, a, sol.slv, g) :
          q \in IF o.st.ws = "bogus" \/ o.pln = NoPlan THEN Bogus(o.st)
                ELSE {Remember([o.st EXCEPT !.ws = st.ws], p, g, sol.slv)}
    BY <1>1, <1>3, <1>9 DEF UseWisdom, EntryFlags
  <2>2. Legal(a, g)
    BY <1>4 DEF Legal
  <2>3. SolverAnswer(n, a, sol.slv, g, o)
    BY <1>6, <2>1, <2>2, SolverAnswers
  <2>4. o \in Outcomes /\ o.st \in States
    BY <1>6, <2>1, InvokeSolverType, OutcomeParts DEF IsMkPlan
  <2>5. ~o.st.timed
    BY <1>4, <2>3 DEF SolverAnswer, Calm
  \* Wisdom of the planner's own suffices.
  <2>6. SoundState(st) => o.st.ws # "bogus" /\ o.pln # NoPlan
    <3>1. SUFFICES ASSUME SoundState(st) PROVE o.st.ws # "bogus" /\ o.pln # NoPlan
      OBVIOUS
    <3>2. o.st.ws # "bogus"
      BY <1>2, <1>4, <1>5, <1>7, <2>3, <3>1 DEF SolverAnswer
    <3>3. Trusted(a)
      BY <1>5, <3>1 DEF Trusted, TrueState, SoundState, SoundEntry
    <3>4. <<sol.slv, g.l>> \in PlansAt[Depth]
      BY <1>2, <1>7, <3>1 DEF SoundEntry, TrueEntry, Plannable
    <3>5. QED
      BY <2>3, <2>5, <3>2, <3>3, <3>4 DEF SolverAnswer, Fails
  <2>7. PICK b \in States : b = [o.st EXCEPT !.ws = st.ws]
    BY <2>4 DEF States
  <2>8. /\ b.blessed = o.st.blessed /\ b.unblessed = o.st.unblessed /\ b.limit = o.st.limit
        /\ b.late = o.st.late /\ b.timed = o.st.timed /\ b.ws = st.ws
    BY <2>4, <2>7 DEF States
  <2>9. /\ Known(b) = Known(o.st) /\ (TrueState(b) <=> TrueState(o.st)) /\ (SoundState(b) <=> SoundState(o.st))
        /\ (OnTime(b) <=> OnTime(o.st))
    BY <2>8 DEF Known, TrueState, SoundState, OnTime
  <2>10. Kept(st, b)
    <3>1. Kept(a, o.st)
      BY <2>3 DEF SolverAnswer
    <3>2. b.ws \in {st.ws, "bogus"} /\ (st.ws = "ignore_all" => b.ws = "ignore_all")
      BY <2>8
    <3>3. b.limit = st.limit /\ (OnTime(st) => OnTime(b)) /\ (TrueState(st) => TrueState(b))
      BY <1>4, <1>5, <2>8, <2>9, <3>1 DEF Kept
    <3>4. SoundState(st) => SoundState(b) /\ Keeps(st.blessed, b.blessed) /\ Keeps(Known(st), Known(b))
      BY <1>4, <1>5, <2>8, <2>9, <3>1 DEF Kept
    <3>5. QED
      BY <3>2, <3>3, <3>4 DEF Kept
  <2>11. ASSUME o.st.ws = "bogus" \/ o.pln = NoPlan PROVE PlanAnswer(n, st, p, f, q)
    <3>1. q \in Bogus(o.st)
      BY <2>1, <2>11
    <3>2. q \in Bogus(b)
      BY <2>7, <2>8, <3>1, <2>4 DEF Bogus, States
    <3>3. Kept(st, q.st) /\ q.pln = NoPlan /\ q.st.ws = "bogus" /\ ~q.st.timed
      BY <2>5, <2>8, <2>10, <3>2, BogusKeeps
    <3>4. QED
      BY <2>6, <2>11, <3>3 DEF PlanAnswer, Fails
  <2>12. ASSUME o.st.ws # "bogus", o.pln # NoPlan PROVE PlanAnswer(n, st, p, f, q)
    <3>1. q = Remember(b, p, g, sol.slv)
      BY <2>1, <2>7, <2>12
    <3>2. <<sol.slv, sol.l>> \in PlansAt[n]
      BY <1>2, <2>3, <2>12 DEF SolverAnswer
    <3>3. PICK e : e = Entry(p, g, sol.slv)
      OBVIOUS
    <3>4. e.key = p /\ e.l = sol.l /\ e.ti = sol.ti /\ e.slv = sol.slv
      BY <1>2, <3>3 DEF Entry
    <3>5. TrueEntry(e)
      <4>1. <<sol.slv, sol.l>> \in PlansAt[Depth]
        BY <1>6, <3>2, PlansGrow
      <4>2. QED
        BY <3>4, <4>1 DEF TrueEntry, Plannable
    <3>6. SoundState(st) => SoundEntry(e) /\ ChildrenRemembered(b, g.bless, sol.slv, g.l, g.u)
      <4>1. SUFFICES ASSUME SoundState(st)
                     PROVE  SoundEntry(e) /\ ChildrenRemembered(b, g.bless, sol.slv, g.l, g.u)
        OBVIOUS
      <4>2. SoundEntry(e)
        BY <1>7, <3>4, <3>5, <4>1 DEF SoundEntry
      <4>3. o.st.ws = "only" /\ SoundState(a)
        BY <1>4, <1>5, <2>3, <2>12, <4>1 DEF SolverAnswer, Kept
      <4>4. ChildrenRemembered(o.st, g.bless, sol.slv, g.l, g.u)
        BY <2>3, <2>12, <4>3 DEF SolverAnswer
      <4>5. ChildrenRemembered(b, g.bless, sol.slv, g.l, g.u)
        BY <2>8, <2>9, <4>4 DEF ChildrenRemembered, Remembered
      <4>6. QED
        BY <4>2, <4>5
    <3>7. sol.slv \in Plans /\ sol.slv # NoPlan
      BY <1>6 DEF Plans, NoPlan
    <3>8. /\ q.pln = sol.slv /\ q.st.ws = b.ws /\ q.st.timed = b.timed
          /\ Kept(st, q.st)
          /\ SoundState(st) /\ sol.slv # NoPlan /\ b.ws \in {"normal", "only"} =>
               Remembered(q.st, g.bless, p, g.l, g.u)
      BY <2>10, <3>1, <3>3, <3>5, <3>6, <3>7, RememberKeeps
    <3>9. SoundState(st) /\ q.pln # NoPlan /\ q.st.ws \in {"normal", "only"} =>
            Remembered(q.st, f.bless, p, f.l, f.u)
      BY <1>2, <1>6, <3>7, <3>8, RememberedWeaker
    <3>10. q.pln \in SolversOf(p) /\ <<q.pln, f.l>> \in PlansAt[n]
      BY <1>6, <1>9, <3>2, <3>8, PlansAntitone
    <3>11. q.pln # NoPlan /\ ~q.st.timed /\ q.st.ws # "bogus"
      BY <1>4, <2>5, <2>8, <3>7, <3>8
    <3>12. QED
      BY <3>8, <3>9, <3>10, <3>11 DEF PlanAnswer, Fails
  <2>13. QED
    BY <2>11, <2>12
<1>10. QED
  BY <1>8, <1>9

\* hlookup finds something if anything answers.
LEMMA AnswersExist ==
  ASSUME NEW T \in SUBSET Solutions, NEW p, NEW f, NEW x \in T, x.key = p, Subsumes(x, f)
  PROVE  Answers(T, p, f) # {}
<1>1. PICK M : M = {y \in T : y.key = p /\ Subsumes(y, f)}
  OBVIOUS
<1>2. x \in M /\ M \in SUBSET Solutions
  BY <1>1
<1>3. \A y \in M : y.u \in SUBSET Flags
  BY <1>2 DEF Solutions
<1>4. \A y \in M : IsFiniteSet(y.u) /\ Cardinality(y.u) \in Nat
  <2>1. TAKE y \in M
  <2>2. IsFiniteSet(y.u)
    BY <1>3, LibraryFacts, FS_Subset
  <2>3. QED
    BY <2>2, FS_CardinalityType
<1>5. PICK N : N = {Cardinality(y.u) : y \in M}
  OBVIOUS
<1>6. N \in SUBSET Nat /\ N # {}
  BY <1>2, <1>4, <1>5
<1>7. PICK c \in N : \A d \in N : c <= d
  BY <1>6, Least
<1>8. PICK y \in M : Cardinality(y.u) = c
  BY <1>5, <1>7
<1>9. ASSUME NEW z \in M, z.u \subseteq y.u PROVE y.u \subseteq z.u
  <2>1. Cardinality(y.u) <= Cardinality(z.u)
    BY <1>5, <1>7, <1>8
  <2>2. IsFiniteSet(y.u) /\ z.u \in SUBSET y.u
    BY <1>4, <1>9
  <2>3. Cardinality(z.u) <= Cardinality(y.u) /\ (Cardinality(y.u) = Cardinality(z.u) => y.u = z.u)
    BY <2>2, FS_Subset
  <2>4. Cardinality(y.u) \in Nat /\ Cardinality(z.u) \in Nat
    BY <1>4
  <2>5. Cardinality(y.u) = Cardinality(z.u)
    BY <2>1, <2>3, <2>4
  <2>6. QED
    BY <2>3, <2>5
<1>10. y \in Answers(T, p, f)
  BY <1>1, <1>9 DEF Answers
<1>11. QED
  BY <1>10

\* hlookup finds what is remembered.
LEMMA LookupFinds ==
  ASSUME NEW st \in States, NEW p \in Problems, NEW f \in FlagSets,
         Answered(Known(st), p, f.l, f.u)
  PROVE  HLookup(st, p, f) # {}
<1>1. PICK x \in Known(st) : x.key = p /\ x.slv # Infeasible /\ f.l \subseteq x.l /\ x.u \subseteq f.u
  BY DEF Answered
<1>2. Subsumes(x, f)
  BY <1>1 DEF Subsumes
<1>3. st.blessed \in SUBSET Solutions /\ st.unblessed \in SUBSET Solutions
  BY DEF States
<1>4. CASE x \in st.blessed
  <2>1. Answers(st.blessed, p, f) # {}
    BY <1>1, <1>2, <1>3, <1>4, AnswersExist
  <2>2. QED
    BY <2>1 DEF HLookup
<1>5. CASE x \in st.unblessed
  <2>1. Answers(st.unblessed, p, f) # {}
    BY <1>1, <1>2, <1>3, <1>5, AnswersExist
  <2>2. QED
    BY <2>1 DEF HLookup
<1>6. QED
  BY <1>4, <1>5 DEF Known

\* mkplan of planner.c does with sub-plans of n - 1 levels what is expected of it
\* with n.
LEMMA MkPlanAnswers ==
  ASSUME NEW n \in 1..Depth, NEW mk, IsMkPlan(mk, n - 1), NEW st \in States, NEW p \in Problems,
         NEW flags \in FlagSets, Legal(st, flags), NEW q \in MkPlan(mk, st, p, flags)
  PROVE  PlanAnswer(n, st, p, flags, q)
<1>1. PICK f \in FlagSets : f = IF Estimate \in flags.u THEN [flags EXCEPT !.ti = 0] ELSE flags
  BY DEF FlagSets
<1>2. /\ f.l = flags.l /\ f.u = flags.u /\ f.bless = flags.bless
      /\ flags.ti = 0 \/ Estimate \in flags.u => f.ti = 0
  BY <1>1 DEF FlagSets
<1>3. PICK st0 \in States : st0 = [st EXCEPT !.timed = FALSE]
  BY DEF States
<1>4. /\ st0.blessed = st.blessed /\ st0.unblessed = st.unblessed /\ st0.limit = st.limit
      /\ st0.late = st.late /\ ~st0.timed /\ st0.ws = st.ws
  BY <1>3 DEF States
<1>5. /\ Known(st0) = Known(st) /\ (TrueState(st0) <=> TrueState(st)) /\ (SoundState(st0) <=> SoundState(st))
      /\ (OnTime(st0) <=> OnTime(st))
  BY <1>4 DEF Known, TrueState, SoundState, OnTime
<1>6. Kept(st, st0)
  BY <1>4, <1>5, KeptTables
<1>7. PICK sols : sols = IF st.ws = "ignore_all" THEN {} ELSE HLookup(st, p, f)
  OBVIOUS
<1>8. q \in IF st.ws = "bogus" THEN {[st |-> st, pln |-> NoPlan]}
            ELSE IF sols = {} THEN DoSearch(mk, st0, p, f)
            ELSE UNION {IF sol.slv # Infeasible THEN UseWisdom(mk, st0, p, f, sol)
                        ELSE IF st.ws = "ignore_infeasible" THEN DoSearch(mk, st0, p, f)
                        ELSE {[st |-> st0, pln |-> NoPlan]} : sol \in sols}
  <2>1. MkPlan(mk, st, p, flags) =
            IF st.ws = "bogus" THEN {[st |-> st, pln |-> NoPlan]}
            ELSE IF sols = {} THEN DoSearch(mk, st0, p, f)
            ELSE UNION {IF sol.slv # Infeasible THEN UseWisdom(mk, st0, p, f, sol)
                        ELSE IF st.ws = "ignore_infeasible" THEN DoSearch(mk, st0, p, f)
                        ELSE {[st |-> st0, pln |-> NoPlan]} : sol \in sols}
    BY <1>1, <1>3, <1>7 DEF MkPlan
  <2>2. QED
    BY <2>1, Zenon
<1>9. ASSUME PlanAnswer(n, st0, p, f, q), st.ws # "bogus" PROVE PlanAnswer(n, st, p, flags, q)
  <2>1. Kept(st, q.st)
    BY <1>6, <1>9, KeptTwice DEF PlanAnswer
  <2>2. Calm(st, flags) => ~q.st.timed
    BY <1>2, <1>4, <1>5, <1>9 DEF PlanAnswer, Calm
  <2>3. (flags.ti = 0 \/ Estimate \in flags.u \/ Known(st) = {}) /\ Trusted(st) /\ Fails(q) => Unsolvable(p, flags.l)
    BY <1>2, <1>4, <1>5, <1>9 DEF PlanAnswer, Trusted
  <2>4. /\ q.pln # NoPlan => q.pln \in SolversOf(p) /\ <<q.pln, flags.l>> \in PlansAt[n]
        /\ SoundState(st) /\ q.pln # NoPlan /\ q.st.ws \in {"normal", "only"} =>
             Remembered(q.st, flags.bless, p, flags.l, flags.u)
        /\ SoundState(st) /\ (st.ws = "only" => Answered(Known(st), p, flags.l, flags.u)) =>
             q.st.ws # "bogus"
    BY <1>2, <1>4, <1>5, <1>9 DEF PlanAnswer
  <2>5. QED
    BY <2>1, <2>2, <2>3, <2>4 DEF PlanAnswer
<1>10. ASSUME st.ws \notin {"only", "bogus"}, q \in DoSearch(mk, st0, p, f)
       PROVE  PlanAnswer(n, st, p, flags, q)
  <2>1. f.l \subseteq f.u
    BY <1>2, <1>10 DEF Legal
  <2>2. PlanAnswer(n, st0, p, f, q)
    BY <1>4, <1>10, <2>1, DoSearchAnswers
  <2>3. QED
    BY <1>9, <1>10, <2>2
<1>11. ASSUME st.ws = "bogus" PROVE PlanAnswer(n, st, p, flags, q)
  <2>1. q.st = st /\ q.pln = NoPlan
    BY <1>8, <1>11
  <2>2. QED
    BY <1>11, <2>1, KeptSame DEF PlanAnswer, Fails
<1>12. ASSUME st.ws # "bogus", sols = {} PROVE PlanAnswer(n, st, p, flags, q)
  <2>1. q \in DoSearch(mk, st0, p, f)
    BY <1>8, <1>12
  <2>2. CASE st.ws = "only"
    <3>1. q \in Bogus(st0)
      BY <1>4, <2>1, <2>2 DEF DoSearch
    <3>2. Kept(st0, q.st) /\ q.pln = NoPlan /\ q.st.ws = "bogus" /\ ~q.st.timed
      BY <1>4, <2>2, <3>1, KeptSame, BogusKeeps
    <3>3. ~Answered(Known(st), p, f.l, f.u)
      BY <1>7, <1>12, <2>2, LookupFinds
    <3>4. PlanAnswer(n, st0, p, f, q)
      BY <1>4, <1>5, <2>2, <3>2, <3>3 DEF PlanAnswer, Fails
    <3>5. QED
      BY <1>9, <1>12, <3>4
  <2>3. CASE st.ws # "only"
    BY <1>10, <1>12, <2>1, <2>3
  <2>4. QED
    BY <2>2, <2>3
<1>13. ASSUME st.ws # "bogus", sols # {} PROVE PlanAnswer(n, st, p, flags, q)
  <2>1. PICK sol \in sols :
          q \in IF sol.slv # Infeasible THEN UseWisdom(mk, st0, p, f, sol)
                ELSE IF st.ws = "ignore_infeasible" THEN DoSearch(mk, st0, p, f)
                ELSE {[st |-> st0, pln |-> NoPlan]}
    BY <1>8, <1>13
  <2>2. st.ws # "ignore_all" /\ sol \in HLookup(st, p, f)
    BY <1>7, <1>13, <2>1
  <2>3. sol \in Solutions /\ sol \in Known(st0) /\ sol.key = p /\ Subsumes(sol, f)
    BY <1>4, <2>2, HLookupType DEF Known
  <2>4. CASE sol.slv # Infeasible
    <3>1. q \in UseWisdom(mk, st0, p, f, sol)
      BY <2>1, <2>4
    <3>2. PlanAnswer(n, st0, p, f, q)
      BY <1>4, <1>13, <2>2, <2>3, <2>4, <3>1, UseWisdomAnswers
    <3>3. QED
      BY <1>9, <1>13, <3>2
  <2>5. CASE sol.slv = Infeasible /\ st.ws = "ignore_infeasible"
    <3>1. q \in DoSearch(mk, st0, p, f)
      BY <2>1, <2>5
    <3>2. QED
      BY <1>10, <2>5, <3>1
  <2>6. CASE sol.slv = Infeasible /\ st.ws # "ignore_infeasible"
    <3>1. q.st = st0 /\ q.pln = NoPlan
      BY <2>1, <2>6
    <3>2. f.ti = 0 /\ Trusted(st0) => Unsolvable(p, f.l)
      <4>1. SUFFICES ASSUME f.ti = 0, Trusted(st0) PROVE Unsolvable(p, f.l)
        OBVIOUS
      <4>2. TrueEntry(sol)
        BY <1>4, <2>2, <2>3, <2>6, <4>1 DEF Trusted, TrueState
      <4>3. sol.ti = 0 /\ sol.l \subseteq f.l
        BY <2>3, <2>6, <4>1 DEF Subsumes, Solutions
      <4>4. \A s \in SolversOf(p) : <<s, sol.l>> \notin PlansAt[Depth]
        BY <2>3, <2>6, <4>2, <4>3 DEF TrueEntry, Solvable, Plannable
      <4>5. ASSUME NEW s \in SolversOf(p) PROVE <<s, f.l>> \notin PlansAt[Depth]
        <5>1. Depth \in 0..Depth
          BY LibraryFacts
        <5>2. QED
          BY <4>3, <4>4, <4>5, <5>1, PlansAntitone
      <4>6. QED
        BY <4>5 DEF Unsolvable
    <3>3. (flags.ti = 0 \/ Estimate \in flags.u \/ Known(st) = {}) /\ Trusted(st) => Unsolvable(p, flags.l)
      BY <1>2, <1>4, <1>5, <2>3, <3>2 DEF Trusted
    <3>4. Kept(st, q.st) /\ ~q.st.timed /\ q.st.ws # "bogus"
      BY <1>4, <1>6, <1>13, <3>1
    <3>5. QED
      BY <3>1, <3>3, <3>4 DEF PlanAnswer
  <2>7. QED
    BY <2>4, <2>5, <2>6
<1>14. QED
  BY <1>11, <1>12, <1>13

\* So does mkplan at every depth.
LEMMA PlannersAnswer ==
  \A n \in 0..Depth : IsMkPlan(MkPlanAt[n], n)
<1>1. PICK S : S = {n \in 0..Depth : IsMkPlan(MkPlanAt[n], n)}
  OBVIOUS
<1>2. Depth \in Nat /\ 0 \in 0..Depth /\ \A k \in 1..Depth : k \in 0..Depth /\ k - 1 \in 0..Depth
  BY LibraryFacts
<1>3. \A st \in States, p \in Problems, f \in FlagSets : <<st, p, f>> \in Calls
  BY DEF Calls
<1>4. IsMkPlan(MkPlanAt[0], 0)
  BY <1>2, <1>3, MkPlanAtUnfolds DEF IsMkPlan
<1>5. ASSUME NEW n \in 1..Depth, n - 1 \in S PROVE n \in S
  <2>1. PICK mk : mk = MkPlanAt[n - 1]
    OBVIOUS
  <2>2. IsMkPlan(mk, n - 1)
    BY <1>1, <1>5, <2>1
  <2>3. ASSUME NEW st \in States, NEW p \in Problems, NEW f \in FlagSets, Legal(st, f),
               NEW o \in MkPlanAt[n][<<st, p, f>>]
        PROVE  PlanAnswer(n, st, p, f, o)
    <3>1. PICK c \in Calls : c = <<st, p, f>>
      BY <1>3
    <3>2. c[1] = st /\ c[2] = p /\ c[3] = f
      BY <3>1
    <3>3. MkPlanAt[n][c] = MkPlan(mk, st, p, f)
      BY <2>1, <3>2, MkPlanAtUnfolds
    <3>4. o \in MkPlan(mk, st, p, f)
      BY <2>3, <3>1, <3>3
    <3>5. QED
      BY <2>2, <2>3, <3>4, MkPlanAnswers
  <2>4. MkPlanAt[n] \in Planners /\ n \in 0..Depth
    BY <1>2, MkPlanAtUnfolds
  <2>5. QED
    BY <1>1, <2>3, <2>4 DEF IsMkPlan
<1>6. \A n \in 0..Depth : n \in S
  BY <1>1, <1>2, <1>4, <1>5, LoopStaysIn
<1>7. QED
  BY <1>1, <1>6

-----------------------------------------------------------------------------
(* The API                                                                 *)

Modes == {"normal", "only", "ignore_infeasible", "ignore_all"}

\* What every call of the API keeps, whatever the mode of the planner.
Holds(a, b) ==
    /\ b.limit = a.limit /\ (OnTime(a) => OnTime(b))
    /\ TrueState(a) => TrueState(b)
    /\ SoundState(a) => SoundState(b)

\* What mkplan0 may answer: the API asks for any plan.
Planned(st, p, pat, bless, ws, o) ==
    /\ Holds(st, o.st)
    /\ o.st.ws \in {ws, "bogus"} /\ (ws = "ignore_all" => o.st.ws = "ignore_all")
    /\ o.pln # NoPlan => Solvable(p, AnyPlan)
    /\ o.pln = NoPlan /\ o.st.ws # "bogus" /\ (pat = 1 \/ OnTime(st))
         /\ (TrueState(st) \/ ws \in {"ignore_infeasible", "ignore_all"}) => ~Solvable(p, AnyPlan)
    /\ o.pln = NoPlan /\ o.st.ws # "bogus" /\ ~o.st.timed /\ Known(st) = {} =>
         ~Solvable(p, AnyPlan)
    /\ SoundState(st) /\ o.pln # NoPlan /\ o.st.ws \in {"normal", "only"} =>
         Remembered(o.st, bless, p, {}, Pats[pat])
    /\ SoundState(st) /\ (ws = "only" => Answered(Known(st), p, {}, Pats[pat])) => o.st.ws # "bogus"

\* The flags of each patience are flags of the library.
LEMMA PatsType ==
  /\ DOMAIN Pats = 1..3 /\ Len(Pats) = 3 /\ Estimate \in Pats[1]
  /\ \A pat \in 1..3 : Pats[pat] \in SUBSET Flags
<1>1. {Estimate, NoSlow, NoUgly} \in SUBSET Flags /\ {NoSlow, NoUgly} \in SUBSET Flags
  BY LibraryFacts
<1>2. DOMAIN Pats = 1..3 /\ Len(Pats) = 3
  BY DEF Pats
<1>3. /\ Pats[1] = {Estimate, NoSlow, NoUgly} /\ Pats[2] = {NoSlow, NoUgly}
      /\ Pats[3] = {}
  BY DEF Pats
<1>4. \A pat \in 1..3 : pat = 1 \/ pat = 2 \/ pat = 3
  OBVIOUS
<1>5. QED
  BY <1>1, <1>2, <1>3, <1>4

\* A problem has a plan unless it is unsolvable under no flags at all.
LEMMA SolvableIff ==
  ASSUME NEW p PROVE Solvable(p, AnyPlan) <=> ~Unsolvable(p, {})
  BY DEF Solvable, Plannable, AnyPlan, Unsolvable

\* mkplan0, which calls the planner at its full depth.
LEMMA MkPlan0Answers ==
  ASSUME NEW st \in States, NEW p \in Problems, NEW pat \in 1..3, NEW bless \in BOOLEAN,
         NEW ws \in Modes, NEW o \in MkPlan0(st, p, pat, bless, ws)
  PROVE  o \in Outcomes /\ Planned(st, p, pat, bless, ws, o)
<1>1. PICK a \in States : a = [st EXCEPT !.ws = ws]
  BY DEF States, Modes
<1>2. /\ a.blessed = st.blessed /\ a.unblessed = st.unblessed /\ a.limit = st.limit
      /\ a.late = st.late /\ a.ws = ws /\ a.ws # "bogus" /\ st.limit \in Nat
  BY <1>1 DEF States, Modes
<1>3. /\ Known(a) = Known(st) /\ (TrueState(a) <=> TrueState(st)) /\ (SoundState(a) <=> SoundState(st))
      /\ (OnTime(a) <=> OnTime(st))
  BY <1>2 DEF Known, TrueState, SoundState, OnTime
<1>4. PICK f : f = [l |-> {}, u |-> Pats[pat], ti |-> st.limit, bless |-> bless]
  OBVIOUS
<1>5. f \in FlagSets /\ f.l = {} /\ f.u = Pats[pat] /\ f.ti = st.limit /\ f.bless = bless
  BY <1>2, <1>4, PatsType DEF FlagSets
<1>6. o \in MkPlanAt[Depth][<<a, p, f>>]
  BY <1>1, <1>4 DEF MkPlan0
<1>7. PICK mk : mk = MkPlanAt[Depth]
  OBVIOUS
<1>8. IsMkPlan(mk, Depth) /\ Depth \in 0..Depth
  BY <1>7, PlannersAnswer, LibraryFacts
<1>9. <<a, p, f>> \in Calls
  BY <1>5 DEF Calls
<1>10. o \in Outcomes
  BY <1>6, <1>7, <1>8, <1>9 DEF IsMkPlan, Planners
<1>11. PlanAnswer(Depth, a, p, f, o)
  <2>1. Legal(a, f)
    BY <1>5 DEF Legal
  <2>2. QED
    BY <1>5, <1>6, <1>7, <1>8, <2>1 DEF IsMkPlan
<1>12. Holds(st, o.st) /\ o.st.ws \in {ws, "bogus"} /\ (ws = "ignore_all" => o.st.ws = "ignore_all")
  BY <1>2, <1>3, <1>11 DEF PlanAnswer, Kept, Holds
<1>13. o.pln # NoPlan => Solvable(p, AnyPlan)
  BY <1>5, <1>11 DEF PlanAnswer, Solvable, Plannable, AnyPlan
<1>14. o.pln = NoPlan /\ o.st.ws # "bogus" /\ (pat = 1 \/ OnTime(st))
         /\ (TrueState(st) \/ ws \in {"ignore_infeasible", "ignore_all"}) => ~Solvable(p, AnyPlan)
  <2>1. SUFFICES ASSUME o.pln = NoPlan, o.st.ws # "bogus", pat = 1 \/ OnTime(st),
                        TrueState(st) \/ ws \in {"ignore_infeasible", "ignore_all"}
                 PROVE  Unsolvable(p, {})
    BY SolvableIff
  <2>2. Estimate \in f.u \/ OnTime(a)
    BY <1>3, <1>5, <2>1, PatsType
  <2>3. ~o.st.timed
    BY <1>2, <1>11, <2>2 DEF PlanAnswer, Calm
  <2>4. f.ti = 0 \/ Estimate \in f.u
    BY <1>2, <1>5, <2>2 DEF OnTime
  <2>5. Trusted(a)
    BY <1>2, <1>3, <2>1 DEF Trusted
  <2>6. QED
    BY <1>5, <1>11, <2>1, <2>3, <2>4, <2>5 DEF PlanAnswer, Fails
<1>15. SoundState(st) /\ o.pln # NoPlan /\ o.st.ws \in {"normal", "only"} =>
         Remembered(o.st, bless, p, {}, Pats[pat])
  BY <1>3, <1>5, <1>11 DEF PlanAnswer
<1>16. SoundState(st) /\ (ws = "only" => Answered(Known(st), p, {}, Pats[pat])) => o.st.ws # "bogus"
  BY <1>2, <1>3, <1>5, <1>11 DEF PlanAnswer
<1>17. o.pln = NoPlan /\ o.st.ws # "bogus" /\ ~o.st.timed /\ Known(st) = {} =>
         ~Solvable(p, AnyPlan)
  <2>1. Known(st) = {} => Trusted(a)
    BY <1>3 DEF Trusted, TrueState
  <2>2. QED
    BY <1>3, <1>5, <1>11, <2>1, SolvableIff DEF PlanAnswer, Fails
<1>18. QED
  BY <1>10, <1>12, <1>13, <1>14, <1>15, <1>16, <1>17 DEF Planned

\* Without entries no entry is wrong.
LEMMA Forgotten ==
  ASSUME NEW st \in States, NEW t, t = ForgetEverything(st)
  PROVE  /\ t \in States /\ TrueState(t) /\ SoundState(t) /\ t.limit = st.limit
         /\ OnTime(st) <=> OnTime(t)
         /\ Known(t) = {}
<1>1. t = [st EXCEPT !.blessed = {}, !.unblessed = {}]
  BY DEF ForgetEverything
<1>2. t \in States /\ t.blessed = {} /\ t.unblessed = {} /\ t.limit = st.limit /\ t.late = st.late
  BY <1>1 DEF States
<1>3. Known(t) = {}
  BY <1>2 DEF Known
<1>4. TrueState(t) /\ SoundState(t)
  BY <1>2, <1>3 DEF TrueState, SoundState, Closed
<1>5. QED
  BY <1>2, <1>3, <1>4 DEF OnTime

\* What mkplan of apiplan.c may answer.
ApiAnswer(a, p, pat, bless, o) ==
    /\ Holds(a, o.st)
    /\ o.pln # NoPlan => Solvable(p, AnyPlan)
    /\ o.pln = NoPlan /\ (pat = 1 \/ OnTime(a) \/ SoundState(a)) => ~Solvable(p, AnyPlan)
    /\ o.pln = NoPlan /\ ~o.st.timed => ~Solvable(p, AnyPlan)
    /\ SoundState(a) /\ OnTime(a) /\ o.pln # NoPlan => Remembered(o.st, bless, p, {}, Pats[pat])

\* What two calls hold, both hold one after the other.
LEMMA HoldsTwice ==
  ASSUME NEW a, NEW b, NEW c, Holds(a, b), Holds(b, c) PROVE Holds(a, c)
  BY DEF Holds

\* The planner's own wisdom is true.
LEMMA SoundIsTrue ==
  ASSUME NEW st, SoundState(st) PROVE TrueState(st)
  BY DEF SoundState, SoundEntry, TrueState

\* The first try and the one with the estimator.
LEMMA RetryAnswers ==
  ASSUME NEW st \in States, NEW p \in Problems, NEW pat \in 1..3, NEW bless \in BOOLEAN,
         NEW o \in MkPlan0(st, p, pat, bless, "normal"), NEW r \in Retry(o, p, bless)
  PROVE  /\ r \in Outcomes /\ Holds(st, r.st)
         /\ r.pln # NoPlan => Solvable(p, AnyPlan)
         /\ SoundState(st) => r.st.ws # "bogus"
         /\ r.pln = NoPlan /\ r.st.ws # "bogus" => ~Solvable(p, AnyPlan)
         /\ SoundState(st) /\ OnTime(st) /\ r.pln # NoPlan => Remembered(r.st, bless, p, {}, Pats[pat])
<1>1. "normal" \in Modes /\ "ignore_infeasible" \in Modes /\ 1 \in 1..3
  BY DEF Modes
<1>2. o \in Outcomes /\ Planned(st, p, pat, bless, "normal", o)
  BY <1>1, MkPlan0Answers
<1>3. o.st \in States
  BY <1>2, OutcomeParts
<1>4. CASE o.st.ws = "normal" /\ o.pln = NoPlan
  <2>1. r \in MkPlan0(o.st, p, 1, bless, "ignore_infeasible")
    BY <1>4 DEF Retry
  <2>2. r \in Outcomes /\ Planned(o.st, p, 1, bless, "ignore_infeasible", r)
    BY <1>1, <1>3, <2>1, MkPlan0Answers
  <2>3. Holds(st, r.st)
    BY <1>2, <2>2, HoldsTwice DEF Planned
  <2>4. SoundState(st) => r.st.ws # "bogus"
    BY <1>2, <2>2 DEF Planned, Holds
  <2>5. r.pln = NoPlan /\ r.st.ws # "bogus" => ~Solvable(p, AnyPlan)
    BY <2>2 DEF Planned
  <2>6. SoundState(st) /\ OnTime(st) => r.pln = NoPlan
    <3>1. SUFFICES ASSUME SoundState(st), OnTime(st) PROVE r.pln = NoPlan
      OBVIOUS
    <3>2. ~Solvable(p, AnyPlan)
      BY <1>2, <1>4, <3>1, SoundIsTrue DEF Planned
    <3>3. QED
      BY <2>2, <3>2 DEF Planned
  <2>7. QED
    BY <2>2, <2>3, <2>4, <2>5, <2>6 DEF Planned
<1>5. CASE ~(o.st.ws = "normal" /\ o.pln = NoPlan)
  <2>1. r = o
    BY <1>5 DEF Retry
  <2>2. QED
    BY <1>2, <1>5, <2>1 DEF Planned
<1>6. QED
  BY <1>4, <1>5

\* mkplan of apiplan.c, all tries together.
LEMMA ApiMkPlanAnswers ==
  ASSUME NEW st \in States, NEW p \in Problems, NEW pat \in 1..3, NEW bless \in BOOLEAN,
         NEW q \in ApiMkPlan(st, p, pat, bless)
  PROVE  q \in Outcomes /\ ApiAnswer(st, p, pat, bless, q)
<1>1. "normal" \in Modes /\ "ignore_all" \in Modes /\ 1 \in 1..3
  BY DEF Modes
<1>2. PICK o \in MkPlan0(st, p, pat, bless, "normal") :
        \E r \in Retry(o, p, bless) : q \in Again(r, p, pat, bless)
  BY DEF ApiMkPlan
<1>3. PICK r \in Retry(o, p, bless) : q \in Again(r, p, pat, bless)
  BY <1>2
<1>4. /\ r \in Outcomes /\ Holds(st, r.st)
      /\ r.pln # NoPlan => Solvable(p, AnyPlan)
      /\ SoundState(st) => r.st.ws # "bogus"
      /\ r.pln = NoPlan /\ r.st.ws # "bogus" => ~Solvable(p, AnyPlan)
      /\ SoundState(st) /\ OnTime(st) /\ r.pln # NoPlan => Remembered(r.st, bless, p, {}, Pats[pat])
  BY <1>2, <1>3, RetryAnswers
<1>5. CASE r.st.ws # "bogus"
  <2>1. q = r
    BY <1>3, <1>5 DEF Again
  <2>2. QED
    BY <1>4, <1>5, <2>1 DEF ApiAnswer
\* The wisdom was inconsistent, so it was not the planner's own.
<1>6. CASE r.st.ws = "bogus"
  <2>1. ~SoundState(st) /\ r.st \in States
    BY <1>4, <1>6, OutcomeParts
  <2>2. PICK n \in MkPlan0(ForgetEverything(r.st), p, pat, bless, "normal") :
          q \in IF n.st.ws # "bogus" THEN {n}
                ELSE MkPlan0(ForgetEverything(n.st), p, 1, bless, "ignore_all")
    BY <1>3, <1>6 DEF Again
  <2>3. PICK a : a = ForgetEverything(r.st)
    OBVIOUS
  <2>4. /\ a \in States /\ TrueState(a) /\ SoundState(a) /\ a.limit = r.st.limit
        /\ OnTime(r.st) <=> OnTime(a)
        /\ Known(a) = {}
    BY <2>1, <2>3, Forgotten
  <2>5. n \in Outcomes /\ Planned(a, p, pat, bless, "normal", n)
    BY <1>1, <2>2, <2>3, <2>4, MkPlan0Answers
  \* What was just planned without wisdom is consistent.
  <2>6. n.st.ws # "bogus"
    BY <2>4, <2>5 DEF Planned
  <2>7. q = n
    BY <2>2, <2>6
  <2>8. Holds(st, q.st)
    BY <1>4, <2>1, <2>4, <2>5, <2>7 DEF Holds, Planned
  <2>9. q.pln = NoPlan /\ (pat = 1 \/ OnTime(st) \/ SoundState(st)) => ~Solvable(p, AnyPlan)
    BY <1>4, <2>1, <2>4, <2>5, <2>6, <2>7 DEF Holds, Planned
  <2>10. q.pln = NoPlan /\ ~q.st.timed => ~Solvable(p, AnyPlan)
    BY <2>4, <2>5, <2>6, <2>7 DEF Planned
  <2>11. QED
    BY <2>1, <2>5, <2>7, <2>8, <2>9, <2>10 DEF ApiAnswer, Planned
<1>7. QED
  BY <1>5, <1>6

\* mkapiplan's loop up to patience pat, from state a.
Patient(a, p, first, pat, o) ==
    /\ Holds(a, o.st)
    /\ o.used # 0 => Solvable(p, AnyPlan) /\ first <= o.used /\ o.used <= pat
    /\ o.go /\ first <= pat => o.used # 0
    /\ ~o.go /\ o.used = 0 => ~Solvable(p, AnyPlan)

\* One more patience is tried.
LEMMA NextPat ==
  ASSUME NEW a \in States, NEW p \in Problems, NEW first \in 1..3, first = 1 \/ OnTime(a),
         NEW pat \in 1..3, NEW o \in Patience, Patient(a, p, first, pat - 1, o),
         NEW q \in TryPat(p, first, pat, o)
  PROVE  q \in Patience /\ Patient(a, p, first, pat, q)
<1>1. o.st \in States /\ o.used \in 0..3 /\ o.go \in BOOLEAN
  BY PatsType DEF Patience
<1>2. CASE pat < first \/ ~o.go
  <2>1. q = o
    BY <1>2 DEF TryPat
  <2>2. QED
    BY <1>1, <1>2, <2>1 DEF Patient
<1>3. CASE ~(pat < first \/ ~o.go)
  <2>1. PICK r \in ApiMkPlan(o.st, p, pat, FALSE) :
          q = [st |-> r.st, used |-> IF r.pln = NoPlan THEN o.used ELSE pat, go |-> r.pln # NoPlan]
    BY <1>3 DEF TryPat
  <2>2. r \in Outcomes /\ ApiAnswer(o.st, p, pat, FALSE, r)
    BY <1>1, <2>1, ApiMkPlanAnswers
  <2>3. r.st \in States
    BY <2>2, OutcomeParts
  <2>4. (r.pln # NoPlan) \in BOOLEAN
    OBVIOUS
  <2>5. /\ q.st = r.st /\ q.used = (IF r.pln = NoPlan THEN o.used ELSE pat)
        /\ q.go = (r.pln # NoPlan)
    BY <2>1
  <2>6. q \in Patience
    BY <1>1, <2>1, <2>3, <2>4, PatsType DEF Patience
  <2>7. Holds(a, q.st)
    BY <2>2, <2>5, HoldsTwice DEF Patient, ApiAnswer
  <2>8. CASE r.pln = NoPlan
    <3>1. q.used = o.used /\ ~q.go
      BY <2>5, <2>8
    <3>2. o.used = 0 => ~Solvable(p, AnyPlan)
      <4>1. SUFFICES ASSUME o.used = 0 PROVE ~Solvable(p, AnyPlan)
        OBVIOUS
      <4>2. pat = first
        BY <1>3, <4>1 DEF Patient
      <4>3. pat = 1 \/ OnTime(o.st)
        BY <4>2 DEF Patient, Holds
      <4>4. QED
        BY <2>2, <2>8, <4>3 DEF ApiAnswer
    <3>3. QED
      BY <1>1, <2>6, <2>7, <3>1, <3>2 DEF Patient
  <2>9. CASE r.pln # NoPlan
    <3>1. q.used = pat /\ q.go
      BY <2>5, <2>9
    <3>2. Solvable(p, AnyPlan)
      BY <2>2, <2>9 DEF ApiAnswer
    <3>3. QED
      BY <1>3, <2>6, <2>7, <3>1, <3>2 DEF Patient
  <2>10. QED
    BY <2>8, <2>9
<1>4. QED
  BY <1>2, <1>3

\* The rounds of mkapiplan's loop.
Pats0(p, first, pat_max) ==
    [pat \in 1 .. pat_max |-> [o \in Patience |-> TryPat(p, first, pat, o)]]

\* Each round of the loop of mkapiplan leaves its type.
LEMMA TryPatType ==
  ASSUME NEW p \in Problems, NEW first, NEW pat \in 1..3, NEW o \in Patience
  PROVE  TryPat(p, first, pat, o) \in SUBSET Patience
<1>1. o.st \in States /\ o.used \in 0..3
  BY PatsType DEF Patience
<1>2. ASSUME NEW r \in ApiMkPlan(o.st, p, pat, FALSE)
      PROVE  [st |-> r.st, used |-> IF r.pln = NoPlan THEN o.used ELSE pat, go |-> r.pln # NoPlan]
               \in Patience
  <2>1. r \in Outcomes
    BY <1>1, ApiMkPlanAnswers
  <2>2. r.st \in States
    BY <2>1, OutcomeParts
  <2>3. QED
    BY <1>1, <2>2, PatsType DEF Patience
<1>3. QED
  BY <1>2 DEF TryPat

\* The loop of mkapiplan finds a plan exactly if there is one.
LEMMA PatientlyAnswers ==
  ASSUME NEW a \in States, NEW p \in Problems, NEW pat_max \in 1..3, NEW first \in 1..pat_max,
         first = 1 \/ OnTime(a), NEW o \in Patiently(a, p, first, pat_max)
  PROVE  /\ o \in Patience /\ Holds(a, o.st)
         /\ o.used # 0 => Solvable(p, AnyPlan) /\ first <= o.used /\ o.used <= pat_max
         /\ o.used = 0 => ~Solvable(p, AnyPlan)
<1>1. \A pat \in 1..pat_max : pat \in 1..3
  OBVIOUS
<1>2. PICK step \in [1..pat_max -> [Patience -> SUBSET Patience]] : step = Pats0(p, first, pat_max)
  BY <1>1, TryPatType DEF Pats0
<1>3. PICK start : start = [st |-> a, used |-> 0, go |-> TRUE]
  OBVIOUS
<1>4. start \in Patience /\ start.st = a /\ start.used = 0 /\ start.go
  BY <1>3, PatsType DEF Patience
<1>5. o \in Loop(pat_max, start, step)
  BY <1>2, <1>3 DEF Patiently, Pats0
<1>6. PICK J : J = {x \in (0..pat_max) \X Patience : Patient(a, p, first, x[1], x[2])}
  OBVIOUS
<1>7. <<0, start>> \in J
  <2>1. Patient(a, p, first, 0, start)
    BY <1>4 DEF Patient, Holds
  <2>2. QED
    BY <1>4, <1>6, <2>1
<1>8. ASSUME NEW k \in 1..pat_max, NEW b \in Patience, <<k - 1, b>> \in J, NEW q \in step[k][b]
      PROVE  <<k, q>> \in J
  <2>1. Patient(a, p, first, k - 1, b) /\ k \in 0..pat_max /\ k \in 1..3 /\ first \in 1..3
    BY <1>6, <1>8
  <2>2. q \in TryPat(p, first, k, b)
    BY <1>2, <1>8 DEF Pats0
  <2>3. q \in Patience /\ Patient(a, p, first, k, q)
    BY <2>1, <2>2, NextPat
  <2>4. QED
    BY <1>6, <2>1, <2>3
<1>9. pat_max \in Nat
  OBVIOUS
<1>10. \A x \in Loop(pat_max, start, step) : x \in Patience /\ <<pat_max, x>> \in J
  BY <1>4, <1>7, <1>8, <1>9, LoopKeeps
<1>11. o \in Patience /\ Patient(a, p, first, pat_max, o)
  BY <1>5, <1>6, <1>10
<1>12. QED
  BY <1>11 DEF Patient

\* mkapiplan, without and with FFTW_WISDOM_ONLY.
LEMMA RecreateAnswers ==
  ASSUME NEW st \in States, NEW p \in Problems, NEW used \in 0..3, NEW o \in Recreate(st, p, used)
  PROVE  /\ o.st \in States /\ Holds(st, o.st) /\ o.result \in {None, "plan", "crash"}
         /\ o.result = None <=> used = 0
         /\ o.result = "crash" /\ (used = 1 \/ OnTime(st) \/ SoundState(st)) => ~Solvable(p, AnyPlan)
         /\ SoundState(st) /\ OnTime(st) /\ o.result = "plan" =>
              Answered(o.st.blessed, p, {}, Pats[used])
<1>1. CASE used = 0
  <2>1. o.st = st /\ o.result = None
    BY <1>1 DEF Recreate
  <2>2. QED
    BY <1>1, <2>1 DEF Holds, None
<1>2. CASE used # 0
  <2>1. PICK r \in ApiMkPlan(st, p, used, TRUE) :
          o = [st |-> r.st, result |-> IF r.pln = NoPlan THEN "crash" ELSE "plan"]
    BY <1>2 DEF Recreate
  <2>2. used \in 1..3
    BY <1>2
  <2>3. r \in Outcomes /\ ApiAnswer(st, p, used, TRUE, r)
    BY <2>1, <2>2, ApiMkPlanAnswers
  <2>4. r.st \in States
    BY <2>3, OutcomeParts
  <2>5. o.st = r.st /\ o.result = (IF r.pln = NoPlan THEN "crash" ELSE "plan")
    BY <2>1
  <2>6. o.result \in {"plan", "crash"} /\ o.result # None /\ (o.result = "plan" <=> r.pln # NoPlan)
    BY <2>5 DEF None
  <2>7. QED
    BY <1>2, <2>3, <2>4, <2>5, <2>6 DEF ApiAnswer, Remembered
<1>3. QED
  BY <1>1, <1>2

\* What a call of fftw_plan may leave and return.
ApiResult(st, p, pat, o) ==
    /\ o.st \in States /\ Holds(st, o.st) /\ o.result \in {None, "plan", "crash"}
    /\ o.result # None <=> Solvable(p, AnyPlan)
    /\ OnTime(st) \/ SoundState(st) => o.result # "crash"
    /\ SoundState(st) /\ OnTime(st) /\ o.result = "plan" => Answered(o.st.blessed, p, {}, Pats[pat])

\* A call of the API, and what it returns to the application.
LEMMA MkApiPlanAnswers ==
  ASSUME NEW st \in States, ~st.late, NEW p \in Problems, NEW pat \in 1..3,
         NEW q \in MkApiPlan(st, p, pat)
  PROVE  ApiResult(st, p, pat, q)
<1>1. PICK first : first = IF st.limit # 0 THEN 1 ELSE pat
  OBVIOUS
<1>2. first \in 1..pat /\ (st.limit = 0 => first = pat) /\ (first = 1 \/ OnTime(st))
  BY <1>1 DEF OnTime
<1>3. PICK o \in Patiently(st, p, first, pat) : q \in Recreate(o.st, p, o.used)
  BY <1>1 DEF MkApiPlan
<1>4. /\ o \in Patience /\ Holds(st, o.st)
      /\ o.used # 0 => Solvable(p, AnyPlan) /\ first <= o.used /\ o.used <= pat
      /\ o.used = 0 => ~Solvable(p, AnyPlan)
  BY <1>2, <1>3, PatientlyAnswers
<1>5. o.st \in States /\ o.used \in 0..3
  BY <1>4, PatsType DEF Patience
<1>6. /\ q.st \in States /\ Holds(o.st, q.st) /\ q.result \in {None, "plan", "crash"}
      /\ q.result = None <=> o.used = 0
      /\ q.result = "crash" /\ (o.used = 1 \/ OnTime(o.st) \/ SoundState(o.st)) => ~Solvable(p, AnyPlan)
      /\ SoundState(o.st) /\ OnTime(o.st) /\ q.result = "plan" =>
           Answered(q.st.blessed, p, {}, Pats[o.used])
  BY <1>3, <1>5, RecreateAnswers
<1>7. Holds(st, q.st)
  BY <1>4, <1>6, HoldsTwice
<1>8. OnTime(st) /\ o.used # 0 => o.used = pat
  BY <1>2, <1>4, <1>5 DEF OnTime
<1>9. OnTime(st) \/ SoundState(st) => q.result # "crash"
  BY <1>4, <1>6 DEF Holds, None
<1>10. SoundState(st) /\ OnTime(st) /\ q.result = "plan" => Answered(q.st.blessed, p, {}, Pats[pat])
  <2>1. "plan" # None
    BY DEF None
  <2>2. QED
    BY <1>4, <1>6, <1>8, <2>1 DEF Holds
<1>11. q.result # None <=> Solvable(p, AnyPlan)
  BY <1>4, <1>6
<1>12. QED
  BY <1>6, <1>7, <1>9, <1>10, <1>11 DEF ApiResult

\* A call with FFTW_WISDOM_ONLY succeeds if the wisdom answers it.
LEMMA MkWisdomOnlyAnswers ==
  ASSUME NEW st \in States, NEW p \in Problems, NEW pat \in 1..3, NEW q \in MkWisdomOnly(st, p, pat)
  PROVE  /\ q.st \in States /\ Holds(st, q.st) /\ q.result \in {None, "plan", "crash"}
         /\ OnTime(st) \/ SoundState(st) => q.result # "crash"
         /\ SoundState(st) /\ OnTime(st) /\ Answered(Known(st), p, {}, Pats[pat]) => q.result = "plan"
<1>1. "only" \in Modes /\ FALSE \in BOOLEAN
  BY DEF Modes
<1>2. PICK o \in MkPlan0(st, p, pat, FALSE, "only") :
        q \in Recreate(o.st, p, IF o.pln = NoPlan THEN 0 ELSE pat)
  BY DEF MkWisdomOnly
<1>3. o \in Outcomes /\ Planned(st, p, pat, FALSE, "only", o)
  BY <1>1, <1>2, MkPlan0Answers
<1>4. PICK used \in 0..3 : used = IF o.pln = NoPlan THEN 0 ELSE pat
  OBVIOUS
<1>5. o.st \in States
  BY <1>3, OutcomeParts
<1>6. /\ q.st \in States /\ Holds(o.st, q.st) /\ q.result \in {None, "plan", "crash"}
      /\ q.result = None <=> used = 0
      /\ q.result = "crash" /\ (used = 1 \/ OnTime(o.st) \/ SoundState(o.st)) => ~Solvable(p, AnyPlan)
  BY <1>2, <1>4, <1>5, RecreateAnswers
<1>7. Holds(st, q.st) /\ (OnTime(st) \/ SoundState(st) => OnTime(o.st) \/ SoundState(o.st))
  BY <1>3, <1>6, HoldsTwice DEF Planned, Holds
<1>8. OnTime(st) \/ SoundState(st) => q.result # "crash"
  <2>1. SUFFICES ASSUME OnTime(st) \/ SoundState(st), q.result = "crash" PROVE FALSE
    OBVIOUS
  <2>2. o.pln # NoPlan
    BY <1>4, <1>6, <2>1 DEF None
  <2>3. Solvable(p, AnyPlan)
    BY <1>3, <2>2 DEF Planned
  <2>4. QED
    BY <1>6, <1>7, <2>1, <2>3
<1>9. SoundState(st) /\ OnTime(st) /\ Answered(Known(st), p, {}, Pats[pat]) => q.result = "plan"
  <2>1. SUFFICES ASSUME SoundState(st), OnTime(st), Answered(Known(st), p, {}, Pats[pat])
                 PROVE  q.result = "plan"
    OBVIOUS
  <2>2. PICK e \in Known(st) : e.key = p /\ e.slv # Infeasible
    BY <2>1 DEF Answered
  <2>3. e.slv \in SolversOf(p) /\ <<e.slv, e.l>> \in PlansAt[Depth]
    BY <2>1, <2>2 DEF SoundState, SoundEntry, TrueEntry, Plannable
  <2>4. <<e.slv, {}>> \in PlansAt[Depth]
    BY <2>3, LibraryFacts, PlansAntitone
  <2>5. Solvable(p, AnyPlan)
    BY <2>3, <2>4 DEF Solvable, Plannable, AnyPlan
  <2>6. o.pln # NoPlan
    BY <1>3, <2>1, <2>5, SoundIsTrue DEF Planned
  <2>7. q.result # None
    BY <1>4, <1>6, <2>6
  <2>8. QED
    BY <1>6, <1>8, <2>1, <2>7
<1>10. QED
  BY <1>6, <1>7, <1>8, <1>9

-----------------------------------------------------------------------------
(* The invariant of the planner                                            *)

\* The wisdom is well-formed, and what the planner found without foreign wisdom
\* is true, complete below every solution, and holds what the last call planned.
WisdomInv ==
    /\ blessed \in SUBSET Solutions /\ sound \in BOOLEAN
    /\ sound => SoundState(Ready(0))

CallInv ==
    /\ last.op = "plan" =>
         /\ last.p \in Problems /\ last.pat \in 1..3
         /\ last.result \in {None, "plan", "crash"}
         /\ last.result # None <=> Solvable(last.p, AnyPlan)
         /\ sound /\ last.limit = 0 /\ last.result = "plan" =>
              Answered(blessed, last.p, {}, Pats[last.pat])
    /\ last.op \in {"plan", "wisdom only"} /\ (sound \/ last.limit = 0) => last.result # "crash"

PlannerInv == WisdomInv /\ CallInv

\* The planner between two calls.
LEMMA ReadyType ==
  ASSUME blessed \in SUBSET Solutions, NEW limit \in Nat
  PROVE  /\ Ready(limit) \in States /\ ~Ready(limit).late /\ Ready(limit).limit = limit
         /\ Known(Ready(limit)) = blessed
         /\ OnTime(Ready(limit)) <=> limit = 0
         /\ SoundState(Ready(limit)) <=> SoundState(Ready(0))
<1>1. \A x \in Nat : /\ Ready(x) \in States /\ ~Ready(x).late /\ Ready(x).limit = x
                     /\ Ready(x).blessed = blessed /\ Ready(x).unblessed = {}
  BY DEF Ready, States
<1>2. \A x \in Nat : Known(Ready(x)) = blessed
  BY <1>1 DEF Known
<1>3. 0 \in Nat
  OBVIOUS
<1>4. SoundState(Ready(limit)) <=> SoundState(Ready(0))
  BY <1>1, <1>2, <1>3 DEF SoundState
<1>5. QED
  BY <1>1, <1>2, <1>4 DEF OnTime

\* What a call leaves for the next.
LEMMA SoundStays ==
  ASSUME blessed \in SUBSET Solutions, NEW limit \in Nat, NEW st \in States,
         Holds(Ready(limit), st), blessed' = st.blessed, sound, SoundState(Ready(0))
  PROVE  SoundState(Ready(0))'
<1>1. SoundState(st)
  BY ReadyType DEF Holds
<1>2. Ready(0)'.blessed = st.blessed /\ Ready(0)'.unblessed = {}
  BY DEF Ready
<1>3. Known(Ready(0)') = st.blessed
  BY <1>2 DEF Known
<1>4. (\A e \in st.blessed : SoundEntry(e)) /\ Closed(st.blessed)
  BY <1>1 DEF SoundState, Known
<1>5. SoundState(Ready(0)')
  BY <1>2, <1>3, <1>4 DEF SoundState
<1>6. QED
  BY <1>5 DEF SoundState, Known, Closed, ChildrenAnswered, Answered, SoundEntry, TrueEntry, Solvable,
              Plannable

\* There is no wisdom at first.
LEMMA PlannerInvInit == Init => PlannerInv
<1> SUFFICES ASSUME Init PROVE PlannerInv
  OBVIOUS
<1>1. blessed = {} /\ sound = TRUE /\ last.op = "none"
  BY DEF Init, NoCall
<1>2. Known(Ready(0)) = {} /\ Ready(0).blessed = {}
  BY <1>1 DEF Known, Ready
<1>3. SoundState(Ready(0))
  BY <1>2 DEF SoundState, Closed
<1>4. QED
  BY <1>1, <1>3 DEF PlannerInv, WisdomInv, CallInv

\* Each call of the API keeps the invariant, and so does each line of a wisdom file.
LEMMA PlannerInvNext ==
  ASSUME PlannerInv, [Next]_vars PROVE PlannerInv'
<1>1. /\ blessed \in SUBSET Solutions /\ sound \in BOOLEAN
      /\ sound => SoundState(Ready(0))
  BY DEF PlannerInv, WisdomInv
<1>2. ASSUME NEW p \in Requested, NEW pat \in DOMAIN Pats, NEW limit \in Limits, Plan(p, pat, limit)
      PROVE  PlannerInv'
  <2>1. p \in Problems /\ pat \in 1..3 /\ limit \in Nat
    BY LibraryFacts, PatsType
  <2>2. PICK o \in MkApiPlan(Ready(limit), p, pat) : Returned("plan", p, pat, o)
    BY <1>2 DEF Plan
  <2>3. Ready(limit) \in States /\ ~Ready(limit).late /\ Ready(limit).limit = limit
    BY <1>1, <2>1, ReadyType
  <2>4. PICK st \in States : st = Ready(limit)
    BY <2>3
  <2>5. ApiResult(st, p, pat, o)
    BY <2>1, <2>2, <2>3, <2>4, MkApiPlanAnswers
  <2>6. /\ blessed' = o.st.blessed /\ sound' = sound
        /\ last'.op = "plan" /\ last'.p = p /\ last'.pat = pat /\ last'.result = o.result
        /\ last'.limit = limit
    BY <1>2, <2>2, <2>3, <2>4, <2>5 DEF Plan, Returned, ApiResult, Holds
  <2>7. sound' => SoundState(Ready(0))'
    BY <1>1, <2>1, <2>4, <2>5, <2>6, SoundStays DEF ApiResult
  <2>8. WisdomInv'
    BY <1>1, <2>5, <2>6, <2>7 DEF WisdomInv, ApiResult, States
  <2>9. (limit = 0 => OnTime(st)) /\ (sound => SoundState(st))
    BY <1>1, <2>1, <2>4, ReadyType
  <2>10. /\ o.result \in {None, "plan", "crash"}
         /\ o.result # None <=> Solvable(p, AnyPlan)
         /\ sound /\ limit = 0 /\ o.result = "plan" => Answered(o.st.blessed, p, {}, Pats[pat])
         /\ sound \/ limit = 0 => o.result # "crash"
    BY <2>5, <2>9 DEF ApiResult
  <2>11. CallInv'
    BY <2>1, <2>6, <2>10 DEF CallInv, Answered, Solvable, Plannable
  <2>12. QED
    BY <2>8, <2>11 DEF PlannerInv
<1>3. ASSUME NEW p \in Requested, NEW pat \in DOMAIN Pats, NEW limit \in Limits,
             PlanWisdomOnly(p, pat, limit)
      PROVE  PlannerInv'
  <2>1. p \in Problems /\ pat \in 1..3 /\ limit \in Nat
    BY LibraryFacts, PatsType
  <2>2. PICK o \in MkWisdomOnly(Ready(limit), p, pat) : Returned("wisdom only", p, pat, o)
    BY <1>3 DEF PlanWisdomOnly
  <2>3. Ready(limit) \in States /\ Ready(limit).limit = limit
    BY <1>1, <2>1, ReadyType
  <2>4. PICK st \in States : st = Ready(limit)
    BY <2>3
  <2>5. o.st \in States /\ Holds(st, o.st) /\ (OnTime(st) \/ SoundState(st) => o.result # "crash")
    BY <2>1, <2>2, <2>4, MkWisdomOnlyAnswers
  <2>6. /\ blessed' = o.st.blessed /\ sound' = sound
        /\ last'.op = "wisdom only" /\ last'.result = o.result /\ last'.limit = limit
    BY <1>3, <2>2, <2>3, <2>4, <2>5 DEF PlanWisdomOnly, Returned, Holds
  <2>7. sound' => SoundState(Ready(0))'
    BY <1>1, <2>1, <2>4, <2>5, <2>6, SoundStays
  <2>8. WisdomInv'
    BY <1>1, <2>5, <2>6, <2>7 DEF WisdomInv, States
  <2>9. sound \/ limit = 0 => o.result # "crash"
    BY <1>1, <2>1, <2>4, <2>5, ReadyType
  <2>10. CallInv'
    BY <2>6, <2>9 DEF CallInv
  <2>11. QED
    BY <2>8, <2>10 DEF PlannerInv
<1>4. ASSUME ForgetWisdom PROVE PlannerInv'
  <2>1. blessed' = {} /\ sound' = TRUE /\ last'.op = "none"
    BY <1>4 DEF ForgetWisdom, NoCall
  <2>2. Known(Ready(0))' = {} /\ Ready(0)'.blessed = {}
    BY <2>1 DEF Known, Ready
  <2>3. SoundState(Ready(0))'
    BY <2>2 DEF SoundState, Closed
  <2>4. QED
    BY <2>1, <2>3 DEF PlannerInv, WisdomInv, CallInv
<1>5. ASSUME NEW e \in Importable, Import(e) PROVE PlannerInv'
  <2>1. blessed' = Inserted(blessed, e) /\ sound' = FALSE /\ last'.op = "none"
    BY <1>5 DEF Import, NoCall
  <2>2. blessed' \in SUBSET Solutions
    BY <1>1, <2>1, LibraryFacts, InsertedEntries
  <2>3. QED
    BY <2>1, <2>2 DEF PlannerInv, WisdomInv, CallInv
<1>6. ASSUME UNCHANGED vars PROVE PlannerInv'
  BY <1>6 DEF vars, PlannerInv, WisdomInv, CallInv, Ready, SoundState, Known, Closed,
              ChildrenAnswered, Answered, SoundEntry, TrueEntry, Solvable, Plannable
<1>7. QED
  BY <1>2, <1>3, <1>4, <1>5, <1>6 DEF Next

\* So it always holds.
LEMMA PlannerInvariant == Spec => []PlannerInv
<1>1. PlannerInv /\ [Next]_vars => PlannerInv'
  BY PlannerInvNext
<1>2. QED
  BY <1>1, PlannerInvInit, PTL DEF Spec

\* A solution that the planner found itself names plans that exist, and what it
\* calls infeasible has no plan: ifftw.h:614-621.
THEOREM WisdomStaysTrue == Spec => []WisdomIsTrue
<1>1. PlannerInv => WisdomIsTrue
  <2>1. SUFFICES ASSUME PlannerInv, sound, NEW e \in blessed
                 PROVE  IF e.slv # Infeasible THEN Plannable(e.slv, e)
                        ELSE e.ti = 0 => ~Solvable(e.key, e)
    BY DEF WisdomIsTrue
  <2>2. SoundState(Ready(0)) /\ e \in Known(Ready(0))
    BY <2>1, ReadyType DEF PlannerInv, WisdomInv
  <2>3. QED
    BY <2>2 DEF SoundState, SoundEntry, TrueEntry
<1>2. QED
  BY <1>1, PlannerInvariant, PTL

\* What fftw_plan remembers is enough for FFTW_WISDOM_ONLY.
THEOREM WisdomAlwaysSuffices == Spec => []WisdomSuffices
<1>1. PlannerInv => WisdomSuffices
  <2>1. SUFFICES ASSUME PlannerInv, sound, last.op = "plan", last.result = "plan", last.limit = 0,
                        NEW o \in MkWisdomOnly(Ready(0), last.p, last.pat)
                 PROVE  o.result = "plan"
    BY DEF WisdomSuffices
  <2>2. PICK st \in States : st = Ready(0)
    BY <2>1, ReadyType DEF PlannerInv, WisdomInv
  <2>3. SoundState(st) /\ OnTime(st) /\ Known(st) = blessed
    BY <2>1, <2>2, ReadyType DEF PlannerInv, WisdomInv
  <2>4. PICK p \in Problems, pat \in 1..3 : p = last.p /\ pat = last.pat
    BY <2>1 DEF PlannerInv, CallInv
  <2>5. Answered(Known(st), p, {}, Pats[pat])
    BY <2>1, <2>3, <2>4 DEF PlannerInv, CallInv
  <2>6. o \in MkWisdomOnly(st, p, pat)
    BY <2>1, <2>2, <2>4
  <2>7. QED
    BY <2>3, <2>5, <2>6, MkWisdomOnlyAnswers
<1>2. QED
  BY <1>1, PlannerInvariant, PTL

\* PlansAreMade, for all wisdom and all time limits: fftw_plan finds a plan if
\* and only if the library can make one, and makes it again if the wisdom is the
\* planner's own or there is no time limit.
THEOREM PlansAreAlwaysMade == Spec => []PlansAreMade
<1>1. PlannerInv => PlansAreMade
  BY DEF PlannerInv, CallInv, PlansAreMade, None
<1>2. QED
  BY <1>1, PlannerInvariant, PTL

-----------------------------------------------------------------------------
(* What apiplan.c asserts of mkplan                                        *)

\* A planner that finds its wisdom inconsistent returns no plan.
LEMMA BogusMkPlan ==
  ASSUME NEW mk \in Planners, NEW st \in States, NEW p \in Problems, NEW flags \in FlagSets,
         NEW q \in MkPlan(mk, st, p, flags), q.st.ws = "bogus"
  PROVE  q.pln = NoPlan
<1>1. ASSUME NEW a \in States, q \in Bogus(a) PROVE q.pln = NoPlan
  BY <1>1, BogusType
<1>2. ASSUME NEW a \in States, NEW f \in FlagSets, NEW slv \in Plans, q = Remember(a, p, f, slv)
      PROVE  a.ws = "bogus"
  <2>1. HInsert(a, p, f, slv).ws = a.ws
    BY HInsertType
  <2>2. q.st.ws = a.ws
    BY <1>2, <2>1 DEF Remember
  <2>3. QED
    BY <2>2
<1>3. ASSUME NEW a \in States, NEW f \in FlagSets, q \in DoSearch(mk, a, p, f) PROVE q.pln = NoPlan
  <2>1. CASE a.ws = "only"
    BY <1>1, <1>3, <2>1 DEF DoSearch
  <2>2. CASE a.ws # "only"
    <3>1. PICK o \in Search(mk, a, p, f) :
            q \in IF o.st.ws = "bogus" THEN Bogus(o.st)
                  ELSE IF ~o.st.timed
                       THEN {Remember(o.st, p, [[f EXCEPT !.l = o.l] EXCEPT !.ti = 0], o.pln)}
                  ELSE IF f.ti = 0 THEN {[st |-> o.st, pln |-> NoPlan]}
                  ELSE {Remember(o.st, p, [[f EXCEPT !.l = o.l] EXCEPT !.bless = TRUE], NoPlan)}
      BY <1>3, <2>2 DEF DoSearch
    <3>2. o.st \in States /\ o.pln \in Plans /\ o.l \in SUBSET Flags /\ NoPlan \in Plans
      <4>1. o \in Searched
        BY SearchType
      <4>2. QED
        BY <4>1 DEF Searched, Plans
    <3>3. /\ [[f EXCEPT !.l = o.l] EXCEPT !.ti = 0] \in FlagSets
          /\ [[f EXCEPT !.l = o.l] EXCEPT !.bless = TRUE] \in FlagSets
      BY <3>2 DEF FlagSets
    <3>4. CASE o.st.ws = "bogus"
      BY <1>1, <3>1, <3>2, <3>4
    <3>5. CASE o.st.ws # "bogus"
      <4>1. q = [st |-> o.st, pln |-> NoPlan]
        BY <1>2, <3>1, <3>2, <3>3, <3>5
      <4>2. QED
        BY <4>1
    <3>6. QED
      BY <3>4, <3>5
  <2>3. QED
    BY <2>1, <2>2
<1>4. PICK f \in FlagSets : f = IF Estimate \in flags.u THEN [flags EXCEPT !.ti = 0] ELSE flags
  BY DEF FlagSets
<1>5. PICK st0 \in States : st0 = [st EXCEPT !.timed = FALSE]
  BY DEF States
<1>6. st0.ws = st.ws
  BY <1>5 DEF States
<1>7. PICK sols : sols = IF st.ws = "ignore_all" THEN {} ELSE HLookup(st, p, f)
  OBVIOUS
<1>8. MkPlan(mk, st, p, flags) =
        IF st.ws = "bogus" THEN {[st |-> st, pln |-> NoPlan]}
        ELSE IF sols = {} THEN DoSearch(mk, st0, p, f)
        ELSE UNION {IF sol.slv # Infeasible THEN UseWisdom(mk, st0, p, f, sol)
                    ELSE IF st.ws = "ignore_infeasible" THEN DoSearch(mk, st0, p, f)
                    ELSE {[st |-> st0, pln |-> NoPlan]} : sol \in sols}
  BY <1>4, <1>5, <1>7 DEF MkPlan
<1>9. CASE st.ws = "bogus"
  BY <1>8, <1>9
<1>10. CASE st.ws # "bogus" /\ sols = {}
  BY <1>3, <1>8, <1>10
<1>11. CASE st.ws # "bogus" /\ sols # {}
  <2>1. PICK sol \in sols :
          q \in IF sol.slv # Infeasible THEN UseWisdom(mk, st0, p, f, sol)
                ELSE IF st.ws = "ignore_infeasible" THEN DoSearch(mk, st0, p, f)
                ELSE {[st |-> st0, pln |-> NoPlan]}
    BY <1>8, <1>11
  <2>2. sol \in Solutions
    BY <1>7, <1>11, <2>1, HLookupType
  <2>3. CASE sol.slv = Infeasible
    BY <1>3, <2>1, <2>3
  <2>4. CASE sol.slv # Infeasible
    <3>1. q \in UseWisdom(mk, st0, p, f, sol)
      BY <2>1, <2>4
    <3>2. CASE sol.slv \notin SolversOf(p)
      BY <1>1, <3>1, <3>2 DEF UseWisdom
    <3>3. CASE sol.slv \in SolversOf(p)
      <4>1. PICK g \in FlagSets : g = EntryFlags(sol, f)
        BY <2>2, <2>4, UseWisdomType
      <4>2. PICK a \in States : a = [st0 EXCEPT !.ws = "only"]
        BY DEF States
      <4>3. PICK o \in InvokeSolver(mk, a, sol.slv, g) :
              q \in IF o.st.ws = "bogus" \/ o.pln = NoPlan THEN Bogus(o.st)
                    ELSE {Remember([o.st EXCEPT !.ws = st0.ws], p, g, sol.slv)}
        BY <3>1, <3>3, <4>1, <4>2 DEF UseWisdom, EntryFlags
      <4>4. sol.slv \in AllSolvers
        BY <2>2, <2>4 DEF Solutions
      <4>5. o.st \in States
        BY <4>3, <4>4, InvokeSolverType, OutcomeParts
      <4>6. PICK b \in States : b = [o.st EXCEPT !.ws = st0.ws]
        BY <4>5 DEF States
      <4>7. b.ws # "bogus" /\ sol.slv \in Plans
        BY <1>6, <1>11, <4>4, <4>5, <4>6 DEF Plans, States
      <4>8. q \in Bogus(o.st)
        BY <1>2, <4>3, <4>6, <4>7
      <4>9. QED
        BY <1>1, <4>5, <4>8
    <3>4. QED
      BY <3>2, <3>3
  <2>5. QED
    BY <2>3, <2>4
<1>12. QED
  BY <1>9, <1>10, <1>11

\* apiplan.c:62 and 69, A(!pln): with inconsistent wisdom there is no plan.
THEOREM BogusHasNoPlan ==
  ASSUME NEW st \in States, NEW p \in Problems, NEW pat \in 1..3, NEW bless \in BOOLEAN,
         NEW ws \in Modes, NEW o \in MkPlan0(st, p, pat, bless, ws), o.st.ws = "bogus"
  PROVE  o.pln = NoPlan
<1>1. PICK a \in States : a = [st EXCEPT !.ws = ws]
  BY DEF States, Modes
<1>2. PICK f \in FlagSets : f = [l |-> {}, u |-> Pats[pat], ti |-> st.limit, bless |-> bless]
  BY PatsType DEF FlagSets, States
<1>3. PICK c \in Calls : c = <<a, p, f>>
  BY DEF Calls
<1>4. c[1] = a /\ c[2] = p /\ c[3] = f
  BY <1>3
<1>5. o \in MkPlanAt[Depth][c]
  BY <1>1, <1>2, <1>3 DEF MkPlan0
<1>6. Depth \in Nat /\ Depth # 0
  BY <1>5, MkPlanAtUnfolds, LibraryFacts
<1>7. Depth \in 1..Depth /\ Depth - 1 \in 0..Depth
  BY <1>6
<1>8. PICK mk \in Planners : mk = MkPlanAt[Depth - 1]
  BY <1>7, MkPlanAtUnfolds
<1>9. o \in MkPlan(mk, a, p, f)
  BY <1>4, <1>5, <1>7, <1>8, MkPlanAtUnfolds
<1>10. QED
  BY <1>9, BogusMkPlan

\* apiplan.c:66-75: after all wisdom was forgotten what is planned again is
\* consistent, so the third try without wisdom never takes place.
THEOREM ForgottenWisdomIsConsistent ==
  ASSUME NEW st \in States, NEW p \in Problems, NEW pat \in 1..3, NEW bless \in BOOLEAN,
         NEW o \in MkPlan0(ForgetEverything(st), p, pat, bless, "normal")
  PROVE  o.st.ws # "bogus"
<1>1. PICK a : a = ForgetEverything(st)
  OBVIOUS
<1>2. a \in States /\ SoundState(a)
  BY <1>1, Forgotten
<1>3. "normal" \in Modes
  BY DEF Modes
<1>4. Planned(a, p, pat, bless, "normal", o)
  BY <1>1, <1>2, <1>3, MkPlan0Answers
<1>5. QED
  BY <1>2, <1>4 DEF Planned

\* apiplan.c:115, A(!pln || plnr->timed_out): whatever is remembered, a problem
\* that was planned once gets no plan only because time has run out.
THEOREM OnlyTimeFails ==
  ASSUME NEW st \in States, NEW p \in Problems, NEW pat \in 1..3, NEW bless \in BOOLEAN,
         NEW r \in ApiMkPlan(st, p, pat, bless), r.pln = NoPlan, Solvable(p, AnyPlan)
  PROVE  r.st.timed
<1>1. ApiAnswer(st, p, pat, bless, r)
  BY ApiMkPlanAnswers
<1>2. QED
  BY <1>1 DEF ApiAnswer

=============================================================================
