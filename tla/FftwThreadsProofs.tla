--------------------------- MODULE FftwThreadsProofs ---------------------------
(***************************************************************************)
(* Theorems on the thread pool, for any clients, workers and loops.        *)
(***************************************************************************)
EXTENDS FftwThreads, WellFoundedInduction, TLAPS

\* ThreadedPlannerHasPool is not inductive: the end of cleanup_threads clears
\* threads_inited, so it must be known that a planner for several threads did not
\* come back since cleanup_threads began; and plan_with_nthreads keeps the planner
\* of an initialised pool, so it must be known that any planner that exists beside
\* the pool has threaded solvers, whoever created it.
PoolInv ==
  /\ inited \in BOOLEAN
  /\ planner \in [exists : BOOLEAN, threads : BOOLEAN, hooks : BOOLEAN, nthr : Nat]
  /\ planner.nthr > 1 => planner.exists /\ inited /\ kill = Nobody
  /\ planner.exists /\ inited /\ kill = Nobody => planner.threads \/ planner.hooks

\* The places of kill_workforce differ.
LEMMA KillPlaces == Nobody # Starting /\ \A q : Nobody # Ending(q) /\ Starting # Ending(q)
<1>1. Len(<<>>) = 0 /\ Len(<<"starting">>) = 1 /\ \A q : Len(<<"ending", q>>) = 2
  OBVIOUS
<1>2. QED
  BY <1>1 DEF Nobody, Starting, Ending

\* The steps of spawn_loop and of the workers leave the pool itself alone.
LEMMA ThreadsLeavePool ==
  ASSUME NEW t \in Threads, ThreadStep(t) PROVE UNCHANGED <<inited, planner, kill>>
<1>1. CASE Dequeue(t) \/ Assign(t) \/ OwnBlock(t) \/ OwnBlockEnds(t)
  BY <1>1 DEF Dequeue, Assign, OwnBlock, OwnBlockEnds
<1>2. CASE DownDone(t) \/ Enqueue(t) \/ Return(t)
  BY <1>2 DEF DownDone, Enqueue, Return
<1>3. CASE t \in Workers /\ (Take(t) \/ WorkDone(t))
  BY <1>3 DEF Take, WorkDone
<1>4. QED
  BY <1>1, <1>2, <1>3, SMTT(30) DEF ThreadStep

LEMMA NoPlannerIs ==
  /\ NoPlanner \in [exists : BOOLEAN, threads : BOOLEAN, hooks : BOOLEAN, nthr : Nat]
  /\ ~NoPlanner.exists /\ NoPlanner.nthr = 1
  BY DEF NoPlanner

\* the_planner leaves what exists, and creates what lacks.
LEMMA PlanningPlanner ==
  ASSUME NEW b \in [exists : BOOLEAN, threads : BOOLEAN, hooks : BOOLEAN, nthr : Nat],
         NEW r \in BOOLEAN
  PROVE  /\ Planning(b, r) \in [exists : BOOLEAN, threads : BOOLEAN, hooks : BOOLEAN, nthr : Nat]
         /\ Planning(b, r).exists
         /\ b.exists => Planning(b, r) = b
         /\ ~b.exists => Planning(b, r).hooks = r /\ Planning(b, r).nthr = 1
  BY DEF Planning, NoPlanner

LEMMA StepPool == PoolInv /\ [Next]_vars => PoolInv'
<1> SUFFICES ASSUME PoolInv, [Next]_vars PROVE PoolInv'
  OBVIOUS
<1> USE DEF PoolInv
<1>1. CASE UNCHANGED vars
  BY <1>1 DEF vars
<1>2. CASE InitThreads
  <2>1. PICK q : q = Planning(planner, TRUE)
    OBVIOUS
  <2>2. /\ q \in [exists : BOOLEAN, threads : BOOLEAN, hooks : BOOLEAN, nthr : Nat]
        /\ q.exists
    BY <2>1, PlanningPlanner
  <2>3. /\ ~inited /\ inited' = TRUE /\ kill' = kill
        /\ planner' = [q EXCEPT !.threads = TRUE, !.nthr = planner.nthr]
    BY <1>2, <2>1 DEF InitThreads, Initialised
  <2>4. planner.nthr \in Nat /\ ~(planner.nthr > 1)
    BY <2>3
  <2>5. QED
    BY <2>2, <2>3, <2>4
<1>3. CASE ThePlanner
  <2>1. kill = Nobody /\ ~planner.exists /\ inited' = inited /\ kill' = kill
    BY <1>3, Zenon DEF ThePlanner, PlannerFree
  <2>2. planner' = Planning(planner, inited)
    BY <1>3, Zenon DEF ThePlanner
  <2>3. QED
    BY <2>1, <2>2, PlanningPlanner
<1>4. CASE Cleanup \/ CleanupThreads
  <2>1. planner' = NoPlanner /\ inited' = inited
    BY <1>4 DEF Cleanup, CleanupThreads
  <2>2. QED
    BY <2>1, NoPlannerIs
<1>5. CASE KillStep
  <2>1. kill # Nobody
    BY <1>5, KillPlaces, Zenon DEF KillStep, KillNext, Unmake, CleanupEnds
  <2>2. planner' = planner
    BY <1>5, Zenon DEF KillStep, KillNext, Unmake, CleanupEnds
  <2>3. (~inited' \/ kill' # Nobody) /\ inited' \in {inited, FALSE}
    BY <1>5, KillPlaces, Zenon DEF KillStep, KillNext, Unmake, CleanupEnds
  <2>4. QED
    BY <2>1, <2>2, <2>3
<1>6. ASSUME NEW n \in 1 .. MaxThreads, PlanWithNthreads(n) PROVE PoolInv'
  <2>1. n \in Nat
    BY BoundsAssumption
  <2>2. kill = Nobody /\ kill' = kill
    BY <1>6, Zenon DEF PlanWithNthreads, PlannerFree
  <2>3. CASE ~inited /\ Initialised(NoPlanner, n)
    <3>1. PICK q : q = Planning(NoPlanner, TRUE)
      OBVIOUS
    <3>2. inited' = TRUE /\ planner' = [q EXCEPT !.threads = TRUE, !.nthr = n]
      BY <2>3, <3>1 DEF Initialised
    <3>3. /\ q \in [exists : BOOLEAN, threads : BOOLEAN, hooks : BOOLEAN, nthr : Nat]
          /\ q.exists
      BY <3>1, NoPlannerIs, PlanningPlanner
    <3>4. QED
      BY <2>1, <2>2, <3>2, <3>3
  <2>4. CASE inited /\ inited' = inited
             /\ planner' = [Planning(planner, TRUE) EXCEPT !.nthr = n]
    <3>1. PICK q : q = Planning(planner, TRUE)
      OBVIOUS
    <3>2. /\ q \in [exists : BOOLEAN, threads : BOOLEAN, hooks : BOOLEAN, nthr : Nat]
          /\ q.exists /\ (q.threads \/ q.hooks)
      BY <2>2, <2>4, <3>1, PlanningPlanner
    <3>3. planner' = [q EXCEPT !.nthr = n]
      BY <2>4, <3>1
    <3>4. QED
      BY <2>1, <2>2, <2>4, <3>2, <3>3
  <2>5. QED
    BY <1>6, <2>3, <2>4, Zenon DEF PlanWithNthreads
<1>7. ASSUME NEW t \in Threads, ThreadStep(t) PROVE PoolInv'
  BY <1>7, ThreadsLeavePool
<1>8. ASSUME NEW t \in Threads, NEW l \in Loops, Call(t, l[1], l[2]) PROVE PoolInv'
  BY <1>8 DEF Call
<1>9. QED
  BY <1>1, <1>2, <1>3, <1>4, <1>5, <1>6, <1>7, <1>8 DEF Next

\* Through any sequence of initialisations, planning, fftw_cleanup and
\* fftw_cleanup_threads, a planner that plans for several threads exists only while
\* the pool does, so that no plan of its making calls spawn_loop on a queue that
\* was destroyed, and it has threaded solvers.
THEOREM PoolOutlivesPlanner == Spec => []ThreadedPlannerHasPool
<1>1. Init => PoolInv
  <2>1. SUFFICES ASSUME Init PROVE PoolInv
    OBVIOUS
  <2>2. ~inited /\ inited \in BOOLEAN /\ planner = NoPlanner
    BY <2>1, Zenon DEF Init
  <2>3. QED
    BY <2>2, NoPlannerIs DEF PoolInv
<1>2. PoolInv => ThreadedPlannerHasPool
  BY DEF PoolInv, ThreadedPlannerHasPool
<1>3. QED
  BY <1>1, <1>2, StepPool, PTL DEF Spec

-----------------------------------------------------------------------------
(* The division of a loop into blocks.                                     *)

LEMMA Quotient ==
  ASSUME NEW x \in Nat, NEW b \in Nat \ {0}
  PROVE  x \div b \in Nat /\ b * (x \div b) <= x /\ x < b * (x \div b) + b
<1>1. x = b * (x \div b) + (x % b) /\ x % b \in 0 .. b - 1 /\ x \div b \in Int
  BY SMT
<1>2. x \div b >= 0
  BY SMT
<1>3. QED
  BY <1>1, <1>2

LEMMA CeilingIsLeast ==
  ASSUME NEW a \in Nat \ {0}, NEW b \in Nat \ {0}
  PROVE  /\ Ceiling(a, b) \in Nat \ {0}
         /\ a <= b * Ceiling(a, b) /\ b * (Ceiling(a, b) - 1) < a
<1> DEFINE c == Ceiling(a, b)
<1>1. c \in Nat /\ b * c <= a + b - 1 /\ a + b - 1 < b * c + b
  BY Quotient, a + b - 1 \in Nat DEF Ceiling
<1>2. b * (c - 1) = b * c - b
  BY <1>1, SMT
<1>3. c # 0
  BY <1>1, SMT
<1>4. b * c \in Int
  BY <1>1
<1> HIDE DEF c
<1>5. QED
  BY <1>1, <1>2, <1>3, <1>4 DEF c

LEMMA ProductOrder ==
  ASSUME NEW b \in Nat \ {0}, NEW i \in Int, NEW j \in Int, b * i < b * j
  PROVE  i < j
<1>1. CASE j <= i
  <2>1. b * (i - j) >= 0
    BY <1>1, SMT
  <2>2. QED
    BY <2>1
<1>2. QED
  BY <1>1

\* threads.c:388-392: for every loop and every number of threads, the blocks divide
\* the iterations, each of them has one, no more threads are used than were asked
\* for, and with fewer of them the longest block would be longer.
THEOREM BlocksPartitionLoop ==
  ASSUME NEW loopmax \in Nat \ {0}, NEW nthr \in Nat \ {0},
         NEW call, call = NewCall(loopmax, nthr)
  PROVE  /\ call.nthr \in 1 .. nthr
         /\ \A k \in 0 .. loopmax - 1 : \E i \in 0 .. call.nthr - 1 :
              /\ k \in Block(call, i)
              /\ \A j \in 0 .. call.nthr - 1 : k \in Block(call, j) => j = i
         /\ \A i \in 0 .. call.nthr - 1 : Block(call, i) # {}
         /\ \A n \in 1 .. call.nthr - 1 : Ceiling(loopmax, n) > call.block_size
<1> DEFINE bs == Ceiling(loopmax, nthr)
           n0 == Ceiling(loopmax, bs)
<1>1. bs \in Nat \ {0} /\ loopmax <= nthr * bs
  BY CeilingIsLeast
<1>2. n0 \in Nat \ {0} /\ loopmax <= bs * n0 /\ bs * (n0 - 1) < loopmax
  BY <1>1, CeilingIsLeast
<1> HIDE DEF bs, n0
<1>3. call.loopmax = loopmax /\ call.block_size = bs /\ call.nthr = n0
  BY DEF NewCall, bs, n0
<1>4. \A i, k : k \in Block(call, i)
                <=> k \in 0 .. loopmax - 1 /\ i * bs <= k /\ k < (i + 1) * bs
  BY <1>3 DEF Block
<1>5. call.nthr \in 1 .. nthr
  <2>1. bs * (n0 - 1) < bs * nthr
    BY <1>1, <1>2, SMT
  <2>2. n0 - 1 < nthr
    BY <1>1, <1>2, <2>1, ProductOrder
  <2>3. QED
    BY <1>2, <1>3, <2>2
<1>6. ASSUME NEW k \in 0 .. loopmax - 1
      PROVE  \E i \in 0 .. call.nthr - 1 :
               /\ k \in Block(call, i)
               /\ \A j \in 0 .. call.nthr - 1 : k \in Block(call, j) => j = i
  <2> DEFINE i == k \div bs
  <2>1. i \in Nat /\ bs * i <= k /\ k < bs * i + bs
    BY <1>1, Quotient
  <2> HIDE DEF i
  <2>2. bs * i = i * bs /\ (i + 1) * bs = bs * i + bs
    BY <1>1, <2>1, SMT
  <2>3. k \in Block(call, i)
    BY <1>4, <2>1, <2>2
  <2>4. i < n0
    <3>1. bs * i < bs * n0
      BY <1>1, <1>2, <2>1, SMT
    <3>2. QED
      BY <1>1, <1>2, <2>1, <3>1, ProductOrder
  <2>5. ASSUME NEW j \in 0 .. call.nthr - 1, k \in Block(call, j) PROVE j = i
    <3>1. j \in Int /\ j * bs <= k /\ k < (j + 1) * bs
      BY <1>2, <1>3, <1>4, <2>5
    <3>2. bs * j < bs * (i + 1) /\ bs * i < bs * (j + 1)
      BY <1>1, <2>1, <3>1, SMT
    <3>3. j < i + 1 /\ i < j + 1
      BY <1>1, <2>1, <3>1, <3>2, ProductOrder
    <3>4. QED
      BY <2>1, <3>1, <3>3
  <2>6. i \in 0 .. call.nthr - 1
    BY <1>2, <1>3, <2>1, <2>4
  <2>7. QED
    BY <2>3, <2>5, <2>6
<1>7. ASSUME NEW i \in 0 .. call.nthr - 1 PROVE Block(call, i) # {}
  <2>1. i \in Nat /\ i <= n0 - 1
    BY <1>2, <1>3
  <2>2. i * bs <= bs * (n0 - 1) /\ i * bs >= 0 /\ i * bs < (i + 1) * bs
    BY <1>1, <1>2, <2>1, SMT
  <2>3. i * bs \in 0 .. loopmax - 1
    BY <1>1, <1>2, <2>1, <2>2, SMT
  <2>4. i * bs \in Block(call, i)
    BY <1>1, <1>4, <2>1, <2>2, <2>3
  <2>5. QED
    BY <2>4
<1>8. ASSUME NEW n \in 1 .. call.nthr - 1 PROVE Ceiling(loopmax, n) > call.block_size
  <2>1. n \in Nat \ {0} /\ n <= n0 - 1
    BY <1>2, <1>3
  <2>2. Ceiling(loopmax, n) \in Nat /\ loopmax <= n * Ceiling(loopmax, n)
    BY <2>1, CeilingIsLeast
  <2>3. n * bs <= bs * (n0 - 1)
    BY <1>1, <1>2, <2>1, SMT
  <2>4. n * bs < n * Ceiling(loopmax, n)
    BY <1>1, <1>2, <2>1, <2>2, <2>3, SMT
  <2>5. QED
    BY <1>1, <1>3, <2>1, <2>2, <2>4, ProductOrder
<1>9. QED
  BY <1>5, <1>6, <1>7, <1>8

-----------------------------------------------------------------------------
(* The workers and the calls that hold them.                               *)

Elements(s) == {s[i] : i \in DOMAIN s}
Distinct(s) == \A i, j \in DOMAIN s : s[i] = s[j] => i = j

Phases == {"distribute", "assign", "proc", "join", "enqueue"}
CallRecords ==
  [loopmax : Nat \ {0}, block_size : Nat \ {0}, nthr : Nat \ {0}, i : Nat, phase : Phases,
   q : Seq(Workers), ran : UNION {[0 .. n - 1 -> Nat] : n \in Nat}]
Items == {Terminate, NoWork} \cup (Threads \X Nat \X Nat)
WorkerRecords ==
  [life : {"none", "waiting", "working", "ended"}, ready : Nat, done : Nat,
   w : Items, at : Items]

TypeInv ==
  /\ inited \in BOOLEAN
  /\ queue \in Seq(Workers)
  /\ kill \in {Nobody, Starting} \cup {Ending(q) : q \in Workers}
  /\ termination \in Nat
  /\ worker \in [Workers -> WorkerRecords]
  /\ stack \in [Threads -> Seq(CallRecords)]

Depths(t) == 1 .. Len(stack[t])

\* The workers a call has dequeued, and that only its last call made a call.
CallInv(c) ==
  /\ c.i <= c.nthr - 1
  /\ c.phase = "distribute" => Len(c.q) = c.i
  /\ c.phase = "assign" => Len(c.q) = c.i + 1 /\ c.i < c.nthr - 1
  /\ c.phase \in {"proc", "join", "enqueue"} => Len(c.q) = c.nthr - 1
  /\ c.phase = "enqueue" => c.i < c.nthr - 1
StackInv ==
  \A t \in Threads : \A d \in Depths(t) :
     /\ CallInv(stack[t][d])
     /\ d < Len(stack[t]) => stack[t][d].phase = "proc"

\* Call d of thread t holds worker k of its items: dequeued and not yet enqueued.
Holds(t, d, k) ==
  /\ k \in 1 .. Len(stack[t][d].q)
  /\ stack[t][d].phase \in {"join", "enqueue"} => k > stack[t][d].i
Holding(t, d, k) == t \in Threads /\ d \in Depths(t) /\ Holds(t, d, k)

\* The caller itself is about to signal the worker, or to enqueue it.
InHand(t, d, k) ==
  stack[t][d].phase \in {"assign", "enqueue"} /\ k = stack[t][d].i + 1

\* A worker without a signal; one that was signalled for item a, that executes it
\* or has executed it; one that is to end.
Idle(r) == r.life = "waiting" /\ r.ready = 0 /\ r.done = 0
Signalled(r, a) == r.life = "waiting" /\ r.ready = 1 /\ r.done = 0 /\ r.w = a
Executes(r, a) == r.life = "working" /\ r.ready = 0 /\ r.done = 0 /\ r.at = a
HasServed(r) == r.life = "waiting" /\ r.ready = 0 /\ r.done = 1
Serves(r, a) == Signalled(r, a) \/ Executes(r, a) \/ HasServed(r)

HeldOnce ==
  \A t, d, k, u, e, m :
    Holding(t, d, k) /\ Holding(u, e, m) /\ stack[t][d].q[k] = stack[u][e].q[m]
      => u = t /\ e = d /\ m = k
HeldApart ==
  \A t, d, k : Holding(t, d, k) =>
    stack[t][d].q[k] \notin Elements(queue) /\ kill # Ending(stack[t][d].q[k])
HeldServe ==
  \A t, d, k : Holding(t, d, k) =>
    IF InHand(t, d, k) THEN Idle(worker[stack[t][d].q[k]])
    ELSE Serves(worker[stack[t][d].q[k]], <<t, d, k - 1>>)

Held(q) == \E t, d, k : Holding(t, d, k) /\ stack[t][d].q[k] = q

QueueInv ==
  /\ Distinct(queue)
  /\ \A q \in Elements(queue) : Idle(worker[q]) /\ kill # Ending(q)
WorkerInv ==
  /\ \A q \in Workers : worker[q].life = "none" => worker[q] = Unmade
  /\ \A q \in Workers :
       worker[q].life = "none" \/ q \in Elements(queue) \/ kill = Ending(q) \/ Held(q)
  /\ \A q \in Workers : stack[q] # <<>> => worker[q].life = "working"

KillInv ==
  /\ kill # Nobody => inited
  /\ kill # Nobody \/ ~inited => \A t \in Threads : stack[t] = <<>>
  /\ ~inited => queue = <<>> /\ \A q \in Workers : worker[q].life = "none"
  /\ \A q \in Workers : kill = Ending(q) =>
       \/ Signalled(worker[q], Terminate) /\ termination = 0
       \/ worker[q].life = "ended" /\ worker[q].ready = 0 /\ termination = 1
  /\ (\A q \in Workers : kill # Ending(q)) => termination = 0

Ranks(rank) == \A t, d, k : Holding(t, d, k) => rank[t] < rank[stack[t][d].q[k]]
RankInv == \E rank \in [Threads -> Nat] : Ranks(rank)

CallsInv == TypeInv /\ StackInv /\ HeldOnce /\ HeldApart /\ HeldServe /\ QueueInv
            /\ WorkerInv /\ KillInv /\ RankInv
-----------------------------------------------------------------------------
(* Lemmas. *)

LEMMA WorkersAreThreads == Workers \subseteq Threads
  BY DEF Threads

\* Neither the call nor another thread's is disturbed by what a call does to itself.
LEMMA TopUpdate ==
  ASSUME TypeInv, NEW t \in Threads, stack[t] # <<>>, NEW c \in CallRecords,
         stack' = SetTop(t, c)
  PROVE  /\ stack' \in [Threads -> Seq(CallRecords)]
         /\ Len(stack[t]) \in Depths(t)
         /\ \A u \in Threads : Len(stack'[u]) = Len(stack[u]) /\ Depths(u)' = Depths(u)
         /\ \A u \in Threads : \A d \in Depths(u) :
              stack'[u][d] = IF u = t /\ d = Len(stack[t]) THEN c ELSE stack[u][d]
         /\ \A u \in Threads : stack'[u] = <<>> <=> stack[u] = <<>>
<1> DEFINE n == Len(stack[t])
<1>1. stack \in [Threads -> Seq(CallRecords)]
  BY DEF TypeInv
<1>2. stack[t] \in Seq(CallRecords) /\ n \in Nat /\ n > 0
  BY <1>1
<1>3. stack' = [stack EXCEPT ![t] = [stack[t] EXCEPT ![n] = c]]
  BY DEF SetTop
<1>4. [stack[t] EXCEPT ![n] = c] \in Seq(CallRecords) /\ Len([stack[t] EXCEPT ![n] = c]) = n
      /\ \A d \in 1 .. n : [stack[t] EXCEPT ![n] = c][d] = IF d = n THEN c ELSE stack[t][d]
  BY <1>2
<1>5. stack' \in [Threads -> Seq(CallRecords)]
  BY <1>1, <1>3, <1>4
<1>6. \A u \in Threads : stack'[u] = IF u = t THEN [stack[t] EXCEPT ![n] = c] ELSE stack[u]
  BY <1>1, <1>3
<1>7. \A u \in Threads : Len(stack'[u]) = Len(stack[u])
  BY <1>4, <1>6
<1>8. \A u \in Threads : \A d \in Depths(u) :
              stack'[u][d] = IF u = t /\ d = n THEN c ELSE stack[u][d]
  BY <1>4, <1>6 DEF Depths
<1>9. \A u \in Threads : stack'[u] = <<>> <=> stack[u] = <<>>
  BY <1>1, <1>5, <1>7
<1>10. QED
  BY <1>2, <1>5, <1>7, <1>8, <1>9 DEF Depths

LEMMA CallTypes ==
  ASSUME NEW c \in CallRecords
  PROVE  /\ c.loopmax \in Nat \ {0} /\ c.block_size \in Nat \ {0} /\ c.nthr \in Nat \ {0}
         /\ c.i \in Nat /\ c.phase \in Phases /\ c.q \in Seq(Workers) /\ Len(c.q) \in Nat
  BY DEF CallRecords

LEMMA CallUpdate ==
  ASSUME NEW b \in CallRecords, NEW j \in Nat, NEW phase \in Phases,
         NEW c, c = [b EXCEPT !.i = j, !.phase = phase]
  PROVE  /\ c \in CallRecords /\ c.i = j /\ c.phase = phase /\ c.q = b.q /\ c.ran = b.ran
         /\ c.loopmax = b.loopmax /\ c.block_size = b.block_size /\ c.nthr = b.nthr
  BY DEF CallRecords

LEMMA PhaseUpdate ==
  ASSUME NEW b \in CallRecords, NEW phase \in Phases, NEW c, c = [b EXCEPT !.phase = phase]
  PROVE  /\ c \in CallRecords /\ c.i = b.i /\ c.phase = phase /\ c.q = b.q /\ c.ran = b.ran
         /\ c.loopmax = b.loopmax /\ c.block_size = b.block_size /\ c.nthr = b.nthr
  BY DEF CallRecords

LEMMA SignalWorker ==
  ASSUME NEW b \in WorkerRecords, Idle(b), NEW a \in Items,
         NEW r, r = [b EXCEPT !.w = a, !.ready = b.ready + 1]
  PROVE  r \in WorkerRecords /\ r.life = b.life /\ r.life # "none" /\ Signalled(r, a)
<1>1. b.ready + 1 = 1 /\ 1 \in Nat
  BY DEF Idle
<1>2. r = [b EXCEPT !.w = a, !.ready = 1]
  BY <1>1
<1>3. r \in WorkerRecords /\ r.life = b.life /\ r.done = b.done /\ r.ready = 1 /\ r.w = a
  BY <1>1, <1>2 DEF WorkerRecords
<1>4. QED
  BY <1>3 DEF Idle, Signalled

LEMMA JoinWorker ==
  ASSUME NEW b \in WorkerRecords, NEW a, Serves(b, a), b.done > 0,
         NEW r, r = [b EXCEPT !.done = b.done - 1]
  PROVE  r \in WorkerRecords /\ r.life = b.life /\ r.life # "none" /\ Idle(r)
  BY DEF WorkerRecords, Idle, Serves, Signalled, Executes, HasServed

\* Executing the iterations of an item changes their counts and nothing else.
LEMMA RanIsCall ==
  ASSUME NEW c \in CallRecords, NEW j
  PROVE  /\ Ran(c, j) \in CallRecords
         /\ Ran(c, j).loopmax = c.loopmax /\ Ran(c, j).block_size = c.block_size
         /\ Ran(c, j).nthr = c.nthr /\ Ran(c, j).i = c.i
         /\ Ran(c, j).phase = c.phase /\ Ran(c, j).q = c.q
         /\ Ran(c, j).ran = [k \in DOMAIN c.ran |->
                               IF k \in Block(c, j) THEN c.ran[k] + 1 ELSE c.ran[k]]
<1> DEFINE f == [k \in DOMAIN c.ran |-> IF k \in Block(c, j) THEN c.ran[k] + 1 ELSE c.ran[k]]
<1>1. PICK n \in Nat : c.ran \in [0 .. n - 1 -> Nat]
  BY DEF CallRecords
<1>2. f \in [0 .. n - 1 -> Nat]
  BY <1>1
<1>3. Ran(c, j) = [c EXCEPT !.ran = f]
  BY DEF Ran
<1> HIDE DEF f
<1>4. f \in UNION {[0 .. m - 1 -> Nat] : m \in Nat}
  BY <1>2
<1>5. /\ Ran(c, j) \in CallRecords
      /\ Ran(c, j).loopmax = c.loopmax /\ Ran(c, j).block_size = c.block_size
      /\ Ran(c, j).nthr = c.nthr /\ Ran(c, j).i = c.i
      /\ Ran(c, j).phase = c.phase /\ Ran(c, j).q = c.q
      /\ Ran(c, j).ran = f
  BY <1>3, <1>4 DEF CallRecords
<1>6. QED
  BY <1>5 DEF f

LEMMA Minimum ==
  ASSUME NEW T \in SUBSET Nat, T # {} PROVE \E x \in T : \A y \in T : x <= y
<1>1. ASSUME NEW R, R = {ss \in Nat \X Nat : ss[1] < ss[2]}, IsWellFoundedOn(R, Nat)
      PROVE  \E x \in T : \A y \in T : x <= y
  <2>1. PICK x \in T : \A y \in T : ~ (<<y, x>> \in R)
    BY <1>1, WFMin
  <2>2. ASSUME NEW y \in T PROVE x <= y
    <3>1. ~ (<<y, x>>[1] < <<y, x>>[2])
      BY <1>1, <2>1
    <3>2. QED
      BY <3>1
  <2>3. QED
    BY <2>2
<1>2. OpToRel(<, Nat) = {ss \in Nat \X Nat : ss[1] < ss[2]}
  BY DEF OpToRel
<1>3. IsWellFoundedOn(OpToRel(<, Nat), Nat)
  BY NatLessThanWellFounded
<1>4. QED
  BY <1>1, <1>2, <1>3, Zenon

LEMMA PopHead ==
  ASSUME NEW s \in Seq(Workers), s # <<>>, Distinct(s)
  PROVE  /\ Head(s) \in Elements(s) /\ Tail(s) \in Seq(Workers) /\ Distinct(Tail(s))
         /\ Elements(Tail(s)) = Elements(s) \ {Head(s)}
<1>1. Len(s) \in Nat /\ Len(s) > 0 /\ DOMAIN s = 1 .. Len(s) /\ Head(s) = s[1]
  OBVIOUS
<1>2. Tail(s) \in Seq(Workers) /\ Len(Tail(s)) = Len(s) - 1 /\ DOMAIN Tail(s) = 1 .. Len(s) - 1
      /\ \A i \in 1 .. Len(s) - 1 : Tail(s)[i] = s[i + 1]
  BY <1>1
<1>3. Distinct(Tail(s))
  BY <1>1, <1>2 DEF Distinct
<1>4. ASSUME NEW x \in Elements(s), x # s[1] PROVE x \in Elements(Tail(s))
  <2>1. PICK i \in DOMAIN s : x = s[i]
    BY DEF Elements
  <2>2. i - 1 \in 1 .. Len(s) - 1 /\ Tail(s)[i - 1] = x
    BY <1>1, <1>2, <1>4, <2>1
  <2>3. QED
    BY <1>2, <2>2 DEF Elements
<1>5. ASSUME NEW x \in Elements(Tail(s)) PROVE x \in Elements(s) /\ x # s[1]
  <2>1. PICK i \in 1 .. Len(s) - 1 : x = s[i + 1]
    BY <1>2 DEF Elements
  <2>2. i + 1 \in DOMAIN s /\ 1 \in DOMAIN s /\ i + 1 # 1
    BY <1>1, <2>1
  <2>3. QED
    BY <2>1, <2>2 DEF Elements, Distinct
<1>6. Head(s) \in Elements(s)
  BY <1>1 DEF Elements
<1>7. Elements(Tail(s)) = Elements(s) \ {Head(s)}
  BY <1>1, <1>4, <1>5
<1>8. QED
  BY <1>2, <1>3, <1>6, <1>7

LEMMA PushFront ==
  ASSUME NEW s \in Seq(Workers), NEW x \in Workers, x \notin Elements(s), Distinct(s),
         NEW r, r = <<x>> \o s
  PROVE  /\ r \in Seq(Workers) /\ Distinct(r) /\ Elements(r) = Elements(s) \cup {x}
<1>1. Len(s) \in Nat /\ DOMAIN s = 1 .. Len(s)
  OBVIOUS
<1>2. r \in Seq(Workers) /\ Len(r) = 1 + Len(s) /\ DOMAIN r = 1 .. 1 + Len(s) /\ r[1] = x
  OBVIOUS
<1>3. \A i \in 2 .. 1 + Len(s) : r[i] = s[i - 1] /\ i - 1 \in DOMAIN s
  BY <1>1
<1>4. \A i \in DOMAIN r : IF i = 1 THEN r[i] = x ELSE i - 1 \in DOMAIN s /\ r[i] = s[i - 1]
  BY <1>2, <1>3
<1>5. Distinct(r)
  <2> SUFFICES ASSUME NEW i \in DOMAIN r, NEW j \in DOMAIN r, r[i] = r[j] PROVE i = j
    BY DEF Distinct
  <2>1. i \in Nat /\ j \in Nat
    BY <1>2
  <2>2. CASE i # 1 /\ j # 1
    BY <1>4, <2>1, <2>2 DEF Distinct
  <2>3. CASE i = 1 \/ j = 1
    BY <1>4, <2>1, <2>3 DEF Elements
  <2>4. QED
    BY <2>2, <2>3
<1>6. Elements(r) \subseteq Elements(s) \cup {x}
  BY <1>4 DEF Elements
<1>7. x \in Elements(r)
  BY <1>1, <1>2 DEF Elements
<1>8. ASSUME NEW i \in DOMAIN s PROVE s[i] \in Elements(r)
  <2>1. PICK n \in Nat : n = Len(s) /\ i \in 1 .. n
    BY <1>1
  <2>2. i + 1 \in 1 .. 1 + n /\ i + 1 \in 2 .. 1 + n /\ (i + 1) - 1 = i
    BY <2>1
  <2>3. r[i + 1] = s[i] /\ i + 1 \in DOMAIN r
    BY <1>2, <1>3, <2>1, <2>2
  <2>4. QED
    BY <2>3, SMTT(30) DEF Elements
<1>9. QED
  BY <1>2, <1>5, <1>6, <1>7, <1>8, ZenonT(60) DEF Elements

-----------------------------------------------------------------------------
(* Steps of a call that neither take nor give back a worker.               *)

SameHoldings ==
  /\ \A t, d, k : Holding(t, d, k)' <=> Holding(t, d, k)
  /\ \A t, d, k : Holding(t, d, k) => stack'[t][d].q[k] = stack[t][d].q[k]

LEMMA KeepHoldings ==
  ASSUME SameHoldings
  PROVE  /\ HeldOnce => HeldOnce'
         /\ RankInv => RankInv'
         /\ \A q : Held(q)' <=> Held(q)
         /\ HeldApart /\ UNCHANGED <<queue, kill>> => HeldApart'
<1>1. HeldOnce => HeldOnce'
  BY DEF SameHoldings, HeldOnce
<1>2. ASSUME RankInv PROVE RankInv'
  <2>1. PICK rank \in [Threads -> Nat] : Ranks(rank)
    BY <1>2 DEF RankInv
  <2>2. Ranks(rank)'
    BY <2>1 DEF Ranks, SameHoldings
  <2>3. QED
    BY <2>2 DEF RankInv
<1>3. \A q : Held(q)' <=> Held(q)
  BY DEF Held, SameHoldings
<1>4. ASSUME HeldApart, UNCHANGED <<queue, kill>> PROVE HeldApart'
  BY <1>4 DEF HeldApart, SameHoldings
<1>5. QED
  BY <1>1, <1>2, <1>3, <1>4

LEMMA TopKeeps ==
  ASSUME TypeInv, NEW t \in Threads, stack[t] # <<>>, NEW c \in CallRecords,
         stack' = SetTop(t, c), c.q = Top(t).q,
         \A k \in 1 .. Len(c.q) : (c.phase \in {"join", "enqueue"} => k > c.i)
                              <=> (Top(t).phase \in {"join", "enqueue"} => k > Top(t).i)
  PROVE  SameHoldings
<1> DEFINE n == Len(stack[t])
<1>1. /\ n \in Depths(t)
      /\ \A u \in Threads : Depths(u)' = Depths(u)
      /\ \A u \in Threads : \A d \in Depths(u) :
           stack'[u][d] = IF u = t /\ d = n THEN c ELSE stack[u][d]
  BY TopUpdate
<1>2. \A u \in Threads : \A d \in Depths(u) : stack'[u][d].q = stack[u][d].q
  BY <1>1 DEF Top
<1>3. \A u \in Threads : \A d \in Depths(u) : \A k : Holds(u, d, k)' <=> Holds(u, d, k)
  <2> SUFFICES ASSUME NEW u \in Threads, NEW d \in Depths(u), NEW k
               PROVE  Holds(u, d, k)' <=> Holds(u, d, k)
    OBVIOUS
  <2>1. CASE u = t /\ d = n
    BY <1>1, <1>2, <2>1 DEF Holds, Top
  <2>2. CASE ~(u = t /\ d = n)
    BY <1>1, <2>2 DEF Holds
  <2>3. QED
    BY <2>1, <2>2
<1>4. \A u, d, k : Holding(u, d, k)' <=> Holding(u, d, k)
  BY <1>1, <1>3 DEF Holding
<1>5. QED
  BY <1>2, <1>4 DEF SameHoldings, Holding

\* While a call is under way the pool is open.
LEMMA PoolIsOpen ==
  ASSUME KillInv, NEW t \in Threads, stack[t] # <<>>
  PROVE  /\ inited /\ kill = Nobody /\ termination = 0
         /\ \A q : kill # Ending(q)
  BY KillPlaces DEF KillInv

LEMMA PoolStaysOpen ==
  ASSUME KillInv, NEW t \in Threads, stack[t] # <<>>, UNCHANGED <<inited, kill, termination>>
  PROVE  KillInv'
<1>1. inited' /\ kill' = Nobody /\ termination' = 0 /\ \A q : kill' # Ending(q)
  BY PoolIsOpen
<1>2. QED
  BY <1>1 DEF KillInv

LEMMA TopShape ==
  ASSUME TypeInv, StackInv, NEW t \in Threads, stack[t] # <<>>, NEW c \in CallRecords,
         stack' = SetTop(t, c), CallInv(c)
  PROVE  StackInv'
<1> DEFINE n == Len(stack[t])
<1>1. /\ n \in Depths(t)
      /\ \A u \in Threads : Len(stack'[u]) = Len(stack[u]) /\ Depths(u)' = Depths(u)
      /\ \A u \in Threads : \A d \in Depths(u) :
           stack'[u][d] = IF u = t /\ d = n THEN c ELSE stack[u][d]
  BY TopUpdate
<1>2. QED
  BY <1>1 DEF StackInv, CallInv

\* What is known of the call a thread is in.
LEMMA TopCall ==
  ASSUME TypeInv, StackInv, NEW t \in Threads, stack[t] # <<>>
  PROVE  /\ Top(t) \in CallRecords /\ CallInv(Top(t))
         /\ Len(stack[t]) \in Depths(t) /\ Len(stack[t]) \in Nat \ {0}
<1>1. stack[t] \in Seq(CallRecords) /\ Len(stack[t]) \in Nat \ {0}
  BY DEF TypeInv
<1>2. Len(stack[t]) \in Depths(t)
  BY <1>1 DEF Depths
<1>3. Top(t) \in CallRecords
  BY <1>1 DEF Top
<1>4. QED
  BY <1>1, <1>2, <1>3 DEF StackInv, Top

-----------------------------------------------------------------------------
(* The steps of spawn_loop.                                                *)

\* The caller neither dequeues nor signals, joins or enqueues a worker.
LEMMA QuietUpdate ==
  ASSUME CallsInv, NEW t \in Threads, stack[t] # <<>>, NEW c \in CallRecords, CallInv(c),
         stack' = SetTop(t, c), c.q = Top(t).q,
         \A k \in 1 .. Len(c.q) :
           /\ (c.phase \in {"join", "enqueue"} => k > c.i)
                <=> (Top(t).phase \in {"join", "enqueue"} => k > Top(t).i)
           /\ (c.phase \in {"assign", "enqueue"} /\ k = c.i + 1)
                <=> (Top(t).phase \in {"assign", "enqueue"} /\ k = Top(t).i + 1),
         UNCHANGED <<inited, queue, worker, kill, termination>>
  PROVE  CallsInv'
<1> USE DEF CallsInv
<1> DEFINE n == Len(stack[t])
<1>1. SameHoldings
  BY TopKeeps
<1>2. HeldOnce' /\ RankInv' /\ HeldApart' /\ \A q : Held(q)' <=> Held(q)
  BY <1>1, KeepHoldings
<1>3. StackInv'
  BY TopShape
<1>4. /\ stack' \in [Threads -> Seq(CallRecords)]
      /\ n \in Depths(t)
      /\ \A u \in Threads : Depths(u)' = Depths(u)
      /\ \A u \in Threads : \A d \in Depths(u) :
           stack'[u][d] = IF u = t /\ d = n THEN c ELSE stack[u][d]
      /\ \A u \in Threads : stack'[u] = <<>> <=> stack[u] = <<>>
  BY TopUpdate
<1>5. TypeInv'
  BY <1>4 DEF TypeInv
<1>6. KillInv'
  BY PoolStaysOpen
<1>7. QueueInv'
  BY DEF QueueInv
<1>8. WorkerInv'
  BY <1>2, <1>4, WorkersAreThreads DEF WorkerInv
<1>9. HeldServe'
  <2> SUFFICES ASSUME NEW u, NEW d, NEW k, Holding(u, d, k)'
               PROVE  (IF InHand(u, d, k) THEN Idle(worker[stack[u][d].q[k]])
                       ELSE Serves(worker[stack[u][d].q[k]], <<u, d, k - 1>>))'
    BY DEF HeldServe
  <2>1. Holding(u, d, k) /\ stack'[u][d].q[k] = stack[u][d].q[k]
    BY <1>1 DEF SameHoldings
  <2>2. u \in Threads /\ d \in Depths(u) /\ k \in 1 .. Len(stack[u][d].q)
    BY <2>1 DEF Holding, Holds
  <2>3. InHand(u, d, k)' <=> InHand(u, d, k)
    <3>1. CASE u = t /\ d = n
      BY <1>4, <2>2, <3>1 DEF InHand, Top
    <3>2. CASE ~(u = t /\ d = n)
      BY <1>4, <2>2, <3>2 DEF InHand
    <3>3. QED
      BY <3>1, <3>2
  <2>4. IF InHand(u, d, k) THEN Idle(worker[stack[u][d].q[k]])
        ELSE Serves(worker[stack[u][d].q[k]], <<u, d, k - 1>>)
    BY <2>1 DEF HeldServe
  <2>5. worker' = worker
    OBVIOUS
  <2>6. QED
    BY <2>1, <2>3, <2>4, <2>5
<1>10. QED
  BY <1>2, <1>3, <1>5, <1>6, <1>7, <1>8, <1>9

LEMMA StepOwnBlock ==
  ASSUME CallsInv, NEW t \in Threads, OwnBlock(t) PROVE CallsInv'
<1> DEFINE c == [Top(t) EXCEPT !.phase = "proc"]
<1>1. stack[t] # <<>> /\ Top(t).phase = "distribute" /\ Top(t).i = Top(t).nthr - 1
      /\ stack' = SetTop(t, c) /\ UNCHANGED <<inited, queue, worker, kill, termination>>
  BY DEF OwnBlock, InPhase
<1>2. Top(t) \in CallRecords /\ CallInv(Top(t))
  BY <1>1, TopCall DEF CallsInv
<1>3. c \in CallRecords /\ c.phase = "proc" /\ c.q = Top(t).q /\ c.i = Top(t).i
      /\ c.nthr = Top(t).nthr
  BY <1>2 DEF CallRecords, Phases
<1>4. CallInv(c)
  BY <1>1, <1>2, <1>3 DEF CallInv
<1> HIDE DEF c
<1>5. QED
  BY <1>1, <1>3, <1>4, QuietUpdate

LEMMA StepOwnBlockEnds ==
  ASSUME CallsInv, NEW t \in Threads, OwnBlockEnds(t) PROVE CallsInv'
<1> DEFINE r == Ran(Top(t), Top(t).nthr - 1)
           c == [r EXCEPT !.i = 0, !.phase = "join"]
<1>1. stack[t] # <<>> /\ Top(t).phase = "proc"
      /\ stack' = SetTop(t, c) /\ UNCHANGED <<inited, queue, worker, kill, termination>>
  BY DEF OwnBlockEnds, InPhase
<1>2. Top(t) \in CallRecords /\ CallInv(Top(t))
  BY <1>1, TopCall DEF CallsInv
<1>3. r \in CallRecords /\ r.q = Top(t).q /\ r.nthr = Top(t).nthr
  BY <1>2, RanIsCall
<1> HIDE DEF r
<1>4. c \in CallRecords /\ c.phase = "join" /\ c.q = Top(t).q /\ c.i = 0
      /\ c.nthr = Top(t).nthr
  BY <1>3 DEF CallRecords, Phases
<1> HIDE DEF c
<1>5. CallInv(c)
  BY <1>1, <1>2, <1>4 DEF CallInv, CallRecords
<1>6. QED
  BY <1>1, <1>4, <1>5, QuietUpdate

LEMMA HeldWorker ==
  ASSUME TypeInv, NEW t, NEW d, NEW k, Holding(t, d, k)
  PROVE  t \in Threads /\ d \in Depths(t) /\ k \in 1 .. Len(stack[t][d].q)
         /\ stack[t][d] \in CallRecords /\ stack[t][d].q[k] \in Workers
<1>1. t \in Threads /\ d \in Depths(t) /\ k \in 1 .. Len(stack[t][d].q)
  BY DEF Holding, Holds
<1>2. stack[t] \in Seq(CallRecords) /\ d \in 1 .. Len(stack[t])
  BY <1>1 DEF TypeInv, Depths
<1>3. stack[t][d] \in CallRecords
  BY <1>2
<1>4. stack[t][d].q \in Seq(Workers)
  BY <1>3 DEF CallRecords
<1>5. QED
  BY <1>1, <1>3, <1>4

\* The caller signals, or joins, the worker of item m - 1, which it holds.
LEMMA WorkerUpdate ==
  ASSUME CallsInv, NEW t \in Threads, stack[t] # <<>>, NEW c \in CallRecords, CallInv(c),
         stack' = SetTop(t, c), c.q = Top(t).q,
         NEW m \in 1 .. Len(c.q), Holds(t, Len(stack[t]), m),
         NEW r \in WorkerRecords, worker' = [worker EXCEPT ![c.q[m]] = r],
         r.life = worker[c.q[m]].life, r.life # "none",
         \A k \in 1 .. Len(c.q) :
           (c.phase \in {"join", "enqueue"} => k > c.i)
             <=> (Top(t).phase \in {"join", "enqueue"} => k > Top(t).i),
         \A k \in 1 .. Len(c.q) : k # m =>
           ((c.phase \in {"assign", "enqueue"} /\ k = c.i + 1)
             <=> (Top(t).phase \in {"assign", "enqueue"} /\ k = Top(t).i + 1)),
         IF c.phase \in {"assign", "enqueue"} /\ m = c.i + 1 THEN Idle(r)
         ELSE Serves(r, <<t, Len(stack[t]), m - 1>>),
         UNCHANGED <<inited, queue, kill, termination>>
  PROVE  CallsInv'
<1> USE DEF CallsInv
<1> DEFINE n == Len(stack[t])
           p == c.q[m]
<1>1. SameHoldings
  BY TopKeeps
<1>2. HeldOnce' /\ RankInv' /\ HeldApart' /\ \A q : Held(q)' <=> Held(q)
  BY <1>1, KeepHoldings
<1>3. StackInv'
  BY TopShape
<1>4. /\ stack' \in [Threads -> Seq(CallRecords)]
      /\ n \in Depths(t)
      /\ \A u \in Threads : Depths(u)' = Depths(u)
      /\ \A u \in Threads : \A d \in Depths(u) :
           stack'[u][d] = IF u = t /\ d = n THEN c ELSE stack[u][d]
      /\ \A u \in Threads : stack'[u] = <<>> <=> stack[u] = <<>>
  BY TopUpdate
<1>5. Holding(t, n, m) /\ stack[t][n].q[m] = p
  BY <1>4 DEF Holding, Top
<1>6. p \in Workers
  BY <1>5, HeldWorker
<1>7. worker' \in [Workers -> WorkerRecords] /\ worker'[p] = r
      /\ \A q \in Workers : q # p => worker'[q] = worker[q]
  BY <1>6 DEF TypeInv
<1>8. TypeInv'
  BY <1>4, <1>7 DEF TypeInv
<1>9. KillInv'
  BY PoolStaysOpen
<1>10. QueueInv'
  <2>1. p \notin Elements(queue)
    BY <1>5 DEF HeldApart
  <2>2. \A q \in Elements(queue) : q \in Workers
    BY DEF TypeInv, Elements
  <2>3. QED
    BY <1>7, <2>1, <2>2 DEF QueueInv
<1> HIDE DEF n, p
<1>11. WorkerInv'
  <2>1. \A q \in Workers : worker'[q].life = worker[q].life
    BY <1>7 DEF p
  <2>2. \A q \in Workers : worker'[q].life = "none" => worker'[q] = Unmade
    BY <1>7, <2>1 DEF WorkerInv
  <2>3. QED
    BY <1>2, <1>4, <2>1, <2>2, WorkersAreThreads DEF WorkerInv
<1>12. HeldServe'
  <2> SUFFICES ASSUME NEW u, NEW d, NEW k, Holding(u, d, k)'
               PROVE  (IF InHand(u, d, k) THEN Idle(worker[stack[u][d].q[k]])
                       ELSE Serves(worker[stack[u][d].q[k]], <<u, d, k - 1>>))'
    BY DEF HeldServe
  <2>1. Holding(u, d, k) /\ stack'[u][d].q[k] = stack[u][d].q[k]
    BY <1>1 DEF SameHoldings
  <2>2. u \in Threads /\ d \in Depths(u) /\ k \in 1 .. Len(stack[u][d].q)
        /\ stack[u][d].q[k] \in Workers
    BY <2>1, HeldWorker
  <2>3. CASE u = t /\ d = n /\ k = m
    <3>1. stack'[u][d] = c /\ stack'[u][d].q[k] = p
      BY <1>4, <1>5, <2>1, <2>3
    <3>2. InHand(u, d, k)' <=> (c.phase \in {"assign", "enqueue"} /\ m = c.i + 1)
      BY <2>3, <3>1 DEF InHand
    <3>3. QED
      BY <1>7, <2>3, <3>1, <3>2 DEF n
  <2>4. CASE ~(u = t /\ d = n /\ k = m)
    <3>1. stack[u][d].q[k] # p
      BY <1>5, <2>1, <2>4 DEF HeldOnce
    <3>2. InHand(u, d, k)' <=> InHand(u, d, k)
      <4>1. CASE u = t /\ d = n
        BY <1>4, <2>2, <2>4, <4>1 DEF InHand, Top, n
      <4>2. CASE ~(u = t /\ d = n)
        BY <1>4, <2>2, <4>2 DEF InHand
      <4>3. QED
        BY <4>1, <4>2
    <3>3. worker'[stack'[u][d].q[k]] = worker[stack[u][d].q[k]]
      BY <1>7, <2>1, <2>2, <3>1
    <3>4. IF InHand(u, d, k) THEN Idle(worker[stack[u][d].q[k]])
          ELSE Serves(worker[stack[u][d].q[k]], <<u, d, k - 1>>)
      BY <2>1 DEF HeldServe
    <3>5. QED
      BY <3>2, <3>3, <3>4
  <2>5. QED
    BY <2>3, <2>4
<1>13. QED
  BY <1>2, <1>3, <1>8, <1>9, <1>10, <1>11, <1>12

LEMMA StepAssign ==
  ASSUME CallsInv, NEW t \in Threads, Assign(t) PROVE CallsInv'
<1> DEFINE n == Len(stack[t])
           b == Top(t)
           m == b.i + 1
           p == b.q[m]
           a == <<t, n, b.i>>
           c == [b EXCEPT !.i = m, !.phase = "distribute"]
           r == [worker[p] EXCEPT !.w = a, !.ready = worker[p].ready + 1]
<1>1. stack[t] # <<>> /\ b.phase = "assign"
      /\ stack' = SetTop(t, c) /\ UNCHANGED <<inited, queue, kill, termination>>
  BY DEF Assign, InPhase
<1>2. b \in CallRecords /\ CallInv(b) /\ n \in Depths(t) /\ n \in Nat /\ b = stack[t][n]
  BY <1>1, TopCall, SMTT(30) DEF CallsInv, Top
<1>3. p \in Workers => worker' = [worker EXCEPT ![p] = r]
  BY DEF Assign, CallsInv, TypeInv
<1> HIDE DEF b, n
<1>4. b.i \in Nat /\ b.nthr \in Nat /\ Len(b.q) \in Nat
  BY <1>2, CallTypes
<1>5. c \in CallRecords /\ c.phase = "distribute" /\ c.q = b.q /\ c.i = m /\ c.nthr = b.nthr
  <2>1. m \in Nat /\ "distribute" \in Phases
    BY <1>4 DEF Phases
  <2> HIDE DEF m, c
  <2>2. c = [b EXCEPT !.i = m, !.phase = "distribute"]
    BY DEF c
  <2>3. QED
    BY <1>2, <2>1, <2>2 DEF CallRecords
<1> HIDE DEF c
<1>6. Len(b.q) = m /\ m <= b.nthr - 1 /\ m \in 1 .. Len(c.q) /\ m - 1 = b.i
  BY <1>1, <1>2, <1>4, <1>5, SMTT(30) DEF CallInv
<1>7. CallInv(c)
  BY <1>5, <1>6 DEF CallInv
<1>8. Holds(t, n, m) /\ Holding(t, n, m) /\ InHand(t, n, m)
  BY <1>1, <1>2, <1>5, <1>6 DEF Holds, Holding, InHand
<1>9. p \in Workers /\ Idle(worker[p]) /\ worker[p] \in WorkerRecords
  BY <1>2, <1>8, HeldWorker DEF CallsInv, HeldServe, TypeInv
<1>10. a \in Items
  BY <1>2, <1>4 DEF Items
<1> HIDE DEF p, a
<1>11. r \in WorkerRecords /\ r.life = worker[p].life /\ r.life # "none" /\ Signalled(r, a)
  BY <1>9, <1>10, SignalWorker
<1> HIDE DEF r
<1>12. ~(c.phase \in {"assign", "enqueue"} /\ m = c.i + 1) /\ Serves(r, <<t, n, m - 1>>)
  BY <1>5, <1>6, <1>11 DEF Serves, a
<1>13. \A k \in 1 .. Len(c.q) :
         /\ (c.phase \in {"join", "enqueue"} => k > c.i)
              <=> (b.phase \in {"join", "enqueue"} => k > b.i)
         /\ k # m => ((c.phase \in {"assign", "enqueue"} /\ k = c.i + 1)
              <=> (b.phase \in {"assign", "enqueue"} /\ k = b.i + 1))
  BY <1>1, <1>5
<1>14. worker' = [worker EXCEPT ![c.q[m]] = r] /\ p = c.q[m]
  BY <1>3, <1>5, <1>9 DEF p
<1> HIDE DEF m
<1>15. QED
  BY <1>1, <1>5, <1>6, <1>7, <1>8, <1>11, <1>12, <1>13, <1>14, WorkerUpdate DEF n, b

LEMMA StepDownDone ==
  ASSUME CallsInv, NEW t \in Threads, DownDone(t) PROVE CallsInv'
<1> DEFINE n == Len(stack[t])
           b == Top(t)
           m == b.i + 1
           p == b.q[m]
           a == <<t, n, m - 1>>
           c == [b EXCEPT !.phase = "enqueue"]
           r == [worker[p] EXCEPT !.done = worker[p].done - 1]
<1>1. stack[t] # <<>> /\ b.phase = "join" /\ b.i < b.nthr - 1 /\ worker[p].done > 0
      /\ stack' = SetTop(t, c) /\ UNCHANGED <<inited, queue, kill, termination>>
  BY DEF DownDone, InPhase
<1>2. b \in CallRecords /\ CallInv(b) /\ n \in Depths(t) /\ n \in Nat /\ b = stack[t][n]
  BY <1>1, TopCall DEF CallsInv, Top
<1>3. p \in Workers => worker' = [worker EXCEPT ![p] = r]
  BY DEF DownDone, CallsInv, TypeInv
<1> HIDE DEF b, n
<1>4. b.i \in Nat /\ b.nthr \in Nat /\ Len(b.q) \in Nat
  BY <1>2, CallTypes
<1>5. c \in CallRecords /\ c.phase = "enqueue" /\ c.q = b.q /\ c.i = b.i /\ c.nthr = b.nthr
  BY <1>2, PhaseUpdate DEF Phases
<1> HIDE DEF c
<1>6. Len(b.q) = b.nthr - 1 /\ m \in 1 .. Len(c.q) /\ m > b.i
  <2>1. Len(b.q) = b.nthr - 1
    BY <1>1, <1>2 DEF CallInv
  <2>2. QED
    BY <1>1, <1>4, <1>5, <2>1
<1>7. CallInv(c)
  BY <1>1, <1>4, <1>5, <1>6 DEF CallInv
<1>8. Holds(t, n, m) /\ Holding(t, n, m) /\ ~InHand(t, n, m)
  BY <1>1, <1>2, <1>5, <1>6 DEF Holds, Holding, InHand
<1>9. p \in Workers /\ Serves(worker[p], a) /\ worker[p] \in WorkerRecords
  BY <1>2, <1>8, HeldWorker DEF CallsInv, HeldServe, TypeInv
<1> HIDE DEF p, a
<1>10. r \in WorkerRecords /\ r.life = worker[p].life /\ r.life # "none" /\ Idle(r)
  BY <1>1, <1>9, JoinWorker
<1> HIDE DEF r
<1>11. c.phase \in {"assign", "enqueue"} /\ m = c.i + 1
  BY <1>5
<1>12. \A k \in 1 .. Len(c.q) :
         /\ (c.phase \in {"join", "enqueue"} => k > c.i)
              <=> (b.phase \in {"join", "enqueue"} => k > b.i)
         /\ k # m => ((c.phase \in {"assign", "enqueue"} /\ k = c.i + 1)
              <=> (b.phase \in {"assign", "enqueue"} /\ k = b.i + 1))
  BY <1>1, <1>5
<1>13. worker' = [worker EXCEPT ![c.q[m]] = r] /\ p = c.q[m]
  BY <1>3, <1>5, <1>9 DEF p
<1> HIDE DEF m
<1>14. QED
  BY <1>1, <1>5, <1>6, <1>7, <1>8, <1>10, <1>11, <1>12, <1>13, WorkerUpdate DEF n, b

LEMMA StepEnqueue ==
  ASSUME CallsInv, NEW t \in Threads, Enqueue(t) PROVE CallsInv'
<1> DEFINE n == Len(stack[t])
           b == Top(t)
           m == b.i + 1
           p == b.q[m]
           c == [b EXCEPT !.i = m, !.phase = "join"]
<1>1. stack[t] # <<>> /\ b.phase = "enqueue" /\ queue' = <<p>> \o queue
      /\ stack' = SetTop(t, c) /\ UNCHANGED <<inited, worker, kill, termination>>
  BY DEF Enqueue, InPhase
<1>2. b \in CallRecords /\ CallInv(b) /\ n \in Depths(t) /\ n \in Nat /\ b = stack[t][n]
  BY <1>1, TopCall DEF CallsInv, Top
<1> HIDE DEF b, n
<1>3. b.i \in Nat /\ b.nthr \in Nat /\ Len(b.q) \in Nat
  BY <1>2, CallTypes
<1>4. c \in CallRecords /\ c.phase = "join" /\ c.q = b.q /\ c.i = m /\ c.nthr = b.nthr
  <2>1. m \in Nat /\ "join" \in Phases
    BY <1>3 DEF Phases
  <2> HIDE DEF m
  <2>2. QED
    BY <1>2, <2>1 DEF CallRecords
<1> HIDE DEF c
<1>5. Len(b.q) = b.nthr - 1 /\ b.i < b.nthr - 1
  BY <1>1, <1>2 DEF CallInv
<1>6. CallInv(c)
  BY <1>3, <1>4, <1>5 DEF CallInv
<1>7. m \in 1 .. Len(b.q) /\ m > b.i
  BY <1>3, <1>5
<1>8. Holding(t, n, m) /\ InHand(t, n, m)
  BY <1>1, <1>2, <1>7 DEF Holds, Holding, InHand
<1>9. p \in Workers /\ Idle(worker[p]) /\ p \notin Elements(queue) /\ kill # Ending(p)
  BY <1>2, <1>8, HeldWorker DEF CallsInv, HeldServe, HeldApart
<1>10. /\ stack' \in [Threads -> Seq(CallRecords)]
       /\ \A u \in Threads : Depths(u)' = Depths(u)
       /\ \A u \in Threads : \A d \in Depths(u) :
            stack'[u][d] = IF u = t /\ d = n THEN c ELSE stack[u][d]
       /\ \A u \in Threads : stack'[u] = <<>> <=> stack[u] = <<>>
  BY <1>1, <1>4, TopUpdate DEF CallsInv, n
<1>11. queue' \in Seq(Workers) /\ Distinct(queue') /\ Elements(queue') = Elements(queue) \cup {p}
  BY <1>1, <1>9, PushFront DEF CallsInv, TypeInv, QueueInv
<1>12. \A u \in Threads : \A d \in Depths(u) : stack'[u][d].q = stack[u][d].q
  BY <1>2, <1>4, <1>10
<1>13. \A u, d, k : Holding(u, d, k)' <=> Holding(u, d, k) /\ ~(u = t /\ d = n /\ k = m)
  <2>1. ASSUME NEW u \in Threads, NEW d \in Depths(u), NEW k
        PROVE  Holds(u, d, k)' <=> Holds(u, d, k) /\ ~(u = t /\ d = n /\ k = m)
    <3>1. CASE u = t /\ d = n
      <4>1. stack'[u][d] = c /\ stack[u][d] = b
        BY <1>2, <1>10, <3>1
      <4>2. Holds(u, d, k)' <=> k \in 1 .. Len(b.q) /\ k > m
        BY <1>4, <4>1 DEF Holds
      <4>3. Holds(u, d, k) <=> k \in 1 .. Len(b.q) /\ k > b.i
        BY <1>1, <4>1 DEF Holds
      <4>4. k \in 1 .. Len(b.q) => (k > m <=> k > b.i /\ k # m)
        BY <1>3
      <4>5. QED
        BY <3>1, <4>2, <4>3, <4>4
    <3>2. CASE ~(u = t /\ d = n)
      BY <1>10, <3>2 DEF Holds
    <3>3. QED
      BY <3>1, <3>2
  <2>2. QED
    BY <1>10, <2>1 DEF Holding
<1>14. \A u, d, k : Holding(u, d, k)' =>
         stack'[u][d].q[k] = stack[u][d].q[k] /\ stack[u][d].q[k] # p
  <2>1. ASSUME NEW u, NEW d, NEW k, Holding(u, d, k), ~(u = t /\ d = n /\ k = m)
        PROVE  stack[u][d].q[k] # stack[t][n].q[m]
    BY <1>8, <2>1 DEF HeldOnce, CallsInv
  <2>2. stack[t][n].q[m] = p
    BY <1>2
  <2>3. QED
    BY <1>12, <1>13, <2>1, <2>2 DEF Holding
<1> HIDE DEF p
<1>15. HeldOnce'
  BY <1>13, <1>14 DEF HeldOnce, CallsInv
<1>16. RankInv'
  <2>1. PICK rank \in [Threads -> Nat] : Ranks(rank)
    BY DEF RankInv, CallsInv
  <2>2. Ranks(rank)'
    BY <1>13, <1>14, <2>1 DEF Ranks
  <2>3. QED
    BY <2>2 DEF RankInv
<1>17. HeldApart'
  BY <1>1, <1>11, <1>13, <1>14 DEF HeldApart, CallsInv
<1>18. HeldServe'
  <2> SUFFICES ASSUME NEW u, NEW d, NEW k, Holding(u, d, k)'
               PROVE  (IF InHand(u, d, k) THEN Idle(worker[stack[u][d].q[k]])
                       ELSE Serves(worker[stack[u][d].q[k]], <<u, d, k - 1>>))'
    BY DEF HeldServe
  <2>1. Holding(u, d, k) /\ ~(u = t /\ d = n /\ k = m)
        /\ u \in Threads /\ d \in Depths(u)
    BY <1>13, HeldWorker DEF CallsInv
  <2>2. InHand(u, d, k)' <=> InHand(u, d, k)
    <3>1. CASE u = t /\ d = n
      BY <1>1, <1>2, <1>4, <1>10, <2>1, <3>1 DEF InHand
    <3>2. CASE ~(u = t /\ d = n)
      BY <1>10, <2>1, <3>2 DEF InHand
    <3>3. QED
      BY <3>1, <3>2
  <2>3. QED
    BY <1>1, <1>14, <2>1, <2>2 DEF HeldServe, CallsInv
<1>19. QueueInv'
  BY <1>1, <1>9, <1>11 DEF QueueInv, CallsInv
<1>20. WorkerInv'
  <2>1. ASSUME NEW q \in Workers, Held(q) PROVE Held(q)' \/ q \in Elements(queue')
    <3>1. PICK u, d, k : Holding(u, d, k) /\ stack[u][d].q[k] = q
      BY <2>1 DEF Held
    <3>2. CASE u = t /\ d = n /\ k = m
      BY <1>2, <1>11, <3>1, <3>2 DEF p
    <3>3. CASE ~(u = t /\ d = n /\ k = m)
      BY <1>13, <1>14, <3>1, <3>3 DEF Held
    <3>4. QED
      BY <3>2, <3>3
  <2>2. QED
    BY <1>1, <1>10, <1>11, <2>1, WorkersAreThreads DEF WorkerInv, CallsInv
<1>21. TypeInv'
  BY <1>1, <1>10, <1>11 DEF TypeInv, CallsInv
<1>22. KillInv'
  BY <1>1, PoolStaysOpen DEF CallsInv
<1>23. StackInv'
  BY <1>1, <1>4, <1>6, TopShape DEF CallsInv
<1>24. QED
  BY <1>15, <1>16, <1>17, <1>18, <1>19, <1>20, <1>21, <1>22, <1>23 DEF CallsInv

\* A call dequeues worker p, which no call holds and kill_workforce does not end.
LEMMA DequeueOne ==
  ASSUME CallsInv, NEW t \in Threads, stack[t] # <<>>, Top(t).phase = "distribute",
         Top(t).i < Top(t).nthr - 1, NEW p \in Workers, stack[p] = <<>>, ~Held(p),
         Given(t, p),
         worker' \in [Workers -> WorkerRecords], Idle(worker'[p]),
         \A q \in Workers : q # p => worker'[q] = worker[q],
         queue' \in Seq(Workers), Distinct(queue'), Elements(queue') = Elements(queue) \ {p},
         UNCHANGED <<inited, kill, termination>>
  PROVE  CallsInv'
<1> DEFINE n == Len(stack[t])
           b == Top(t)
           m == b.i + 1
           l == Append(b.q, p)
           c == [b EXCEPT !.q = l, !.phase = "assign"]
<1>1. stack' = SetTop(t, c)
  BY DEF Given
<1>2. b \in CallRecords /\ CallInv(b) /\ n \in Depths(t) /\ n \in Nat /\ b = stack[t][n]
  BY TopCall DEF CallsInv, Top
<1>3. b.phase = "distribute" /\ b.i < b.nthr - 1
  OBVIOUS
<1> HIDE DEF b, n
<1>4. b.i \in Nat /\ b.nthr \in Nat /\ Len(b.q) \in Nat /\ b.q \in Seq(Workers)
  BY <1>2, CallTypes
<1>5. Len(b.q) = b.i
  BY <1>2, <1>3 DEF CallInv
<1>6. l \in Seq(Workers) /\ Len(l) = m /\ l[m] = p /\ \A k \in 1 .. b.i : l[k] = b.q[k]
  BY <1>4, <1>5
<1> HIDE DEF l
<1>7. c \in CallRecords /\ c.phase = "assign" /\ c.q = l /\ c.i = b.i /\ c.nthr = b.nthr
  BY <1>2, <1>6 DEF CallRecords, Phases
<1> HIDE DEF c
<1>8. CallInv(c)
  BY <1>3, <1>4, <1>6, <1>7 DEF CallInv
<1>9. /\ stack' \in [Threads -> Seq(CallRecords)]
      /\ \A u \in Threads : Depths(u)' = Depths(u)
      /\ \A u \in Threads : \A d \in Depths(u) :
           stack'[u][d] = IF u = t /\ d = n THEN c ELSE stack[u][d]
      /\ \A u \in Threads : stack'[u] = <<>> <=> stack[u] = <<>>
  BY <1>1, <1>7, TopUpdate DEF CallsInv, n
<1>10. ASSUME NEW u \in Threads, NEW d \in Depths(u), NEW k
       PROVE  /\ Holds(u, d, k)' <=> Holds(u, d, k) \/ (u = t /\ d = n /\ k = m)
              /\ Holds(u, d, k) => stack'[u][d].q[k] = stack[u][d].q[k]
              /\ Holds(u, d, k)' => (InHand(u, d, k)' <=> InHand(u, d, k) \/ (u = t /\ d = n /\ k = m))
  <2>1. CASE u = t /\ d = n
    <3>1. stack'[u][d] = c /\ stack[u][d] = b
      BY <1>2, <1>9, <2>1
    <3>2. Holds(u, d, k)' <=> k \in 1 .. m
      BY <1>6, <1>7, <3>1 DEF Holds
    <3>3. Holds(u, d, k) <=> k \in 1 .. b.i
      BY <1>3, <1>5, <3>1 DEF Holds
    <3>4. (InHand(u, d, k)' <=> k = m) /\ ~InHand(u, d, k)
      BY <1>3, <1>7, <3>1 DEF InHand
    <3>5. k \in 1 .. m <=> k \in 1 .. b.i \/ k = m
      BY <1>4
    <3>6. k \in 1 .. b.i => l[k] = b.q[k]
      BY <1>6
    <3>7. QED
      BY <1>7, <2>1, <3>1, <3>2, <3>3, <3>4, <3>5, <3>6
  <2>2. CASE ~(u = t /\ d = n)
    BY <1>9, <2>2 DEF Holds, InHand
  <2>3. QED
    BY <2>1, <2>2
<1>11. \A u, d, k : Holding(u, d, k)' <=> Holding(u, d, k) \/ (u = t /\ d = n /\ k = m)
  <2>1. ASSUME NEW u, NEW d, NEW k
        PROVE  Holding(u, d, k)' <=> Holding(u, d, k) \/ (u = t /\ d = n /\ k = m)
    <3>1. CASE u \in Threads /\ d \in Depths(u)
      BY <1>9, <1>10, <3>1 DEF Holding
    <3>2. CASE ~(u \in Threads /\ d \in Depths(u))
      BY <1>2, <1>9, <3>2 DEF Holding
    <3>3. QED
      BY <3>1, <3>2
  <2>2. QED
    BY <2>1
<1>12. \A u, d, k : Holding(u, d, k) =>
         /\ stack'[u][d].q[k] = stack[u][d].q[k] /\ stack[u][d].q[k] # p
         /\ stack[u][d].q[k] \in Workers
         /\ ~(u = t /\ d = n /\ k = m)
  <2>1. ~Holding(t, n, m)
    BY <1>2, <1>4, <1>5 DEF Holding, Holds
  <2>2. QED
    BY <1>10, <2>1, HeldWorker DEF Holding, Held, CallsInv
<1>13. \A u, d, k : u = t /\ d = n /\ k = m =>
         Holding(u, d, k)' /\ stack'[u][d].q[k] = p
  <2>1. stack'[t][n] = c
    BY <1>2, <1>9
  <2>2. QED
    BY <1>6, <1>7, <1>11, <2>1
<1>14. HeldOnce'
  BY <1>11, <1>12, <1>13 DEF HeldOnce, CallsInv
<1>15. RankInv'
  <2>1. PICK rank \in [Threads -> Nat] : Ranks(rank)
    BY DEF RankInv, CallsInv
  <2> DEFINE next == [rank EXCEPT ![p] = rank[t] + 1]
  <2>2. p \in Threads /\ p # t
    BY WorkersAreThreads
  <2>3. next \in [Threads -> Nat] /\ next[p] = rank[t] + 1
        /\ \A u \in Threads : u # p => next[u] = rank[u]
    BY <2>1, <2>2
  <2> HIDE DEF next
  <2>4. \A d, k : ~Holding(p, d, k)
    BY DEF Holding, Depths
  <2>5. ASSUME NEW u, NEW d, NEW k, Holding(u, d, k)'
        PROVE  next[u] < next[stack'[u][d].q[k]]
    <3>1. CASE u = t /\ d = n /\ k = m
      BY <1>13, <2>1, <2>2, <2>3, <3>1
    <3>2. CASE ~(u = t /\ d = n /\ k = m)
      <4>1. Holding(u, d, k) /\ u # p /\ u \in Threads
        BY <1>11, <2>4, <2>5, <3>2 DEF Holding
      <4>2. stack'[u][d].q[k] = stack[u][d].q[k] /\ stack[u][d].q[k] # p
            /\ stack[u][d].q[k] \in Threads
        BY <1>12, <4>1, WorkersAreThreads
      <4>3. QED
        BY <2>1, <2>3, <4>1, <4>2 DEF Ranks
    <3>3. QED
      BY <3>1, <3>2
  <2>6. QED
    BY <2>3, <2>5 DEF RankInv, Ranks
<1>16. kill = Nobody /\ kill' = kill /\ \A q : kill # Ending(q)
  BY PoolIsOpen DEF CallsInv
<1>17. HeldApart'
  BY <1>11, <1>12, <1>13, <1>16 DEF HeldApart, CallsInv
<1>18. HeldServe'
  <2> SUFFICES ASSUME NEW u, NEW d, NEW k, Holding(u, d, k)'
               PROVE  (IF InHand(u, d, k) THEN Idle(worker[stack[u][d].q[k]])
                       ELSE Serves(worker[stack[u][d].q[k]], <<u, d, k - 1>>))'
    BY DEF HeldServe
  <2>1. CASE u = t /\ d = n /\ k = m
    <3>1. u \in Threads /\ d \in Depths(u) /\ Holds(u, d, k)'
      BY <1>2, <2>1 DEF Holding
    <3>2. InHand(u, d, k)' /\ stack'[u][d].q[k] = p
      BY <1>10, <1>13, <2>1, <3>1
    <3>3. QED
      BY <3>2
  <2>2. CASE ~(u = t /\ d = n /\ k = m)
    <3>1. Holding(u, d, k) /\ (InHand(u, d, k)' <=> InHand(u, d, k))
      BY <1>9, <1>10, <1>11, <2>2 DEF Holding
    <3>2. QED
      BY <1>12, <3>1 DEF HeldServe, CallsInv
  <2>3. QED
    BY <2>1, <2>2
<1>19. QueueInv'
  <2>1. \A q \in Elements(queue) : q \in Workers
    BY DEF CallsInv, TypeInv, Elements
  <2>2. QED
    BY <1>16, <2>1 DEF QueueInv, CallsInv
<1>20. WorkerInv'
  <2>1. \A q \in Workers : Held(q) => Held(q)'
    BY <1>11, <1>12 DEF Held
  <2>2. Held(p)'
    <3>1. \E u, d, k : Holding(u, d, k)' /\ stack'[u][d].q[k] = p
      BY <1>13
    <3>2. QED
      BY <3>1 DEF Held
  <2>3. worker'[p].life = "waiting"
    BY DEF Idle
  <2>4. ASSUME NEW q \in Workers
        PROVE  /\ worker'[q].life = "none" => worker'[q] = Unmade
               /\ worker'[q].life = "none" \/ q \in Elements(queue') \/ kill' = Ending(q) \/ Held(q)'
               /\ stack'[q] # <<>> => worker'[q].life = "working"
    <3>1. CASE q = p
      BY <1>9, <2>2, <2>3, <3>1, WorkersAreThreads
    <3>2. CASE q # p
      BY <1>9, <2>1, <3>2, WorkersAreThreads DEF WorkerInv, CallsInv
    <3>3. QED
      BY <3>1, <3>2
  <2>5. QED
    BY <2>4 DEF WorkerInv
<1>21. TypeInv'
  BY <1>9 DEF TypeInv, CallsInv
<1>22. KillInv'
  BY PoolStaysOpen DEF CallsInv
<1>23. StackInv'
  BY <1>1, <1>7, <1>8, TopShape DEF CallsInv
<1>24. QED
  BY <1>14, <1>15, <1>17, <1>18, <1>19, <1>20, <1>21, <1>22, <1>23 DEF CallsInv

LEMMA HeldAlive ==
  ASSUME CallsInv, NEW q, Held(q)
  PROVE  /\ q \in Workers /\ worker[q].life \in {"waiting", "working"}
         /\ q \notin Elements(queue) /\ kill = Nobody /\ inited
<1>1. PICK t, d, k : Holding(t, d, k) /\ stack[t][d].q[k] = q
  BY DEF Held
<1>2. t \in Threads /\ d \in Depths(t) /\ q \in Workers
  BY <1>1, HeldWorker DEF CallsInv
<1>3. stack[t] # <<>>
  BY <1>2 DEF Depths
<1>4. kill = Nobody /\ inited
  BY <1>2, <1>3, PoolIsOpen DEF CallsInv
<1>5. Idle(worker[q]) \/ Serves(worker[q], <<t, d, k - 1>>)
  BY <1>1 DEF CallsInv, HeldServe
<1>6. QED
  BY <1>1, <1>2, <1>4, <1>5
  DEF CallsInv, HeldApart, Idle, Serves, Signalled, Executes, HasServed

LEMMA WorkingIsHeld ==
  ASSUME CallsInv, NEW q \in Workers, worker[q].life = "working" PROVE Held(q)
<1>1. kill # Ending(q)
  BY DEF CallsInv, KillInv, Signalled
<1>2. q \notin Elements(queue)
  BY DEF CallsInv, QueueInv, Idle
<1>3. QED
  BY <1>1, <1>2 DEF CallsInv, WorkerInv

LEMMA MadeWorkers ==
  /\ FreshWorker \in WorkerRecords /\ Idle(FreshWorker) /\ FreshWorker.life = "waiting"
  /\ Unmade \in WorkerRecords /\ Unmade.life = "none"
<1>1. NoWork \in Items
  BY DEF Items
<1>2. FreshWorker \in WorkerRecords /\ Idle(FreshWorker) /\ FreshWorker.life = "waiting"
  BY <1>1 DEF FreshWorker, WorkerRecords, Idle
<1>3. Unmade = [life |-> "none", ready |-> 0, done |-> 0, w |-> NoWork, at |-> NoWork]
  BY DEF Unmade, FreshWorker
<1>4. QED
  BY <1>1, <1>2, <1>3 DEF WorkerRecords

LEMMA StepDequeue ==
  ASSUME CallsInv, NEW t \in Threads, Dequeue(t) PROVE CallsInv'
<1>1. /\ stack[t] # <<>> /\ Top(t).phase = "distribute" /\ Top(t).i < Top(t).nthr - 1
      /\ UNCHANGED <<inited, kill, termination>>
  BY DEF Dequeue, InPhase
<1>2. queue \in Seq(Workers) /\ worker \in [Workers -> WorkerRecords] /\ Distinct(queue)
  BY DEF CallsInv, TypeInv, QueueInv
<1>3. CASE queue # <<>> /\ queue' = Tail(queue) /\ Given(t, Head(queue)) /\ UNCHANGED worker
  <2> DEFINE p == Head(queue)
  <2>1. /\ p \in Elements(queue) /\ queue' \in Seq(Workers) /\ Distinct(queue')
        /\ Elements(queue') = Elements(queue) \ {p}
    BY <1>2, <1>3, PopHead
  <2>2. p \in Workers
    BY <1>2, <1>3
  <2> HIDE DEF p
  <2>3. Idle(worker[p])
    BY <2>1 DEF CallsInv, QueueInv
  <2>4. stack[p] = <<>>
    BY <2>2, <2>3 DEF CallsInv, WorkerInv, Idle
  <2>5. ~Held(p)
    BY <2>1, HeldAlive
  <2>6. Given(t, p) /\ worker' = worker
    BY <1>3 DEF p
  <2>7. QED
    BY <1>1, <1>2, <2>1, <2>2, <2>3, <2>4, <2>5, <2>6, DequeueOne
<1>4. ASSUME queue = <<>>, Unused # {},
             NEW p, p = CHOOSE q \in Unused : TRUE,
             worker' = [worker EXCEPT ![p] = FreshWorker], Given(t, p), UNCHANGED queue
      PROVE  CallsInv'
  <2>1. p \in Workers /\ worker[p].life = "none"
    BY <1>4 DEF Unused
  <2>2. worker' \in [Workers -> WorkerRecords] /\ worker'[p] = FreshWorker
        /\ \A q \in Workers : q # p => worker'[q] = worker[q]
    BY <1>2, <1>4, <2>1, MadeWorkers
  <2>3. stack[p] = <<>>
    BY <2>1 DEF CallsInv, WorkerInv
  <2>4. ~Held(p)
    BY <2>1, HeldAlive
  <2>5. Elements(queue) = {} /\ queue' = queue
    BY <1>4 DEF Elements
  <2>6. QED
    BY <1>1, <1>2, <1>4, <2>1, <2>2, <2>3, <2>4, <2>5, MadeWorkers, DequeueOne
<1>5. QED
  BY <1>3, <1>4 DEF Dequeue

\* A step that changes neither the workers nor which of them each call holds.
LEMMA SameWorkers ==
  ASSUME CallsInv, SameHoldings, TypeInv', StackInv', KillInv',
         \A u, d, k : Holding(u, d, k) => (InHand(u, d, k)' <=> InHand(u, d, k)),
         \A q \in Workers : stack'[q] # <<>> => worker[q].life = "working",
         UNCHANGED <<queue, worker, kill>>
  PROVE  CallsInv'
<1>1. HeldOnce' /\ RankInv' /\ HeldApart' /\ \A q : Held(q)' <=> Held(q)
  BY KeepHoldings DEF CallsInv
<1>2. queue' = queue /\ worker' = worker /\ kill' = kill
  OBVIOUS
<1>3. QueueInv'
  BY <1>2 DEF CallsInv, QueueInv
<1>4. WorkerInv'
  BY <1>1, <1>2 DEF CallsInv, WorkerInv
<1>5. HeldServe'
  BY <1>2 DEF CallsInv, HeldServe, SameHoldings
<1>6. QED
  BY <1>1, <1>3, <1>4, <1>5 DEF CallsInv

LEMMA NewCallIsCall ==
  ASSUME NEW loopmax \in Nat \ {0}, NEW nthr \in Nat \ {0}
  PROVE  LET c == NewCall(loopmax, nthr)
         IN  /\ c \in CallRecords /\ CallInv(c) /\ c.q = <<>> /\ c.phase = "distribute"
             /\ c.loopmax = loopmax /\ c.i = 0 /\ c.ran = [k \in 0 .. loopmax - 1 |-> 0]
<1> DEFINE c == NewCall(loopmax, nthr)
           bs == Ceiling(loopmax, nthr)
           n0 == Ceiling(loopmax, bs)
           r == [k \in 0 .. loopmax - 1 |-> 0]
<1>1. bs \in Nat \ {0}
  BY CeilingIsLeast
<1>2. n0 \in Nat \ {0}
  BY <1>1, CeilingIsLeast
<1> HIDE DEF bs, n0
<1>3. c = [loopmax |-> loopmax, block_size |-> bs, nthr |-> n0,
           i |-> 0, phase |-> "distribute", q |-> <<>>, ran |-> r]
  BY DEF NewCall, bs, n0
<1> HIDE DEF c
<1>4. r \in UNION {[0 .. n - 1 -> Nat] : n \in Nat}
  <2>1. r \in [0 .. loopmax - 1 -> Nat]
    OBVIOUS
  <2>2. QED
    BY <2>1
<1> HIDE DEF r
<1>5. <<>> \in Seq(Workers) /\ "distribute" \in Phases /\ Len(<<>>) = 0
  BY DEF Phases
<1>6. c \in CallRecords
  BY <1>1, <1>2, <1>3, <1>4, <1>5 DEF CallRecords
<1>7. CallInv(c)
  BY <1>2, <1>3, <1>5 DEF CallInv
<1>8. QED
  BY <1>3, <1>6, <1>7 DEF r, c

LEMMA CallPushes ==
  ASSUME CallsInv, NEW t \in Threads, NEW loopmax \in Nat \ {0}, NEW nthr \in Nat \ {0},
         Call(t, loopmax, nthr)
  PROVE  /\ stack' \in [Threads -> Seq(CallRecords)]
         /\ \A u \in Threads : u # t => stack'[u] = stack[u]
         /\ \A u \in Threads : u # t => Depths(u)' = Depths(u)
         /\ Depths(t)' = Depths(t) \cup {Len(stack[t]) + 1}
         /\ Len(stack'[t]) = Len(stack[t]) + 1 /\ Len(stack[t]) + 1 \notin Depths(t)
         /\ stack'[t][Len(stack[t]) + 1] = NewCall(loopmax, nthr)
         /\ \A u \in Threads : \A d \in Depths(u) : stack'[u][d] = stack[u][d]
<1> DEFINE c == NewCall(loopmax, nthr)
           n == Len(stack[t])
<1>1. c \in CallRecords /\ CallInv(c) /\ c.q = <<>> /\ c.phase = "distribute"
  BY NewCallIsCall
<1> HIDE DEF c
<1>2. stack' = [stack EXCEPT ![t] = Append(@, c)]
      /\ UNCHANGED <<inited, queue, worker, kill, termination>>
  BY DEF Call, c
<1>3. stack \in [Threads -> Seq(CallRecords)]
  BY DEF CallsInv, TypeInv
<1>4. stack[t] \in Seq(CallRecords) /\ n \in Nat
  BY <1>3
<1>5. /\ Append(stack[t], c) \in Seq(CallRecords)
      /\ Len(Append(stack[t], c)) = n + 1 /\ Append(stack[t], c)[n + 1] = c
      /\ \A d \in 1 .. n : Append(stack[t], c)[d] = stack[t][d]
  BY <1>1, <1>4
<1>6. stack'[t] = Append(stack[t], c) /\ \A u \in Threads : u # t => stack'[u] = stack[u]
  BY <1>2, <1>3
<1>7. stack' \in [Threads -> Seq(CallRecords)]
  BY <1>2, <1>3, <1>5
<1>8. /\ \A u \in Threads : u # t => Depths(u)' = Depths(u)
      /\ Depths(t)' = Depths(t) \cup {n + 1} /\ n + 1 \notin Depths(t)
      /\ stack'[t][n + 1] = c
      /\ \A u \in Threads : \A d \in Depths(u) : stack'[u][d] = stack[u][d]
  <2>1. Depths(t) = 1 .. n /\ Depths(t)' = 1 .. n + 1
    BY <1>5, <1>6 DEF Depths
  <2>2. 1 .. n + 1 = (1 .. n) \cup {n + 1} /\ n + 1 \notin 1 .. n
    BY <1>4
  <2>3. \A u \in Threads : u # t => Depths(u)' = Depths(u)
    BY <1>6 DEF Depths
  <2>4. stack'[t][n + 1] = c /\ \A d \in Depths(t) : stack'[t][d] = stack[t][d]
    BY <1>5, <1>6, <2>1
  <2>5. QED
    BY <1>6, <2>1, <2>2, <2>3, <2>4
<1>9. QED
  BY <1>5, <1>6, <1>7, <1>8 DEF c

LEMMA StepCall ==
  ASSUME CallsInv, NEW t \in Threads, NEW loopmax \in Nat \ {0}, NEW nthr \in Nat \ {0},
         Call(t, loopmax, nthr)
  PROVE  CallsInv'
<1> DEFINE c == NewCall(loopmax, nthr)
           n == Len(stack[t])
<1>1. c \in CallRecords /\ CallInv(c) /\ c.q = <<>> /\ c.phase = "distribute"
  BY NewCallIsCall
<1>2. UNCHANGED <<inited, queue, worker, kill, termination>>
  BY DEF Call
<1>3. stack[t] \in Seq(CallRecords) /\ n \in Nat
  BY DEF CallsInv, TypeInv
<1>4. Len(stack'[t]) = n + 1
  BY CallPushes
<1>5. \A u \in Threads : u # t => stack'[u] = stack[u]
  BY CallPushes
<1>6. stack' \in [Threads -> Seq(CallRecords)]
  BY CallPushes
<1>7. /\ \A u \in Threads : u # t => Depths(u)' = Depths(u)
      /\ Depths(t)' = Depths(t) \cup {n + 1} /\ n + 1 \notin Depths(t)
      /\ stack'[t][n + 1] = c
      /\ \A u \in Threads : \A d \in Depths(u) : stack'[u][d] = stack[u][d]
  BY CallPushes
<1> HIDE DEF c
<1>8. /\ inited /\ kill = Nobody
      /\ stack[t] # <<>> => Top(t).phase = "proc"
      /\ t \in Workers => worker[t].life = "working"
  <2>1. CASE t \in Clients /\ stack[t] = <<>> /\ inited /\ kill = Nobody
    BY <2>1, ClientsAssumption
  <2>2. CASE InPhase(t, "proc")
    BY <2>2, PoolIsOpen DEF InPhase, CallsInv, WorkerInv
  <2>3. CASE t \in Workers /\ stack[t] = <<>> /\ worker[t].life = "working"
    BY <2>3, WorkingIsHeld, HeldAlive
  <2>4. QED
    BY <2>1, <2>2, <2>3 DEF Call, InProc
<1>9. TypeInv'
  BY <1>2, <1>6 DEF CallsInv, TypeInv
<1>10. StackInv'
  <2> SUFFICES ASSUME NEW u \in Threads, NEW d \in Depths(u)'
               PROVE  CallInv(stack'[u][d]) /\ (d < Len(stack'[u]) => stack'[u][d].phase = "proc")
    BY DEF StackInv, CallInv
  <2>1. CASE u # t
    BY <1>5, <1>7, <2>1 DEF CallsInv, StackInv
  <2>2. CASE u = t /\ d = n + 1
    BY <1>1, <1>3, <1>4, <1>5, <1>7, <2>2
  <2>3. CASE u = t /\ d # n + 1
    <3>1. d \in Depths(t) /\ stack'[t][d] = stack[t][d]
      BY <1>7, <2>3
    <3>2. stack[t][d].phase = "proc"
      <4>1. d \in 1 .. n /\ n > 0
        BY <1>3, <3>1 DEF Depths
      <4>2. stack[t] # <<>>
        BY <1>3, <4>1
      <4>3. d < n \/ d = n
        BY <1>3, <4>1
      <4>4. QED
        BY <1>8, <3>1, <4>2, <4>3 DEF CallsInv, StackInv, Top
    <3>3. QED
      BY <2>3, <3>1, <3>2 DEF CallsInv, StackInv
  <2>4. QED
    BY <2>1, <2>2, <2>3
<1>11. KillInv'
  BY <1>2, <1>8, KillPlaces DEF CallsInv, KillInv
<1>12. \A u, d, k : Holding(u, d, k)' <=> Holding(u, d, k)
  <2>1. ASSUME NEW u \in Threads, NEW d \in Depths(u), NEW k
        PROVE  Holds(u, d, k)' <=> Holds(u, d, k)
    BY <1>7 DEF Holds
  <2>2. ASSUME NEW d, d = n + 1, NEW k PROVE ~Holds(t, d, k)'
    BY <1>1, <1>7, <2>2 DEF Holds
  <2>3. QED
    BY <1>7, <2>1, <2>2 DEF Holding
<1>13. SameHoldings
  BY <1>7, <1>12 DEF SameHoldings, Holding
<1>14. \A u, d, k : Holding(u, d, k) => (InHand(u, d, k)' <=> InHand(u, d, k))
  BY <1>7 DEF Holding, InHand
<1>15. \A q \in Workers : stack'[q] # <<>> => worker[q].life = "working"
  BY <1>5, <1>8, WorkersAreThreads DEF CallsInv, WorkerInv
<1>16. QED
  BY <1>2, <1>9, <1>10, <1>11, <1>13, <1>14, <1>15, SameWorkers

LEMMA ReturnPops ==
  ASSUME CallsInv, NEW t \in Threads, Return(t)
  PROVE  /\ stack' \in [Threads -> Seq(CallRecords)]
         /\ \A u \in Threads : u # t => stack'[u] = stack[u]
         /\ \A u \in Threads : u # t => Depths(u)' = Depths(u)
         /\ Depths(t)' = Depths(t) \ {Len(stack[t])}
         /\ \A u \in Threads : \A d \in Depths(u)' : d \in Depths(u) /\ stack'[u][d] = stack[u][d]
         /\ \A u \in Threads : Len(stack'[u]) <= Len(stack[u])
<1> DEFINE n == Len(stack[t])
           s == SubSeq(stack[t], 1, n - 1)
<1>1. /\ stack[t] # <<>> /\ Top(t).phase = "join" /\ Top(t).i = Top(t).nthr - 1
      /\ stack' = [stack EXCEPT ![t] = s]
      /\ UNCHANGED <<inited, queue, worker, kill, termination>>
  BY DEF Return, Joined, InPhase
<1>2. stack \in [Threads -> Seq(CallRecords)]
  BY DEF CallsInv, TypeInv
<1>3. stack[t] \in Seq(CallRecords) /\ n \in Nat \ {0}
  BY <1>1, <1>2
<1>4. /\ s \in Seq(CallRecords) /\ Len(s) = n - 1
      /\ \A d \in 1 .. n - 1 : s[d] = stack[t][d]
  BY <1>3
<1>5. stack'[t] = s /\ \A u \in Threads : u # t => stack'[u] = stack[u]
  BY <1>1, <1>2
<1>6. stack' \in [Threads -> Seq(CallRecords)]
  BY <1>1, <1>2, <1>4
<1> HIDE DEF s
<1>7. /\ \A u \in Threads : u # t => Depths(u)' = Depths(u)
      /\ Depths(t)' = Depths(t) \ {n}
      /\ \A u \in Threads : \A d \in Depths(u)' : d \in Depths(u) /\ stack'[u][d] = stack[u][d]
      /\ \A u \in Threads : Len(stack'[u]) <= Len(stack[u])
  <2>1. Depths(t)' = 1 .. n - 1 /\ 1 .. n - 1 = Depths(t) \ {n}
    BY <1>3, <1>4, <1>5 DEF Depths
  <2>2. \A u \in Threads : Len(stack[u]) \in Nat
    BY <1>2
  <2>3. QED
    BY <1>3, <1>4, <1>5, <2>1, <2>2 DEF Depths
<1>8. QED
  BY <1>5, <1>6, <1>7

LEMMA StepReturn ==
  ASSUME CallsInv, NEW t \in Threads, Return(t) PROVE CallsInv'
<1> DEFINE n == Len(stack[t])
<1>1. /\ stack[t] # <<>> /\ Top(t).phase = "join" /\ Top(t).i = Top(t).nthr - 1
      /\ UNCHANGED <<inited, queue, worker, kill, termination>>
  BY DEF Return, Joined, InPhase
<1>2. stack \in [Threads -> Seq(CallRecords)]
  BY DEF CallsInv, TypeInv
<1>3. \A u \in Threads : u # t => stack'[u] = stack[u]
  BY ReturnPops
<1>4. stack' \in [Threads -> Seq(CallRecords)]
  BY ReturnPops
<1>5. /\ \A u \in Threads : u # t => Depths(u)' = Depths(u)
      /\ Depths(t)' = Depths(t) \ {n}
      /\ \A u \in Threads : \A d \in Depths(u)' : d \in Depths(u) /\ stack'[u][d] = stack[u][d]
      /\ \A u \in Threads : Len(stack'[u]) <= Len(stack[u])
  BY ReturnPops
<1>6. TypeInv'
  BY <1>1, <1>4 DEF CallsInv, TypeInv
<1>7. StackInv'
  <2> SUFFICES ASSUME NEW u \in Threads, NEW d \in Depths(u)'
               PROVE  CallInv(stack'[u][d]) /\ (d < Len(stack'[u]) => stack'[u][d].phase = "proc")
    BY DEF StackInv, CallInv
  <2>1. d \in Depths(u) /\ stack'[u][d] = stack[u][d]
    BY <1>5
  <2>2. d < Len(stack'[u]) => d < Len(stack[u])
    <3>1. d \in Nat /\ Len(stack[u]) \in Nat /\ Len(stack'[u]) \in Nat
      BY <1>2, <1>4, <2>1 DEF Depths
    <3>2. QED
      BY <1>5, <3>1
  <2>3. QED
    BY <2>1, <2>2 DEF CallsInv, StackInv
<1>8. KillInv'
  BY <1>1, PoolStaysOpen DEF CallsInv
<1>9. \A k : ~Holds(t, n, k)
  <2>1. Top(t) \in CallRecords /\ CallInv(Top(t)) /\ Top(t) = stack[t][n]
    BY <1>1, TopCall DEF CallsInv, Top
  <2>2. Len(Top(t).q) = Top(t).i /\ Top(t).i \in Nat
    BY <1>1, <2>1, CallTypes DEF CallInv
  <2>3. QED
    BY <1>1, <2>1, <2>2 DEF Holds
<1>10. \A u, d, k : Holding(u, d, k)' <=> Holding(u, d, k)
  <2>1. ASSUME NEW u \in Threads, NEW d \in Depths(u)', NEW k
        PROVE  Holds(u, d, k)' <=> Holds(u, d, k)
    BY <1>5 DEF Holds
  <2>2. QED
    BY <1>5, <1>9, <2>1 DEF Holding
<1>11. \A u, d, k : Holding(u, d, k) => d \in Depths(u)' /\ stack'[u][d] = stack[u][d]
  BY <1>5, <1>10 DEF Holding
<1>12. SameHoldings
  BY <1>10, <1>11 DEF SameHoldings
<1>13. \A u, d, k : Holding(u, d, k) => (InHand(u, d, k)' <=> InHand(u, d, k))
  BY <1>11 DEF InHand
<1>14. \A q \in Workers : stack'[q] # <<>> => worker[q].life = "working"
  BY <1>1, <1>3, WorkersAreThreads DEF CallsInv, WorkerInv
<1>15. QED
  BY <1>1, <1>6, <1>7, <1>8, <1>12, <1>13, <1>14, SameWorkers

-----------------------------------------------------------------------------
(* The steps of the worker threads.                                        *)

LEMMA EndingsDiffer == \A p, q : Ending(p) = Ending(q) => p = q
<1>1. \A q : Ending(q)[2] = q
  BY DEF Ending
<1>2. QED
  BY <1>1

LEMMA ItemsDiffer == \A t, d, k : <<t, d, k>> # Terminate /\ NoWork # <<t, d, k>>
<1>1. Len(Terminate) = 1 /\ Len(NoWork) = 0 /\ \A t, d, k : Len(<<t, d, k>>) = 3
  BY DEF Terminate, NoWork
<1>2. QED
  BY <1>1

\* A worker changes, and no caller of it can tell.
LEMMA WorkerStep ==
  ASSUME CallsInv, NEW q \in Workers, NEW r \in WorkerRecords,
         worker' = [worker EXCEPT ![q] = r], worker[q].life # "none", r.life # "none",
         q \notin Elements(queue), stack[q] # <<>> => r.life = "working",
         \A t, d, k : Holding(t, d, k) /\ stack[t][d].q[k] = q =>
           ~InHand(t, d, k) /\ Serves(r, <<t, d, k - 1>>),
         TypeInv', StackInv', KillInv', SameHoldings,
         \A t, d, k : Holding(t, d, k) => (InHand(t, d, k)' <=> InHand(t, d, k)),
         \A u \in Threads : stack'[u] = <<>> <=> stack[u] = <<>>,
         UNCHANGED <<queue, kill>>
  PROVE  CallsInv'
<1>1. HeldOnce' /\ RankInv' /\ HeldApart' /\ \A p : Held(p)' <=> Held(p)
  BY KeepHoldings DEF CallsInv
<1>2. worker'[q] = r /\ \A p \in Workers : p # q => worker'[p] = worker[p]
  BY DEF CallsInv, TypeInv
<1>3. queue' = queue /\ kill' = kill
  OBVIOUS
<1>4. QueueInv'
  <2>1. \A p \in Elements(queue) : p \in Workers
    BY DEF CallsInv, TypeInv, Elements
  <2>2. QED
    BY <1>2, <1>3, <2>1 DEF CallsInv, QueueInv
<1>5. WorkerInv'
  <2> SUFFICES ASSUME NEW p \in Workers
               PROVE  /\ worker'[p].life = "none" => worker'[p] = Unmade
                      /\ worker'[p].life = "none" \/ p \in Elements(queue') \/ kill' = Ending(p)
                           \/ Held(p)'
                      /\ stack'[p] # <<>> => worker'[p].life = "working"
    BY DEF WorkerInv, CallsInv, QueueInv
  <2>1. CASE p = q
    BY <1>1, <1>2, <1>3, <2>1, WorkersAreThreads DEF CallsInv, WorkerInv
  <2>2. CASE p # q
    BY <1>1, <1>2, <1>3, <2>2, WorkersAreThreads DEF CallsInv, WorkerInv
  <2>3. QED
    BY <2>1, <2>2
<1>6. HeldServe'
  <2> SUFFICES ASSUME NEW t, NEW d, NEW k, Holding(t, d, k)'
               PROVE  (IF InHand(t, d, k) THEN Idle(worker[stack[t][d].q[k]])
                       ELSE Serves(worker[stack[t][d].q[k]], <<t, d, k - 1>>))'
    BY DEF HeldServe
  <2>1. Holding(t, d, k) /\ stack'[t][d].q[k] = stack[t][d].q[k]
        /\ (InHand(t, d, k)' <=> InHand(t, d, k)) /\ stack[t][d].q[k] \in Workers
    BY HeldWorker DEF SameHoldings, CallsInv
  <2>2. CASE stack[t][d].q[k] = q
    BY <1>2, <2>1, <2>2
  <2>3. CASE stack[t][d].q[k] # q
    BY <1>2, <2>1, <2>3 DEF CallsInv, HeldServe
  <2>4. QED
    BY <2>2, <2>3
<1>7. QED
  BY <1>1, <1>4, <1>5, <1>6 DEF CallsInv

\* What a worker with a signal was told.
LEMMA SignalledBy ==
  ASSUME CallsInv, NEW q \in Workers, worker[q].life = "waiting", worker[q].ready > 0
  PROVE  /\ worker[q].ready = 1 /\ q \notin Elements(queue)
         /\ worker[q].w = Terminate => kill = Ending(q)
         /\ kill = Ending(q) => worker[q].w = Terminate /\ termination = 0
         /\ \A t, d, k : Holding(t, d, k) /\ stack[t][d].q[k] = q =>
              ~InHand(t, d, k) /\ Signalled(worker[q], <<t, d, k - 1>>)
<1>1. q \notin Elements(queue)
  BY SMTT(30) DEF CallsInv, QueueInv, Idle
<1>2. ASSUME NEW t, NEW d, NEW k, Holding(t, d, k), stack[t][d].q[k] = q
      PROVE  ~InHand(t, d, k) /\ Signalled(worker[q], <<t, d, k - 1>>)
    BY <1>2 DEF CallsInv, HeldServe, Idle, Serves, Executes, HasServed
<1>3. kill = Ending(q) => Signalled(worker[q], Terminate) /\ termination = 0
  BY DEF CallsInv, KillInv
<1>4. kill = Ending(q) \/ Held(q)
  BY <1>1 DEF CallsInv, WorkerInv
<1>5. Held(q) => worker[q].w # Terminate /\ worker[q].ready = 1
  BY <1>2, ItemsDiffer DEF Held, Signalled
<1>6. QED
  BY <1>1, <1>2, <1>3, <1>4, <1>5 DEF Signalled

LEMMA StepTake ==
  ASSUME CallsInv, NEW q \in Workers, Take(q) PROVE CallsInv'
<1>1. worker[q].life = "waiting" /\ worker[q].ready > 0
      /\ UNCHANGED <<inited, queue, kill, stack>>
  BY DEF Take
<1>2. /\ worker[q].ready = 1 /\ q \notin Elements(queue)
      /\ worker[q].w = Terminate => kill = Ending(q)
      /\ kill = Ending(q) => worker[q].w = Terminate /\ termination = 0
      /\ \A t, d, k : Holding(t, d, k) /\ stack[t][d].q[k] = q =>
           ~InHand(t, d, k) /\ Signalled(worker[q], <<t, d, k - 1>>)
  BY <1>1, SignalledBy
<1>3. /\ worker \in [Workers -> WorkerRecords] /\ worker[q] \in WorkerRecords
      /\ worker[q].w \in Items
  BY DEF CallsInv, TypeInv, WorkerRecords
<1>4. stack[q] = <<>>
  BY <1>1 DEF CallsInv, WorkerInv
<1>5. stack' = stack
  BY <1>1
<1>6. /\ SameHoldings /\ StackInv'
      /\ \A t, d, k : Holding(t, d, k) => (InHand(t, d, k)' <=> InHand(t, d, k))
  BY <1>5 DEF SameHoldings, Holding, Holds, Depths, InHand, CallsInv, StackInv, CallInv
<1>7. ASSUME worker[q].w = Terminate,
             NEW r, r = [worker[q] EXCEPT !.ready = 0, !.life = "ended"],
             worker' = [worker EXCEPT ![q] = r], termination' = termination + 1
      PROVE  CallsInv'
  <2>1. r \in WorkerRecords /\ r.life = "ended" /\ r.ready = 0
    BY <1>3, <1>7 DEF WorkerRecords
  <2>2. kill = Ending(q) /\ termination' = 1
    BY <1>2, <1>7
  <2>3. TypeInv'
    BY <1>1, <1>3, <1>7, <2>1, <2>2 DEF CallsInv, TypeInv
  <2>4. worker'[q] = r
    BY <1>3, <1>7
  <2>5. KillInv'
    <3>1. \A p \in Workers : kill' = Ending(p) => p = q
      BY <1>1, <2>2, EndingsDiffer
    <3>2. inited' /\ kill' # Nobody /\ \A t \in Threads : stack'[t] = <<>>
      BY <1>1, <2>2, KillPlaces DEF CallsInv, KillInv
    <3>3. kill' = Ending(q)
      BY <1>1, <2>2
    <3>4. QED
      BY <2>1, <2>2, <2>4, <3>1, <3>2, <3>3 DEF KillInv
  <2>6. ~Held(q)
    BY <2>2, KillPlaces, HeldAlive
  <2>7. \A t, d, k : ~(Holding(t, d, k) /\ stack[t][d].q[k] = q)
    BY <2>6 DEF Held
  <2>8. /\ worker[q].life # "none" /\ r.life # "none" /\ q \notin Elements(queue)
        /\ stack[q] = <<>> /\ queue' = queue /\ kill' = kill
        /\ worker' = [worker EXCEPT ![q] = r] /\ r \in WorkerRecords
    BY <1>1, <1>2, <1>4, <1>7, <2>1
  <2>9. \A t, d, k : Holding(t, d, k) /\ stack[t][d].q[k] = q =>
          ~InHand(t, d, k) /\ Serves(r, <<t, d, k - 1>>)
    BY <2>7
  <2>10. QED
    BY <1>5, <1>6, <2>3, <2>5, <2>8, <2>9, WorkerStep
<1>8. ASSUME worker[q].w # Terminate,
             NEW r, r = [worker[q] EXCEPT !.ready = 0, !.life = "working", !.at = worker[q].w],
             worker' = [worker EXCEPT ![q] = r], termination' = termination
      PROVE  CallsInv'
  <2>1. r \in WorkerRecords /\ r.life = "working" /\ r.ready = 0
        /\ r.done = worker[q].done /\ r.at = worker[q].w
    BY <1>3, <1>8 DEF WorkerRecords
  <2>2. kill # Ending(q)
    BY <1>2, <1>8
  <2>3. TypeInv'
    BY <1>1, <1>3, <1>8, <2>1 DEF CallsInv, TypeInv
  <2>4. worker'[q] = r /\ \A p \in Workers : p # q => worker'[p] = worker[p]
    BY <1>3, <1>8
  <2>5. KillInv'
    <3>1. inited' = inited /\ kill' = kill /\ queue' = queue /\ termination' = termination
      BY <1>1, <1>8
    <3>2. ~inited => worker[q].life = "none"
      BY DEF CallsInv, KillInv
    <3>3. inited
      BY <1>1, <3>2
    <3>4. \A p \in Workers : kill = Ending(p) => worker'[p] = worker[p]
      BY <2>2, <2>4
    <3>5. QED
      BY <1>5, <3>1, <3>3, <3>4 DEF CallsInv, KillInv
  <2>6. \A t, d, k : Holding(t, d, k) /\ stack[t][d].q[k] = q =>
          ~InHand(t, d, k) /\ Serves(r, <<t, d, k - 1>>)
    BY <1>2, <2>1 DEF Signalled, Executes, Serves
  <2>7. QED
    BY <1>1, <1>2, <1>4, <1>5, <1>6, <1>8, <2>1, <2>3, <2>5, <2>6, WorkerStep
<1>9. worker[q].ready - 1 = 0
  BY <1>2
<1>10. CASE worker[q].w = Terminate
  BY <1>3, <1>7, <1>9, <1>10 DEF Take
<1>11. CASE worker[q].w # Terminate
  <2> DEFINE r == [worker[q] EXCEPT !.ready = worker[q].ready - 1, !.life = "working",
                                    !.at = worker[q].w]
  <2>1. worker' = [worker EXCEPT ![q] = r] /\ termination' = termination
    BY <1>3, <1>11 DEF Take
  <2>2. r = [worker[q] EXCEPT !.ready = 0, !.life = "working", !.at = worker[q].w]
    BY <1>9
  <2> HIDE DEF r
  <2>3. QED
    BY <1>8, <1>11, <2>1, <2>2
<1>12. QED
  BY <1>10, <1>11

\* A call that holds a worker has an item for it, and has not returned.
LEMMA HeldIsLive ==
  ASSUME CallsInv, NEW t, NEW d, NEW k, Holding(t, d, k)
  PROVE  k \in Nat \ {0} /\ k <= stack[t][d].nthr - 1 /\ (k - 1) + 1 = k
         /\ Live(<<t, d, k - 1>>)
<1>1. /\ t \in Threads /\ d \in Depths(t) /\ k \in 1 .. Len(stack[t][d].q)
      /\ stack[t][d] \in CallRecords
  BY HeldWorker DEF CallsInv
<1>2. CallInv(stack[t][d])
  BY <1>1 DEF CallsInv, StackInv
<1>3. Len(stack[t][d].q) <= stack[t][d].nthr - 1
  BY <1>1, <1>2, CallTypes DEF CallInv, Phases
<1>4. Len(stack[t][d].q) \in Nat /\ stack[t][d].nthr \in Nat
  BY <1>1, CallTypes
<1>5. k \in Nat \ {0} /\ k <= stack[t][d].nthr - 1 /\ k - 1 \in 0 .. stack[t][d].nthr - 2
  <2>1. PICK l \in Nat, n \in Nat :
          l = Len(stack[t][d].q) /\ n = stack[t][d].nthr /\ l <= n - 1 /\ k \in 1 .. l
    BY <1>1, <1>3, <1>4
  <2>2. \A m \in Nat : k \in 1 .. m /\ m <= n - 1
          => k \in Nat \ {0} /\ k <= n - 1 /\ k - 1 \in 0 .. n - 2
    OBVIOUS
  <2>3. QED
    BY <2>1, <2>2
<1>6. stack[t] \in Seq(CallRecords)
  BY <1>1 DEF CallsInv, TypeInv
<1>7. Live(<<t, d, k - 1>>)
  BY <1>1, <1>5, <1>6 DEF Live, Depths
<1>8. QED
  BY <1>5, <1>7

\* The item that a worker executes.
LEMMA ExecutedItem ==
  ASSUME CallsInv, NEW q \in Workers, worker[q].life = "working"
  PROVE  \E t, d, k : /\ Holding(t, d, k) /\ stack[t][d].q[k] = q /\ ~InHand(t, d, k)
                      /\ Executes(worker[q], <<t, d, k - 1>>) /\ k \in Nat \ {0}
                      /\ k <= stack[t][d].nthr - 1 /\ Live(<<t, d, k - 1>>)
<1>1. PICK t, d, k : Holding(t, d, k) /\ stack[t][d].q[k] = q
  BY WorkingIsHeld, SMTT(30) DEF Held
<1>2. ~InHand(t, d, k) /\ Executes(worker[q], <<t, d, k - 1>>)
  BY <1>1 DEF CallsInv, HeldServe, Idle, Serves, Signalled, HasServed
<1>3. QED
  BY <1>1, <1>2, HeldIsLive

\* What the end of a work item does to the call that owns it.
LEMMA WorkDoneRuns ==
  ASSUME CallsInv, NEW q \in Workers, WorkDone(q),
         NEW t, NEW d, NEW k, Holding(t, d, k), Executes(worker[q], <<t, d, k - 1>>)
  PROVE  /\ stack' \in [Threads -> Seq(CallRecords)]
         /\ \A u \in Threads : Len(stack'[u]) = Len(stack[u]) /\ Depths(u)' = Depths(u)
         /\ \A u \in Threads : \A e \in Depths(u) :
              stack'[u][e] = IF u = t /\ e = d THEN Ran(stack[t][d], k - 1) ELSE stack[u][e]
<1> DEFINE c == Ran(stack[t][d], k - 1)
<1>1. stack \in [Threads -> Seq(CallRecords)]
  BY DEF CallsInv, TypeInv
<1>2. Live(<<t, d, k - 1>>)
  BY HeldIsLive
<1>3. t \in Threads /\ d \in Depths(t) /\ stack[t][d] \in CallRecords
  BY HeldWorker DEF CallsInv
<1>4. c \in CallRecords
  BY <1>3, RanIsCall
<1>5. stack' = [stack EXCEPT ![t][d] = c]
  <2>1. worker[q].at = <<t, d, k - 1>>
    BY DEF Executes
  <2>2. QED
    BY <1>2, <2>1 DEF WorkDone
<1> HIDE DEF c
<1>6. stack[t] \in Seq(CallRecords) /\ Len(stack[t]) \in Nat /\ d \in 1 .. Len(stack[t])
  BY <1>1, <1>3 DEF Depths
<1>7. [stack[t] EXCEPT ![d] = c] \in Seq(CallRecords)
      /\ Len([stack[t] EXCEPT ![d] = c]) = Len(stack[t])
      /\ \A e \in 1 .. Len(stack[t]) :
           [stack[t] EXCEPT ![d] = c][e] = IF e = d THEN c ELSE stack[t][e]
  BY <1>4, <1>6
<1>8. \A u \in Threads : stack'[u] = IF u = t THEN [stack[t] EXCEPT ![d] = c] ELSE stack[u]
  BY <1>1, <1>5
<1>9. /\ stack' \in [Threads -> Seq(CallRecords)]
       /\ \A u \in Threads : Len(stack'[u]) = Len(stack[u]) /\ Depths(u)' = Depths(u)
  BY <1>1, <1>3, <1>5, <1>7, <1>8 DEF Depths
<1>10. \A u \in Threads : \A e \in Depths(u) :
         stack'[u][e] = IF u = t /\ e = d THEN c ELSE stack[u][e]
  BY <1>7, <1>8 DEF Depths
<1>11. QED
  BY <1>9, <1>10 DEF c

LEMMA StepWorkDone ==
  ASSUME CallsInv, NEW q \in Workers, WorkDone(q) PROVE CallsInv'
<1> DEFINE r == [worker[q] EXCEPT !.life = "waiting", !.at = NoWork, !.done = worker[q].done + 1]
<1>1. worker[q].life = "working" /\ stack[q] = <<>>
      /\ UNCHANGED <<inited, queue, kill, termination>>
  BY DEF WorkDone, InProc, InPhase
<1>2. worker \in [Workers -> WorkerRecords] /\ worker[q] \in WorkerRecords
      /\ stack \in [Threads -> Seq(CallRecords)]
  BY DEF CallsInv, TypeInv
<1>3. worker' = [worker EXCEPT ![q] = r]
  BY <1>2 DEF WorkDone
<1>4. PICK t, d, k : /\ Holding(t, d, k) /\ stack[t][d].q[k] = q /\ ~InHand(t, d, k)
                     /\ Executes(worker[q], <<t, d, k - 1>>) /\ k \in Nat \ {0}
                     /\ k <= stack[t][d].nthr - 1 /\ Live(<<t, d, k - 1>>)
  BY <1>1, ExecutedItem
<1>5. t \in Threads /\ d \in Depths(t) /\ stack[t][d] \in CallRecords
  BY <1>4, HeldWorker DEF CallsInv
<1> DEFINE c == Ran(stack[t][d], k - 1)
<1>6. c \in CallRecords /\ c.nthr = stack[t][d].nthr /\ c.i = stack[t][d].i
      /\ c.phase = stack[t][d].phase /\ c.q = stack[t][d].q
  BY <1>5, RanIsCall
<1> HIDE DEF c
<1>7. stack[t] \in Seq(CallRecords) /\ d \in 1 .. Len(stack[t])
  BY <1>2, <1>5 DEF Depths
<1>8. /\ stack' \in [Threads -> Seq(CallRecords)]
       /\ \A u \in Threads : Len(stack'[u]) = Len(stack[u]) /\ Depths(u)' = Depths(u)
  BY <1>4, WorkDoneRuns
<1>9. \A u \in Threads : \A e \in Depths(u) :
         stack'[u][e] = IF u = t /\ e = d THEN c ELSE stack[u][e]
  BY <1>4, WorkDoneRuns DEF c
<1>10. \A u \in Threads : \A e \in Depths(u) :
         /\ stack'[u][e].q = stack[u][e].q /\ stack'[u][e].i = stack[u][e].i
         /\ stack'[u][e].phase = stack[u][e].phase /\ stack'[u][e].nthr = stack[u][e].nthr
  BY <1>6, <1>9
<1>11. \A u \in Threads : stack'[u] = <<>> <=> stack[u] = <<>>
  BY <1>2, <1>8
<1>12. SameHoldings
  <2>1. \A u \in Threads : \A e \in Depths(u) : \A m : Holds(u, e, m)' <=> Holds(u, e, m)
    BY <1>10 DEF Holds
  <2>2. \A u, e, m : Holding(u, e, m)' <=> Holding(u, e, m)
    BY <1>8, <2>1 DEF Holding
  <2>3. QED
    BY <1>10, <2>2 DEF SameHoldings, Holding
<1>13. \A u, e, m : Holding(u, e, m) => (InHand(u, e, m)' <=> InHand(u, e, m))
  BY <1>10 DEF Holding, InHand
<1>14. StackInv'
  BY <1>8, <1>10 DEF CallsInv, StackInv, CallInv
<1>15. worker[q].done + 1 = 1 /\ worker[q].ready = 0
  BY <1>4 DEF Executes
<1>16. r = [worker[q] EXCEPT !.life = "waiting", !.at = NoWork, !.done = 1]
  BY <1>15
<1> HIDE DEF r
<1>17. r \in WorkerRecords /\ HasServed(r) /\ r.life = "waiting"
  <2>1. NoWork \in Items
    BY DEF Items
  <2>2. r \in WorkerRecords /\ r.life = "waiting" /\ r.ready = worker[q].ready /\ r.done = 1
    BY <1>2, <1>16, <2>1 DEF WorkerRecords
  <2>3. QED
    BY <1>15, <2>2 DEF HasServed
<1>18. TypeInv'
  BY <1>1, <1>2, <1>3, <1>8, <1>17 DEF CallsInv, TypeInv
<1>19. Held(q) /\ q \notin Elements(queue)
  BY <1>4, HeldAlive DEF Held
<1>20. KillInv'
  <2>1. stack[t] # <<>>
    BY <1>7
  <2>2. QED
    BY <1>1, <1>5, <2>1, PoolStaysOpen DEF CallsInv
<1>21. \A u, e, m : Holding(u, e, m) /\ stack[u][e].q[m] = q =>
         ~InHand(u, e, m) /\ Serves(r, <<u, e, m - 1>>)
  BY <1>4, <1>17 DEF CallsInv, HeldOnce, Serves
<1>22. QED
  BY <1>1, <1>3, <1>11, <1>12, <1>13, <1>14, <1>17, <1>18, <1>19, <1>20, <1>21, WorkerStep

-----------------------------------------------------------------------------
(* The steps of the pool as a whole.                                       *)

LEMMA NoHoldings ==
  ASSUME \A t \in Threads : stack[t] = <<>> PROVE \A t, d, k : ~Holding(t, d, k)
  BY DEF Holding, Depths

\* When no client is in a call no worker is in one: a worker that is in a call
\* executes an item of another call, and so on to a client.
LEMMA AllReturned ==
  ASSUME CallsInv, \A c \in Clients : stack[c] = <<>>
  PROVE  \A t \in Threads : stack[t] = <<>>
<1> SUFFICES ASSUME NEW t0 \in Threads, stack[t0] # <<>> PROVE FALSE
  OBVIOUS
<1>1. PICK rank \in [Threads -> Nat] : Ranks(rank)
  BY DEF CallsInv, RankInv
<1> DEFINE Inside == {t \in Threads : stack[t] # <<>>}
           T == {rank[t] : t \in Inside}
<1>2. T \in SUBSET Nat /\ T # {}
  BY <1>1
<1>3. PICK x \in T : \A y \in T : x <= y
  BY <1>2, Minimum
<1>4. PICK t \in Inside : x = rank[t]
  BY <1>3
<1>5. t \in Workers /\ worker[t].life = "working"
  BY <1>4 DEF Threads, CallsInv, WorkerInv
<1>6. PICK u, d, k : Holding(u, d, k) /\ stack[u][d].q[k] = t
  BY <1>5, WorkingIsHeld DEF Held
<1>7. u \in Threads /\ d \in Depths(u)
  BY <1>6 DEF Holding
<1>8. stack[u] # <<>>
  BY <1>7 DEF Depths
<1>9. rank[u] \in T /\ rank[u] < rank[t] /\ rank[u] \in Nat /\ rank[t] \in Nat
  BY <1>1, <1>4, <1>6, <1>7, <1>8 DEF Ranks
<1> HIDE DEF T
<1>10. x <= rank[u]
  BY <1>3, <1>9
<1>11. QED
  BY <1>4, <1>9, <1>10

\* With no call under way, only the pool itself has to be right.
LEMMA QuietStep ==
  ASSUME TypeInv, \A t \in Threads : stack[t] = <<>>, UNCHANGED stack,
         TypeInv', QueueInv', KillInv',
         \A q \in Workers : worker'[q].life = "none" => worker'[q] = Unmade,
         \A q \in Workers :
           worker'[q].life = "none" \/ q \in Elements(queue') \/ kill' = Ending(q)
  PROVE  CallsInv'
<1>1. stack' = stack /\ \A t \in Threads : stack'[t] = <<>> /\ Depths(t)' = {}
  BY DEF Depths
<1>2. \A t, d, k : ~Holding(t, d, k)'
  BY <1>1 DEF Holding
<1>3. HeldOnce' /\ HeldApart' /\ HeldServe'
  BY <1>2 DEF HeldOnce, HeldApart, HeldServe
<1>4. RankInv'
  <2> DEFINE rank == [t \in Threads |-> 0]
  <2>1. rank \in [Threads -> Nat]
    OBVIOUS
  <2>2. Ranks(rank)'
    BY <1>2 DEF Ranks
  <2>3. QED
    BY <2>1, <2>2 DEF RankInv, Ranks
<1>5. StackInv'
  BY <1>1 DEF StackInv
<1>6. WorkerInv'
  BY <1>1, WorkersAreThreads DEF WorkerInv
<1>7. QED
  BY <1>3, <1>4, <1>5, <1>6 DEF CallsInv

LEMMA NotHeld ==
  ASSUME \A t \in Threads : stack[t] = <<>> PROVE \A q : ~Held(q)
  BY NoHoldings DEF Held

\* Initialisation finds no worker, no queue and no call, and leaves an empty pool.
LEMMA StepInitialised ==
  ASSUME CallsInv, ~inited, NEW p, NEW n, Initialised(p, n), UNCHANGED <<worker, kill, stack>>
  PROVE  CallsInv'
<1>1. /\ inited' = TRUE /\ queue' = <<>> /\ termination' = 0
      /\ worker' = worker /\ kill' = kill /\ stack' = stack
  BY DEF Initialised
<1>2. /\ kill = Nobody /\ \A q \in Workers : worker[q].life = "none"
      /\ \A t \in Threads : stack[t] = <<>>
  BY DEF CallsInv, KillInv
<1>3. TypeInv'
  BY <1>1 DEF CallsInv, TypeInv
<1>4. QueueInv'
  BY <1>1 DEF QueueInv, Distinct, Elements
<1>5. KillInv'
  BY <1>1, <1>2, KillPlaces DEF KillInv
<1>6. QED
  BY <1>1, <1>2, <1>3, <1>4, <1>5, QuietStep DEF CallsInv, WorkerInv

LEMMA StutterCalls ==
  ASSUME CallsInv, UNCHANGED <<inited, queue, worker, kill, termination, stack>>
  PROVE  CallsInv'
<1>1. /\ inited' = inited /\ queue' = queue /\ worker' = worker /\ kill' = kill
      /\ termination' = termination /\ stack' = stack
  OBVIOUS
<1>2. TypeInv' /\ StackInv' /\ KillInv'
  BY <1>1 DEF CallsInv, TypeInv, StackInv, CallInv, Depths, KillInv
<1>3. SameHoldings
  BY <1>1 DEF SameHoldings, Holding, Holds, Depths
<1>4. \A u, d, k : Holding(u, d, k) => (InHand(u, d, k)' <=> InHand(u, d, k))
  BY <1>1 DEF InHand
<1>5. \A q \in Workers : stack'[q] # <<>> => worker[q].life = "working"
  BY <1>1 DEF CallsInv, WorkerInv
<1>6. QED
  BY <1>1, <1>2, <1>3, <1>4, <1>5, SameWorkers

LEMMA StepCleanupThreads ==
  ASSUME CallsInv, CleanupThreads, inited PROVE CallsInv'
<1>1. /\ kill = Nobody /\ inited /\ kill' = Starting
      /\ inited' = inited /\ queue' = queue /\ worker' = worker
      /\ termination' = termination /\ stack' = stack
  BY DEF CleanupThreads, PlannerFree
<1>2. \A t \in Threads : stack[t] = <<>>
  BY AllReturned DEF CleanupThreads, PlannerFree
<1>3. TypeInv'
  BY <1>1 DEF CallsInv, TypeInv
<1>4. QueueInv'
  BY <1>1, KillPlaces DEF CallsInv, QueueInv
<1>5. termination = 0
  BY <1>1, KillPlaces DEF CallsInv, KillInv
<1>6. KillInv'
  BY <1>1, <1>2, <1>5, KillPlaces DEF KillInv
<1>7. \A q \in Workers : worker'[q].life = "none" \/ q \in Elements(queue')
  BY <1>1, <1>2, NotHeld, KillPlaces DEF CallsInv, WorkerInv
<1>8. QED
  BY <1>1, <1>2, <1>3, <1>4, <1>6, <1>7, QuietStep DEF CallsInv, WorkerInv

LEMMA StepKillNext ==
  ASSUME CallsInv, KillNext PROVE CallsInv'
<1> DEFINE q == Head(queue)
           r == [worker[q] EXCEPT !.w = Terminate, !.ready = worker[q].ready + 1]
<1>1. /\ kill = Starting /\ queue # <<>> /\ queue' = Tail(queue) /\ kill' = Ending(q)
      /\ inited' = inited /\ termination' = termination /\ stack' = stack
  BY DEF KillNext
<1>2. queue \in Seq(Workers) /\ worker \in [Workers -> WorkerRecords] /\ Distinct(queue)
  BY DEF CallsInv, TypeInv, QueueInv
<1>3. q \in Workers
  BY <1>1, <1>2
<1>4. worker' = [worker EXCEPT ![q] = r]
  BY <1>2, <1>3 DEF KillNext
<1>5. /\ q \in Elements(queue) /\ queue' \in Seq(Workers) /\ Distinct(queue')
      /\ Elements(queue') = Elements(queue) \ {q}
  BY <1>1, <1>2, PopHead
<1> HIDE DEF q
<1>6. \A t \in Threads : stack[t] = <<>>
  BY <1>1, KillPlaces DEF CallsInv, KillInv
<1>7. Idle(worker[q]) /\ worker[q] \in WorkerRecords /\ Terminate \in Items
  BY <1>2, <1>3, <1>5 DEF CallsInv, QueueInv, Items
<1>8. r \in WorkerRecords /\ r.life # "none" /\ Signalled(r, Terminate)
  BY <1>7, SignalWorker, ZenonT(60)
<1> HIDE DEF r
<1>9. worker'[q] = r /\ \A p \in Workers : p # q => worker'[p] = worker[p]
  BY <1>2, <1>3, <1>4
<1>10. TypeInv'
  BY <1>1, <1>2, <1>3, <1>4, <1>5, <1>8 DEF CallsInv, TypeInv
<1>11. QueueInv'
  <2>1. ASSUME NEW p \in Elements(queue') PROVE Idle(worker'[p]) /\ kill' # Ending(p)
    <3>1. p \in Elements(queue) /\ p # q
      BY <1>5
    <3>2. p \in Workers
      BY <1>2, <3>1 DEF Elements
    <3>3. QED
      BY <1>1, <1>9, <3>1, <3>2, EndingsDiffer DEF CallsInv, QueueInv
  <2>2. QED
    BY <1>5, <2>1 DEF QueueInv
<1>12. KillInv'
  <2>1. termination = 0 /\ inited
    BY <1>1, KillPlaces DEF CallsInv, KillInv
  <2>2. \A p \in Workers : kill' = Ending(p) => p = q
    BY <1>1, EndingsDiffer
  <2>3. inited' /\ kill' # Nobody /\ termination' = 0 /\ kill' = Ending(q)
        /\ \A t \in Threads : stack'[t] = <<>>
    BY <1>1, <1>6, <2>1, KillPlaces
  <2>4. QED
    BY <1>8, <1>9, <2>2, <2>3 DEF KillInv
<1>13. ASSUME NEW p \in Workers
       PROVE  /\ worker'[p].life = "none" => worker'[p] = Unmade
              /\ worker'[p].life = "none" \/ p \in Elements(queue') \/ kill' = Ending(p)
  <2>1. CASE p = q
    BY <1>1, <1>8, <1>9, <2>1
  <2>2. CASE p # q
    BY <1>1, <1>5, <1>6, <1>9, <2>2, NotHeld, KillPlaces DEF CallsInv, WorkerInv
  <2>3. QED
    BY <2>1, <2>2
<1>14. QED
  BY <1>1, <1>6, <1>10, <1>11, <1>12, <1>13, QuietStep DEF CallsInv

LEMMA StepUnmake ==
  ASSUME CallsInv, Unmake PROVE CallsInv'
<1>1. PICK q \in Workers : kill = Ending(q) /\ worker' = [worker EXCEPT ![q] = Unmade]
  BY DEF Unmake
<1>2. /\ termination > 0 /\ termination' = termination - 1 /\ kill' = Starting
      /\ inited' = inited /\ queue' = queue /\ stack' = stack
  BY DEF Unmake
<1>3. worker \in [Workers -> WorkerRecords] /\ queue \in Seq(Workers)
  BY DEF CallsInv, TypeInv
<1>4. worker'[q] = Unmade /\ \A p \in Workers : p # q => worker'[p] = worker[p]
  BY <1>1, <1>3
<1>5. inited /\ termination' = 0 /\ \A t \in Threads : stack[t] = <<>>
  BY <1>1, <1>2, KillPlaces DEF CallsInv, KillInv
<1>6. TypeInv'
  BY <1>1, <1>2, <1>3, <1>5, MadeWorkers DEF CallsInv, TypeInv
<1>7. QueueInv'
  <2>1. \A p \in Elements(queue) : p \in Workers /\ p # q
    BY <1>1, <1>3 DEF Elements, CallsInv, QueueInv
  <2>2. QED
    BY <1>2, <1>4, <2>1, KillPlaces DEF CallsInv, QueueInv
<1>8. KillInv'
  BY <1>2, <1>5, KillPlaces DEF KillInv
<1>9. ASSUME NEW p \in Workers
      PROVE  /\ worker'[p].life = "none" => worker'[p] = Unmade
             /\ worker'[p].life = "none" \/ p \in Elements(queue') \/ kill' = Ending(p)
  <2>1. CASE p = q
    BY <1>4, <2>1, MadeWorkers
  <2>2. CASE p # q
    <3>1. kill # Ending(p)
      BY <1>1, <2>2, EndingsDiffer
    <3>2. QED
      BY <1>2, <1>4, <1>5, <2>2, <3>1, NotHeld DEF CallsInv, WorkerInv
  <2>3. QED
    BY <2>1, <2>2
<1>10. QED
  BY <1>2, <1>5, <1>6, <1>7, <1>8, <1>9, QuietStep DEF CallsInv

LEMMA StepCleanupEnds ==
  ASSUME CallsInv, CleanupEnds PROVE CallsInv'
<1>1. /\ kill = Starting /\ queue = <<>> /\ kill' = Nobody /\ inited' = FALSE
      /\ queue' = queue /\ worker' = worker /\ termination' = termination /\ stack' = stack
  BY DEF CleanupEnds
<1>2. \A t \in Threads : stack[t] = <<>>
  BY <1>1, KillPlaces DEF CallsInv, KillInv
<1>3. termination = 0
  BY <1>1, KillPlaces DEF CallsInv, KillInv
<1>4. Elements(queue) = {}
  BY <1>1 DEF Elements
<1>5. \A q \in Workers : worker[q].life = "none"
  BY <1>1, <1>2, <1>4, NotHeld, KillPlaces DEF CallsInv, WorkerInv
<1>6. TypeInv'
  BY <1>1 DEF CallsInv, TypeInv
<1>7. QueueInv'
  BY <1>1, <1>4 DEF CallsInv, QueueInv
<1>8. KillInv'
  BY <1>1, <1>2, <1>3, <1>5, KillPlaces DEF KillInv
<1>9. QED
  BY <1>1, <1>2, <1>5, <1>6, <1>7, <1>8, QuietStep DEF CallsInv, WorkerInv

LEMMA StepCalls == CallsInv /\ [Next]_vars => CallsInv'
<1> SUFFICES ASSUME CallsInv, [Next]_vars PROVE CallsInv'
  OBVIOUS
<1>1. CASE UNCHANGED vars
  BY <1>1, StutterCalls DEF vars
<1>2. CASE InitThreads
  BY <1>2, StepInitialised DEF InitThreads
<1>3. CASE ThePlanner \/ Cleanup
  BY <1>3, StutterCalls DEF ThePlanner, Cleanup
<1>4. CASE CleanupThreads
  <2>1. CASE inited
    BY <1>4, <2>1, StepCleanupThreads
  <2>2. CASE ~inited
    BY <1>4, <2>2, StutterCalls DEF CleanupThreads, PlannerFree
  <2>3. QED
    BY <2>1, <2>2
<1>5. CASE KillStep
  BY <1>5, StepKillNext, StepUnmake, StepCleanupEnds DEF KillStep
<1>6. ASSUME NEW n \in 1 .. MaxThreads, PlanWithNthreads(n) PROVE CallsInv'
  <2>1. CASE ~inited /\ Initialised(NoPlanner, n)
    BY <1>6, <2>1, StepInitialised DEF PlanWithNthreads
  <2>2. CASE UNCHANGED <<inited, inits, queue, termination>>
    BY <1>6, <2>2, StutterCalls DEF PlanWithNthreads
  <2>3. QED
    BY <1>6, <2>1, <2>2, Zenon DEF PlanWithNthreads
<1>7. ASSUME NEW t \in Threads, ThreadStep(t) PROVE CallsInv'
  <2>1. CASE Dequeue(t) \/ Assign(t) \/ OwnBlock(t) \/ OwnBlockEnds(t)
    BY <2>1, StepDequeue, StepAssign, StepOwnBlock, StepOwnBlockEnds
  <2>2. CASE DownDone(t) \/ Enqueue(t) \/ Return(t)
    BY <2>2, StepDownDone, StepEnqueue, StepReturn
  <2>3. CASE t \in Workers /\ (Take(t) \/ WorkDone(t))
    BY <2>3, StepTake, StepWorkDone
  <2>4. QED
    BY <1>7, <2>1, <2>2, <2>3 DEF ThreadStep
<1>8. ASSUME NEW t \in Threads, NEW l \in Loops, Call(t, l[1], l[2]) PROVE CallsInv'
  <2>1. l[1] \in Nat \ {0} /\ l[2] \in Nat \ {0}
    BY LoopsAssumption
  <2>2. QED
    BY <1>8, <2>1, StepCall
<1>9. QED
  BY <1>1, <1>2, <1>3, <1>4, <1>5, <1>6, <1>7, <1>8 DEF Next

LEMMA InitCalls == Init => CallsInv
<1> SUFFICES ASSUME Init PROVE CallsInv
  OBVIOUS
<1>1. /\ inited = FALSE /\ queue = <<>> /\ kill = Nobody /\ termination = 0
      /\ worker = [q \in Workers |-> Unmade] /\ stack = [t \in Threads |-> <<>>]
  BY DEF Init
<1>2. \A t \in Threads : stack[t] = <<>> /\ Depths(t) = {}
  BY <1>1 DEF Depths
<1>3. \A t, d, k : ~Holding(t, d, k)
  BY <1>2 DEF Holding
<1>4. TypeInv
  <2>1. <<>> \in Seq(CallRecords) /\ <<>> \in Seq(Workers)
    OBVIOUS
  <2>2. stack \in [Threads -> Seq(CallRecords)]
    BY <1>1, <2>1
  <2>3. worker \in [Workers -> WorkerRecords]
    BY <1>1, MadeWorkers
  <2>4. QED
    BY <1>1, <2>1, <2>2, <2>3 DEF TypeInv
<1>5. HeldOnce /\ HeldApart /\ HeldServe
  BY <1>3 DEF HeldOnce, HeldApart, HeldServe
<1>6. StackInv
  BY <1>2 DEF StackInv
<1>7. QueueInv
  BY <1>1 DEF QueueInv, Distinct, Elements
<1>8. WorkerInv
  BY <1>1, <1>2, MadeWorkers, WorkersAreThreads DEF WorkerInv
<1>9. KillInv
  BY <1>1, <1>2, MadeWorkers, KillPlaces DEF KillInv
<1>10. RankInv
  <2> DEFINE rank == [t \in Threads |-> 0]
  <2>1. rank \in [Threads -> Nat]
    OBVIOUS
  <2>2. Ranks(rank)
    BY <1>3 DEF Ranks
  <2>3. QED
    BY <2>1, <2>2 DEF RankInv
<1>11. QED
  BY <1>4, <1>5, <1>6, <1>7, <1>8, <1>9, <1>10 DEF CallsInv

LEMMA CallsAlways == Spec => []CallsInv
  BY InitCalls, StepCalls, PTL DEF Spec

\* For any number of clients, workers, nested calls and cleanups: a thread that
\* was given a work item, or executes it, uses memory of a call that waits for
\* this very worker, no two threads execute the same item, and the workers that
\* dequeue finds are idle.
THEOREM WorkItemsAreLive == Spec => []WorkIsLive
<1>1. ASSUME CallsInv PROVE WorkIsLive
  <2>1. ASSUME NEW q \in Workers, worker[q].life = "working"
        PROVE  Live(worker[q].at)
               /\ stack[worker[q].at[1]][worker[q].at[2]].q[worker[q].at[3] + 1] = q
    <3>1. PICK t, d, k : /\ stack[t][d].q[k] = q /\ k \in Nat \ {0}
                         /\ Executes(worker[q], <<t, d, k - 1>>) /\ Live(<<t, d, k - 1>>)
      BY <1>1, <2>1, ExecutedItem
    <3>2. worker[q].at = <<t, d, k - 1>> /\ (k - 1) + 1 = k
      BY <3>1 DEF Executes
    <3>3. QED
      BY <3>1, <3>2
  <2>2. ASSUME NEW q \in Workers, worker[q].ready = 1, worker[q].w # Terminate
        PROVE  Live(worker[q].w)
               /\ stack[worker[q].w[1]][worker[q].w[2]].q[worker[q].w[3] + 1] = q
    <3>1. q \notin Elements(queue)
      BY <1>1, <2>2 DEF CallsInv, QueueInv, Idle
    <3>2. kill # Ending(q)
      BY <1>1, <2>2 DEF CallsInv, KillInv, Signalled
    <3>3. worker[q].life # "none"
      BY <1>1, <2>2 DEF CallsInv, WorkerInv, Unmade, FreshWorker
    <3>4. PICK t, d, k : Holding(t, d, k) /\ stack[t][d].q[k] = q
      BY <1>1, <3>1, <3>2, <3>3, SMTT(30) DEF CallsInv, WorkerInv, Held
    <3>5. worker[q].w = <<t, d, k - 1>>
      BY <1>1, <2>2, <3>4
      DEF CallsInv, HeldServe, Idle, Serves, Signalled, Executes, HasServed
    <3>6. Live(<<t, d, k - 1>>) /\ (k - 1) + 1 = k
      BY <1>1, <3>4, HeldIsLive
    <3>7. QED
      BY <3>4, <3>5, <3>6
  <2>3. ASSUME NEW p \in Workers, NEW q \in Workers, p # q, worker[p].life = "working",
               worker[q].life = "working"
        PROVE  worker[p].at # worker[q].at
    BY <2>1, <2>3, SMTT(30)
  <2>4. ItemsAreLive
    BY <2>1, <2>2, <2>3 DEF ItemsAreLive
  <2>5. QueuedIsIdle
    BY <1>1 DEF CallsInv, QueueInv, Distinct, Elements, Idle, QueuedIsIdle
  <2>6. QED
    BY <2>4, <2>5 DEF WorkIsLive
<1>2. QED
  BY <1>1, CallsAlways, PTL

\* threads.c:340-344: kill_workforce finds every worker in the queue, so that it
\* may keep the lock while it waits for one to end, and leaves none.
THEOREM CleanupReachesAll == Spec => []KillReachesAll
<1>1. ASSUME CallsInv PROVE KillReachesAll
  <2>1. ASSUME kill # Nobody, NEW q \in Workers
        PROVE  worker[q].life = "none" \/ kill = Ending(q) \/ \E i \in DOMAIN queue : queue[i] = q
    <3>1. ~Held(q)
      BY <1>1, <2>1, NotHeld DEF CallsInv, KillInv
    <3>2. QED
      BY <1>1, <3>1 DEF CallsInv, WorkerInv, Elements
  <2>2. ~inited => \A q \in Workers : worker[q] = Unmade
    BY <1>1 DEF CallsInv, KillInv, WorkerInv
  <2>3. QED
    BY <2>1, <2>2 DEF KillReachesAll
<1>2. QED
  BY <1>1, CallsAlways, PTL

-----------------------------------------------------------------------------
(* The iterations of a loop.                                               *)

Partition(c) ==
  \A k \in 0 .. c.loopmax - 1 : \E i \in 0 .. c.nthr - 1 :
     /\ k \in Block(c, i)
     /\ \A j \in 0 .. c.nthr - 1 : k \in Block(c, j) => j = i

\* Item j of call d of thread t has been executed: by the caller, which then waits
\* for its workers, or by a worker that was joined or waits to be.
Done(t, d, j) ==
  IF j = stack[t][d].nthr - 1 THEN stack[t][d].phase \in {"join", "enqueue"}
  ELSE \/ stack[t][d].phase = "join" /\ j < stack[t][d].i
       \/ stack[t][d].phase = "enqueue" /\ j <= stack[t][d].i
       \/ Holds(t, d, j + 1) /\ worker[stack[t][d].q[j + 1]].done = 1

Count(b) == IF b THEN 1 ELSE 0
RanOnce(t, d) ==
  /\ Partition(stack[t][d])
  /\ stack[t][d].ran \in [0 .. stack[t][d].loopmax - 1 -> Nat]
  /\ \A j \in 0 .. stack[t][d].nthr - 1 : \A k \in Block(stack[t][d], j) :
       stack[t][d].ran[k] = Count(Done(t, d, j))
RanInv == \A t \in Threads : \A d \in Depths(t) : RanOnce(t, d)

LEMMA BlocksApart ==
  ASSUME NEW c, Partition(c), NEW i \in 0 .. c.nthr - 1, NEW j \in 0 .. c.nthr - 1,
         NEW k \in Block(c, i), k \in Block(c, j)
  PROVE  i = j
<1>1. k \in 0 .. c.loopmax - 1
  BY DEF Block
<1>2. QED
  BY <1>1 DEF Partition

\* The same loop is cut into the same blocks.
LEMMA SameBlocks ==
  ASSUME NEW b, NEW c, c.loopmax = b.loopmax, c.block_size = b.block_size, c.nthr = b.nthr
  PROVE  (\A j : Block(c, j) = Block(b, j)) /\ (Partition(c) <=> Partition(b))
<1>1. \A j : Block(c, j) = Block(b, j)
  BY DEF Block
<1>2. QED
  BY <1>1 DEF Partition

\* Executing item j counts its iterations, and no others.
LEMMA RanCounts ==
  ASSUME NEW b \in CallRecords, Partition(b), b.ran \in [0 .. b.loopmax - 1 -> Nat],
         NEW j \in 0 .. b.nthr - 1
  PROVE  /\ Ran(b, j).ran \in [0 .. b.loopmax - 1 -> Nat]
         /\ \A i \in 0 .. b.nthr - 1 : \A k \in Block(b, i) :
              Ran(b, j).ran[k] = b.ran[k] + Count(i = j)
<1> DEFINE f == [k \in DOMAIN b.ran |-> IF k \in Block(b, j) THEN b.ran[k] + 1 ELSE b.ran[k]]
<1>1. /\ Ran(b, j).ran = f /\ f \in [0 .. b.loopmax - 1 -> Nat]
      /\ \A k \in 0 .. b.loopmax - 1 :
           f[k] = IF k \in Block(b, j) THEN b.ran[k] + 1 ELSE b.ran[k]
  <2>1. Ran(b, j).ran = f
    BY RanIsCall, ZenonT(60)
  <2>2. DOMAIN b.ran = 0 .. b.loopmax - 1 /\ \A k \in 0 .. b.loopmax - 1 : b.ran[k] \in Nat
    OBVIOUS
  <2>3. QED
    BY <2>1, <2>2
<1> HIDE DEF f
<1>2. Ran(b, j).ran \in [0 .. b.loopmax - 1 -> Nat]
  BY <1>1
<1>3. ASSUME NEW i \in 0 .. b.nthr - 1, NEW k \in Block(b, i)
      PROVE  Ran(b, j).ran[k] = b.ran[k] + Count(i = j)
  <2>1. k \in 0 .. b.loopmax - 1 /\ b.ran[k] \in Nat
    BY DEF Block
  <2>2. Ran(b, j).ran[k] = IF k \in Block(b, j) THEN b.ran[k] + 1 ELSE b.ran[k]
    BY <1>1, <2>1
  <2>3. k \in Block(b, j) <=> i = j
    BY BlocksApart
  <2>4. QED
    BY <2>1, <2>2, <2>3 DEF Count
<1>4. QED
  BY <1>2, <1>3

LEMMA SameRan ==
  ASSUME NEW t, NEW d, NEW c, stack'[t][d] = c, RanOnce(t, d),
         c.loopmax = stack[t][d].loopmax, c.block_size = stack[t][d].block_size,
         c.nthr = stack[t][d].nthr, c.ran = stack[t][d].ran,
         \A j \in 0 .. c.nthr - 1 : Done(t, d, j)' <=> Done(t, d, j)
  PROVE  RanOnce(t, d)'
<1>1. (\A j : Block(c, j) = Block(stack[t][d], j))
      /\ (Partition(c) <=> Partition(stack[t][d]))
  BY SameBlocks
<1>2. Partition(stack[t][d])' <=> Partition(c)
  BY DEF Partition, Block
<1>3. \A j : Block(stack[t][d], j)' = Block(c, j)
  BY DEF Block
<1>4. ASSUME NEW j \in 0 .. c.nthr - 1, NEW k \in Block(c, j)
      PROVE  c.ran[k] = Count(Done(t, d, j)')
  BY <1>1 DEF RanOnce, Count
<1>5. QED
  BY <1>1, <1>2, <1>3, <1>4 DEF RanOnce, Count

\* A call that a step leaves alone, and whose workers have executed as much as before.
LEMMA SameCall ==
  ASSUME RanInv, NEW t \in Threads, NEW d \in Depths(t), stack'[t][d] = stack[t][d],
         \A k : Holds(t, d, k) =>
           worker'[stack[t][d].q[k]].done = worker[stack[t][d].q[k]].done
  PROVE  RanOnce(t, d)'
<1>1. \A k : Holds(t, d, k)' <=> Holds(t, d, k)
  BY DEF Holds
<1>2. \A j : Done(t, d, j)' <=> Done(t, d, j)
  BY <1>1 DEF Done
<1>3. QED
  BY <1>2, SameRan DEF RanInv

\* The last call of a thread changes, and no worker of another call does.
LEMMA TopRan ==
  ASSUME CallsInv, RanInv, NEW t \in Threads, stack[t] # <<>>, NEW c \in CallRecords,
         stack' = SetTop(t, c), NEW n, n = Len(stack[t]), RanOnce(t, n)',
         \A u, e, m : Holding(u, e, m) /\ ~(u = t /\ e = n) =>
           worker'[stack[u][e].q[m]].done = worker[stack[u][e].q[m]].done
  PROVE  RanInv'
<1>1. /\ \A u \in Threads : Depths(u)' = Depths(u)
      /\ \A u \in Threads : \A d \in Depths(u) :
           stack'[u][d] = IF u = t /\ d = n THEN c ELSE stack[u][d]
  BY TopUpdate DEF CallsInv
<1>2. ASSUME NEW u \in Threads, NEW d \in Depths(u) PROVE RanOnce(u, d)'
  <2>1. CASE u = t /\ d = n
    BY <2>1
  <2>2. CASE ~(u = t /\ d = n)
    <3>1. stack'[u][d] = stack[u][d]
      BY <1>1, <2>2
    <3>2. \A k : Holds(u, d, k) =>
            worker'[stack[u][d].q[k]].done = worker[stack[u][d].q[k]].done
      BY <2>2 DEF Holding
    <3>3. QED
      BY <3>1, <3>2, SameCall
  <2>3. QED
    BY <2>1, <2>2
<1>3. QED
  BY <1>1, <1>2 DEF RanInv

LEMMA TopFacts ==
  ASSUME CallsInv, RanInv, NEW t \in Threads, stack[t] # <<>>, NEW c \in CallRecords,
         stack' = SetTop(t, c), NEW n, n = Len(stack[t]), NEW b, b = Top(t)
  PROVE  /\ n \in Depths(t) /\ b \in CallRecords /\ CallInv(b)
         /\ stack[t][n] = b /\ stack'[t][n] = c /\ RanOnce(t, n)
<1>1. b \in CallRecords /\ CallInv(b) /\ n \in Depths(t) /\ b = stack[t][n]
  BY TopCall DEF CallsInv, Top
<1>2. stack'[t][n] = c
  BY <1>1, TopUpdate DEF CallsInv
<1>3. QED
  BY <1>1, <1>2 DEF RanInv

LEMMA RanOwnBlock ==
  ASSUME CallsInv, RanInv, NEW t \in Threads, OwnBlock(t) PROVE RanInv'
<1>1. PICK n, b : n = Len(stack[t]) /\ b = Top(t)
  OBVIOUS
<1> DEFINE c == [b EXCEPT !.phase = "proc"]
<1>2. stack[t] # <<>> /\ b.phase = "distribute" /\ stack' = SetTop(t, c) /\ worker' = worker
  BY <1>1 DEF OwnBlock, InPhase
<1>3. b \in CallRecords
  BY <1>1, <1>2, TopCall DEF CallsInv
<1>4. c \in CallRecords /\ c.phase = "proc" /\ c.q = b.q /\ c.i = b.i /\ c.ran = b.ran
      /\ c.loopmax = b.loopmax /\ c.block_size = b.block_size /\ c.nthr = b.nthr
  BY <1>3, PhaseUpdate DEF Phases
<1> HIDE DEF c
<1>5. stack[t][n] = b /\ stack'[t][n] = c /\ RanOnce(t, n)
  BY <1>1, <1>2, <1>4, TopFacts
<1>6. \A j : Done(t, n, j)' <=> Done(t, n, j)
  BY <1>2, <1>4, <1>5 DEF Done, Holds
<1>7. RanOnce(t, n)'
  BY <1>4, <1>5, <1>6, SameRan
<1>8. QED
  BY <1>1, <1>2, <1>4, <1>7, TopRan

LEMMA RanOwnBlockEnds ==
  ASSUME CallsInv, RanInv, NEW t \in Threads, OwnBlockEnds(t) PROVE RanInv'
<1>1. PICK n, b : n = Len(stack[t]) /\ b = Top(t)
  OBVIOUS
<1> DEFINE r == Ran(b, b.nthr - 1)
           c == [r EXCEPT !.i = 0, !.phase = "join"]
<1>2. stack[t] # <<>> /\ b.phase = "proc" /\ stack' = SetTop(t, c) /\ worker' = worker
  BY <1>1 DEF OwnBlockEnds, InPhase
<1>3. b \in CallRecords /\ CallInv(b)
  BY <1>1, <1>2, TopCall DEF CallsInv
<1>4. r \in CallRecords /\ r.loopmax = b.loopmax /\ r.block_size = b.block_size
      /\ r.nthr = b.nthr /\ r.q = b.q
  BY <1>3, RanIsCall
<1> HIDE DEF r
<1>5. c \in CallRecords /\ c.phase = "join" /\ c.q = b.q /\ c.i = 0 /\ c.ran = r.ran
      /\ c.loopmax = b.loopmax /\ c.block_size = b.block_size /\ c.nthr = b.nthr
  BY <1>4 DEF CallRecords, Phases
<1> HIDE DEF c
<1>6. stack[t][n] = b /\ stack'[t][n] = c /\ RanOnce(t, n)
  BY <1>1, <1>2, <1>5, TopFacts
<1>7. b.nthr \in Nat \ {0} /\ Len(b.q) = b.nthr - 1
  BY <1>2, <1>3, CallTypes DEF CallInv
<1>8. /\ r.ran \in [0 .. b.loopmax - 1 -> Nat]
      /\ \A j \in 0 .. b.nthr - 1 : \A k \in Block(b, j) :
           r.ran[k] = b.ran[k] + Count(j = b.nthr - 1)
  BY <1>3, <1>6, <1>7, RanCounts DEF RanOnce, r
<1>9. ASSUME NEW j \in 0 .. b.nthr - 1, NEW k \in Block(b, j)
      PROVE  c.ran[k] = Count(Done(t, n, j)')
  <2>1. b.ran[k] = Count(Done(t, n, j)) /\ r.ran[k] = b.ran[k] + Count(j = b.nthr - 1)
    BY <1>6, <1>8 DEF RanOnce
  <2>2. CASE j = b.nthr - 1
    <3>1. ~Done(t, n, j) /\ Done(t, n, j)'
      BY <1>2, <1>5, <1>6, <2>2 DEF Done
    <3>2. QED
      BY <1>5, <2>1, <2>2, <3>1 DEF Count
  <2>3. CASE j # b.nthr - 1
    <3>1. Holds(t, n, j + 1)' <=> Holds(t, n, j + 1)
      BY <1>2, <1>5, <1>6 DEF Holds
    <3>2. Done(t, n, j)' <=> Done(t, n, j)
      BY <1>2, <1>5, <1>6, <2>3, <3>1 DEF Done
    <3>3. QED
      BY <1>5, <2>1, <2>3, <3>2 DEF Count
  <2>4. QED
    BY <2>2, <2>3
<1>10. RanOnce(t, n)'
  <2>1. (\A j : Block(c, j) = Block(b, j)) /\ Partition(c)
    BY <1>5, <1>6, SameBlocks DEF RanOnce
  <2>2. Partition(stack[t][n])' <=> Partition(c)
    BY <1>6 DEF Partition, Block
  <2>3. \A j : Block(stack[t][n], j)' = Block(c, j)
    BY <1>6 DEF Block
  <2>4. QED
    BY <1>5, <1>6, <1>8, <1>9, <2>1, <2>2, <2>3 DEF RanOnce, Count
<1>11. QED
  BY <1>1, <1>2, <1>5, <1>10, TopRan

LEMMA RanAssign ==
  ASSUME CallsInv, RanInv, NEW t \in Threads, Assign(t) PROVE RanInv'
<1>1. PICK n, b, m : n = Len(stack[t]) /\ b = Top(t) /\ m = b.i + 1
  OBVIOUS
<1> DEFINE c == [b EXCEPT !.i = m, !.phase = "distribute"]
<1>2. stack[t] # <<>> /\ b.phase = "assign" /\ stack' = SetTop(t, c)
  BY <1>1 DEF Assign, InPhase
<1>3. b \in CallRecords /\ m \in Nat
  BY <1>1, <1>2, TopCall, CallTypes DEF CallsInv
<1>4. c \in CallRecords /\ c.phase = "distribute" /\ c.q = b.q /\ c.ran = b.ran
      /\ c.loopmax = b.loopmax /\ c.block_size = b.block_size /\ c.nthr = b.nthr
  BY <1>3 DEF CallRecords, Phases
<1> HIDE DEF c
<1>5. stack[t][n] = b /\ stack'[t][n] = c /\ RanOnce(t, n)
  BY <1>1, <1>2, <1>4, TopFacts
<1>6. \A q \in Workers : worker'[q].done = worker[q].done
  BY DEF Assign, CallsInv, TypeInv, WorkerRecords
<1>7. \A u, e, l : Holding(u, e, l) =>
        worker'[stack[u][e].q[l]].done = worker[stack[u][e].q[l]].done
  BY <1>6, HeldWorker DEF CallsInv
<1>8. \A j : Done(t, n, j)' <=> Done(t, n, j)
  <2>1. n \in Depths(t)
    BY <1>1, <1>2, <1>4, TopFacts
  <2>2. \A k : (Holds(t, n, k)' <=> Holds(t, n, k)) /\ (Holds(t, n, k) => Holding(t, n, k))
    BY <1>2, <1>4, <1>5, <2>1 DEF Holds, Holding
  <2>3. QED
    BY <1>2, <1>4, <1>5, <1>7, <2>2 DEF Done
<1>9. RanOnce(t, n)'
  BY <1>4, <1>5, <1>8, SameRan
<1>10. QED
  BY <1>1, <1>2, <1>4, <1>7, <1>9, TopRan

LEMMA RanDownDone ==
  ASSUME CallsInv, RanInv, NEW t \in Threads, DownDone(t) PROVE RanInv'
<1>1. PICK n, b, p : n = Len(stack[t]) /\ b = Top(t) /\ p = b.q[b.i + 1]
  OBVIOUS
<1> DEFINE c == [b EXCEPT !.phase = "enqueue"]
<1>2. stack[t] # <<>> /\ b.phase = "join" /\ stack' = SetTop(t, c) /\ b.i < b.nthr - 1
      /\ worker[p].done > 0
  BY <1>1 DEF DownDone, InPhase
<1>3. b \in CallRecords /\ CallInv(b)
  BY <1>1, <1>2, TopCall DEF CallsInv
<1>4. c \in CallRecords /\ c.phase = "enqueue" /\ c.q = b.q /\ c.i = b.i /\ c.ran = b.ran
      /\ c.loopmax = b.loopmax /\ c.block_size = b.block_size /\ c.nthr = b.nthr
  BY <1>3, PhaseUpdate DEF Phases
<1> HIDE DEF c
<1>5. n \in Depths(t) /\ stack[t][n] = b /\ stack'[t][n] = c /\ RanOnce(t, n)
  BY <1>1, <1>2, <1>4, TopFacts
<1>6. b.i \in Nat /\ b.nthr \in Nat /\ Len(b.q) = b.nthr - 1
  BY <1>2, <1>3, CallTypes DEF CallInv
<1>7. b.i + 1 \in 1 .. Len(b.q) /\ b.i + 1 > b.i
  BY <1>2, <1>6
<1>8. Holding(t, n, b.i + 1) /\ Holds(t, n, b.i + 1) /\ ~InHand(t, n, b.i + 1)
  BY <1>2, <1>5, <1>7 DEF Holding, Holds, InHand
<1>9. worker[p].done = 1
  <2>1. Serves(worker[stack[t][n].q[b.i + 1]], <<t, n, (b.i + 1) - 1>>)
    BY <1>8 DEF CallsInv, HeldServe
  <2>2. stack[t][n].q[b.i + 1] = p
    BY <1>1, <1>5
  <2>3. QED
    BY <1>2, <2>1, <2>2 DEF Serves, Signalled, Executes, HasServed
<1>10. \A q \in Workers : q # p => worker'[q] = worker[q]
  BY <1>1 DEF DownDone, CallsInv, TypeInv
<1>11. \A u, e, m : Holding(u, e, m) /\ ~(u = t /\ e = n /\ m = b.i + 1) =>
         worker'[stack[u][e].q[m]] = worker[stack[u][e].q[m]]
  <2>1. stack[t][n].q[b.i + 1] = p
    BY <1>1, <1>5
  <2>2. \A u, e, m : Holding(u, e, m) /\ ~(u = t /\ e = n /\ m = b.i + 1) =>
          stack[u][e].q[m] # p
    BY <1>8, <2>1 DEF CallsInv, HeldOnce
  <2>3. QED
    BY <1>10, <2>2, HeldWorker DEF CallsInv
<1>12. ASSUME NEW j \in 0 .. c.nthr - 1 PROVE Done(t, n, j)' <=> Done(t, n, j)
  <2>1. CASE j = b.nthr - 1
    BY <1>2, <1>4, <1>5, <2>1 DEF Done
  <2>2. CASE j # b.nthr - 1 /\ j <= b.i
    <3>1. Done(t, n, j)'
      BY <1>4, <1>5, <2>2 DEF Done
    <3>2. CASE j < b.i
      BY <1>2, <1>5, <2>2, <3>1, <3>2 DEF Done
    <3>3. CASE j = b.i
      BY <1>1, <1>5, <1>8, <1>9, <2>2, <3>1, <3>3 DEF Done
    <3>4. QED
      BY <1>6, <2>2, <3>2, <3>3
  <2>3. CASE j # b.nthr - 1 /\ j > b.i
    <3>1. Holds(t, n, j + 1)' <=> Holds(t, n, j + 1)
      BY <1>2, <1>4, <1>5 DEF Holds
    <3>2. Holds(t, n, j + 1) =>
            worker'[stack[t][n].q[j + 1]] = worker[stack[t][n].q[j + 1]]
      BY <1>5, <1>6, <1>11, <2>3 DEF Holding
    <3>3. QED
      BY <1>2, <1>4, <1>5, <1>6, <2>3, <3>1, <3>2 DEF Done
  <2>4. QED
    BY <1>6, <2>1, <2>2, <2>3
<1>13. RanOnce(t, n)'
  BY <1>4, <1>5, <1>12, SameRan
<1>14. QED
  BY <1>1, <1>2, <1>4, <1>11, <1>13, TopRan

LEMMA RanEnqueue ==
  ASSUME CallsInv, RanInv, NEW t \in Threads, Enqueue(t) PROVE RanInv'
<1>1. PICK n, b, m : n = Len(stack[t]) /\ b = Top(t) /\ m = b.i + 1
  OBVIOUS
<1> DEFINE c == [b EXCEPT !.i = m, !.phase = "join"]
<1>2. stack[t] # <<>> /\ b.phase = "enqueue" /\ stack' = SetTop(t, c) /\ worker' = worker
  BY <1>1 DEF Enqueue, InPhase
<1>3. b \in CallRecords
  BY <1>1, <1>2, TopCall DEF CallsInv
<1>4. b.i \in Nat /\ b.nthr \in Nat /\ m \in Nat /\ m = b.i + 1
  BY <1>1, <1>3, CallTypes
<1>5. c \in CallRecords /\ c.phase = "join" /\ c.q = b.q /\ c.i = m /\ c.ran = b.ran
      /\ c.loopmax = b.loopmax /\ c.block_size = b.block_size /\ c.nthr = b.nthr
  BY <1>3, <1>4 DEF CallRecords, Phases
<1> HIDE DEF c
<1>6. stack[t][n] = b /\ stack'[t][n] = c /\ RanOnce(t, n)
  BY <1>1, <1>2, <1>5, TopFacts
<1>7. ASSUME NEW j \in 0 .. c.nthr - 1 PROVE Done(t, n, j)' <=> Done(t, n, j)
  <2>1. j \in Nat
    BY <1>4, <1>5
  <2>2. CASE j <= b.i
    BY <1>2, <1>4, <1>5, <1>6, <2>1, <2>2 DEF Done
  <2>3. CASE j > b.i
    <3>1. Holds(t, n, j + 1)' <=> Holds(t, n, j + 1)
      BY <1>2, <1>4, <1>5, <1>6, <2>1, <2>3 DEF Holds
    <3>2. QED
      BY <1>2, <1>4, <1>5, <1>6, <2>1, <2>3, <3>1 DEF Done
  <2>4. QED
    BY <1>4, <2>1, <2>2, <2>3
<1>8. RanOnce(t, n)'
  BY <1>5, <1>6, <1>7, SameRan
<1>9. QED
  BY <1>1, <1>2, <1>5, <1>8, TopRan

LEMMA RanDequeue ==
  ASSUME CallsInv, RanInv, NEW t \in Threads, Dequeue(t) PROVE RanInv'
<1>1. PICK n, b : n = Len(stack[t]) /\ b = Top(t)
  OBVIOUS
<1>2. stack[t] # <<>> /\ b.phase = "distribute" /\ b.i < b.nthr - 1
  BY <1>1 DEF Dequeue, InPhase
<1>3. b \in CallRecords /\ CallInv(b)
  BY <1>1, <1>2, TopCall DEF CallsInv
<1>4. b.i \in Nat /\ b.nthr \in Nat /\ b.q \in Seq(Workers) /\ Len(b.q) = b.i
  BY <1>2, <1>3, CallTypes DEF CallInv
<1>5. PICK p \in Workers :
        /\ Given(t, p) /\ worker'[p].done = 0
        /\ \A q \in Workers : Held(q) => worker'[q] = worker[q]
  <2>1. CASE queue # <<>> /\ queue' = Tail(queue) /\ Given(t, Head(queue)) /\ UNCHANGED worker
    <3>1. Head(queue) \in Elements(queue) /\ Head(queue) \in Workers
      BY <2>1, PopHead DEF CallsInv, TypeInv, QueueInv
    <3>2. worker'[Head(queue)].done = 0
      BY <2>1, <3>1 DEF CallsInv, QueueInv, Idle
    <3>3. QED
      BY <2>1, <3>1, <3>2
  <2>2. ASSUME queue = <<>>, Unused # {}, NEW p, p = CHOOSE q \in Unused : TRUE,
               worker' = [worker EXCEPT ![p] = FreshWorker], Given(t, p)
        PROVE  /\ p \in Workers /\ worker'[p].done = 0
               /\ \A q \in Workers : Held(q) => worker'[q] = worker[q]
    <3>1. p \in Workers /\ worker[p].life = "none"
      BY <2>2 DEF Unused
    <3>2. worker'[p].done = 0 /\ \A q \in Workers : q # p => worker'[q] = worker[q]
      BY <2>2, <3>1 DEF FreshWorker, CallsInv, TypeInv
    <3>3. ~Held(p)
      BY <3>1, HeldAlive
    <3>4. QED
      BY <3>1, <3>2, <3>3
  <2>3. QED
    BY <2>1, <2>2 DEF Dequeue
<1> DEFINE l == Append(b.q, p)
           c == [b EXCEPT !.q = l, !.phase = "assign"]
<1>6. stack' = SetTop(t, c)
  BY <1>1, <1>5 DEF Given
<1>7. l \in Seq(Workers) /\ Len(l) = b.i + 1 /\ l[b.i + 1] = p
      /\ \A k \in 1 .. b.i : l[k] = b.q[k]
  BY <1>4
<1> HIDE DEF l
<1>8. c \in CallRecords /\ c.phase = "assign" /\ c.q = l /\ c.ran = b.ran
      /\ c.loopmax = b.loopmax /\ c.block_size = b.block_size /\ c.nthr = b.nthr
  BY <1>3, <1>7 DEF CallRecords, Phases
<1> HIDE DEF c
<1>9. n \in Depths(t) /\ stack[t][n] = b /\ stack'[t][n] = c /\ RanOnce(t, n)
  BY <1>1, <1>2, <1>6, <1>8, TopFacts
<1>10. \A u, e, m : Holding(u, e, m) =>
         worker'[stack[u][e].q[m]].done = worker[stack[u][e].q[m]].done
  BY <1>5, HeldWorker DEF CallsInv, Held
<1>11. ASSUME NEW j \in 0 .. c.nthr - 1 PROVE Done(t, n, j)' <=> Done(t, n, j)
  <2>1. (Holds(t, n, j + 1) <=> j + 1 \in 1 .. b.i)
        /\ (Holds(t, n, j + 1)' <=> j + 1 \in 1 .. b.i + 1)
    BY <1>2, <1>4, <1>7, <1>8, <1>9 DEF Holds
  <2>2. CASE j + 1 \in 1 .. b.i
    <3>1. worker'[b.q[j + 1]].done = worker[b.q[j + 1]].done /\ l[j + 1] = b.q[j + 1]
      BY <1>7, <1>9, <1>10, <2>1, <2>2 DEF Holding
    <3>2. j + 1 \in 1 .. b.i + 1
      BY <1>4, <2>2
    <3>3. QED
      BY <1>2, <1>8, <1>9, <2>1, <2>2, <3>1, <3>2 DEF Done
  <2>3. CASE j + 1 \notin 1 .. b.i
    <3>1. j + 1 \in 1 .. b.i + 1 => worker'[l[j + 1]].done = 0
      BY <1>4, <1>5, <1>7, <2>3
    <3>2. QED
      BY <1>2, <1>8, <1>9, <2>1, <2>3, <3>1 DEF Done
  <2>4. QED
    BY <2>2, <2>3
<1>12. RanOnce(t, n)'
  BY <1>8, <1>9, <1>11, SameRan
<1>13. QED
  BY <1>1, <1>2, <1>6, <1>8, <1>10, <1>12, TopRan

LEMMA RanReturn ==
  ASSUME CallsInv, RanInv, NEW t \in Threads, Return(t) PROVE RanInv'
<1>1. worker' = worker
  BY DEF Return
<1>2. ASSUME NEW u \in Threads, NEW d \in Depths(u)' PROVE RanOnce(u, d)'
  BY <1>1, ReturnPops, SameCall
<1>3. QED
  BY <1>2 DEF RanInv

LEMMA RanCall ==
  ASSUME CallsInv, RanInv, NEW t \in Threads, NEW loopmax \in Nat \ {0}, NEW nthr \in Nat \ {0},
         Call(t, loopmax, nthr)
  PROVE  RanInv'
<1>1. PICK n, c : n = Len(stack[t]) + 1 /\ c = NewCall(loopmax, nthr)
  OBVIOUS
<1>2. worker' = worker
  BY DEF Call
<1>3. /\ \A u \in Threads : u # t => Depths(u)' = Depths(u)
      /\ Depths(t)' = Depths(t) \cup {n} /\ stack'[t][n] = c
      /\ \A u \in Threads : \A d \in Depths(u) : stack'[u][d] = stack[u][d]
  BY <1>1, CallPushes
<1>4. ASSUME NEW u \in Threads, NEW d \in Depths(u) PROVE RanOnce(u, d)'
  BY <1>2, <1>3, SameCall
<1>5. /\ c \in CallRecords /\ c.q = <<>> /\ c.phase = "distribute" /\ c.loopmax = loopmax
      /\ c.ran = [k \in 0 .. loopmax - 1 |-> 0]
  BY <1>1, NewCallIsCall
<1>6. Partition(c)
  <2>1. \A k \in 0 .. loopmax - 1 : \E i \in 0 .. c.nthr - 1 :
          /\ k \in Block(c, i)
          /\ \A j \in 0 .. c.nthr - 1 : k \in Block(c, j) => j = i
    BY <1>1, BlocksPartitionLoop, ZenonT(60)
  <2>2. QED
    BY <1>5, <2>1 DEF Partition
<1>7. \A k \in 0 .. loopmax - 1 : c.ran[k] = 0
  BY <1>5
<1>8. c.ran \in [0 .. loopmax - 1 -> Nat]
  BY <1>5
<1>9. \A j : ~Done(t, n, j)'
  BY <1>3, <1>5 DEF Done, Holds
<1>10. RanOnce(t, n)'
  <2>1. Partition(stack[t][n])' <=> Partition(c)
    BY <1>3 DEF Partition, Block
  <2>2. \A j : Block(stack[t][n], j)' = Block(c, j)
    BY <1>3 DEF Block
  <2>3. \A j : \A k \in Block(c, j) : c.ran[k] = 0
    BY <1>5, <1>7 DEF Block
  <2>4. QED
    BY <1>3, <1>5, <1>6, <1>8, <1>9, <2>1, <2>2, <2>3 DEF RanOnce, Count
<1>11. QED
  BY <1>3, <1>4, <1>10 DEF RanInv

LEMMA RanWorkDone ==
  ASSUME CallsInv, RanInv, NEW q \in Workers, WorkDone(q) PROVE RanInv'
<1>1. worker[q].life = "working"
  BY DEF WorkDone, InProc, InPhase
<1>2. PICK t, d, k : /\ Holding(t, d, k) /\ stack[t][d].q[k] = q /\ ~InHand(t, d, k)
                     /\ Executes(worker[q], <<t, d, k - 1>>) /\ k \in Nat \ {0}
                     /\ k <= stack[t][d].nthr - 1
  BY <1>1, ExecutedItem
<1>3. PICK b, c : b = stack[t][d] /\ c = Ran(b, k - 1)
  OBVIOUS
<1>4. t \in Threads /\ d \in Depths(t) /\ b \in CallRecords /\ RanOnce(t, d)
  BY <1>2, <1>3, HeldWorker DEF CallsInv, RanInv
<1>5. /\ \A u \in Threads : Depths(u)' = Depths(u)
      /\ \A u \in Threads : \A e \in Depths(u) :
           stack'[u][e] = IF u = t /\ e = d THEN c ELSE stack[u][e]
  BY <1>2, <1>3, WorkDoneRuns
<1>6. stack'[t][d] = c
  BY <1>4, <1>5
<1>7. worker'[q].done = 1 /\ worker[q].done = 0 /\ \A p \in Workers : p # q => worker'[p] = worker[p]
  <2>1. worker \in [Workers -> WorkerRecords] /\ worker[q] \in WorkerRecords /\ worker[q].done = 0
    BY <1>2 DEF CallsInv, TypeInv, Executes
  <2>2. worker'[q].done = worker[q].done + 1
    BY <2>1 DEF WorkDone, WorkerRecords
  <2>3. \A p \in Workers : p # q => worker'[p] = worker[p]
    BY <2>1 DEF WorkDone
  <2>4. QED
    BY <2>1, <2>2, <2>3
<1>8. \A u, e, m : Holding(u, e, m) /\ ~(u = t /\ e = d /\ m = k) =>
        worker'[stack[u][e].q[m]] = worker[stack[u][e].q[m]]
  <2>1. \A u, e, m : Holding(u, e, m) /\ ~(u = t /\ e = d /\ m = k) => stack[u][e].q[m] # q
    BY <1>2 DEF CallsInv, HeldOnce
  <2>2. QED
    BY <1>7, <2>1, HeldWorker DEF CallsInv
<1>9. ASSUME NEW u \in Threads, NEW e \in Depths(u), ~(u = t /\ e = d) PROVE RanOnce(u, e)'
  <2>1. stack'[u][e] = stack[u][e]
    BY <1>5, <1>9
  <2>2. \A m : Holds(u, e, m) =>
          worker'[stack[u][e].q[m]].done = worker[stack[u][e].q[m]].done
    BY <1>8, <1>9 DEF Holding
  <2>3. QED
    BY <2>1, <2>2, SameCall
<1>10. /\ c.loopmax = b.loopmax /\ c.block_size = b.block_size /\ c.nthr = b.nthr
       /\ c.i = b.i /\ c.phase = b.phase /\ c.q = b.q /\ b.nthr \in Nat
  BY <1>3, <1>4, RanIsCall, CallTypes, ZenonT(60)
<1>11. k - 1 \in 0 .. b.nthr - 1 /\ k - 1 # b.nthr - 1 /\ (k - 1) + 1 = k
  BY <1>2, <1>3, <1>10
<1>12. /\ c.ran \in [0 .. b.loopmax - 1 -> Nat]
       /\ \A j \in 0 .. b.nthr - 1 : \A x \in Block(b, j) : c.ran[x] = b.ran[x] + Count(j = k - 1)
  <2>1. Partition(b) /\ b.ran \in [0 .. b.loopmax - 1 -> Nat]
    BY <1>3, <1>4 DEF RanOnce
  <2>2. PICK i \in 0 .. b.nthr - 1 : i = k - 1
    BY <1>11
  <2>3. c = Ran(b, i)
    BY <1>3, <2>2
  <2>4. QED
    BY <1>4, <2>1, <2>2, <2>3, RanCounts
<1>13. \A m : Holds(t, d, m)' <=> Holds(t, d, m)
  BY <1>3, <1>6, <1>10 DEF Holds
<1>14. ASSUME NEW j \in 0 .. b.nthr - 1, NEW x \in Block(b, j)
       PROVE  c.ran[x] = Count(Done(t, d, j)')
  <2>1. b.ran[x] = Count(Done(t, d, j)) /\ c.ran[x] = b.ran[x] + Count(j = k - 1)
    BY <1>3, <1>4, <1>12 DEF RanOnce
  <2>2. CASE j = k - 1
    <3>1. Holds(t, d, k) /\ (b.phase = "join" => k > b.i)
          /\ (b.phase = "enqueue" => k > b.i /\ k # b.i + 1)
      BY <1>2, <1>3 DEF Holding, Holds, InHand
    <3>2. b.i \in Nat
      BY <1>4, CallTypes
    <3>3. ~(b.phase = "join" /\ j < b.i) /\ ~(b.phase = "enqueue" /\ j <= b.i)
      BY <1>2, <2>2, <3>1, <3>2
    <3>4. ~Done(t, d, j)
      BY <1>2, <1>3, <1>7, <1>11, <2>2, <3>3 DEF Done
    <3>5. Done(t, d, j)'
      BY <1>2, <1>3, <1>6, <1>7, <1>10, <1>11, <1>13, <2>2, <3>1 DEF Done
    <3>6. QED
      BY <2>1, <2>2, <3>4, <3>5 DEF Count
  <2>3. CASE j # k - 1
    <3>1. j + 1 # k
      BY <1>2, <2>3
    <3>2. Holds(t, d, j + 1) => worker'[b.q[j + 1]] = worker[b.q[j + 1]]
      BY <1>3, <1>4, <1>8, <3>1 DEF Holding
    <3>3. Done(t, d, j)' <=> Done(t, d, j)
      BY <1>3, <1>6, <1>10, <1>13, <3>2 DEF Done
    <3>4. QED
      BY <2>1, <2>3, <3>3 DEF Count
  <2>4. QED
    BY <2>2, <2>3
<1>15. RanOnce(t, d)'
  <2>1. (\A j : Block(c, j) = Block(b, j)) /\ (Partition(c) <=> Partition(b))
    BY <1>10, SameBlocks
  <2>2. Partition(stack[t][d])' <=> Partition(c)
    BY <1>6 DEF Partition, Block
  <2>3. \A j : Block(stack[t][d], j)' = Block(c, j)
    BY <1>6 DEF Block
  <2>4. Partition(b)
    BY <1>3, <1>4 DEF RanOnce
  <2>5. QED
    BY <1>6, <1>10, <1>12, <1>14, <2>1, <2>2, <2>3, <2>4 DEF RanOnce, Count
<1>16. QED
  BY <1>5, <1>9, <1>15 DEF RanInv

\* The steps that leave every call as it is.
LEMMA RanElsewhere ==
  ASSUME RanInv, UNCHANGED stack, \A q : Held(q) => worker'[q].done = worker[q].done
  PROVE  RanInv'
<1>1. stack' = stack /\ \A t : Depths(t)' = Depths(t)
  BY DEF Depths
<1>2. ASSUME NEW t \in Threads, NEW d \in Depths(t) PROVE RanOnce(t, d)'
  <2>1. \A k : Holds(t, d, k) =>
          worker'[stack[t][d].q[k]].done = worker[stack[t][d].q[k]].done
    BY DEF Held, Holding
  <2>2. QED
    BY <1>1, <2>1, SameCall
<1>3. QED
  BY <1>1, <1>2 DEF RanInv

LEMMA RanTake ==
  ASSUME CallsInv, RanInv, NEW q \in Workers, Take(q) PROVE RanInv'
<1>1. \A p \in Workers : worker'[p].done = worker[p].done
  BY SMTT(30) DEF Take, CallsInv, TypeInv, WorkerRecords
<1>2. UNCHANGED stack
  BY DEF Take
<1>3. QED
  BY <1>1, <1>2, HeldAlive, RanElsewhere

LEMMA RanKill ==
  ASSUME CallsInv, RanInv, KillStep PROVE RanInv'
<1>1. kill # Nobody /\ UNCHANGED stack
  BY KillPlaces DEF KillStep, KillNext, Unmake, CleanupEnds
<1>2. \A q : ~Held(q)
  BY <1>1, HeldAlive
<1>3. QED
  BY <1>1, <1>2, RanElsewhere

LEMMA StepRan == CallsInv /\ RanInv /\ [Next]_vars => RanInv'
<1> SUFFICES ASSUME CallsInv, RanInv, [Next]_vars PROVE RanInv'
  OBVIOUS
<1>1. CASE UNCHANGED <<worker, stack>>
  BY <1>1, RanElsewhere
<1>2. CASE InitThreads \/ ThePlanner \/ Cleanup \/ CleanupThreads
  BY <1>1, <1>2 DEF InitThreads, ThePlanner, Cleanup, CleanupThreads
<1>3. CASE KillStep
  BY <1>3, RanKill
<1>4. ASSUME NEW n \in 1 .. MaxThreads, PlanWithNthreads(n) PROVE RanInv'
  BY <1>1, <1>4 DEF PlanWithNthreads
<1>5. ASSUME NEW t \in Threads, ThreadStep(t) PROVE RanInv'
  <2>1. CASE Dequeue(t) \/ Assign(t) \/ OwnBlock(t) \/ OwnBlockEnds(t)
    BY <2>1, RanDequeue, RanAssign, RanOwnBlock, RanOwnBlockEnds
  <2>2. CASE DownDone(t) \/ Enqueue(t) \/ Return(t)
    BY <2>2, RanDownDone, RanEnqueue, RanReturn
  <2>3. CASE t \in Workers /\ (Take(t) \/ WorkDone(t))
    BY <2>3, RanTake, RanWorkDone
  <2>4. QED
    BY <1>5, <2>1, <2>2, <2>3 DEF ThreadStep
<1>6. ASSUME NEW t \in Threads, NEW l \in Loops, Call(t, l[1], l[2]) PROVE RanInv'
  <2>1. l[1] \in Nat \ {0} /\ l[2] \in Nat \ {0}
    BY LoopsAssumption
  <2>2. QED
    BY <1>6, <2>1, RanCall
<1>7. QED
  BY <1>1, <1>2, <1>3, <1>4, <1>5, <1>6 DEF Next, vars

\* threads.c:375: for every loop, number of threads and nesting of calls, when
\* spawn_loop is about to return each iteration has been executed exactly once.
THEOREM LoopsRunOnce == Spec => []EveryIterationOnce
<1>1. Init => RanInv
  <2> SUFFICES ASSUME Init, NEW t \in Threads PROVE Depths(t) = {}
    BY DEF RanInv
  <2>1. stack[t] = <<>>
    BY DEF Init
  <2>2. QED
    BY <2>1 DEF Depths
<1>2. ASSUME CallsInv, RanInv PROVE EveryIterationOnce
  <2> SUFFICES ASSUME NEW t \in Threads, Joined(t), NEW k \in DOMAIN Top(t).ran
               PROVE  Top(t).ran[k] = 1
    BY DEF EveryIterationOnce
  <2>1. PICK n, b : n = Len(stack[t]) /\ b = Top(t)
    OBVIOUS
  <2>2. stack[t] # <<>> /\ b.phase = "join" /\ b.i = b.nthr - 1
    BY <2>1 DEF Joined, InPhase
  <2>3. n \in Depths(t) /\ b = stack[t][n] /\ b \in CallRecords
    BY <1>2, <2>1, <2>2, TopCall DEF CallsInv, Top
  <2>4. RanOnce(t, n)
    BY <1>2, <2>3 DEF RanInv
  <2>5. k \in 0 .. b.loopmax - 1
    BY <2>1, <2>3, <2>4 DEF RanOnce
  <2>6. PICK j \in 0 .. b.nthr - 1 : k \in Block(b, j)
    BY <2>3, <2>4, <2>5 DEF RanOnce, Partition
  <2>7. j < b.i \/ j = b.nthr - 1
    BY <2>2, <2>3, CallTypes
  <2>8. Done(t, n, j)
    BY <2>2, <2>3, <2>7 DEF Done
  <2>9. QED
    BY <2>1, <2>3, <2>4, <2>6, <2>8 DEF RanOnce, Count
<1>3. QED
  BY <1>1, <1>2, CallsAlways, StepRan, PTL DEF Spec

=============================================================================
