----------------------------- MODULE FftwThreads -----------------------------
(***************************************************************************)
(* The thread pool of FFTW (threads/threads.c, threads/api.c): spawn_loop  *)
(* cuts a loop into blocks, gives all but the last one to pooled worker    *)
(* threads and waits for them.  Several clients may execute plans at once, *)
(* and the body of a loop may call spawn_loop again, in the client or in a *)
(* worker, so a thread has a stack of calls.  A work item lives in its     *)
(* caller's stack: its address is <<thread, depth, block>>, and the        *)
(* address is used again by a later call.                                  *)
(***************************************************************************)
EXTENDS Integers, Sequences, FiniteSets

CONSTANTS
    Clients,      \* threads of the application
    Workers,      \* the memory a struct worker may occupy
    Loops,        \* what plans ask for: iterations and threads of a loop
    MaxThreads,   \* bound: the argument of plan_with_nthreads
    MaxDepth,     \* bound: nested calls of spawn_loop
    MaxCalls,     \* bound: calls of spawn_loop in all
    MaxInits      \* bound: initialisations of the pool

ASSUME ClientsAssumption == Clients \cap Workers = {}
ASSUME BoundsAssumption ==
    /\ MaxThreads \in Nat \ {0}
    /\ MaxDepth \in Nat /\ MaxCalls \in Nat /\ MaxInits \in Nat
\* The assertions of spawn_loop, without the loops that return at once.
ASSUME LoopsAssumption == Loops \subseteq (Nat \ {0}) \X (Nat \ {0})

VARIABLES
    inited,    \* threads_inited
    planner,   \* the_planner: whether it exists and has the solvers of
               \* threads_conf_standard (threads) and of the hooks (hooks), and
               \* its nthr
    queue,     \* worker_queue, first element first
    worker,    \* the struct worker of each address, and its thread
    kill,      \* where kill_workforce is
    termination, \* termination_semaphore
    stack,     \* the spawn_loop calls each thread is in, outermost first
    calls, inits \* counted for the bounds

pool == <<queue, worker>>
vars == <<inited, planner, queue, worker, kill, termination, stack, calls, inits>>

Threads == Clients \cup Workers

\* Where kill_workforce is: not running; holding the lock, between two workers;
\* holding it and waiting for the end of worker q.
Nobody == <<>>
Starting == <<"starting">>
Ending(q) == <<"ending", q>>

\* The work of kill_workforce, whose proc is null, and no work at all.
Terminate == <<"terminate">>
NoWork == <<>>

FreshWorker == [life |-> "waiting", ready |-> 0, done |-> 0, w |-> NoWork, at |-> NoWork]
Unmade == [FreshWorker EXCEPT !.life = "none"]

\* os_mutex_lock(&queue_lock) succeeds: only kill_workforce keeps the lock
\* from one step to another.
LockFree == kill = Nobody

-----------------------------------------------------------------------------
(* Cutting the loop *)

\* Ceiling of the quotient, as both divisions of spawn_loop compute it.
Ceiling(a, b) == (a + b - 1) \div b

NewCall(loopmax, nthr) ==
    LET block_size == Ceiling(loopmax, nthr)
    IN  [loopmax |-> loopmax, block_size |-> block_size,
         nthr |-> Ceiling(loopmax, block_size),
         i |-> 0, phase |-> "distribute", q |-> <<>>,
         ran |-> [k \in 0 .. loopmax - 1 |-> 0]]

\* Mutant: d->max is taken for the last iteration of the block.
BlockInclusive(call, i) ==
    {k \in 0 .. call.loopmax - 1 :
        i * call.block_size <= k /\ k <= (i + 1) * call.block_size}

\* The iterations from d->min to d->max - 1 of item i.
Block(call, i) ==
    {k \in 0 .. call.loopmax - 1 :
        i * call.block_size <= k /\ k < (i + 1) * call.block_size}

Ran(call, i) ==
    [call EXCEPT !.ran = [k \in DOMAIN @ |->
                            IF k \in Block(call, i) THEN @[k] + 1 ELSE @[k]]]

Top(t) == stack[t][Len(stack[t])]
InPhase(t, phase) == stack[t] # <<>> /\ Top(t).phase = phase
SetTop(t, call) == [stack EXCEPT ![t][Len(stack[t])] = call]

\* The item at an address that some call still owns.
Live(a) == /\ Len(a) = 3
           /\ a[2] \in DOMAIN stack[a[1]]
           /\ a[3] \in 0 .. stack[a[1]][a[2]].nthr - 2

\* Thread t is inside a proc, and not inside a call that the proc made.
InProc(t) == \/ InPhase(t, "proc")
             \/ t \in Workers /\ stack[t] = <<>> /\ worker[t].life = "working"

-----------------------------------------------------------------------------
NoPlanner == [exists |-> FALSE, threads |-> FALSE, hooks |-> FALSE, nthr |-> 1]

\* the_planner: what exists, or a new planner; its codelets add the threaded
\* solvers of the hooks if these are registered.
Planning(before, registered) ==
    IF before.exists THEN before
    ELSE [NoPlanner EXCEPT !.exists = TRUE, !.hooks = registered]

Init ==
    /\ inited = FALSE
    /\ planner = NoPlanner
    /\ queue = <<>>
    /\ worker = [q \in Workers |-> Unmade]
    /\ kill = Nobody
    /\ termination = 0
    /\ stack = [t \in Threads |-> <<>>]
    /\ calls = 0
    /\ inits = 0

\* What init_threads leaves: an empty queue, the hooks, and a planner that was
\* created with them, or that existed, and that knows threads.
Initialised(before, nthr) ==
    /\ inited' = TRUE
    /\ inits' = inits + 1
    /\ queue' = <<>>
    /\ termination' = 0
    /\ planner' = [Planning(before, TRUE) EXCEPT !.threads = TRUE, !.nthr = nthr]

InitThreads ==
    /\ ~inited /\ inits < MaxInits
    /\ Initialised(planner, planner.nthr)
    /\ UNCHANGED <<worker, kill, stack, calls>>

\* The planner is not shared: no plan is executed, and no cleanup going on,
\* when the application changes it.
PlannerFree == kill = Nobody /\ \A c \in Clients : stack[c] = <<>>

\* plan_with_nthreads: an earlier planner, made without threads, is cleaned
\* up before the pool is initialised.  With the pool the planner may be gone
\* (fftw_cleanup); the one that takes its place is not told of threads again
\* and has only what the hooks add.
PlanWithNthreads(nthreads) ==
    /\ PlannerFree
    /\ \/ /\ ~inited /\ inits < MaxInits
          /\ Initialised(NoPlanner, nthreads)
       \/ /\ inited
          /\ planner' = [Planning(planner, TRUE) EXCEPT !.nthr = nthreads]
          /\ UNCHANGED <<inited, inits, queue, termination>>
    /\ UNCHANGED <<worker, kill, stack, calls>>

\* Any planning function that comes first creates the planner.
ThePlanner ==
    /\ PlannerFree /\ ~planner.exists
    /\ planner' = Planning(planner, inited)
    /\ UNCHANGED <<inited, queue, worker, kill, termination, stack, calls, inits>>

\* fftw_cleanup: the planner goes, the pool and the hooks stay.
Cleanup ==
    /\ PlannerFree
    /\ planner' = NoPlanner
    /\ UNCHANGED <<inited, queue, worker, kill, termination, stack, calls, inits>>

-----------------------------------------------------------------------------
(* spawn_loop *)

\* A client executes a plan, which is undefined once its planner was cleaned up,
\* or the proc that t is in calls spawn_loop.  A loop of no iterations returns
\* at once.
Call(t, loopmax, nthr) ==
    /\ calls < MaxCalls
    /\ \/ t \in Clients /\ stack[t] = <<>> /\ inited /\ planner.exists /\ kill = Nobody
       \/ InProc(t) /\ Len(stack[t]) < MaxDepth
    /\ calls' = calls + 1
    /\ stack' = [stack EXCEPT ![t] = Append(@, NewCall(loopmax, nthr))]
    /\ UNCHANGED <<inited, planner, queue, worker, kill, termination, inits>>

Given(t, q) ==
    stack' = SetTop(t, [Top(t) EXCEPT !.q = Append(@, q), !.phase = "assign"])

Unused == {q \in Workers : worker[q].life = "none"}

\* dequeue: the first worker of the queue, or a new one with its thread; at
\* which address make_worker finds memory makes no difference.
Dequeue(t) ==
    /\ InPhase(t, "distribute") /\ Top(t).i < Top(t).nthr - 1
    /\ LockFree
    /\ \/ /\ queue # <<>>
          /\ queue' = Tail(queue)
          /\ Given(t, Head(queue))
          /\ UNCHANGED worker
       \/ /\ queue = <<>> /\ Unused # {}
          /\ LET q == CHOOSE q \in Unused : TRUE
             IN  /\ worker' = [worker EXCEPT ![q] = FreshWorker]
                 /\ Given(t, q)
          /\ UNCHANGED queue
    /\ UNCHANGED <<inited, planner, kill, termination, calls, inits>>

\* w->q->w = w and os_sem_up(&w->q->ready).
Assign(t) ==
    /\ InPhase(t, "assign")
    /\ LET call == Top(t)
           q == call.q[call.i + 1]
       IN  /\ worker' = [worker EXCEPT ![q].w = <<t, Len(stack[t]), call.i>>,
                                       ![q].ready = @ + 1]
           /\ stack' = SetTop(t, [call EXCEPT !.i = @ + 1, !.phase = "distribute"])
    /\ UNCHANGED <<inited, planner, queue, kill, termination, calls, inits>>

\* The last item is the caller's own: it enters proc.
OwnBlock(t) ==
    /\ InPhase(t, "distribute") /\ Top(t).i = Top(t).nthr - 1
    /\ stack' = SetTop(t, [Top(t) EXCEPT !.phase = "proc"])
    /\ UNCHANGED <<inited, planner, queue, worker, kill, termination, calls, inits>>

OwnBlockEnds(t) ==
    /\ InPhase(t, "proc")
    /\ stack' = SetTop(t, [Ran(Top(t), Top(t).nthr - 1) EXCEPT !.i = 0, !.phase = "join"])
    /\ UNCHANGED <<inited, planner, queue, worker, kill, termination, calls, inits>>

\* os_sem_down(&w->q->done).
DownDone(t) ==
    /\ InPhase(t, "join") /\ Top(t).i < Top(t).nthr - 1
    /\ LET q == Top(t).q[Top(t).i + 1]
       IN  /\ worker[q].done > 0
           /\ worker' = [worker EXCEPT ![q].done = @ - 1]
    /\ stack' = SetTop(t, [Top(t) EXCEPT !.phase = "enqueue"])
    /\ UNCHANGED <<inited, planner, queue, kill, termination, calls, inits>>

\* Mutant: q->cdr is not set, and the workers queued before are forgotten.
EnqueueAlone(t) ==
    /\ InPhase(t, "enqueue")
    /\ LockFree
    /\ queue' = <<Top(t).q[Top(t).i + 1]>>
    /\ stack' = SetTop(t, [Top(t) EXCEPT !.i = @ + 1, !.phase = "join"])
    /\ UNCHANGED <<inited, planner, worker, kill, termination, calls, inits>>

Enqueue(t) ==
    /\ InPhase(t, "enqueue")
    /\ LockFree
    /\ queue' = <<Top(t).q[Top(t).i + 1]>> \o queue
    /\ stack' = SetTop(t, [Top(t) EXCEPT !.i = @ + 1, !.phase = "join"])
    /\ UNCHANGED <<inited, planner, worker, kill, termination, calls, inits>>

\* Mutant: the second loop does not wait for the last worker.
JoinedButLast(t) == InPhase(t, "join") /\ Top(t).i >= Top(t).nthr - 2

\* The second loop has ended: STACK_FREE and return.
Joined(t) == InPhase(t, "join") /\ Top(t).i = Top(t).nthr - 1

Return(t) ==
    /\ Joined(t)
    /\ stack' = [stack EXCEPT ![t] = SubSeq(@, 1, Len(@) - 1)]
    /\ UNCHANGED <<inited, planner, queue, worker, kill, termination, calls, inits>>

-----------------------------------------------------------------------------
(* The worker thread *)

\* os_sem_down(&ego->ready) and w = ego->w; a null proc ends the thread with
\* the termination protocol, which no longer touches ego.
Take(q) ==
    /\ worker[q].life = "waiting" /\ worker[q].ready > 0
    /\ IF worker[q].w = Terminate
       THEN /\ worker' = [worker EXCEPT ![q].ready = @ - 1, ![q].life = "ended"]
            /\ termination' = termination + 1
       ELSE /\ worker' = [worker EXCEPT ![q].ready = @ - 1, ![q].life = "working",
                                        ![q].at = worker[q].w]
            /\ UNCHANGED termination
    /\ UNCHANGED <<inited, planner, queue, kill, stack, calls, inits>>

\* proc returns; os_sem_up(&ego->done).
WorkDone(q) ==
    /\ InProc(q) /\ stack[q] = <<>>
    /\ LET a == worker[q].at
       IN  stack' = IF Live(a)
                    THEN [stack EXCEPT ![a[1]][a[2]] = Ran(@, a[3])]
                    ELSE stack
    /\ worker' = [worker EXCEPT ![q].life = "waiting", ![q].at = NoWork,
                                ![q].done = @ + 1]
    /\ UNCHANGED <<inited, planner, queue, kill, termination, calls, inits>>

-----------------------------------------------------------------------------
(* cleanup_threads: cleanup, and with a pool kill_workforce, then the hooks *)
(* and the flag.  The manual forbids it while a plan is being executed.     *)

\* Mutant: cleanup_threads leaves the planner as it is.
CleanupThreadsOnly ==
    /\ PlannerFree /\ inited
    /\ kill' = Starting
    /\ UNCHANGED <<inited, planner, queue, worker, termination, stack, calls, inits>>

CleanupThreads ==
    /\ PlannerFree
    /\ planner' = NoPlanner
    /\ kill' = IF inited THEN Starting ELSE Nobody
    /\ UNCHANGED <<inited, queue, worker, termination, stack, calls, inits>>

\* Mutant: the worker that is to end is not signalled.
KillNextUnsignalled ==
    /\ kill = Starting /\ queue # <<>>
    /\ LET q == Head(queue)
       IN  /\ queue' = Tail(queue)
           /\ worker' = [worker EXCEPT ![q].w = Terminate]
           /\ kill' = Ending(q)
    /\ UNCHANGED <<inited, planner, termination, stack, calls, inits>>

KillNext ==
    /\ kill = Starting /\ queue # <<>>
    /\ LET q == Head(queue)
       IN  /\ queue' = Tail(queue)
           /\ worker' = [worker EXCEPT ![q].w = Terminate, ![q].ready = @ + 1]
           /\ kill' = Ending(q)
    /\ UNCHANGED <<inited, planner, termination, stack, calls, inits>>

\* os_sem_down(&termination_semaphore) and unmake_worker(q).
Unmake ==
    /\ termination > 0
    /\ \E q \in Workers :
         /\ kill = Ending(q)
         /\ worker' = [worker EXCEPT ![q] = Unmade]
    /\ termination' = termination - 1
    /\ kill' = Starting
    /\ UNCHANGED <<inited, planner, queue, stack, calls, inits>>

CleanupEnds ==
    /\ kill = Starting /\ queue = <<>>
    /\ kill' = Nobody
    /\ inited' = FALSE
    /\ UNCHANGED <<planner, queue, worker, termination, stack, calls, inits>>

-----------------------------------------------------------------------------
\* What thread t does once it is in a call, or a worker has a signal.
ThreadStep(t) ==
    \/ Dequeue(t) \/ Assign(t) \/ OwnBlock(t) \/ OwnBlockEnds(t)
    \/ DownDone(t) \/ Enqueue(t) \/ Return(t)
    \/ t \in Workers /\ (Take(t) \/ WorkDone(t))

KillStep == KillNext \/ Unmake \/ CleanupEnds

Next ==
    \/ InitThreads \/ ThePlanner \/ Cleanup \/ CleanupThreads \/ KillStep
    \/ \E n \in 1 .. MaxThreads : PlanWithNthreads(n)
    \/ \E t \in Threads : ThreadStep(t) \/ \E l \in Loops : Call(t, l[1], l[2])

Spec == Init /\ [][Next]_vars

\* Every thread that can go on does so: the scheduler is fair to each of
\* them, and a proc returns.
Fairness == (\A t \in Threads : WF_vars(ThreadStep(t))) /\ WF_vars(KillStep)

FairSpec == Spec /\ Fairness

-----------------------------------------------------------------------------
(* Properties *)

TypeOK ==
    /\ inited \in BOOLEAN
    /\ planner \in [exists : BOOLEAN, threads : BOOLEAN, hooks : BOOLEAN,
                   nthr : 1 .. MaxThreads]
    /\ queue \in Seq(Workers)
    /\ kill \in {Nobody, Starting} \cup {Ending(q) : q \in Workers}
    /\ termination \in 0 .. 1
    /\ \A q \in Workers :
         /\ worker[q].life \in {"none", "waiting", "working", "ended"}
         /\ worker[q].ready \in 0 .. 1 /\ worker[q].done \in 0 .. 1
    /\ \A t \in Threads : Len(stack[t]) <= MaxDepth

AllCalls == {<<t, d>> : t \in Threads, d \in 1 .. MaxDepth}
Calls == {c \in AllCalls : c[2] <= Len(stack[c[1]])}
CallOf(c) == stack[c[1]][c[2]]

\* threads.c:375, "This function returns only after all the threads have
\* completed": when spawn_loop is about to return, every iteration of its
\* loop has been executed exactly once, by whichever thread and however the
\* calls nest.
EveryIterationOnce ==
    \A t \in Threads :
        Joined(t) => \A k \in DOMAIN Top(t).ran : Top(t).ran[k] = 1

\* The items are in the stack of the caller: a thread that was given one, or
\* that is executing it, uses memory of a call that has not returned and that
\* waits for this very worker; no two workers have the same item.
ItemsAreLive ==
    /\ \A q \in Workers :
         /\ worker[q].life = "working"
              => Live(worker[q].at) /\ stack[worker[q].at[1]][worker[q].at[2]].q[worker[q].at[3] + 1] = q
         /\ worker[q].ready = 1 /\ worker[q].w # Terminate
              => Live(worker[q].w) /\ stack[worker[q].w[1]][worker[q].w[2]].q[worker[q].w[3] + 1] = q
    /\ \A p, q \in Workers :
         p # q /\ worker[p].life = "working" /\ worker[q].life = "working"
              => worker[p].at # worker[q].at

\* What dequeue relies on: a worker of the queue waits for work, has no
\* signal pending, and is in the queue once; so no two loops share a worker.
QueuedIsIdle ==
    /\ \A i, j \in DOMAIN queue : queue[i] = queue[j] => i = j
    /\ \A i \in DOMAIN queue :
         /\ worker[queue[i]].life = "waiting"
         /\ worker[queue[i]].ready = 0 /\ worker[queue[i]].done = 0

\* Whatever the interleaving of spawns, returns and signals, no item outlives
\* its call and no worker serves two loops.
WorkIsLive == ItemsAreLive /\ QueuedIsIdle

\* threads.c:340-344: "all workers belong to the worker queue if we get here"
\* and wait at ready, so that kill_workforce may hold the lock; when it ends
\* no worker is left.
KillReachesAll ==
    /\ kill # Nobody =>
         \A q \in Workers :
             worker[q].life = "none" \/ kill = Ending(q) \/ \E i \in DOMAIN queue : queue[i] = q
    /\ ~inited => \A q \in Workers : worker[q] = Unmade

\* In whatever order the pool is initialised, the planner created and either
\* cleaned up: a planner that plans for several threads exists only while the
\* pool does, as its plans would call spawn_loop on a destroyed queue, and has
\* threaded solvers to plan with, those of threads_conf_standard or, if it was
\* created after init_threads, those of the hooks.  One that was created without
\* the hooks got the others from init_threads.
ThreadedPlannerHasPool ==
    planner.nthr > 1 => inited /\ (planner.threads \/ planner.hooks)

\* Every call of spawn_loop returns, although nested calls and other clients
\* compete for the workers, and kill_workforce does not wait for ever with the
\* lock held.  MaxCalls bounds the calls, so in the end all have returned.
Quiet == kill = Nobody /\ \A t \in Threads : stack[t] = <<>>
CallsReturn == []<>Quiet
=============================================================================
