------------------------------ MODULE SharedPool ------------------------------
(***************************************************************************)
(* The shared thread pool of blosc/blosc2.c (non-Windows build): the       *)
(* registry of pools keyed by nthreads, the FIFO of job entries, the       *)
(* worker loop, and the contexts that attach to a pool, submit a           *)
(* stack-allocated job group to it, wait for its completion and detach.    *)
(*                                                                         *)
(* One thread drives each context.  Every critical section of the code is  *)
(* one action; what happens outside a mutex is a step of its own.  A       *)
(* condition variable is its set of sleepers: cond_wait moves a thread to  *)
(* a sleeping state, a broadcast moves every sleeper back to re-testing    *)
(* its predicate, and POSIX lets a sleeper wake spuriously.  What a worker *)
(* does with the blocks of its share is the subject of module JobGroup;    *)
(* here the body of t_blosc_do_job is one step that records the share.     *)
(***************************************************************************)
EXTENDS Integers, Sequences, FiniteSets, SequencesExt

CONSTANTS
  Contexts,       \* the blosc2_context structs of the program
  GlobalCtx,      \* g_global_context, the one blosc2_init creates
  PoolIds,        \* addresses a struct blosc_shared_pool may be allocated at
  Sizes,          \* the nthreads values the program asks for
  MaxDestroys,    \* bound on the number of blosc2_destroy calls
  NoPool,         \* the NULL thread_pool
  NoCtx           \* the NULL job / parent_context

ASSUME GlobalAssumption == GlobalCtx \in Contexts /\ IsFiniteSet(Contexts)
ASSUME SizesAssumption == Sizes \subseteq Nat \ {0} /\ IsFiniteSet(Sizes)
ASSUME NullAssumption == NoPool \notin PoolIds /\ NoCtx \notin Contexts
ASSUME DestroysAssumption == MaxDestroys \in Nat

VARIABLES
  initlib,        \* g_initlib
  epoch,          \* g_destroy_count
  shared_pools,   \* the registry: a sequence of pool addresses, newest first
  pool,           \* pool[p]: the struct at address p
  worker,         \* worker[p][t]: thread t of the pool at p
  ctx,            \* ctx[c]: the threading fields of a context
  job,            \* job[c]: the job group on the stack of c's parallel_blosc
  pc,             \* pc[c]: where the thread driving c is
  caller          \* caller[c]: who called release_thread_backend on c

vars == <<initlib, epoch, shared_pools, pool, worker, ctx, job, pc, caller>>
-----------------------------------------------------------------------------
(* The thread indices of a pool, and of any pool. *)
Tids(n) == 0 .. n - 1
AllTids == UNION {Tids(n) : n \in Sizes}

(* struct blosc_job_queue_entry *)
Entry == [job : Contexts, logical_tid : AllTids]

(* struct blosc_shared_pool; live says whether the struct is allocated. *)
PoolRec == [live : BOOLEAN, nthreads : Sizes \cup {0}, shutdown : BOOLEAN,
            context_refs : Nat, active_jobs : Nat, queue : Seq(Entry)]

FreePool == [live |-> FALSE, nthreads |-> 0, shutdown |-> FALSE,
             context_refs |-> 0, active_jobs |-> 0, queue |-> <<>>]

(* A pool thread: none (not created), check (about to take pool->mutex),   *)
(* sleep (on work_cv), run (in t_blosc_do_job), signal (about to decrement *)
(* pending_workers), account (about to decrement active_jobs), exited.     *)
WorkerStates == {"none", "check", "sleep", "run", "signal", "account", "exited"}
WorkerRec == [at : WorkerStates, job : Contexts \cup {NoCtx}, tid : AllTids]
NoWorker == [at |-> "none", job |-> NoCtx, tid |-> 0]

(* Workers that still dereference the job group they took. *)
Holding == {"run", "signal"}

(* struct blosc_job_group, with the shares (logical tids) already run. *)
JobRec == [live : BOOLEAN, active_workers : Nat, pending_workers : Nat,
           completed : BOOLEAN, ran : SUBSET AllTids]
NoJob == [live |-> FALSE, active_workers |-> 0, pending_workers |-> 0,
          completed |-> FALSE, ran |-> {}]

(* The threading fields of blosc2_context. *)
CtxRec == [nthreads : Sizes, new_nthreads : Sizes,
           thread_pool : PoolIds \cup {NoPool},
           backend : {"serial", "shared_pool"},
           pool_epoch : Nat]

(* Where the thread driving a context is: none (no such context), idle     *)
(* (between calls), release (in release_thread_backend), shutdown and join *)
(* (in destroy_shared_pool), attach, submit (parallel_blosc, about to      *)
(* enqueue), wait and wait_sleep (on completion_cv), sweep and sweep_join  *)
(* (the pool loop of blosc2_destroy).                                      *)
PCs == {"none", "idle", "release", "shutdown", "join", "attach", "submit",
        "wait", "wait_sleep", "sweep", "sweep_join"}

(* On whose behalf release_thread_backend runs: check_nthreads,            *)
(* blosc2_free_ctx or blosc2_destroy.                                      *)
Callers == {"nobody", "check_nthreads", "free_ctx", "destroy"}

TypeOK ==
  /\ initlib \in BOOLEAN
  /\ epoch \in Nat
  /\ shared_pools \in Seq(PoolIds)
  /\ pool \in [PoolIds -> PoolRec]
  /\ worker \in [PoolIds -> [AllTids -> WorkerRec]]
  /\ ctx \in [Contexts -> CtxRec]
  /\ job \in [Contexts -> JobRec]
  /\ pc \in [Contexts -> PCs]
  /\ caller \in [Contexts -> Callers]
-----------------------------------------------------------------------------
(* blosc2_create_cctx / blosc2_create_dctx: no backend until the first job. *)
NewCtx(n) == [nthreads |-> n, new_nthreads |-> n, thread_pool |-> NoPool,
              backend |-> "serial", pool_epoch |-> 0]

(* The fields release_thread_backend resets. *)
Detached(x) == [x EXCEPT !.thread_pool = NoPool, !.backend = "serial"]

(* The pool x points at was freed by a later blosc2_destroy. *)
Stale(x) == x.backend = "shared_pool" /\ x.pool_epoch # epoch

(* pthread_cond_broadcast on work_cv. *)
WakeWorkers(ws) == [t \in AllTids |->
                      IF ws[t].at = "sleep" THEN [ws[t] EXCEPT !.at = "check"]
                      ELSE ws[t]]

(* pthread_join on every thread of the pool at p has returned. *)
AllExited(p) == \A t \in Tids(pool[p].nthreads) : worker[p][t].at = "exited"

(* No call of blosc2_destroy is in progress: its documentation asks to call *)
(* it after all the other calls.                                           *)
NotDestroying == caller[GlobalCtx] # "destroy"

(* find_shared_pool_locked *)
FindPool(n) == IF \E i \in DOMAIN shared_pools : pool[shared_pools[i]].nthreads = n
               THEN shared_pools[CHOOSE i \in DOMAIN shared_pools :
                                   pool[shared_pools[i]].nthreads = n]
               ELSE NoPool

(* Where do_job goes once check_nthreads is through with context c: a      *)
(* buffer of one block, and any call with one thread, runs serially.       *)
AfterCheck(x) == IF x.nthreads = 1 THEN {"idle"}
                 ELSE IF x.backend = "serial" THEN {"attach"}
                 ELSE {"submit", "idle"}

Init ==
  /\ initlib = TRUE
  /\ epoch = 0
  /\ shared_pools = <<>>
  /\ pool = [p \in PoolIds |-> FreePool]
  /\ worker = [p \in PoolIds |-> [t \in AllTids |-> NoWorker]]
  /\ ctx \in [Contexts -> {NewCtx(n) : n \in Sizes}]
  /\ job = [c \in Contexts |-> NoJob]
  /\ pc = [c \in Contexts |-> IF c = GlobalCtx THEN "idle" ELSE "none"]
  /\ caller = [c \in Contexts |-> "nobody"]
-----------------------------------------------------------------------------
(* blosc2_create_cctx, blosc2_create_dctx *)
CreateCtx(c, n) ==
  /\ pc[c] = "none"
  /\ c # GlobalCtx
  /\ NotDestroying
  /\ ctx' = [ctx EXCEPT ![c] = NewCtx(n)]
  /\ pc' = [pc EXCEPT ![c] = "idle"]
  /\ UNCHANGED <<initlib, epoch, shared_pools, pool, worker, job, caller>>

(* A caller asks for another number of threads (context->new_nthreads). *)
SetNewNthreads(c, n) ==
  /\ pc[c] = "idle"
  /\ NotDestroying
  /\ ctx[c].new_nthreads # n
  /\ ctx' = [ctx EXCEPT ![c].new_nthreads = n]
  /\ UNCHANGED <<initlib, epoch, shared_pools, pool, worker, job, pc, caller>>

(* Mutant: check_nthreads trusts a pool that blosc2_destroy freed. *)
MutUsableTrustsPool(x) == x

(* check_nthreads forgets a pool that blosc2_destroy freed. *)
Usable(x) == IF Stale(x) THEN Detached(x) ELSE x

(* do_job calls check_nthreads: drop a pool that blosc2_destroy freed,     *)
(* release the backend when the thread count changes, attach if needed.    *)
CheckNthreads(c) ==
  /\ pc[c] = "idle"
  /\ NotDestroying
  /\ LET x == Usable(ctx[c])
     IN /\ ctx' = [ctx EXCEPT ![c] = x]
        /\ IF x.new_nthreads # x.nthreads
           THEN /\ pc' = [pc EXCEPT ![c] = "release"]
                /\ caller' = [caller EXCEPT ![c] = "check_nthreads"]
           ELSE /\ \E q \in AfterCheck(x) : pc' = [pc EXCEPT ![c] = q]
                /\ UNCHANGED caller
  /\ UNCHANGED <<initlib, epoch, shared_pools, pool, worker, job>>

(* What the caller of release_thread_backend does once it returns with the *)
(* context fields x.                                                       *)
Released(c, x) ==
  CASE caller[c] = "check_nthreads" ->
         LET y == [x EXCEPT !.nthreads = x.new_nthreads]
         IN /\ ctx' = [ctx EXCEPT ![c] = y]
            /\ \E q \in AfterCheck(y) : pc' = [pc EXCEPT ![c] = q]
            /\ caller' = [caller EXCEPT ![c] = "nobody"]
            /\ UNCHANGED <<initlib, epoch>>
    [] caller[c] = "free_ctx" ->
         /\ ctx' = [ctx EXCEPT ![c] = x]
         /\ pc' = [pc EXCEPT ![c] = "none"]
         /\ caller' = [caller EXCEPT ![c] = "nobody"]
         /\ UNCHANGED <<initlib, epoch>>
    [] caller[c] = "destroy" ->
         /\ ctx' = [ctx EXCEPT ![c] = x]
         /\ initlib' = FALSE
         /\ epoch' = epoch + 1
         /\ pc' = [pc EXCEPT ![c] = "sweep"]
         /\ UNCHANGED caller

(* Mutant: the pool goes with the first context that leaves it idle. *)
MutLastUserIgnoresRefs(p) == pool[p].active_jobs = 0 /\ pool[p].queue = <<>>

(* The test for the last reference to an idle pool. *)
LastUser(p) == /\ pool[p].context_refs = 1
               /\ pool[p].active_jobs = 0
               /\ pool[p].queue = <<>>

(* The critical section of release_thread_backend under                    *)
(* pool_registry_mutex: drop the reference and, if it was the last one and *)
(* the pool is idle, unlink the pool.                                      *)
ReleaseBackend(c) ==
  /\ pc[c] = "release"
  /\ IF ctx[c].backend = "serial" \/ Stale(ctx[c])
     THEN /\ Released(c, Detached(ctx[c]))
          /\ UNCHANGED <<shared_pools, pool>>
     ELSE LET p == ctx[c].thread_pool
          IN /\ pool' = [pool EXCEPT ![p].context_refs = @ - 1]
             /\ IF LastUser(p)
                THEN /\ shared_pools' = RemoveFirst(shared_pools, p)
                     /\ pc' = [pc EXCEPT ![c] = "shutdown"]
                     /\ UNCHANGED <<ctx, caller, initlib, epoch>>
                ELSE /\ Released(c, Detached(ctx[c]))
                     /\ UNCHANGED shared_pools
  /\ UNCHANGED <<worker, job>>

(* Mutant: shutdown is raised without a broadcast. *)
MutShutdownPoolNoWake(c) ==
  /\ pc[c] = "shutdown"
  /\ pool' = [pool EXCEPT ![ctx[c].thread_pool].shutdown = TRUE]
  /\ pc' = [pc EXCEPT ![c] = "join"]
  /\ UNCHANGED <<initlib, epoch, shared_pools, worker, ctx, job, caller>>

(* destroy_shared_pool, first half: raise shutdown and wake the workers. *)
ShutdownPool(c) ==
  /\ pc[c] = "shutdown"
  /\ LET p == ctx[c].thread_pool
     IN /\ pool' = [pool EXCEPT ![p].shutdown = TRUE]
        /\ worker' = [worker EXCEPT ![p] = WakeWorkers(@)]
  /\ pc' = [pc EXCEPT ![c] = "join"]
  /\ UNCHANGED <<initlib, epoch, shared_pools, ctx, job, caller>>

(* destroy_shared_pool, second half: join the workers and free the pool. *)
JoinPool(c) ==
  /\ pc[c] = "join"
  /\ LET p == ctx[c].thread_pool
     IN /\ AllExited(p)
        /\ pool' = [pool EXCEPT ![p] = FreePool]
        /\ worker' = [worker EXCEPT ![p] = [t \in AllTids |-> NoWorker]]
  /\ Released(c, Detached(ctx[c]))
  /\ UNCHANGED <<shared_pools, job>>

(* create_shared_pool: allocate the struct at p and start its workers. *)
CreatePool(p, n) ==
  /\ pool' = [pool EXCEPT ![p] = [FreePool EXCEPT !.live = TRUE, !.nthreads = n,
                                                  !.context_refs = 1]]
  /\ worker' = [worker EXCEPT ![p] = [t \in AllTids |->
                  IF t \in Tids(n) THEN [NoWorker EXCEPT !.at = "check"]
                  ELSE NoWorker]]
  /\ shared_pools' = <<p>> \o shared_pools

(* blosc2_init, also called by attach_shared_pool when it must be: the     *)
(* global context comes back with the thread count it had (g_nthreads).    *)
InitFields(ctxs, pcs) ==
  IF initlib THEN /\ ctx' = ctxs /\ pc' = pcs /\ UNCHANGED initlib
  ELSE /\ initlib' = TRUE
       /\ ctx' = [ctxs EXCEPT ![GlobalCtx] = NewCtx(ctxs[GlobalCtx].nthreads)]
       /\ pc' = [pcs EXCEPT ![GlobalCtx] = "idle"]

(* Mutant: a context that finds its pool takes no reference. *)
MutShareUncounted(p) == UNCHANGED <<pool, worker, shared_pools>>

(* Another context on a pool that exists. *)
SharePool(p) == /\ pool' = [pool EXCEPT ![p].context_refs = @ + 1]
                /\ UNCHANGED <<worker, shared_pools>>

(* attach_shared_pool, under pool_registry_mutex: find or create the pool. *)
AttachPool(c) ==
  /\ pc[c] = "attach"
  /\ LET n == ctx[c].nthreads
         found == FindPool(n)
     IN \E p \in IF found # NoPool THEN {found}
                 ELSE {q \in PoolIds : ~pool[q].live} :
          /\ IF found # NoPool THEN SharePool(p) ELSE CreatePool(p, n)
          /\ \E q \in {"submit", "idle"} :
               InitFields([ctx EXCEPT ![c].thread_pool = p,
                                      ![c].backend = "shared_pool",
                                      ![c].pool_epoch = epoch],
                          [pc EXCEPT ![c] = q])
  /\ UNCHANGED <<epoch, job, caller>>

(* create_shared_pool fails: the workers already started are joined, the   *)
(* struct is freed, and do_job falls back to the serial path.              *)
AttachFails(c) ==
  /\ pc[c] = "attach"
  /\ FindPool(ctx[c].nthreads) = NoPool
  /\ InitFields(ctx, [pc EXCEPT ![c] = "idle"])
  /\ UNCHANGED <<epoch, shared_pools, pool, worker, job, caller>>

(* The queue entries parallel_blosc makes for a job of context c. *)
Entries(c, n) == [i \in 1 .. n |-> [job |-> c, logical_tid |-> i - 1]]

(* The pool x with k entries of c's job at the end of its queue. *)
Queued(x, c, k) == [x EXCEPT !.queue = @ \o Entries(c, k), !.active_jobs = @ + k]

(* Mutant: the entries are queued without a broadcast on work_cv. *)
MutEnqueueNoWake(c, p, n) ==
  /\ pool' = [pool EXCEPT ![p] = Queued(@, c, n)]
  /\ UNCHANGED worker

(* The entries join the queue, and the workers are told. *)
Enqueue(c, p, n) ==
  /\ pool' = [pool EXCEPT ![p] = Queued(@, c, n)]
  /\ worker' = [worker EXCEPT ![p] = WakeWorkers(@)]

(* parallel_blosc, the section under pool->mutex: one entry per thread. *)
Submit(c) ==
  /\ pc[c] = "submit"
  /\ LET n == ctx[c].nthreads
     IN /\ Enqueue(c, ctx[c].thread_pool, n)
        /\ job' = [job EXCEPT ![c] = [live |-> TRUE, active_workers |-> n,
                                      pending_workers |-> n,
                                      completed |-> FALSE, ran |-> {}]]
  /\ pc' = [pc EXCEPT ![c] = "wait"]
  /\ UNCHANGED <<initlib, epoch, shared_pools, ctx, caller>>

(* Mutant: the entries already queued stay there. *)
MutDrainedNot(x, c) == x

(* The entries of queue s that are not of c's job, in their order. *)
Without(s, c) ==
  LET keep == {i \in DOMAIN s : s[i].job # c}
      nth(j) == CHOOSE i \in keep : Cardinality({k \in keep : k <= i}) = j
  IN [j \in 1 .. Cardinality(keep) |-> s[nth(j)]]

(* The pool x without the entries of c's job. *)
Drained(x, c) == LET kept == Without(x.queue, c)
                 IN [x EXCEPT !.queue = kept,
                              !.active_jobs = @ - (Len(x.queue) - Len(kept))]

(* parallel_blosc cannot allocate the entry after the k-th: it drains the  *)
(* ones it queued, so that none refers to the job it is about to leave.    *)
SubmitFails(c) ==
  /\ pc[c] = "submit"
  /\ \E k \in Tids(ctx[c].nthreads) :
       pool' = [pool EXCEPT ![ctx[c].thread_pool] = Drained(Queued(@, c, k), c)]
  /\ pc' = [pc EXCEPT ![c] = "idle"]
  /\ UNCHANGED <<initlib, epoch, shared_pools, worker, ctx, job, caller>>

(* parallel_blosc waits on completion_cv; once completed is set it copies  *)
(* the results and leaves, so that the job group on its stack is gone.     *)
WaitJob(c) ==
  /\ pc[c] = "wait"
  /\ IF job[c].completed
     THEN /\ job' = [job EXCEPT ![c] = NoJob]
          /\ pc' = [pc EXCEPT ![c] = "idle"]
     ELSE /\ pc' = [pc EXCEPT ![c] = "wait_sleep"]
          /\ UNCHANGED job
  /\ UNCHANGED <<initlib, epoch, shared_pools, pool, worker, ctx, caller>>
-----------------------------------------------------------------------------
(* shared_pool_worker, the section under pool->mutex at the top of the     *)
(* loop: exit on shutdown, sleep on an empty queue, or take the head.      *)
WorkerTake(p, t) ==
  /\ worker[p][t].at = "check"
  /\ IF pool[p].shutdown
     THEN /\ worker' = [worker EXCEPT ![p][t].at = "exited"]
          /\ UNCHANGED pool
     ELSE IF pool[p].queue = <<>>
     THEN /\ worker' = [worker EXCEPT ![p][t].at = "sleep"]
          /\ UNCHANGED pool
     ELSE LET e == Head(pool[p].queue)
          IN /\ worker' = [worker EXCEPT ![p][t] =
                             [at |-> "run", job |-> e.job, tid |-> e.logical_tid]]
             /\ pool' = [pool EXCEPT ![p].queue = Tail(@)]
  /\ UNCHANGED <<initlib, epoch, shared_pools, ctx, job, pc, caller>>

(* t_blosc_do_job up to and including its job_done section. *)
WorkerRun(p, t) ==
  /\ worker[p][t].at = "run"
  /\ LET c == worker[p][t].job
     IN job' = [job EXCEPT ![c].active_workers = @ - 1,
                           ![c].ran = @ \cup {worker[p][t].tid}]
  /\ worker' = [worker EXCEPT ![p][t].at = "signal"]
  /\ UNCHANGED <<initlib, epoch, shared_pools, pool, ctx, pc, caller>>

(* Mutant: the count is tested one worker too early. *)
MutLastWorkerEarly(j) == j.pending_workers <= 2

(* The decrement of pending_workers reaches zero. *)
LastWorker(j) == j.pending_workers = 1

(* shared_pool_worker, under job->mutex: the last worker to decrement      *)
(* pending_workers sets completed and wakes the submitting thread.         *)
WorkerSignal(p, t) ==
  /\ worker[p][t].at = "signal"
  /\ LET c == worker[p][t].job
         last == LastWorker(job[c])
     IN /\ job' = [job EXCEPT ![c].pending_workers = @ - 1,
                              ![c].completed = @ \/ last]
        /\ pc' = IF last /\ pc[c] = "wait_sleep"
                 THEN [pc EXCEPT ![c] = "wait"] ELSE pc
  /\ worker' = [worker EXCEPT ![p][t].at = "account", ![p][t].job = NoCtx]
  /\ UNCHANGED <<initlib, epoch, shared_pools, pool, ctx, caller>>

(* shared_pool_worker, under pool->mutex: the pool accounting.  Nobody     *)
(* waits on the idle_cv it may broadcast.                                  *)
WorkerAccount(p, t) ==
  /\ worker[p][t].at = "account"
  /\ pool' = [pool EXCEPT ![p].active_jobs = @ - 1]
  /\ worker' = [worker EXCEPT ![p][t].at = "check"]
  /\ UNCHANGED <<initlib, epoch, shared_pools, ctx, job, pc, caller>>

(* A condition variable may wake a sleeper for no reason. *)
SpuriousWake ==
  \/ \E p \in PoolIds, t \in AllTids :
       /\ worker[p][t].at = "sleep"
       /\ worker' = [worker EXCEPT ![p][t].at = "check"]
       /\ UNCHANGED <<initlib, epoch, shared_pools, pool, ctx, job, pc, caller>>
  \/ \E c \in Contexts :
       /\ pc[c] = "wait_sleep"
       /\ pc' = [pc EXCEPT ![c] = "wait"]
       /\ UNCHANGED <<initlib, epoch, shared_pools, pool, worker, ctx, job, caller>>
-----------------------------------------------------------------------------
(* blosc2_free_ctx: without an initialised library the release is skipped. *)
FreeCtx(c) ==
  /\ pc[c] = "idle"
  /\ c # GlobalCtx
  /\ NotDestroying
  /\ IF initlib
     THEN /\ pc' = [pc EXCEPT ![c] = "release"]
          /\ caller' = [caller EXCEPT ![c] = "free_ctx"]
     ELSE /\ pc' = [pc EXCEPT ![c] = "none"]
          /\ UNCHANGED caller
  /\ UNCHANGED <<initlib, epoch, shared_pools, pool, worker, ctx, job>>

(* blosc2_init *)
LibInit ==
  /\ ~initlib
  /\ NotDestroying
  /\ InitFields(ctx, pc)
  /\ UNCHANGED <<epoch, shared_pools, pool, worker, job, caller>>

(* blosc2_destroy: release the global context's backend, mark the library  *)
(* down and bump the epoch (Released), then tear down every pool left.     *)
DestroyBegin ==
  /\ initlib
  /\ epoch < MaxDestroys
  /\ \A c \in Contexts : pc[c] \in {"idle", "none"}
  /\ pc' = [pc EXCEPT ![GlobalCtx] = "release"]
  /\ caller' = [caller EXCEPT ![GlobalCtx] = "destroy"]
  /\ UNCHANGED <<initlib, epoch, shared_pools, pool, worker, ctx, job>>

DestroySweep ==
  /\ pc[GlobalCtx] = "sweep"
  /\ IF shared_pools = <<>>
     THEN /\ pc' = [pc EXCEPT ![GlobalCtx] = "none"]
          /\ caller' = [caller EXCEPT ![GlobalCtx] = "nobody"]
          /\ UNCHANGED <<pool, worker>>
     ELSE LET p == Head(shared_pools)
          IN /\ pool' = [pool EXCEPT ![p].shutdown = TRUE]
             /\ worker' = [worker EXCEPT ![p] = WakeWorkers(@)]
             /\ pc' = [pc EXCEPT ![GlobalCtx] = "sweep_join"]
             /\ UNCHANGED caller
  /\ UNCHANGED <<initlib, epoch, shared_pools, ctx, job>>

DestroySweepJoin ==
  /\ pc[GlobalCtx] = "sweep_join"
  /\ LET p == Head(shared_pools)
     IN /\ AllExited(p)
        /\ pool' = [pool EXCEPT ![p] = FreePool]
        /\ worker' = [worker EXCEPT ![p] = [t \in AllTids |-> NoWorker]]
  /\ shared_pools' = Tail(shared_pools)
  /\ pc' = [pc EXCEPT ![GlobalCtx] = "sweep"]
  /\ UNCHANGED <<initlib, epoch, ctx, job, caller>>
-----------------------------------------------------------------------------
(* What the thread driving context c does once a call is under way. *)
ContextStep(c) ==
  \/ ReleaseBackend(c) \/ ShutdownPool(c) \/ JoinPool(c)
  \/ AttachPool(c) \/ AttachFails(c)
  \/ Submit(c) \/ SubmitFails(c) \/ WaitJob(c)

DestroyStep == DestroySweep \/ DestroySweepJoin

WorkerStep(p, t) ==
  \/ WorkerTake(p, t) \/ WorkerRun(p, t)
  \/ WorkerSignal(p, t) \/ WorkerAccount(p, t)

Next ==
  \/ \E c \in Contexts :
       \/ \E n \in Sizes : CreateCtx(c, n) \/ SetNewNthreads(c, n)
       \/ CheckNthreads(c) \/ FreeCtx(c) \/ ContextStep(c)
  \/ \E p \in PoolIds, t \in AllTids : WorkerStep(p, t)
  \/ LibInit \/ DestroyBegin \/ DestroyStep
  \/ SpuriousWake

(* The operating system runs every runnable thread eventually; nothing     *)
(* obliges the program to start another call, and no wake-up is spurious   *)
(* by right.                                                               *)
Fairness ==
  /\ \A c \in Contexts : WF_vars(ContextStep(c))
  /\ \A p \in PoolIds, t \in AllTids : WF_vars(WorkerStep(p, t))
  /\ WF_vars(DestroyStep)

Spec == Init /\ [][Next]_vars
FairSpec == Spec /\ Fairness
-----------------------------------------------------------------------------
(* Contexts whose reference the pool at p still counts. *)
Attached(p) == {c \in Contexts :
                  /\ ctx[c].backend = "shared_pool"
                  /\ ctx[c].thread_pool = p
                  /\ ctx[c].pool_epoch = epoch
                  /\ pc[c] \notin {"none", "shutdown", "join"}}

(* The logical tids of context c's job that wait in the queue of p. *)
QueuedTids(p, c) == {pool[p].queue[i].logical_tid : i \in
                       {j \in DOMAIN pool[p].queue : pool[p].queue[j].job = c}}

(* The threads of pool p that hold the job of context c. *)
HoldersOf(p, c) == {t \in AllTids : worker[p][t].at \in Holding
                                      /\ worker[p][t].job = c}

(* The job group lives on the stack of parallel_blosc and dies when the    *)
(* submitting thread sees completed: no queued entry and no worker between *)
(* taking an entry and its last access to job->mutex may refer to a dead   *)
(* one, and pending_workers counts exactly those references.               *)
JobOutlivesItsUsers ==
  \A p \in PoolIds, c \in Contexts :
    LET users == Cardinality(QueuedTids(p, c)) + Cardinality(HoldersOf(p, c))
    IN users > 0 => /\ job[c].live
                    /\ ~job[c].completed
                    /\ pc[c] \in {"wait", "wait_sleep"}
                    /\ ctx[c].thread_pool = p
                    /\ job[c].pending_workers = users

(* When the submitting thread is told the job is complete, every share     *)
(* 0..nthreads-1 of the static partition was run (no entry was lost or     *)
(* taken over by a job of another context), and nobody is still active.    *)
CompletedMeansAllRan ==
  \A c \in Contexts :
    job[c].completed => /\ job[c].ran = Tids(ctx[c].nthreads)
                        /\ job[c].active_workers = 0

(* A pool is never freed, nor told to shut down, under a context attached  *)
(* to it or under a worker that has still to touch it: the registry        *)
(* section of release_thread_backend decides on references and accounting  *)
(* that no later step can invalidate.                                      *)
PoolOutlivesItsUsers ==
  /\ \A p \in PoolIds : Attached(p) # {} =>
       /\ pool[p].live /\ p \in {shared_pools[i] : i \in DOMAIN shared_pools}
       /\ pool[p].shutdown => caller[GlobalCtx] = "destroy"
  /\ \A p \in PoolIds : pool[p].shutdown => pool[p].queue = <<>>
  /\ \A p \in PoolIds, t \in AllTids :
       worker[p][t].at \notin {"none", "exited"} => pool[p].live
  /\ \A i, j \in DOMAIN shared_pools :
       pool[shared_pools[i]].nthreads = pool[shared_pools[j]].nthreads => i = j

(* The two counters the destruction decision reads are exact: one          *)
(* reference per attached context, one active job per entry that is queued *)
(* or in a worker's hands until the worker's accounting section.  The      *)
(* references of a pool that blosc2_destroy tears down stay as they were,  *)
(* for contexts that have yet to notice.                                   *)
CountersExact ==
  \A p \in PoolIds :
    pool[p].live =>
    /\ pc[GlobalCtx] \notin {"sweep", "sweep_join"} =>
         pool[p].context_refs = Cardinality(Attached(p))
    /\ pool[p].active_jobs = Len(pool[p].queue)
         + Cardinality({t \in AllTids : worker[p][t].at \in Holding \cup {"account"}})

(* A context that outlives blosc2_destroy never uses the pool it was       *)
(* attached to: by the time it submits, check_nthreads has seen the epoch. *)
NoSubmitToStalePool ==
  \A c \in Contexts : pc[c] \in {"submit", "wait", "wait_sleep"} =>
    /\ ctx[c].backend = "shared_pool"
    /\ ~Stale(ctx[c])
    /\ pool[ctx[c].thread_pool].nthreads = ctx[c].nthreads

(* Every job submitted returns: no wake-up of the workers or of the        *)
(* submitting thread is lost, whatever the other contexts do.              *)
JobsReturn == \A c \in Contexts : pc[c] = "submit" ~> pc[c] = "idle"

(* Every teardown of a pool ends: the workers see shutdown and are joined. *)
TeardownEnds ==
  /\ \A c \in Contexts : pc[c] = "shutdown" ~> pc[c] \notin {"shutdown", "join"}
  /\ pc[GlobalCtx] = "sweep" ~> pc[GlobalCtx] = "none"
====
