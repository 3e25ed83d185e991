--------------------------- MODULE SharedPoolProofs ---------------------------
(***************************************************************************)
(* Proofs about SharedPool, for any number of contexts, of pools and of    *)
(* threads in each, and any number of blosc2_destroy calls.                *)
(***************************************************************************)
EXTENDS SharedPool, FiniteSetTheorems, SequenceTheorems, TLAPS

-----------------------------------------------------------------------------
(* The inductive invariant, part by part. *)

(* The pools in the registry. *)
Reg == {shared_pools[i] : i \in DOMAIN shared_pools}

(* The context takes its pool down; it waits for its job; it has a pool    *)
(* that no blosc2_destroy has freed.                                       *)
Teardown(c) == pc[c] \in {"shutdown", "join"}
Waiting(c) == pc[c] \in {"wait", "wait_sleep"}
Bound(c) == ctx[c].backend = "shared_pool" /\ ctx[c].pool_epoch = epoch /\ pc[c] # "none"
Sweeping == pc[GlobalCtx] \in {"sweep", "sweep_join"}

(* Who calls release_thread_backend, and what blosc2_destroy excludes. *)
CtlInv ==
  /\ \A c \in Contexts :
       /\ caller[c] = "nobody" <=>
            pc[c] \in {"none", "idle", "attach", "submit", "wait", "wait_sleep"}
       /\ caller[c] = "destroy" => c = GlobalCtx
       /\ pc[c] \in {"sweep", "sweep_join"} => caller[c] = "destroy"
  /\ caller[GlobalCtx] # "free_ctx"
  /\ ~NotDestroying => \A c \in Contexts \ {GlobalCtx} : pc[c] \in {"idle", "none"}
  /\ initlib <=> pc[GlobalCtx] \notin {"none", "sweep", "sweep_join"}

(* What a context knows of its pool is true. *)
CtxOf(c) ==
  /\ ctx[c].pool_epoch <= epoch
  /\ ctx[c].backend = "shared_pool" => ctx[c].thread_pool \in PoolIds
  /\ Bound(c) => /\ initlib /\ pool[ctx[c].thread_pool].live
                 /\ pool[ctx[c].thread_pool].nthreads = ctx[c].nthreads
  /\ pc[c] \in {"submit", "wait", "wait_sleep", "shutdown", "join"} => Bound(c)
  /\ pc[c] = "attach" => ctx[c].backend = "serial"
CtxInv == \A c \in Contexts : CtxOf(c)

(* The pools that exist are in the registry or are being taken down, by    *)
(* one context that nobody shares them with any more.                      *)
RegInv ==
  /\ \A p \in Reg : pool[p].live
  /\ \A i, j \in DOMAIN shared_pools :
       pool[shared_pools[i]].nthreads = pool[shared_pools[j]].nthreads => i = j
  /\ \A p \in PoolIds : pool[p].live =>
       p \in Reg \/ \E c \in Contexts : Teardown(c) /\ ctx[c].thread_pool = p
  /\ \A c \in Contexts : Teardown(c) =>
       /\ ctx[c].thread_pool \notin Reg
       /\ \A d \in Contexts : Bound(d) /\ ctx[d].thread_pool = ctx[c].thread_pool => d = c
       /\ pool[ctx[c].thread_pool].active_jobs = 0
  /\ \A p \in PoolIds : pool[p].shutdown =>
       \/ \E c \in Contexts : pc[c] = "join" /\ ctx[c].thread_pool = p
       \/ pc[GlobalCtx] = "sweep_join" /\ p = shared_pools[1]
  /\ pc[GlobalCtx] = "sweep_join" => shared_pools # <<>>

(* context_refs counts the contexts. *)
RefsInv == ~Sweeping => \A p \in PoolIds : pool[p].live =>
             pool[p].context_refs = Cardinality(Attached(p))

(* What is not allocated is blank, and a pool has its threads. *)
WorkInv ==
  /\ \A p \in PoolIds : ~pool[p].live => pool[p] = FreePool
  /\ \A p \in PoolIds, t \in AllTids :
       /\ worker[p][t].at = "none" <=> ~(pool[p].live /\ t \in Tids(pool[p].nthreads))
       /\ worker[p][t].at \in Holding => worker[p][t].job \in Contexts

(* active_jobs counts the entries, queued and taken. *)
Busy(p) == {t \in AllTids : worker[p][t].at \in Holding \cup {"account"}}
ActiveInv == \A p \in PoolIds :
  pool[p].active_jobs = Len(pool[p].queue) + Cardinality(Busy(p))

(* A job is on the stack of the context that waits for it; it is queued at *)
(* and run by the pool of that context alone.                              *)
Runners(p, c) == {t \in AllTids : worker[p][t].at = "run" /\ worker[p][t].job = c}
PlaceInv ==
  /\ \A c \in Contexts : IF Waiting(c) THEN job[c].live ELSE job[c] = NoJob
  /\ \A p \in PoolIds, c \in Contexts :
       QueuedTids(p, c) # {} \/ HoldersOf(p, c) # {} => Waiting(c) /\ ctx[c].thread_pool = p

(* Its counters count who has still to run or to signal, and each share is *)
(* queued once, with one worker or was run.                                *)
RunTids(p, c) == {worker[p][t].tid : t \in Runners(p, c)}
Distinct(p, c) ==
  /\ \A i, j \in DOMAIN pool[p].queue :
       pool[p].queue[i].job = c /\ pool[p].queue[j].job = c
         /\ pool[p].queue[i].logical_tid = pool[p].queue[j].logical_tid => i = j
  /\ \A t, u \in Runners(p, c) : worker[p][t].tid = worker[p][u].tid => t = u
Shares(p, c) ==
  /\ Distinct(p, c)
  /\ QueuedTids(p, c) \cap RunTids(p, c) = {}
  /\ QueuedTids(p, c) \cup RunTids(p, c) \subseteq Tids(ctx[c].nthreads)
  /\ job[c].ran = Tids(ctx[c].nthreads) \ (QueuedTids(p, c) \cup RunTids(p, c))
Counts(p, c) ==
  /\ job[c].pending_workers = Cardinality(QueuedTids(p, c)) + Cardinality(HoldersOf(p, c))
  /\ job[c].active_workers = Cardinality(QueuedTids(p, c)) + Cardinality(Runners(p, c))
  /\ job[c].completed <=> job[c].pending_workers = 0
JobInv == \A p \in PoolIds, c \in Contexts :
            Waiting(c) /\ ctx[c].thread_pool = p => Shares(p, c) /\ Counts(p, c)

IInv == TypeOK /\ CtlInv /\ CtxInv /\ RegInv /\ RefsInv /\ WorkInv /\ ActiveInv
        /\ PlaceInv /\ JobInv
-----------------------------------------------------------------------------
(* The operators of the model. *)

(* Thread indices are numbers, as many as a pool has threads, and finitely *)
(* many over all the pools.                                                *)
LEMMA TidsFacts ==
  /\ AllTids \subseteq Nat /\ IsFiniteSet(AllTids)
  /\ \A n \in Sizes : n \in Nat /\ n >= 1 /\ Tids(n) \subseteq AllTids /\ Cardinality(Tids(n)) = n
  /\ Sizes # {} => 0 \in AllTids
<1>1. \A n \in Sizes : n \in Nat /\ n >= 1
  BY SizesAssumption
<1>2. \A n \in Sizes : Tids(n) \subseteq Nat /\ 0 \in Tids(n) /\ Tids(n) \subseteq AllTids
  BY <1>1 DEF Tids, AllTids
<1>3. AllTids \subseteq Nat
  BY <1>2 DEF AllTids
<1>4. \A n \in Sizes : IsFiniteSet(Tids(n)) /\ Cardinality(Tids(n)) = n
  <2> SUFFICES ASSUME NEW n \in Sizes
               PROVE  IsFiniteSet(Tids(n)) /\ Cardinality(Tids(n)) = n
    OBVIOUS
  <2>1. 0 \in Int /\ n - 1 \in Int /\ ~(0 > n - 1) /\ (n - 1) - 0 + 1 = n
    BY <1>1
  <2>2. IsFiniteSet(0 .. n - 1) /\ Cardinality(0 .. n - 1) = (n - 1) - 0 + 1
    BY <2>1, FS_Interval
  <2>. QED BY <2>1, <2>2 DEF Tids
<1>5. IsFiniteSet(AllTids)
  <2> DEFINE T == {Tids(n) : n \in Sizes}
             f == [n \in Sizes |-> Tids(n)]
  <2>1. f \in Surjection(Sizes, T)
    BY DEF Surjection
  <2>2. IsFiniteSet(T)
    BY <2>1, SizesAssumption, FS_Surjection
  <2>3. \A S \in T : IsFiniteSet(S)
    BY <1>4
  <2> HIDE DEF T
  <2>4. IsFiniteSet(UNION T)
    BY <2>2, <2>3, FS_UNION
  <2>. QED BY <2>4 DEF T, AllTids
<1>. QED BY <1>1, <1>2, <1>3, <1>4, <1>5

(* Sets of threads are counted one by one. *)
LEMMA TidsCounted ==
  ASSUME NEW S, S \subseteq AllTids
  PROVE  /\ Cardinality(S) \in Nat
         /\ Cardinality(S) = 0 <=> S = {}
         /\ \A t \in S : Cardinality(S) >= 1 /\ Cardinality(S \ {t}) = Cardinality(S) - 1
         /\ \A t \in AllTids \ S : Cardinality(S \cup {t}) = Cardinality(S) + 1
<1>1. IsFiniteSet(S)
  BY TidsFacts, FS_Subset
<1>2. Cardinality(S) \in Nat /\ (Cardinality(S) = 0 <=> S = {})
  BY <1>1, FS_CardinalityType, FS_EmptySet
<1>3. \A t \in S : Cardinality(S \ {t}) = Cardinality(S) - 1
  BY <1>1, FS_RemoveElement
<1>4. S # {} => Cardinality(S) >= 1
  BY <1>2
<1>5. \A t \in AllTids \ S : Cardinality(S \cup {t}) = Cardinality(S) + 1
  BY <1>1, FS_AddElement
<1>. QED BY <1>2, <1>3, <1>4, <1>5

(* So are sets of contexts. *)
LEMMA ContextsCounted ==
  ASSUME NEW S, S \subseteq Contexts
  PROVE  /\ Cardinality(S) \in Nat
         /\ Cardinality(S) = 0 <=> S = {}
         /\ \A c \in S : Cardinality(S) >= 1 /\ Cardinality(S \ {c}) = Cardinality(S) - 1
         /\ \A c \in Contexts \ S : Cardinality(S \cup {c}) = Cardinality(S) + 1
         /\ \A c \in S : Cardinality(S) = 1 => S = {c}
<1>1. IsFiniteSet(S)
  BY GlobalAssumption, FS_Subset
<1>2. Cardinality(S) \in Nat /\ (Cardinality(S) = 0 <=> S = {})
  BY <1>1, FS_CardinalityType, FS_EmptySet
<1>3. \A c \in S : Cardinality(S \ {c}) = Cardinality(S) - 1
  BY <1>1, FS_RemoveElement
<1>4. S # {} => Cardinality(S) >= 1
  BY <1>2
<1>5. \A c \in Contexts \ S : Cardinality(S \cup {c}) = Cardinality(S) + 1
  BY <1>1, FS_AddElement
<1>6. \A c \in S : Cardinality(S) = 1 => S = {c}
  BY <1>1, FS_Singleton
<1>. QED BY <1>2, <1>3, <1>4, <1>5, <1>6

(* A pool is unlinked from the registry. *)
LEMMA Unlinked ==
  ASSUME NEW s \in Seq(PoolIds), NEW k \in DOMAIN s,
         \A i \in DOMAIN s : s[i] = s[k] => i = k
  PROVE  LET r == RemoveFirst(s, s[k])
             at(i) == IF i < k THEN i ELSE i + 1
         IN /\ r \in Seq(PoolIds)
            /\ \A i \in DOMAIN r : at(i) \in DOMAIN s \ {k} /\ r[i] = s[at(i)]
            /\ \A j \in DOMAIN s \ {k} : \E i \in DOMAIN r : r[i] = s[j]
<1> DEFINE n == Len(s)
           a == SubSeq(s, 1, k - 1)
           b == SubSeq(s, k + 1, n)
           r == RemoveFirst(s, s[k])
           at(i) == IF i < k THEN i ELSE i + 1
<1>1. n \in Nat /\ DOMAIN s = 1 .. n /\ k \in 1 .. n /\ \A i \in 1 .. n : s[i] \in PoolIds
  BY LenProperties, ElementOfSeq
<1>2. r = a \o b
  <2>1. {i \in 1 .. Len(s) : s[i] = s[k]} = {k}
    BY <1>1
  <2>2. SelectInSeq(s, LAMBDA v : v = s[k]) = k
    <3>1. Min({k}) = k
      BY <1>1 DEF Min
    <3>. QED BY <2>1, <3>1 DEF SelectInSeq
  <2>3. \E i \in 1 .. Len(s) : s[i] = s[k]
    BY <1>1
  <2>. QED BY <2>2, <2>3 DEF RemoveFirst, RemoveAt
<1>3. /\ a \in Seq(PoolIds) /\ Len(a) = k - 1 /\ \A i \in 1 .. k - 1 : a[i] = s[i]
  <2>1. /\ a \in Seq(PoolIds) /\ Len(a) = IF 1 <= k - 1 THEN (k - 1) - 1 + 1 ELSE 0
        /\ \A i \in 1 .. (k - 1) - 1 + 1 : a[i] = s[1 + i - 1]
    <3>1. 1 \in Int /\ k - 1 \in Int /\ \A i \in 1 .. k - 1 : s[i] \in PoolIds
      BY <1>1
    <3>. QED BY <3>1, SubSeqProperties
  <2>. QED BY <1>1, <2>1
<1>4. /\ b \in Seq(PoolIds) /\ Len(b) = n - k /\ \A i \in 1 .. n - k : b[i] = s[k + i]
  <2>1. /\ b \in Seq(PoolIds) /\ Len(b) = IF k + 1 <= n THEN n - (k + 1) + 1 ELSE 0
        /\ \A i \in 1 .. n - (k + 1) + 1 : b[i] = s[(k + 1) + i - 1]
    <3>1. k + 1 \in Int /\ n \in Int /\ \A i \in k + 1 .. n : s[i] \in PoolIds
      BY <1>1
    <3>. QED BY <3>1, SubSeqProperties
  <2>. QED BY <1>1, <2>1
<1> HIDE DEF a, b, r, n
<1>5. /\ r \in Seq(PoolIds) /\ Len(r) = n - 1
      /\ \A i \in 1 .. n - 1 : r[i] = IF i <= k - 1 THEN a[i] ELSE b[i - (k - 1)]
  BY SMTT(20), <1>1, <1>2, <1>3, <1>4, ConcatProperties
<1>6. DOMAIN r = 1 .. n - 1
  BY <1>5, LenProperties
<1>7. ASSUME NEW i \in DOMAIN r PROVE at(i) \in DOMAIN s \ {k} /\ r[i] = s[at(i)]
  <2>1. CASE i < k
    BY <1>1, <1>3, <1>5, <1>6, <2>1
  <2>2. CASE ~(i < k)
    <3>1. at(i) = i + 1 /\ i \in 1 .. n - 1 /\ i - (k - 1) \in 1 .. n - k
          /\ k + (i - (k - 1)) = i + 1
      BY <1>1, <1>6, <2>2
    <3>2. r[i] = b[i - (k - 1)]
      BY <1>1, <1>5, <1>6, <2>2
    <3>. QED BY <1>1, <1>4, <2>2, <3>1, <3>2
  <2>. QED BY <2>1, <2>2
<1>8. ASSUME NEW j \in DOMAIN s \ {k} PROVE \E i \in DOMAIN r : r[i] = s[j]
  <2>1. CASE j < k
    BY <1>1, <1>6, <1>7, <2>1
  <2>2. CASE ~(j < k)
    <3>1. j - 1 \in DOMAIN r /\ at(j - 1) = j
      BY <1>1, <1>6, <2>2
    <3>. QED BY <1>7, <3>1
  <2>. QED BY <2>1, <2>2
<1>. QED BY <1>5, <1>7, <1>8 DEF r

(* The entries of a job that join a queue. *)
LEMMA Enqueued ==
  ASSUME NEW s \in Seq(Entry), NEW c \in Contexts, NEW k \in Nat, Tids(k) \subseteq AllTids
  PROVE  LET r == s \o Entries(c, k)
         IN /\ r \in Seq(Entry) /\ Len(r) = Len(s) + k
            /\ DOMAIN r = 1 .. Len(s) + k /\ DOMAIN s = 1 .. Len(s) /\ Len(s) \in Nat
            /\ \A i \in 1 .. Len(s) : r[i] = s[i]
            /\ \A i \in Len(s) + 1 .. Len(s) + k :
                 r[i].job = c /\ r[i].logical_tid = i - Len(s) - 1
<1> DEFINE e == Entries(c, k)
           r == s \o e
<1>1. e \in Seq(Entry) /\ Len(e) = k
      /\ \A i \in 1 .. k : e[i].job = c /\ e[i].logical_tid = i - 1
  <2>1. \A i \in 1 .. k : [job |-> c, logical_tid |-> i - 1] \in Entry
    BY DEF Entry, Tids
  <2>2. e \in [1 .. k -> Entry]
    BY <2>1 DEF Entries
  <2>3. e \in Seq(Entry)
    BY <2>2
  <2>4. Len(e) = k
    BY <2>2, <2>3
  <2>5. \A i \in 1 .. k : e[i].job = c /\ e[i].logical_tid = i - 1
    BY DEF Entries
  <2>. QED BY <2>3, <2>4, <2>5
<1>2. Len(s) \in Nat /\ DOMAIN s = 1 .. Len(s)
  BY LenProperties
<1> HIDE DEF e
<1>3. /\ r \in Seq(Entry) /\ Len(r) = Len(s) + k
      /\ \A i \in 1 .. Len(s) + k : r[i] = IF i <= Len(s) THEN s[i] ELSE e[i - Len(s)]
  BY <1>1, ConcatProperties
<1>4. DOMAIN r = 1 .. Len(s) + k
  BY <1>3, LenProperties
<1> HIDE DEF r
<1>5. \A i \in 1 .. Len(s) : r[i] = s[i]
  BY <1>2, <1>3
<1>6. ASSUME NEW i \in Len(s) + 1 .. Len(s) + k
      PROVE  r[i].job = c /\ r[i].logical_tid = i - Len(s) - 1
  <2>1. i - Len(s) \in 1 .. k /\ i \in 1 .. Len(s) + k /\ ~(i <= Len(s))
        /\ (i - Len(s)) - 1 = i - Len(s) - 1
    BY <1>2
  <2>. QED BY <1>1, <1>3, <2>1
<1>. QED BY <1>2, <1>3, <1>4, <1>5, <1>6 DEF r, e

(* Draining the entries that were just queued gives the queue back. *)
LEMMA DrainedBack ==
  ASSUME NEW s \in Seq(Entry), NEW c \in Contexts, NEW k \in Nat, Tids(k) \subseteq AllTids,
         \A i \in DOMAIN s : s[i].job # c
  PROVE  Without(s \o Entries(c, k), c) = s
<1> DEFINE r == s \o Entries(c, k)
           m == Len(s)
           keep == {i \in DOMAIN r : r[i].job # c}
           nth(j) == CHOOSE i \in keep : Cardinality({x \in keep : x <= i}) = j
<1>1. /\ m \in Nat /\ DOMAIN r = 1 .. m + k /\ DOMAIN s = 1 .. m
      /\ \A i \in 1 .. m : r[i] = s[i]
      /\ \A i \in m + 1 .. m + k : r[i].job = c
  BY Enqueued
<1> HIDE DEF r, m
<1>2. keep = 1 .. m
  <2>1. \A i \in 1 .. m + k : i \in 1 .. m \/ i \in m + 1 .. m + k
    BY <1>1
  <2>2. 1 .. m \subseteq 1 .. m + k
    BY <1>1
  <2>. QED BY <1>1, <2>1, <2>2
<1>3. Cardinality(keep) = m
  <2>1. Cardinality(1 .. m) = IF 1 > m THEN 0 ELSE m - 1 + 1
    BY <1>1, FS_Interval
  <2>3. (1 > m) \/ (m - 1) + 1 = m
    BY <1>1
  <2>4. 1 > m => m = 0
    BY <1>1
  <2>. QED BY <1>2, <2>1, <2>3, <2>4
<1>4. ASSUME NEW i \in 1 .. m PROVE Cardinality({x \in keep : x <= i}) = i
  <2>1. {x \in keep : x <= i} = 1 .. i
    BY <1>1, <1>2
  <2>2. Cardinality(1 .. i) = IF 1 > i THEN 0 ELSE i - 1 + 1
    BY <1>1, FS_Interval
  <2>3. Cardinality(1 .. i) = i
    BY <1>1, <2>2
  <2>. QED BY <2>1, <2>3
<1> HIDE DEF keep
<1>5. ASSUME NEW j \in 1 .. m PROVE nth(j) = j
  BY <1>2, <1>4
<1>6. Without(r, c) = [j \in 1 .. Cardinality(keep) |-> r[nth(j)]]
  BY DEF Without, keep
<1> HIDE DEF nth
<1>7. Without(r, c) = [j \in 1 .. m |-> s[j]]
  BY <1>1, <1>3, <1>5, <1>6
<1>8. s = [j \in 1 .. m |-> s[j]]
  BY <1>1
<1>. QED BY <1>7, <1>8 DEF r
-----------------------------------------------------------------------------
(* What steps have in common. *)

(* The fields of a pool that contexts decide on. *)
PoolsAlike == \A p \in PoolIds :
  /\ pool'[p].live = pool[p].live /\ pool'[p].nthreads = pool[p].nthreads
  /\ pool'[p].shutdown = pool[p].shutdown /\ pool'[p].context_refs = pool[p].context_refs

(* Everybody keeps the pool that it has, and nobody begins or ends to take *)
(* one down.                                                               *)
BindsAlike ==
  /\ epoch' = epoch /\ shared_pools' = shared_pools
  /\ \A c \in Contexts :
       /\ Bound(c)' <=> Bound(c)
       /\ Bound(c) => /\ ctx'[c].thread_pool = ctx[c].thread_pool
                      /\ ctx'[c].nthreads = ctx[c].nthreads
       /\ Teardown(c)' <=> Teardown(c)
       /\ Teardown(c) => pc'[c] = pc[c]
       /\ pc'[c] = "join" => pc[c] = "join"
  /\ pc'[GlobalCtx] = "sweep_join" <=> pc[GlobalCtx] = "sweep_join"
  /\ pc'[GlobalCtx] = "sweep" <=> pc[GlobalCtx] = "sweep"

(* Contexts that take their pool down have one. *)
LEMMA TeardownBound ==
  ASSUME CtxInv, NEW c \in Contexts, Teardown(c)
  PROVE  Bound(c) /\ ctx[c].thread_pool \in PoolIds
BY DEF CtxInv, CtxOf, Teardown, Bound

(* Then registry and references stay right. *)
LEMMA BindKept ==
  ASSUME CtxInv, RegInv, RefsInv, shared_pools \in Seq(PoolIds), PoolsAlike, BindsAlike,
         \A c \in Contexts : Teardown(c) => pool'[ctx[c].thread_pool].active_jobs = 0
  PROVE  /\ RegInv' /\ RefsInv'
         /\ \A c \in Contexts : Bound(c) =>
              /\ pool'[ctx'[c].thread_pool].live
              /\ pool'[ctx'[c].thread_pool].nthreads = ctx'[c].nthreads
<1>1. \A c \in Contexts : Teardown(c) =>
        Bound(c) /\ ctx'[c].thread_pool = ctx[c].thread_pool /\ ctx[c].thread_pool \in PoolIds
  BY TeardownBound DEF BindsAlike
<1>2. Reg' = Reg /\ Reg \subseteq PoolIds
  BY LenProperties DEF Reg, BindsAlike
<1>3. \A c \in Contexts : Bound(c) =>
        ctx[c].thread_pool \in PoolIds /\ ctx'[c].thread_pool = ctx[c].thread_pool
        /\ ctx'[c].nthreads = ctx[c].nthreads
  BY DEF CtxInv, CtxOf, Bound, BindsAlike
<1>4. \A c \in Contexts : Bound(c) =>
        /\ pool'[ctx'[c].thread_pool].live
        /\ pool'[ctx'[c].thread_pool].nthreads = ctx'[c].nthreads
  BY <1>3 DEF CtxInv, CtxOf, PoolsAlike
<1>5. RegInv'
  <2>1. \A p \in Reg' : pool'[p].live
    BY <1>2 DEF RegInv, PoolsAlike
  <2>2. \A i, j \in DOMAIN shared_pools' :
          pool'[shared_pools'[i]].nthreads = pool'[shared_pools'[j]].nthreads => i = j
    <3>1. \A i \in DOMAIN shared_pools : shared_pools[i] \in PoolIds
      BY <1>2 DEF Reg
    <3>. QED BY <3>1 DEF RegInv, PoolsAlike, BindsAlike
  <2>3. \A p \in PoolIds : pool'[p].live =>
          p \in Reg' \/ \E c \in Contexts : Teardown(c)' /\ ctx'[c].thread_pool = p
    BY <1>1, <1>2 DEF RegInv, PoolsAlike, BindsAlike
  <2>4. ASSUME NEW c \in Contexts, Teardown(c)'
        PROVE  /\ ctx'[c].thread_pool \notin Reg'
               /\ \A d \in Contexts : Bound(d)' /\ ctx'[d].thread_pool = ctx'[c].thread_pool => d = c
               /\ pool'[ctx'[c].thread_pool].active_jobs = 0
    <3>1. Teardown(c) /\ ctx'[c].thread_pool = ctx[c].thread_pool
      BY <1>1, <2>4 DEF BindsAlike
    <3>2. \A d \in Contexts : Bound(d)' => Bound(d) /\ ctx'[d].thread_pool = ctx[d].thread_pool
      BY DEF BindsAlike
    <3>. QED BY <1>2, <3>1, <3>2 DEF RegInv
  <2>5. ASSUME NEW p \in PoolIds, pool'[p].shutdown
        PROVE  \/ \E c \in Contexts : pc'[c] = "join" /\ ctx'[c].thread_pool = p
               \/ pc'[GlobalCtx] = "sweep_join" /\ p = shared_pools'[1]
    <3>1. pool[p].shutdown
      BY <2>5 DEF PoolsAlike
    <3>2. CASE \E c \in Contexts : pc[c] = "join" /\ ctx[c].thread_pool = p
      <4>1. PICK c \in Contexts : pc[c] = "join" /\ ctx[c].thread_pool = p
        BY <3>2
      <4>2. Teardown(c)
        BY <4>1 DEF Teardown
      <4>3. pc'[c] = "join"
        BY <4>1, <4>2 DEF BindsAlike
      <4>. QED BY <1>1, <4>1, <4>2, <4>3
    <3>3. CASE pc[GlobalCtx] = "sweep_join" /\ p = shared_pools[1]
      BY <3>3 DEF BindsAlike
    <3>. QED BY <3>1, <3>2, <3>3 DEF RegInv
  <2>6. pc'[GlobalCtx] = "sweep_join" => shared_pools' # <<>>
    BY DEF RegInv, BindsAlike
  <2>. QED BY <2>1, <2>2, <2>3, <2>4, <2>5, <2>6 DEF RegInv
<1>6. RefsInv'
  <2>1. ASSUME NEW p \in PoolIds PROVE Attached(p)' = Attached(p)
    <3>1. \A c \in Contexts : c \in Attached(p) <=>
            Bound(c) /\ ~Teardown(c) /\ ctx[c].thread_pool = p
      BY DEF Attached, Bound, Teardown
    <3>2. \A c \in Contexts : c \in Attached(p)' <=>
            Bound(c)' /\ ~Teardown(c)' /\ ctx'[c].thread_pool = p
      BY DEF Attached, Bound, Teardown
    <3>3. Attached(p) \subseteq Contexts /\ Attached(p)' \subseteq Contexts
      BY DEF Attached
    <3>4. \A c \in Contexts : c \in Attached(p)' <=> c \in Attached(p)
      BY <3>1, <3>2 DEF BindsAlike
    <3>. QED BY <3>3, <3>4
  <2>2. Sweeping' <=> Sweeping
    BY DEF Sweeping, BindsAlike
  <2>. QED BY <2>1, <2>2 DEF RefsInv, PoolsAlike
<1>. QED BY <1>4, <1>5, <1>6

(* Threads that have no entry and get none. *)
Calm == {"none", "check", "sleep", "exited"}
WorkersCalm == \A p \in PoolIds, t \in AllTids :
  worker'[p][t] = worker[p][t] \/ (worker[p][t].at \in Calm /\ worker'[p][t].at \in Calm)
QueuesAlike == \A p \in PoolIds : pool'[p].queue = pool[p].queue

(* They change nothing about who has which job. *)
LEMMA CalmUsers ==
  ASSUME WorkersCalm, NEW p \in PoolIds
  PROVE  /\ Busy(p)' = Busy(p)
         /\ \A c : /\ HoldersOf(p, c)' = HoldersOf(p, c) /\ Runners(p, c)' = Runners(p, c)
                   /\ RunTids(p, c)' = RunTids(p, c)
                   /\ \A t \in Runners(p, c) : worker'[p][t].tid = worker[p][t].tid
<1>1. \A t \in AllTids : /\ worker'[p][t].at \in Holding \cup {"account"} <=>
                              worker[p][t].at \in Holding \cup {"account"}
                         /\ worker'[p][t].at \in Holding <=> worker[p][t].at \in Holding
                         /\ worker'[p][t].at = "run" <=> worker[p][t].at = "run"
                         /\ worker[p][t].at \in Holding => worker'[p][t] = worker[p][t]
  BY DEF WorkersCalm, Calm, Holding
<1>2. Busy(p)' = Busy(p)
  BY <1>1 DEF Busy
<1>3. ASSUME NEW c
      PROVE  /\ HoldersOf(p, c)' = HoldersOf(p, c) /\ Runners(p, c)' = Runners(p, c)
             /\ RunTids(p, c)' = RunTids(p, c)
             /\ \A t \in Runners(p, c) : worker'[p][t].tid = worker[p][t].tid
  <2>1. HoldersOf(p, c)' = HoldersOf(p, c)
    BY <1>1 DEF HoldersOf
  <2>2. Runners(p, c)' = Runners(p, c)
        /\ \A t \in Runners(p, c) : worker'[p][t].tid = worker[p][t].tid
    BY <1>1 DEF Runners, Holding
  <2>3. RunTids(p, c)' = RunTids(p, c)
    BY <2>2 DEF RunTids
  <2>. QED BY <2>1, <2>2, <2>3
<1>. QED BY <1>2, <1>3

(* Nor about the jobs, when the queues and the waiting contexts stay. *)
LEMMA JobsKept ==
  ASSUME CtxInv, PlaceInv, JobInv, WorkersCalm, QueuesAlike, job' = job,
         \A c \in Contexts : Waiting(c)' <=> Waiting(c),
         \A c \in Contexts : Waiting(c) => /\ ctx'[c].thread_pool = ctx[c].thread_pool
                                           /\ ctx'[c].nthreads = ctx[c].nthreads
  PROVE  PlaceInv' /\ JobInv'
<1>1. ASSUME NEW p \in PoolIds, NEW c PROVE QueuedTids(p, c)' = QueuedTids(p, c)
  BY DEF QueuedTids, QueuesAlike
<1>2. PlaceInv'
  <2>1. \A c \in Contexts : IF Waiting(c)' THEN job'[c].live ELSE job'[c] = NoJob
    BY DEF PlaceInv
  <2>2. ASSUME NEW p \in PoolIds, NEW c \in Contexts,
               QueuedTids(p, c)' # {} \/ HoldersOf(p, c)' # {}
        PROVE  Waiting(c)' /\ ctx'[c].thread_pool = p
    <3>1. HoldersOf(p, c)' = HoldersOf(p, c)
      BY CalmUsers
    <3>2. Waiting(c) /\ ctx[c].thread_pool = p
      BY <1>1, <2>2, <3>1 DEF PlaceInv
    <3>. QED BY <3>2
  <2>. QED BY <2>1, <2>2 DEF PlaceInv
<1>3. JobInv'
  <2> SUFFICES ASSUME NEW p \in PoolIds, NEW c \in Contexts,
                      Waiting(c)', ctx'[c].thread_pool = p
               PROVE  (Shares(p, c))' /\ (Counts(p, c))'
    BY DEF JobInv
  <2>1. Waiting(c) /\ ctx[c].thread_pool = p /\ ctx'[c].nthreads = ctx[c].nthreads
    OBVIOUS
  <2>2. Shares(p, c) /\ Counts(p, c)
    BY <2>1 DEF JobInv
  <2>3. /\ HoldersOf(p, c)' = HoldersOf(p, c) /\ Runners(p, c)' = Runners(p, c)
        /\ RunTids(p, c)' = RunTids(p, c) /\ QueuedTids(p, c)' = QueuedTids(p, c)
        /\ \A t \in Runners(p, c) : worker'[p][t].tid = worker[p][t].tid
    BY <1>1, CalmUsers
  <2>4. pool'[p].queue = pool[p].queue
    BY DEF QueuesAlike
  <2>5. (Distinct(p, c))'
    BY <2>2, <2>3, <2>4 DEF Shares, Distinct
  <2>6. (Shares(p, c))'
    BY <2>1, <2>2, <2>3, <2>5 DEF Shares
  <2>7. (Counts(p, c))'
    BY <2>2, <2>3 DEF Counts
  <2>. QED BY <2>6, <2>7
<1>. QED BY <1>2, <1>3

(* active_jobs stays right. *)
LEMMA ActiveKept ==
  ASSUME ActiveInv, WorkersCalm, QueuesAlike,
         \A p \in PoolIds : pool'[p].active_jobs = pool[p].active_jobs
  PROVE  ActiveInv'
BY CalmUsers DEF ActiveInv, QueuesAlike

(* Pools and threads stay. *)
LEMMA WorkKept ==
  ASSUME WorkInv, PoolsAlike,
         \A p \in PoolIds : ~pool[p].live => pool'[p] = pool[p],
         \A p \in PoolIds, t \in AllTids :
           \/ worker'[p][t] = worker[p][t]
           \/ /\ worker[p][t].at # "none" /\ worker'[p][t].at # "none"
              /\ worker'[p][t].at \in Holding => worker'[p][t].job \in Contexts
  PROVE  WorkInv'
<1>1. \A p \in PoolIds : ~pool'[p].live => pool'[p] = FreePool
  BY DEF WorkInv, PoolsAlike
<1>2. ASSUME NEW p \in PoolIds, NEW t \in AllTids
      PROVE  /\ worker'[p][t].at = "none" <=> ~(pool'[p].live /\ t \in Tids(pool'[p].nthreads))
             /\ worker'[p][t].at \in Holding => worker'[p][t].job \in Contexts
  BY DEF WorkInv, PoolsAlike
<1>. QED BY <1>1, <1>2 DEF WorkInv

(* A job of which nothing changes. *)
LEMMA SharesKept ==
  ASSUME NEW p \in PoolIds, NEW c \in Contexts, Shares(p, c), Counts(p, c),
         QueuedTids(p, c)' = QueuedTids(p, c), HoldersOf(p, c)' = HoldersOf(p, c),
         Runners(p, c)' = Runners(p, c),
         \A t \in Runners(p, c) : worker'[p][t].tid = worker[p][t].tid,
         \A i, j \in DOMAIN pool'[p].queue :
           pool'[p].queue[i].job = c /\ pool'[p].queue[j].job = c
             /\ pool'[p].queue[i].logical_tid = pool'[p].queue[j].logical_tid => i = j,
         job'[c] = job[c], ctx'[c].nthreads = ctx[c].nthreads
  PROVE  (Shares(p, c))' /\ (Counts(p, c))'
<1>1. RunTids(p, c)' = RunTids(p, c)
  BY DEF RunTids
<1>2. (Distinct(p, c))'
  BY DEF Shares, Distinct
<1>3. (Shares(p, c))'
  BY <1>1, <1>2 DEF Shares
<1>4. (Counts(p, c))'
  BY DEF Counts
<1>. QED BY <1>3, <1>4

(* The queue of a pool, and its head. *)
LEMMA QueueFacts ==
  ASSUME TypeOK, NEW p \in PoolIds
  PROVE  LET s == pool[p].queue IN
         /\ s \in Seq(Entry) /\ Len(s) \in Nat /\ DOMAIN s = 1 .. Len(s)
         /\ \A i \in DOMAIN s : s[i] \in Entry /\ s[i].job \in Contexts /\ s[i].logical_tid \in AllTids
         /\ s = <<>> <=> Len(s) = 0
         /\ s # <<>> => /\ Head(s) = s[1] /\ 1 \in DOMAIN s /\ Len(s) >= 1
                        /\ Tail(s) \in Seq(Entry) /\ Len(Tail(s)) = Len(s) - 1
                        /\ DOMAIN Tail(s) = 1 .. Len(s) - 1
                        /\ \A i \in 1 .. Len(s) - 1 : Tail(s)[i] = s[i + 1] /\ i + 1 \in DOMAIN s
<1> DEFINE s == pool[p].queue
<1>1. s \in Seq(Entry)
  BY DEF TypeOK, PoolRec
<1> HIDE DEF s
<1>2. Len(s) \in Nat /\ DOMAIN s = 1 .. Len(s) /\ \A i \in DOMAIN s : s[i] \in Entry
  BY <1>1, LenProperties, ElementOfSeq
<1>3. s = <<>> <=> Len(s) = 0
  BY <1>1, EmptySeq
<1>4. ASSUME s # <<>>
      PROVE  /\ Head(s) = s[1] /\ 1 \in DOMAIN s /\ Len(s) >= 1
             /\ Tail(s) \in Seq(Entry) /\ Len(Tail(s)) = Len(s) - 1
             /\ DOMAIN Tail(s) = 1 .. Len(s) - 1
             /\ \A i \in 1 .. Len(s) - 1 : Tail(s)[i] = s[i + 1] /\ i + 1 \in DOMAIN s
  <2>1. Len(s) >= 1 /\ 1 \in DOMAIN s
    BY <1>2, <1>3, <1>4
  <2>2. Tail(s) \in Seq(Entry) /\ Len(Tail(s)) = Len(s) - 1
        /\ \A i \in 1 .. Len(Tail(s)) : Tail(s)[i] = s[i + 1]
    BY <1>1, <1>4, HeadTailProperties
  <2>3. DOMAIN Tail(s) = 1 .. Len(s) - 1
    BY <2>2, LenProperties
  <2>4. \A i \in 1 .. Len(s) - 1 : i + 1 \in DOMAIN s
    BY <1>2
  <2>5. Head(s) = s[1]
    BY <1>1, <1>4
  <2>. QED BY <2>1, <2>2, <2>3, <2>4, <2>5
<1>5. \A i \in DOMAIN s : s[i].job \in Contexts /\ s[i].logical_tid \in AllTids
  BY <1>2 DEF Entry
<1>. QED BY <1>1, <1>2, <1>3, <1>4, <1>5 DEF s

(* Whose job is queued at a pool, or with one of its threads. *)
LEMMA UserPlace ==
  ASSUME TypeOK, WorkInv, PlaceInv, NEW p \in PoolIds
  PROVE  /\ \A i \in DOMAIN pool[p].queue :
              LET c == pool[p].queue[i].job IN
              c \in Contexts /\ Waiting(c) /\ ctx[c].thread_pool = p
         /\ \A t \in AllTids : worker[p][t].at \in Holding =>
              LET c == worker[p][t].job IN
              c \in Contexts /\ Waiting(c) /\ ctx[c].thread_pool = p /\ t \in HoldersOf(p, c)
<1>1. ASSUME NEW i \in DOMAIN pool[p].queue
      PROVE  LET c == pool[p].queue[i].job IN
             c \in Contexts /\ Waiting(c) /\ ctx[c].thread_pool = p
  <2>1. PICK c \in Contexts : c = pool[p].queue[i].job
    BY QueueFacts
  <2>2. pool[p].queue[i].logical_tid \in QueuedTids(p, c)
    BY <2>1 DEF QueuedTids
  <2>. QED BY <2>1, <2>2 DEF PlaceInv
<1>2. ASSUME NEW t \in AllTids, worker[p][t].at \in Holding
      PROVE  LET c == worker[p][t].job IN
             c \in Contexts /\ Waiting(c) /\ ctx[c].thread_pool = p /\ t \in HoldersOf(p, c)
  <2>1. PICK c \in Contexts : c = worker[p][t].job
    BY <1>2 DEF WorkInv
  <2>2. t \in HoldersOf(p, c)
    BY <1>2, <2>1 DEF HoldersOf
  <2>. QED BY <2>1, <2>2 DEF PlaceInv
<1>. QED BY <1>1, <1>2

(* A pool without active jobs is idle. *)
LEMMA QuietPool ==
  ASSUME TypeOK, ActiveInv, NEW p \in PoolIds
  PROVE  /\ Cardinality(Busy(p)) \in Nat /\ Len(pool[p].queue) \in Nat
         /\ pool[p].active_jobs = 0 <=> pool[p].queue = <<>> /\ Busy(p) = {}
         /\ \A t \in Busy(p) : pool[p].active_jobs >= 1
<1>1. Busy(p) \subseteq AllTids
  BY DEF Busy
<1>2. Cardinality(Busy(p)) \in Nat /\ (Cardinality(Busy(p)) = 0 <=> Busy(p) = {})
      /\ \A t \in Busy(p) : Cardinality(Busy(p)) >= 1
  BY <1>1, TidsCounted
<1>3. Len(pool[p].queue) \in Nat /\ (pool[p].queue = <<>> <=> Len(pool[p].queue) = 0)
  BY QueueFacts
<1>4. pool[p].active_jobs = Len(pool[p].queue) + Cardinality(Busy(p))
  BY DEF ActiveInv
<1>. QED BY <1>2, <1>3, <1>4

(* Steps of threads leave the contexts alone, but for the one they wake. *)
LEMMA ContextsStill ==
  ASSUME IInv, initlib' = initlib, epoch' = epoch, shared_pools' = shared_pools, ctx' = ctx,
         caller' = caller, PoolsAlike,
         \A c \in Contexts : pc'[c] = pc[c] \/ (Waiting(c) /\ Waiting(c)'),
         \A c \in Contexts : Teardown(c) => pool'[ctx[c].thread_pool].active_jobs = 0
  PROVE  /\ CtlInv' /\ CtxInv' /\ RegInv' /\ RefsInv'
         /\ \A c \in Contexts : Waiting(c)' <=> Waiting(c)
<1>1. \A c \in Contexts : Waiting(c)' <=> Waiting(c)
  BY DEF Waiting
<1>2. BindsAlike
  BY GlobalAssumption DEF BindsAlike, Bound, Teardown, Waiting
<1>3. /\ RegInv' /\ RefsInv'
      /\ \A c \in Contexts : Bound(c) =>
           /\ pool'[ctx'[c].thread_pool].live
           /\ pool'[ctx'[c].thread_pool].nthreads = ctx'[c].nthreads
  BY <1>2, BindKept DEF IInv, TypeOK
<1>4. CtlInv'
  BY GlobalAssumption DEF IInv, CtlInv, NotDestroying, Waiting
<1>5. ASSUME NEW c \in Contexts PROVE CtxOf(c)'
  <2>1. CtxOf(c) /\ (Bound(c)' <=> Bound(c))
    BY <1>2 DEF IInv, CtxInv, BindsAlike
  <2>. QED BY <1>3, <2>1 DEF CtxOf, Waiting
<1>. QED BY <1>1, <1>3, <1>4, <1>5 DEF CtxInv
-----------------------------------------------------------------------------
(* The steps of the threads of a pool. *)

(* A thread that changes its state alone does so calmly. *)
LEMMA CalmThread ==
  ASSUME IInv, NEW p \in PoolIds, NEW t \in AllTids, NEW a \in {"check", "sleep", "exited"},
         worker[p][t].at \in {"check", "sleep"},
         worker' = [worker EXCEPT ![p][t].at = a],
         UNCHANGED <<initlib, epoch, shared_pools, pool, ctx, job, pc, caller>>
  PROVE  IInv'
<1>1. PICK w \in WorkerRec : w = [worker[p][t] EXCEPT !.at = a] /\ w.at = a
  <2>1. worker[p][t] \in WorkerRec
    BY DEF IInv, TypeOK
  <2>2. [worker[p][t] EXCEPT !.at = a] \in WorkerRec /\ [worker[p][t] EXCEPT !.at = a].at = a
    BY <2>1 DEF WorkerRec, WorkerStates
  <2>. QED BY <2>2
<1>2. worker' = [worker EXCEPT ![p][t] = w]
  BY <1>1
<1>3. /\ worker' \in [PoolIds -> [AllTids -> WorkerRec]] /\ worker'[p][t].at = a
      /\ \A q \in PoolIds, u \in AllTids : q # p \/ u # t => worker'[q][u] = worker[q][u]
  BY <1>1, <1>2 DEF IInv, TypeOK
<1>4. TypeOK'
  BY <1>3 DEF IInv, TypeOK
<1>5. WorkersCalm
  BY <1>3 DEF WorkersCalm, Calm
<1>6. PoolsAlike /\ QueuesAlike
  BY DEF PoolsAlike, QueuesAlike
<1>7. /\ CtlInv' /\ CtxInv' /\ RegInv' /\ RefsInv'
      /\ \A c \in Contexts : Waiting(c)' <=> Waiting(c)
  <2>1. \A c \in Contexts : Teardown(c) => pool'[ctx[c].thread_pool].active_jobs = 0
    BY DEF IInv, RegInv
  <2>. QED BY <1>6, <2>1, ContextsStill
<1>8. PlaceInv' /\ JobInv'
  BY <1>5, <1>6, <1>7, JobsKept DEF IInv
<1>9. ActiveInv'
  BY <1>5, <1>6, ActiveKept DEF IInv
<1>10. WorkInv'
  BY <1>3, <1>6, WorkKept DEF IInv, Holding
<1>. QED BY <1>4, <1>7, <1>8, <1>9, <1>10 DEF IInv

(* shared_pool_worker takes the head of the queue. *)
LEMMA TakeStep ==
  ASSUME IInv, NEW p \in PoolIds, NEW t \in AllTids, worker[p][t].at = "check",
         pool[p].queue # <<>>,
         worker' = [worker EXCEPT ![p][t] =
                      [at |-> "run", job |-> Head(pool[p].queue).job,
                       tid |-> Head(pool[p].queue).logical_tid]],
         pool' = [pool EXCEPT ![p].queue = Tail(@)],
         UNCHANGED <<initlib, epoch, shared_pools, ctx, job, pc, caller>>
  PROVE  IInv'
<1> USE DEF IInv
<1> DEFINE s == pool[p].queue
<1>1. /\ s \in Seq(Entry) /\ Len(s) \in Nat /\ DOMAIN s = 1 .. Len(s)
      /\ Head(s) = s[1] /\ 1 \in DOMAIN s /\ Len(s) >= 1
      /\ Tail(s) \in Seq(Entry) /\ Len(Tail(s)) = Len(s) - 1
      /\ DOMAIN Tail(s) = 1 .. Len(s) - 1
      /\ \A i \in 1 .. Len(s) - 1 : Tail(s)[i] = s[i + 1] /\ i + 1 \in DOMAIN s
  BY QueueFacts
<1>2. PICK c \in Contexts, k \in AllTids : c = s[1].job /\ k = s[1].logical_tid
                                           /\ Waiting(c) /\ ctx[c].thread_pool = p
  BY <1>1, QueueFacts, UserPlace
<1>3. /\ pool' \in [PoolIds -> PoolRec] /\ pool'[p] = [pool[p] EXCEPT !.queue = Tail(s)]
      /\ \A q \in PoolIds : q # p => pool'[q] = pool[q]
  BY ZenonT(30), <1>1 DEF TypeOK, PoolRec
<1>4. /\ pool'[p].queue = Tail(s) /\ pool'[p].active_jobs = pool[p].active_jobs
      /\ pool'[p].live = pool[p].live
  BY <1>3 DEF TypeOK, PoolRec
<1>5. PoolsAlike
  BY <1>3 DEF PoolsAlike, TypeOK, PoolRec
<1>6. PICK w \in WorkerRec : /\ w = [at |-> "run", job |-> c, tid |-> k]
                             /\ w.at = "run" /\ w.job = c /\ w.tid = k
  <2>1. [at |-> "run", job |-> c, tid |-> k] \in WorkerRec
    BY DEF WorkerRec, WorkerStates
  <2>. QED BY <2>1
<1>7. worker' = [worker EXCEPT ![p][t] = w]
  BY <1>1, <1>2, <1>6
<1>8. /\ worker' \in [PoolIds -> [AllTids -> WorkerRec]] /\ worker'[p][t] = w
      /\ \A q \in PoolIds, u \in AllTids : q # p \/ u # t => worker'[q][u] = worker[q][u]
  BY <1>6, <1>7 DEF TypeOK
<1>9. TypeOK'
  BY <1>3, <1>8 DEF TypeOK
<1>10. /\ CtlInv' /\ CtxInv' /\ RegInv' /\ RefsInv'
       /\ \A d \in Contexts : Waiting(d)' <=> Waiting(d)
  <2>1. \A d \in Contexts : Teardown(d) => pool'[ctx[d].thread_pool].active_jobs = 0
    BY <1>3, <1>4, TeardownBound DEF RegInv
  <2>. QED BY <1>5, <2>1, ContextsStill
<1>11. WorkInv'
  <2>1. pool[p].live
    BY <1>1 DEF WorkInv, FreePool
  <2>. QED BY SMTT(20), <1>3, <1>4, <1>5, <1>6, <1>8, <2>1, WorkKept
<1>12. ActiveInv'
  <2>1. \A q \in PoolIds : q # p => Busy(q)' = Busy(q)
    BY <1>8 DEF Busy
  <2>2. Busy(p)' = Busy(p) \cup {t} /\ t \notin Busy(p) /\ Busy(p) \subseteq AllTids
    BY <1>6, <1>8 DEF Busy, Holding
  <2>3. Cardinality(Busy(p)') = Cardinality(Busy(p)) + 1 /\ Cardinality(Busy(p)) \in Nat
    BY <2>2, TidsCounted
  <2>4. pool'[p].active_jobs = Len(pool'[p].queue) + Cardinality(Busy(p)')
    <3>1. pool[p].active_jobs = Len(s) + Cardinality(Busy(p))
      BY DEF ActiveInv
    <3>2. Len(pool'[p].queue) = Len(s) - 1
      BY <1>1, <1>4
    <3>. QED BY <1>1, <1>4, <2>3, <3>1, <3>2
  <2>. QED BY <1>3, <2>1, <2>4 DEF ActiveInv
<1>13. \A q \in PoolIds, d \in Contexts : q # p \/ d # c =>
         /\ QueuedTids(q, d)' = QueuedTids(q, d) /\ HoldersOf(q, d)' = HoldersOf(q, d)
         /\ Runners(q, d)' = Runners(q, d)
         /\ \A u \in Runners(q, d) : worker'[q][u].tid = worker[q][u].tid
  <2> SUFFICES ASSUME NEW q \in PoolIds, NEW d \in Contexts, q # p \/ d # c
               PROVE  /\ QueuedTids(q, d)' = QueuedTids(q, d) /\ HoldersOf(q, d)' = HoldersOf(q, d)
                      /\ Runners(q, d)' = Runners(q, d)
                      /\ \A u \in Runners(q, d) : worker'[q][u].tid = worker[q][u].tid
    OBVIOUS
  <2>1. \A u \in AllTids : worker'[q][u] = worker[q][u] \/ (q = p /\ u = t)
    BY <1>8
  <2>2. HoldersOf(q, d)' = HoldersOf(q, d)
    BY <1>6, <1>8, <2>1 DEF HoldersOf, Holding
  <2>3. Runners(q, d)' = Runners(q, d) /\ \A u \in Runners(q, d) : worker'[q][u].tid = worker[q][u].tid
    BY <1>6, <1>8, <2>1 DEF Runners
  <2>4. QueuedTids(q, d)' = QueuedTids(q, d)
    <3>1. CASE q # p
      BY <1>3, <3>1 DEF QueuedTids
    <3>2. CASE q = p
      <4>1. d # c
        BY <3>2
      <4>2. ASSUME NEW x \in QueuedTids(p, d)' PROVE x \in QueuedTids(p, d)
        <5>1. PICK i \in DOMAIN Tail(s) : Tail(s)[i].job = d /\ x = Tail(s)[i].logical_tid
          BY <1>4, <4>2 DEF QueuedTids
        <5>2. i + 1 \in DOMAIN s /\ s[i + 1] = Tail(s)[i]
          BY <1>1, <5>1
        <5>. QED BY <5>1, <5>2 DEF QueuedTids
      <4>3. ASSUME NEW x \in QueuedTids(p, d) PROVE x \in QueuedTids(p, d)'
        <5>1. PICK i \in DOMAIN s : s[i].job = d /\ x = s[i].logical_tid
          BY <4>3 DEF QueuedTids
        <5>2. i # 1
          BY <1>2, <4>1, <5>1
        <5>3. i - 1 \in DOMAIN Tail(s) /\ Tail(s)[i - 1] = s[i]
          BY <1>1, <5>1, <5>2
        <5>. QED BY <1>4, <5>1, <5>3 DEF QueuedTids
      <4>4. QueuedTids(p, d)' = QueuedTids(p, d)
        BY <4>2, <4>3
      <4>. QED BY <3>2, <4>4
    <3>. QED BY <3>1, <3>2
  <2>. QED BY <2>2, <2>3, <2>4
<1>14. PlaceInv'
  <2>1. \A d \in Contexts : IF Waiting(d)' THEN job'[d].live ELSE job'[d] = NoJob
    BY <1>10 DEF PlaceInv
  <2>2. \A q \in PoolIds, d \in Contexts : QueuedTids(q, d)' # {} \/ HoldersOf(q, d)' # {} =>
          Waiting(d)' /\ ctx'[d].thread_pool = q
    BY <1>2, <1>10, <1>13 DEF PlaceInv
  <2>. QED BY <2>1, <2>2 DEF PlaceInv
<1>15. \A d \in Contexts : Shares(p, d) => \A i, j \in DOMAIN pool'[p].queue :
         pool'[p].queue[i].job = d /\ pool'[p].queue[j].job = d
           /\ pool'[p].queue[i].logical_tid = pool'[p].queue[j].logical_tid => i = j
  <2> SUFFICES ASSUME NEW d \in Contexts, Shares(p, d),
                      NEW i \in DOMAIN pool'[p].queue, NEW j \in DOMAIN pool'[p].queue,
                      pool'[p].queue[i].job = d, pool'[p].queue[j].job = d,
                      pool'[p].queue[i].logical_tid = pool'[p].queue[j].logical_tid
               PROVE  i = j
    OBVIOUS
  <2>1. /\ i + 1 \in DOMAIN s /\ j + 1 \in DOMAIN s /\ i \in Int /\ j \in Int
        /\ s[i + 1] = pool'[p].queue[i] /\ s[j + 1] = pool'[p].queue[j]
    <3> HIDE DEF s
    <3>1. i \in 1 .. Len(s) - 1 /\ j \in 1 .. Len(s) - 1
      BY <1>1, <1>4
    <3>2. pool'[p].queue[i] = Tail(s)[i] /\ pool'[p].queue[j] = Tail(s)[j]
      BY <1>4
    <3>. QED BY <1>1, <3>1, <3>2
  <2>2. i + 1 = j + 1
    BY <2>1 DEF Shares, Distinct
  <2>. QED BY <2>1, <2>2
<1>16. JobInv'
  <2> SUFFICES ASSUME NEW q \in PoolIds, NEW d \in Contexts, Waiting(d)', ctx'[d].thread_pool = q
               PROVE  (Shares(q, d))' /\ (Counts(q, d))'
    BY DEF JobInv
  <2>1. Shares(q, d) /\ Counts(q, d) /\ job'[d] = job[d] /\ ctx'[d].nthreads = ctx[d].nthreads
    BY <1>10 DEF JobInv
  <2>2. CASE q # p \/ d # c
    <3>1. \A i, j \in DOMAIN pool'[q].queue :
             pool'[q].queue[i].job = d /\ pool'[q].queue[j].job = d
               /\ pool'[q].queue[i].logical_tid = pool'[q].queue[j].logical_tid => i = j
      <4>1. CASE q = p
        BY <1>15, <2>1, <4>1
      <4>2. CASE q # p
        BY <1>3, <2>1, <4>2 DEF Shares, Distinct
      <4>. QED BY <4>1, <4>2
    <3>. QED BY <1>13, <2>1, <2>2, <3>1, SharesKept
  <2>3. CASE q = p /\ d = c
    <3>1. QueuedTids(p, c)' = QueuedTids(p, c) \ {k} /\ k \in QueuedTids(p, c)
      <4>1. k \in QueuedTids(p, c)
        BY <1>1, <1>2 DEF QueuedTids
      <4>2. ASSUME NEW x \in QueuedTids(p, c)' PROVE x \in QueuedTids(p, c) /\ x # k
        <5>1. PICK i \in DOMAIN Tail(s) : Tail(s)[i].job = c /\ x = Tail(s)[i].logical_tid
          BY <1>4, <4>2 DEF QueuedTids
        <5>2. i + 1 \in DOMAIN s /\ s[i + 1] = Tail(s)[i] /\ i + 1 # 1
          BY <1>1, <5>1
        <5>3. x # k
          <6>1. \A a, b \in DOMAIN s : s[a].job = c /\ s[b].job = c
                    /\ s[a].logical_tid = s[b].logical_tid => a = b
            BY <2>1, <2>3 DEF Shares, Distinct
          <6>. QED BY <1>1, <1>2, <5>1, <5>2, <6>1
        <5>. QED BY <5>1, <5>2, <5>3 DEF QueuedTids
      <4>3. ASSUME NEW x \in QueuedTids(p, c), x # k PROVE x \in QueuedTids(p, c)'
        <5>1. PICK i \in DOMAIN s : s[i].job = c /\ x = s[i].logical_tid
          BY <4>3 DEF QueuedTids
        <5>2. i # 1
          BY <1>2, <4>3, <5>1
        <5>3. i - 1 \in DOMAIN Tail(s) /\ Tail(s)[i - 1] = s[i]
          BY <1>1, <5>1, <5>2
        <5>. QED BY <1>4, <5>1, <5>3 DEF QueuedTids
      <4>. QED BY <4>1, <4>2, <4>3
    <3>2. HoldersOf(p, c)' = HoldersOf(p, c) \cup {t} /\ t \notin HoldersOf(p, c)
      BY <1>6, <1>8 DEF HoldersOf, Holding
    <3>3. Runners(p, c)' = Runners(p, c) \cup {t} /\ t \notin Runners(p, c)
          /\ \A u \in Runners(p, c) : worker'[p][u].tid = worker[p][u].tid
      BY <1>6, <1>8 DEF Runners
    <3>4. RunTids(p, c)' = RunTids(p, c) \cup {k}
      <4>1. worker'[p][t].tid = k
        BY <1>6, <1>8
      <4>. QED BY <3>3, <4>1 DEF RunTids
    <3>5. k \notin RunTids(p, c)
      BY <2>1, <2>3, <3>1 DEF Shares
    <3>6. (Distinct(p, c))'
      <4>1. \A u \in Runners(p, c) : worker[p][u].tid # k
        BY <3>5 DEF RunTids
      <4>2. worker'[p][t].tid = k
        BY <1>6, <1>8
      <4>3. \A u, v \in Runners(p, c)' : worker'[p][u].tid = worker'[p][v].tid => u = v
        BY <2>1, <2>3, <3>3, <4>1, <4>2 DEF Shares, Distinct
      <4>4. \A i, j \in DOMAIN pool'[p].queue :
              pool'[p].queue[i].job = c /\ pool'[p].queue[j].job = c
                /\ pool'[p].queue[i].logical_tid = pool'[p].queue[j].logical_tid => i = j
        BY <1>15, <2>1, <2>3
      <4>. QED BY <4>3, <4>4 DEF Distinct
    <3>7. (Shares(p, c))'
      BY <2>1, <2>3, <3>1, <3>4, <3>5, <3>6 DEF Shares
    <3>8. /\ Cardinality(QueuedTids(p, c)') = Cardinality(QueuedTids(p, c)) - 1
          /\ Cardinality(QueuedTids(p, c)) \in Nat
      <4>1. QueuedTids(p, c) \subseteq AllTids
        BY QueueFacts DEF QueuedTids
      <4>. QED BY <3>1, <4>1, TidsCounted
    <3>9. /\ Cardinality(HoldersOf(p, c)') = Cardinality(HoldersOf(p, c)) + 1
          /\ Cardinality(HoldersOf(p, c)) \in Nat
      <4>1. HoldersOf(p, c) \subseteq AllTids
        BY DEF HoldersOf
      <4>. QED BY <3>2, <4>1, TidsCounted
    <3>10. /\ Cardinality(Runners(p, c)') = Cardinality(Runners(p, c)) + 1
           /\ Cardinality(Runners(p, c)) \in Nat
      <4>1. Runners(p, c) \subseteq AllTids
        BY DEF Runners
      <4>. QED BY <3>3, <4>1, TidsCounted
    <3>11. (Counts(p, c))'
      <4>1. Counts(p, c) /\ job'[c] = job[c]
        BY <2>1, <2>3
      <4>2. \A a, b, x, y, z \in Nat : x = a + b /\ y = a + z => x = (a - 1) + (b + 1) /\ y = (a - 1) + (z + 1)
        OBVIOUS
      <4>. QED BY <3>8, <3>9, <3>10, <4>1, <4>2 DEF Counts
    <3>. QED BY <2>3, <3>7, <3>11
  <2>. QED BY <2>2, <2>3
<1>. QED BY <1>9, <1>10, <1>11, <1>12, <1>14, <1>16

(* shared_pool_worker at the top of its loop. *)
LEMMA WorkerTakeStep ==
  ASSUME IInv, NEW p \in PoolIds, NEW t \in AllTids, WorkerTake(p, t)
  PROVE  IInv'
<1>1. CASE pool[p].shutdown
  BY <1>1, CalmThread DEF WorkerTake
<1>2. CASE ~pool[p].shutdown /\ pool[p].queue = <<>>
  BY <1>2, CalmThread DEF WorkerTake
<1>3. CASE ~pool[p].shutdown /\ pool[p].queue # <<>>
  BY <1>3, TakeStep DEF WorkerTake
<1>. QED BY <1>1, <1>2, <1>3

(* t_blosc_do_job runs the share that the thread holds. *)
LEMMA WorkerRunStep ==
  ASSUME IInv, NEW p \in PoolIds, NEW t \in AllTids, WorkerRun(p, t)
  PROVE  IInv'
<1> USE DEF IInv
<1>1. worker[p][t].at = "run" /\ worker[p][t] \in WorkerRec
  BY DEF WorkerRun, TypeOK
<1>2. PICK c \in Contexts, k \in AllTids :
        /\ c = worker[p][t].job /\ k = worker[p][t].tid
        /\ Waiting(c) /\ ctx[c].thread_pool = p /\ t \in HoldersOf(p, c)
  BY <1>1, UserPlace DEF Holding, WorkerRec
<1>3. Shares(p, c) /\ Counts(p, c)
  BY <1>2 DEF JobInv
<1>4. t \in Runners(p, c) /\ Runners(p, c) \subseteq AllTids
  BY <1>1, <1>2 DEF Runners
<1>5. /\ Cardinality(QueuedTids(p, c)) \in Nat /\ Cardinality(Runners(p, c)) \in Nat
      /\ Cardinality(Runners(p, c)) >= 1
      /\ Cardinality(Runners(p, c) \ {t}) = Cardinality(Runners(p, c)) - 1
  <2>1. QueuedTids(p, c) \subseteq AllTids
    BY QueueFacts DEF QueuedTids
  <2>. QED BY <1>4, <2>1, TidsCounted
<1>6. job[c] \in JobRec /\ job[c].active_workers >= 1 /\ job[c].active_workers - 1 \in Nat
  BY <1>3, <1>5 DEF Counts, TypeOK, JobRec
<1>7. PICK j \in JobRec :
        /\ j = [job[c] EXCEPT !.active_workers = @ - 1, !.ran = @ \cup {k}]
        /\ j.active_workers = job[c].active_workers - 1 /\ j.ran = job[c].ran \cup {k}
        /\ j.live = job[c].live /\ j.pending_workers = job[c].pending_workers
        /\ j.completed = job[c].completed
  <2>1. [job[c] EXCEPT !.active_workers = @ - 1, !.ran = @ \cup {k}] \in JobRec
    BY <1>6 DEF JobRec
  <2>. QED BY <1>6, <2>1 DEF JobRec
<1>8. /\ job' \in [Contexts -> JobRec] /\ job'[c] = j
      /\ \A d \in Contexts : d # c => job'[d] = job[d]
  <2>1. job' = [job EXCEPT ![c] = j]
    BY <1>2, <1>7 DEF WorkerRun
  <2>. QED BY <2>1 DEF TypeOK
<1>9. PICK w \in WorkerRec : /\ w = [worker[p][t] EXCEPT !.at = "signal"]
                             /\ w.at = "signal" /\ w.job = c /\ w.tid = k
  <2>1. [worker[p][t] EXCEPT !.at = "signal"] \in WorkerRec
    BY <1>1 DEF WorkerRec, WorkerStates
  <2>. QED BY <1>1, <1>2, <2>1 DEF WorkerRec
<1>10. /\ worker' \in [PoolIds -> [AllTids -> WorkerRec]] /\ worker'[p][t] = w
       /\ \A q \in PoolIds, u \in AllTids : q # p \/ u # t => worker'[q][u] = worker[q][u]
  <2>1. worker' = [worker EXCEPT ![p][t] = w]
    BY <1>9 DEF WorkerRun
  <2>. QED BY <2>1 DEF TypeOK
<1>11. UNCHANGED <<initlib, epoch, shared_pools, pool, ctx, pc, caller>>
  BY DEF WorkerRun
<1>12. TypeOK'
  BY <1>8, <1>10, <1>11 DEF TypeOK
<1>13. PoolsAlike /\ QueuesAlike
  BY <1>11 DEF PoolsAlike, QueuesAlike
<1>14. /\ CtlInv' /\ CtxInv' /\ RegInv' /\ RefsInv'
       /\ \A d \in Contexts : Waiting(d)' <=> Waiting(d)
  <2>1. \A d \in Contexts : Teardown(d) => pool'[ctx[d].thread_pool].active_jobs = 0
    BY <1>11 DEF RegInv
  <2>. QED BY <1>11, <1>13, <2>1, ContextsStill
<1>15. WorkInv'
  <2>1. \A q \in PoolIds, u \in AllTids :
          \/ worker'[q][u] = worker[q][u]
          \/ /\ worker[q][u].at # "none" /\ worker'[q][u].at # "none"
             /\ worker'[q][u].at \in Holding => worker'[q][u].job \in Contexts
    BY <1>1, <1>9, <1>10
  <2>2. \A q \in PoolIds : ~pool[q].live => pool'[q] = pool[q]
    BY <1>11
  <2>. QED BY <1>13, <2>1, <2>2, WorkKept
<1>16. \A q \in PoolIds : Busy(q)' = Busy(q)
  <2>1. \A q \in PoolIds, u \in AllTids : worker'[q][u].at \in Holding \cup {"account"}
                                             <=> worker[q][u].at \in Holding \cup {"account"}
    BY <1>1, <1>9, <1>10 DEF Holding
  <2>. QED BY <2>1 DEF Busy
<1>17. ActiveInv'
  BY <1>11, <1>16 DEF ActiveInv
<1>18. \A q \in PoolIds, d \in Contexts :
         /\ QueuedTids(q, d)' = QueuedTids(q, d) /\ HoldersOf(q, d)' = HoldersOf(q, d)
         /\ q # p \/ d # c => Runners(q, d)' = Runners(q, d)
  <2>1. \A q \in PoolIds, d \in Contexts : QueuedTids(q, d)' = QueuedTids(q, d)
    BY <1>11 DEF QueuedTids
  <2>2. \A q \in PoolIds, d \in Contexts : HoldersOf(q, d)' = HoldersOf(q, d)
    <3>1. \A q \in PoolIds, u \in AllTids :
            /\ worker'[q][u].at \in Holding <=> worker[q][u].at \in Holding
            /\ worker'[q][u].job = worker[q][u].job
      BY <1>1, <1>2, <1>9, <1>10 DEF Holding
    <3>. QED BY <3>1 DEF HoldersOf
  <2>3. \A q \in PoolIds, d \in Contexts : q # p \/ d # c => Runners(q, d)' = Runners(q, d)
    BY <1>1, <1>2, <1>9, <1>10 DEF Runners
  <2>. QED BY <2>1, <2>2, <2>3
<1>19. \A q \in PoolIds, u \in AllTids : worker'[q][u].tid = worker[q][u].tid
  BY <1>2, <1>9, <1>10
<1>20. PlaceInv'
  <2>1. \A d \in Contexts : IF Waiting(d)' THEN job'[d].live ELSE job'[d] = NoJob
    BY <1>2, <1>7, <1>8, <1>14 DEF PlaceInv
  <2>2. \A q \in PoolIds, d \in Contexts : QueuedTids(q, d)' # {} \/ HoldersOf(q, d)' # {} =>
          Waiting(d)' /\ ctx'[d].thread_pool = q
    BY <1>11, <1>14, <1>18 DEF PlaceInv
  <2>. QED BY <2>1, <2>2 DEF PlaceInv
<1>21. JobInv'
  <2> SUFFICES ASSUME NEW q \in PoolIds, NEW d \in Contexts, Waiting(d)', ctx'[d].thread_pool = q
               PROVE  (Shares(q, d))' /\ (Counts(q, d))'
    BY DEF JobInv
  <2>1. Shares(q, d) /\ Counts(q, d) /\ ctx'[d].nthreads = ctx[d].nthreads
    BY <1>11, <1>14 DEF JobInv
  <2>2. CASE d # c
    <3>1. \A i, m \in DOMAIN pool'[q].queue :
             pool'[q].queue[i].job = d /\ pool'[q].queue[m].job = d
               /\ pool'[q].queue[i].logical_tid = pool'[q].queue[m].logical_tid => i = m
      BY <1>11, <2>1 DEF Shares, Distinct
    <3>2. \A u \in Runners(q, d) : worker'[q][u].tid = worker[q][u].tid
      BY <1>19 DEF Runners
    <3>. QED BY <1>8, <1>18, <2>1, <2>2, <3>1, <3>2, SharesKept
  <2>3. CASE d = c
    <3>1. q = p
      BY <1>2, <1>11, <2>3
    <3>2. Runners(p, c)' = Runners(p, c) \ {t}
      BY <1>9, <1>10 DEF Runners
    <3>3. RunTids(p, c)' = RunTids(p, c) \ {k} /\ k \in RunTids(p, c)
      <4>1. \A u \in Runners(p, c) : worker[p][u].tid = k => u = t
        BY <1>2, <1>3, <1>4 DEF Shares, Distinct
      <4>2. \A u \in Runners(p, c) : u \in AllTids /\ worker'[p][u].tid = worker[p][u].tid
        BY <1>4, <1>19
      <4>. QED BY <1>2, <1>4, <3>2, <4>1, <4>2 DEF RunTids
    <3>4. (Distinct(p, c))'
      <4>1. \A i, m \in DOMAIN pool'[p].queue :
             pool'[p].queue[i].job = c /\ pool'[p].queue[m].job = c
               /\ pool'[p].queue[i].logical_tid = pool'[p].queue[m].logical_tid => i = m
        BY <1>3, <1>11 DEF Shares, Distinct
      <4>2. \A u, v \in Runners(p, c)' : worker'[p][u].tid = worker'[p][v].tid => u = v
        BY <1>3, <1>4, <1>19, <3>2 DEF Shares, Distinct
      <4>. QED BY <4>1, <4>2 DEF Distinct
    <3>5. k \notin QueuedTids(p, c) /\ k \in Tids(ctx[c].nthreads)
      BY <1>3, <3>3 DEF Shares
    <3>6. job'[c].ran = job[c].ran \cup {k} /\ ctx'[c].nthreads = ctx[c].nthreads
      BY <1>7, <1>8, <1>11
    <3>7. QueuedTids(p, c)' = QueuedTids(p, c)
      BY <1>18
    <3>8. (Shares(p, c))'
      BY <1>3, <3>3, <3>4, <3>5, <3>6, <3>7 DEF Shares
    <3>9. (Counts(p, c))'
      <4>1. HoldersOf(p, c)' = HoldersOf(p, c)
        BY <1>18
      <4>2. Cardinality(Runners(p, c)') = Cardinality(Runners(p, c)) - 1
        BY <1>5, <3>2
      <4>3. /\ job'[c].pending_workers = job[c].pending_workers
            /\ job'[c].completed = job[c].completed
            /\ job'[c].active_workers = job[c].active_workers - 1
        BY <1>7, <1>8
      <4>4. \A a, x, y \in Nat : x = a + y => x - 1 = a + (y - 1)
        OBVIOUS
      <4>5. job[c].active_workers \in Nat
        BY <1>6 DEF JobRec
      <4>. QED BY <1>3, <1>5, <3>7, <4>1, <4>2, <4>3, <4>4, <4>5 DEF Counts
    <3>. QED BY <2>3, <3>1, <3>8, <3>9
  <2>. QED BY <2>2, <2>3
<1>. QED BY <1>12, <1>14, <1>15, <1>17, <1>20, <1>21

(* shared_pool_worker counts itself out of the job. *)
LEMMA WorkerSignalStep ==
  ASSUME IInv, NEW p \in PoolIds, NEW t \in AllTids, WorkerSignal(p, t)
  PROVE  IInv'
<1> USE DEF IInv
<1>1. worker[p][t].at = "signal" /\ worker[p][t] \in WorkerRec
  BY DEF WorkerSignal, TypeOK
<1>2. PICK c \in Contexts : /\ c = worker[p][t].job
                            /\ Waiting(c) /\ ctx[c].thread_pool = p /\ t \in HoldersOf(p, c)
  BY <1>1, UserPlace DEF Holding
<1>3. Shares(p, c) /\ Counts(p, c)
  BY <1>2 DEF JobInv
<1>4. /\ Cardinality(QueuedTids(p, c)) \in Nat /\ Cardinality(HoldersOf(p, c)) \in Nat
      /\ Cardinality(HoldersOf(p, c)) >= 1
      /\ Cardinality(HoldersOf(p, c) \ {t}) = Cardinality(HoldersOf(p, c)) - 1
  <2>1. QueuedTids(p, c) \subseteq AllTids
    BY QueueFacts DEF QueuedTids
  <2>2. HoldersOf(p, c) \subseteq AllTids
    BY DEF HoldersOf
  <2>. QED BY <1>2, <2>1, <2>2, TidsCounted
<1>5. job[c] \in JobRec /\ job[c].pending_workers \in Nat /\ job[c].pending_workers >= 1
      /\ job[c].pending_workers - 1 \in Nat /\ job[c].completed = FALSE
  <2>1. job[c] \in JobRec
    BY DEF TypeOK
  <2>2. job[c].pending_workers \in Nat /\ job[c].pending_workers >= 1
    BY <1>3, <1>4, <2>1 DEF Counts, JobRec
  <2>3. job[c].completed \in BOOLEAN
    BY <2>1 DEF JobRec
  <2>4. ~job[c].completed
    BY <1>3, <2>2 DEF Counts
  <2>. QED BY <2>1, <2>2, <2>3, <2>4
<1> DEFINE last == LastWorker(job[c])
<1>6. PICK j \in JobRec :
        /\ j = [job[c] EXCEPT !.pending_workers = @ - 1, !.completed = @ \/ last]
        /\ j.pending_workers = job[c].pending_workers - 1
        /\ j.completed <=> job[c].pending_workers = 1
        /\ j.live = job[c].live /\ j.active_workers = job[c].active_workers
        /\ j.ran = job[c].ran
  <2>1. last <=> job[c].pending_workers = 1
    BY DEF LastWorker
  <2>2. (job[c].completed \/ last) \in BOOLEAN
    BY Zenon
  <2> HIDE DEF last
  <2>3. [job[c] EXCEPT !.pending_workers = @ - 1, !.completed = @ \/ last] \in JobRec
    BY <1>5, <2>2 DEF JobRec
  <2>. QED BY <1>5, <2>1, <2>3 DEF JobRec
<1>7. /\ job' \in [Contexts -> JobRec] /\ job'[c] = j
      /\ \A d \in Contexts : d # c => job'[d] = job[d]
  <2>1. job' = [job EXCEPT ![c] = j]
    BY <1>2, <1>6 DEF WorkerSignal
  <2>. QED BY <2>1 DEF TypeOK
<1>8. PICK w \in WorkerRec : /\ w = [worker[p][t] EXCEPT !.at = "account", !.job = NoCtx]
                             /\ w.at = "account"
  <2>1. [worker[p][t] EXCEPT !.at = "account", !.job = NoCtx] \in WorkerRec
    BY <1>1 DEF WorkerRec, WorkerStates
  <2>. QED BY <1>1, <2>1 DEF WorkerRec
<1>9. /\ worker' \in [PoolIds -> [AllTids -> WorkerRec]] /\ worker'[p][t] = w
      /\ \A q \in PoolIds, u \in AllTids : q # p \/ u # t => worker'[q][u] = worker[q][u]
  <2>1. worker' = [worker EXCEPT ![p][t] = w]
    BY <1>8 DEF WorkerSignal, TypeOK
  <2>. QED BY <2>1 DEF TypeOK
<1>10. UNCHANGED <<initlib, epoch, shared_pools, pool, ctx, caller>>
  BY DEF WorkerSignal
<1>11. /\ pc' \in [Contexts -> PCs]
       /\ \A d \in Contexts : pc'[d] = pc[d] \/ (Waiting(d) /\ Waiting(d)')
  <2>1. CASE last /\ pc[c] = "wait_sleep"
    <3>1. pc' = [pc EXCEPT ![c] = "wait"]
      BY <1>2, <2>1 DEF WorkerSignal
    <3>. QED BY <2>1, <3>1 DEF TypeOK, PCs, Waiting
  <2>2. CASE ~(last /\ pc[c] = "wait_sleep")
    <3>1. pc' = pc
      BY <1>2, <2>2 DEF WorkerSignal
    <3>. QED BY <3>1 DEF TypeOK
  <2>. QED BY <2>1, <2>2
<1>12. TypeOK'
  BY <1>7, <1>9, <1>10, <1>11 DEF TypeOK
<1>13. PoolsAlike
  BY <1>10 DEF PoolsAlike
<1>14. /\ CtlInv' /\ CtxInv' /\ RegInv' /\ RefsInv'
       /\ \A d \in Contexts : Waiting(d)' <=> Waiting(d)
  <2>1. \A d \in Contexts : Teardown(d) => pool'[ctx[d].thread_pool].active_jobs = 0
    BY <1>10 DEF RegInv
  <2>. QED BY <1>10, <1>11, <1>13, <2>1, ContextsStill
<1>15. WorkInv'
  <2>1. \A q \in PoolIds, u \in AllTids :
          \/ worker'[q][u] = worker[q][u]
          \/ /\ worker[q][u].at # "none" /\ worker'[q][u].at # "none"
             /\ worker'[q][u].at \in Holding => worker'[q][u].job \in Contexts
    BY <1>1, <1>8, <1>9 DEF Holding
  <2>2. \A q \in PoolIds : ~pool[q].live => pool'[q] = pool[q]
    BY <1>10
  <2>. QED BY <1>13, <2>1, <2>2, WorkKept
<1>16. ActiveInv'
  <2>1. \A q \in PoolIds, u \in AllTids : worker'[q][u].at \in Holding \cup {"account"}
                                             <=> worker[q][u].at \in Holding \cup {"account"}
    BY <1>1, <1>8, <1>9 DEF Holding
  <2>2. \A q \in PoolIds : Busy(q)' = Busy(q)
    BY <2>1 DEF Busy
  <2>. QED BY <1>10, <2>2 DEF ActiveInv
<1>17. \A q \in PoolIds, d \in Contexts :
         /\ QueuedTids(q, d)' = QueuedTids(q, d) /\ Runners(q, d)' = Runners(q, d)
         /\ q # p \/ d # c => HoldersOf(q, d)' = HoldersOf(q, d)
  <2>1. \A q \in PoolIds, d \in Contexts : QueuedTids(q, d)' = QueuedTids(q, d)
    BY <1>10 DEF QueuedTids
  <2>2. \A q \in PoolIds, d \in Contexts : Runners(q, d)' = Runners(q, d)
    <3>1. \A q \in PoolIds, u \in AllTids, d \in Contexts :
            worker'[q][u].at = "run" /\ worker'[q][u].job = d
              <=> worker[q][u].at = "run" /\ worker[q][u].job = d
      BY <1>1, <1>8, <1>9
    <3>. QED BY <3>1 DEF Runners
  <2>3. \A q \in PoolIds, d \in Contexts : q # p \/ d # c => HoldersOf(q, d)' = HoldersOf(q, d)
    <3>1. \A q \in PoolIds, u \in AllTids, d \in Contexts : q # p \/ d # c =>
            (worker'[q][u].at \in Holding /\ worker'[q][u].job = d
              <=> worker[q][u].at \in Holding /\ worker[q][u].job = d)
      BY <1>1, <1>2, <1>8, <1>9 DEF Holding
    <3>. QED BY <3>1 DEF HoldersOf
  <2>. QED BY <2>1, <2>2, <2>3
<1>18. HoldersOf(p, c)' = HoldersOf(p, c) \ {t}
  BY <1>8, <1>9 DEF HoldersOf, Holding
<1>19. PlaceInv'
  <2>1. \A d \in Contexts : IF Waiting(d)' THEN job'[d].live ELSE job'[d] = NoJob
    <3>1. job'[c].live = job[c].live
      BY <1>6, <1>7
    <3>2. job[c].live
      BY <1>2 DEF PlaceInv
    <3>3. \A d \in Contexts : d # c => (IF Waiting(d)' THEN job'[d].live ELSE job'[d] = NoJob)
      BY <1>7, <1>14 DEF PlaceInv
    <3>. QED BY <1>2, <1>14, <3>1, <3>2, <3>3
  <2>2. \A q \in PoolIds, d \in Contexts : QueuedTids(q, d)' # {} \/ HoldersOf(q, d)' # {} =>
          Waiting(d)' /\ ctx'[d].thread_pool = q
    BY <1>2, <1>10, <1>14, <1>17 DEF PlaceInv
  <2>. QED BY <2>1, <2>2 DEF PlaceInv
<1>20. \A q \in PoolIds, d \in Contexts : \A u \in Runners(q, d) : worker'[q][u].tid = worker[q][u].tid
  BY <1>1, <1>9 DEF Runners
<1>21. JobInv'
  <2> SUFFICES ASSUME NEW q \in PoolIds, NEW d \in Contexts, Waiting(d)', ctx'[d].thread_pool = q
               PROVE  (Shares(q, d))' /\ (Counts(q, d))'
    BY DEF JobInv
  <2>1. Shares(q, d) /\ Counts(q, d) /\ ctx'[d].nthreads = ctx[d].nthreads
    BY <1>10, <1>14 DEF JobInv
  <2>2. CASE d # c
    <3>1. \A i, m \in DOMAIN pool'[q].queue :
             pool'[q].queue[i].job = d /\ pool'[q].queue[m].job = d
               /\ pool'[q].queue[i].logical_tid = pool'[q].queue[m].logical_tid => i = m
      BY <1>10, <2>1 DEF Shares, Distinct
    <3>. QED BY <1>7, <1>17, <1>20, <2>1, <2>2, <3>1, SharesKept
  <2>3. CASE d = c
    <3>1. q = p
      BY <1>2, <1>10, <2>3
    <3>2. /\ Runners(p, c)' = Runners(p, c) /\ QueuedTids(p, c)' = QueuedTids(p, c)
          /\ \A u \in Runners(p, c) : worker'[p][u].tid = worker[p][u].tid
      BY <1>17, <1>20
    <3>3. RunTids(p, c)' = RunTids(p, c)
      BY <3>2 DEF RunTids
    <3>4. (Distinct(p, c))'
      BY <1>3, <1>10, <3>2 DEF Shares, Distinct
    <3>5. job'[c].ran = job[c].ran /\ ctx'[c].nthreads = ctx[c].nthreads
      BY <1>6, <1>7, <1>10
    <3>6. (Shares(p, c))'
      BY <1>3, <3>2, <3>3, <3>4, <3>5 DEF Shares
    <3>7. (Counts(p, c))'
      <4>1. Cardinality(HoldersOf(p, c)') = Cardinality(HoldersOf(p, c)) - 1
        BY <1>4, <1>18
      <4>2. /\ job'[c].pending_workers = job[c].pending_workers - 1
            /\ job'[c].completed <=> job[c].pending_workers = 1
            /\ job'[c].active_workers = job[c].active_workers
        BY <1>6, <1>7
      <4>3. \A a, x, y \in Nat : x = a + y => x - 1 = a + (y - 1) /\ (x = 1 <=> x - 1 = 0)
        OBVIOUS
      <4>. QED BY <1>3, <1>4, <1>5, <3>2, <4>1, <4>2, <4>3 DEF Counts
    <3>. QED BY <2>3, <3>1, <3>6, <3>7
  <2>. QED BY <2>2, <2>3
<1>. QED BY <1>12, <1>14, <1>15, <1>16, <1>19, <1>21

(* shared_pool_worker counts itself out of the pool. *)
LEMMA WorkerAccountStep ==
  ASSUME IInv, NEW p \in PoolIds, NEW t \in AllTids, WorkerAccount(p, t)
  PROVE  IInv'
<1> USE DEF IInv
<1>1. worker[p][t].at = "account" /\ worker[p][t] \in WorkerRec /\ t \in Busy(p)
  BY DEF WorkerAccount, TypeOK, Busy
<1>2. /\ Cardinality(Busy(p)) \in Nat /\ Len(pool[p].queue) \in Nat
      /\ pool[p].active_jobs \in Nat /\ pool[p].active_jobs >= 1
      /\ pool[p].active_jobs - 1 \in Nat
      /\ Cardinality(Busy(p) \ {t}) = Cardinality(Busy(p)) - 1
  <2>1. Busy(p) \subseteq AllTids
    BY DEF Busy
  <2>2. pool[p].active_jobs \in Nat
    BY DEF TypeOK, PoolRec
  <2>3. pool[p].active_jobs >= 1
    BY <1>1, QuietPool
  <2>. QED BY <1>1, <2>1, <2>2, <2>3, QuietPool, TidsCounted
<1>3. PICK x \in PoolRec :
        /\ x = [pool[p] EXCEPT !.active_jobs = @ - 1]
        /\ x.active_jobs = pool[p].active_jobs - 1 /\ x.queue = pool[p].queue
        /\ x.live = pool[p].live /\ x.nthreads = pool[p].nthreads
        /\ x.shutdown = pool[p].shutdown /\ x.context_refs = pool[p].context_refs
  <2>1. pool[p] \in PoolRec
    BY DEF TypeOK
  <2>2. [pool[p] EXCEPT !.active_jobs = @ - 1] \in PoolRec
    BY <1>2, <2>1 DEF PoolRec
  <2>. QED BY <2>1, <2>2 DEF PoolRec
<1>4. /\ pool' \in [PoolIds -> PoolRec] /\ pool'[p] = x
      /\ \A q \in PoolIds : q # p => pool'[q] = pool[q]
  <2>1. pool' = [pool EXCEPT ![p] = x]
    BY <1>3 DEF WorkerAccount
  <2>. QED BY <2>1 DEF TypeOK
<1>5. PICK w \in WorkerRec : w = [worker[p][t] EXCEPT !.at = "check"] /\ w.at = "check"
  <2>1. [worker[p][t] EXCEPT !.at = "check"] \in WorkerRec
    BY <1>1 DEF WorkerRec, WorkerStates
  <2>. QED BY <1>1, <2>1 DEF WorkerRec
<1>6. /\ worker' \in [PoolIds -> [AllTids -> WorkerRec]] /\ worker'[p][t] = w
      /\ \A q \in PoolIds, u \in AllTids : q # p \/ u # t => worker'[q][u] = worker[q][u]
  <2>1. worker' = [worker EXCEPT ![p][t] = w]
    BY <1>5 DEF WorkerAccount
  <2>. QED BY <2>1 DEF TypeOK
<1>7. UNCHANGED <<initlib, epoch, shared_pools, ctx, job, pc, caller>>
  BY DEF WorkerAccount
<1>8. TypeOK'
  BY <1>4, <1>6, <1>7 DEF TypeOK
<1>9. PoolsAlike /\ QueuesAlike
  BY <1>3, <1>4 DEF PoolsAlike, QueuesAlike
<1>10. /\ CtlInv' /\ CtxInv' /\ RegInv' /\ RefsInv'
       /\ \A d \in Contexts : Waiting(d)' <=> Waiting(d)
  <2>1. \A d \in Contexts : Teardown(d) => pool'[ctx[d].thread_pool].active_jobs = 0
    <3> SUFFICES ASSUME NEW d \in Contexts, Teardown(d)
                 PROVE  pool'[ctx[d].thread_pool].active_jobs = 0
      OBVIOUS
    <3>1. ctx[d].thread_pool \in PoolIds /\ pool[ctx[d].thread_pool].active_jobs = 0
      BY TeardownBound DEF RegInv
    <3>2. ctx[d].thread_pool # p
      BY <1>2, <3>1
    <3>. QED BY <1>4, <3>1, <3>2
  <2>. QED BY <1>7, <1>9, <2>1, ContextsStill
<1>11. WorkInv'
  <2>1. \A q \in PoolIds, u \in AllTids :
          \/ worker'[q][u] = worker[q][u]
          \/ /\ worker[q][u].at # "none" /\ worker'[q][u].at # "none"
             /\ worker'[q][u].at \in Holding => worker'[q][u].job \in Contexts
    BY <1>1, <1>5, <1>6 DEF Holding
  <2>2. pool[p].live
    BY <1>2 DEF WorkInv, FreePool
  <2>3. \A q \in PoolIds : ~pool[q].live => pool'[q] = pool[q]
    BY <1>4, <2>2
  <2>. QED BY <1>9, <2>1, <2>3, WorkKept
<1>12. ActiveInv'
  <2>1. \A q \in PoolIds : q # p => Busy(q)' = Busy(q)
    BY <1>6 DEF Busy
  <2>2. Busy(p)' = Busy(p) \ {t}
    BY <1>5, <1>6 DEF Busy, Holding
  <2>3. pool[p].active_jobs = Len(pool[p].queue) + Cardinality(Busy(p))
    BY DEF ActiveInv
  <2>4. Cardinality(Busy(p)') = Cardinality(Busy(p)) - 1
    BY <1>2, <2>2
  <2>5. pool'[p].active_jobs = pool[p].active_jobs - 1 /\ pool'[p].queue = pool[p].queue
    BY <1>3, <1>4
  <2>6. pool'[p].active_jobs = Len(pool'[p].queue) + Cardinality(Busy(p)')
    BY <1>2, <2>3, <2>4, <2>5
  <2>. QED BY <1>4, <2>1, <2>6 DEF ActiveInv
<1>13. ASSUME NEW q \in PoolIds, NEW d \in Contexts
       PROVE  /\ QueuedTids(q, d)' = QueuedTids(q, d) /\ HoldersOf(q, d)' = HoldersOf(q, d)
              /\ Runners(q, d)' = Runners(q, d)
              /\ \A u \in Runners(q, d) : worker'[q][u].tid = worker[q][u].tid
  <2>1. \A u \in AllTids : \/ worker'[q][u] = worker[q][u]
                           \/ worker[q][u].at = "account" /\ worker'[q][u].at = "check"
    BY <1>1, <1>5, <1>6
  <2>2. QueuedTids(q, d)' = QueuedTids(q, d)
    BY <1>9 DEF QueuedTids, QueuesAlike
  <2>3. HoldersOf(q, d)' = HoldersOf(q, d)
    BY <2>1 DEF HoldersOf, Holding
  <2>4. Runners(q, d)' = Runners(q, d) /\ \A u \in Runners(q, d) : worker'[q][u].tid = worker[q][u].tid
    BY <2>1 DEF Runners
  <2>. QED BY <2>2, <2>3, <2>4
<1>14. PlaceInv'
  <2>1. \A d \in Contexts : IF Waiting(d)' THEN job'[d].live ELSE job'[d] = NoJob
    BY <1>7, <1>10 DEF PlaceInv
  <2>2. \A q \in PoolIds, d \in Contexts : QueuedTids(q, d)' # {} \/ HoldersOf(q, d)' # {} =>
          Waiting(d)' /\ ctx'[d].thread_pool = q
    BY <1>7, <1>10, <1>13 DEF PlaceInv
  <2>. QED BY <2>1, <2>2 DEF PlaceInv
<1>15. JobInv'
  <2> SUFFICES ASSUME NEW q \in PoolIds, NEW d \in Contexts, Waiting(d)', ctx'[d].thread_pool = q
               PROVE  (Shares(q, d))' /\ (Counts(q, d))'
    BY DEF JobInv
  <2>1. Shares(q, d) /\ Counts(q, d) /\ ctx'[d].nthreads = ctx[d].nthreads /\ job'[d] = job[d]
    BY <1>7, <1>10 DEF JobInv
  <2>2. \A i, m \in DOMAIN pool'[q].queue :
           pool'[q].queue[i].job = d /\ pool'[q].queue[m].job = d
             /\ pool'[q].queue[i].logical_tid = pool'[q].queue[m].logical_tid => i = m
    BY <1>9, <2>1 DEF Shares, Distinct, QueuesAlike
  <2>. QED BY <1>13, <2>1, <2>2, SharesKept
<1>. QED BY <1>8, <1>10, <1>11, <1>12, <1>14, <1>15

(* A thread, or a context that waits, wakes up for no reason. *)
LEMMA SpuriousWakeStep ==
  ASSUME IInv, SpuriousWake
  PROVE  IInv'
<1> USE DEF IInv
<1>1. ASSUME NEW p \in PoolIds, NEW t \in AllTids, worker[p][t].at = "sleep",
             worker' = [worker EXCEPT ![p][t].at = "check"],
             UNCHANGED <<initlib, epoch, shared_pools, pool, ctx, job, pc, caller>>
      PROVE  IInv'
  BY <1>1, CalmThread
<1>2. ASSUME NEW c \in Contexts, pc[c] = "wait_sleep", pc' = [pc EXCEPT ![c] = "wait"],
             UNCHANGED <<initlib, epoch, shared_pools, pool, worker, ctx, job, caller>>
      PROVE  IInv'
  <2>1. PoolsAlike /\ QueuesAlike /\ WorkersCalm
    BY <1>2 DEF PoolsAlike, QueuesAlike, WorkersCalm
  <2>2. /\ CtlInv' /\ CtxInv' /\ RegInv' /\ RefsInv'
        /\ \A d \in Contexts : Waiting(d)' <=> Waiting(d)
    <3>1. \A d \in Contexts : Teardown(d) => pool'[ctx[d].thread_pool].active_jobs = 0
      BY <1>2 DEF RegInv
    <3>2. \A d \in Contexts : pc'[d] = pc[d] \/ (Waiting(d) /\ Waiting(d)')
      BY <1>2 DEF TypeOK, Waiting
    <3>. QED BY <1>2, <2>1, <3>1, <3>2, ContextsStill
  <2>3. PlaceInv' /\ JobInv'
    BY <1>2, <2>1, <2>2, JobsKept
  <2>4. ActiveInv'
    BY <1>2, <2>1, ActiveKept
  <2>5. WorkInv'
    BY <1>2, <2>1, WorkKept
  <2>6. TypeOK'
    BY <1>2 DEF TypeOK, PCs
  <2>. QED BY <2>2, <2>3, <2>4, <2>5, <2>6
<1>. QED BY <1>1, <1>2 DEF SpuriousWake
-----------------------------------------------------------------------------
(* The steps of the contexts that leave the pools alone. *)

(* Nothing of the pools changes, and no context gets or loses a job. *)
LEMMA PoolsStill ==
  ASSUME IInv, BindsAlike, UNCHANGED <<pool, worker, job>>,
         \A c \in Contexts : Waiting(c)' <=> Waiting(c)
  PROVE  /\ RegInv' /\ RefsInv' /\ WorkInv' /\ ActiveInv' /\ PlaceInv' /\ JobInv'
         /\ \A c \in Contexts : Bound(c)' =>
              /\ pool'[ctx'[c].thread_pool].live
              /\ pool'[ctx'[c].thread_pool].nthreads = ctx'[c].nthreads
<1> USE DEF IInv
<1>1. PoolsAlike /\ QueuesAlike /\ WorkersCalm
  BY DEF PoolsAlike, QueuesAlike, WorkersCalm
<1>2. \A c \in Contexts : Teardown(c) => pool'[ctx[c].thread_pool].active_jobs = 0
  BY DEF RegInv
<1>3. /\ RegInv' /\ RefsInv'
      /\ \A c \in Contexts : Bound(c) =>
           /\ pool'[ctx'[c].thread_pool].live
           /\ pool'[ctx'[c].thread_pool].nthreads = ctx'[c].nthreads
  BY <1>1, <1>2, BindKept DEF TypeOK
<1>4. \A c \in Contexts : Waiting(c) => /\ ctx'[c].thread_pool = ctx[c].thread_pool
                                        /\ ctx'[c].nthreads = ctx[c].nthreads
  BY DEF CtxInv, CtxOf, Waiting, BindsAlike
<1>5. PlaceInv' /\ JobInv'
  BY <1>1, <1>4, JobsKept
<1>6. ActiveInv'
  BY <1>1, ActiveKept
<1>7. WorkInv'
  BY <1>1, WorkKept
<1>8. \A c \in Contexts : Bound(c)' <=> Bound(c)
  BY DEF BindsAlike
<1>. QED BY <1>3, <1>5, <1>6, <1>7, <1>8

(* blosc2_create_cctx, blosc2_create_dctx. *)
LEMMA CreateCtxStep ==
  ASSUME IInv, NEW c \in Contexts, NEW n \in Sizes, CreateCtx(c, n)
  PROVE  IInv'
<1> USE DEF IInv
<1>1. /\ pc[c] = "none" /\ c # GlobalCtx /\ NotDestroying
      /\ UNCHANGED <<initlib, epoch, shared_pools, pool, worker, job, caller>>
  BY DEF CreateCtx
<1>2. NewCtx(n) \in CtxRec /\ NewCtx(n).backend = "serial" /\ NewCtx(n).pool_epoch = 0
  BY DEF NewCtx, CtxRec
<1>3. /\ ctx' \in [Contexts -> CtxRec] /\ ctx'[c] = NewCtx(n)
      /\ \A d \in Contexts : d # c => ctx'[d] = ctx[d]
  BY <1>2 DEF CreateCtx, TypeOK
<1>4. /\ pc' \in [Contexts -> PCs] /\ pc'[c] = "idle"
      /\ \A d \in Contexts : d # c => pc'[d] = pc[d]
  BY DEF CreateCtx, TypeOK, PCs
<1>5. TypeOK'
  BY <1>1, <1>3, <1>4 DEF TypeOK
<1>6. BindsAlike /\ \A d \in Contexts : Waiting(d)' <=> Waiting(d)
  <2>1. ~Bound(c) /\ ~Bound(c)' /\ ~Teardown(c) /\ ~Teardown(c)' /\ ~Waiting(c) /\ ~Waiting(c)'
    BY <1>1, <1>2, <1>3, <1>4 DEF Bound, Teardown, Waiting
  <2>2. \A d \in Contexts : d # c => /\ Bound(d)' <=> Bound(d)
                                     /\ Teardown(d)' <=> Teardown(d)
                                     /\ Waiting(d)' <=> Waiting(d)
    BY <1>1, <1>3, <1>4 DEF Bound, Teardown, Waiting
  <2>. QED BY <1>1, <1>3, <1>4, <2>1, <2>2, GlobalAssumption DEF BindsAlike
<1>7. /\ RegInv' /\ RefsInv' /\ WorkInv' /\ ActiveInv' /\ PlaceInv' /\ JobInv'
      /\ \A d \in Contexts : Bound(d)' =>
           /\ pool'[ctx'[d].thread_pool].live
           /\ pool'[ctx'[d].thread_pool].nthreads = ctx'[d].nthreads
  BY <1>1, <1>6, PoolsStill
<1>8. CtlInv'
  BY <1>1, <1>4, GlobalAssumption DEF CtlInv, NotDestroying
<1>9. CtxInv'
  <2> SUFFICES ASSUME NEW d \in Contexts PROVE CtxOf(d)'
    BY DEF CtxInv
  <2>1. CASE d = c
    <3>1. ctx'[c].pool_epoch <= epoch'
      BY <1>1, <1>2, <1>3 DEF TypeOK
    <3>. QED BY <1>2, <1>3, <1>4, <2>1, <3>1 DEF CtxOf, Bound
  <2>2. CASE d # c
    BY <1>1, <1>3, <1>4, <1>7, <2>2 DEF CtxInv, CtxOf, Bound
  <2>. QED BY <2>1, <2>2
<1>. QED BY <1>5, <1>7, <1>8, <1>9

(* A context moves between calls, or to the next stage of one, and keeps   *)
(* its pool if it has one.                                                 *)
Stages == {"none", "idle", "release", "attach", "submit"}
Moves(c) ==
  /\ pc[c] \in Stages /\ pc'[c] \in Stages
  /\ Bound(c)' <=> Bound(c)
  /\ Bound(c) => /\ ctx'[c].thread_pool = ctx[c].thread_pool
                 /\ ctx'[c].nthreads = ctx[c].nthreads
  /\ ctx'[c].pool_epoch <= epoch
  /\ ctx'[c].backend = "shared_pool" => ctx'[c].thread_pool \in PoolIds
  /\ pc'[c] = "submit" => Bound(c)'
  /\ pc'[c] = "attach" => ctx'[c].backend = "serial"

(* Then the invariant stays, if the calls are accounted for. *)
LEMMA ContextsMove ==
  ASSUME IInv, TypeOK', CtlInv', initlib => initlib',
         UNCHANGED <<epoch, shared_pools, pool, worker, job>>,
         \A c \in Contexts : (ctx'[c] = ctx[c] /\ pc'[c] = pc[c]) \/ Moves(c)
  PROVE  IInv'
<1> USE DEF IInv
<1>1. ASSUME NEW c \in Contexts
      PROVE  /\ Bound(c)' <=> Bound(c)
             /\ Bound(c) => /\ ctx'[c].thread_pool = ctx[c].thread_pool
                            /\ ctx'[c].nthreads = ctx[c].nthreads
             /\ Teardown(c)' <=> Teardown(c)
             /\ Teardown(c) => pc'[c] = pc[c]
             /\ pc'[c] = "join" => pc[c] = "join"
             /\ pc'[c] = "sweep_join" <=> pc[c] = "sweep_join"
             /\ pc'[c] = "sweep" <=> pc[c] = "sweep"
             /\ Waiting(c)' <=> Waiting(c)
  <2>1. CASE ctx'[c] = ctx[c] /\ pc'[c] = pc[c]
    BY <2>1 DEF Bound, Teardown, Waiting
  <2>2. CASE Moves(c)
    <3>1. pc[c] \in Stages /\ pc'[c] \in Stages
      BY <2>2 DEF Moves
    <3>2. ~Teardown(c) /\ ~Teardown(c)' /\ ~Waiting(c) /\ ~Waiting(c)'
      BY <3>1 DEF Stages, Teardown, Waiting
    <3>. QED BY <2>2, <3>1, <3>2 DEF Moves, Stages
  <2>. QED BY <2>1, <2>2
<1>2. BindsAlike
  BY <1>1, GlobalAssumption DEF BindsAlike
<1>3. /\ RegInv' /\ RefsInv' /\ WorkInv' /\ ActiveInv' /\ PlaceInv' /\ JobInv'
      /\ \A c \in Contexts : Bound(c)' =>
           /\ pool'[ctx'[c].thread_pool].live
           /\ pool'[ctx'[c].thread_pool].nthreads = ctx'[c].nthreads
  BY <1>1, <1>2, PoolsStill
<1>4. CtxInv'
  <2> SUFFICES ASSUME NEW c \in Contexts PROVE CtxOf(c)'
    BY DEF CtxInv
  <2>1. CtxOf(c)
    BY DEF CtxInv
  <2>2. Bound(c)' => initlib'
    BY <1>1, <2>1 DEF CtxOf
  <2>3. CASE ctx'[c] = ctx[c] /\ pc'[c] = pc[c]
    BY <1>1, <1>3, <2>1, <2>2, <2>3 DEF CtxOf
  <2>4. CASE Moves(c)
    BY <1>3, <2>2, <2>4 DEF CtxOf, Moves, Stages
  <2>. QED BY <2>3, <2>4
<1>. QED BY <1>3, <1>4

(* context->new_nthreads *)
LEMMA SetNewNthreadsStep ==
  ASSUME IInv, NEW c \in Contexts, NEW n \in Sizes, SetNewNthreads(c, n)
  PROVE  IInv'
<1> USE DEF IInv
<1>1. /\ pc[c] = "idle"
      /\ UNCHANGED <<initlib, epoch, shared_pools, pool, worker, job, pc, caller>>
  BY DEF SetNewNthreads
<1>2. PICK x \in CtxRec : /\ x = [ctx[c] EXCEPT !.new_nthreads = n]
                          /\ x.nthreads = ctx[c].nthreads /\ x.thread_pool = ctx[c].thread_pool
                          /\ x.backend = ctx[c].backend /\ x.pool_epoch = ctx[c].pool_epoch
  <2>1. ctx[c] \in CtxRec
    BY DEF TypeOK
  <2>2. [ctx[c] EXCEPT !.new_nthreads = n] \in CtxRec
    BY <2>1 DEF CtxRec
  <2>. QED BY <2>1, <2>2 DEF CtxRec
<1>3. /\ ctx' \in [Contexts -> CtxRec] /\ ctx'[c] = x
      /\ \A d \in Contexts : d # c => ctx'[d] = ctx[d]
  BY <1>2 DEF SetNewNthreads, TypeOK
<1>4. TypeOK'
  BY <1>1, <1>3 DEF TypeOK
<1>5. CtlInv'
  BY <1>1 DEF CtlInv, NotDestroying
<1>6. Moves(c)
  BY <1>1, <1>2, <1>3 DEF Moves, Stages, Bound, CtxInv, CtxOf
<1>. QED BY <1>1, <1>3, <1>4, <1>5, <1>6, ContextsMove

(* check_nthreads *)
LEMMA CheckNthreadsStep ==
  ASSUME IInv, NEW c \in Contexts, CheckNthreads(c)
  PROVE  IInv'
<1> USE DEF IInv
<1>1. /\ pc[c] = "idle" /\ NotDestroying
      /\ UNCHANGED <<initlib, epoch, shared_pools, pool, worker, job>>
  BY DEF CheckNthreads
<1>2. ctx[c] \in CtxRec /\ CtxOf(c)
  BY DEF TypeOK, CtxInv
<1>3. PICK x \in CtxRec : /\ x = Usable(ctx[c])
                          /\ x = ctx[c] \/ (Stale(ctx[c]) /\ x.backend = "serial"
                                            /\ x.pool_epoch = ctx[c].pool_epoch)
                          /\ ~Stale(x)
  <2>1. CASE Stale(ctx[c])
    <3>1. Detached(ctx[c]) \in CtxRec /\ Detached(ctx[c]).backend = "serial"
          /\ Detached(ctx[c]).pool_epoch = ctx[c].pool_epoch
      BY <1>2 DEF Detached, CtxRec
    <3>2. ~Stale(Detached(ctx[c]))
      BY <3>1 DEF Stale
    <3>. QED BY <2>1, <3>1, <3>2 DEF Usable
  <2>2. CASE ~Stale(ctx[c])
    BY <1>2, <2>2 DEF Usable
  <2>. QED BY <2>1, <2>2
<1>4. /\ ctx' \in [Contexts -> CtxRec] /\ ctx'[c] = x
      /\ \A d \in Contexts : d # c => ctx'[d] = ctx[d]
  BY <1>3 DEF CheckNthreads, TypeOK
<1>5. PICK q \in {"release", "idle", "attach", "submit"} :
        /\ pc' = [pc EXCEPT ![c] = q]
        /\ caller' = IF q = "release" THEN [caller EXCEPT ![c] = "check_nthreads"] ELSE caller
        /\ q = "submit" => x.backend # "serial"
        /\ q = "attach" => x.backend = "serial"
  <2>1. CASE x.new_nthreads # x.nthreads
    BY <1>3, <2>1 DEF CheckNthreads
  <2>2. CASE ~(x.new_nthreads # x.nthreads)
    <3>1. PICK q \in AfterCheck(x) : pc' = [pc EXCEPT ![c] = q]
      BY <1>3, <2>2 DEF CheckNthreads
    <3>2. caller' = caller
      BY <1>3, <2>2 DEF CheckNthreads
    <3>3. /\ q \in {"idle", "attach", "submit"}
          /\ q = "submit" => x.backend # "serial"
          /\ q = "attach" => x.backend = "serial"
      BY <3>1 DEF AfterCheck
    <3>. QED BY <3>1, <3>2, <3>3
  <2>. QED BY <2>1, <2>2
<1>6. /\ pc' \in [Contexts -> PCs] /\ pc'[c] = q
      /\ \A d \in Contexts : d # c => pc'[d] = pc[d]
  BY <1>5 DEF TypeOK, PCs
<1>7. /\ caller' \in [Contexts -> Callers]
      /\ caller'[c] = IF q = "release" THEN "check_nthreads" ELSE caller[c]
      /\ \A d \in Contexts : d # c => caller'[d] = caller[d]
  BY <1>5 DEF TypeOK, Callers
<1>8. TypeOK'
  BY <1>1, <1>4, <1>6, <1>7 DEF TypeOK
<1>9. CtlInv'
  <2>1. caller[c] = "nobody"
    BY <1>1 DEF CtlInv
  <2>. QED BY <1>1, <1>5, <1>6, <1>7, <2>1, GlobalAssumption DEF CtlInv, NotDestroying
<1>10. Moves(c)
  <2>1. x.backend = "shared_pool" => x = ctx[c] /\ ctx[c].pool_epoch = epoch
    BY <1>3 DEF Stale
  <2>2. Bound(c)' <=> Bound(c)
    BY <1>1, <1>3, <1>4, <1>5, <1>6, <2>1 DEF Bound, Stale
  <2>3. x.backend # "serial" => x.backend = "shared_pool"
    BY DEF CtxRec
  <2>4. Bound(c) => x = ctx[c]
    BY <1>3 DEF Bound, Stale
  <2>5. q = "submit" => Bound(c)'
    BY <1>1, <1>4, <1>5, <1>6, <2>1, <2>3 DEF Bound
  <2>6. x.pool_epoch = ctx[c].pool_epoch
    BY <1>3
  <2>. QED BY <1>1, <1>2, <1>4, <1>5, <1>6, <2>1, <2>2, <2>4, <2>5, <2>6 DEF Moves, Stages, CtxOf
<1>. QED BY <1>1, <1>4, <1>6, <1>8, <1>9, <1>10, ContextsMove

(* blosc2_free_ctx *)
LEMMA FreeCtxStep ==
  ASSUME IInv, NEW c \in Contexts, FreeCtx(c)
  PROVE  IInv'
<1> USE DEF IInv
<1>1. /\ pc[c] = "idle" /\ c # GlobalCtx /\ NotDestroying
      /\ UNCHANGED <<initlib, epoch, shared_pools, pool, worker, ctx, job>>
  BY DEF FreeCtx
<1>2. PICK q \in {"release", "none"} :
        /\ pc' = [pc EXCEPT ![c] = q]
        /\ caller' = IF q = "release" THEN [caller EXCEPT ![c] = "free_ctx"] ELSE caller
        /\ q = "none" => ~initlib
  BY DEF FreeCtx
<1>3. /\ pc' \in [Contexts -> PCs] /\ pc'[c] = q
      /\ \A d \in Contexts : d # c => pc'[d] = pc[d]
  BY <1>2 DEF TypeOK, PCs
<1>4. /\ caller' \in [Contexts -> Callers]
      /\ caller'[c] = IF q = "release" THEN "free_ctx" ELSE caller[c]
      /\ \A d \in Contexts : d # c => caller'[d] = caller[d]
  BY <1>2 DEF TypeOK, Callers
<1>5. TypeOK'
  BY <1>1, <1>3, <1>4 DEF TypeOK
<1>6. CtlInv'
  <2>1. caller[c] = "nobody"
    BY <1>1 DEF CtlInv
  <2>. QED BY <1>1, <1>2, <1>3, <1>4, <2>1, GlobalAssumption DEF CtlInv, NotDestroying
<1>7. Moves(c)
  BY <1>1, <1>2, <1>3 DEF Moves, Stages, Bound, CtxInv, CtxOf
<1>. QED BY <1>1, <1>3, <1>5, <1>6, <1>7, ContextsMove

(* blosc2_destroy begins *)
LEMMA DestroyBeginStep ==
  ASSUME IInv, DestroyBegin
  PROVE  IInv'
<1> USE DEF IInv
<1>1. /\ initlib /\ \A c \in Contexts : pc[c] \in {"idle", "none"}
      /\ UNCHANGED <<initlib, epoch, shared_pools, pool, worker, ctx, job>>
  BY DEF DestroyBegin
<1>2. /\ pc' \in [Contexts -> PCs] /\ pc'[GlobalCtx] = "release"
      /\ \A d \in Contexts : d # GlobalCtx => pc'[d] = pc[d]
  BY GlobalAssumption DEF DestroyBegin, TypeOK, PCs
<1>3. /\ caller' \in [Contexts -> Callers] /\ caller'[GlobalCtx] = "destroy"
      /\ \A d \in Contexts : d # GlobalCtx => caller'[d] = caller[d]
  BY GlobalAssumption DEF DestroyBegin, TypeOK, Callers
<1>4. TypeOK'
  BY <1>1, <1>2, <1>3 DEF TypeOK
<1>5. pc[GlobalCtx] = "idle"
  BY <1>1, GlobalAssumption DEF CtlInv
<1>6. CtlInv'
  BY <1>1, <1>2, <1>3, GlobalAssumption DEF CtlInv, NotDestroying
<1>7. Moves(GlobalCtx)
  BY <1>1, <1>2, <1>5, GlobalAssumption DEF Moves, Stages, Bound, CtxInv, CtxOf
<1>. QED BY <1>1, <1>2, <1>4, <1>6, <1>7, ContextsMove

(* A fresh context. *)
LEMMA NewCtxFacts ==
  ASSUME NEW n \in Sizes
  PROVE  /\ NewCtx(n) \in CtxRec /\ NewCtx(n).backend = "serial" /\ NewCtx(n).pool_epoch = 0
         /\ NewCtx(n).nthreads = n
BY DEF NewCtx, CtxRec

(* What blosc2_init does to the contexts, in terms of what it is given: it *)
(* touches the global context alone, and only when that one is gone.       *)
LEMMA InitFieldsFacts ==
  ASSUME IInv, NEW cs \in [Contexts -> CtxRec], NEW ps \in [Contexts -> PCs],
         InitFields(cs, ps)
  PROVE  /\ initlib' = TRUE /\ ctx' \in [Contexts -> CtxRec] /\ pc' \in [Contexts -> PCs]
         /\ \A d \in Contexts : d # GlobalCtx => ctx'[d] = cs[d] /\ pc'[d] = ps[d]
         /\ initlib => ctx' = cs /\ pc' = ps
         /\ ~initlib => /\ ctx'[GlobalCtx].backend = "serial" /\ ctx'[GlobalCtx].pool_epoch = 0
                        /\ pc'[GlobalCtx] = "idle"
                        /\ pc[GlobalCtx] \in {"none", "sweep", "sweep_join"}
<1>1. CASE initlib
  BY <1>1 DEF InitFields, IInv, TypeOK
<1>2. CASE ~initlib
  <2>1. PICK n \in Sizes : n = cs[GlobalCtx].nthreads
    BY GlobalAssumption DEF CtxRec
  <2>2. /\ initlib' = TRUE
        /\ ctx' = [cs EXCEPT ![GlobalCtx] = NewCtx(n)]
        /\ pc' = [ps EXCEPT ![GlobalCtx] = "idle"]
    BY <1>2, <2>1 DEF InitFields
  <2>3. /\ NewCtx(n) \in CtxRec /\ NewCtx(n).backend = "serial" /\ NewCtx(n).pool_epoch = 0
    BY NewCtxFacts
  <2>4. pc[GlobalCtx] \in {"none", "sweep", "sweep_join"}
    BY <1>2 DEF IInv, CtlInv
  <2>5. ctx' \in [Contexts -> CtxRec] /\ ctx'[GlobalCtx] = NewCtx(n)
        /\ \A d \in Contexts : d # GlobalCtx => ctx'[d] = cs[d]
    BY <2>2, <2>3, GlobalAssumption
  <2>6. pc' \in [Contexts -> PCs] /\ pc'[GlobalCtx] = "idle"
        /\ \A d \in Contexts : d # GlobalCtx => pc'[d] = ps[d]
    BY <2>2, GlobalAssumption DEF PCs
  <2>. QED BY <1>2, <2>2, <2>3, <2>4, <2>5, <2>6
<1>. QED BY <1>1, <1>2

(* When blosc2_destroy has ended, the global context comes back unbound. *)
LEMMA GlobalMoves ==
  ASSUME IInv, ~initlib, NotDestroying, epoch' = epoch,
         ctx'[GlobalCtx].backend = "serial", ctx'[GlobalCtx].pool_epoch = 0,
         pc'[GlobalCtx] = "idle"
  PROVE  Moves(GlobalCtx) /\ pc[GlobalCtx] = "none"
<1>1. pc[GlobalCtx] = "none"
  BY GlobalAssumption DEF IInv, CtlInv, NotDestroying
<1>2. ~Bound(GlobalCtx) /\ ~Bound(GlobalCtx)'
  BY <1>1 DEF Bound
<1>3. ctx'[GlobalCtx].pool_epoch <= epoch
  BY DEF IInv, TypeOK
<1>. QED BY <1>1, <1>2, <1>3 DEF Moves, Stages

(* blosc2_init *)
LEMMA LibInitStep ==
  ASSUME IInv, LibInit
  PROVE  IInv'
<1> USE DEF IInv
<1>1. /\ ~initlib /\ NotDestroying /\ InitFields(ctx, pc)
      /\ UNCHANGED <<epoch, shared_pools, pool, worker, job, caller>>
  BY DEF LibInit
<1>2. ctx \in [Contexts -> CtxRec] /\ pc \in [Contexts -> PCs]
  BY DEF TypeOK
<1>3. /\ initlib' = TRUE /\ ctx' \in [Contexts -> CtxRec] /\ pc' \in [Contexts -> PCs]
      /\ \A d \in Contexts : d # GlobalCtx => ctx'[d] = ctx[d] /\ pc'[d] = pc[d]
      /\ ctx'[GlobalCtx].backend = "serial" /\ ctx'[GlobalCtx].pool_epoch = 0
      /\ pc'[GlobalCtx] = "idle"
  BY <1>1, <1>2, InitFieldsFacts
<1>4. TypeOK'
  BY <1>1, <1>3 DEF TypeOK
<1>5. Moves(GlobalCtx) /\ pc[GlobalCtx] = "none"
  BY <1>1, <1>3, GlobalMoves
<1>6. CtlInv'
  BY <1>1, <1>3, <1>5, GlobalAssumption DEF CtlInv, NotDestroying
<1>. QED BY <1>1, <1>3, <1>4, <1>5, <1>6, ContextsMove

(* A context that attaches is not disturbed by blosc2_destroy. *)
LEMMA NoDestroy ==
  ASSUME IInv, NEW c \in Contexts,
         pc[c] \in {"attach", "submit", "wait", "wait_sleep"}
  PROVE  NotDestroying /\ caller[c] = "nobody" /\ ~Sweeping /\ (c = GlobalCtx => initlib)
BY GlobalAssumption DEF IInv, CtlInv, NotDestroying, Sweeping

(* create_shared_pool fails *)
LEMMA AttachFailsStep ==
  ASSUME IInv, NEW c \in Contexts, AttachFails(c)
  PROVE  IInv'
<1> USE DEF IInv
<1> DEFINE ps == [pc EXCEPT ![c] = "idle"]
<1>1. /\ pc[c] = "attach" /\ InitFields(ctx, ps)
      /\ UNCHANGED <<epoch, shared_pools, pool, worker, job, caller>>
  BY DEF AttachFails
<1>2. /\ ctx \in [Contexts -> CtxRec] /\ ps \in [Contexts -> PCs]
      /\ ps[c] = "idle" /\ \A d \in Contexts : d # c => ps[d] = pc[d]
  BY DEF TypeOK, PCs
<1> HIDE DEF ps
<1>3. /\ initlib' = TRUE /\ ctx' \in [Contexts -> CtxRec] /\ pc' \in [Contexts -> PCs]
      /\ \A d \in Contexts : d # GlobalCtx => ctx'[d] = ctx[d] /\ pc'[d] = ps[d]
      /\ initlib => ctx' = ctx /\ pc' = ps
      /\ ~initlib => /\ ctx'[GlobalCtx].backend = "serial" /\ ctx'[GlobalCtx].pool_epoch = 0
                     /\ pc'[GlobalCtx] = "idle"
  BY <1>1, <1>2, InitFieldsFacts
<1>4. NotDestroying /\ caller[c] = "nobody" /\ (c = GlobalCtx => initlib)
  BY <1>1, NoDestroy
<1>5. TypeOK'
  BY <1>1, <1>3 DEF TypeOK
<1>6. ctx'[c] = ctx[c] /\ pc'[c] = "idle"
  BY <1>2, <1>3, <1>4
<1>7. Moves(c)
  BY <1>1, <1>6 DEF Moves, Stages, Bound, CtxInv, CtxOf
<1>8. CASE initlib
  <2>1. \A d \in Contexts : d # c => ctx'[d] = ctx[d] /\ pc'[d] = pc[d]
    BY <1>2, <1>3, <1>8
  <2>2. CtlInv'
    BY <1>1, <1>3, <1>4, <1>6, <1>8, <2>1, GlobalAssumption DEF CtlInv, NotDestroying
  <2>. QED BY <1>1, <1>3, <1>5, <1>7, <2>1, <2>2, ContextsMove
<1>9. CASE ~initlib
  <2>1. Moves(GlobalCtx) /\ pc[GlobalCtx] = "none"
    BY <1>1, <1>3, <1>4, <1>9, GlobalMoves
  <2>2. \A d \in Contexts : d # c /\ d # GlobalCtx => ctx'[d] = ctx[d] /\ pc'[d] = pc[d]
    BY <1>2, <1>3
  <2>3. CtlInv'
    BY <1>1, <1>3, <1>4, <1>6, <1>9, <2>1, <2>2, GlobalAssumption DEF CtlInv, NotDestroying
  <2>. QED BY <1>1, <1>3, <1>5, <1>7, <2>1, <2>2, <2>3, ContextsMove
<1>. QED BY <1>8, <1>9

(* parallel_blosc cannot allocate an entry: the pool is as it was. *)
LEMMA SubmitFailsStep ==
  ASSUME IInv, NEW c \in Contexts, SubmitFails(c)
  PROVE  IInv'
<1> USE DEF IInv
<1>1. /\ pc[c] = "submit"
      /\ UNCHANGED <<initlib, epoch, shared_pools, worker, ctx, job, caller>>
  BY DEF SubmitFails
<1>2. PICK p \in PoolIds : p = ctx[c].thread_pool
  BY <1>1 DEF CtxInv, CtxOf, Bound
<1>3. PICK k \in Tids(ctx[c].nthreads) :
        pool' = [pool EXCEPT ![p] = Drained(Queued(pool[p], c, k), c)]
  BY <1>2 DEF SubmitFails
<1>4. k \in Nat /\ Tids(k) \subseteq AllTids
  <2>1. ctx[c].nthreads \in Sizes
    BY DEF TypeOK, CtxRec
  <2>2. ctx[c].nthreads \in Nat /\ Tids(ctx[c].nthreads) \subseteq AllTids
    BY <2>1, TidsFacts
  <2>3. k \in Nat /\ k <= ctx[c].nthreads
    BY <2>2 DEF Tids
  <2>4. Tids(k) \subseteq Tids(ctx[c].nthreads)
    BY <2>2, <2>3 DEF Tids
  <2>. QED BY <2>2, <2>3, <2>4
<1>5. /\ pool[p] \in PoolRec /\ pool[p].queue \in Seq(Entry) /\ pool[p].active_jobs \in Nat
      /\ Len(pool[p].queue) \in Nat
  BY QueueFacts DEF TypeOK, PoolRec
<1>6. \A i \in DOMAIN pool[p].queue : pool[p].queue[i].job # c
  <2>1. ~Waiting(c)
    BY <1>1 DEF Waiting
  <2>. QED BY <2>1, UserPlace
<1> DEFINE s == pool[p].queue
           r == s \o Entries(c, k)
           x == Queued(pool[p], c, k)
<1>7. Without(r, c) = s /\ Len(r) = Len(s) + k /\ r \in Seq(Entry)
  <2> HIDE DEF s
  <2>1. s \in Seq(Entry) /\ \A i \in DOMAIN s : s[i].job # c
    BY <1>5, <1>6 DEF s
  <2>2. Without(s \o Entries(c, k), c) = s
    BY <1>4, <2>1, DrainedBack
  <2>3. /\ s \o Entries(c, k) \in Seq(Entry)
        /\ Len(s \o Entries(c, k)) = Len(s) + k
    BY <1>4, <2>1, Enqueued
  <2>. QED BY <2>2, <2>3
<1>8. /\ x = [pool[p] EXCEPT !.queue = r, !.active_jobs = pool[p].active_jobs + k]
      /\ x.queue = r /\ x.active_jobs = pool[p].active_jobs + k
  BY <1>5 DEF PoolRec, Queued
<1>9. Drained(x, c) = [x EXCEPT !.queue = s, !.active_jobs = @ - (Len(r) - Len(s))]
  <2> HIDE DEF x, r, s
  <2>. QED BY <1>7, <1>8 DEF Drained
<1>10. (pool[p].active_jobs + k) - (Len(r) - Len(s)) = pool[p].active_jobs
  BY <1>4, <1>5, <1>7
<1>11. Drained(x, c) = pool[p]
  <2>1. Drained(x, c) = [pool[p] EXCEPT !.queue = s, !.active_jobs = pool[p].active_jobs]
    <3> HIDE DEF r, s
    <3>. QED BY <1>5, <1>8, <1>9, <1>10 DEF PoolRec
  <2>. QED BY <1>5, <2>1 DEF PoolRec
<1>12. pool' = [pool EXCEPT ![p] = Drained(x, c)]
  BY <1>3
<1>13. pool' = pool
  BY <1>11, <1>12 DEF TypeOK
<1>14. /\ pc' \in [Contexts -> PCs] /\ pc'[c] = "idle"
       /\ \A d \in Contexts : d # c => pc'[d] = pc[d]
  BY DEF SubmitFails, TypeOK, PCs
<1>15. TypeOK'
  BY <1>1, <1>13, <1>14 DEF TypeOK
<1>16. NotDestroying /\ caller[c] = "nobody" /\ (c = GlobalCtx => initlib)
  BY <1>1, NoDestroy
<1>17. CtlInv'
  BY <1>1, <1>14, <1>16, GlobalAssumption DEF CtlInv, NotDestroying
<1>18. Moves(c)
  BY <1>1, <1>14 DEF Moves, Stages, Bound, CtxInv, CtxOf
<1>. QED BY <1>1, <1>13, <1>14, <1>15, <1>17, <1>18, ContextsMove
-----------------------------------------------------------------------------
(* The steps of parallel_blosc. *)

(* The submitting thread goes to sleep. *)
LEMMA WaitSleeps ==
  ASSUME IInv, NEW c \in Contexts, pc[c] = "wait", pc' = [pc EXCEPT ![c] = "wait_sleep"],
         UNCHANGED <<initlib, epoch, shared_pools, pool, worker, ctx, job, caller>>
  PROVE  IInv'
<1> USE DEF IInv
<1>1. PoolsAlike /\ QueuesAlike /\ WorkersCalm
  BY DEF PoolsAlike, QueuesAlike, WorkersCalm
<1>2. /\ CtlInv' /\ CtxInv' /\ RegInv' /\ RefsInv'
      /\ \A d \in Contexts : Waiting(d)' <=> Waiting(d)
  <2>1. \A d \in Contexts : Teardown(d) => pool'[ctx[d].thread_pool].active_jobs = 0
    BY DEF RegInv
  <2>2. \A d \in Contexts : pc'[d] = pc[d] \/ (Waiting(d) /\ Waiting(d)')
    BY DEF TypeOK, Waiting
  <2>. QED BY <1>1, <2>1, <2>2, ContextsStill
<1>3. PlaceInv' /\ JobInv'
  BY <1>1, <1>2, JobsKept
<1>4. ActiveInv'
  BY <1>1, ActiveKept
<1>5. WorkInv'
  BY <1>1, WorkKept
<1>6. TypeOK'
  BY DEF TypeOK, PCs
<1>. QED BY <1>2, <1>3, <1>4, <1>5, <1>6

(* The job is complete: nobody refers to it, and parallel_blosc leaves it. *)
LEMMA WaitReturns ==
  ASSUME IInv, NEW c \in Contexts, pc[c] = "wait", job[c].completed,
         job' = [job EXCEPT ![c] = NoJob], pc' = [pc EXCEPT ![c] = "idle"],
         UNCHANGED <<initlib, epoch, shared_pools, pool, worker, ctx, caller>>
  PROVE  IInv'
<1> USE DEF IInv
<1>1. Waiting(c) /\ Bound(c)
  BY DEF Waiting, CtxInv, CtxOf
<1>2. PICK p \in PoolIds : p = ctx[c].thread_pool
  BY <1>1 DEF CtxInv, CtxOf, Bound
<1>3. \A q \in PoolIds : QueuedTids(q, c) = {} /\ HoldersOf(q, c) = {}
  <2>1. Counts(p, c)
    BY <1>1, <1>2 DEF JobInv
  <2>2. QueuedTids(p, c) \subseteq AllTids /\ HoldersOf(p, c) \subseteq AllTids
    BY QueueFacts DEF QueuedTids, HoldersOf
  <2>3. /\ Cardinality(QueuedTids(p, c)) \in Nat
        /\ Cardinality(QueuedTids(p, c)) = 0 => QueuedTids(p, c) = {}
        /\ Cardinality(HoldersOf(p, c)) \in Nat
        /\ Cardinality(HoldersOf(p, c)) = 0 => HoldersOf(p, c) = {}
    BY <2>2, TidsCounted
  <2>4. Cardinality(QueuedTids(p, c)) + Cardinality(HoldersOf(p, c)) = 0
    BY <2>1 DEF Counts
  <2>5. QueuedTids(p, c) = {} /\ HoldersOf(p, c) = {}
    BY <2>3, <2>4
  <2>. QED BY <1>2, <2>5 DEF PlaceInv
<1>4. /\ job' \in [Contexts -> JobRec] /\ job'[c] = NoJob
      /\ \A d \in Contexts : d # c => job'[d] = job[d]
  <2>0. FALSE \in BOOLEAN
    BY Zenon
  <2>1. NoJob \in JobRec
    BY <2>0 DEF NoJob, JobRec
  <2>. QED BY <2>1 DEF TypeOK
<1>5. /\ pc' \in [Contexts -> PCs] /\ pc'[c] = "idle"
      /\ \A d \in Contexts : d # c => pc'[d] = pc[d]
  BY DEF TypeOK, PCs
<1>6. TypeOK'
  BY <1>4, <1>5 DEF TypeOK
<1>7. ASSUME NEW d \in Contexts
      PROVE  /\ Bound(d)' <=> Bound(d)
             /\ Teardown(d)' <=> Teardown(d)
             /\ d # c => (Waiting(d)' <=> Waiting(d))
             /\ ~Waiting(c)'
  BY <1>5 DEF Bound, Teardown, Waiting
<1>8. BindsAlike
  BY <1>5, <1>7, GlobalAssumption DEF BindsAlike, Teardown
<1>9. PoolsAlike /\ QueuesAlike /\ WorkersCalm
  BY DEF PoolsAlike, QueuesAlike, WorkersCalm
<1>10. RegInv' /\ RefsInv'
  <2>1. \A d \in Contexts : Teardown(d) => pool'[ctx[d].thread_pool].active_jobs = 0
    BY DEF RegInv
  <2>. QED BY <1>8, <1>9, <2>1, BindKept DEF TypeOK
<1>11. NotDestroying /\ caller[c] = "nobody" /\ (c = GlobalCtx => initlib)
  BY NoDestroy
<1>12. CtlInv'
  BY <1>5, <1>11, GlobalAssumption DEF CtlInv, NotDestroying
<1>13. CtxInv'
  <2> SUFFICES ASSUME NEW d \in Contexts PROVE CtxOf(d)'
    BY DEF CtxInv
  <2>. QED BY <1>5, <1>7 DEF CtxInv, CtxOf
<1>14. ActiveInv' /\ WorkInv'
  BY <1>9, ActiveKept, WorkKept
<1>15. \A q \in PoolIds, d \in Contexts :
         QueuedTids(q, d)' = QueuedTids(q, d) /\ HoldersOf(q, d)' = HoldersOf(q, d)
         /\ Runners(q, d)' = Runners(q, d)
  BY DEF QueuedTids, HoldersOf, Runners
<1>16. PlaceInv'
  <2>1. \A d \in Contexts : IF Waiting(d)' THEN job'[d].live ELSE job'[d] = NoJob
    BY <1>4, <1>7 DEF PlaceInv
  <2>2. \A q \in PoolIds, d \in Contexts : QueuedTids(q, d)' # {} \/ HoldersOf(q, d)' # {} =>
          Waiting(d)' /\ ctx'[d].thread_pool = q
    BY <1>3, <1>7, <1>15 DEF PlaceInv
  <2>. QED BY <2>1, <2>2 DEF PlaceInv
<1>17. JobInv'
  <2> SUFFICES ASSUME NEW q \in PoolIds, NEW d \in Contexts, Waiting(d)', ctx'[d].thread_pool = q
               PROVE  (Shares(q, d))' /\ (Counts(q, d))'
    BY DEF JobInv
  <2>1. d # c /\ Shares(q, d) /\ Counts(q, d) /\ job'[d] = job[d]
    BY <1>4, <1>7 DEF JobInv
  <2>2. \A i, m \in DOMAIN pool'[q].queue :
           pool'[q].queue[i].job = d /\ pool'[q].queue[m].job = d
             /\ pool'[q].queue[i].logical_tid = pool'[q].queue[m].logical_tid => i = m
    BY <2>1 DEF Shares, Distinct
  <2>. QED BY <1>15, <2>1, <2>2, SharesKept
<1>. QED BY <1>6, <1>10, <1>12, <1>13, <1>14, <1>16, <1>17

(* parallel_blosc waits. *)
LEMMA WaitJobStep ==
  ASSUME IInv, NEW c \in Contexts, WaitJob(c)
  PROVE  IInv'
<1>1. CASE job[c].completed
  BY <1>1, WaitReturns DEF WaitJob
<1>2. CASE ~job[c].completed
  BY <1>2, WaitSleeps DEF WaitJob
<1>. QED BY <1>1, <1>2

(* A broadcast on work_cv. *)
LEMMA Woken ==
  ASSUME TypeOK, NEW p \in PoolIds, worker' = [worker EXCEPT ![p] = WakeWorkers(@)]
  PROVE  /\ worker' \in [PoolIds -> [AllTids -> WorkerRec]]
         /\ WorkersCalm
         /\ \A q \in PoolIds, t \in AllTids :
              worker'[q][t] = worker[q][t]
              \/ (worker[q][t].at = "sleep" /\ worker'[q][t].at = "check")
<1>1. ASSUME NEW t \in AllTids
      PROVE  /\ WakeWorkers(worker[p])[t] \in WorkerRec
             /\ WakeWorkers(worker[p])[t] = worker[p][t]
                \/ (worker[p][t].at = "sleep" /\ WakeWorkers(worker[p])[t].at = "check")
  <2>1. worker[p][t] \in WorkerRec
    BY DEF TypeOK
  <2>2. WakeWorkers(worker[p])[t] = IF worker[p][t].at = "sleep"
                                    THEN [worker[p][t] EXCEPT !.at = "check"]
                                    ELSE worker[p][t]
    BY DEF WakeWorkers
  <2>3. [worker[p][t] EXCEPT !.at = "check"] \in WorkerRec
        /\ [worker[p][t] EXCEPT !.at = "check"].at = "check"
    BY <2>1 DEF WorkerRec, WorkerStates
  <2>. QED BY <2>1, <2>2, <2>3
<1>2. WakeWorkers(worker[p]) \in [AllTids -> WorkerRec]
  BY <1>1 DEF WakeWorkers
<1>3. /\ worker' \in [PoolIds -> [AllTids -> WorkerRec]]
      /\ worker'[p] = WakeWorkers(worker[p])
      /\ \A q \in PoolIds : q # p => worker'[q] = worker[q]
  BY <1>2 DEF TypeOK
<1>4. \A q \in PoolIds, t \in AllTids :
        worker'[q][t] = worker[q][t]
        \/ (worker[q][t].at = "sleep" /\ worker'[q][t].at = "check")
  BY <1>1, <1>3
<1>5. WorkersCalm
  BY <1>4 DEF WorkersCalm, Calm
<1>. QED BY <1>3, <1>4, <1>5

(* parallel_blosc queues one entry per thread. *)
LEMMA SubmitStep ==
  ASSUME IInv, NEW c \in Contexts, Submit(c)
  PROVE  IInv'
<1> USE DEF IInv
<1>1. /\ pc[c] = "submit"
      /\ UNCHANGED <<initlib, epoch, shared_pools, ctx, caller>>
  BY DEF Submit
<1>2. Bound(c) /\ ~Waiting(c) /\ ~Teardown(c)
  BY <1>1 DEF CtxInv, CtxOf, Waiting, Teardown
<1>3. PICK p \in PoolIds : p = ctx[c].thread_pool /\ pool[p].live
  BY <1>2 DEF CtxInv, CtxOf, Bound
<1>4. PICK n \in Sizes : n = ctx[c].nthreads
  BY DEF TypeOK, CtxRec
<1>5. n \in Nat /\ n >= 1 /\ Tids(n) \subseteq AllTids /\ Cardinality(Tids(n)) = n
  BY TidsFacts
<1> DEFINE s == pool[p].queue
           r == s \o Entries(c, n)
<1>6. s \in Seq(Entry) /\ pool[p] \in PoolRec /\ pool[p].active_jobs \in Nat
      /\ Len(s) \in Nat /\ DOMAIN s = 1 .. Len(s)
  BY QueueFacts DEF TypeOK, PoolRec
<1>7. /\ r \in Seq(Entry) /\ Len(r) = Len(s) + n
      /\ DOMAIN r = 1 .. Len(s) + n
      /\ \A i \in 1 .. Len(s) : r[i] = s[i]
      /\ \A i \in Len(s) + 1 .. Len(s) + n : r[i].job = c /\ r[i].logical_tid = i - Len(s) - 1
  <2> HIDE DEF s
  <2>. QED BY <1>5, <1>6, Enqueued
<1>8. PICK x \in PoolRec :
        /\ x = Queued(pool[p], c, n) /\ x.queue = r /\ x.active_jobs = pool[p].active_jobs + n
        /\ x.live = pool[p].live /\ x.nthreads = pool[p].nthreads
        /\ x.shutdown = pool[p].shutdown /\ x.context_refs = pool[p].context_refs
  <2> HIDE DEF r
  <2>1. pool[p].active_jobs + n \in Nat
    BY <1>5, <1>6
  <2>2. Queued(pool[p], c, n) = [pool[p] EXCEPT !.queue = r, !.active_jobs = pool[p].active_jobs + n]
    BY DEF Queued, r
  <2>3. [pool[p] EXCEPT !.queue = r, !.active_jobs = pool[p].active_jobs + n] \in PoolRec
    BY <1>6, <1>7, <2>1 DEF PoolRec
  <2>. QED BY <1>6, <2>2, <2>3 DEF PoolRec
<1>9. /\ pool' \in [PoolIds -> PoolRec] /\ pool'[p] = x
      /\ \A q \in PoolIds : q # p => pool'[q] = pool[q]
  <2>1. pool' = [pool EXCEPT ![p] = x]
    BY <1>3, <1>4, <1>8 DEF Submit, Enqueue
  <2>. QED BY <2>1 DEF TypeOK
<1>10. /\ worker' \in [PoolIds -> [AllTids -> WorkerRec]] /\ WorkersCalm
       /\ \A q \in PoolIds, t \in AllTids :
            worker'[q][t] = worker[q][t]
            \/ (worker[q][t].at = "sleep" /\ worker'[q][t].at = "check")
  <2>1. worker' = [worker EXCEPT ![p] = WakeWorkers(@)]
    BY <1>3, <1>4 DEF Submit, Enqueue
  <2>. QED BY <2>1, Woken
<1>11. PICK j \in JobRec : /\ j = [live |-> TRUE, active_workers |-> n, pending_workers |-> n,
                                   completed |-> FALSE, ran |-> {}]
                           /\ j.live /\ j.active_workers = n /\ j.pending_workers = n
                           /\ ~j.completed /\ j.ran = {}
  <2>0. TRUE \in BOOLEAN /\ FALSE \in BOOLEAN
    BY Zenon
  <2>1. [live |-> TRUE, active_workers |-> n, pending_workers |-> n,
         completed |-> FALSE, ran |-> {}] \in JobRec
    BY <1>5, <2>0 DEF JobRec
  <2>. QED BY <2>1
<1>12. /\ job' \in [Contexts -> JobRec] /\ job'[c] = j
       /\ \A d \in Contexts : d # c => job'[d] = job[d]
  <2>1. job' = [job EXCEPT ![c] = j]
    BY <1>4, <1>11 DEF Submit
  <2>. QED BY <2>1 DEF TypeOK
<1>13. /\ pc' \in [Contexts -> PCs] /\ pc'[c] = "wait"
       /\ \A d \in Contexts : d # c => pc'[d] = pc[d]
  BY DEF Submit, TypeOK, PCs
<1>14. TypeOK'
  BY <1>1, <1>9, <1>10, <1>12, <1>13 DEF TypeOK
<1>15. \A d \in Contexts : /\ Bound(d)' <=> Bound(d)
                           /\ Teardown(d)' <=> Teardown(d)
                           /\ d # c => (Waiting(d)' <=> Waiting(d))
  BY <1>1, <1>13 DEF Bound, Teardown, Waiting
<1>16. BindsAlike
  BY <1>1, <1>13, <1>15, GlobalAssumption DEF BindsAlike, Teardown
<1>17. PoolsAlike
  BY <1>8, <1>9 DEF PoolsAlike
<1>18. /\ RegInv' /\ RefsInv'
       /\ \A d \in Contexts : Bound(d) =>
            /\ pool'[ctx'[d].thread_pool].live
            /\ pool'[ctx'[d].thread_pool].nthreads = ctx'[d].nthreads
  <2>1. \A d \in Contexts : Teardown(d) => pool'[ctx[d].thread_pool].active_jobs = 0
    <3> SUFFICES ASSUME NEW d \in Contexts, Teardown(d)
                 PROVE  pool'[ctx[d].thread_pool].active_jobs = 0
      OBVIOUS
    <3>1. ctx[d].thread_pool \in PoolIds /\ pool[ctx[d].thread_pool].active_jobs = 0
      BY TeardownBound DEF RegInv
    <3>2. ctx[d].thread_pool # p
      BY <1>2, <1>3 DEF RegInv
    <3>. QED BY <1>9, <3>1, <3>2
  <2>. QED BY <1>16, <1>17, <2>1, BindKept DEF TypeOK
<1>19. NotDestroying /\ caller[c] = "nobody" /\ (c = GlobalCtx => initlib)
  BY <1>1, NoDestroy
<1>20. CtlInv'
  BY <1>1, <1>13, <1>19, GlobalAssumption DEF CtlInv, NotDestroying
<1>21. CtxInv'
  <2> SUFFICES ASSUME NEW d \in Contexts PROVE CtxOf(d)'
    BY DEF CtxInv
  <2>1. CtxOf(d)
    BY DEF CtxInv
  <2>2. CASE d = c
    BY <1>1, <1>2, <1>13, <1>15, <1>18, <2>1, <2>2 DEF CtxOf
  <2>3. CASE d # c
    BY <1>1, <1>13, <1>15, <1>18, <2>1, <2>3 DEF CtxOf
  <2>. QED BY <2>2, <2>3
<1>22. WorkInv'
  <2>1. \A q \in PoolIds : ~pool[q].live => pool'[q] = pool[q]
    BY <1>3, <1>9
  <2>2. \A q \in PoolIds, t \in AllTids :
           \/ worker'[q][t] = worker[q][t]
           \/ /\ worker[q][t].at # "none" /\ worker'[q][t].at # "none"
              /\ worker'[q][t].at \in Holding => worker'[q][t].job \in Contexts
    BY <1>10 DEF Holding
  <2>. QED BY <1>17, <2>1, <2>2, WorkKept
<1>23. ASSUME NEW q \in PoolIds
       PROVE  /\ Busy(q)' = Busy(q)
              /\ \A d : /\ HoldersOf(q, d)' = HoldersOf(q, d) /\ Runners(q, d)' = Runners(q, d)
                        /\ RunTids(q, d)' = RunTids(q, d)
                        /\ \A t \in Runners(q, d) : worker'[q][t].tid = worker[q][t].tid
  BY <1>10, CalmUsers
<1>24. ActiveInv'
  <2>1. pool[p].active_jobs = Len(s) + Cardinality(Busy(p)) /\ Cardinality(Busy(p)) \in Nat
    BY QuietPool DEF ActiveInv
  <2>2. Len(pool'[p].queue) = Len(s) + n /\ pool'[p].active_jobs = pool[p].active_jobs + n
    BY <1>7, <1>8, <1>9
  <2>3. Busy(p)' = Busy(p)
    BY <1>23
  <2>4. pool'[p].active_jobs = Len(pool'[p].queue) + Cardinality(Busy(p)')
    BY SMTT(20), <1>5, <1>6, <2>1, <2>2, <2>3
  <2>. QED BY <1>9, <1>23, <2>4 DEF ActiveInv
<1>25. \A q \in PoolIds : QueuedTids(q, c) = {} /\ HoldersOf(q, c) = {}
  BY <1>2 DEF PlaceInv
<1>26. \A i \in DOMAIN s : s[i].job # c
  BY <1>2, UserPlace
<1>27. pool'[p].queue = r
  BY <1>8, <1>9
<1> HIDE DEF s, r
<1>28. QueuedTids(p, c)' = Tids(n)
  <2>1. ASSUME NEW k \in QueuedTids(p, c)' PROVE k \in Tids(n)
    <3>1. PICK i \in DOMAIN r : r[i].job = c /\ k = r[i].logical_tid
      BY <1>27, <2>1 DEF QueuedTids
    <3>2. i \in Len(s) + 1 .. Len(s) + n
      BY <1>5, <1>6, <1>7, <1>26, <3>1
    <3>3. k = i - Len(s) - 1
      BY <1>7, <3>1, <3>2
    <3>. QED BY <1>5, <1>6, <3>2, <3>3 DEF Tids
  <2>2. ASSUME NEW k \in Tids(n) PROVE k \in QueuedTids(p, c)'
    <3>1. /\ Len(s) + k + 1 \in Len(s) + 1 .. Len(s) + n /\ (Len(s) + k + 1) - Len(s) - 1 = k
          /\ Len(s) + k + 1 \in 1 .. Len(s) + n
      BY <1>5, <1>6 DEF Tids
    <3>2. Len(s) + k + 1 \in DOMAIN r /\ r[Len(s) + k + 1].job = c
          /\ r[Len(s) + k + 1].logical_tid = k
      BY <1>7, <3>1
    <3>. QED BY <1>27, <3>2 DEF QueuedTids
  <2>. QED BY <2>1, <2>2
<1>29. \A q \in PoolIds, d \in Contexts : d # c => QueuedTids(q, d)' = QueuedTids(q, d)
  <2> SUFFICES ASSUME NEW q \in PoolIds, NEW d \in Contexts, d # c
               PROVE  QueuedTids(q, d)' = QueuedTids(q, d)
    OBVIOUS
  <2>1. CASE q # p
    BY <1>9, <2>1 DEF QueuedTids
  <2>2. QueuedTids(p, d)' = QueuedTids(p, d)
    <3>1. ASSUME NEW k \in QueuedTids(p, d)' PROVE k \in QueuedTids(p, d)
      <4>1. PICK i \in DOMAIN r : r[i].job = d /\ k = r[i].logical_tid
        BY <1>27, <3>1 DEF QueuedTids
      <4>2. i \in 1 .. Len(s)
        BY <1>5, <1>6, <1>7, <4>1
      <4>3. i \in DOMAIN s /\ s[i] = r[i]
        BY <1>6, <1>7, <4>2
      <4>. QED BY <4>1, <4>3 DEF QueuedTids, s
    <3>2. ASSUME NEW k \in QueuedTids(p, d) PROVE k \in QueuedTids(p, d)'
      <4>1. PICK i \in DOMAIN s : s[i].job = d /\ k = s[i].logical_tid
        BY <3>2 DEF QueuedTids, s
      <4>2. i \in DOMAIN r /\ r[i] = s[i]
        BY <1>5, <1>6, <1>7, <4>1
      <4>. QED BY <1>27, <4>1, <4>2 DEF QueuedTids
    <3>. QED BY <3>1, <3>2
  <2>. QED BY <2>1, <2>2
<1>30. Waiting(c)'
  BY <1>13 DEF Waiting
<1>31. PlaceInv'
  <2>1. \A d \in Contexts : IF Waiting(d)' THEN job'[d].live ELSE job'[d] = NoJob
    <3>1. job'[c].live
      BY <1>11, <1>12
    <3>. QED BY <1>12, <1>15, <1>30, <3>1 DEF PlaceInv
  <2>2. \A q \in PoolIds, d \in Contexts : QueuedTids(q, d)' # {} \/ HoldersOf(q, d)' # {} =>
          Waiting(d)' /\ ctx'[d].thread_pool = q
    <3> SUFFICES ASSUME NEW q \in PoolIds, NEW d \in Contexts,
                        QueuedTids(q, d)' # {} \/ HoldersOf(q, d)' # {}
                 PROVE  Waiting(d)' /\ ctx'[d].thread_pool = q
      OBVIOUS
    <3>1. CASE d # c
      BY <1>1, <1>15, <1>23, <1>29, <3>1 DEF PlaceInv
    <3>2. CASE d = c
      <4>1. HoldersOf(q, c)' = {}
        BY <1>23, <1>25
      <4>2. q # p => QueuedTids(q, c)' = QueuedTids(q, c)
        BY <1>9 DEF QueuedTids
      <4>3. q = p
        BY <1>25, <3>2, <4>1, <4>2
      <4>. QED BY <1>1, <1>3, <1>30, <3>2, <4>3
    <3>. QED BY <3>1, <3>2
  <2>. QED BY <2>1, <2>2 DEF PlaceInv
<1>32. \A d \in Contexts : (d # c => Shares(p, d)) => \A i, m \in DOMAIN pool'[p].queue :
         pool'[p].queue[i].job = d /\ pool'[p].queue[m].job = d
           /\ pool'[p].queue[i].logical_tid = pool'[p].queue[m].logical_tid => i = m
  <2> SUFFICES ASSUME NEW d \in Contexts, d # c => Shares(p, d),
                      NEW i \in DOMAIN r, NEW m \in DOMAIN r,
                      r[i].job = d, r[m].job = d, r[i].logical_tid = r[m].logical_tid
               PROVE  i = m
    BY <1>27
  <2>1. CASE d # c
    <3>1. i \in DOMAIN s /\ m \in DOMAIN s /\ s[i] = r[i] /\ s[m] = r[m]
      BY <1>5, <1>6, <1>7, <2>1
    <3>2. \A a, b \in DOMAIN s : s[a].job = d /\ s[b].job = d
            /\ s[a].logical_tid = s[b].logical_tid => a = b
      BY <2>1 DEF Shares, Distinct, s
    <3>. QED BY <3>1, <3>2
  <2>2. CASE d = c
    <3>1. i \in Len(s) + 1 .. Len(s) + n /\ m \in Len(s) + 1 .. Len(s) + n
      BY SMTT(20), <1>5, <1>6, <1>7, <1>26, <2>2
    <3>2. i - Len(s) - 1 = m - Len(s) - 1
      BY <1>7, <3>1
    <3>. QED BY <1>5, <1>6, <3>1, <3>2
  <2>. QED BY <2>1, <2>2
<1>33. JobInv'
  <2> SUFFICES ASSUME NEW q \in PoolIds, NEW d \in Contexts, Waiting(d)', ctx'[d].thread_pool = q
               PROVE  (Shares(q, d))' /\ (Counts(q, d))'
    BY DEF JobInv
  <2>1. CASE d # c
    <3>1. Shares(q, d) /\ Counts(q, d) /\ ctx'[d].nthreads = ctx[d].nthreads /\ job'[d] = job[d]
      BY <1>1, <1>12, <1>15, <2>1 DEF JobInv
    <3>2. \A i, m \in DOMAIN pool'[q].queue :
             pool'[q].queue[i].job = d /\ pool'[q].queue[m].job = d
               /\ pool'[q].queue[i].logical_tid = pool'[q].queue[m].logical_tid => i = m
      <4>1. CASE q = p
        BY <1>32, <3>1, <4>1
      <4>2. CASE q # p
        BY <1>9, <3>1, <4>2 DEF Shares, Distinct
      <4>. QED BY <4>1, <4>2
    <3>. QED BY <1>23, <1>29, <2>1, <3>1, <3>2, SharesKept
  <2>2. CASE d = c
    <3>1. q = p /\ ctx'[c].nthreads = n
      BY <1>1, <1>3, <1>4, <2>2
    <3>2. HoldersOf(p, c)' = {} /\ Runners(p, c)' = {} /\ RunTids(p, c)' = {}
      <4>1. Runners(p, c) \subseteq HoldersOf(p, c)
        BY DEF Runners, HoldersOf, Holding
      <4>2. HoldersOf(p, c)' = {} /\ Runners(p, c)' = {}
        BY <1>23, <1>25, <4>1
      <4>. QED BY <4>2 DEF RunTids
    <3>3. (Distinct(p, c))'
      BY <1>32, <3>2 DEF Distinct
    <3>4. job'[c].ran = {} /\ job'[c].pending_workers = n /\ job'[c].active_workers = n
          /\ ~job'[c].completed
      BY <1>11, <1>12
    <3>5. (Shares(p, c))'
      BY <1>28, <3>1, <3>2, <3>3, <3>4 DEF Shares
    <3>6. (Counts(p, c))'
      <4>1. Cardinality({}) = 0
        BY FS_EmptySet
      <4>. QED BY <1>5, <1>28, <3>2, <3>4, <4>1 DEF Counts
    <3>. QED BY <2>2, <3>1, <3>5, <3>6
  <2>. QED BY <2>1, <2>2
<1>. QED BY <1>14, <1>18, <1>20, <1>21, <1>22, <1>24, <1>31, <1>33
-----------------------------------------------------------------------------
(* The steps of release_thread_backend. *)

(* The context c is left without a pool: by a call on its own behalf, or   *)
(* by blosc2_destroy, which then goes on to the pools that are left.       *)
Left(c) ==
  /\ ctx' \in [Contexts -> CtxRec] /\ pc' \in [Contexts -> PCs]
  /\ caller' \in [Contexts -> Callers] /\ initlib' \in BOOLEAN /\ epoch' \in Nat
  /\ \A d \in Contexts \ {c} : ctx'[d] = ctx[d] /\ pc'[d] = pc[d]
  /\ ctx'[c].backend = "serial" /\ ctx'[c].pool_epoch = ctx[c].pool_epoch
  /\ \/ epoch' = epoch /\ initlib' = initlib /\ pc'[c] \in {"none", "idle", "attach"}
     \/ /\ c = GlobalCtx /\ epoch' = epoch + 1 /\ initlib' = FALSE /\ pc'[c] = "sweep"
        /\ \A d \in Contexts \ {c} : pc[d] \in {"idle", "none"}

(* What release_thread_backend resets. *)
LEMMA DetachedFacts ==
  ASSUME NEW x \in CtxRec
  PROVE  /\ Detached(x) \in CtxRec /\ Detached(x).backend = "serial"
         /\ Detached(x).pool_epoch = x.pool_epoch
BY DEF Detached, CtxRec

(* Every caller of release_thread_backend leaves it so. *)
LEMMA ReleasedLeaves ==
  ASSUME IInv, NEW c \in Contexts, pc[c] \in {"release", "join"},
         Released(c, Detached(ctx[c]))
  PROVE  Left(c) /\ CtlInv' /\ ~Sweeping
<1> USE DEF IInv
<1>1. PICK x \in CtxRec : /\ x = Detached(ctx[c]) /\ x.backend = "serial"
                          /\ x.pool_epoch = ctx[c].pool_epoch
  BY DetachedFacts DEF TypeOK
<1>2. caller[c] \in {"check_nthreads", "free_ctx", "destroy"}
  BY DEF TypeOK, Callers, CtlInv
<1>3. ~Sweeping
  BY <1>2, GlobalAssumption DEF CtlInv, NotDestroying, Sweeping
<1>4. ctx \in [Contexts -> CtxRec] /\ pc \in [Contexts -> PCs] /\ caller \in [Contexts -> Callers]
      /\ initlib \in BOOLEAN /\ epoch \in Nat
  BY DEF TypeOK
<1>5. CASE caller[c] = "check_nthreads"
  <2>1. PICK y \in CtxRec : /\ y = [x EXCEPT !.nthreads = x.new_nthreads] /\ y.backend = "serial"
                            /\ y.pool_epoch = ctx[c].pool_epoch
    <3>1. [x EXCEPT !.nthreads = x.new_nthreads] \in CtxRec
      BY DEF CtxRec
    <3>. QED BY <1>1, <3>1 DEF CtxRec
  <2>2. /\ ctx' = [ctx EXCEPT ![c] = y]
        /\ \E q \in AfterCheck(y) : pc' = [pc EXCEPT ![c] = q]
        /\ caller' = [caller EXCEPT ![c] = "nobody"]
        /\ initlib' = initlib /\ epoch' = epoch
    BY <1>1, <1>5, <2>1 DEF Released
  <2>3. PICK q \in {"idle", "attach"} : pc' = [pc EXCEPT ![c] = q]
    BY <2>1, <2>2 DEF AfterCheck
  <2>4. ctx' \in [Contexts -> CtxRec] /\ ctx'[c] = y
        /\ \A d \in Contexts \ {c} : ctx'[d] = ctx[d]
    BY <1>4, <2>2
  <2>5. pc' \in [Contexts -> PCs] /\ pc'[c] = q /\ \A d \in Contexts \ {c} : pc'[d] = pc[d]
    BY <1>4, <2>3 DEF PCs
  <2>6. caller' \in [Contexts -> Callers] /\ caller'[c] = "nobody"
        /\ \A d \in Contexts \ {c} : caller'[d] = caller[d]
    BY <1>4, <2>2 DEF Callers
  <2>7. Left(c)
    BY <1>4, <2>1, <2>2, <2>4, <2>5, <2>6 DEF Left
  <2>8. CtlInv'
    BY <1>3, <1>5, <2>2, <2>5, <2>6, GlobalAssumption DEF CtlInv, NotDestroying, Sweeping
  <2>. QED BY <1>3, <2>7, <2>8
<1>6. CASE caller[c] = "free_ctx"
  <2>2. /\ ctx' = [ctx EXCEPT ![c] = x]
        /\ pc' = [pc EXCEPT ![c] = "none"]
        /\ caller' = [caller EXCEPT ![c] = "nobody"]
        /\ initlib' = initlib /\ epoch' = epoch
    BY <1>1, <1>6 DEF Released
  <2>4. ctx' \in [Contexts -> CtxRec] /\ ctx'[c] = x
        /\ \A d \in Contexts \ {c} : ctx'[d] = ctx[d]
    BY <1>4, <2>2
  <2>5. pc' \in [Contexts -> PCs] /\ pc'[c] = "none" /\ \A d \in Contexts \ {c} : pc'[d] = pc[d]
    BY <1>4, <2>2 DEF PCs
  <2>6. caller' \in [Contexts -> Callers] /\ caller'[c] = "nobody"
        /\ \A d \in Contexts \ {c} : caller'[d] = caller[d]
    BY <1>4, <2>2 DEF Callers
  <2>7. Left(c)
    BY <1>1, <1>4, <2>2, <2>4, <2>5, <2>6 DEF Left
  <2>8. CtlInv'
    BY <1>3, <1>6, <2>2, <2>5, <2>6, GlobalAssumption DEF CtlInv, NotDestroying, Sweeping
  <2>. QED BY <1>3, <2>7, <2>8
<1>7. CASE caller[c] = "destroy"
  <2>2. /\ ctx' = [ctx EXCEPT ![c] = x]
        /\ pc' = [pc EXCEPT ![c] = "sweep"]
        /\ caller' = caller
        /\ initlib' = FALSE /\ epoch' = epoch + 1
    BY <1>1, <1>7 DEF Released
  <2>3. c = GlobalCtx /\ \A d \in Contexts \ {c} : pc[d] \in {"idle", "none"}
    BY <1>7 DEF CtlInv, NotDestroying
  <2>4. ctx' \in [Contexts -> CtxRec] /\ ctx'[c] = x
        /\ \A d \in Contexts \ {c} : ctx'[d] = ctx[d]
    BY <1>4, <2>2
  <2>5. pc' \in [Contexts -> PCs] /\ pc'[c] = "sweep" /\ \A d \in Contexts \ {c} : pc'[d] = pc[d]
    BY <1>4, <2>2 DEF PCs
  <2>6. epoch + 1 \in Nat /\ FALSE \in BOOLEAN
    BY <1>4
  <2>7. Left(c)
    BY <1>1, <1>4, <2>2, <2>3, <2>4, <2>5, <2>6 DEF Left
  <2>8. CtlInv'
    BY <1>7, <2>2, <2>3, <2>5, GlobalAssumption DEF CtlInv, NotDestroying
  <2>. QED BY <1>3, <2>7, <2>8
<1>. QED BY <1>2, <1>5, <1>6, <1>7

(* What that means for who has a pool. *)
LEMMA LeftFacts ==
  ASSUME IInv, NEW c \in Contexts, pc[c] \in {"release", "join"}, Left(c), ~Sweeping
  PROVE  /\ ~Bound(c)' /\ ~Teardown(c)' /\ ~Waiting(c) /\ ~Waiting(c)'
         /\ \A d \in Contexts : d # c => /\ Waiting(d)' <=> Waiting(d)
                                         /\ Teardown(d)' <=> Teardown(d)
                                         /\ Bound(d)' => Bound(d)
                                         /\ ~Sweeping' => (Bound(d)' <=> Bound(d))
         /\ Sweeping' => \A d \in Contexts : ~Bound(d)' /\ ~Teardown(d)'
         /\ pc'[GlobalCtx] # "sweep_join"
         /\ ~Sweeping' => epoch' = epoch
<1> USE DEF IInv
<1>1. ~Bound(c)' /\ ~Teardown(c)' /\ ~Waiting(c) /\ ~Waiting(c)'
  BY DEF Left, Bound, Teardown, Waiting
<1>2. \A d \in Contexts : d # c => (Waiting(d)' <=> Waiting(d)) /\ (Teardown(d)' <=> Teardown(d))
  BY DEF Left, Waiting, Teardown
<1>3. pc'[GlobalCtx] # "sweep_join"
  BY GlobalAssumption DEF Left, Sweeping
<1>4. epoch \in Nat /\ \A d \in Contexts : ctx[d].pool_epoch \in Nat /\ ctx[d].pool_epoch <= epoch
  BY DEF TypeOK, CtxInv, CtxOf, CtxRec
<1>5. CASE epoch' = epoch /\ initlib' = initlib /\ pc'[c] \in {"none", "idle", "attach"}
  <2>1. \A d \in Contexts : d # c => (Bound(d)' <=> Bound(d))
    BY <1>5 DEF Left, Bound
  <2>2. ~Sweeping'
    BY <1>5, GlobalAssumption DEF Left, Sweeping
  <2>. QED BY <1>1, <1>2, <1>3, <1>5, <2>1, <2>2
<1>6. CASE /\ c = GlobalCtx /\ epoch' = epoch + 1 /\ initlib' = FALSE /\ pc'[c] = "sweep"
           /\ \A d \in Contexts \ {c} : pc[d] \in {"idle", "none"}
  <2>1. \A d \in Contexts : d # c => ~Bound(d)' /\ ~Teardown(d)'
    BY <1>4, <1>6 DEF Left, Bound, Teardown
  <2>2. Sweeping'
    BY <1>6 DEF Sweeping
  <2>. QED BY <1>1, <1>2, <1>3, <2>1, <2>2
<1>. QED BY <1>5, <1>6 DEF Left

(* What contexts know stays true. *)
LEMMA LeftCtx ==
  ASSUME IInv, NEW c \in Contexts, pc[c] \in {"release", "join"}, Left(c), ~Sweeping,
         \A d \in Contexts : d # c /\ Bound(d) =>
           /\ pool'[ctx[d].thread_pool].live = pool[ctx[d].thread_pool].live
           /\ pool'[ctx[d].thread_pool].nthreads = pool[ctx[d].thread_pool].nthreads
  PROVE  CtxInv'
<1> USE DEF IInv
<1> SUFFICES ASSUME NEW d \in Contexts PROVE CtxOf(d)'
  BY DEF CtxInv
<1>1. CtxOf(d) /\ epoch' \in Nat /\ epoch <= epoch' /\ epoch \in Nat /\ ctx[d].pool_epoch \in Nat
  BY DEF CtxInv, Left, TypeOK, CtxRec
<1>2. ctx'[d].pool_epoch = ctx[d].pool_epoch /\ ctx'[d].pool_epoch <= epoch'
  BY <1>1 DEF Left, CtxOf
<1>3. CASE d = c
  <2>1. ctx'[c].backend = "serial" /\ pc'[c] \in {"none", "idle", "attach", "sweep"}
    BY DEF Left
  <2>. QED BY <1>2, <1>3, <2>1 DEF CtxOf, Bound
<1>4. CASE d # c
  <2>1. ctx'[d] = ctx[d] /\ pc'[d] = pc[d]
    BY <1>4 DEF Left
  <2>2. Bound(d)' => Bound(d) /\ initlib'
    BY <1>1, <1>4, LeftFacts DEF Left, CtxOf, Sweeping
  <2>3. pc[d] \in {"submit", "wait", "wait_sleep", "shutdown", "join"} => Bound(d)'
    BY <1>1, <1>4, <2>1 DEF Left, CtxOf, Bound
  <2>. QED BY <1>1, <1>2, <1>4, <2>1, <2>2, <2>3 DEF CtxOf
<1>. QED BY <1>3, <1>4

(* The registry as a set. *)
LEMMA RegFacts ==
  ASSUME TypeOK
  PROVE  /\ Reg \subseteq PoolIds /\ Len(shared_pools) \in Nat
         /\ DOMAIN shared_pools = 1 .. Len(shared_pools)
         /\ \A i \in DOMAIN shared_pools : shared_pools[i] \in PoolIds /\ shared_pools[i] \in Reg
         /\ \A p \in Reg : \E i \in DOMAIN shared_pools : shared_pools[i] = p
BY LenProperties DEF TypeOK, Reg

(* A pool that a context has is in the registry, and nobody takes it down, *)
(* unless this context does.                                               *)
LEMMA BoundInReg ==
  ASSUME IInv, NEW c \in Contexts, Bound(c), ~Teardown(c)
  PROVE  /\ ctx[c].thread_pool \in Reg /\ ctx[c].thread_pool \in PoolIds
         /\ \A d \in Contexts : Teardown(d) => ctx[d].thread_pool # ctx[c].thread_pool
<1> USE DEF IInv
<1>1. ctx[c].thread_pool \in PoolIds /\ pool[ctx[c].thread_pool].live
  BY DEF CtxInv, CtxOf, Bound
<1>2. \A d \in Contexts : Teardown(d) => ctx[d].thread_pool # ctx[c].thread_pool
  BY DEF RegInv
<1>. QED BY <1>1, <1>2 DEF RegInv

(* A context that attaches no more, in a pool that stays. *)
LEMMA ReleaseKeeps ==
  ASSUME IInv, NEW c \in Contexts, pc[c] = "release", Left(c), CtlInv', ~Sweeping,
         pool' \in [PoolIds -> PoolRec], UNCHANGED <<shared_pools, worker, job>>,
         \A q \in PoolIds :
           /\ pool'[q].live = pool[q].live /\ pool'[q].nthreads = pool[q].nthreads
           /\ pool'[q].shutdown = pool[q].shutdown /\ pool'[q].queue = pool[q].queue
           /\ pool'[q].active_jobs = pool[q].active_jobs
           /\ pool'[q].context_refs = IF c \in Attached(q) THEN pool[q].context_refs - 1
                                      ELSE pool[q].context_refs,
         \A q \in PoolIds : ~pool[q].live => pool'[q] = pool[q]
  PROVE  IInv'
<1> USE DEF IInv
<1>1. /\ ~Bound(c)' /\ ~Teardown(c)' /\ ~Waiting(c) /\ ~Waiting(c)' /\ ~Teardown(c)
      /\ \A d \in Contexts : d # c => /\ Waiting(d)' <=> Waiting(d)
                                      /\ Teardown(d)' <=> Teardown(d)
                                      /\ Bound(d)' => Bound(d)
                                      /\ ~Sweeping' => (Bound(d)' <=> Bound(d))
                                      /\ ctx'[d] = ctx[d] /\ pc'[d] = pc[d]
      /\ Sweeping' => \A d \in Contexts : ~Bound(d)' /\ ~Teardown(d)'
      /\ pc'[GlobalCtx] # "sweep_join"
      /\ ~Sweeping' => epoch' = epoch
  BY ZenonT(30), LeftFacts DEF Left, Teardown
<1>2. TypeOK'
  BY DEF TypeOK, Left
<1>3. CtxInv'
  <2>1. \A d \in Contexts : Bound(d) => ctx[d].thread_pool \in PoolIds
    BY DEF CtxInv, CtxOf, Bound
  <2>. QED BY <2>1, LeftCtx
<1>4. WorkersCalm /\ QueuesAlike
  BY DEF WorkersCalm, QueuesAlike
<1>5. PlaceInv' /\ JobInv' /\ ActiveInv'
  <2>1. \A d \in Contexts : Waiting(d)' <=> Waiting(d)
    BY <1>1
  <2>2. \A d \in Contexts : Waiting(d) => /\ ctx'[d].thread_pool = ctx[d].thread_pool
                                          /\ ctx'[d].nthreads = ctx[d].nthreads
    BY <1>1
  <2>. QED BY <1>4, <2>1, <2>2, JobsKept, ActiveKept
<1>6. WorkInv'
  BY DEF WorkInv
<1>7. RegInv'
  <2>1. Reg' = Reg /\ Reg \subseteq PoolIds /\ \A i \in DOMAIN shared_pools : shared_pools[i] \in PoolIds
    BY RegFacts DEF Reg
  <2>2. \A p \in Reg' : pool'[p].live
    BY <2>1 DEF RegInv
  <2>3. \A i, j \in DOMAIN shared_pools' :
          pool'[shared_pools'[i]].nthreads = pool'[shared_pools'[j]].nthreads => i = j
    BY <2>1 DEF RegInv
  <2>4. ASSUME NEW p \in PoolIds, pool'[p].live
        PROVE  p \in Reg' \/ \E d \in Contexts : Teardown(d)' /\ ctx'[d].thread_pool = p
    <3>1. CASE p \in Reg
      BY <2>1, <3>1
    <3>2. CASE p \notin Reg
      <4>1. PICK d \in Contexts : Teardown(d) /\ ctx[d].thread_pool = p
        BY <2>4, <3>2 DEF RegInv
      <4>2. d # c
        BY <1>1, <4>1
      <4>. QED BY <1>1, <4>1, <4>2
    <3>. QED BY <3>1, <3>2
  <2>5. ASSUME NEW d \in Contexts, Teardown(d)'
        PROVE  /\ ctx'[d].thread_pool \notin Reg'
               /\ \A e \in Contexts : Bound(e)' /\ ctx'[e].thread_pool = ctx'[d].thread_pool => e = d
               /\ pool'[ctx'[d].thread_pool].active_jobs = 0
    <3>1. d # c /\ Teardown(d) /\ ctx'[d] = ctx[d]
      BY <1>1, <2>5
    <3>2. ctx[d].thread_pool \in PoolIds
      BY <3>1, TeardownBound
    <3>3. \A e \in Contexts : Bound(e)' => Bound(e) /\ ctx'[e] = ctx[e]
      BY <1>1
    <3>. QED BY <2>1, <3>1, <3>2, <3>3 DEF RegInv
  <2>6. ASSUME NEW p \in PoolIds, pool'[p].shutdown
        PROVE  \/ \E d \in Contexts : pc'[d] = "join" /\ ctx'[d].thread_pool = p
               \/ pc'[GlobalCtx] = "sweep_join" /\ p = shared_pools'[1]
    <3>1. PICK d \in Contexts : pc[d] = "join" /\ ctx[d].thread_pool = p
      BY <2>6 DEF RegInv, Sweeping
    <3>2. d # c
      BY <3>1
    <3>. QED BY <1>1, <3>1, <3>2
  <2>. QED BY <1>1, <2>2, <2>3, <2>4, <2>5, <2>6 DEF RegInv
<1>8. RefsInv'
  <2> SUFFICES ASSUME ~Sweeping', NEW p \in PoolIds, pool'[p].live
               PROVE  pool'[p].context_refs = Cardinality(Attached(p)')
    BY DEF RefsInv
  <2>1. Attached(p) \subseteq Contexts
    BY DEF Attached
  <2>2. pool[p].context_refs = Cardinality(Attached(p))
    BY DEF RefsInv
  <2>3. Attached(p)' = Attached(p) \ {c}
    <3>1. c \notin Attached(p)'
      BY <1>1 DEF Attached, Bound
    <3>2. \A d \in Contexts : d # c => (d \in Attached(p)' <=> d \in Attached(p))
      BY <1>1 DEF Attached
    <3>3. Attached(p)' \subseteq Contexts
      BY DEF Attached
    <3>. QED BY <2>1, <3>1, <3>2, <3>3
  <2>4. CASE c \in Attached(p)
    BY <2>1, <2>2, <2>3, <2>4, ContextsCounted
  <2>5. CASE c \notin Attached(p)
    <3>1. Attached(p)' = Attached(p)
      BY <2>3, <2>5
    <3>. QED BY <2>2, <2>5, <3>1
  <2>. QED BY <2>4, <2>5
<1>. QED BY <1>2, <1>3, <1>5, <1>6, <1>7, <1>8

(* Without a pool, or with one that blosc2_destroy freed, nothing is       *)
(* released.                                                               *)
LEMMA ReleaseNothing ==
  ASSUME IInv, NEW c \in Contexts, pc[c] = "release", ctx[c].backend = "serial" \/ Stale(ctx[c]),
         Released(c, Detached(ctx[c])), UNCHANGED <<shared_pools, pool, worker, job>>
  PROVE  IInv'
<1>1. Left(c) /\ CtlInv' /\ ~Sweeping
  BY ReleasedLeaves
<1>2. \A q \in PoolIds : c \notin Attached(q)
  BY DEF Attached, Stale
<1>3. pool' \in [PoolIds -> PoolRec]
  BY DEF IInv, TypeOK
<1>. QED BY <1>1, <1>2, <1>3, ReleaseKeeps

(* The pool p loses the reference of c. *)
Dropped(c, p) ==
  /\ pool' \in [PoolIds -> PoolRec]
  /\ \A q \in PoolIds :
       /\ pool'[q].live = pool[q].live /\ pool'[q].nthreads = pool[q].nthreads
       /\ pool'[q].shutdown = pool[q].shutdown /\ pool'[q].queue = pool[q].queue
       /\ pool'[q].active_jobs = pool[q].active_jobs
       /\ pool'[q].context_refs = IF q = p THEN pool[q].context_refs - 1
                                  ELSE pool[q].context_refs
       /\ c \in Attached(q) <=> q = p
       /\ q # p => pool'[q] = pool[q]
  /\ pool[p].live /\ pool[p].context_refs = Cardinality(Attached(p))

(* A reference to a pool that is counted can be dropped. *)
LEMMA ReferenceDropped ==
  ASSUME IInv, NEW c \in Contexts, NEW p \in PoolIds, pc[c] = "release", Bound(c), ~Sweeping,
         ctx[c].thread_pool = p, pool' = [pool EXCEPT ![p].context_refs = @ - 1]
  PROVE  Dropped(c, p)
<1> USE DEF IInv
<1>1. pool[p].live /\ \A q \in PoolIds : c \in Attached(q) <=> q = p
  BY DEF Bound, CtxInv, CtxOf, Attached
<1>2. pool[p].context_refs = Cardinality(Attached(p))
  BY <1>1 DEF RefsInv
<1>3. Attached(p) \subseteq Contexts
  BY DEF Attached
<1>4. Cardinality(Attached(p)) \in Nat /\ Cardinality(Attached(p)) >= 1
  BY <1>1, <1>3, ContextsCounted
<1>5. pool[p].context_refs - 1 \in Nat
  BY <1>2, <1>4
<1>6. PICK x \in PoolRec :
        /\ x = [pool[p] EXCEPT !.context_refs = @ - 1]
        /\ x.context_refs = pool[p].context_refs - 1 /\ x.queue = pool[p].queue
        /\ x.live = pool[p].live /\ x.nthreads = pool[p].nthreads
        /\ x.shutdown = pool[p].shutdown /\ x.active_jobs = pool[p].active_jobs
  <2>1. pool[p] \in PoolRec
    BY DEF TypeOK
  <2>2. [pool[p] EXCEPT !.context_refs = @ - 1] \in PoolRec
    BY <1>5, <2>1 DEF PoolRec
  <2>. QED BY <2>1, <2>2 DEF PoolRec
<1>7. /\ pool' \in [PoolIds -> PoolRec] /\ pool'[p] = x
      /\ \A q \in PoolIds : q # p => pool'[q] = pool[q]
  <2>1. pool' = [pool EXCEPT ![p] = x]
    BY <1>6
  <2>. QED BY SMTT(20), <2>1 DEF TypeOK
<1>. QED BY <1>1, <1>2, <1>6, <1>7 DEF Dropped

(* The last user of an idle pool unlinks it. *)
LEMMA ReleaseLast ==
  ASSUME IInv, NEW c \in Contexts, NEW p \in PoolIds, pc[c] = "release", Bound(c), ~Sweeping,
         ctx[c].thread_pool = p, LastUser(p),
         pool' = [pool EXCEPT ![p].context_refs = @ - 1],
         shared_pools' = RemoveFirst(shared_pools, p), pc' = [pc EXCEPT ![c] = "shutdown"],
         UNCHANGED <<ctx, caller, initlib, epoch, worker, job>>
  PROVE  IInv'
<1> USE DEF IInv
<1>1. /\ pool' \in [PoolIds -> PoolRec]
      /\ \A q \in PoolIds :
           /\ pool'[q].live = pool[q].live /\ pool'[q].nthreads = pool[q].nthreads
           /\ pool'[q].shutdown = pool[q].shutdown /\ pool'[q].queue = pool[q].queue
           /\ pool'[q].active_jobs = pool[q].active_jobs
           /\ pool'[q].context_refs = IF q = p THEN pool[q].context_refs - 1
                                      ELSE pool[q].context_refs
           /\ c \in Attached(q) <=> q = p
           /\ q # p => pool'[q] = pool[q]
      /\ pool[p].live /\ pool[p].context_refs = Cardinality(Attached(p))
  <2>1. Dropped(c, p)
    BY ReferenceDropped
  <2>. QED BY <2>1 DEF Dropped
<1>2. pool[p].context_refs = 1 /\ pool[p].active_jobs = 0
  BY DEF LastUser
<1>3. Attached(p) = {c}
  <2>1. Attached(p) \subseteq Contexts
    BY DEF Attached
  <2>2. c \in Attached(p) /\ Cardinality(Attached(p)) = 1
    BY <1>1, <1>2
  <2>. QED BY <2>1, <2>2, ContextsCounted
<1>4. /\ pc' \in [Contexts -> PCs] /\ pc'[c] = "shutdown"
      /\ \A d \in Contexts : d # c => pc'[d] = pc[d]
  BY DEF TypeOK, PCs
<1>5. /\ \A i \in DOMAIN shared_pools : shared_pools[i] \in PoolIds
      /\ Reg \subseteq PoolIds /\ shared_pools \in Seq(PoolIds)
  BY RegFacts DEF TypeOK
<1>6. p \in Reg /\ \A d \in Contexts : Teardown(d) => ctx[d].thread_pool # p
  <2>1. ~Teardown(c)
    BY DEF Teardown
  <2>. QED BY <2>1, BoundInReg
<1>7. PICK k \in DOMAIN shared_pools : shared_pools[k] = p
  BY <1>6, RegFacts
<1>8. \A i \in DOMAIN shared_pools : shared_pools[i] = shared_pools[k] => i = k
  BY DEF RegInv
<1> DEFINE r == shared_pools'
           at(i) == IF i < k THEN i ELSE i + 1
<1>9. /\ r \in Seq(PoolIds)
      /\ \A i \in DOMAIN r : at(i) \in DOMAIN shared_pools \ {k} /\ r[i] = shared_pools[at(i)]
      /\ \A j \in DOMAIN shared_pools \ {k} : \E i \in DOMAIN r : r[i] = shared_pools[j]
  BY <1>5, <1>7, <1>8, Unlinked
<1>10. DOMAIN r \subseteq Int /\ k \in Int
  <2>1. DOMAIN r = 1 .. Len(r) /\ Len(r) \in Nat
    BY <1>9, LenProperties
  <2>. QED BY <2>1, RegFacts
<1>11. Reg' = Reg \ {p}
  <2>1. ASSUME NEW q \in Reg' PROVE q \in Reg /\ q # p
    <3>1. PICK i \in DOMAIN r : r[i] = q
      BY <2>1 DEF Reg
    <3>2. at(i) \in DOMAIN shared_pools /\ at(i) # k /\ shared_pools[at(i)] = q
      BY <1>9, <3>1
    <3>. QED BY <1>7, <1>8, <3>2 DEF Reg
  <2>2. ASSUME NEW q \in Reg, q # p PROVE q \in Reg'
    <3>1. PICK j \in DOMAIN shared_pools : shared_pools[j] = q
      BY RegFacts
    <3>2. j # k
      BY <1>7, <2>2, <3>1
    <3>3. PICK i \in DOMAIN r : r[i] = shared_pools[j]
      BY <1>9, <3>1, <3>2
    <3>. QED BY <3>1, <3>3 DEF Reg
  <2>. QED BY <2>1, <2>2
<1>12. TypeOK'
  BY <1>1, <1>4, <1>9 DEF TypeOK
<1>13. \A d \in Contexts : /\ Bound(d)' <=> Bound(d)
                           /\ d # c => (Teardown(d)' <=> Teardown(d))
                           /\ Waiting(d)' <=> Waiting(d)
  BY <1>4 DEF Bound, Teardown, Waiting
<1>14. CtlInv'
  BY <1>4, GlobalAssumption DEF CtlInv, NotDestroying
<1>15. CtxInv'
  <2> SUFFICES ASSUME NEW d \in Contexts PROVE CtxOf(d)'
    BY DEF CtxInv
  <2>1. CtxOf(d) /\ (Bound(d) => ctx[d].thread_pool \in PoolIds)
    BY DEF CtxInv, CtxOf, Bound
  <2>2. CASE d = c
    BY <1>1, <1>4, <1>13, <2>1, <2>2 DEF CtxOf
  <2>3. CASE d # c
    BY <1>1, <1>4, <1>13, <2>1, <2>3 DEF CtxOf
  <2>. QED BY <2>2, <2>3
<1>16. PlaceInv' /\ JobInv' /\ ActiveInv'
  <2>1. WorkersCalm /\ QueuesAlike
    BY <1>1 DEF WorkersCalm, QueuesAlike
  <2>. QED BY <1>1, <1>13, <2>1, JobsKept, ActiveKept
<1>17. WorkInv'
  BY <1>1 DEF WorkInv
<1>18. RegInv'
  <2>2. \A q \in Reg' : pool'[q].live
    BY <1>1, <1>5, <1>11 DEF RegInv
  <2>3. \A i, j \in DOMAIN shared_pools' :
          pool'[shared_pools'[i]].nthreads = pool'[shared_pools'[j]].nthreads => i = j
    <3> SUFFICES ASSUME NEW i \in DOMAIN r, NEW j \in DOMAIN r,
                        pool'[r[i]].nthreads = pool'[r[j]].nthreads
                 PROVE  i = j
      OBVIOUS
    <3>1. /\ at(i) \in DOMAIN shared_pools /\ r[i] = shared_pools[at(i)]
          /\ at(j) \in DOMAIN shared_pools /\ r[j] = shared_pools[at(j)]
      BY <1>9
    <3>2. at(i) = at(j)
      BY <1>1, <1>5, <3>1 DEF RegInv
    <3>3. i \in Int /\ j \in Int /\ k \in Int
      BY <1>10
    <3>. QED BY <3>2, <3>3
  <2>4. ASSUME NEW q \in PoolIds, pool'[q].live
        PROVE  q \in Reg' \/ \E d \in Contexts : Teardown(d)' /\ ctx'[d].thread_pool = q
    <3>1. CASE q = p
      BY <1>4, <3>1 DEF Teardown
    <3>2. CASE q # p /\ q \in Reg
      BY <1>11, <3>2
    <3>3. CASE q # p /\ q \notin Reg
      <4>1. PICK d \in Contexts : Teardown(d) /\ ctx[d].thread_pool = q
        BY <1>1, <2>4, <3>3 DEF RegInv
      <4>. QED BY <1>13, <3>3, <4>1
    <3>. QED BY <3>1, <3>2, <3>3
  <2>5. ASSUME NEW d \in Contexts, Teardown(d)'
        PROVE  /\ ctx'[d].thread_pool \notin Reg'
               /\ \A e \in Contexts : Bound(e)' /\ ctx'[e].thread_pool = ctx'[d].thread_pool => e = d
               /\ pool'[ctx'[d].thread_pool].active_jobs = 0
    <3>1. CASE d = c
      <4>1. \A e \in Contexts : Bound(e) /\ ctx[e].thread_pool = p => e \in Attached(p)
        BY <1>6 DEF Attached, Bound, Teardown
      <4>. QED BY <1>1, <1>2, <1>3, <1>11, <1>13, <3>1, <4>1
    <3>2. CASE d # c
      <4>1. Teardown(d)
        BY <1>13, <2>5, <3>2
      <4>2. ctx[d].thread_pool \in PoolIds
        BY <4>1, TeardownBound
      <4>. QED BY <1>1, <1>11, <1>13, <4>1, <4>2 DEF RegInv
    <3>. QED BY <3>1, <3>2
  <2>6. ASSUME NEW q \in PoolIds, pool'[q].shutdown
        PROVE  \/ \E d \in Contexts : pc'[d] = "join" /\ ctx'[d].thread_pool = q
               \/ pc'[GlobalCtx] = "sweep_join" /\ q = shared_pools'[1]
    <3>0. pool[q].shutdown
      BY <1>1, <2>6
    <3>1. PICK d \in Contexts : pc[d] = "join" /\ ctx[d].thread_pool = q
      BY <3>0 DEF RegInv, Sweeping
    <3>2. d # c
      BY <3>1
    <3>. QED BY <1>4, <3>1, <3>2
  <2>7. pc'[GlobalCtx] # "sweep_join"
    BY <1>4, GlobalAssumption DEF Sweeping
  <2>. QED BY <2>2, <2>3, <2>4, <2>5, <2>6, <2>7 DEF RegInv
<1>19. RefsInv'
  <2> SUFFICES ASSUME NEW q \in PoolIds, pool'[q].live
               PROVE  pool'[q].context_refs = Cardinality(Attached(q)')
    BY DEF RefsInv
  <2>1. pool[q].context_refs = Cardinality(Attached(q))
    BY <1>1 DEF RefsInv
  <2>2. CASE q = p
    <3>1. c \notin Attached(p)'
      BY <1>4 DEF Attached
    <3>2. \A d \in Contexts : d # c => d \notin Attached(p)'
      <4>1. \A d \in Contexts : d # c => d \notin Attached(p)
        BY <1>3
      <4>. QED BY <1>4, <4>1 DEF Attached
    <3>3. Attached(p)' \subseteq Contexts
      BY DEF Attached
    <3>4. Attached(p)' = {}
      BY <3>1, <3>2, <3>3
    <3>5. Cardinality({}) = 0
      BY FS_EmptySet
    <3>. QED BY <1>1, <1>2, <2>2, <3>4, <3>5
  <2>3. CASE q # p
    <3>1. \A d \in Contexts : d \in Attached(q)' <=> d \in Attached(q)
      BY <1>4, <2>3 DEF Attached
    <3>2. Attached(q)' \subseteq Contexts /\ Attached(q) \subseteq Contexts
      BY DEF Attached
    <3>3. Attached(q)' = Attached(q)
      BY <3>1, <3>2
    <3>. QED BY <1>1, <2>1, <2>3, <3>3
  <2>. QED BY <2>2, <2>3
<1>. QED BY <1>12, <1>14, <1>15, <1>16, <1>17, <1>18, <1>19

(* release_thread_backend, under pool_registry_mutex. *)
LEMMA ReleaseBackendStep ==
  ASSUME IInv, NEW c \in Contexts, ReleaseBackend(c)
  PROVE  IInv'
<1> USE DEF IInv
<1>1. pc[c] = "release" /\ UNCHANGED <<worker, job>>
  BY DEF ReleaseBackend
<1>2. CASE ctx[c].backend = "serial" \/ Stale(ctx[c])
  BY <1>1, <1>2, ReleaseNothing DEF ReleaseBackend
<1>3. CASE ~(ctx[c].backend = "serial" \/ Stale(ctx[c]))
  <2>1. Bound(c)
    BY <1>1, <1>3 DEF Bound, Stale, TypeOK, CtxRec
  <2>2. PICK p \in PoolIds : p = ctx[c].thread_pool
    BY <2>1 DEF CtxInv, CtxOf, Bound
  <2>3. ~Sweeping
    BY <1>1, GlobalAssumption DEF CtlInv, NotDestroying, Sweeping
  <2>4. pool' = [pool EXCEPT ![p].context_refs = @ - 1]
    BY <1>3, <2>2 DEF ReleaseBackend
  <2>5. CASE LastUser(p)
    <3>1. /\ shared_pools' = RemoveFirst(shared_pools, p)
          /\ pc' = [pc EXCEPT ![c] = "shutdown"]
          /\ UNCHANGED <<ctx, caller, initlib, epoch>>
      BY <1>3, <2>2, <2>5 DEF ReleaseBackend
    <3>. QED BY <1>1, <2>1, <2>2, <2>3, <2>4, <2>5, <3>1, ReleaseLast
  <2>6. CASE ~LastUser(p)
    <3>1. Released(c, Detached(ctx[c])) /\ shared_pools' = shared_pools
      BY <1>3, <2>2, <2>6 DEF ReleaseBackend
    <3>2. Left(c) /\ CtlInv'
      BY <1>1, <3>1, ReleasedLeaves
    <3>3. /\ pool' \in [PoolIds -> PoolRec]
          /\ \A q \in PoolIds :
               /\ pool'[q].live = pool[q].live /\ pool'[q].nthreads = pool[q].nthreads
               /\ pool'[q].shutdown = pool[q].shutdown /\ pool'[q].queue = pool[q].queue
               /\ pool'[q].active_jobs = pool[q].active_jobs
               /\ pool'[q].context_refs = IF q = p THEN pool[q].context_refs - 1
                                          ELSE pool[q].context_refs
               /\ c \in Attached(q) <=> q = p
               /\ q # p => pool'[q] = pool[q]
          /\ pool[p].live
      <4>1. Dropped(c, p)
        BY <1>1, <2>1, <2>2, <2>3, <2>4, ReferenceDropped
      <4>. QED BY <4>1 DEF Dropped
    <3>4. \A q \in PoolIds :
            /\ pool'[q].live = pool[q].live /\ pool'[q].nthreads = pool[q].nthreads
            /\ pool'[q].shutdown = pool[q].shutdown /\ pool'[q].queue = pool[q].queue
            /\ pool'[q].active_jobs = pool[q].active_jobs
            /\ pool'[q].context_refs = IF c \in Attached(q) THEN pool[q].context_refs - 1
                                       ELSE pool[q].context_refs
      BY <3>3
    <3>5. \A q \in PoolIds : ~pool[q].live => pool'[q] = pool[q]
      BY <3>3
    <3>. QED BY <1>1, <2>3, <3>1, <3>2, <3>3, <3>4, <3>5, ReleaseKeeps
  <2>. QED BY <2>5, <2>6
<1>. QED BY <1>2, <1>3
-----------------------------------------------------------------------------
(* The steps of destroy_shared_pool. *)

(* What raising shutdown writes. *)
LEMMA ShutdownRaised ==
  ASSUME TypeOK, NEW p \in PoolIds, pool' = [pool EXCEPT ![p].shutdown = TRUE]
  PROVE  /\ pool' \in [PoolIds -> PoolRec]
         /\ \A q \in PoolIds :
              /\ pool'[q].live = pool[q].live /\ pool'[q].nthreads = pool[q].nthreads
              /\ pool'[q].queue = pool[q].queue /\ pool'[q].active_jobs = pool[q].active_jobs
              /\ pool'[q].context_refs = pool[q].context_refs
              /\ q # p => pool'[q] = pool[q]
<1>1. PICK x \in PoolRec :
        /\ x = [pool[p] EXCEPT !.shutdown = TRUE]
        /\ x.context_refs = pool[p].context_refs /\ x.queue = pool[p].queue
        /\ x.live = pool[p].live /\ x.nthreads = pool[p].nthreads
        /\ x.active_jobs = pool[p].active_jobs
  <2>0. TRUE \in BOOLEAN
    BY Zenon
  <2>1. pool[p] \in PoolRec
    BY DEF TypeOK
  <2>2. [pool[p] EXCEPT !.shutdown = TRUE] \in PoolRec
    BY <2>0, <2>1 DEF PoolRec
  <2>. QED BY <2>1, <2>2 DEF PoolRec
<1>2. pool' = [pool EXCEPT ![p] = x]
  BY <1>1
<1>3. /\ pool' \in [PoolIds -> PoolRec] /\ pool'[p] = x
      /\ \A q \in PoolIds : q # p => pool'[q] = pool[q]
  BY <1>2 DEF TypeOK
<1>. QED BY <1>1, <1>3

(* The threads that are woken are still the threads of the pool. *)
LEMMA WorkWoken ==
  ASSUME WorkInv,
         \A q \in PoolIds : pool'[q].live = pool[q].live /\ pool'[q].nthreads = pool[q].nthreads,
         \A q \in PoolIds : ~pool[q].live => pool'[q] = pool[q],
         \A q \in PoolIds, t \in AllTids :
           worker'[q][t] = worker[q][t]
           \/ (worker[q][t].at = "sleep" /\ worker'[q][t].at = "check")
  PROVE  WorkInv'
<1>1. \A p \in PoolIds : ~pool'[p].live => pool'[p] = FreePool
  BY DEF WorkInv
<1>2. ASSUME NEW p \in PoolIds, NEW t \in AllTids
      PROVE  /\ worker'[p][t].at = "none" <=> ~(pool'[p].live /\ t \in Tids(pool'[p].nthreads))
             /\ worker'[p][t].at \in Holding => worker'[p][t].job \in Contexts
  BY DEF WorkInv, Holding
<1>. QED BY <1>1, <1>2 DEF WorkInv

(* destroy_shared_pool, first half. *)
LEMMA ShutdownPoolStep ==
  ASSUME IInv, NEW c \in Contexts, ShutdownPool(c)
  PROVE  IInv'
<1> USE DEF IInv
<1>1. /\ pc[c] = "shutdown" /\ Teardown(c)
      /\ UNCHANGED <<initlib, epoch, shared_pools, ctx, job, caller>>
  BY DEF ShutdownPool, Teardown
<1>2. PICK p \in PoolIds : p = ctx[c].thread_pool
  BY <1>1, TeardownBound
<1>3. pool[p].live /\ Bound(c)
  BY <1>1, <1>2, TeardownBound DEF CtxInv, CtxOf
<1>4. /\ pool' \in [PoolIds -> PoolRec]
      /\ \A q \in PoolIds :
           /\ pool'[q].live = pool[q].live /\ pool'[q].nthreads = pool[q].nthreads
           /\ pool'[q].queue = pool[q].queue /\ pool'[q].active_jobs = pool[q].active_jobs
           /\ pool'[q].context_refs = pool[q].context_refs
           /\ q # p => pool'[q] = pool[q]
  <2>1. pool' = [pool EXCEPT ![p].shutdown = TRUE]
    BY <1>2 DEF ShutdownPool
  <2>. QED BY <2>1, ShutdownRaised
<1>5. /\ worker' \in [PoolIds -> [AllTids -> WorkerRec]] /\ WorkersCalm
      /\ \A q \in PoolIds, t \in AllTids :
           worker'[q][t] = worker[q][t]
           \/ (worker[q][t].at = "sleep" /\ worker'[q][t].at = "check")
  <2>1. worker' = [worker EXCEPT ![p] = WakeWorkers(@)]
    BY <1>2 DEF ShutdownPool
  <2>. QED BY <2>1, Woken
<1>6. /\ pc' \in [Contexts -> PCs] /\ pc'[c] = "join"
      /\ \A d \in Contexts : d # c => pc'[d] = pc[d]
  BY DEF ShutdownPool, TypeOK, PCs
<1>7. TypeOK'
  BY <1>1, <1>4, <1>5, <1>6 DEF TypeOK
<1>8. \A d \in Contexts : /\ Bound(d)' <=> Bound(d)
                          /\ Teardown(d)' <=> Teardown(d)
                          /\ Waiting(d)' <=> Waiting(d)
  BY <1>1, <1>6 DEF Bound, Teardown, Waiting
<1>9. CtlInv'
  BY <1>1, <1>6, GlobalAssumption DEF CtlInv, NotDestroying
<1>10. CtxInv'
  <2> SUFFICES ASSUME NEW d \in Contexts PROVE CtxOf(d)'
    BY DEF CtxInv
  <2>1. CtxOf(d) /\ (Bound(d) => ctx[d].thread_pool \in PoolIds)
    BY DEF CtxInv, CtxOf, Bound
  <2>2. CASE d = c
    BY <1>1, <1>3, <1>4, <1>6, <1>8, <2>1, <2>2 DEF CtxOf
  <2>3. CASE d # c
    BY <1>1, <1>4, <1>6, <1>8, <2>1, <2>3 DEF CtxOf
  <2>. QED BY <2>2, <2>3
<1>11. PlaceInv' /\ JobInv' /\ ActiveInv'
  <2>1. QueuesAlike
    BY <1>4 DEF QueuesAlike
  <2>. QED BY <1>1, <1>4, <1>5, <1>8, <2>1, JobsKept, ActiveKept
<1>12. WorkInv'
  <2>1. \A q \in PoolIds : ~pool[q].live => pool'[q] = pool[q]
    BY <1>3, <1>4
  <2>. QED BY <1>4, <1>5, <2>1, WorkWoken
<1>13. Reg' = Reg /\ Reg \subseteq PoolIds /\ \A i \in DOMAIN shared_pools : shared_pools[i] \in PoolIds
  BY <1>1, RegFacts DEF Reg
<1>14. RegInv'
  <2>1. \A q \in Reg' : pool'[q].live
    BY <1>4, <1>13 DEF RegInv
  <2>2. \A i, j \in DOMAIN shared_pools' :
          pool'[shared_pools'[i]].nthreads = pool'[shared_pools'[j]].nthreads => i = j
    BY <1>1, <1>4, <1>13 DEF RegInv
  <2>3. \A q \in PoolIds : pool'[q].live =>
          q \in Reg' \/ \E d \in Contexts : Teardown(d)' /\ ctx'[d].thread_pool = q
    BY <1>1, <1>4, <1>8, <1>13 DEF RegInv
  <2>4. ASSUME NEW d \in Contexts, Teardown(d)'
        PROVE  /\ ctx'[d].thread_pool \notin Reg'
               /\ \A e \in Contexts : Bound(e)' /\ ctx'[e].thread_pool = ctx'[d].thread_pool => e = d
               /\ pool'[ctx'[d].thread_pool].active_jobs = 0
    <3>1. Teardown(d) /\ ctx[d].thread_pool \in PoolIds
      BY <1>8, <2>4, TeardownBound
    <3>. QED BY <1>1, <1>4, <1>8, <1>13, <3>1 DEF RegInv
  <2>5. ASSUME NEW q \in PoolIds, pool'[q].shutdown
        PROVE  \/ \E d \in Contexts : pc'[d] = "join" /\ ctx'[d].thread_pool = q
               \/ pc'[GlobalCtx] = "sweep_join" /\ q = shared_pools'[1]
    <3>1. CASE q = p
      BY <1>1, <1>2, <1>6, <3>1
    <3>2. CASE q # p
      <4>1. pool[q].shutdown
        BY <1>4, <2>5, <3>2
      <4>2. CASE \E d \in Contexts : pc[d] = "join" /\ ctx[d].thread_pool = q
        <5>1. PICK d \in Contexts : pc[d] = "join" /\ ctx[d].thread_pool = q
          BY <4>2
        <5>2. d # c
          BY <1>1, <5>1
        <5>. QED BY <1>1, <1>6, <5>1, <5>2
      <4>3. CASE pc[GlobalCtx] = "sweep_join" /\ q = shared_pools[1]
        BY <1>1, <1>6, <4>3, GlobalAssumption
      <4>. QED BY <4>1, <4>2, <4>3 DEF RegInv
    <3>. QED BY <3>1, <3>2
  <2>6. pc'[GlobalCtx] = "sweep_join" => shared_pools' # <<>>
    BY <1>1, <1>6, GlobalAssumption DEF RegInv
  <2>. QED BY <2>1, <2>2, <2>3, <2>4, <2>5, <2>6 DEF RegInv
<1>15. RefsInv'
  <2>1. ASSUME NEW q \in PoolIds PROVE Attached(q)' = Attached(q)
    <3>1. \A d \in Contexts : d \in Attached(q)' <=> d \in Attached(q)
      BY <1>1, <1>6 DEF Attached
    <3>. QED BY <3>1 DEF Attached
  <2>2. Sweeping' <=> Sweeping
    BY <1>1, <1>6, GlobalAssumption DEF Sweeping
  <2>. QED BY <1>4, <2>1, <2>2 DEF RefsInv
<1>. QED BY <1>7, <1>9, <1>10, <1>11, <1>12, <1>14, <1>15

(* What freeing an idle pool writes, once its threads have exited. *)
LEMMA PoolFreed ==
  ASSUME TypeOK, WorkInv, ActiveInv, NEW p \in PoolIds, pool[p].active_jobs = 0, AllExited(p),
         pool' = [pool EXCEPT ![p] = FreePool],
         worker' = [worker EXCEPT ![p] = [t \in AllTids |-> NoWorker]]
  PROVE  /\ pool' \in [PoolIds -> PoolRec] /\ worker' \in [PoolIds -> [AllTids -> WorkerRec]]
         /\ pool'[p] = FreePool /\ ~pool'[p].live /\ ~pool'[p].shutdown
         /\ \A q \in PoolIds : q # p => pool'[q] = pool[q]
         /\ WorkersCalm /\ QueuesAlike
         /\ \A q \in PoolIds : pool'[q].active_jobs = pool[q].active_jobs
         /\ WorkInv'
<1>0. TRUE \in BOOLEAN /\ FALSE \in BOOLEAN
  BY Zenon
<1>1. FreePool \in PoolRec /\ FreePool.live = FALSE /\ FreePool.shutdown = FALSE
      /\ FreePool.queue = <<>> /\ FreePool.active_jobs = 0
  <2>1. <<>> \in Seq(Entry)
    OBVIOUS
  <2>. QED BY <1>0, <2>1 DEF FreePool, PoolRec
<1>2. /\ pool' \in [PoolIds -> PoolRec] /\ pool'[p] = FreePool
      /\ \A q \in PoolIds : q # p => pool'[q] = pool[q]
  BY <1>1 DEF TypeOK
<1>3. AllTids # {} => NoWorker \in WorkerRec /\ NoWorker.at = "none"
  <2>1. AllTids # {} => 0 \in AllTids
    BY TidsFacts DEF AllTids
  <2>. QED BY <2>1 DEF NoWorker, WorkerRec, WorkerStates
<1>4. /\ worker' \in [PoolIds -> [AllTids -> WorkerRec]]
      /\ \A t \in AllTids : worker'[p][t] = NoWorker
      /\ \A q \in PoolIds : q # p => worker'[q] = worker[q]
  <2>1. [t \in AllTids |-> NoWorker] \in [AllTids -> WorkerRec]
    BY <1>3
  <2>. QED BY <2>1 DEF TypeOK
<1>5. \A t \in AllTids : worker[p][t].at \in {"none", "exited"}
  BY DEF WorkInv, AllExited
<1>6. WorkersCalm
  BY <1>3, <1>4, <1>5 DEF WorkersCalm, Calm
<1>7. pool[p].queue = <<>>
  BY QuietPool
<1>8. QueuesAlike
  BY <1>1, <1>2, <1>7 DEF QueuesAlike
<1>9. \A q \in PoolIds : pool'[q].active_jobs = pool[q].active_jobs
  BY <1>1, <1>2
<1>10. WorkInv'
  <2>1. \A q \in PoolIds : ~pool'[q].live => pool'[q] = FreePool
    BY <1>2 DEF WorkInv
  <2>2. ASSUME NEW q \in PoolIds, NEW t \in AllTids
        PROVE  /\ worker'[q][t].at = "none" <=> ~(pool'[q].live /\ t \in Tids(pool'[q].nthreads))
               /\ worker'[q][t].at \in Holding => worker'[q][t].job \in Contexts
    <3>1. CASE q = p
      BY <1>1, <1>2, <1>3, <1>4, <3>1 DEF Holding
    <3>2. CASE q # p
      BY <1>2, <1>4, <3>2 DEF WorkInv
    <3>. QED BY <3>1, <3>2
  <2>. QED BY <2>1, <2>2 DEF WorkInv
<1>. QED BY <1>1, <1>2, <1>4, <1>6, <1>8, <1>9, <1>10

(* destroy_shared_pool, second half. *)
LEMMA JoinPoolStep ==
  ASSUME IInv, NEW c \in Contexts, JoinPool(c)
  PROVE  IInv'
<1> USE DEF IInv
<1>1. /\ pc[c] = "join" /\ Teardown(c) /\ Bound(c)
      /\ UNCHANGED <<shared_pools, job>>
      /\ Released(c, Detached(ctx[c]))
  BY TeardownBound DEF JoinPool, Teardown
<1>2. PICK p \in PoolIds : p = ctx[c].thread_pool
  BY <1>1, TeardownBound
<1>3. /\ p \notin Reg /\ pool[p].active_jobs = 0
      /\ \A d \in Contexts : Bound(d) /\ ctx[d].thread_pool = p => d = c
  BY <1>1, <1>2 DEF RegInv
<1>4. /\ pool' \in [PoolIds -> PoolRec] /\ worker' \in [PoolIds -> [AllTids -> WorkerRec]]
      /\ pool'[p] = FreePool /\ ~pool'[p].live /\ ~pool'[p].shutdown
      /\ \A q \in PoolIds : q # p => pool'[q] = pool[q]
      /\ WorkersCalm /\ QueuesAlike
      /\ \A q \in PoolIds : pool'[q].active_jobs = pool[q].active_jobs
      /\ WorkInv'
  <2>1. /\ AllExited(p)
        /\ pool' = [pool EXCEPT ![p] = FreePool]
        /\ worker' = [worker EXCEPT ![p] = [t \in AllTids |-> NoWorker]]
    BY <1>2 DEF JoinPool
  <2>. QED BY <1>3, <2>1, PoolFreed
<1>5. Left(c) /\ CtlInv' /\ ~Sweeping
  BY <1>1, ReleasedLeaves
<1>6. /\ ~Bound(c)' /\ ~Teardown(c)' /\ ~Waiting(c) /\ ~Waiting(c)'
      /\ \A d \in Contexts : d # c => /\ Waiting(d)' <=> Waiting(d)
                                      /\ Teardown(d)' <=> Teardown(d)
                                      /\ Bound(d)' => Bound(d)
                                      /\ ~Sweeping' => (Bound(d)' <=> Bound(d))
                                      /\ ctx'[d] = ctx[d] /\ pc'[d] = pc[d]
      /\ pc'[GlobalCtx] # "sweep_join"
      /\ ~Sweeping' => epoch' = epoch
  BY <1>1, <1>5, LeftFacts DEF Left
<1>7. TypeOK'
  BY <1>1, <1>4, <1>5 DEF TypeOK, Left
<1>8. CtxInv'
  <2>1. \A d \in Contexts : d # c /\ Bound(d) =>
          ctx[d].thread_pool \in PoolIds /\ ctx[d].thread_pool # p
    BY <1>3 DEF CtxInv, CtxOf, Bound
  <2>. QED BY <1>1, <1>4, <1>5, <2>1, LeftCtx
<1>9. PlaceInv' /\ JobInv' /\ ActiveInv'
  <2>1. \A d \in Contexts : Waiting(d)' <=> Waiting(d)
    BY <1>6
  <2>2. \A d \in Contexts : Waiting(d) => /\ ctx'[d].thread_pool = ctx[d].thread_pool
                                          /\ ctx'[d].nthreads = ctx[d].nthreads
    BY <1>6
  <2>. QED BY <1>1, <1>4, <2>1, <2>2, JobsKept, ActiveKept
<1>10. Reg' = Reg /\ Reg \subseteq PoolIds
       /\ \A i \in DOMAIN shared_pools : shared_pools[i] \in PoolIds /\ shared_pools[i] # p
  BY <1>1, <1>3, RegFacts DEF Reg
<1>11. RegInv'
  <2>1. \A q \in Reg' : pool'[q].live
    BY <1>3, <1>4, <1>10 DEF RegInv
  <2>2. \A i, j \in DOMAIN shared_pools' :
          pool'[shared_pools'[i]].nthreads = pool'[shared_pools'[j]].nthreads => i = j
    BY <1>1, <1>4, <1>10 DEF RegInv
  <2>3. ASSUME NEW q \in PoolIds, pool'[q].live
        PROVE  q \in Reg' \/ \E d \in Contexts : Teardown(d)' /\ ctx'[d].thread_pool = q
    <3>1. q # p /\ pool[q].live
      BY <1>4, <2>3
    <3>2. CASE q \in Reg
      BY <1>10, <3>2
    <3>3. CASE q \notin Reg
      <4>1. PICK d \in Contexts : Teardown(d) /\ ctx[d].thread_pool = q
        BY <3>1, <3>3 DEF RegInv
      <4>2. d # c
        BY <1>2, <3>1, <4>1
      <4>. QED BY <1>6, <4>1, <4>2
    <3>. QED BY <3>2, <3>3
  <2>4. ASSUME NEW d \in Contexts, Teardown(d)'
        PROVE  /\ ctx'[d].thread_pool \notin Reg'
               /\ \A e \in Contexts : Bound(e)' /\ ctx'[e].thread_pool = ctx'[d].thread_pool => e = d
               /\ pool'[ctx'[d].thread_pool].active_jobs = 0
    <3>1. d # c /\ Teardown(d) /\ ctx'[d] = ctx[d]
      BY <1>6, <2>4
    <3>2. ctx[d].thread_pool \in PoolIds
      BY <3>1, TeardownBound
    <3>3. \A e \in Contexts : Bound(e)' => Bound(e) /\ ctx'[e] = ctx[e]
      BY <1>6
    <3>. QED BY <1>4, <1>10, <3>1, <3>2, <3>3 DEF RegInv
  <2>5. ASSUME NEW q \in PoolIds, pool'[q].shutdown
        PROVE  \/ \E d \in Contexts : pc'[d] = "join" /\ ctx'[d].thread_pool = q
               \/ pc'[GlobalCtx] = "sweep_join" /\ q = shared_pools'[1]
    <3>1. q # p /\ pool[q].shutdown
      BY <1>4, <2>5
    <3>2. PICK d \in Contexts : pc[d] = "join" /\ ctx[d].thread_pool = q
      BY <1>5, <3>1 DEF RegInv, Sweeping
    <3>3. d # c
      BY <1>2, <3>1, <3>2
    <3>. QED BY <1>6, <3>2, <3>3
  <2>. QED BY <1>6, <2>1, <2>2, <2>3, <2>4, <2>5 DEF RegInv
<1>12. RefsInv'
  <2> SUFFICES ASSUME ~Sweeping', NEW q \in PoolIds, pool'[q].live
               PROVE  pool'[q].context_refs = Cardinality(Attached(q)')
    BY DEF RefsInv
  <2>1. q # p /\ pool'[q] = pool[q]
    BY <1>4
  <2>2. Attached(q)' = Attached(q)
    <3>1. c \notin Attached(q)' /\ c \notin Attached(q)
      BY <1>1, <1>6 DEF Attached, Bound
    <3>2. \A d \in Contexts : d # c => (d \in Attached(q)' <=> d \in Attached(q))
      BY <1>6 DEF Attached
    <3>3. Attached(q)' \subseteq Contexts /\ Attached(q) \subseteq Contexts
      BY DEF Attached
    <3>. QED BY <3>1, <3>2, <3>3
  <2>. QED BY <1>5, <2>1, <2>2 DEF RefsInv
<1>. QED BY <1>4, <1>5, <1>7, <1>8, <1>9, <1>11, <1>12
-----------------------------------------------------------------------------
(* The steps of blosc2_destroy. *)

(* Nobody uses a pool while it takes down the ones that are left. *)
LEMMA SweepFacts ==
  ASSUME IInv, Sweeping
  PROVE  /\ ~initlib /\ caller[GlobalCtx] = "destroy"
         /\ \A c \in Contexts : /\ ~Bound(c) /\ ~Waiting(c) /\ ~Teardown(c)
                                /\ c # GlobalCtx => pc[c] \in {"idle", "none"}
         /\ \A p \in PoolIds : pool[p].queue = <<>>
<1> USE DEF IInv
<1>1. ~initlib /\ caller[GlobalCtx] = "destroy"
  BY GlobalAssumption DEF Sweeping, CtlInv
<1>2. \A c \in Contexts : c # GlobalCtx => pc[c] \in {"idle", "none"}
  BY <1>1 DEF CtlInv, NotDestroying
<1>3. \A c \in Contexts : ~Bound(c) /\ ~Waiting(c) /\ ~Teardown(c)
  BY <1>1, <1>2 DEF CtxInv, CtxOf, Waiting, Teardown
<1>4. \A p \in PoolIds : pool[p].queue = <<>>
  BY <1>3, QueueFacts, UserPlace
<1>. QED BY <1>1, <1>2, <1>3, <1>4

(* The step moves the global context alone. *)
LEMMA SweepMoves ==
  ASSUME IInv, Sweeping, TypeOK',
         UNCHANGED <<initlib, epoch, ctx, job>>, WorkersCalm, QueuesAlike,
         \A q \in PoolIds : pool'[q].active_jobs = pool[q].active_jobs,
         pc'[GlobalCtx] \in {"none", "sweep", "sweep_join"},
         \A d \in Contexts : d # GlobalCtx => pc'[d] = pc[d] /\ caller'[d] = caller[d],
         caller'[GlobalCtx] = IF pc'[GlobalCtx] = "none" THEN "nobody" ELSE "destroy"
  PROVE  /\ CtlInv' /\ CtxInv' /\ PlaceInv' /\ JobInv' /\ ActiveInv'
         /\ \A c \in Contexts : ~Bound(c)' /\ ~Teardown(c)'
<1> USE DEF IInv
<1>1. /\ ~initlib /\ caller[GlobalCtx] = "destroy"
      /\ \A c \in Contexts : /\ ~Bound(c) /\ ~Waiting(c) /\ ~Teardown(c)
                             /\ c # GlobalCtx => pc[c] \in {"idle", "none"}
  BY SweepFacts
<1>2. \A c \in Contexts : ~Bound(c)' /\ ~Teardown(c)' /\ ~Waiting(c)'
  <2> SUFFICES ASSUME NEW c \in Contexts PROVE ~Bound(c)' /\ ~Teardown(c)' /\ ~Waiting(c)'
    OBVIOUS
  <2>1. CASE c = GlobalCtx
    <3>1. pc[c] # "none"
      BY <2>1 DEF Sweeping
    <3>. QED BY <1>1, <2>1, <3>1 DEF Bound, Teardown, Waiting
  <2>2. CASE c # GlobalCtx
    BY <1>1, <2>2 DEF Bound, Teardown, Waiting
  <2>. QED BY <2>1, <2>2
<1>3. CtlInv'
  BY <1>1, GlobalAssumption DEF CtlInv, NotDestroying
<1>4. CtxInv'
  <2> SUFFICES ASSUME NEW c \in Contexts PROVE CtxOf(c)'
    BY DEF CtxInv
  <2>1. CtxOf(c)
    BY DEF CtxInv
  <2>2. pc'[c] \in {"none", "sweep", "sweep_join", "idle"}
    BY <1>1
  <2>. QED BY <1>2, <2>1, <2>2 DEF CtxOf
<1>5. PlaceInv' /\ JobInv' /\ ActiveInv'
  BY <1>1, <1>2, JobsKept, ActiveKept
<1>. QED BY <1>2, <1>3, <1>4, <1>5

(* The loop goes on with the first pool, or ends. *)
LEMMA DestroySweepStep ==
  ASSUME IInv, DestroySweep
  PROVE  IInv'
<1> USE DEF IInv
<1>1. /\ pc[GlobalCtx] = "sweep" /\ Sweeping
      /\ UNCHANGED <<initlib, epoch, shared_pools, ctx, job>>
  BY DEF DestroySweep, Sweeping
<1>2. /\ ~initlib /\ caller[GlobalCtx] = "destroy"
      /\ \A c \in Contexts : /\ ~Bound(c) /\ ~Waiting(c) /\ ~Teardown(c)
                             /\ c # GlobalCtx => pc[c] \in {"idle", "none"}
  BY <1>1, SweepFacts
<1>3. \A q \in PoolIds : ~pool[q].shutdown
  <2>1. \A c \in Contexts : pc[c] # "join"
    BY <1>2 DEF Teardown
  <2>. QED BY <1>1, <2>1 DEF RegInv
<1>4. CASE shared_pools = <<>>
  <2>1. /\ pc' = [pc EXCEPT ![GlobalCtx] = "none"]
        /\ caller' = [caller EXCEPT ![GlobalCtx] = "nobody"]
        /\ UNCHANGED <<pool, worker>>
    BY <1>4 DEF DestroySweep
  <2>2. /\ pc' \in [Contexts -> PCs] /\ pc'[GlobalCtx] = "none"
        /\ \A d \in Contexts : d # GlobalCtx => pc'[d] = pc[d]
    BY <2>1, GlobalAssumption DEF TypeOK, PCs
  <2>3. /\ caller' \in [Contexts -> Callers] /\ caller'[GlobalCtx] = "nobody"
        /\ \A d \in Contexts : d # GlobalCtx => caller'[d] = caller[d]
    BY <2>1, GlobalAssumption DEF TypeOK, Callers
  <2>4. TypeOK'
    BY <1>1, <2>1, <2>2, <2>3 DEF TypeOK
  <2>5. WorkersCalm /\ QueuesAlike
    BY <2>1 DEF WorkersCalm, QueuesAlike
  <2>6. /\ CtlInv' /\ CtxInv' /\ PlaceInv' /\ JobInv' /\ ActiveInv'
        /\ \A c \in Contexts : ~Bound(c)' /\ ~Teardown(c)'
    BY <1>1, <2>1, <2>2, <2>3, <2>4, <2>5, SweepMoves
  <2>7. WorkInv'
    BY <2>1 DEF WorkInv
  <2>8. Reg = {} /\ Reg' = {}
    <3>1. DOMAIN shared_pools = {}
      BY <1>4, RegFacts
    <3>. QED BY <1>1, <3>1 DEF Reg
  <2>9. \A q \in PoolIds : ~pool'[q].live
    BY <1>2, <2>1, <2>8 DEF RegInv
  <2>10. RegInv'
    BY <1>1, <1>3, <2>1, <2>2, <2>6, <2>8, <2>9 DEF RegInv
  <2>11. RefsInv'
    BY <2>9 DEF RefsInv
  <2>. QED BY <2>4, <2>6, <2>7, <2>10, <2>11
<1>5. CASE shared_pools # <<>>
  <2>1. PICK p \in PoolIds : p = Head(shared_pools) /\ p = shared_pools[1] /\ p \in Reg
    <3>1. Len(shared_pools) >= 1
      BY <1>5, RegFacts, EmptySeq DEF TypeOK
    <3>2. 1 \in DOMAIN shared_pools
      BY <3>1, RegFacts
    <3>3. Head(shared_pools) = shared_pools[1]
      BY <1>5 DEF TypeOK
    <3>. QED BY <3>2, <3>3, RegFacts
  <2>2. /\ pool' = [pool EXCEPT ![p].shutdown = TRUE]
        /\ worker' = [worker EXCEPT ![p] = WakeWorkers(@)]
        /\ pc' = [pc EXCEPT ![GlobalCtx] = "sweep_join"]
        /\ caller' = caller
    BY <1>5, <2>1 DEF DestroySweep
  <2>3. /\ pool' \in [PoolIds -> PoolRec]
        /\ \A q \in PoolIds :
             /\ pool'[q].live = pool[q].live /\ pool'[q].nthreads = pool[q].nthreads
             /\ pool'[q].queue = pool[q].queue /\ pool'[q].active_jobs = pool[q].active_jobs
             /\ pool'[q].context_refs = pool[q].context_refs
             /\ q # p => pool'[q] = pool[q]
    BY <2>2, ShutdownRaised
  <2>4. /\ worker' \in [PoolIds -> [AllTids -> WorkerRec]] /\ WorkersCalm
        /\ \A q \in PoolIds, t \in AllTids :
             worker'[q][t] = worker[q][t]
             \/ (worker[q][t].at = "sleep" /\ worker'[q][t].at = "check")
    BY <2>2, Woken
  <2>5. /\ pc' \in [Contexts -> PCs] /\ pc'[GlobalCtx] = "sweep_join"
        /\ \A d \in Contexts : d # GlobalCtx => pc'[d] = pc[d]
    BY <2>2, GlobalAssumption DEF TypeOK, PCs
  <2>6. TypeOK'
    BY <1>1, <2>2, <2>3, <2>4, <2>5 DEF TypeOK
  <2>7. QueuesAlike
    BY <2>3 DEF QueuesAlike
  <2>8. /\ CtlInv' /\ CtxInv' /\ PlaceInv' /\ JobInv' /\ ActiveInv'
        /\ \A c \in Contexts : ~Bound(c)' /\ ~Teardown(c)'
    BY <1>1, <1>2, <2>2, <2>3, <2>4, <2>5, <2>6, <2>7, SweepMoves
  <2>9. pool[p].live
    BY <2>1 DEF RegInv
  <2>10. WorkInv'
    BY <2>3, <2>4, <2>9, WorkWoken
  <2>11. Reg' = Reg /\ Reg \subseteq PoolIds
         /\ \A i \in DOMAIN shared_pools : shared_pools[i] \in PoolIds
    BY <1>1, RegFacts DEF Reg
  <2>12. RegInv'
    <3>1. \A q \in Reg' : pool'[q].live
      BY <2>3, <2>11 DEF RegInv
    <3>2. \A i, j \in DOMAIN shared_pools' :
            pool'[shared_pools'[i]].nthreads = pool'[shared_pools'[j]].nthreads => i = j
      BY <1>1, <2>3, <2>11 DEF RegInv
    <3>3. \A q \in PoolIds : pool'[q].live => q \in Reg'
      BY <1>2, <2>3, <2>11 DEF RegInv
    <3>4. \A q \in PoolIds : pool'[q].shutdown => q = p
      BY <1>3, <2>3
    <3>5. shared_pools' # <<>> /\ p = shared_pools'[1]
      BY <1>1, <1>5, <2>1
    <3>. QED BY <2>5, <2>8, <3>1, <3>2, <3>3, <3>4, <3>5 DEF RegInv
  <2>13. RefsInv'
    BY <2>5 DEF RefsInv, Sweeping
  <2>. QED BY <2>6, <2>8, <2>10, <2>12, <2>13
<1>. QED BY <1>4, <1>5

(* A sequence without its head. *)
LEMMA TailFacts ==
  ASSUME NEW s \in Seq(PoolIds), s # <<>>
  PROVE  /\ Head(s) = s[1] /\ 1 \in DOMAIN s /\ Tail(s) \in Seq(PoolIds)
         /\ \A i \in DOMAIN Tail(s) : i \in Int /\ i + 1 \in DOMAIN s /\ i + 1 # 1
                                      /\ Tail(s)[i] = s[i + 1]
         /\ \A j \in DOMAIN s : j # 1 => j - 1 \in DOMAIN Tail(s) /\ Tail(s)[j - 1] = s[j]
<1>1. Len(s) \in Nat /\ DOMAIN s = 1 .. Len(s) /\ Len(s) >= 1 /\ Head(s) = s[1]
  BY LenProperties, EmptySeq
<1>2. Tail(s) \in Seq(PoolIds) /\ Len(Tail(s)) = Len(s) - 1
      /\ \A i \in 1 .. Len(Tail(s)) : Tail(s)[i] = s[i + 1]
  BY HeadTailProperties
<1>3. DOMAIN Tail(s) = 1 .. Len(s) - 1
  BY <1>2, LenProperties
<1>4. ASSUME NEW i \in DOMAIN Tail(s)
      PROVE  i \in Int /\ i + 1 \in DOMAIN s /\ i + 1 # 1 /\ Tail(s)[i] = s[i + 1]
  BY <1>1, <1>2, <1>3
<1>5. ASSUME NEW j \in DOMAIN s, j # 1
      PROVE  j - 1 \in DOMAIN Tail(s) /\ Tail(s)[j - 1] = s[j]
  <2>1. j - 1 \in 1 .. Len(s) - 1 /\ (j - 1) + 1 = j
    BY <1>1, <1>5
  <2>. QED BY <1>2, <1>3, <2>1
<1>. QED BY <1>1, <1>2, <1>4, <1>5

(* The first pool is freed. *)
LEMMA DestroySweepJoinStep ==
  ASSUME IInv, DestroySweepJoin
  PROVE  IInv'
<1> USE DEF IInv
<1>1. /\ pc[GlobalCtx] = "sweep_join" /\ Sweeping
      /\ shared_pools' = Tail(shared_pools)
      /\ UNCHANGED <<initlib, epoch, ctx, job, caller>>
  BY DEF DestroySweepJoin, Sweeping
<1>2. /\ ~initlib /\ caller[GlobalCtx] = "destroy"
      /\ \A c \in Contexts : /\ ~Bound(c) /\ ~Waiting(c) /\ ~Teardown(c)
                             /\ c # GlobalCtx => pc[c] \in {"idle", "none"}
      /\ \A p \in PoolIds : pool[p].queue = <<>>
  BY <1>1, SweepFacts
<1>3. shared_pools # <<>> /\ shared_pools \in Seq(PoolIds)
  BY <1>1 DEF RegInv, TypeOK
<1>4. /\ Head(shared_pools) = shared_pools[1] /\ 1 \in DOMAIN shared_pools
      /\ shared_pools' \in Seq(PoolIds)
      /\ \A i \in DOMAIN shared_pools' :
           i \in Int /\ i + 1 \in DOMAIN shared_pools /\ i + 1 # 1
           /\ shared_pools'[i] = shared_pools[i + 1]
      /\ \A j \in DOMAIN shared_pools : j # 1 =>
           j - 1 \in DOMAIN shared_pools' /\ shared_pools'[j - 1] = shared_pools[j]
  BY <1>1, <1>3, TailFacts
<1>5. PICK p \in PoolIds : p = Head(shared_pools) /\ p = shared_pools[1] /\ p \in Reg
  BY <1>4, RegFacts
<1>6. /\ AllExited(p)
      /\ pool' = [pool EXCEPT ![p] = FreePool]
      /\ worker' = [worker EXCEPT ![p] = [t \in AllTids |-> NoWorker]]
  BY <1>5 DEF DestroySweepJoin
<1>7. pool[p].active_jobs = 0
  <2>1. \A t \in AllTids : worker[p][t].at \in {"none", "exited"}
    BY <1>6 DEF WorkInv, AllExited
  <2>2. Busy(p) = {}
    BY <2>1 DEF Busy, Holding
  <2>. QED BY <1>2, <2>2, QuietPool
<1>8. /\ pool' \in [PoolIds -> PoolRec] /\ worker' \in [PoolIds -> [AllTids -> WorkerRec]]
      /\ pool'[p] = FreePool /\ ~pool'[p].live /\ ~pool'[p].shutdown
      /\ \A q \in PoolIds : q # p => pool'[q] = pool[q]
      /\ WorkersCalm /\ QueuesAlike
      /\ \A q \in PoolIds : pool'[q].active_jobs = pool[q].active_jobs
      /\ WorkInv'
  BY <1>6, <1>7, PoolFreed
<1>9. /\ pc' \in [Contexts -> PCs] /\ pc'[GlobalCtx] = "sweep"
      /\ \A d \in Contexts : d # GlobalCtx => pc'[d] = pc[d]
  BY GlobalAssumption DEF DestroySweepJoin, TypeOK, PCs
<1>10. TypeOK'
  BY <1>1, <1>4, <1>8, <1>9 DEF TypeOK
<1>11. /\ CtlInv' /\ CtxInv' /\ PlaceInv' /\ JobInv' /\ ActiveInv'
       /\ \A c \in Contexts : ~Bound(c)' /\ ~Teardown(c)'
  BY <1>1, <1>2, <1>8, <1>9, <1>10, SweepMoves
<1>12. Reg' = Reg \ {p} /\ Reg \subseteq PoolIds
  <2>1. ASSUME NEW q \in Reg' PROVE q \in Reg /\ q # p
    <3>1. PICK i \in DOMAIN shared_pools' : shared_pools'[i] = q
      BY <2>1 DEF Reg
    <3>2. i + 1 \in DOMAIN shared_pools /\ i + 1 # 1 /\ shared_pools[i + 1] = q
      BY <1>4, <3>1
    <3>3. shared_pools[i + 1] # shared_pools[1]
      BY <1>4, <3>2 DEF RegInv
    <3>. QED BY <1>5, <3>2, <3>3 DEF Reg
  <2>2. ASSUME NEW q \in Reg, q # p PROVE q \in Reg'
    <3>1. PICK j \in DOMAIN shared_pools : shared_pools[j] = q
      BY RegFacts
    <3>2. j # 1
      BY <1>5, <2>2, <3>1
    <3>3. j - 1 \in DOMAIN shared_pools' /\ shared_pools'[j - 1] = q
      BY <1>4, <3>1, <3>2
    <3>. QED BY <3>3 DEF Reg
  <2>. QED BY <2>1, <2>2, RegFacts
<1>13. RegInv'
  <2>1. \A q \in Reg' : pool'[q].live
    BY <1>8, <1>12 DEF RegInv
  <2>2. \A i, j \in DOMAIN shared_pools' :
          pool'[shared_pools'[i]].nthreads = pool'[shared_pools'[j]].nthreads => i = j
    <3> SUFFICES ASSUME NEW i \in DOMAIN shared_pools', NEW j \in DOMAIN shared_pools',
                        pool'[shared_pools'[i]].nthreads = pool'[shared_pools'[j]].nthreads
                 PROVE  i = j
      OBVIOUS
    <3>1. /\ i \in Int /\ i + 1 \in DOMAIN shared_pools /\ shared_pools'[i] = shared_pools[i + 1]
          /\ j \in Int /\ j + 1 \in DOMAIN shared_pools /\ shared_pools'[j] = shared_pools[j + 1]
      BY <1>4
    <3>2. shared_pools'[i] \in Reg' /\ shared_pools'[j] \in Reg'
      BY DEF Reg
    <3>3. pool[shared_pools[i + 1]].nthreads = pool[shared_pools[j + 1]].nthreads
      BY <1>8, <1>12, <3>1, <3>2
    <3>4. i + 1 = j + 1
      BY <3>1, <3>3 DEF RegInv
    <3>. QED BY <3>1, <3>4
  <2>3. \A q \in PoolIds : pool'[q].live => q \in Reg'
    BY <1>2, <1>8, <1>12 DEF RegInv
  <2>4. \A q \in PoolIds : ~pool'[q].shutdown
    <3> SUFFICES ASSUME NEW q \in PoolIds, q # p PROVE ~pool[q].shutdown
      BY <1>8
    <3>1. \A c \in Contexts : pc[c] # "join"
      BY <1>2 DEF Teardown
    <3>. QED BY <1>5, <3>1 DEF RegInv
  <2>. QED BY <1>9, <1>11, <2>1, <2>2, <2>3, <2>4 DEF RegInv
<1>14. RefsInv'
  BY <1>9 DEF RefsInv, Sweeping
<1>. QED BY <1>8, <1>10, <1>11, <1>13, <1>14
-----------------------------------------------------------------------------
(* The steps of attach_shared_pool. *)

(* The context c has the pool p now; the global context may have come back *)
(* on the way.                                                             *)
Joined(c, p) ==
  /\ initlib' = TRUE /\ epoch' = epoch /\ job' = job /\ caller' = caller
  /\ ctx' \in [Contexts -> CtxRec] /\ pc' \in [Contexts -> PCs]
  /\ ctx'[c].thread_pool = p /\ ctx'[c].backend = "shared_pool" /\ ctx'[c].pool_epoch = epoch
  /\ ctx'[c].nthreads = ctx[c].nthreads /\ pc'[c] \in {"submit", "idle"}
  /\ \A d \in Contexts \ {c} :
       \/ ctx'[d] = ctx[d] /\ pc'[d] = pc[d]
       \/ /\ d = GlobalCtx /\ ~initlib /\ pc[d] = "none" /\ pc'[d] = "idle"
          /\ ctx'[d].backend = "serial" /\ ctx'[d].pool_epoch = 0

(* What attach_shared_pool does to the contexts. *)
LEMMA AttachJoins ==
  ASSUME IInv, NEW c \in Contexts, NEW p \in PoolIds, NEW q \in {"submit", "idle"},
         pc[c] = "attach",
         InitFields([ctx EXCEPT ![c].thread_pool = p, ![c].backend = "shared_pool",
                                ![c].pool_epoch = epoch],
                    [pc EXCEPT ![c] = q]),
         UNCHANGED <<epoch, job, caller>>
  PROVE  Joined(c, p) /\ CtlInv' /\ ~Sweeping /\ ~Sweeping'
<1> USE DEF IInv
<1>1. PICK x \in CtxRec :
        /\ x = [ctx[c] EXCEPT !.thread_pool = p, !.backend = "shared_pool", !.pool_epoch = epoch]
        /\ x.thread_pool = p /\ x.backend = "shared_pool" /\ x.pool_epoch = epoch
        /\ x.nthreads = ctx[c].nthreads
  <2>1. ctx[c] \in CtxRec /\ epoch \in Nat
    BY DEF TypeOK
  <2>2. [ctx[c] EXCEPT !.thread_pool = p, !.backend = "shared_pool", !.pool_epoch = epoch] \in CtxRec
    BY <2>1 DEF CtxRec
  <2>. QED BY <2>1, <2>2 DEF CtxRec
<1> DEFINE cs == [ctx EXCEPT ![c] = x]
           ps == [pc EXCEPT ![c] = q]
<1>2. InitFields(cs, ps)
  BY <1>1
<1>3. /\ cs \in [Contexts -> CtxRec] /\ cs[c] = x /\ \A d \in Contexts : d # c => cs[d] = ctx[d]
      /\ ps \in [Contexts -> PCs] /\ ps[c] = q /\ \A d \in Contexts : d # c => ps[d] = pc[d]
  BY DEF TypeOK, PCs
<1> HIDE DEF cs, ps
<1>4. /\ initlib' = TRUE /\ ctx' \in [Contexts -> CtxRec] /\ pc' \in [Contexts -> PCs]
      /\ \A d \in Contexts : d # GlobalCtx => ctx'[d] = cs[d] /\ pc'[d] = ps[d]
      /\ initlib => ctx' = cs /\ pc' = ps
      /\ ~initlib => /\ ctx'[GlobalCtx].backend = "serial" /\ ctx'[GlobalCtx].pool_epoch = 0
                     /\ pc'[GlobalCtx] = "idle"
                     /\ pc[GlobalCtx] \in {"none", "sweep", "sweep_join"}
  BY <1>2, <1>3, InitFieldsFacts
<1>5. NotDestroying /\ caller[c] = "nobody" /\ ~Sweeping /\ (c = GlobalCtx => initlib)
  BY NoDestroy
<1>6. ctx'[c] = x /\ pc'[c] = q
  BY <1>3, <1>4, <1>5
<1>7. \A d \in Contexts \ {c} :
        \/ ctx'[d] = ctx[d] /\ pc'[d] = pc[d]
        \/ /\ d = GlobalCtx /\ ~initlib /\ pc[d] = "none" /\ pc'[d] = "idle"
           /\ ctx'[d].backend = "serial" /\ ctx'[d].pool_epoch = 0
  BY <1>3, <1>4, <1>5 DEF Sweeping
<1>8. Joined(c, p)
  BY <1>1, <1>4, <1>6, <1>7 DEF Joined
<1>9. ~Sweeping'
  BY <1>5, <1>6, <1>7, GlobalAssumption DEF Sweeping
<1>10. CtlInv'
  <2>1. /\ \A d \in Contexts :
             /\ caller'[d] = "nobody" <=>
                  pc'[d] \in {"none", "idle", "attach", "submit", "wait", "wait_sleep"}
             /\ caller'[d] = "destroy" => d = GlobalCtx
             /\ pc'[d] \in {"sweep", "sweep_join"} => caller'[d] = "destroy"
    BY <1>5, <1>6, <1>7, GlobalAssumption DEF CtlInv
  <2>2. pc'[GlobalCtx] \notin {"none", "sweep", "sweep_join"}
    <3>1. CASE initlib
      BY <1>5, <1>6, <1>7, <3>1, GlobalAssumption DEF CtlInv
    <3>2. CASE ~initlib
      BY <1>4, <3>2
    <3>. QED BY <3>1, <3>2
  <2>3. caller'[GlobalCtx] # "free_ctx" /\ NotDestroying'
    BY <1>5 DEF CtlInv, NotDestroying
  <2>. QED BY <1>4, <2>1, <2>2, <2>3 DEF CtlInv
<1>. QED BY <1>5, <1>8, <1>9, <1>10

(* What that means for who has a pool. *)
LEMMA JoinedFacts ==
  ASSUME IInv, NEW c \in Contexts, NEW p \in PoolIds, pc[c] = "attach", Joined(c, p)
  PROVE  /\ Bound(c)' /\ ~Bound(c) /\ ~Teardown(c) /\ ~Teardown(c)' /\ ~Waiting(c) /\ ~Waiting(c)'
         /\ \A d \in Contexts : d # c => /\ Bound(d)' <=> Bound(d)
                                         /\ Teardown(d)' <=> Teardown(d)
                                         /\ Waiting(d)' <=> Waiting(d)
                                         /\ pc'[d] = "join" <=> pc[d] = "join"
                                         /\ Bound(d) \/ Teardown(d) \/ Waiting(d) =>
                                              ctx'[d] = ctx[d] /\ pc'[d] = pc[d]
<1> USE DEF IInv
<1>1. Bound(c)' /\ ~Bound(c) /\ ~Teardown(c) /\ ~Teardown(c)' /\ ~Waiting(c) /\ ~Waiting(c)'
  BY DEF Joined, CtxInv, CtxOf, Bound, Teardown, Waiting
<1>2. ASSUME NEW d \in Contexts, d # c
      PROVE  /\ Bound(d)' <=> Bound(d)
             /\ Teardown(d)' <=> Teardown(d)
             /\ Waiting(d)' <=> Waiting(d)
             /\ pc'[d] = "join" <=> pc[d] = "join"
             /\ Bound(d) \/ Teardown(d) \/ Waiting(d) => ctx'[d] = ctx[d] /\ pc'[d] = pc[d]
  <2>1. CASE ctx'[d] = ctx[d] /\ pc'[d] = pc[d]
    BY <2>1 DEF Joined, Bound, Teardown, Waiting
  <2>2. CASE /\ pc[d] = "none" /\ pc'[d] = "idle" /\ ctx'[d].backend = "serial"
    BY <2>2 DEF Bound, Teardown, Waiting
  <2>. QED BY <1>2, <2>1, <2>2 DEF Joined
<1>. QED BY <1>1, <1>2

(* The invariant stays, with a pool that is there for the context. *)
LEMMA AttachKeeps ==
  ASSUME IInv, NEW c \in Contexts, NEW p \in PoolIds, pc[c] = "attach", Joined(c, p),
         CtlInv', ~Sweeping, ~Sweeping',
         pool' \in [PoolIds -> PoolRec], worker' \in [PoolIds -> [AllTids -> WorkerRec]],
         shared_pools' \in Seq(PoolIds),
         WorkersCalm, QueuesAlike, WorkInv',
         \A q \in PoolIds : pool'[q].active_jobs = pool[q].active_jobs,
         \A q \in PoolIds : q # p => pool'[q] = pool[q],
         pool'[p].live, pool'[p].nthreads = ctx[c].nthreads, ~pool'[p].shutdown,
         pool[p].live => pool'[p].nthreads = pool[p].nthreads,
         pool'[p].context_refs = Cardinality(Attached(p)) + 1,
         Reg' = Reg \cup {p},
         \A d \in Contexts : Teardown(d) => ctx[d].thread_pool # p,
         \A i, j \in DOMAIN shared_pools' :
           pool'[shared_pools'[i]].nthreads = pool'[shared_pools'[j]].nthreads => i = j
  PROVE  IInv'
<1> USE DEF IInv
<1>1. /\ Bound(c)' /\ ~Bound(c) /\ ~Teardown(c) /\ ~Teardown(c)' /\ ~Waiting(c) /\ ~Waiting(c)'
      /\ \A d \in Contexts : d # c => /\ Bound(d)' <=> Bound(d)
                                      /\ Teardown(d)' <=> Teardown(d)
                                      /\ Waiting(d)' <=> Waiting(d)
                                      /\ pc'[d] = "join" <=> pc[d] = "join"
                                      /\ Bound(d) \/ Teardown(d) \/ Waiting(d) =>
                                           ctx'[d] = ctx[d] /\ pc'[d] = pc[d]
  BY JoinedFacts
<1>2. TypeOK'
  BY DEF TypeOK, Joined
<1>3. PlaceInv' /\ JobInv' /\ ActiveInv'
  <2>1. \A d \in Contexts : Waiting(d)' <=> Waiting(d)
    BY <1>1
  <2>2. \A d \in Contexts : Waiting(d) => /\ ctx'[d].thread_pool = ctx[d].thread_pool
                                          /\ ctx'[d].nthreads = ctx[d].nthreads
    BY <1>1
  <2>3. job' = job
    BY DEF Joined
  <2>. QED BY <2>1, <2>2, <2>3, JobsKept, ActiveKept
<1>4. CtxInv'
  <2> SUFFICES ASSUME NEW d \in Contexts PROVE CtxOf(d)'
    BY DEF CtxInv
  <2>1. initlib' /\ epoch' = epoch /\ epoch \in Nat
    BY DEF Joined, TypeOK
  <2>2. CASE d = c
    BY <1>1, <2>1, <2>2 DEF Joined, CtxOf
  <2>3. CASE d # c
    <3>1. CtxOf(d) /\ (Bound(d)' <=> Bound(d))
      BY <1>1, <2>3 DEF CtxInv
    <3>2. CASE ctx'[d] = ctx[d] /\ pc'[d] = pc[d]
      <4>1. Bound(d) => /\ pool'[ctx[d].thread_pool].live
                        /\ pool'[ctx[d].thread_pool].nthreads = pool[ctx[d].thread_pool].nthreads
        <5>1. Bound(d) => ctx[d].thread_pool \in PoolIds /\ pool[ctx[d].thread_pool].live
          BY <3>1 DEF CtxOf, Bound
        <5>. QED BY <5>1
      <4>. QED BY <2>1, <3>1, <3>2, <4>1 DEF CtxOf
    <3>3. CASE pc'[d] = "idle" /\ ctx'[d].backend = "serial" /\ ctx'[d].pool_epoch = 0
      BY <2>1, <3>3 DEF CtxOf, Bound
    <3>. QED BY <2>3, <3>2, <3>3 DEF Joined
  <2>. QED BY <2>2, <2>3
<1>5. RegInv'
  <2>1. \A q \in Reg' : pool'[q].live
    BY RegFacts DEF RegInv
  <2>2. ASSUME NEW q \in PoolIds, pool'[q].live
        PROVE  q \in Reg' \/ \E d \in Contexts : Teardown(d)' /\ ctx'[d].thread_pool = q
    <3>1. CASE q = p
      BY <3>1
    <3>2. CASE q # p /\ q \in Reg
      BY <3>2
    <3>3. CASE q # p /\ q \notin Reg
      <4>1. PICK d \in Contexts : Teardown(d) /\ ctx[d].thread_pool = q
        BY <2>2, <3>3 DEF RegInv
      <4>2. d # c
        BY <1>1, <4>1
      <4>. QED BY <1>1, <4>1, <4>2
    <3>. QED BY <3>1, <3>2, <3>3
  <2>3. ASSUME NEW d \in Contexts, Teardown(d)'
        PROVE  /\ ctx'[d].thread_pool \notin Reg'
               /\ \A e \in Contexts : Bound(e)' /\ ctx'[e].thread_pool = ctx'[d].thread_pool => e = d
               /\ pool'[ctx'[d].thread_pool].active_jobs = 0
    <3>1. d # c /\ Teardown(d) /\ ctx'[d] = ctx[d]
      BY <1>1, <2>3
    <3>2. ctx[d].thread_pool \in PoolIds /\ ctx[d].thread_pool # p
      BY <3>1, TeardownBound
    <3>3. \A e \in Contexts : e # c /\ Bound(e)' => Bound(e) /\ ctx'[e] = ctx[e]
      BY <1>1
    <3>4. ctx'[c].thread_pool = p
      BY DEF Joined
    <3>5. /\ ctx[d].thread_pool \notin Reg
          /\ \A e \in Contexts : Bound(e) /\ ctx[e].thread_pool = ctx[d].thread_pool => e = d
          /\ pool[ctx[d].thread_pool].active_jobs = 0
      BY <3>1 DEF RegInv
    <3>6. ctx'[d].thread_pool \notin Reg'
      BY <3>1, <3>2, <3>5
    <3>7. ASSUME NEW e \in Contexts, Bound(e)', ctx'[e].thread_pool = ctx'[d].thread_pool
          PROVE  e = d
      <4>1. e # c
        BY <3>1, <3>2, <3>4, <3>7
      <4>. QED BY <3>1, <3>3, <3>5, <3>7, <4>1
    <3>8. pool'[ctx'[d].thread_pool].active_jobs = 0
      BY <3>1, <3>2, <3>5
    <3>. QED BY <3>6, <3>7, <3>8
  <2>4. ASSUME NEW q \in PoolIds, pool'[q].shutdown
        PROVE  \/ \E d \in Contexts : pc'[d] = "join" /\ ctx'[d].thread_pool = q
               \/ pc'[GlobalCtx] = "sweep_join" /\ q = shared_pools'[1]
    <3>1. q # p /\ pool[q].shutdown
      BY <2>4
    <3>2. PICK d \in Contexts : pc[d] = "join" /\ ctx[d].thread_pool = q
      BY <3>1 DEF RegInv, Sweeping
    <3>3. d # c /\ Teardown(d)
      BY <3>2 DEF Teardown
    <3>. QED BY <1>1, <3>2, <3>3
  <2>5. pc'[GlobalCtx] # "sweep_join"
    BY DEF Sweeping
  <2>. QED BY <2>1, <2>2, <2>3, <2>4, <2>5 DEF RegInv
<1>6. RefsInv'
  <2> SUFFICES ASSUME NEW q \in PoolIds, pool'[q].live
               PROVE  pool'[q].context_refs = Cardinality(Attached(q)')
    BY DEF RefsInv
  <2>0. \A d \in Contexts : d \in Attached(q) <=> Bound(d) /\ ~Teardown(d) /\ ctx[d].thread_pool = q
    BY DEF Attached, Bound, Teardown
  <2>1. \A d \in Contexts : d \in Attached(q)' <=> Bound(d)' /\ ~Teardown(d)' /\ ctx'[d].thread_pool = q
    BY DEF Attached, Bound, Teardown
  <2>2. Attached(q) \subseteq Contexts /\ Attached(q)' \subseteq Contexts
    BY DEF Attached
  <2>3. \A d \in Contexts : d # c => (d \in Attached(q)' <=> d \in Attached(q))
    BY <1>1, <2>0, <2>1
  <2>4. CASE q = p
    <3>1. c \in Attached(p)' /\ c \notin Attached(p)
      BY <1>1, <2>0, <2>1, <2>4 DEF Joined
    <3>2. Attached(p)' = Attached(p) \cup {c}
      BY <2>2, <2>3, <2>4, <3>1
    <3>. QED BY <2>2, <2>4, <3>1, <3>2, ContextsCounted
  <2>5. CASE q # p
    <3>1. c \notin Attached(q)' /\ c \notin Attached(q)
      BY <1>1, <2>0, <2>1, <2>5 DEF Joined
    <3>2. \A d \in Contexts : d \in Attached(q)' <=> d \in Attached(q)
      BY <2>3, <3>1
    <3>3. Attached(q)' = Attached(q)
      BY <2>2, <3>2
    <3>. QED BY <2>5, <3>3 DEF RefsInv
  <2>. QED BY <2>4, <2>5
<1>. QED BY <1>2, <1>3, <1>4, <1>5, <1>6

(* A context finds the pool in the registry. *)
LEMMA AttachShares ==
  ASSUME IInv, NEW c \in Contexts, pc[c] = "attach", NEW p \in Reg,
         pool[p].nthreads = ctx[c].nthreads, SharePool(p),
         Joined(c, p), CtlInv', ~Sweeping, ~Sweeping'
  PROVE  IInv'
<1> USE DEF IInv
<1>1. p \in PoolIds /\ pool[p].live
  BY RegFacts DEF RegInv
<1>2. PICK x \in PoolRec :
        /\ x = [pool[p] EXCEPT !.context_refs = @ + 1]
        /\ x.live = pool[p].live /\ x.nthreads = pool[p].nthreads /\ x.shutdown = pool[p].shutdown
        /\ x.context_refs = pool[p].context_refs + 1 /\ x.active_jobs = pool[p].active_jobs
        /\ x.queue = pool[p].queue
  <2>1. pool[p] \in PoolRec
    BY <1>1 DEF TypeOK
  <2>2. [pool[p] EXCEPT !.context_refs = @ + 1] \in PoolRec
    BY <2>1 DEF PoolRec
  <2>. QED BY <2>1, <2>2 DEF PoolRec
<1>3. pool' = [pool EXCEPT ![p] = x] /\ worker' = worker /\ shared_pools' = shared_pools
  BY <1>2 DEF SharePool
<1>4. /\ pool' \in [PoolIds -> PoolRec] /\ pool'[p] = x
      /\ \A q \in PoolIds : q # p => pool'[q] = pool[q]
  BY <1>1, <1>3 DEF TypeOK
<1>5. /\ worker' \in [PoolIds -> [AllTids -> WorkerRec]] /\ shared_pools' \in Seq(PoolIds)
      /\ WorkersCalm /\ QueuesAlike
      /\ \A q \in PoolIds : pool'[q].active_jobs = pool[q].active_jobs
  BY <1>2, <1>3, <1>4 DEF TypeOK, WorkersCalm, QueuesAlike
<1>6. WorkInv'
  BY <1>1, <1>2, <1>3, <1>4 DEF WorkInv
<1>7. ~pool'[p].shutdown
  <2>1. \A d \in Contexts : pc[d] = "join" => ctx[d].thread_pool # p
    BY DEF RegInv, Teardown
  <2>. QED BY <1>1, <1>2, <1>4, <2>1 DEF RegInv, Sweeping
<1>8. pool'[p].context_refs = Cardinality(Attached(p)) + 1
  BY <1>1, <1>2, <1>4 DEF RefsInv
<1>9. Reg' = Reg \cup {p}
  BY <1>3 DEF Reg
<1>10. \A d \in Contexts : Teardown(d) => ctx[d].thread_pool # p
  BY DEF RegInv
<1>11. \A i, j \in DOMAIN shared_pools' :
         pool'[shared_pools'[i]].nthreads = pool'[shared_pools'[j]].nthreads => i = j
  <2>1. \A q \in PoolIds : pool'[q].nthreads = pool[q].nthreads
    BY <1>2, <1>4
  <2>. QED BY <1>3, <2>1, RegFacts DEF RegInv
<1>12. pool'[p].live /\ pool'[p].nthreads = ctx[c].nthreads
  BY <1>1, <1>2, <1>4
<1>13. pool[p].live => pool'[p].nthreads = pool[p].nthreads
  BY <1>2, <1>4
<1>14. /\ pool' \in [PoolIds -> PoolRec]
       /\ \A q \in PoolIds : q # p => pool'[q] = pool[q]
  BY <1>4
<1>. QED BY <1>1, <1>5, <1>6, <1>7, <1>8, <1>9, <1>10, <1>11, <1>12, <1>13, <1>14, AttachKeeps

(* A pool joins the registry at its head. *)
LEMMA Pushed ==
  ASSUME TypeOK, NEW p \in PoolIds, shared_pools' = <<p>> \o shared_pools
  PROVE  /\ shared_pools' \in Seq(PoolIds) /\ Reg' = Reg \cup {p}
         /\ \A i \in DOMAIN shared_pools' :
              /\ i \in Int
              /\ \/ i = 1 /\ shared_pools'[i] = p
                 \/ /\ i # 1 /\ i - 1 \in DOMAIN shared_pools
                    /\ shared_pools'[i] = shared_pools[i - 1]
<1> DEFINE s == shared_pools
           r == <<p>> \o s
<1>1. s \in Seq(PoolIds) /\ Len(s) \in Nat /\ DOMAIN s = 1 .. Len(s)
  BY LenProperties DEF TypeOK
<1>2. <<p>> \in Seq(PoolIds) /\ Len(<<p>>) = 1 /\ <<p>>[1] = p
  OBVIOUS
<1> HIDE DEF s
<1>3. /\ r \in Seq(PoolIds) /\ Len(r) = 1 + Len(s)
      /\ \A i \in 1 .. 1 + Len(s) : r[i] = IF i <= 1 THEN <<p>>[i] ELSE s[i - 1]
  BY <1>1, <1>2, ConcatProperties
<1>4. DOMAIN r = 1 .. 1 + Len(s)
  BY <1>3, LenProperties
<1> HIDE DEF r
<1>5. ASSUME NEW i \in DOMAIN r
      PROVE  /\ i \in Int
             /\ \/ i = 1 /\ r[i] = p
                \/ i # 1 /\ i - 1 \in DOMAIN s /\ r[i] = s[i - 1]
  <2>1. i \in 1 .. 1 + Len(s)
    BY <1>4
  <2>2. CASE i = 1
    BY <1>1, <1>2, <1>3, <2>1, <2>2
  <2>3. CASE i # 1
    BY <1>1, <1>3, <2>1, <2>3
  <2>. QED BY <2>2, <2>3
<1>6. ASSUME NEW i \in DOMAIN s PROVE i + 1 \in DOMAIN r /\ r[i + 1] = s[i]
  <2>1. i \in Nat /\ i + 1 \in 1 .. 1 + Len(s) /\ i + 1 # 1 /\ (i + 1) - 1 = i
    BY <1>1
  <2>. QED BY <1>4, <1>5, <2>1
<1>7. 1 \in DOMAIN r /\ r[1] = p
  BY <1>1, <1>4, <1>5
<1>8. {r[i] : i \in DOMAIN r} = {s[i] : i \in DOMAIN s} \cup {p}
  BY <1>5, <1>6, <1>7
<1>9. shared_pools' = r /\ shared_pools = s
  BY DEF r, s
<1>10. Reg' = Reg \cup {p}
  BY <1>8, <1>9 DEF Reg
<1>. QED BY <1>3, <1>5, <1>9, <1>10

(* A context makes the pool. *)
LEMMA AttachCreates ==
  ASSUME IInv, NEW c \in Contexts, pc[c] = "attach", NEW p \in PoolIds, ~pool[p].live,
         FindPool(ctx[c].nthreads) = NoPool, CreatePool(p, ctx[c].nthreads),
         Joined(c, p), CtlInv', ~Sweeping, ~Sweeping'
  PROVE  IInv'
<1> USE DEF IInv
<1>1. PICK n \in Sizes : n = ctx[c].nthreads
  BY DEF TypeOK, CtxRec
<1>2. Tids(n) \subseteq AllTids /\ 0 \in AllTids
  BY TidsFacts
<1>3. PICK x \in PoolRec :
        /\ x = [FreePool EXCEPT !.live = TRUE, !.nthreads = n, !.context_refs = 1]
        /\ x.live /\ x.nthreads = n /\ ~x.shutdown
        /\ x.context_refs = 1 /\ x.active_jobs = 0 /\ x.queue = <<>>
  <2>1. TRUE \in BOOLEAN /\ FALSE \in BOOLEAN
    BY Zenon
  <2>2. <<>> \in Seq(Entry)
    OBVIOUS
  <2>3. PICK y \in PoolRec : /\ y = FreePool /\ ~y.shutdown
                             /\ y.active_jobs = 0 /\ y.queue = <<>>
    <3>1. FreePool \in PoolRec
      BY <2>1, <2>2 DEF PoolRec, FreePool
    <3>2. ~FreePool.shutdown /\ FreePool.active_jobs = 0 /\ FreePool.queue = <<>>
      BY DEF FreePool
    <3>. QED BY <3>1, <3>2
  <2>4. [y EXCEPT !.live = TRUE, !.nthreads = n, !.context_refs = 1] \in PoolRec
    BY <2>1 DEF PoolRec
  <2>. QED BY <2>3, <2>4 DEF PoolRec
<1> DEFINE w == [t \in AllTids |-> IF t \in Tids(n) THEN [NoWorker EXCEPT !.at = "check"]
                                   ELSE NoWorker]
<1>4. /\ pool' = [pool EXCEPT ![p] = x] /\ worker' = [worker EXCEPT ![p] = w]
      /\ shared_pools' = <<p>> \o shared_pools
  BY <1>1, <1>3 DEF CreatePool
<1>5. w \in [AllTids -> WorkerRec]
      /\ \A t \in AllTids : w[t].at = IF t \in Tids(n) THEN "check" ELSE "none"
  <2>1. NoWorker \in WorkerRec /\ NoWorker.at = "none"
    BY <1>2 DEF NoWorker, WorkerRec, WorkerStates
  <2>2. [NoWorker EXCEPT !.at = "check"] \in WorkerRec /\ [NoWorker EXCEPT !.at = "check"].at = "check"
    BY <2>1 DEF WorkerRec, WorkerStates
  <2>. QED BY <2>1, <2>2
<1> HIDE DEF w
<1>6. /\ pool' \in [PoolIds -> PoolRec] /\ pool'[p] = x
      /\ \A q \in PoolIds : q # p => pool'[q] = pool[q]
  BY <1>4 DEF TypeOK
<1>7. /\ worker' \in [PoolIds -> [AllTids -> WorkerRec]] /\ worker'[p] = w
      /\ \A q \in PoolIds : q # p => worker'[q] = worker[q]
  BY <1>4, <1>5 DEF TypeOK
<1>8. pool[p].active_jobs = 0 /\ pool[p].queue = <<>>
  BY DEF WorkInv, FreePool
<1>9. \A t \in AllTids : worker[p][t].at = "none"
  BY DEF WorkInv
<1>10. WorkersCalm
  <2> SUFFICES ASSUME NEW q \in PoolIds, NEW t \in AllTids
               PROVE  \/ worker'[q][t] = worker[q][t]
                      \/ worker[q][t].at \in Calm /\ worker'[q][t].at \in Calm
    BY DEF WorkersCalm
  <2>1. CASE q = p
    BY <1>5, <1>7, <1>9, <2>1 DEF Calm
  <2>2. CASE q # p
    BY <1>7, <2>2
  <2>. QED BY <2>1, <2>2
<1>11. QueuesAlike /\ \A q \in PoolIds : pool'[q].active_jobs = pool[q].active_jobs
  BY <1>3, <1>6, <1>8 DEF QueuesAlike
<1>12. WorkInv'
  <2>1. ASSUME NEW q \in PoolIds, ~pool'[q].live PROVE pool'[q] = FreePool
    BY ZenonT(30), <1>3, <1>6, <2>1 DEF WorkInv
  <2>2. ASSUME NEW q \in PoolIds, NEW t \in AllTids
        PROVE  /\ worker'[q][t].at = "none" <=> ~(pool'[q].live /\ t \in Tids(pool'[q].nthreads))
               /\ worker'[q][t].at \in Holding => worker'[q][t].job \in Contexts
    <3>1. CASE q = p
      BY <1>3, <1>5, <1>6, <1>7, <3>1 DEF Holding
    <3>2. CASE q # p
      BY <1>6, <1>7, <3>2 DEF WorkInv
    <3>. QED BY <3>1, <3>2
  <2>. QED BY <2>1, <2>2 DEF WorkInv
<1>13. \A d \in Contexts : Bound(d) => ctx[d].thread_pool # p
  BY DEF CtxInv, CtxOf
<1>14. pool'[p].context_refs = Cardinality(Attached(p)) + 1
  <2>1. \A d \in Contexts : d \notin Attached(p)
    BY <1>13 DEF Attached, Bound
  <2>2. Attached(p) = {}
    BY <2>1 DEF Attached
  <2>. QED BY <1>3, <1>6, <2>2, FS_EmptySet
<1>15. /\ shared_pools' \in Seq(PoolIds) /\ Reg' = Reg \cup {p}
       /\ \A i \in DOMAIN shared_pools' :
            /\ i \in Int
            /\ \/ i = 1 /\ shared_pools'[i] = p
               \/ /\ i # 1 /\ i - 1 \in DOMAIN shared_pools
                  /\ shared_pools'[i] = shared_pools[i - 1]
  BY <1>4, Pushed
<1>16. \A d \in Contexts : Teardown(d) => ctx[d].thread_pool # p
  BY <1>13, TeardownBound
<1>17. \A i \in DOMAIN shared_pools : /\ shared_pools[i] \in PoolIds /\ shared_pools[i] # p
                                      /\ pool[shared_pools[i]].nthreads # n
  <2>1. \A i \in DOMAIN shared_pools : shared_pools[i] \in PoolIds /\ shared_pools[i] # p
    BY RegFacts DEF RegInv
  <2>2. ASSUME NEW i \in DOMAIN shared_pools, pool[shared_pools[i]].nthreads = n PROVE FALSE
    <3> DEFINE k == CHOOSE j \in DOMAIN shared_pools : pool[shared_pools[j]].nthreads = n
    <3>1. k \in DOMAIN shared_pools
      BY <2>2
    <3>2. FindPool(n) = shared_pools[k]
      BY <2>2 DEF FindPool
    <3>. QED BY <1>1, <2>1, <3>1, <3>2, NullAssumption
  <2>. QED BY <2>1, <2>2
<1>18. ASSUME NEW i \in DOMAIN shared_pools', NEW j \in DOMAIN shared_pools',
              pool'[shared_pools'[i]].nthreads = pool'[shared_pools'[j]].nthreads
       PROVE  i = j
  <2>1. pool'[p].nthreads = n
    BY <1>3, <1>6
  <2>2. \A k \in DOMAIN shared_pools' : k # 1 =>
          /\ k \in Int /\ k - 1 \in DOMAIN shared_pools
          /\ pool'[shared_pools'[k]].nthreads = pool[shared_pools[k - 1]].nthreads
          /\ pool'[shared_pools'[k]].nthreads # n
    BY <1>6, <1>15, <1>17
  <2>3. \A k \in DOMAIN shared_pools' : k = 1 => pool'[shared_pools'[k]].nthreads = n
    BY <1>15, <2>1
  <2>4. CASE i # 1 /\ j # 1
    <3>1. i - 1 = j - 1
      BY <1>18, <2>2, <2>4 DEF RegInv
    <3>. QED BY <2>2, <2>4, <3>1
  <2>. QED BY <1>18, <2>2, <2>3, <2>4
<1>19. pool'[p].live /\ pool'[p].nthreads = ctx[c].nthreads /\ ~pool'[p].shutdown
  BY <1>1, <1>3, <1>6
<1>20. /\ pool' \in [PoolIds -> PoolRec] /\ worker' \in [PoolIds -> [AllTids -> WorkerRec]]
       /\ \A q \in PoolIds : q # p => pool'[q] = pool[q]
  BY <1>6, <1>7
<1>. QED BY <1>10, <1>11, <1>12, <1>14, <1>15, <1>16, <1>18, <1>19, <1>20, AttachKeeps

(* attach_shared_pool *)
LEMMA AttachPoolStep ==
  ASSUME IInv, NEW c \in Contexts, AttachPool(c)
  PROVE  IInv'
<1> USE DEF IInv
<1> DEFINE n == ctx[c].nthreads
<1>1. pc[c] = "attach"
  BY DEF AttachPool
<1>2. PICK p \in IF FindPool(n) # NoPool THEN {FindPool(n)} ELSE {q \in PoolIds : ~pool[q].live} :
        /\ IF FindPool(n) # NoPool THEN SharePool(p) ELSE CreatePool(p, n)
        /\ \E q \in {"submit", "idle"} :
             InitFields([ctx EXCEPT ![c].thread_pool = p,
                                    ![c].backend = "shared_pool",
                                    ![c].pool_epoch = epoch],
                        [pc EXCEPT ![c] = q])
        /\ UNCHANGED <<epoch, job, caller>>
  BY Zenon DEF AttachPool
<1>3. FindPool(n) # NoPool => FindPool(n) \in Reg /\ pool[FindPool(n)].nthreads = n
  <2>1. ASSUME FindPool(n) # NoPool
        PROVE  FindPool(n) \in Reg /\ pool[FindPool(n)].nthreads = n
    <3> DEFINE k == CHOOSE i \in DOMAIN shared_pools : pool[shared_pools[i]].nthreads = n
    <3>1. \E i \in DOMAIN shared_pools : pool[shared_pools[i]].nthreads = n
      BY <2>1 DEF FindPool
    <3>2. k \in DOMAIN shared_pools /\ pool[shared_pools[k]].nthreads = n
      BY <3>1
    <3>3. FindPool(n) = shared_pools[k]
      BY <3>1 DEF FindPool
    <3>. QED BY <3>2, <3>3 DEF Reg
  <2>. QED BY <2>1
<1>4. p \in PoolIds
  BY <1>2, <1>3, RegFacts
<1>5. Joined(c, p) /\ CtlInv' /\ ~Sweeping /\ ~Sweeping'
  <2>1. PICK q \in {"submit", "idle"} :
          InitFields([ctx EXCEPT ![c].thread_pool = p,
                                 ![c].backend = "shared_pool",
                                 ![c].pool_epoch = epoch],
                     [pc EXCEPT ![c] = q])
    BY <1>2, Zenon
  <2>2. UNCHANGED <<epoch, job, caller>>
    BY <1>2, Zenon
  <2>. QED BY <1>1, <1>4, <2>1, <2>2, AttachJoins, Zenon
<1> HIDE DEF n
<1>6. CASE FindPool(n) # NoPool
  <2>1. p \in Reg /\ pool[p].nthreads = n /\ SharePool(p)
    BY <1>2, <1>3, <1>6
  <2>. QED BY <1>1, <1>5, <2>1, AttachShares DEF n
<1>7. CASE FindPool(n) = NoPool
  <2>1. ~pool[p].live /\ CreatePool(p, n)
    BY <1>2, <1>7
  <2>. QED BY <1>1, <1>4, <1>5, <1>7, <2>1, AttachCreates DEF n
<1>. QED BY <1>6, <1>7
-----------------------------------------------------------------------------
(* The invariant holds. *)

(* At first there is neither a pool nor a job. *)
LEMMA InitIInv == Init => IInv
<1> SUFFICES ASSUME Init PROVE IInv
  OBVIOUS
<1>0. TRUE \in BOOLEAN /\ FALSE \in BOOLEAN
  BY Zenon
<1>1. \A c \in Contexts : /\ ctx[c] \in CtxRec /\ ctx[c].backend = "serial"
                          /\ ctx[c].pool_epoch = 0
  <2>1. \A n \in Sizes : /\ NewCtx(n) \in CtxRec /\ NewCtx(n).backend = "serial"
                         /\ NewCtx(n).pool_epoch = 0
    BY DEF NewCtx, CtxRec
  <2>. QED BY <2>1 DEF Init
<1>2. ctx \in [Contexts -> CtxRec]
  BY <1>1 DEF Init
<1>3. 0 \in AllTids
  <2>1. ctx[GlobalCtx] \in {NewCtx(n) : n \in Sizes}
    BY GlobalAssumption DEF Init
  <2>. QED BY <2>1, TidsFacts
<1>4. FreePool \in PoolRec /\ ~FreePool.live /\ ~FreePool.shutdown
      /\ FreePool.queue = <<>> /\ FreePool.active_jobs = 0
  <2>1. <<>> \in Seq(Entry)
    OBVIOUS
  <2>2. FreePool \in PoolRec
    BY <1>0, <2>1 DEF FreePool, PoolRec
  <2>. QED BY <2>2 DEF FreePool
<1>5. NoWorker \in WorkerRec /\ NoWorker.at = "none"
  BY <1>3 DEF NoWorker, WorkerRec, WorkerStates
<1>6. NoJob \in JobRec
  BY <1>0 DEF NoJob, JobRec
<1>7. /\ \A p \in PoolIds : pool[p] = FreePool
      /\ \A p \in PoolIds, t \in AllTids : worker[p][t] = NoWorker
      /\ \A c \in Contexts : job[c] = NoJob /\ caller[c] = "nobody"
                             /\ pc[c] = IF c = GlobalCtx THEN "idle" ELSE "none"
      /\ initlib = TRUE /\ epoch = 0 /\ shared_pools = <<>>
  BY DEF Init
<1>8. TypeOK
  <2>1. pool \in [PoolIds -> PoolRec] /\ job \in [Contexts -> JobRec]
    BY <1>4, <1>6 DEF Init
  <2>2. worker \in [PoolIds -> [AllTids -> WorkerRec]]
    BY <1>5 DEF Init
  <2>3. pc \in [Contexts -> PCs] /\ caller \in [Contexts -> Callers]
    BY DEF Init, PCs, Callers
  <2>4. initlib \in BOOLEAN /\ epoch \in Nat /\ shared_pools \in Seq(PoolIds)
    BY <1>0, <1>7
  <2>. QED BY <1>2, <2>1, <2>2, <2>3, <2>4 DEF TypeOK
<1>9. \A c \in Contexts : ~Bound(c) /\ ~Teardown(c) /\ ~Waiting(c) /\ pc[c] \in {"idle", "none"}
  BY <1>1, <1>7 DEF Bound, Teardown, Waiting
<1>10. CtlInv
  BY <1>7, <1>9, GlobalAssumption DEF CtlInv, NotDestroying
<1>11. CtxInv
  BY <1>1, <1>7, <1>9 DEF CtxInv, CtxOf
<1>12. Reg = {} /\ DOMAIN shared_pools = {}
  BY <1>7 DEF Reg
<1>13. RegInv
  BY <1>4, <1>7, <1>9, <1>12, GlobalAssumption DEF RegInv
<1>14. RefsInv
  BY <1>4, <1>7 DEF RefsInv
<1>15. WorkInv
  BY <1>4, <1>5, <1>7 DEF WorkInv, Holding
<1>16. \A p \in PoolIds : Busy(p) = {} /\ \A c \in Contexts : HoldersOf(p, c) = {}
  BY <1>5, <1>7 DEF Busy, HoldersOf, Holding
<1>17. \A p \in PoolIds, c \in Contexts : QueuedTids(p, c) = {}
  BY <1>4, <1>7 DEF QueuedTids
<1>18. ActiveInv
  <2>1. Len(<<>>) = 0 /\ Cardinality({}) = 0
    BY FS_EmptySet
  <2>2. \A p \in PoolIds : pool[p].active_jobs = 0 /\ Len(pool[p].queue) = 0
                           /\ Cardinality(Busy(p)) = 0
    BY <1>4, <1>7, <1>16, <2>1
  <2>. QED BY <2>2 DEF ActiveInv
<1>19. PlaceInv
  BY <1>7, <1>9, <1>16, <1>17 DEF PlaceInv
<1>20. JobInv
  BY <1>9 DEF JobInv
<1>. QED BY <1>8, <1>10, <1>11, <1>13, <1>14, <1>15, <1>18, <1>19, <1>20 DEF IInv

(* Every step keeps it. *)
LEMMA NextIInv ==
  ASSUME IInv, [Next]_vars
  PROVE  IInv'
<1>1. ASSUME NEW c \in Contexts, NEW n \in Sizes, CreateCtx(c, n) PROVE IInv'
  BY <1>1, CreateCtxStep
<1>2. ASSUME NEW c \in Contexts, NEW n \in Sizes, SetNewNthreads(c, n) PROVE IInv'
  BY <1>2, SetNewNthreadsStep
<1>3. ASSUME NEW c \in Contexts, CheckNthreads(c) PROVE IInv'
  BY <1>3, CheckNthreadsStep
<1>4. ASSUME NEW c \in Contexts, FreeCtx(c) PROVE IInv'
  BY <1>4, FreeCtxStep
<1>5. ASSUME NEW c \in Contexts, ContextStep(c) PROVE IInv'
  <2>1. CASE ReleaseBackend(c)
    BY <2>1, ReleaseBackendStep
  <2>2. CASE ShutdownPool(c)
    BY <2>2, ShutdownPoolStep
  <2>3. CASE JoinPool(c)
    BY <2>3, JoinPoolStep
  <2>4. CASE AttachPool(c)
    BY <2>4, AttachPoolStep
  <2>5. CASE AttachFails(c)
    BY <2>5, AttachFailsStep
  <2>6. CASE Submit(c)
    BY <2>6, SubmitStep
  <2>7. CASE SubmitFails(c)
    BY <2>7, SubmitFailsStep
  <2>8. CASE WaitJob(c)
    BY <2>8, WaitJobStep
  <2>. QED BY <1>5, <2>1, <2>2, <2>3, <2>4, <2>5, <2>6, <2>7, <2>8 DEF ContextStep
<1>6. ASSUME NEW p \in PoolIds, NEW t \in AllTids, WorkerStep(p, t) PROVE IInv'
  <2>1. CASE WorkerTake(p, t)
    BY <2>1, WorkerTakeStep
  <2>2. CASE WorkerRun(p, t)
    BY <2>2, WorkerRunStep
  <2>3. CASE WorkerSignal(p, t)
    BY <2>3, WorkerSignalStep
  <2>4. CASE WorkerAccount(p, t)
    BY <2>4, WorkerAccountStep
  <2>. QED BY <1>6, <2>1, <2>2, <2>3, <2>4 DEF WorkerStep
<1>7. CASE LibInit
  BY <1>7, LibInitStep
<1>8. CASE DestroyBegin
  BY <1>8, DestroyBeginStep
<1>9. CASE DestroyStep
  BY <1>9, DestroySweepStep, DestroySweepJoinStep DEF DestroyStep
<1>10. CASE SpuriousWake
  BY <1>10, SpuriousWakeStep
<1>11. CASE UNCHANGED vars
  <2>1. /\ initlib' = initlib /\ epoch' = epoch /\ shared_pools' = shared_pools
        /\ pool' = pool /\ worker' = worker /\ ctx' = ctx /\ job' = job
        /\ pc' = pc /\ caller' = caller
    BY <1>11 DEF vars
  <2>2. \A c \in Contexts : ctx'[c] = ctx[c] /\ pc'[c] = pc[c]
    BY <2>1
  <2>3. TypeOK'
    BY <2>1 DEF IInv, TypeOK
  <2>4. CtlInv'
    BY <2>1 DEF IInv, CtlInv, NotDestroying
  <2>. QED BY <2>1, <2>2, <2>3, <2>4, ContextsMove
<1>. QED BY <1>1, <1>2, <1>3, <1>4, <1>5, <1>6, <1>7, <1>8, <1>9, <1>10, <1>11 DEF Next

(* IInv is an invariant. *)
LEMMA InvHolds == Spec => []IInv
<1>1. IInv /\ [Next]_vars => IInv'
  BY NextIInv
<1>. QED BY <1>1, InitIInv, PTL DEF Spec
-----------------------------------------------------------------------------
(* What it means. *)

(* The variables keep their types; in particular no counter of a pool or   *)
(* of a job is ever decremented below zero.                                *)
THEOREM PoolTypes == Spec => []TypeOK
<1>1. IInv => TypeOK
  BY DEF IInv
<1>. QED BY <1>1, InvHolds, PTL

(* By the time parallel_blosc submits, check_nthreads has noticed every    *)
(* blosc2_destroy, and the pool has as many threads as the context wants.  *)
THEOREM NoStaleSubmit == Spec => []NoSubmitToStalePool
<1>1. IInv => NoSubmitToStalePool
  <2> SUFFICES ASSUME IInv, NEW c \in Contexts, pc[c] \in {"submit", "wait", "wait_sleep"}
               PROVE  /\ ctx[c].backend = "shared_pool" /\ ~Stale(ctx[c])
                      /\ pool[ctx[c].thread_pool].nthreads = ctx[c].nthreads
    BY DEF NoSubmitToStalePool
  <2>. QED BY DEF IInv, CtxInv, CtxOf, Bound, Stale
<1>. QED BY <1>1, InvHolds, PTL

(* release_thread_backend and blosc2_destroy free a pool, or tell it to    *)
(* shut down, when no context and no queued entry needs it any more; the   *)
(* registry has one pool for each number of threads.                       *)
THEOREM PoolsOutliveUsers == Spec => []PoolOutlivesItsUsers
<1>1. IInv => PoolOutlivesItsUsers
  <2> SUFFICES ASSUME IInv PROVE PoolOutlivesItsUsers
    OBVIOUS
  <2> USE DEF IInv
  <2>1. ASSUME NEW p \in PoolIds, Attached(p) # {}
        PROVE  /\ pool[p].live /\ p \in {shared_pools[i] : i \in DOMAIN shared_pools}
               /\ pool[p].shutdown => caller[GlobalCtx] = "destroy"
    <3>1. PICK c \in Contexts : Bound(c) /\ ~Teardown(c) /\ ctx[c].thread_pool = p
      BY <2>1 DEF Attached, Bound, Teardown
    <3>2. p \in Reg /\ \A d \in Contexts : Teardown(d) => ctx[d].thread_pool # p
      BY <3>1, BoundInReg
    <3>3. pool[p].live
      BY <3>2 DEF RegInv
    <3>4. ASSUME pool[p].shutdown PROVE caller[GlobalCtx] = "destroy"
      <4>1. \A d \in Contexts : pc[d] = "join" => ctx[d].thread_pool # p
        BY <3>2 DEF Teardown
      <4>2. Sweeping
        BY <3>4, <4>1 DEF RegInv, Sweeping
      <4>. QED BY <4>2, SweepFacts
    <3>. QED BY <3>2, <3>3, <3>4 DEF Reg
  <2>2. ASSUME NEW p \in PoolIds, pool[p].shutdown PROVE pool[p].queue = <<>>
    <3>1. CASE \E c \in Contexts : pc[c] = "join" /\ ctx[c].thread_pool = p
      <4>1. pool[p].active_jobs = 0
        BY <3>1 DEF RegInv, Teardown
      <4>. QED BY <4>1, QuietPool
    <3>2. CASE pc[GlobalCtx] = "sweep_join"
      BY <3>2, SweepFacts DEF Sweeping
    <3>. QED BY <2>2, <3>1, <3>2 DEF RegInv
  <2>3. ASSUME NEW p \in PoolIds, NEW t \in AllTids, worker[p][t].at \notin {"none", "exited"}
        PROVE  pool[p].live
    BY <2>3 DEF WorkInv
  <2>4. \A i, j \in DOMAIN shared_pools :
          pool[shared_pools[i]].nthreads = pool[shared_pools[j]].nthreads => i = j
    BY DEF RegInv
  <2>. QED BY <2>1, <2>2, <2>3, <2>4 DEF PoolOutlivesItsUsers
<1>. QED BY <1>1, InvHolds, PTL

(* context_refs and active_jobs, on which release_thread_backend decides   *)
(* whether the pool goes, count the contexts and the entries.              *)
THEOREM CountersAreExact == Spec => []CountersExact
<1>1. IInv => CountersExact
  BY DEF IInv, RefsInv, ActiveInv, Busy, Sweeping, CountersExact
<1>. QED BY <1>1, InvHolds, PTL

(* A job group is on the stack of parallel_blosc as long as an entry or a  *)
(* worker refers to it, and pending_workers counts them.                   *)
THEOREM JobsOutliveUsers == Spec => []JobOutlivesItsUsers
<1>1. IInv => JobOutlivesItsUsers
  <2> SUFFICES ASSUME IInv, NEW p \in PoolIds, NEW c \in Contexts,
                      Cardinality(QueuedTids(p, c)) + Cardinality(HoldersOf(p, c)) > 0
               PROVE  /\ job[c].live /\ ~job[c].completed /\ pc[c] \in {"wait", "wait_sleep"}
                      /\ ctx[c].thread_pool = p
                      /\ job[c].pending_workers =
                           Cardinality(QueuedTids(p, c)) + Cardinality(HoldersOf(p, c))
    BY DEF JobOutlivesItsUsers
  <2>1. QueuedTids(p, c) # {} \/ HoldersOf(p, c) # {}
    BY FS_EmptySet
  <2>2. Waiting(c) /\ ctx[c].thread_pool = p /\ job[c].live
    BY <2>1 DEF IInv, PlaceInv
  <2>3. Counts(p, c)
    BY <2>2 DEF IInv, JobInv
  <2>. QED BY <2>2, <2>3 DEF Counts, Waiting
<1>. QED BY <1>1, InvHolds, PTL

(* When parallel_blosc sees completed, its workers ran every share of the  *)
(* static partition, and none of them is still at it.                      *)
THEOREM CompletedJobsRanAll == Spec => []CompletedMeansAllRan
<1>1. IInv => CompletedMeansAllRan
  <2> SUFFICES ASSUME IInv, NEW c \in Contexts, job[c].completed
               PROVE  job[c].ran = Tids(ctx[c].nthreads) /\ job[c].active_workers = 0
    BY DEF CompletedMeansAllRan
  <2>1. Waiting(c)
    BY DEF IInv, PlaceInv, NoJob
  <2>2. PICK p \in PoolIds : ctx[c].thread_pool = p
    BY <2>1 DEF IInv, CtxInv, CtxOf, Waiting, Bound
  <2>3. Shares(p, c) /\ Counts(p, c)
    BY <2>1, <2>2 DEF IInv, JobInv
  <2>4. QueuedTids(p, c) \subseteq AllTids /\ HoldersOf(p, c) \subseteq AllTids
    BY QueueFacts DEF IInv, QueuedTids, HoldersOf
  <2>5. QueuedTids(p, c) = {} /\ HoldersOf(p, c) = {}
    <3>1. Cardinality(QueuedTids(p, c)) + Cardinality(HoldersOf(p, c)) = 0
      BY <2>3 DEF Counts
    <3>2. Cardinality(QueuedTids(p, c)) \in Nat /\ Cardinality(HoldersOf(p, c)) \in Nat
      BY <2>4, TidsCounted
    <3>3. Cardinality(QueuedTids(p, c)) = 0 /\ Cardinality(HoldersOf(p, c)) = 0
      BY <3>1, <3>2
    <3>. QED BY <2>4, <3>3, TidsCounted
  <2>6. Runners(p, c) = {} /\ RunTids(p, c) = {}
    BY <2>5 DEF Runners, RunTids, HoldersOf, Holding
  <2>7. job[c].ran = Tids(ctx[c].nthreads)
    BY <2>3, <2>5, <2>6 DEF Shares
  <2>8. job[c].active_workers = 0
    BY <2>3, <2>5, <2>6, FS_EmptySet DEF Counts
  <2>. QED BY <2>7, <2>8
<1>. QED BY <1>1, InvHolds, PTL
=============================================================================
