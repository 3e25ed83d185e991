------------------------------- MODULE JobGroup -------------------------------
(***************************************************************************)
(* One parallel compression or decompression: the job group of             *)
(* parallel_blosc in blosc/blosc2.c and the workers that run               *)
(* t_blosc_do_job for its shares 0..NThreads-1 (non-Windows build).        *)
(*                                                                         *)
(* A share is served by a pool thread (or by a call of the user's threads  *)
(* callback); shares start in the order of their logical tid and at most   *)
(* Threads of them run at a time, the other threads of the pool being busy *)
(* with jobs of other contexts.  The bytes of a block are abstracted to    *)
(* what the codec returns for it: its size, 0 (does not shrink) or an      *)
(* error.  Every section under job->mutex or job->delta_mutex is an        *)
(* action; the codec and the memcpy into dest run outside the mutexes.     *)
(***************************************************************************)
EXTENDS Integers, FiniteSets

CONSTANTS
  NThreads,     \* context->nthreads: the number of shares
  NBlocks,      \* context->nblocks
  Threads,      \* how many shares the backend can run at a time
  BlockSize,    \* context->blocksize
  Leftover,     \* context->leftover: size of a short last block, or 0
  Overhead,     \* bytes of dest before the first block of a compression
  DestSize,     \* context->destsize
  CSizes,       \* sizes the codec may compress a block to, 0 included
  Kinds,        \* kinds of job to explore
  Masks,        \* block_maskout values to explore: NoMask, sets of blocks
  NoMask,       \* the NULL block_maskout
  Deltas,       \* whether the filter pipeline has BLOSC_DELTA
  Backends,     \* "shared_pool", "callback"
  Faults,       \* whether a block, or a worker's scratch buffer, may fail
  Spurious      \* whether waits on delta_cv may wake for no reason

ASSUME SizesAssumption ==
  /\ NThreads \in Nat \ {0, 1} /\ NBlocks \in Nat \ {0, 1}
  /\ Threads \in 1 .. NThreads
  /\ BlockSize \in Nat \ {0} /\ Leftover \in 0 .. BlockSize - 1
  /\ Overhead \in Nat /\ DestSize \in Nat /\ CSizes \subseteq Nat
ASSUME ModesAssumption ==
  /\ Kinds \subseteq {"compress", "train", "memcpy", "decompress"}
  /\ \A m \in Masks : m = NoMask \/ m \subseteq 0 .. NBlocks - 1
  /\ Deltas \subseteq BOOLEAN /\ Backends \subseteq {"shared_pool", "callback"}
  /\ Faults \in BOOLEAN /\ Spurious \subseteq BOOLEAN

Blocks == 0 .. NBlocks - 1
Shares == 0 .. NThreads - 1
Error == -1                 \* any negative return code

VARIABLES
  mode,       \* what the context asks for, and whether waits may wake early
  job,        \* struct blosc_job_group
  bstarts,    \* bstarts[b]: where dest holds block b, -1 before it is written
  reserved,   \* [block, start, size]: dest ranges handed out under job->mutex
  copied,     \* blocks memcpy'd to their range of dest
  done,       \* blocks that are through the commit section
  early,      \* blocks delta-decoded before the reference block was
  share,      \* share[t]: the worker that runs logical tid t
  returned,   \* parallel_blosc has returned
  result      \* what it returned, 0 before

vars == <<mode, job, bstarts, reserved, copied, done, early, share, returned, result>>
-----------------------------------------------------------------------------
BlockBytes(b) == IF b = NBlocks - 1 /\ Leftover > 0 THEN Leftover ELSE BlockSize
SourceSize == (NBlocks - 1) * BlockSize + BlockBytes(NBlocks - 1)

Compress == mode.kind # "decompress"
Memcpyed == mode.kind = "memcpy"
Masked(b) == mode.maskout # NoMask /\ b \in mode.maskout

(* job_group_init: decompression and plain copies partition the blocks by  *)
(* tid, unless a maskout would unbalance the shares.                       *)
StaticSchedule == (~Compress \/ Memcpyed) /\ mode.maskout = NoMask

(* context->output_bytes when the job starts. *)
FirstByte(kind) == IF kind \in {"compress", "train"} THEN Overhead ELSE 0

(* Where a worker is: queued; start (top of t_blosc_do_job); loop (the     *)
(* while test and the giveup check); work (codec); delta, delta_sleep (on  *)
(* delta_cv), decode (delta_decoder); commit (the sections after the       *)
(* codec); copy (memcpy to dest); next; job_done; signal (the pending      *)
(* count of shared_pool_worker); gone.                                     *)
Places == {"queued", "start", "loop", "work", "delta", "delta_sleep", "decode",
           "commit", "copy", "next", "job_done", "signal", "gone"}
Busy == Places \ {"queued", "gone"}
InBlock == {"work", "delta", "delta_sleep", "decode", "commit", "copy", "next"}

ShareRec == [at : Places, nblock : Nat, tblock : Nat, cbytes : {Error} \cup Nat]
JobRec == [next_block : {-1} \cup Nat, output_bytes : Nat,
           giveup_code : {Error, 0, 1}, dref_not_init : BOOLEAN,
           active_workers : Nat, pending_workers : Nat, completed : BOOLEAN]

AllModes == [kind : Kinds, maskout : Masks, delta : Deltas, backend : Backends,
             spurious : Spurious]

TypeOK ==
  /\ mode \in AllModes
  /\ job \in JobRec
  /\ bstarts \in [Blocks -> {-1} \cup Nat]
  /\ \A r \in reserved : r \in [block : Blocks, start : Nat, size : Nat]
  /\ copied \subseteq Blocks /\ done \subseteq Blocks /\ early \subseteq Blocks
  /\ share \in [Shares -> ShareRec]
  /\ returned \in BOOLEAN /\ result \in Int

(* A maskout is for decompression, and only decompression has to undo a    *)
(* delta filter in block order and waits for the reference.                *)
Modes == {m \in AllModes :
            /\ m.kind # "decompress" => m.maskout = NoMask /\ ~m.delta
            /\ m.spurious => m.delta}

Init ==
  /\ mode \in Modes
  /\ job = [next_block |-> -1, output_bytes |-> FirstByte(mode.kind),
            giveup_code |-> 1, dref_not_init |-> TRUE,
            active_workers |-> NThreads,
            pending_workers |-> IF mode.backend = "callback" THEN 0 ELSE NThreads,
            completed |-> FALSE]
  /\ bstarts = [b \in Blocks |-> -1]
  /\ reserved = {} /\ copied = {} /\ done = {} /\ early = {}
  /\ share = [t \in Shares |-> [at |-> "queued", nblock |-> 0, tblock |-> 0,
                                cbytes |-> 0]]
  /\ returned = FALSE /\ result = 0
-----------------------------------------------------------------------------
Goto(t, place) == share' = [share EXCEPT ![t].at = place]

(* A pool thread takes the head of the job queue. *)
Take(t) ==
  /\ share[t].at = "queued"
  /\ \A u \in Shares : u < t => share[u].at # "queued"
  /\ Cardinality({u \in Shares : share[u].at \in Busy}) < Threads
  /\ Goto(t, "start")
  /\ UNCHANGED <<mode, job, bstarts, reserved, copied, done, early, returned, result>>

(* ensure_thread_context_capacity cannot allocate the scratch buffers. *)
StartFails(t) ==
  /\ Faults
  /\ share[t].at = "start"
  /\ job' = [job EXCEPT !.giveup_code = Error]
  /\ Goto(t, "job_done")
  /\ UNCHANGED <<mode, bstarts, reserved, copied, done, early, returned, result>>

(* Mutant: the division is not rounded up. *)
MutBlocksPerShareFloor == NBlocks \div NThreads

(* The slice of blocks the static schedule gives to logical tid t. *)
BlocksPerShare == NBlocks \div NThreads + (IF NBlocks % NThreads > 0 THEN 1 ELSE 0)

(* Mutant: the last slice is not cut at the last block. *)
MutSliceEndUncut(t) == (t + 1) * BlocksPerShare

SliceEnd(t) == IF (t + 1) * BlocksPerShare > NBlocks THEN NBlocks
               ELSE (t + 1) * BlocksPerShare

(* claim_job_block *)
Claim(t) ==
  /\ job' = [job EXCEPT !.next_block = @ + 1]
  /\ share' = [share EXCEPT ![t].at = "loop", ![t].nblock = job.next_block + 1,
                            ![t].tblock = NBlocks]

(* The schedule a worker starts with. *)
Start(t) ==
  /\ share[t].at = "start"
  /\ IF StaticSchedule
     THEN /\ share' = [share EXCEPT ![t].at = "loop",
                                    ![t].nblock = t * BlocksPerShare,
                                    ![t].tblock = SliceEnd(t)]
          /\ UNCHANGED job
     ELSE Claim(t)
  /\ UNCHANGED <<mode, bstarts, reserved, copied, done, early, returned, result>>

(* Mutant: a worker that finds the job given up leaves without job_done. *)
MutLoopLeaves(t) ==
  /\ share[t].at = "loop"
  /\ Goto(t, IF job.giveup_code <= 0 THEN "gone"
             ELSE IF share[t].nblock >= share[t].tblock THEN "job_done" ELSE "work")
  /\ UNCHANGED <<mode, job, bstarts, reserved, copied, done, early, returned, result>>

(* The while condition and the check of giveup_code under job->mutex. *)
Loop(t) ==
  /\ share[t].at = "loop"
  /\ Goto(t, IF share[t].nblock >= share[t].tblock \/ job.giveup_code <= 0
             THEN "job_done" ELSE "work")
  /\ UNCHANGED <<mode, job, bstarts, reserved, copied, done, early, returned, result>>

(* blosc_c, blosc_d or memcpy on block nblock, outside the mutexes.  A     *)
(* block of a compression shrinks to some size, does not shrink (0) or     *)
(* fails; a masked block is skipped as if it had been decompressed; the    *)
(* delta filter comes after the codec.                                     *)
Work(t) ==
  /\ share[t].at = "work"
  /\ LET b == share[t].nblock
         failures == IF Faults /\ ~Masked(b) THEN {Error} ELSE {}
         sizes == IF Compress /\ ~Memcpyed THEN CSizes ELSE {BlockBytes(b)}
     IN \E n \in failures \cup sizes :
          share' = [share EXCEPT
            ![t].cbytes = n,
            ![t].at = IF mode.delta /\ ~Masked(b) /\ n # Error THEN "delta"
                      ELSE "commit"]
  /\ UNCHANGED <<mode, job, bstarts, reserved, copied, done, early, returned, result>>

(* Mutant: nobody waits for the reference block. *)
MutMustWaitNever(b) == FALSE

(* A block other than the reference, which is not ready. *)
MustWait(b) == b # 0 /\ job.dref_not_init

(* BLOSC_DELTA in pipeline_backward, under delta_mutex: the worker of      *)
(* block 0 decodes it and wakes the others, a worker of another block      *)
(* waits once if the reference block is not ready.                         *)
Delta(t) ==
  /\ share[t].at = "delta"
  /\ IF share[t].nblock = 0
     THEN /\ job' = [job EXCEPT !.dref_not_init = FALSE]
          /\ share' = [u \in Shares |->
               IF u = t THEN [share[u] EXCEPT !.at = "commit"]
               ELSE IF share[u].at = "delta_sleep"
               THEN [share[u] EXCEPT !.at = "decode"] ELSE share[u]]
     ELSE /\ Goto(t, IF MustWait(share[t].nblock) THEN "delta_sleep" ELSE "decode")
          /\ UNCHANGED job
  /\ UNCHANGED <<mode, bstarts, reserved, copied, done, early, returned, result>>

(* A wait on delta_cv returns although nobody signalled it. *)
DeltaSpurious(t) ==
  /\ mode.spurious
  /\ share[t].at = "delta_sleep"
  /\ Goto(t, "decode")
  /\ UNCHANGED <<mode, job, bstarts, reserved, copied, done, early, returned, result>>

(* delta_decoder on a block that is not the reference. *)
Decode(t) ==
  /\ share[t].at = "decode"
  /\ early' = IF job.dref_not_init THEN early \cup {share[t].nblock} ELSE early
  /\ Goto(t, "commit")
  /\ UNCHANGED <<mode, job, bstarts, reserved, copied, done, returned, result>>

(* The section after a block that failed. *)
CommitError(t) ==
  /\ share[t].at = "commit"
  /\ share[t].cbytes = Error
  /\ job' = [job EXCEPT !.giveup_code = IF @ > 0 THEN Error ELSE @]
  /\ Goto(t, "job_done")
  /\ UNCHANGED <<mode, bstarts, reserved, copied, done, early, returned, result>>

(* Mutant: the room is checked for the start of the block only. *)
MutNoRoomForStart(ntdest, n) == n = 0 \/ ntdest > DestSize

(* The block does not shrink, or does not fit. *)
NoRoom(ntdest, n) == n = 0 \/ ntdest + n > DestSize

(* The section after a block was compressed: its start in dest is where    *)
(* the output stands now; no room, or no gain, abandons the whole job.     *)
CommitCompressed(t) ==
  /\ share[t].at = "commit"
  /\ share[t].cbytes # Error
  /\ Compress /\ ~Memcpyed
  /\ LET b == share[t].nblock
         n == share[t].cbytes
         ntdest == job.output_bytes
     IN /\ bstarts' = IF mode.kind = "train" THEN bstarts
                      ELSE [bstarts EXCEPT ![b] = ntdest]
        /\ IF NoRoom(ntdest, n)
           THEN /\ job' = [job EXCEPT !.giveup_code = 0]
                /\ Goto(t, "job_done")
                /\ UNCHANGED <<reserved, done>>
           ELSE /\ job' = [job EXCEPT !.output_bytes = @ + n]
                /\ reserved' = reserved \cup
                                 {[block |-> b, start |-> ntdest, size |-> n]}
                /\ done' = done \cup {b}
                /\ Goto(t, "copy")
  /\ UNCHANGED <<mode, copied, early, returned, result>>

(* memcpy(dest + ntdest, tmp2, cbytes), after the mutex was released. *)
Copy(t) ==
  /\ share[t].at = "copy"
  /\ copied' = copied \cup {share[t].nblock}
  /\ Goto(t, "next")
  /\ UNCHANGED <<mode, job, bstarts, reserved, done, early, returned, result>>

(* The section after a block that needs no place of its own in dest. *)
CommitPlain(t) ==
  /\ share[t].at = "commit"
  /\ share[t].cbytes # Error
  /\ ~Compress \/ Memcpyed
  /\ job' = [job EXCEPT !.output_bytes = @ + share[t].cbytes]
  /\ done' = done \cup {share[t].nblock}
  /\ Goto(t, "next")
  /\ UNCHANGED <<mode, bstarts, reserved, copied, early, returned, result>>

(* On to the next block of the slice, or to the next one nobody claimed. *)
NextBlock(t) ==
  /\ share[t].at = "next"
  /\ IF StaticSchedule
     THEN /\ share' = [share EXCEPT ![t].at = "loop", ![t].nblock = @ + 1]
          /\ UNCHANGED job
     ELSE Claim(t)
  /\ UNCHANGED <<mode, bstarts, reserved, copied, done, early, returned, result>>

(* The section at job_done: the last active worker of a static schedule    *)
(* sets the output size; a callback backend completes the job here.        *)
JobDone(t) ==
  /\ share[t].at = "job_done"
  /\ LET last == job.active_workers = 1
         total == SourceSize + IF Compress THEN Overhead ELSE 0
     IN job' = [job EXCEPT
          !.active_workers = @ - 1,
          !.output_bytes = IF last /\ StaticSchedule /\ job.giveup_code > 0
                           THEN total ELSE @,
          !.completed = @ \/ (last /\ mode.backend = "callback")]
  /\ Goto(t, IF mode.backend = "callback" THEN "gone" ELSE "signal")
  /\ UNCHANGED <<mode, bstarts, reserved, copied, done, early, returned, result>>

(* Mutant: the job is completed one worker too early. *)
MutSignalEarly(t) ==
  /\ share[t].at = "signal"
  /\ job' = [job EXCEPT !.pending_workers = @ - 1,
                        !.completed = @ \/ job.pending_workers <= 2]
  /\ Goto(t, "gone")
  /\ UNCHANGED <<mode, bstarts, reserved, copied, done, early, returned, result>>

(* shared_pool_worker after t_blosc_do_job: the last one completes the job. *)
Signal(t) ==
  /\ share[t].at = "signal"
  /\ job' = [job EXCEPT !.pending_workers = @ - 1,
                        !.completed = @ \/ job.pending_workers = 1]
  /\ Goto(t, "gone")
  /\ UNCHANGED <<mode, bstarts, reserved, copied, done, early, returned, result>>

(* parallel_blosc resumes: completion_cv was signalled, or the callback    *)
(* returned, which it does once all its calls of dojob have.               *)
Return ==
  /\ ~returned
  /\ returned' = TRUE
  /\ IF mode.backend = "callback" THEN \A t \in Shares : share[t].at = "gone"
     ELSE job.completed
  /\ result' = IF job.giveup_code <= 0 THEN job.giveup_code ELSE job.output_bytes
  /\ UNCHANGED <<mode, job, bstarts, reserved, copied, done, early, share>>

ShareStep(t) ==
  \/ Take(t) \/ Start(t) \/ StartFails(t) \/ Loop(t) \/ Work(t)
  \/ Delta(t) \/ Decode(t)
  \/ CommitError(t) \/ CommitCompressed(t) \/ Copy(t) \/ CommitPlain(t)
  \/ NextBlock(t) \/ JobDone(t) \/ Signal(t)

Next ==
  \/ \E t \in Shares : ShareStep(t) \/ DeltaSpurious(t)
  \/ Return

(* Every thread that can run is run; a spurious wake-up is never owed. *)
Fairness == WF_vars(Return) /\ \A t \in Shares : WF_vars(ShareStep(t))

Spec == Init /\ [][Next]_vars
FairSpec == Spec /\ Fairness
-----------------------------------------------------------------------------
Succeeded == returned /\ job.giveup_code > 0

(* The dest range of a reserved block. *)
RangeOf(r) == r.start .. r.start + r.size - 1

(* Concurrent compressions never write over each other: the ranges handed  *)
(* out are disjoint, fill dest from the end of the bstarts table to        *)
(* output_bytes without a gap, and stay inside dest.                       *)
OutputTiled ==
  /\ \A r, q \in reserved : r # q => RangeOf(r) \cap RangeOf(q) = {}
  /\ \A r \in reserved : /\ r.start >= Overhead
                         /\ r.start + r.size <= DestSize
                         /\ mode.kind = "compress" => bstarts[r.block] = r.start
  /\ reserved # {} =>
       UNION {RangeOf(r) : r \in reserved} = Overhead .. job.output_bytes - 1

(* No block is ever worked on by two workers, nor worked on again once it  *)
(* is done, whether blocks are claimed or partitioned by tid.              *)
BlockWorkedOnce ==
  \A t \in Shares : share[t].at \in InBlock =>
    /\ share[t].nblock \in Blocks
    /\ \A u \in Shares \ {t} : share[u].at \in InBlock =>
         share[u].nblock # share[t].nblock
    /\ share[t].at \in {"work", "delta", "delta_sleep", "decode", "commit"} =>
         share[t].nblock \notin done

(* A call that returns success has processed and stored every block, and   *)
(* reports the number of bytes it produced.                                *)
SuccessIsComplete ==
  Succeeded =>
    /\ done = Blocks
    /\ mode.kind \in {"compress", "train"} => copied = Blocks
    /\ mode.kind = "compress" => \A b \in Blocks :
         \E r \in reserved : r.block = b /\ r.start = bstarts[b]
    /\ result = CASE mode.kind = "decompress" -> SourceSize
                  [] mode.kind = "memcpy" -> SourceSize + Overhead
                  [] OTHER -> job.output_bytes

(* parallel_blosc returns only when no worker can touch the job group any  *)
(* more: it is on the stack of the caller.                                 *)
NoWorkerAfterReturn == returned => \A t \in Shares : share[t].at = "gone"

(* The delta filter decodes the reference block before any other one:      *)
(* "Force the thread in charge of the block 0 to go first".  The wait does *)
(* not test its condition again, so this needs waits that end by a signal. *)
ReferenceDecodedFirst == ~mode.spurious => early = {}

(* Some worker is going to announce the reference block: it has block 0 in *)
(* hand, or will be given it.                                              *)
ReferencePending ==
  \/ \E t \in Shares : /\ share[t].at \in {"loop", "work", "delta"}
                       /\ share[t].nblock = 0
                       /\ share[t].tblock > 0
  \/ IF StaticSchedule THEN share[0].at \in {"queued", "start"}
     ELSE job.next_block = -1

(* The reference block of a delta pipeline was masked out, failed or given *)
(* up: no worker will ever announce it.                                    *)
ReferenceLost == mode.delta /\ job.dref_not_init
                 /\ (Masked(0) \/ ~ReferencePending)

(* Every call returns, unless it waits for a reference block that is lost. *)
ReturnsUnlessReferenceLost == <>(returned \/ ReferenceLost)
=============================================================================
