--------------------------- MODULE JobGroupProofs ---------------------------
(***************************************************************************)
(* Proofs about JobGroup, for any number of threads and blocks, any sizes  *)
(* of blocks and of dest, and any kind of job.                             *)
(***************************************************************************)
EXTENDS JobGroup, FiniteSetTheorems, TLAPS

(* Where a worker has a block, or is about to test the one it was given;   *)
(* where it has a block that is not through the commit section; where it   *)
(* has left the loop.                                                      *)
Claimed == {"loop"} \cup InBlock
Undone == {"work", "delta", "delta_sleep", "decode", "commit"}
Left == {"job_done", "signal", "gone"}

(* The jobs whose blocks get a place of their own in dest. *)
Coded == mode.kind \in {"compress", "train"}

(* Block b belongs to logical tid t under the static schedule. *)
InSlice(b, t) == t * BlocksPerShare <= b /\ b < (t + 1) * BlocksPerShare

-----------------------------------------------------------------------------
(* The inductive invariant, part by part. *)

(* Types, and the bounds of the loop that keep nblock a block. *)
TypeInv ==
  /\ TypeOK
  /\ mode \in Modes
  /\ \A t \in Shares : share[t].at \in Claimed => share[t].tblock <= NBlocks
  /\ \A t \in Shares : share[t].at \in InBlock => share[t].nblock < share[t].tblock

(* Claimed blocks: each has been counted by next_block, and no two workers *)
(* have the same.                                                          *)
ClaimInv == ~StaticSchedule =>
  /\ \A b \in done : b <= job.next_block
  /\ \A t \in Shares : share[t].at \in Claimed =>
       /\ share[t].tblock = NBlocks
       /\ share[t].nblock <= job.next_block
       /\ share[t].at \in Undone \cup {"loop"} => share[t].nblock \notin done
       /\ \A u \in Shares \ {t} : share[u].at \in Claimed =>
            share[u].nblock # share[t].nblock

(* Partitioned blocks: a worker stays in its slice, and what is done of    *)
(* the slice is what it has gone through.                                  *)
SliceInv == StaticSchedule =>
  \A t \in Shares :
    /\ share[t].at \in Claimed =>
         /\ share[t].tblock = SliceEnd(t)
         /\ t * BlocksPerShare <= share[t].nblock
    /\ \A b \in done : InSlice(b, t) =>
         /\ share[t].at \notin {"queued", "start"}
         /\ share[t].at \in Claimed => b <= share[t].nblock
         /\ share[t].at \in Undone \cup {"loop"} => b < share[t].nblock

(* The two counters of workers, and what completed and returned mean. *)
ActiveShares == {t \in Shares : share[t].at \notin {"signal", "gone"}}
PendingShares == {t \in Shares : share[t].at # "gone"}

CountInv ==
  /\ job.active_workers = Cardinality(ActiveShares)
  /\ mode.backend = "callback" => \A t \in Shares : share[t].at # "signal"
  /\ mode.backend = "shared_pool" =>
       /\ job.pending_workers = Cardinality(PendingShares)
       /\ job.completed => job.pending_workers = 0
  /\ returned => \A t \in Shares : share[t].at = "gone"

(* Who decodes has seen the reference, or was woken by its decoder. *)
DeltaInv == ~mode.spurious =>
  /\ early = {}
  /\ \A t \in Shares : share[t].at = "decode" => ~job.dref_not_init

(* What has been reserved of dest is a gapless range. *)
OutputFilled == Coded =>
  /\ job.output_bytes >= Overhead
  /\ \A x \in Overhead .. job.output_bytes - 1 : \E r \in reserved : x \in RangeOf(r)

OutputStored == Coded =>
  \A b \in done : /\ \E r \in reserved : r.block = b
                 /\ \/ b \in copied
                    \/ \E t \in Shares : share[t].at = "copy" /\ share[t].nblock = b

RangesSound ==
  /\ ~Coded => reserved = {}
  /\ \A r \in reserved : /\ r.block \in done
                         /\ r.start >= Overhead
                         /\ r.start + r.size <= job.output_bytes
                         /\ r.start + r.size <= DestSize
                         /\ mode.kind = "compress" => bstarts[r.block] = r.start

RangesDisjoint == \A r, q \in reserved : r # q => RangeOf(r) \cap RangeOf(q) = {}

OutputInv == OutputFilled /\ OutputStored /\ RangesSound /\ RangesDisjoint

(* Nothing is lost while the job is not given up: under the static         *)
(* schedule a worker has done what it has gone through; otherwise every    *)
(* claimed block is done or in hand, and a worker leaves when all are      *)
(* claimed.                                                                *)
SliceDone == StaticSchedule =>
  \A t \in Shares, b \in Blocks : InSlice(b, t) =>
    /\ share[t].at \in Claimed /\ b < share[t].nblock => b \in done
    /\ share[t].at \in {"copy", "next"} /\ b = share[t].nblock => b \in done
    /\ share[t].at \in Left => b \in done

ClaimDone == ~StaticSchedule =>
  /\ \A b \in Blocks : b <= job.next_block =>
       \/ b \in done
       \/ \E t \in Shares : share[t].at \in Undone \cup {"loop"} /\ share[t].nblock = b
  /\ \A t \in Shares : share[t].at \in Left => job.next_block >= NBlocks

ProgressInv == job.giveup_code > 0 => SliceDone /\ ClaimDone

(* The bytes of the blocks done, for a job that reserves nothing, and the  *)
(* total that the last worker of a static schedule sets.                   *)
PlainBytes(D) == BlockSize * Cardinality(D \ {NBlocks - 1})
                   + (IF NBlocks - 1 \in D THEN BlockBytes(NBlocks - 1) ELSE 0)
Total == SourceSize + IF Compress THEN Overhead ELSE 0

BytesInv ==
  /\ ~Coded => \A t \in Shares : share[t].at \in Undone \ {"work"} =>
       share[t].cbytes \in {Error, BlockBytes(share[t].nblock)}
  /\ ~Coded /\ ~StaticSchedule => job.output_bytes = PlainBytes(done)
  /\ StaticSchedule /\ job.active_workers = 0 /\ job.giveup_code > 0 =>
       job.output_bytes = Total
  /\ returned => result = IF job.giveup_code <= 0 THEN job.giveup_code ELSE job.output_bytes

IInv == TypeInv /\ ClaimInv /\ SliceInv /\ CountInv /\ DeltaInv /\ OutputInv
        /\ ProgressInv /\ BytesInv
-----------------------------------------------------------------------------
(* Lemmas about the operators of the model. *)

(* Multiplying by a natural number keeps the order. *)
LEMMA TimesMonotone ==
  ASSUME NEW a \in Nat, NEW b \in Nat, NEW c \in Nat, a <= b
  PROVE  a * c \in Nat /\ a * c <= b * c
OBVIOUS

(* What a quotient leaves over. *)
LEMMA Division ==
  ASSUME NEW a \in Nat, NEW d \in Nat \ {0}
  PROVE  /\ a \div d \in Nat /\ a % d \in Nat
         /\ a = (a \div d) * d + (a % d) /\ a % d < d
OBVIOUS

(* The slices of the static schedule are not empty and reach the last      *)
(* block.                                                                  *)
LEMMA SlicesReach ==
  BlocksPerShare \in Nat \ {0} /\ NBlocks <= NThreads * BlocksPerShare
<1> DEFINE q == NBlocks \div NThreads
           r == NBlocks % NThreads
<1>1. NThreads \in Nat \ {0} /\ NBlocks \in Nat \ {0}
  BY SizesAssumption
<1>2. q \in Nat /\ r \in Nat /\ NBlocks = q * NThreads + r /\ r < NThreads
  BY <1>1, Division
<1>3. BlocksPerShare = q + (IF r > 0 THEN 1 ELSE 0)
  BY DEF BlocksPerShare
<1> HIDE DEF q, r
<1>4. CASE r > 0
  <2>1. NThreads * BlocksPerShare = q * NThreads + NThreads
    BY <1>1, <1>2, <1>3, <1>4
  <2>. QED BY <1>1, <1>2, <1>3, <1>4, <2>1
<1>5. CASE r = 0
  <2>1. q # 0
    BY <1>1, <1>2, <1>5
  <2>. QED BY <1>1, <1>2, <1>3, <1>5, <2>1
<1>. QED BY <1>2, <1>4, <1>5

(* Where a slice begins and ends. *)
LEMMA SliceBounds ==
  ASSUME NEW t \in Shares
  PROVE  /\ t \in Nat /\ t * BlocksPerShare \in Nat /\ (t + 1) * BlocksPerShare \in Nat
         /\ SliceEnd(t) \in Nat /\ SliceEnd(t) <= NBlocks
         /\ SliceEnd(t) <= (t + 1) * BlocksPerShare
<1>1. t \in Nat /\ t + 1 \in Nat /\ NBlocks \in Nat
  BY SizesAssumption DEF Shares
<1>2. BlocksPerShare \in Nat
  BY SlicesReach
<1>3. t * BlocksPerShare \in Nat /\ (t + 1) * BlocksPerShare \in Nat
  BY <1>1, <1>2, TimesMonotone
<1>. QED BY <1>1, <1>3 DEF SliceEnd

(* No block is in two slices. *)
LEMMA SlicesDisjoint ==
  ASSUME NEW t \in Shares, NEW u \in Shares, NEW b \in Nat, InSlice(b, t), InSlice(b, u)
  PROVE  t = u
<1>1. t \in Nat /\ u \in Nat /\ BlocksPerShare \in Nat
  BY SlicesReach, SizesAssumption DEF Shares
<1>2. ASSUME NEW v \in Nat, NEW w \in Nat, v < w, InSlice(b, v), InSlice(b, w)
      PROVE  FALSE
  <2>1. (v + 1) * BlocksPerShare \in Nat /\ (v + 1) * BlocksPerShare <= w * BlocksPerShare
    BY <1>1, <1>2, TimesMonotone
  <2>2. w * BlocksPerShare \in Nat
    BY <1>1, TimesMonotone
  <2>. QED BY <1>2, <2>1, <2>2 DEF InSlice
<1>. QED BY <1>1, <1>2

(* Every block is in some slice. *)
LEMMA SlicesCover ==
  ASSUME NEW b \in Blocks
  PROVE  \E t \in Shares : InSlice(b, t)
<1> DEFINE B == BlocksPerShare
           t == b \div B
<1>1. b \in Nat /\ b < NBlocks /\ B \in Nat \ {0} /\ NBlocks <= NThreads * B
      /\ NThreads \in Nat /\ NBlocks \in Nat
  BY SlicesReach, SizesAssumption DEF Blocks
<1>2. t \in Nat /\ b % B \in Nat /\ b = t * B + (b % B) /\ b % B < B
  BY <1>1, Division
<1> HIDE DEF t, B
<1>3. t * B \in Nat /\ (t + 1) * B = t * B + B
  BY <1>1, <1>2
<1>4. t < NThreads
  <2> SUFFICES ASSUME NThreads <= t PROVE FALSE
    BY <1>1, <1>2
  <2>1. NThreads * B \in Nat /\ NThreads * B <= t * B
    BY <1>1, <1>2, TimesMonotone
  <2>. QED BY <1>1, <1>2, <1>3, <2>1
<1>5. t \in Shares
  BY <1>1, <1>2, <1>4 DEF Shares
<1>. QED BY <1>1, <1>2, <1>3, <1>5 DEF InSlice, B

(* The sizes of blocks. *)
LEMMA SizesOfBlocks ==
  /\ \A b \in Blocks : BlockBytes(b) \in Nat \ {0}
  /\ SourceSize \in Nat /\ Total \in Nat
<1>1. NBlocks - 1 \in Nat /\ BlockSize \in Nat /\ Overhead \in Nat
  BY SizesAssumption
<1>2. \A b \in Blocks : BlockBytes(b) \in Nat \ {0}
  BY SizesAssumption DEF BlockBytes, Blocks
<1>3. (NBlocks - 1) * BlockSize \in Nat
  BY <1>1, TimesMonotone
<1>4. BlockBytes(NBlocks - 1) \in Nat
  BY <1>1, <1>2 DEF Blocks
<1>. QED BY <1>1, <1>2, <1>3, <1>4 DEF SourceSize, Total
-----------------------------------------------------------------------------
(* Types, and what one step does to the other workers. *)

(* A new job is well typed. *)
LEMMA TypeInit == Init => TypeInv
<1> SUFFICES ASSUME Init PROVE TypeInv
  OBVIOUS
<1>1. mode \in Modes /\ mode \in AllModes
  BY DEF Init, Modes
<1>2. job \in JobRec
  BY SizesAssumption DEF Init, JobRec, FirstByte
<1>3. share \in [Shares -> ShareRec]
  BY DEF Init, ShareRec, Places
<1>4. bstarts \in [Blocks -> {-1} \cup Nat]
  BY DEF Init
<1>5. \A t \in Shares : share[t].at = "queued"
  BY DEF Init
<1>6. returned = FALSE /\ result = 0
  BY DEF Init
<1>7. reserved = {} /\ copied = {} /\ done = {} /\ early = {}
  BY DEF Init
<1>8. returned \in BOOLEAN
  BY <1>6, Zenon
<1>9. \A r \in reserved : r \in [block : Blocks, start : Nat, size : Nat]
  BY <1>7
<1>. QED BY <1>1, <1>2, <1>3, <1>4, <1>5, <1>6, <1>7, <1>8, <1>9 DEF TypeInv, TypeOK, Claimed, InBlock

(* What a worker's step does to the others: nothing, but that the decoder  *)
(* of the reference block wakes those that wait for it.                    *)
Undisturbed(t) ==
  \A u \in Shares \ {t} :
    /\ share'[u].nblock = share[u].nblock
    /\ share'[u].tblock = share[u].tblock
    /\ share'[u].cbytes = share[u].cbytes
    /\ \/ share'[u].at = share[u].at
       \/ share[u].at = "delta_sleep" /\ share'[u].at = "decode"

(* Every step of a worker leaves the job's mode alone, and leaves the other *)
(* workers where they are.                                                 *)
LEMMA StepShape ==
  ASSUME TypeInv, NEW t \in Shares, ShareStep(t) \/ DeltaSpurious(t)
  PROVE  Undisturbed(t) /\ mode' = mode /\ returned' = returned /\ result' = result
<1> USE DEF TypeInv, TypeOK, Undisturbed, Goto, ShareRec
<1>1. CASE Take(t) \/ Loop(t) \/ Decode(t) \/ DeltaSpurious(t)
  BY <1>1 DEF Take, Loop, Decode, DeltaSpurious
<1>2. CASE Start(t) \/ NextBlock(t)
  BY <1>2 DEF Start, NextBlock, Claim
<1>3. CASE StartFails(t) \/ CommitError(t) \/ Copy(t) \/ CommitPlain(t)
           \/ JobDone(t) \/ Signal(t)
  BY <1>3 DEF StartFails, CommitError, Copy, CommitPlain, JobDone, Signal
<1>4. CASE Work(t)
  BY <1>4 DEF Work
<1>5. CASE Delta(t)
  BY <1>5 DEF Delta
<1>6. CASE CommitCompressed(t)
  BY <1>6 DEF CommitCompressed
<1>. QED BY <1>1, <1>2, <1>3, <1>4, <1>5, <1>6 DEF ShareStep

(* Workers are counted one by one. *)
LEMMA Counted ==
  ASSUME NEW S, S \subseteq Shares, NEW t \in S
  PROVE  /\ Cardinality(S) \in Nat /\ Cardinality(S) - 1 \in Nat
         /\ Cardinality(S \ {t}) = Cardinality(S) - 1
<1>1. IsFiniteSet(Shares)
  BY SizesAssumption, FS_Interval DEF Shares
<1>2. IsFiniteSet(S)
  BY <1>1, FS_Subset
<1>3. Cardinality(S) \in Nat /\ Cardinality(S \ {t}) \in Nat
  BY <1>2, FS_CardinalityType, FS_RemoveElement
<1>. QED BY <1>2, <1>3, FS_RemoveElement

(* Every step keeps the types and the bounds of the loops. *)
LEMMA TypeStep ==
  ASSUME TypeInv, CountInv, Next
  PROVE  TypeInv'
<1> USE DEF TypeInv, TypeOK, Goto, Claimed, InBlock, Error
<1>0. CASE Return
  BY <1>0 DEF Return, JobRec
<1> SUFFICES ASSUME NEW t \in Shares, ShareStep(t) \/ DeltaSpurious(t)
             PROVE  TypeInv'
  BY <1>0 DEF Next
<1>t. t \in Nat /\ NBlocks \in Nat
  BY SizesAssumption DEF Shares
<1>s. share[t].nblock \in Nat /\ share[t].tblock \in Nat /\ share[t].cbytes \in {Error} \cup Nat
  BY DEF ShareRec
<1>b. share[t].at \in InBlock => share[t].nblock \in Blocks
  BY <1>t, <1>s DEF Blocks
<1>1. CASE Take(t)
  BY <1>1 DEF Take, ShareRec, Places
<1>2. CASE StartFails(t)
  BY <1>2 DEF StartFails, ShareRec, Places, JobRec
<1>3. CASE Start(t)
  <2>1. CASE StaticSchedule
    BY <1>3, <2>1, SliceBounds DEF Start, ShareRec, Places
  <2>2. CASE ~StaticSchedule
    BY <1>3, <2>2, <1>t DEF Start, Claim, ShareRec, Places, JobRec
  <2>. QED BY <2>1, <2>2
<1>4. CASE Loop(t)
  BY <1>4 DEF Loop, ShareRec, Places
<1>5. CASE Work(t)
  <2>1. share[t].nblock \in Blocks
    BY <1>5, <1>b DEF Work
  <2>2. BlockBytes(share[t].nblock) \in Nat
    BY <2>1, SizesOfBlocks
  <2>3. PICK n \in {Error} \cup Nat :
          share' = [share EXCEPT
            ![t].cbytes = n,
            ![t].at = IF mode.delta /\ ~Masked(share[t].nblock) /\ n # Error
                      THEN "delta" ELSE "commit"]
    BY <1>5, <2>2, SizesAssumption DEF Work
  <2>. QED BY <1>5, <2>3 DEF Work, ShareRec, Places
<1>6. CASE Delta(t)
  <2>1. CASE share[t].nblock = 0
    <3>1. job' = [job EXCEPT !.dref_not_init = FALSE]
      BY <1>6, <2>1 DEF Delta
    <3>0. job' \in JobRec
      BY <3>1 DEF JobRec
    <3>2. \A u \in Shares : share'[u] \in ShareRec
      BY <1>6, <2>1 DEF Delta, ShareRec, Places
    <3>3. share' \in [Shares -> ShareRec]
      BY <1>6, <2>1, <3>2 DEF Delta
    <3>4. \A u \in Shares : /\ share'[u].tblock = share[u].tblock
                            /\ share'[u].nblock = share[u].nblock
                            /\ share'[u].at \in Claimed => share[u].at \in Claimed
                            /\ share'[u].at \in InBlock => share[u].at \in InBlock
      BY <1>6, <2>1 DEF Delta, ShareRec
    <3>. QED BY <1>6, <3>0, <3>3, <3>4 DEF Delta
  <2>2. CASE share[t].nblock # 0
    BY <1>6, <2>2 DEF Delta, ShareRec, Places
  <2>. QED BY <2>1, <2>2
<1>7. CASE DeltaSpurious(t)
  BY <1>7 DEF DeltaSpurious, ShareRec, Places
<1>8. CASE Decode(t)
  BY <1>8, <1>b DEF Decode, ShareRec, Places
<1>9. CASE CommitError(t)
  BY <1>9 DEF CommitError, ShareRec, Places, JobRec
<1>10. CASE CommitCompressed(t)
  <2>1. share[t].nblock \in Blocks /\ share[t].cbytes \in Nat
    BY <1>10, <1>b, <1>s DEF CommitCompressed
  <2>2. job.output_bytes \in Nat
    BY DEF JobRec
  <2>3. bstarts' \in [Blocks -> {-1} \cup Nat]
    BY <1>10, <2>1, <2>2 DEF CommitCompressed
  <2>4. CASE NoRoom(job.output_bytes, share[t].cbytes)
    BY <1>10, <2>3, <2>4 DEF CommitCompressed, ShareRec, Places, JobRec
  <2>5. CASE ~NoRoom(job.output_bytes, share[t].cbytes)
    BY <1>10, <2>1, <2>2, <2>3, <2>5 DEF CommitCompressed, ShareRec, Places, JobRec
  <2>. QED BY <2>4, <2>5
<1>11. CASE Copy(t)
  BY <1>11, <1>b DEF Copy, ShareRec, Places
<1>12. CASE CommitPlain(t)
  BY <1>12, <1>b, <1>s DEF CommitPlain, ShareRec, Places, JobRec
<1>13. CASE NextBlock(t)
  <2>1. CASE StaticSchedule
    BY <1>13, <2>1, <1>s DEF NextBlock, ShareRec, Places
  <2>2. CASE ~StaticSchedule
    BY <1>13, <2>2, <1>t DEF NextBlock, Claim, ShareRec, Places, JobRec
  <2>. QED BY <2>1, <2>2
<1>14. CASE JobDone(t)
  <2>0. ActiveShares \subseteq Shares /\ t \in ActiveShares
    BY <1>14 DEF JobDone, ActiveShares
  <2>1. job.active_workers - 1 \in Nat
    BY <2>0, Counted DEF CountInv
  <2>2. job'.output_bytes \in {job.output_bytes, Total}
    BY <1>14 DEF JobDone, JobRec, Total
  <2>3. job' \in JobRec
    BY <1>14, <2>1, <2>2, SizesOfBlocks DEF JobDone, JobRec
  <2>. QED BY SMTT(20), <1>14, <2>3 DEF JobDone, ShareRec, Places
<1>15. CASE Signal(t)
  <2>0. PendingShares \subseteq Shares /\ t \in PendingShares
    BY <1>15 DEF Signal, PendingShares
  <2>1. job.pending_workers - 1 \in Nat
    BY <1>15, <2>0, Counted, ModesAssumption DEF Signal, CountInv, AllModes
  <2>. QED BY ZenonT(30), <1>15, <2>1 DEF Signal, ShareRec, Places, JobRec
<1>. QED BY <1>1, <1>2, <1>3, <1>4, <1>5, <1>6, <1>7, <1>8, <1>9, <1>10, <1>11,
     <1>12, <1>13, <1>14, <1>15 DEF ShareStep
-----------------------------------------------------------------------------
(* The counters of workers. *)

(* All workers are counted when the job starts. *)
LEMMA CountInit == Init => CountInv
<1> SUFFICES ASSUME Init PROVE CountInv
  OBVIOUS
<1>1. ActiveShares = Shares /\ PendingShares = Shares
  BY DEF Init, ActiveShares, PendingShares
<1>2. Cardinality(Shares) = NThreads
  BY SizesAssumption, FS_Interval DEF Shares
<1>. QED BY <1>1, <1>2 DEF Init, CountInv

(* A worker that is not past its share keeps being counted. *)
LEMMA CountSame ==
  ASSUME TypeInv, CountInv, NEW t \in Shares, Undisturbed(t), mode' = mode,
         share[t].at \notin {"job_done", "signal", "gone"},
         share'[t].at \notin {"signal", "gone"},
         job'.active_workers = job.active_workers,
         job'.pending_workers = job.pending_workers,
         job'.completed = job.completed, returned' = returned
  PROVE  CountInv'
<1>1. ActiveShares' = ActiveShares /\ PendingShares' = PendingShares
  BY DEF Undisturbed, ActiveShares, PendingShares
<1>2. \A u \in Shares : share[u].at # "signal" => share'[u].at # "signal"
  BY DEF Undisturbed
<1>3. ~returned
  BY DEF CountInv
<1>. QED BY <1>1, <1>2, <1>3 DEF CountInv

(* The job is not complete, and the call has not returned, while a worker  *)
(* is pending; the pool's workers are pending until they signal.           *)
LEMMA NotComplete ==
  ASSUME TypeInv, CountInv, NEW t \in PendingShares
  PROVE  /\ ~returned
         /\ mode.backend \in {"callback", "shared_pool"}
         /\ mode.backend = "shared_pool" => ~job.completed
<1>0. PendingShares \subseteq Shares
  BY DEF PendingShares
<1>1. Cardinality(PendingShares) \in Nat /\ Cardinality(PendingShares) - 1 \in Nat
  BY <1>0, Counted
<1>2. mode.backend \in {"callback", "shared_pool"}
  BY ModesAssumption DEF TypeInv, TypeOK, AllModes
<1>. QED BY <1>1, <1>2 DEF CountInv, PendingShares

(* Only JobDone and Signal move the counters. *)
LEMMA StaysActive ==
  ASSUME TypeInv, NEW t \in Shares, ShareStep(t) \/ DeltaSpurious(t),
         ~JobDone(t), ~Signal(t)
  PROVE  /\ share[t].at \notin {"job_done", "signal", "gone"}
         /\ share'[t].at \notin {"signal", "gone"}
         /\ job'.active_workers = job.active_workers
         /\ job'.pending_workers = job.pending_workers
         /\ job'.completed = job.completed
<1>j. share \in [Shares -> ShareRec] /\ job \in JobRec
  BY DEF TypeInv, TypeOK
<1> USE <1>j DEF ShareRec, JobRec, Goto
<1>1. CASE Take(t) \/ Loop(t) \/ Decode(t) \/ DeltaSpurious(t)
  BY <1>1 DEF Take, Loop, Decode, DeltaSpurious
<1>2. CASE Start(t) \/ NextBlock(t)
  BY <1>2 DEF Start, NextBlock, Claim
<1>3. CASE StartFails(t) \/ CommitError(t) \/ Copy(t) \/ CommitPlain(t)
  BY <1>3 DEF StartFails, CommitError, Copy, CommitPlain
<1>4. CASE Work(t)
  BY <1>4 DEF Work
<1>5. CASE Delta(t)
  BY <1>5 DEF Delta
<1>6. CASE CommitCompressed(t)
  BY <1>6 DEF CommitCompressed
<1>. QED BY <1>1, <1>2, <1>3, <1>4, <1>5, <1>6 DEF ShareStep

(* Every step keeps the counters exact. *)
LEMMA CountStep ==
  ASSUME TypeInv, CountInv, Next
  PROVE  CountInv'
<1>0. CASE Return
  <2>1. \A t \in Shares : share[t].at = "gone"
    BY <1>0, NotComplete DEF Return, PendingShares
  <2>2. ActiveShares' = ActiveShares /\ PendingShares' = PendingShares
    BY <1>0 DEF Return, ActiveShares, PendingShares
  <2>. QED BY <1>0, <2>1, <2>2 DEF Return, CountInv
<1> SUFFICES ASSUME NEW t \in Shares, ShareStep(t) \/ DeltaSpurious(t)
             PROVE  CountInv'
  BY <1>0 DEF Next
<1>s. Undisturbed(t) /\ mode' = mode /\ returned' = returned
  BY StepShape
<1>j. share \in [Shares -> ShareRec] /\ job \in JobRec
  BY DEF TypeInv, TypeOK
<1>1. CASE JobDone(t)
  <2>1. t \in ActiveShares /\ t \in PendingShares
    BY <1>1 DEF JobDone, ActiveShares, PendingShares
  <2>2. ~returned /\ mode.backend \in {"callback", "shared_pool"}
    BY <2>1, NotComplete
  <2>3. ActiveShares' = ActiveShares \ {t}
    BY <1>1, <1>s, <1>j DEF JobDone, ActiveShares, Undisturbed, Goto, ShareRec
  <2>4. Cardinality(ActiveShares') = Cardinality(ActiveShares) - 1
    BY <2>1, <2>3, Counted DEF ActiveShares
  <2>5. job'.active_workers = job.active_workers - 1
    BY <1>1, <1>j DEF JobDone, JobRec
  <2>6. CASE mode.backend = "callback"
    <3>1. \A u \in Shares : share'[u].at # "signal"
      BY <1>1, <1>s, <1>j, <2>6 DEF JobDone, CountInv, Undisturbed, Goto, ShareRec
    <3>. QED BY <1>s, <2>2, <2>4, <2>5, <2>6, <3>1 DEF CountInv
  <2>7. CASE mode.backend = "shared_pool"
    <3>1. PendingShares' = PendingShares
      BY <1>1, <1>s, <1>j, <2>7 DEF JobDone, PendingShares, Undisturbed, Goto, ShareRec
    <3>2. /\ job'.pending_workers = job.pending_workers
          /\ job'.completed => job.completed
      BY <1>1, <1>j, <2>7 DEF JobDone, JobRec
    <3>. QED BY <1>s, <2>2, <2>4, <2>5, <2>7, <3>1, <3>2 DEF CountInv
  <2>. QED BY <2>2, <2>6, <2>7
<1>2. CASE Signal(t)
  <2>1. t \in PendingShares
    BY <1>2 DEF Signal, PendingShares
  <2>2. ~returned /\ mode.backend = "shared_pool" /\ ~job.completed
    BY <1>2, <2>1, NotComplete DEF Signal, CountInv
  <2>3. ActiveShares' = ActiveShares /\ PendingShares' = PendingShares \ {t}
    BY <1>2, <1>s, <1>j DEF Signal, ActiveShares, PendingShares, Undisturbed, Goto, ShareRec
  <2>4. Cardinality(PendingShares') = Cardinality(PendingShares) - 1
        /\ Cardinality(PendingShares) \in Nat
    BY <2>1, <2>3, Counted DEF PendingShares
  <2>5. /\ job'.active_workers = job.active_workers
        /\ job'.pending_workers = job.pending_workers - 1
        /\ job'.completed => job.completed \/ job.pending_workers = 1
    BY <1>2, <1>j DEF Signal, JobRec
  <2>. QED BY <1>s, <2>2, <2>3, <2>4, <2>5 DEF CountInv
<1>3. CASE ~JobDone(t) /\ ~Signal(t)
  <2>1. /\ share[t].at \notin {"job_done", "signal", "gone"}
        /\ share'[t].at \notin {"signal", "gone"}
        /\ job'.active_workers = job.active_workers
        /\ job'.pending_workers = job.pending_workers
        /\ job'.completed = job.completed
    BY <1>3, StaysActive
  <2>. QED BY <1>s, <2>1, CountSame
<1>. QED BY <1>1, <1>2, <1>3
-----------------------------------------------------------------------------
(* The schedules: three kinds of step matter to them. *)

(* A worker stays with its block, or leaves; nothing is claimed or done. *)
Quietly(t) ==
  /\ share'[t].nblock = share[t].nblock
  /\ share'[t].tblock = share[t].tblock
  /\ \A X \in {Claimed, Undone \cup {"loop"}, {"copy", "next"}, {"queued", "start"}} :
       share'[t].at \in X => share[t].at \in X
  /\ job'.next_block = job.next_block
  /\ done' = done

(* A block goes through the commit section. *)
Commits(t) ==
  /\ share[t].at = "commit" /\ share'[t].at \in {"copy", "next"}
  /\ share'[t].nblock = share[t].nblock
  /\ share'[t].tblock = share[t].tblock
  /\ job'.next_block = job.next_block
  /\ done' = done \cup {share[t].nblock}

(* Every step of a worker is of one of the three kinds. *)
LEMMA StepKinds ==
  ASSUME TypeInv, NEW t \in Shares, ShareStep(t) \/ DeltaSpurious(t)
  PROVE  Quietly(t) \/ Commits(t) \/ Start(t) \/ NextBlock(t)
<1>j. share \in [Shares -> ShareRec] /\ job \in JobRec
  BY DEF TypeInv, TypeOK
<1> USE <1>j DEF ShareRec, JobRec, Goto, Claimed, InBlock, Undone
<1>1. CASE Take(t) \/ Loop(t) \/ Decode(t) \/ DeltaSpurious(t)
  BY <1>1 DEF Take, Loop, Decode, DeltaSpurious, Quietly
<1>2. CASE StartFails(t) \/ CommitError(t) \/ Copy(t)
  BY <1>2 DEF StartFails, CommitError, Copy, Quietly
<1>3. CASE JobDone(t) \/ Signal(t)
  <2>1. /\ share'[t].nblock = share[t].nblock /\ share'[t].tblock = share[t].tblock
        /\ share'[t].at \in {"signal", "gone"} /\ done' = done
    BY <1>3 DEF JobDone, Signal
  <2>2. job'.next_block = job.next_block
    BY <1>3 DEF JobDone, Signal
  <2>. QED BY <2>1, <2>2 DEF Quietly
<1>4. CASE Work(t)
  BY <1>4 DEF Work, Quietly
<1>5. CASE Delta(t)
  BY <1>5 DEF Delta, Quietly
<1>6. CASE CommitCompressed(t)
  <2>1. CASE NoRoom(job.output_bytes, share[t].cbytes)
    BY <1>6, <2>1 DEF CommitCompressed, Quietly
  <2>2. CASE ~NoRoom(job.output_bytes, share[t].cbytes)
    BY <1>6, <2>2 DEF CommitCompressed, Commits
  <2>. QED BY <2>1, <2>2
<1>7. CASE CommitPlain(t)
  BY <1>7 DEF CommitPlain, Commits
<1>. QED BY <1>1, <1>2, <1>3, <1>4, <1>5, <1>6, <1>7 DEF ShareStep

(* What depends on the mode only stays. *)
LEMMA ModeFixed ==
  ASSUME mode' = mode
  PROVE  /\ StaticSchedule' = StaticSchedule /\ Coded' = Coded
         /\ Compress' = Compress /\ Memcpyed' = Memcpyed /\ Total' = Total
BY DEF StaticSchedule, Coded, Compress, Memcpyed, Total

(* No block is claimed twice. *)
LEMMA ClaimStep ==
  ASSUME TypeInv, ClaimInv, Next
  PROVE  ClaimInv'
<1>0. CASE Return
  BY <1>0 DEF Return, ClaimInv, StaticSchedule, Compress, Memcpyed
<1> SUFFICES ASSUME NEW t \in Shares, ShareStep(t) \/ DeltaSpurious(t)
             PROVE  ClaimInv'
  BY <1>0 DEF Next
<1>s. Undisturbed(t) /\ mode' = mode
  BY StepShape
<1>m. StaticSchedule' = StaticSchedule
  BY <1>s, ModeFixed
<1> SUFFICES ASSUME ~StaticSchedule PROVE ClaimInv'
  BY <1>m DEF ClaimInv
<1>j. share \in [Shares -> ShareRec] /\ job \in JobRec /\ done \subseteq Blocks
      /\ NBlocks \in Nat
  BY SizesAssumption DEF TypeInv, TypeOK
<1>n. /\ job.next_block \in Int
      /\ \A u \in Shares : share[u].nblock \in Nat
  BY <1>j DEF ShareRec, JobRec
<1>d. done \subseteq Int
  BY <1>j DEF Blocks
<1>u. \A u \in Shares \ {t} :
        /\ share'[u].at \in Claimed => share[u].at \in Claimed
        /\ share'[u].at \in Undone \cup {"loop"} => share[u].at \in Undone \cup {"loop"}
        /\ share'[u].nblock = share[u].nblock
        /\ share'[u].tblock = share[u].tblock
  BY <1>s DEF Undisturbed, Claimed, InBlock, Undone
<1>1. CASE Quietly(t)
  BY <1>1, <1>u, <1>m DEF Quietly, ClaimInv
<1>2. CASE Commits(t)
  <2>1. share[t].at \in Claimed /\ share'[t].at \in Claimed
        /\ share'[t].at \notin Undone \cup {"loop"}
    BY <1>2 DEF Commits, Claimed, InBlock, Undone
  <2>2. \A u \in Shares \ {t} : share'[u].at \in Claimed =>
          share[u].nblock # share[t].nblock
    BY <1>u, <2>1 DEF ClaimInv
  <2>3. \A u \in Shares \ {t} : share'[u].at \in Undone \cup {"loop"} =>
          share'[u].at \in Claimed
    BY DEF Claimed, InBlock, Undone
  <2>. QED BY <1>2, <1>u, <1>m, <2>1, <2>2, <2>3 DEF Commits, ClaimInv
<1>3. CASE Start(t) \/ NextBlock(t)
  <2>1. /\ job'.next_block = job.next_block + 1
        /\ share'[t].nblock = job.next_block + 1
        /\ share'[t].tblock = NBlocks
        /\ done' = done
    BY <1>3, <1>j DEF Start, NextBlock, Claim, ShareRec, JobRec
  <2>2. \A u \in Shares \ {t} : share'[u].at \in Claimed =>
          share'[u].nblock <= job.next_block
    BY <1>u DEF ClaimInv
  <2>3. job.next_block + 1 \notin done
    BY <1>n, <1>d DEF ClaimInv
  <2>4. \A b \in done' : b <= job'.next_block
    BY <1>n, <1>d, <2>1 DEF ClaimInv
  <2>. QED BY <1>n, <1>u, <1>m, <2>1, <2>2, <2>3, <2>4 DEF ClaimInv
<1>. QED BY <1>1, <1>2, <1>3, StepKinds

(* A worker goes through its slice in order. *)
LEMMA SliceStep ==
  ASSUME TypeInv, SliceInv, Next
  PROVE  SliceInv'
<1>0. CASE Return
  BY <1>0 DEF Return, SliceInv, StaticSchedule, Compress, Memcpyed
<1> SUFFICES ASSUME NEW t \in Shares, ShareStep(t) \/ DeltaSpurious(t)
             PROVE  SliceInv'
  BY <1>0 DEF Next
<1>s. Undisturbed(t) /\ mode' = mode
  BY StepShape
<1>m. StaticSchedule' = StaticSchedule
  BY <1>s, ModeFixed
<1> SUFFICES ASSUME StaticSchedule PROVE SliceInv'
  BY <1>m DEF SliceInv
<1>j. share \in [Shares -> ShareRec] /\ job \in JobRec /\ done \subseteq Blocks
      /\ NBlocks \in Nat
  BY SizesAssumption DEF TypeInv, TypeOK
<1>n. \A u \in Shares : share[u].nblock \in Nat /\ share[u].tblock \in Nat
  BY <1>j DEF ShareRec
<1>d. done \subseteq Nat
  BY <1>j DEF Blocks
<1>u. \A u \in Shares \ {t} :
        /\ share'[u].at \in Claimed => share[u].at \in Claimed
        /\ share'[u].at \in Undone \cup {"loop"} => share[u].at \in Undone \cup {"loop"}
        /\ share'[u].at \in {"queued", "start"} => share[u].at \in {"queued", "start"}
        /\ share'[u].nblock = share[u].nblock
        /\ share'[u].tblock = share[u].tblock
  BY <1>s DEF Undisturbed, Claimed, InBlock, Undone
<1>1. CASE Quietly(t)
  BY <1>1, <1>u, <1>m DEF Quietly, SliceInv
<1>2. CASE Commits(t)
  <2> DEFINE b == share[t].nblock
  <2>1. share[t].at \in Claimed /\ share'[t].at \in Claimed /\ share[t].at \in InBlock
        /\ share'[t].at \notin Undone \cup {"loop", "queued", "start"}
    BY <1>2 DEF Commits, Claimed, InBlock, Undone
  <2>2. InSlice(b, t)
    BY <1>n, <2>1, SliceBounds DEF SliceInv, InSlice, TypeInv
  <2>3. \A u \in Shares \ {t} : ~InSlice(b, u)
    BY <1>n, <2>2, SlicesDisjoint
  <2>. QED BY <1>2, <1>u, <1>m, <1>n, <2>1, <2>2, <2>3 DEF Commits, SliceInv
<1>3. CASE Start(t)
  <2>1. /\ share'[t].nblock = t * BlocksPerShare
        /\ share'[t].tblock = SliceEnd(t)
        /\ share'[t].at = "loop" /\ share[t].at = "start"
        /\ done' = done
    BY <1>3, <1>j DEF Start, ShareRec
  <2>2. \A b \in done : ~InSlice(b, t)
    BY <2>1 DEF SliceInv
  <2>. QED BY <1>u, <1>m, <2>1, <2>2, SliceBounds DEF SliceInv
<1>4. CASE NextBlock(t)
  <2>1. /\ share'[t].nblock = share[t].nblock + 1
        /\ share'[t].tblock = share[t].tblock
        /\ share'[t].at = "loop" /\ share[t].at = "next"
        /\ done' = done
    BY <1>4, <1>j DEF NextBlock, ShareRec
  <2>2. share[t].at \in Claimed
    BY <2>1 DEF Claimed, InBlock
  <2>3. \A b \in done : InSlice(b, t) => b < share'[t].nblock
    <3>1. \A b \in done : InSlice(b, t) => b <= share[t].nblock
      BY <2>2 DEF SliceInv
    <3>2. share'[t].nblock = share[t].nblock + 1
      BY <2>1
    <3>3. ASSUME NEW b \in done, InSlice(b, t) PROVE b < share'[t].nblock
      <4>1. b \in Nat /\ share[t].nblock \in Nat
        BY <1>n, <1>d
      <4>2. b <= share[t].nblock
        BY <3>1, <3>3
      <4>. QED BY <3>2, <4>1, <4>2
    <3>. QED BY <3>3
  <2>4. t * BlocksPerShare <= share'[t].nblock
    <3>1. t * BlocksPerShare <= share[t].nblock
      BY <2>2 DEF SliceInv
    <3>2. t * BlocksPerShare \in Nat
      BY SliceBounds
    <3>. QED BY <1>n, <2>1, <3>1, <3>2
  <2>5. \A b \in done : InSlice(b, t) => b <= share'[t].nblock
    <3>1. ASSUME NEW b \in done, InSlice(b, t) PROVE b <= share'[t].nblock
      <4>1. b \in Nat /\ share'[t].nblock \in Nat
        BY <1>n, <1>d, <2>1
      <4>2. b < share'[t].nblock
        BY <2>3, <3>1
      <4>. QED BY <4>1, <4>2
    <3>. QED BY <3>1
  <2>. QED BY <1>u, <1>m, <2>1, <2>2, <2>3, <2>4, <2>5 DEF SliceInv
<1>. QED BY <1>1, <1>2, <1>3, <1>4, StepKinds

(* A block that is not through the commit section is a block of the job    *)
(* and is not done.                                                        *)
LEMMA BlockFresh ==
  ASSUME TypeInv, ClaimInv, SliceInv, NEW t \in Shares, share[t].at \in InBlock
  PROVE  /\ share[t].nblock \in Blocks
         /\ StaticSchedule => InSlice(share[t].nblock, t)
         /\ share[t].at \in Undone => share[t].nblock \notin done
<1>1. share[t].nblock \in Nat /\ share[t].tblock \in Nat /\ NBlocks \in Nat
      /\ share[t].at \in Claimed
  BY SizesAssumption DEF TypeInv, TypeOK, ShareRec, Claimed
<1>2. share[t].nblock \in Blocks
  BY <1>1 DEF TypeInv, Blocks
<1>3. StaticSchedule => InSlice(share[t].nblock, t)
  BY <1>1, SliceBounds DEF SliceInv, InSlice, TypeInv
<1>4. ASSUME share[t].at \in Undone, share[t].nblock \in done PROVE FALSE
  <2>1. CASE StaticSchedule
    BY <1>1, <1>3, <1>4, <2>1 DEF SliceInv
  <2>2. CASE ~StaticSchedule
    BY <1>1, <1>4, <2>2 DEF ClaimInv
  <2>. QED BY <2>1, <2>2
<1>. QED BY <1>2, <1>3, <1>4

-----------------------------------------------------------------------------
(* The reference block of the delta filter. *)

(* Nobody decodes before the reference is announced. *)
LEMMA DeltaStep ==
  ASSUME TypeInv, DeltaInv, Next
  PROVE  DeltaInv'
<1>0. CASE Return
  BY <1>0 DEF Return, DeltaInv
<1> SUFFICES ASSUME NEW t \in Shares, ShareStep(t) \/ DeltaSpurious(t), ~mode.spurious
             PROVE  DeltaInv'
  BY <1>0, StepShape DEF Next, DeltaInv
<1>s. Undisturbed(t) /\ mode' = mode
  BY StepShape
<1>j. share \in [Shares -> ShareRec] /\ job \in JobRec
  BY DEF TypeInv, TypeOK
<1>1. CASE Delta(t)
  <2>1. CASE share[t].nblock = 0
    BY <1>1, <1>j, <2>1 DEF Delta, DeltaInv, JobRec
  <2>2. CASE share[t].nblock # 0
    BY <1>1, <1>j, <2>2 DEF Delta, DeltaInv, MustWait, Goto, ShareRec
  <2>. QED BY <2>1, <2>2
<1>2. CASE Decode(t)
  BY <1>2, <1>j DEF Decode, DeltaInv, Goto, ShareRec
<1>3. CASE ~Delta(t) /\ ~Decode(t)
  <2>1. /\ early' = early
        /\ job'.dref_not_init = job.dref_not_init
        /\ share'[t].at # "decode"
        /\ \A u \in Shares \ {t} : share'[u] = share[u]
    <3> USE <1>j DEF ShareRec, JobRec, Goto
    <3>1. CASE Take(t) \/ Loop(t) \/ Copy(t)
      BY <3>1 DEF Take, Loop, Copy
    <3>2. CASE Start(t) \/ NextBlock(t)
      BY <3>2 DEF Start, NextBlock, Claim
    <3>3. CASE StartFails(t) \/ CommitError(t) \/ CommitPlain(t)
      BY <3>3 DEF StartFails, CommitError, CommitPlain
    <3>4. CASE Work(t)
      BY <3>4 DEF Work
    <3>5. CASE JobDone(t) \/ Signal(t)
      <4>1. early' = early /\ share' = [share EXCEPT ![t].at = share'[t].at]
            /\ share'[t].at \in {"signal", "gone"}
        BY <3>5 DEF JobDone, Signal
      <4>2. job'.dref_not_init = job.dref_not_init
        BY <3>5 DEF JobDone, Signal
      <4>. QED BY <4>1, <4>2
    <3>6. CASE CommitCompressed(t)
      BY <3>6 DEF CommitCompressed
    <3>. QED BY <1>3, <3>1, <3>2, <3>3, <3>4, <3>5, <3>6 DEF ShareStep, DeltaSpurious
  <2>. QED BY <1>s, <2>1 DEF DeltaInv
<1>. QED BY <1>1, <1>2, <1>3

-----------------------------------------------------------------------------
(* The ranges of dest. *)

(* A step that reserves nothing and leaves what the ranges depend on. *)
LEMMA OutputSame ==
  ASSUME TypeInv, OutputInv, NEW t \in Shares, Undisturbed(t), mode' = mode,
         reserved' = reserved, job'.output_bytes = job.output_bytes,
         \A r \in reserved : bstarts'[r.block] = bstarts[r.block], done' = done,
         copied \subseteq copied',
         share[t].at = "copy" => share[t].nblock \in copied'
  PROVE  OutputInv'
<1>1. Coded' = Coded
  BY ModeFixed
<1>2. ASSUME Coded, NEW b \in done
      PROVE  b \in copied' \/ \E u \in Shares : share'[u].at = "copy" /\ share'[u].nblock = b
  <2>1. CASE b \in copied
    BY <2>1
  <2>2. CASE b \notin copied
    <3>1. PICK u \in Shares : share[u].at = "copy" /\ share[u].nblock = b
      BY <1>2, <2>2 DEF OutputInv, OutputStored
    <3>. QED BY <3>1 DEF Undisturbed
  <2>. QED BY <2>1, <2>2
<1>. QED BY <1>1, <1>2 DEF OutputInv, OutputFilled, OutputStored, RangesSound, RangesDisjoint

(* The ranges stay disjoint, gapless and inside dest. *)
LEMMA OutputStep ==
  ASSUME TypeInv, ClaimInv, SliceInv, OutputInv, Next
  PROVE  OutputInv'
<1>0. CASE Return
  BY <1>0 DEF Return, Coded, RangeOf,
     OutputInv, OutputFilled, OutputStored, RangesSound, RangesDisjoint
<1> SUFFICES ASSUME NEW t \in Shares, ShareStep(t) \/ DeltaSpurious(t)
             PROVE  OutputInv'
  BY <1>0 DEF Next
<1>s. Undisturbed(t) /\ mode' = mode
  BY StepShape
<1>m. Coded' = Coded
  BY <1>s, ModeFixed
<1>j. share \in [Shares -> ShareRec] /\ job \in JobRec
  BY DEF TypeInv, TypeOK
<1>o. job.output_bytes \in Nat /\ Overhead \in Nat /\ DestSize \in Nat
      /\ \A r \in reserved : r.start \in Nat /\ r.size \in Nat
  BY <1>j, SizesAssumption DEF TypeInv, TypeOK, JobRec
<1>1. CASE CommitCompressed(t)
  <2> DEFINE b == share[t].nblock
             n == share[t].cbytes
             e == job.output_bytes
             new == [block |-> b, start |-> e, size |-> n]
  <2>1. b \in Blocks /\ b \notin done
    BY <1>1, BlockFresh DEF CommitCompressed, InBlock, Undone
  <2>2. \A r \in reserved : bstarts'[r.block] = bstarts[r.block]
    BY <1>1, <2>1 DEF CommitCompressed, OutputInv, RangesSound, TypeInv, TypeOK
  <2>3. Coded /\ n \in Nat
    BY <1>1, <1>j, ModesAssumption
    DEF CommitCompressed, Coded, Compress, Memcpyed, TypeInv, TypeOK, AllModes, ShareRec
  <2>4. CASE NoRoom(e, n)
    <3>1. /\ reserved' = reserved /\ done' = done /\ copied' = copied
          /\ share[t].at # "copy"
      BY <1>1, <2>4 DEF CommitCompressed
    <3>2. job'.output_bytes = job.output_bytes
      BY <1>1, <1>j, <2>4 DEF CommitCompressed, JobRec
    <3>. QED BY <1>s, <2>2, <3>1, <3>2, OutputSame
  <2>5. CASE ~NoRoom(e, n)
    <3>1. /\ reserved' = reserved \cup {new} /\ done' = done \cup {b} /\ copied' = copied
          /\ share[t].at = "commit"
          /\ mode.kind = "compress" => bstarts'[b] = e
      BY <1>1, <2>1, <2>5 DEF CommitCompressed, TypeInv, TypeOK
    <3>2. job'.output_bytes = e + n /\ share'[t].at = "copy" /\ share'[t].nblock = b
      BY <1>1, <1>j, <2>5 DEF CommitCompressed, JobRec, Goto, ShareRec
    <3>3. n # 0 /\ e + n <= DestSize /\ e >= Overhead
      BY <1>o, <2>3, <2>5 DEF NoRoom, OutputInv, OutputFilled
    <3>4. RangeOf(new) = e .. e + n - 1
      BY DEF RangeOf
    <3>5. \A r \in reserved : r.start + r.size <= e
      BY DEF OutputInv, RangesSound
    <3> HIDE DEF new
    <3>6. ASSUME NEW r \in reserved PROVE RangeOf(r) \cap RangeOf(new) = {}
      <4>1. \A x \in RangeOf(r) : x \in Int /\ x < e
        BY <1>o, <3>5 DEF RangeOf
      <4>2. \A x \in RangeOf(new) : x >= e
        BY <1>o, <2>3, <3>4
      <4>. QED BY <1>o, <4>1, <4>2
    <3>7. \A r, q \in reserved' : r # q => RangeOf(r) \cap RangeOf(q) = {}
      BY <3>1, <3>6 DEF OutputInv, RangesDisjoint
    <3>8. ASSUME NEW x \in Overhead .. e + n - 1
          PROVE  \E r \in reserved' : x \in RangeOf(r)
      <4>1. CASE x < e
        <5>1. x \in Overhead .. e - 1
          BY <1>o, <2>3, <4>1
        <5>. QED BY <2>3, <3>1, <5>1 DEF OutputInv, OutputFilled
      <4>2. CASE x >= e
        BY <1>o, <2>3, <3>1, <3>4, <4>2
      <4>. QED BY <1>o, <2>3, <4>1, <4>2
    <3>9. \A r \in reserved' :
            /\ r.block \in done' /\ r.start >= Overhead
            /\ r.start + r.size <= e + n /\ r.start + r.size <= DestSize
            /\ mode.kind = "compress" => bstarts'[r.block] = r.start
      <4>1. new.block = b /\ new.start = e /\ new.size = n
        BY DEF new
      <4>2. \A r \in reserved : r.start + r.size <= e + n
        BY <1>o, <2>3, <3>5
      <4>. QED BY <1>o, <2>2, <2>3, <3>1, <3>3, <4>1, <4>2 DEF OutputInv, RangesSound
    <3>10. \A c \in done' : \E r \in reserved' : r.block = c
      <4>1. new.block = b
        BY DEF new
      <4>. QED BY <2>3, <3>1, <4>1 DEF OutputInv, OutputStored
    <3>11. ASSUME NEW c \in done'
           PROVE  c \in copied' \/ \E u \in Shares : share'[u].at = "copy" /\ share'[u].nblock = c
      <4>1. CASE c = b
        BY <3>2, <4>1
      <4>2. CASE c \in copied
        BY <3>1, <4>2
      <4>3. CASE c # b /\ c \notin copied
        <5>1. PICK u \in Shares : share[u].at = "copy" /\ share[u].nblock = c
          BY <2>3, <3>1, <4>3 DEF OutputInv, OutputStored
        <5>. QED BY <1>s, <3>1, <5>1 DEF Undisturbed
      <4>. QED BY <4>1, <4>2, <4>3
    <3>13. e + n >= Overhead
      BY <1>o, <2>3, <3>3
    <3>14. mode' = mode /\ Coded' /\ job'.output_bytes = e + n
      BY <1>s, <1>m, <2>3, <3>2
    <3>15. OutputFilled'
      <4>1. Overhead .. job'.output_bytes - 1 = Overhead .. e + n - 1
        BY <1>o, <2>3, <3>14
      <4>. QED BY <3>8, <3>13, <3>14, <4>1 DEF OutputFilled, RangeOf
    <3>16. OutputStored'
      BY <3>10, <3>11 DEF OutputStored
    <3>17. RangesSound'
      BY <3>9, <3>14 DEF RangesSound
    <3>18. RangesDisjoint'
      BY <3>7 DEF RangesDisjoint, RangeOf
    <3>. QED BY <3>15, <3>16, <3>17, <3>18 DEF OutputInv
  <2>. QED BY <2>4, <2>5
<1>2. CASE CommitPlain(t) \/ (JobDone(t) /\ StaticSchedule)
  <2>1. ~Coded
    BY <1>2 DEF CommitPlain, StaticSchedule, Coded, Compress, Memcpyed
  <2>2. reserved = {} /\ reserved' = {}
    BY <1>2, <2>1 DEF CommitPlain, JobDone, OutputInv, RangesSound
  <2>. QED BY <1>m, <2>1, <2>2 DEF OutputInv, OutputFilled, OutputStored, RangesSound, RangesDisjoint
<1>3. CASE ~CommitCompressed(t) /\ ~CommitPlain(t) /\ ~(JobDone(t) /\ StaticSchedule)
  <2>1. /\ reserved' = reserved /\ bstarts' = bstarts /\ done' = done
        /\ copied \subseteq copied'
        /\ share[t].at = "copy" => share[t].nblock \in copied'
        /\ job'.output_bytes = job.output_bytes
    <3> USE <1>j DEF JobRec
    <3>1. CASE Take(t) \/ Loop(t) \/ Copy(t) \/ DeltaSpurious(t) \/ Decode(t)
      BY <3>1 DEF Take, Loop, Copy, DeltaSpurious, Decode
    <3>2. CASE Start(t) \/ NextBlock(t)
      BY <3>2 DEF Start, NextBlock, Claim
    <3>3. CASE StartFails(t) \/ CommitError(t) \/ Delta(t)
      BY <3>3 DEF StartFails, CommitError, Delta
    <3>4. CASE Work(t)
      BY <3>4 DEF Work
    <3>5. CASE JobDone(t) \/ Signal(t)
      BY <1>3, <3>5 DEF JobDone, Signal
    <3>. QED BY <1>3, <3>1, <3>2, <3>3, <3>4, <3>5 DEF ShareStep
  <2>. QED BY <1>s, <2>1, OutputSame
<1>. QED BY <1>1, <1>2, <1>3

-----------------------------------------------------------------------------
(* Nothing is lost while the job is not given up. *)

(* A job given up stays given up; a worker leaves the loop of a job that   *)
(* is not given up only at the end of its blocks.                          *)
LEMMA GiveUp ==
  ASSUME TypeInv, NEW t \in Shares, ShareStep(t) \/ DeltaSpurious(t),
         job'.giveup_code > 0
  PROVE  /\ job.giveup_code > 0
         /\ share'[t].at \in Left =>
              \/ share[t].at \in Left
              \/ share[t].at = "loop" /\ share[t].nblock >= share[t].tblock
         /\ share'[t].at \in Undone => share[t].at \in Undone \cup {"loop"}
         /\ share[t].at \in Undone \cup {"loop"} =>
              share'[t].at \in Undone \cup Left \/ Commits(t)
<1>j. share \in [Shares -> ShareRec] /\ job \in JobRec
  BY DEF TypeInv, TypeOK
<1> USE <1>j DEF ShareRec, JobRec, Goto, Left, Undone, Error
<1>1. CASE Take(t) \/ Copy(t) \/ DeltaSpurious(t) \/ Decode(t)
  BY <1>1 DEF Take, Copy, DeltaSpurious, Decode
<1>2. CASE Start(t) \/ NextBlock(t)
  BY <1>2 DEF Start, NextBlock, Claim
<1>3. CASE StartFails(t) \/ CommitError(t)
  BY <1>3 DEF StartFails, CommitError
<1>4. CASE Work(t)
  BY <1>4 DEF Work
<1>5. CASE Delta(t)
  BY <1>5 DEF Delta
<1>6. CASE Loop(t)
  BY <1>6 DEF Loop
<1>7. CASE CommitCompressed(t)
  BY <1>7 DEF CommitCompressed, Commits
<1>8. CASE CommitPlain(t)
  BY <1>8 DEF CommitPlain, Commits
<1>9. CASE JobDone(t) \/ Signal(t)
  <2>1. share[t].at \in {"job_done", "signal"} /\ share'[t].at \in {"signal", "gone"}
    BY <1>9 DEF JobDone, Signal
  <2>2. job'.giveup_code = job.giveup_code
    BY <1>9 DEF JobDone, Signal
  <2>. QED BY <2>1, <2>2
<1>. QED BY <1>1, <1>2, <1>3, <1>4, <1>5, <1>6, <1>7, <1>8, <1>9 DEF ShareStep

(* A worker of a static schedule has done what it has gone through. *)
LEMMA SliceDoneStep ==
  ASSUME TypeInv, SliceInv, SliceDone, NEW t \in Shares,
         ShareStep(t) \/ DeltaSpurious(t), job'.giveup_code > 0
  PROVE  SliceDone'
<1>s. Undisturbed(t) /\ mode' = mode
  BY StepShape
<1>m. StaticSchedule' = StaticSchedule
  BY <1>s, ModeFixed
<1> SUFFICES ASSUME StaticSchedule PROVE SliceDone'
  BY <1>m DEF SliceDone
<1>j. share \in [Shares -> ShareRec] /\ done \subseteq Blocks /\ NBlocks \in Nat
  BY SizesAssumption DEF TypeInv, TypeOK
<1>n. \A u \in Shares : share[u].nblock \in Nat /\ share[u].tblock \in Nat
  BY <1>j DEF ShareRec
<1>g. done \subseteq done'
  BY <1>j, StepKinds DEF Quietly, Commits, Start, NextBlock
<1>u. ASSUME NEW u \in Shares \ {t}, NEW b \in Blocks, InSlice(b, u)
      PROVE  /\ share'[u].at \in Claimed /\ b < share'[u].nblock => b \in done'
             /\ share'[u].at \in {"copy", "next"} /\ b = share'[u].nblock => b \in done'
             /\ share'[u].at \in Left => b \in done'
  BY <1>s, <1>g, <1>u DEF Undisturbed, SliceDone, Claimed, InBlock, Left
<1>t. ASSUME NEW b \in Blocks, InSlice(b, t)
      PROVE  /\ share'[t].at \in Claimed /\ b < share'[t].nblock => b \in done'
             /\ share'[t].at \in {"copy", "next"} /\ b = share'[t].nblock => b \in done'
             /\ share'[t].at \in Left => b \in done'
  <2>b. b \in Nat /\ b < NBlocks
    BY <1>j DEF Blocks
  <2>0. /\ share[t].at \in Claimed /\ b < share[t].nblock => b \in done
        /\ share[t].at \in {"copy", "next"} /\ b = share[t].nblock => b \in done
        /\ share[t].at \in Left => b \in done
    BY <1>t DEF SliceDone
  <2>l. ASSUME share'[t].at \in Left PROVE b \in done'
    <3>1. CASE share[t].at \in Left
      BY <1>g, <2>0, <3>1
    <3>2. CASE share[t].at = "loop" /\ share[t].nblock >= share[t].tblock
      <4>1. share[t].tblock = SliceEnd(t) /\ share[t].at \in Claimed
        BY <3>2 DEF SliceInv, Claimed
      <4>2. b < SliceEnd(t)
        BY <1>t, <2>b, SliceBounds DEF InSlice, SliceEnd
      <4>3. b < share[t].nblock
        BY <1>n, <2>b, <3>2, <4>1, <4>2
      <4>. QED BY <1>g, <2>0, <4>1, <4>3
    <3>. QED BY <2>l, <3>1, <3>2, GiveUp
  <2>1. CASE Quietly(t)
    <3>1. share'[t].at \in Claimed => share[t].at \in Claimed
      BY <2>1 DEF Quietly
    <3>2. share'[t].at \in {"copy", "next"} => share[t].at \in {"copy", "next"}
      BY <2>1 DEF Quietly
    <3>. QED BY <1>g, <2>0, <2>1, <2>l, <3>1, <3>2 DEF Quietly
  <2>2. CASE Commits(t)
    <3>1. share[t].at \in Claimed
      BY <2>2 DEF Commits, Claimed, InBlock
    <3>. QED BY <1>g, <2>0, <2>2, <2>l, <3>1 DEF Commits
  <2>3. CASE Start(t)
    <3>1. share'[t].nblock = t * BlocksPerShare /\ share'[t].at = "loop"
      BY <1>j, <2>3 DEF Start, ShareRec
    <3>2. ~(b < share'[t].nblock)
      BY <1>t, <2>b, <3>1, SliceBounds DEF InSlice
    <3>. QED BY <3>1, <3>2 DEF Left
  <2>4. CASE NextBlock(t)
    <3>1. share'[t].nblock = share[t].nblock + 1 /\ share'[t].at = "loop"
          /\ share[t].at = "next"
      BY <1>j, <2>4 DEF NextBlock, ShareRec
    <3>2. b < share'[t].nblock => b < share[t].nblock \/ b = share[t].nblock
      BY <1>n, <2>b, <3>1
    <3>3. share[t].at \in Claimed
      BY <3>1 DEF Claimed, InBlock
    <3>. QED BY <1>g, <2>0, <3>1, <3>2, <3>3 DEF Left
  <2>. QED BY <2>1, <2>2, <2>3, <2>4, StepKinds
<1>. QED BY <1>u, <1>t DEF SliceDone

(* Every claimed block is done or in hand. *)
LEMMA ClaimDoneStep ==
  ASSUME TypeInv, ClaimInv, ClaimDone, NEW t \in Shares,
         ShareStep(t) \/ DeltaSpurious(t), job'.giveup_code > 0
  PROVE  ClaimDone'
<1>s. Undisturbed(t) /\ mode' = mode
  BY StepShape
<1>m. StaticSchedule' = StaticSchedule
  BY <1>s, ModeFixed
<1> SUFFICES ASSUME ~StaticSchedule PROVE ClaimDone'
  BY <1>m DEF ClaimDone
<1>j. share \in [Shares -> ShareRec] /\ job \in JobRec /\ done \subseteq Blocks
      /\ NBlocks \in Nat
  BY SizesAssumption DEF TypeInv, TypeOK
<1>n. job.next_block \in Int /\ \A u \in Shares : share[u].nblock \in Nat
  BY <1>j DEF ShareRec, JobRec
<1>c. (Start(t) \/ NextBlock(t)) =>
        /\ job'.next_block = job.next_block + 1
        /\ share'[t].nblock = job.next_block + 1
        /\ share'[t].at = "loop"
        /\ share[t].at \notin Undone \cup {"loop"}
        /\ done' = done
  BY <1>j DEF Start, NextBlock, Claim, ShareRec, JobRec, Undone
<1>k. ~(Start(t) \/ NextBlock(t)) => job'.next_block = job.next_block
  BY StepKinds DEF Quietly, Commits
<1>g. done \subseteq done'
  BY <1>c, StepKinds DEF Quietly, Commits
<1>1. ASSUME NEW u \in Shares, share'[u].at \in Left
      PROVE  job'.next_block >= NBlocks
  <2>1. job.next_block >= NBlocks
    <3>1. CASE u # t
      BY <1>1, <1>s, <3>1 DEF Undisturbed, ClaimDone, Left
    <3>2. CASE u = t /\ share[t].at \in Left
      BY <3>2 DEF ClaimDone
    <3>3. CASE u = t /\ share[t].at = "loop" /\ share[t].nblock >= share[t].tblock
      <4>1. share[t].tblock = NBlocks /\ share[t].nblock <= job.next_block
        BY <3>3 DEF ClaimInv, Claimed
      <4>. QED BY <1>j, <1>n, <3>3, <4>1
    <3>. QED BY <1>1, <3>1, <3>2, <3>3, GiveUp
  <2>. QED BY <1>c, <1>k, <1>n, <1>j, <2>1
<1>2. ASSUME NEW b \in Blocks, b <= job'.next_block
      PROVE  \/ b \in done'
             \/ \E u \in Shares : share'[u].at \in Undone \cup {"loop"} /\ share'[u].nblock = b
  <2>b. b \in Int /\ b < NBlocks
    BY <1>j DEF Blocks
  <2>1. CASE b <= job.next_block
    <3>1. CASE b \in done
      BY <1>g, <3>1
    <3>2. CASE b \notin done
      <4>1. PICK u \in Shares : share[u].at \in Undone \cup {"loop"} /\ share[u].nblock = b
        BY <2>1, <3>2 DEF ClaimDone
      <4>2. CASE u # t
        <5>1. share'[u].at \in Undone \cup {"loop"} /\ share'[u].nblock = b
          BY <1>s, <4>1, <4>2 DEF Undisturbed, Undone
        <5>. QED BY <5>1
      <4>3. CASE u = t
        <5>1. ~(Start(t) \/ NextBlock(t))
          BY <1>c, <4>1, <4>3
        <5>2. CASE Commits(t)
          BY <4>1, <4>3, <5>2 DEF Commits
        <5>3. CASE ~Commits(t)
          <6>1. share'[t].nblock = b
            BY <4>1, <4>3, <5>1, <5>3, StepKinds DEF Quietly
          <6>2. share'[t].at \in Undone \cup Left
            BY <4>1, <4>3, <5>3, GiveUp
          <6>3. share'[t].at \notin Left
            <7>1. share[t].at \notin Left
              BY <4>1, <4>3 DEF Undone, Left
            <7>2. ~(share[t].at = "loop" /\ share[t].nblock >= share[t].tblock)
              BY <1>j, <2>b, <4>1, <4>3 DEF ClaimInv, Claimed
            <7>. QED BY <7>1, <7>2, GiveUp
          <6>. QED BY <6>1, <6>2, <6>3
        <5>. QED BY <5>2, <5>3
      <4>. QED BY <4>2, <4>3
    <3>. QED BY <3>1, <3>2
  <2>2. CASE ~(b <= job.next_block)
    <3>1. Start(t) \/ NextBlock(t)
      BY <1>2, <1>k, <2>2
    <3>2. b = job.next_block + 1
      BY <1>2, <1>c, <1>n, <2>b, <2>2, <3>1
    <3>. QED BY <1>c, <3>1, <3>2
  <2>. QED BY <2>1, <2>2
<1>. QED BY <1>1, <1>2 DEF ClaimDone

(* Nothing is lost in any step. *)
LEMMA ProgressStep ==
  ASSUME TypeInv, ClaimInv, SliceInv, ProgressInv, Next
  PROVE  ProgressInv'
<1>1. CASE Return
  <2>1. mode' = mode /\ job' = job /\ done' = done /\ share' = share
    BY <1>1 DEF Return
  <2>2. StaticSchedule' = StaticSchedule
    BY <2>1, ModeFixed
  <2>. QED BY <2>1, <2>2 DEF ProgressInv, SliceDone, ClaimDone
<1>2. ASSUME NEW t \in Shares, ShareStep(t) \/ DeltaSpurious(t), job'.giveup_code > 0
      PROVE  SliceDone' /\ ClaimDone'
  BY <1>2, GiveUp, SliceDoneStep, ClaimDoneStep DEF ProgressInv
<1>. QED BY <1>1, <1>2 DEF Next, ProgressInv

-----------------------------------------------------------------------------
(* The bytes that a job without ranges of its own reports. *)

(* One more block adds its bytes. *)
LEMMA PlainBytesAdd ==
  ASSUME NEW D, D \subseteq Blocks, NEW b \in Blocks, b \notin D
  PROVE  /\ PlainBytes(D) \in Nat
         /\ PlainBytes(D \cup {b}) = PlainBytes(D) + BlockBytes(b)
<1> DEFINE z == NBlocks - 1
           E == D \ {z}
           c == Cardinality(E)
<1>1. IsFiniteSet(Blocks)
  BY SizesAssumption, FS_Interval DEF Blocks
<1>2. IsFiniteSet(E)
  BY <1>1, FS_Subset
<1>3. c \in Nat
  BY <1>2, FS_CardinalityType
<1>4. BlockSize \in Nat /\ BlockBytes(z) \in Nat /\ BlockBytes(b) \in Nat /\ z \in Blocks
  BY SizesOfBlocks, SizesAssumption DEF Blocks
<1>5. BlockSize * c \in Nat
  BY <1>3, <1>4, TimesMonotone
<1>6. CASE b = z
  <2>1. (D \cup {b}) \ {z} = E
    BY <1>6
  <2> HIDE DEF c, E, z
  <2>2. PlainBytes(D) = BlockSize * c + 0
    BY <1>6 DEF PlainBytes, c, E, z
  <2>3. PlainBytes(D \cup {b}) = BlockSize * c + BlockBytes(b)
    BY <1>6, <2>1 DEF PlainBytes, c, z
  <2>. QED BY <1>4, <1>5, <2>2, <2>3
<1>7. CASE b # z
  <2>1. (D \cup {b}) \ {z} = E \cup {b} /\ b \notin E
    BY <1>7
  <2>2. Cardinality(E \cup {b}) = c + 1
    BY <1>2, <2>1, FS_AddElement
  <2>3. BlockBytes(b) = BlockSize
    BY <1>7 DEF BlockBytes
  <2>4. BlockSize * (c + 1) = BlockSize * c + BlockSize
    BY <1>3, <1>4
  <2> HIDE DEF c, E, z
  <2>5. z \in D \cup {b} <=> z \in D
    BY <1>7
  <2>6. PlainBytes(D) = BlockSize * c + (IF z \in D THEN BlockBytes(z) ELSE 0)
    BY DEF PlainBytes, c, E, z
  <2>7. PlainBytes(D \cup {b}) = BlockSize * (c + 1) + (IF z \in D THEN BlockBytes(z) ELSE 0)
    BY <2>1, <2>2, <2>5 DEF PlainBytes, z
  <2>. QED BY <1>4, <1>5, <2>3, <2>4, <2>6, <2>7
<1>. QED BY <1>6, <1>7

(* All the blocks have the bytes of the source. *)
LEMMA PlainBytesAll == PlainBytes({}) = 0 /\ PlainBytes(Blocks) = SourceSize
<1>1. NBlocks - 1 \in Nat /\ BlockSize \in Nat /\ NBlocks \in Nat
  BY SizesAssumption
<1>2. {} \ {NBlocks - 1} = {} /\ Cardinality({}) = 0
  BY FS_EmptySet
<1>3. Blocks \ {NBlocks - 1} = 0 .. NBlocks - 2 /\ NBlocks - 1 \in Blocks
  BY <1>1 DEF Blocks
<1>4. Cardinality(0 .. NBlocks - 2) = NBlocks - 1
  BY <1>1, FS_Interval, SizesAssumption
<1>5. PlainBytes({}) = BlockSize * 0
  BY <1>1, <1>2 DEF PlainBytes
<1>6. PlainBytes(Blocks) = BlockSize * (NBlocks - 1) + BlockBytes(NBlocks - 1)
  BY <1>3, <1>4 DEF PlainBytes
<1>7. BlockSize * 0 = 0 /\ BlockSize * (NBlocks - 1) = (NBlocks - 1) * BlockSize
  BY <1>1
<1>. QED BY <1>5, <1>6, <1>7 DEF SourceSize

(* The job's output size and the result follow the blocks done. *)
LEMMA BytesStep ==
  ASSUME TypeInv, ClaimInv, SliceInv, CountInv, BytesInv, Next
  PROVE  BytesInv'
<1>0. CASE Return
  BY <1>0 DEF Return, BytesInv, Coded, StaticSchedule, Compress, Memcpyed, Total
<1> SUFFICES ASSUME NEW t \in Shares, ShareStep(t) \/ DeltaSpurious(t)
             PROVE  BytesInv'
  BY <1>0 DEF Next
<1>s. Undisturbed(t) /\ mode' = mode /\ returned' = returned
  BY StepShape
<1>m. Coded' = Coded /\ StaticSchedule' = StaticSchedule /\ Total' = Total
  BY <1>s, ModeFixed
<1>j. share \in [Shares -> ShareRec] /\ job \in JobRec /\ done \subseteq Blocks
  BY DEF TypeInv, TypeOK
<1>a. job.output_bytes \in Nat /\ job.active_workers \in Nat
  BY <1>j DEF JobRec
<1>r. ~returned
  <2>1. share[t].at # "gone"
    BY DEF ShareStep, Take, Start, StartFails, Loop, Work, Delta, Decode, CommitError,
       CommitCompressed, Copy, CommitPlain, NextBlock, JobDone, Signal, DeltaSpurious
  <2>. QED BY <2>1 DEF CountInv
<1>c. ASSUME NEW u \in Shares, ~Coded, share'[u].at \in Undone \ {"work"}
      PROVE  share'[u].cbytes \in {Error, BlockBytes(share'[u].nblock)}
  <2>1. CASE u # t
    BY <1>c, <1>s, <2>1 DEF Undisturbed, BytesInv, Undone
  <2>2. CASE u = t /\ Work(t)
    <3>1. share'[t].cbytes \in {Error, BlockBytes(share[t].nblock)}
      BY <1>c, <1>j, <2>2, ModesAssumption
      DEF Work, Coded, Compress, Memcpyed, ShareRec, TypeInv, TypeOK, AllModes
    <3>2. share'[t].nblock = share[t].nblock
      BY <1>j, <2>2 DEF Work, ShareRec
    <3>. QED BY <2>2, <3>1, <3>2
  <2>3. CASE u = t /\ ~Work(t)
    <3>1. share[t].at \in Undone \ {"work"} /\ share'[t].nblock = share[t].nblock
          /\ share'[t].cbytes = share[t].cbytes
      <4> USE <1>j DEF ShareRec, Goto, Undone
      <4>1. CASE Delta(t) \/ Decode(t) \/ DeltaSpurious(t)
        BY <4>1 DEF Delta, Decode, DeltaSpurious
      <4>2. CASE Take(t) \/ Copy(t) \/ Loop(t)
        BY <1>c, <2>3, <4>2 DEF Take, Copy, Loop
      <4>3. CASE Start(t) \/ NextBlock(t)
        BY <1>c, <2>3, <4>3 DEF Start, NextBlock, Claim
      <4>4. CASE StartFails(t) \/ CommitError(t) \/ CommitPlain(t) \/ CommitCompressed(t)
        BY <1>c, <2>3, <4>4 DEF StartFails, CommitError, CommitPlain, CommitCompressed
      <4>5. CASE JobDone(t) \/ Signal(t)
        BY <1>c, <2>3, <4>5 DEF JobDone, Signal
      <4>. QED BY <2>3, <4>1, <4>2, <4>3, <4>4, <4>5 DEF ShareStep
    <3>. QED BY <1>c, <2>3, <3>1 DEF BytesInv
  <2>. QED BY <2>1, <2>2, <2>3
<1>1. CASE CommitPlain(t)
  <2> DEFINE b == share[t].nblock
  <2>1. b \in Blocks /\ b \notin done /\ t \in ActiveShares
    BY <1>1, BlockFresh DEF CommitPlain, InBlock, Undone, ActiveShares
  <2>2. job'.output_bytes = job.output_bytes + share[t].cbytes
        /\ job'.active_workers = job.active_workers /\ done' = done \cup {b}
    BY <1>1, <1>j DEF CommitPlain, JobRec
  <2>3. ~Coded /\ share[t].cbytes = BlockBytes(b)
    BY <1>1 DEF CommitPlain, Coded, Compress, Memcpyed, BytesInv, Undone
  <2>4. job.active_workers # 0
    <3>1. ActiveShares \subseteq Shares
      BY DEF ActiveShares
    <3>2. Cardinality(ActiveShares) \in Nat /\ Cardinality(ActiveShares) - 1 \in Nat
      BY <2>1, <3>1, Counted
    <3>. QED BY <3>2 DEF CountInv
  <2>5. PlainBytes(done') = PlainBytes(done) + BlockBytes(b)
    BY <1>j, <2>1, <2>2, PlainBytesAdd
  <2>6. (PlainBytes(done))' = PlainBytes(done')
    BY DEF PlainBytes, BlockBytes
  <2>. QED BY <1>c, <1>m, <1>r, <1>s, <2>2, <2>3, <2>4, <2>5, <2>6 DEF BytesInv, BlockBytes
<1>2. CASE JobDone(t)
  <2>1. done' = done /\ job'.active_workers = job.active_workers - 1
        /\ job'.giveup_code = job.giveup_code
    BY <1>2, <1>j DEF JobDone, JobRec
  <2>2. ~StaticSchedule => job'.output_bytes = job.output_bytes
    BY <1>2, <1>j DEF JobDone, JobRec
  <2>3. StaticSchedule /\ job.active_workers = 1 /\ job.giveup_code > 0 =>
          job'.output_bytes = Total
    BY <1>2, <1>j DEF JobDone, JobRec, Total
  <2>4. job'.active_workers = 0 => job.active_workers = 1
    BY <1>a, <2>1
  <2>. QED BY <1>c, <1>m, <1>r, <1>s, <2>1, <2>2, <2>3, <2>4 DEF BytesInv, BlockBytes
<1>3. CASE ~CommitPlain(t) /\ ~JobDone(t)
  <2>1. ~Coded => job'.output_bytes = job.output_bytes /\ done' = done
    <3> USE <1>j DEF JobRec
    <3>1. CASE Take(t) \/ Loop(t) \/ Copy(t) \/ DeltaSpurious(t) \/ Decode(t) \/ Work(t)
      BY <3>1 DEF Take, Loop, Copy, DeltaSpurious, Decode, Work
    <3>2. CASE Start(t) \/ NextBlock(t)
      BY <3>2 DEF Start, NextBlock, Claim
    <3>3. CASE StartFails(t) \/ CommitError(t) \/ Delta(t) \/ Signal(t)
      BY <3>3 DEF StartFails, CommitError, Delta, Signal
    <3>4. CASE CommitCompressed(t)
      BY <3>4, ModesAssumption
      DEF CommitCompressed, Coded, Compress, Memcpyed, TypeInv, TypeOK, AllModes
    <3>. QED BY <1>3, <3>1, <3>2, <3>3, <3>4 DEF ShareStep
  <2>2. job'.active_workers = 0 => Signal(t)
    <3>1. CASE share[t].at = "signal"
      BY <3>1 DEF ShareStep, Take, Start, StartFails, Loop, Work, Delta, Decode, CommitError,
       CommitCompressed, Copy, CommitPlain, NextBlock, JobDone, Signal, DeltaSpurious
    <3>2. CASE share[t].at # "signal"
      <4>1. share'[t].at \notin {"signal", "gone"}
        BY <1>3, <3>2, StaysActive DEF Signal
      <4>2. ActiveShares' \subseteq Shares /\ t \in ActiveShares'
        BY <4>1 DEF ActiveShares
      <4>3. Cardinality(ActiveShares') \in Nat /\ Cardinality(ActiveShares') - 1 \in Nat
        BY <4>2, Counted
      <4>. QED BY <4>3, CountStep DEF CountInv
    <3>. QED BY <3>1, <3>2
  <2>3. Signal(t) => /\ job'.active_workers = job.active_workers
                     /\ job'.output_bytes = job.output_bytes
                     /\ job'.giveup_code = job.giveup_code
    BY <1>j DEF Signal, JobRec
  <2>. QED BY <1>c, <1>m, <1>r, <1>s, <2>1, <2>2, <2>3 DEF BytesInv, BlockBytes
<1>. QED BY <1>1, <1>2, <1>3

-----------------------------------------------------------------------------
(* The theorems. *)

(* A new job satisfies the inductive invariant. *)
LEMMA IInvInit == Init => IInv
<1> SUFFICES ASSUME Init PROVE IInv
  OBVIOUS
<1>t. TypeInv /\ CountInv
  BY TypeInit, CountInit
<1>1. \A t \in Shares : share[t].at = "queued"
  BY DEF Init
<1>2. /\ reserved = {} /\ done = {} /\ early = {} /\ returned = FALSE
      /\ job.next_block = -1 /\ job.output_bytes = FirstByte(mode.kind)
      /\ job.active_workers = NThreads
  BY DEF Init
<1>3. ClaimInv /\ SliceInv /\ DeltaInv
  BY <1>1, <1>2 DEF ClaimInv, SliceInv, DeltaInv, Claimed, InBlock
<1>4. OutputInv
  <2>1. Coded => job.output_bytes = Overhead
    BY <1>2 DEF Coded, FirstByte
  <2>2. Overhead .. Overhead - 1 = {} /\ Overhead >= Overhead
    BY SizesAssumption
  <2>. QED BY <1>2, <2>1, <2>2
       DEF OutputInv, OutputFilled, OutputStored, RangesSound, RangesDisjoint
<1>5. ProgressInv
  <2>1. \A t \in Shares : share[t].at \notin Claimed \cup Left \cup {"copy", "next"}
    BY <1>1 DEF Claimed, InBlock, Left
  <2>2. \A b \in Blocks : ~(b <= job.next_block)
    BY <1>2 DEF Blocks
  <2>. QED BY <2>1, <2>2 DEF ProgressInv, SliceDone, ClaimDone
<1>6. BytesInv
  <2>1. ~Coded => job.output_bytes = 0
    BY <1>2 DEF Coded, FirstByte
  <2>2. job.active_workers # 0
    BY <1>2, SizesAssumption
  <2>3. \A t \in Shares : share[t].at \notin Undone
    BY <1>1 DEF Undone
  <2>. QED BY <1>2, <2>1, <2>2, <2>3, PlainBytesAll DEF BytesInv
<1>. QED BY <1>t, <1>3, <1>4, <1>5, <1>6 DEF IInv

(* The inductive invariant is kept by every step, and by stuttering. *)
LEMMA IInvStep == IInv /\ [Next]_vars => IInv'
<1> SUFFICES ASSUME IInv, [Next]_vars PROVE IInv'
  OBVIOUS
<1>1. CASE Next
  BY <1>1, TypeStep, ClaimStep, SliceStep, CountStep, DeltaStep, OutputStep,
     ProgressStep, BytesStep DEF IInv
<1>2. CASE UNCHANGED vars
  <2> USE <1>2 DEF vars, IInv
  <2>m. Coded' = Coded /\ StaticSchedule' = StaticSchedule /\ Total' = Total
    BY ModeFixed
  <2>1. TypeInv'
    BY DEF TypeInv, TypeOK
  <2>2. ClaimInv' /\ SliceInv' /\ DeltaInv'
    BY <2>m DEF ClaimInv, SliceInv, DeltaInv
  <2>3. CountInv'
    BY DEF CountInv, ActiveShares, PendingShares
  <2>4. OutputInv'
    BY <2>m DEF OutputInv, OutputFilled, OutputStored, RangesSound, RangesDisjoint, RangeOf
  <2>5. ProgressInv'
    BY <2>m DEF ProgressInv, SliceDone, ClaimDone
  <2>6. BytesInv'
    BY <2>m DEF BytesInv, PlainBytes, BlockBytes
  <2>. QED BY <2>1, <2>2, <2>3, <2>4, <2>5, <2>6
<1>. QED BY <1>1, <1>2

(* The inductive invariant holds in every reachable state. *)
LEMMA AllIInv == Spec => []IInv
BY IInvInit, IInvStep, PTL DEF Spec

(* The variables of a job keep their types: in particular nblock never     *)
(* leaves the blocks inside the loop, and no counter of workers goes below *)
(* zero.                                                                   *)
THEOREM JobTypes == Spec => []TypeOK
<1>1. IInv => TypeOK
  BY DEF IInv, TypeInv
<1>. QED BY <1>1, AllIInv, PTL

(* No block is worked on by two workers, or again once it is done, under   *)
(* either schedule.                                                        *)
THEOREM BlocksWorkedOnce == Spec => []BlockWorkedOnce
<1>1. IInv => BlockWorkedOnce
  <2> SUFFICES ASSUME IInv, NEW t \in Shares, share[t].at \in InBlock
               PROVE  /\ share[t].nblock \in Blocks
                      /\ \A u \in Shares \ {t} : share[u].at \in InBlock =>
                           share[u].nblock # share[t].nblock
                      /\ share[t].at \in Undone => share[t].nblock \notin done
    BY DEF BlockWorkedOnce, Undone
  <2>1. share[t].nblock \in Blocks
        /\ (share[t].at \in Undone => share[t].nblock \notin done)
    BY BlockFresh DEF IInv
  <2>2. ASSUME NEW u \in Shares \ {t}, share[u].at \in InBlock
        PROVE  share[u].nblock # share[t].nblock
    <3>1. CASE StaticSchedule
      <4>1. InSlice(share[t].nblock, t) /\ InSlice(share[u].nblock, u)
        BY <2>2, <3>1, BlockFresh DEF IInv
      <4>2. share[t].nblock \in Nat
        BY <2>1, SizesAssumption DEF Blocks
      <4>. QED BY <4>1, <4>2, SlicesDisjoint
    <3>2. CASE ~StaticSchedule
      BY <2>2, <3>2 DEF IInv, ClaimInv, Claimed
    <3>. QED BY <3>1, <3>2
  <2>. QED BY <2>1, <2>2
<1>. QED BY <1>1, AllIInv, PTL

(* The call returns only when no worker can touch its job group. *)
THEOREM ReturnIsLast == Spec => []NoWorkerAfterReturn
<1>1. IInv => NoWorkerAfterReturn
  BY DEF IInv, CountInv, NoWorkerAfterReturn
<1>. QED BY <1>1, AllIInv, PTL

(* The reference block is decoded first if waits end by a signal only. *)
THEOREM ReferenceIsFirst == Spec => []ReferenceDecodedFirst
<1>1. IInv => ReferenceDecodedFirst
  BY DEF IInv, DeltaInv, ReferenceDecodedFirst
<1>. QED BY <1>1, AllIInv, PTL

(* The ranges of dest that concurrent compressions are given are disjoint, *)
(* gapless and inside dest.                                                *)
THEOREM OutputIsTiled == Spec => []OutputTiled
<1>1. IInv => OutputTiled
  <2> SUFFICES ASSUME IInv PROVE OutputTiled
    OBVIOUS
  <2>t. job.output_bytes \in Nat /\ Overhead \in Nat
        /\ \A r \in reserved : r.start \in Nat /\ r.size \in Nat
    BY SizesAssumption DEF IInv, TypeInv, TypeOK, JobRec
  <2>1. ASSUME reserved # {}
        PROVE  UNION {RangeOf(r) : r \in reserved} = Overhead .. job.output_bytes - 1
    <3>1. Coded
      BY <2>1 DEF IInv, OutputInv, RangesSound
    <3>2. ASSUME NEW r \in reserved, NEW x \in RangeOf(r)
          PROVE  x \in Overhead .. job.output_bytes - 1
      <4>1. r.start >= Overhead /\ r.start + r.size <= job.output_bytes
        BY DEF IInv, OutputInv, RangesSound
      <4>. QED BY <2>t, <4>1 DEF RangeOf
    <3>3. \A x \in Overhead .. job.output_bytes - 1 : \E r \in reserved : x \in RangeOf(r)
      BY <3>1 DEF IInv, OutputInv, OutputFilled
    <3>. QED BY <3>2, <3>3
  <2>. QED BY <2>1 DEF IInv, OutputInv, RangesSound, RangesDisjoint, OutputTiled
<1>. QED BY <1>1, AllIInv, PTL

(* A call that returns success has processed and stored every block and    *)
(* reports the bytes it produced.                                          *)
THEOREM SuccessIsEverything == Spec => []SuccessIsComplete
<1>1. IInv => SuccessIsComplete
  <2> SUFFICES ASSUME IInv, Succeeded PROVE SuccessIsComplete
    BY DEF SuccessIsComplete
  <2>g. \A t \in Shares : share[t].at = "gone"
    BY DEF IInv, CountInv, Succeeded
  <2>j. /\ mode \in Modes /\ mode \in AllModes /\ job \in JobRec
        /\ done \subseteq Blocks /\ copied \subseteq Blocks
    BY DEF IInv, TypeInv, TypeOK
  <2>0. job.giveup_code > 0 /\ ~(job.giveup_code <= 0)
    BY <2>j DEF Succeeded, JobRec, Error
  <2>1. done = Blocks
    <3> SUFFICES ASSUME NEW b \in Blocks PROVE b \in done
      BY <2>j
    <3>1. CASE StaticSchedule
      <4>1. PICK t \in Shares : InSlice(b, t)
        BY SlicesCover
      <4>. QED BY <2>0, <2>g, <3>1, <4>1 DEF IInv, ProgressInv, SliceDone, Left
    <3>2. CASE ~StaticSchedule
      <4>1. 0 \in Shares
        BY SizesAssumption DEF Shares
      <4>2. job.next_block >= NBlocks
        BY <2>0, <2>g, <3>2, <4>1 DEF IInv, ProgressInv, ClaimDone, Left
      <4>3. b <= job.next_block
        BY <2>j, <4>2, SizesAssumption DEF Blocks, JobRec
      <4>. QED BY <2>0, <2>g, <3>2, <4>3 DEF IInv, ProgressInv, ClaimDone, Undone
    <3>. QED BY <3>1, <3>2
  <2>2. Coded => copied = Blocks
    BY <2>1, <2>g, <2>j DEF IInv, OutputInv, OutputStored
  <2>3. mode.kind = "compress" => \A b \in Blocks :
          \E r \in reserved : r.block = b /\ r.start = bstarts[b]
    <3> SUFFICES ASSUME mode.kind = "compress", NEW b \in Blocks
                 PROVE  \E r \in reserved : r.block = b /\ r.start = bstarts[b]
      OBVIOUS
    <3>1. PICK r \in reserved : r.block = b
      BY <2>1 DEF IInv, OutputInv, OutputStored, Coded
    <3>. QED BY <3>1 DEF IInv, OutputInv, RangesSound
  <2>4. result = job.output_bytes
    BY <2>0 DEF IInv, BytesInv, Succeeded
  <2>5. ActiveShares = {} /\ job.active_workers = 0
    <3>1. ActiveShares = {}
      BY <2>g DEF ActiveShares
    <3>. QED BY <3>1, FS_EmptySet DEF IInv, CountInv
  <2>6. StaticSchedule => job.output_bytes = Total
    BY <2>0, <2>5 DEF IInv, BytesInv
  <2>7. mode.kind = "memcpy" => job.output_bytes = SourceSize + Overhead
    BY <2>6, <2>j DEF StaticSchedule, Memcpyed, Compress, Modes, Total
  <2>8. mode.kind = "decompress" => job.output_bytes = SourceSize
    <3>1. CASE StaticSchedule
      BY <2>6, <3>1, SizesOfBlocks DEF Compress, Total
    <3>2. CASE ~StaticSchedule
      BY <2>1, <3>2, PlainBytesAll DEF IInv, BytesInv, Coded
    <3>. QED BY <3>1, <3>2
  <2>. QED BY <2>1, <2>2, <2>3, <2>4, <2>7, <2>8 DEF SuccessIsComplete, Coded
<1>. QED BY <1>1, AllIInv, PTL
=============================================================================
