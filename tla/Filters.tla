------------------------------- MODULE Filters -------------------------------
(***************************************************************************)
(* One block goes through one filter, on one host, and back through it, on *)
(* another one: frames travel between machines.                            *)
(*   job   - the filter and its parameters; ts is the type size, bs the    *)
(*           bytes in the block, meta the filter's byte (or signed bits),  *)
(*           shape the blockshape (elements) for the n-dimensional ones,   *)
(*           first whether the block is block 0, and version the format    *)
(*           of the chunk that is decoded;                                 *)
(*   host  - what the block was last filtered on;                          *)
(*   stage - how far it got; buf - the bytes of the block: symbols, whose  *)
(*           form depends on what the filter computes (see each module).   *)
(***************************************************************************)
EXTENDS PlainFilters, CellFilters

CONSTANT Jobs                               \* the blocks to filter

Hosts == {"generic", "big_endian", "sse2", "avx2", "avx512", "neon", "neon_bits", "altivec"}
Lossless == {"shuffle", "bitshuffle", "delta", "bytedelta", "ndcell"}

VARIABLES job, host, stage, buf
vars == <<job, host, stage, buf>>
-----------------------------------------------------------------------------
(* get_shuffle_implementation: what is called on a host.  A host with NEON *)
(* takes the scalar bit shuffle; "neon_bits" is the choice commented out.  *)
ShuffleOf(h) ==
  CASE h = "avx512" -> "avx2"
    [] h \in {"neon", "neon_bits"} -> "neon"
    [] h = "big_endian" -> "generic"
    [] OTHER -> h
BitshuffleOf(h) ==
  CASE h = "neon" -> "generic"
    [] h = "neon_bits" -> "neon"
    [] h = "big_endian" -> "generic_be"
    [] OTHER -> h
(* CPU_HAS_SIMD of bytedelta.c. *)
BytedeltaOf(h) ==
  CASE h \in {"sse2", "avx2", "avx512"} -> "ssse3"
    [] h \in {"neon", "neon_bits"} -> "neon"
    [] OTHER -> "scalar"

Elements(j) == IF j.shape = <<>> THEN j.bs ELSE j.bs \div j.ts
Addresses(j) == 0 .. Elements(j) - 1
(* The bytes of block 0, as another block sees them, are negative symbols. *)
Input(j) ==
  CASE j.filter \in {"shuffle", "ndcell", "ndmean"} -> [a \in Addresses(j) |-> a]
    [] j.filter \in {"bitshuffle", "trunc_prec", "int_trunc"} -> [a \in Addresses(j) |-> [b \in 0 .. 7 |-> 8 * a + b]]
    [] j.filter = "delta" -> [a \in Addresses(j) |-> {a}]
    [] j.filter \in {"bytedelta", "bytedelta_buggy"} -> [a \in Addresses(j) |-> (a :> 1)]
Reference(j) == [a \in Addresses(j) |-> {-1 - a}]

Init ==
  /\ job \in Jobs
  /\ host = "generic" /\ stage = "input"
  /\ buf = Now(Input(job))

(* What a filter leaves: an error, or the next stage. *)
Leave(next, result) ==
  IF result = Refused
  THEN stage' = "refused" /\ buf' = Empty
  ELSE stage' = next /\ buf' = result

Forward(filter, h, result) ==
  /\ stage = "input" /\ job.filter = filter
  /\ host' = h /\ UNCHANGED job
  /\ stage' = "filtered" /\ buf' = result
ForwardOrRefuse(filter, h, result) ==
  /\ stage = "input" /\ job.filter = filter
  /\ host' = h /\ UNCHANGED job
  /\ Leave("filtered", result)
Back(filter, h, result) ==
  /\ stage = "filtered" /\ job.filter = filter
  /\ host' = h /\ UNCHANGED job
  /\ stage' = "restored" /\ buf' = result
-----------------------------------------------------------------------------
ShuffleForward(h) == Forward("shuffle", h, Now(Shuffle(ShuffleOf(h), job.ts, job.bs, buf)))
ShuffleBackward(h) == Back("shuffle", h, Now(Unshuffle(ShuffleOf(h), job.ts, job.bs, buf)))

(* Up to format 2 a block with a rest was stored without the bit shuffle. *)
BitshuffleForward(h) ==
  Forward("bitshuffle", h,
          IF job.version = 2 /\ (job.bs \div job.ts) % 8 # 0 THEN buf
          ELSE Now(Bitshuffle(BitshuffleOf(h), job.ts, job.bs, buf)))
BitshuffleBackward(h) ==
  Back("bitshuffle", h, Now(Bitunshuffle(BitshuffleOf(h), job.ts, job.bs, buf, job.version)))

DeltaForward(h) ==
  Forward("delta", h, Now(DeltaEncoder(IF job.first THEN buf ELSE Reference(job),
                                       job.first, job.bs, job.ts, buf)))
DeltaBackward(h) ==
  Back("delta", h, Now(DeltaDecoder(Reference(job), job.first, job.bs, job.ts, buf)))

TruncPrecForward(h) == ForwardOrRefuse("trunc_prec", h, TruncatePrecision(job.meta, job.ts, job.bs, buf))

IntTruncForwards(h) == ForwardOrRefuse("int_trunc", h, IntTruncForward(job.meta, job.ts, job.bs, buf))
IntTruncBackwards(h) == Back("int_trunc", h, IntTruncBackward(job.bs, buf))

(* job.ts is the type size of the super-chunk, 0 when there is none. *)
BytedeltaForwards(h) ==
  ForwardOrRefuse("bytedelta", h, BytedeltaForward(BytedeltaOf(h), job.meta, job.ts, job.bs, buf))
BytedeltaBackwards(h) ==
  Back("bytedelta", h, BytedeltaBackward(BytedeltaOf(h), job.meta, job.ts, job.bs, buf))

(* The buggy pair is only its own inverse on hosts of the same kind. *)
BuggyForwards(h) ==
  ForwardOrRefuse("bytedelta_buggy", h, BytedeltaForwardBuggy(BytedeltaOf(h), job.meta, job.ts, job.bs, buf))
BuggyBackwards(h) ==
  /\ (BytedeltaOf(h) = "scalar") = (BytedeltaOf(host) = "scalar")
  /\ Back("bytedelta_buggy", h, BytedeltaBackwardBuggy(BytedeltaOf(h), job.meta, job.ts, job.bs, buf))

NdcellForwards(h) ==
  ForwardOrRefuse("ndcell", h, NdcellForward(job.shape, job.ts, job.bs, job.meta, buf))
NdcellBackwards(h) ==
  /\ stage = "filtered" /\ job.filter = "ndcell"
  /\ host' = h /\ UNCHANGED job
  /\ Leave("restored", NdcellBackward(job.shape, job.ts, job.bs, job.meta, buf))

NdmeanForwards(h) ==
  ForwardOrRefuse("ndmean", h, NdmeanForward(job.shape, job.ts, job.bs, job.meta, buf))
NdmeanBackwards(h) ==
  /\ stage = "filtered" /\ job.filter = "ndmean"
  /\ host' = h /\ UNCHANGED job
  /\ Leave("restored", NdmeanBackward(job.shape, job.ts, job.bs, job.meta, buf))

Next == \E h \in Hosts :
  \/ ShuffleForward(h) \/ ShuffleBackward(h)
  \/ BitshuffleForward(h) \/ BitshuffleBackward(h)
  \/ DeltaForward(h) \/ DeltaBackward(h)
  \/ TruncPrecForward(h)
  \/ IntTruncForwards(h) \/ IntTruncBackwards(h)
  \/ BytedeltaForwards(h) \/ BytedeltaBackwards(h)
  \/ BuggyForwards(h) \/ BuggyBackwards(h)
  \/ NdcellForwards(h) \/ NdcellBackwards(h)
  \/ NdmeanForwards(h) \/ NdmeanBackwards(h)

Spec == Init /\ [][Next]_vars
-----------------------------------------------------------------------------
(* Every step of a filter writes the whole block and nothing outside of it *)
(* (the streams of the cell filters count from 1).                         *)
TypeOK ==
  /\ job \in Jobs /\ host \in Hosts
  /\ stage \in {"input", "filtered", "restored", "refused"}
  /\ stage # "refused" => DOMAIN buf \in {Addresses(job), 1 .. Elements(job)}

(* The transposition that the shuffles stand for. *)
Transposition(j) ==
  LET ne == j.bs \div j.ts IN
  [a \in Addresses(j) |-> IF a < ne * j.ts THEN (a % ne) * j.ts + a \div ne ELSE a]
BitTransposition(j) ==
  LET n == Whole(j.ts, j.bs) row == n \div 8 IN
  [a \in Addresses(j) |-> [b \in 0 .. 7 |->
     IF a >= n * j.ts THEN 8 * a + b
     ELSE LET r == a \div row e == 8 * (a % row) + b IN 8 * (e * j.ts + r \div 8) + (r % 8)]]
Differences(j) ==
  LET ts == BytedeltaType(j.meta, j.ts) n == j.bs \div ts IN
  [a \in Addresses(j) |-> IF a < ts * n /\ a % n # 0 THEN a :> 1 @@ (a - 1) :> 255 ELSE a :> 1]

(* shuffle.c picks the implementation at run time and bytedelta.c at build *)
(* time: every one writes the same bytes, for lengths that fill the        *)
(* vectors, that do not, and that end within an element.                   *)
HostsAgree ==
  stage = "filtered" =>
    /\ job.filter = "shuffle" => buf = Transposition(job)
    /\ job.filter = "bitshuffle" /\ job.version > 2 => buf = BitTransposition(job)
    /\ job.filter = "bytedelta" => buf = Differences(job)

(* The truncations never touch the sign and the exponent of a float, leave *)
(* at least one bit of precision, and clear low bits only.                 *)
PrecisionKept ==
  stage \in {"filtered", "restored"} /\ job.filter \in {"trunc_prec", "int_trunc"} =>
    \A a \in Addresses(job), b \in 0 .. 7 :
      LET bit == 8 * (a % job.ts) + b
          top == IF job.filter = "trunc_prec" THEN BitsMantissa(job.ts) - 1 ELSE 8 * job.ts - 1
          cleared == buf[a][b] = Zero
      IN /\ bit >= top => ~cleared
         /\ ~cleared => buf[a][b] = 8 * a + b
         /\ cleared /\ b > 0 => buf[a][b - 1] = Zero

InCell(j, e, f) ==
  \A d \in DOMAIN j.shape :
    UnidimToMultidim(j.shape, e)[d] \div j.meta = UnidimToMultidim(j.shape, f)[d] \div j.meta

(* What comes back is the block, all of it and nothing besides, whichever  *)
(* hosts wrote and read it; from ndmean, at every element the mean of the  *)
(* cell it is in.                                                          *)
RoundTrip ==
  stage = "restored" =>
    /\ job.filter \in Lossless \cup {"bytedelta_buggy"} => buf = Input(job)
    /\ job.filter = "ndmean" =>
         buf = [e \in Addresses(job) |-> {f \in Addresses(job) : InCell(job, e, f)}]

(* The geometry checks of the two directions agree: a block that a filter  *)
(* accepted is never refused on the way back, when the data is gone.       *)
AcceptedIsRestorable == [][stage = "filtered" => stage' # "refused"]_vars
=============================================================================
