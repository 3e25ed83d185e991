----------------------------- MODULE ChunkFormat -----------------------------
(***************************************************************************)
(* A chunk: what blosc2_compress_ctx writes and what blosc_d makes of it.  *)
(* The parts that go from bytes to bytes, without state:                   *)
(*   - the geometry: stune.c and blosc2_calculate_blocks;                  *)
(*   - the filter pipeline, both ways, with the buffers it cycles through; *)
(*   - streams: runs, stored and compressed, and how they fit in a buffer; *)
(*   - headers, with and without the extension, dictionaries, and the      *)
(*     fallbacks to a plain copy and to a chunk of zeros;                  *)
(*   - the trailer of a lazy chunk.                                        *)
(* Chunks with variable-length blocks and instrumented ones are left out.  *)
(* A byte is one of 0 .. 3, or Junk when nothing wrote it.  A filter keeps *)
(* what the pipeline can tell: shuffle moves bytes, delta depends on block *)
(* 0, trunc loses bits and is not undone, user does not map zero to zero.  *)
(* A codec is external: it packs a stream into one byte, or cannot.        *)
(***************************************************************************)
EXTENDS Integers, Sequences, FiniteSets

CONSTANTS
  MaxFilters,                               \* BLOSC2_MAX_FILTERS
  ExtHeader, MinHeader, IntSize,            \* header lengths, sizeof(int32_t)
  MinBuffer,                                \* BLOSC_MIN_BUFFERSIZE
  MaxTypesize,                              \* BLOSC_MAX_TYPESIZE
  K32,                                      \* 32 * 1024, the unit of stune.c
  MinDict, MaxDict, DictShare,              \* BLOSC2_MINUSEFULDICT, _MAXDICTSIZE, 20
  MinSamples, SampleFraction,               \* 8 and 16, in blosc2_compress_ctx
  FloatSizes                                \* typesizes that have a NaN: 4 and 8

ASSUME SizesAssumption ==
  /\ {MaxFilters, ExtHeader, MinHeader, IntSize, MinBuffer, MaxTypesize, K32} \subseteq Nat \ {0}
  /\ {MinDict, MaxDict, DictShare, MinSamples, SampleFraction} \subseteq Nat \ {0}
  /\ MinHeader < ExtHeader /\ MinDict <= MaxDict /\ FloatSizes \subseteq Nat
  /\ (MinBuffer - 1) \div DictShare < MinDict

Junk == -1
JunkBytes(n) == [k \in 1 .. n |-> Junk]
Zeros(n) == [k \in 1 .. n |-> 0]
NoDict == <<>>
Smaller(a, b) == IF a < b THEN a ELSE b
Greater(a, b) == IF a > b THEN a ELSE b
-----------------------------------------------------------------------------
(* Geometry.  c is a context: codec, clevel, splitmode and filters.        *)

FiltersToFlags(filters) == {filters[i] : i \in DOMAIN filters} \cap {"shuffle", "delta"}

SplitBlock(c, ts, bs) ==
  CASE c.splitmode = "always" -> TRUE
    [] c.splitmode = "never" -> FALSE
    [] OTHER -> /\ c.codec \in {"blosclz", "lz4"} \/ (c.codec = "zstd" /\ c.clevel <= 5)
                /\ "shuffle" \in FiltersToFlags(c.filters)
                /\ bs \div ts >= MinBuffer

IsHCR(c) == c.codec \in {"lz4hc", "zlib", "zstd"}

(* Quarters of K32 for each level, when blocks are not split. *)
LevelQuarters(c) ==
  LET q == <<1, 2, 4, 8, 16, 16, 32, 32, 32, IF IsHCR(c) THEN 64 ELSE 32>>
  IN q[c.clevel + 1] * (IF IsHCR(c) THEN 2 ELSE 1)
SplitUnits(c) == <<1, 1, 1, 2, 2, 2, 4, 8, 16>>[c.clevel]

AutoBlocksize(c, n) ==
  IF c.clevel > 0 /\ SplitBlock(c, c.ts, n)
  THEN Greater(K32, Smaller(128 * K32, SplitUnits(c) * K32 * c.ts))
  ELSE IF n >= K32 THEN (LevelQuarters(c) * K32) \div 4 ELSE n

(* blosc_stune_next_blocksize; asked is 0 or the size that the user, or an *)
(* earlier call with this context, left there.                             *)
NextBlocksize(c, asked, n) ==
  LET bs == Smaller(n, IF asked # 0 THEN asked ELSE AutoBlocksize(c, n)) IN
  IF n < c.ts THEN 1
  ELSE IF bs > c.ts THEN (bs \div c.ts) * c.ts ELSE bs

NBlocks(n, bs) == (n + bs - 1) \div bs
Leftover(n, bs) == n % bs
BlockLen(n, bs, b) == Smaller(bs, n - b * bs)
Block(src, bs, b) == SubSeq(src, b * bs + 1, b * bs + BlockLen(Len(src), bs, b))
IsLeftover(n, bs, b) == b = NBlocks(n, bs) - 1 /\ Leftover(n, bs) > 0
-----------------------------------------------------------------------------
(* Filters, on the bytes of a block. *)

XorByte(a, b) ==
  IF Junk \in {a, b} THEN Junk
  ELSE 2 * (((a \div 2) + (b \div 2)) % 2) + ((a + b) % 2)
Xor(s, ref) == [k \in DOMAIN s |-> XorByte(s[k], IF k \in DOMAIN ref THEN ref[k] ELSE Junk)]

ShuffleBytes(ts, s) ==
  LET ne == Len(s) \div ts IN
  [k \in DOMAIN s |-> IF k > ne * ts THEN s[k] ELSE s[((k - 1) % ne) * ts + ((k - 1) \div ne) + 1]]
UnshuffleBytes(ts, s) ==
  LET ne == Len(s) \div ts IN
  [k \in DOMAIN s |-> IF k > ne * ts THEN s[k] ELSE s[((k - 1) % ts) * ne + ((k - 1) \div ts) + 1]]

(* Block 0 against its own previous byte, the others against block 0. *)
DeltaOwn(s) == [k \in DOMAIN s |-> IF k = 1 THEN s[k] ELSE XorByte(s[k], s[k - 1])]
UndeltaOwn(s) ==
  LET d[k \in DOMAIN s] == IF k = 1 THEN s[k] ELSE XorByte(s[k], d[k - 1]) IN [k \in DOMAIN s |-> d[k]]

Each(s, f(_)) == [k \in DOMAIN s |-> IF s[k] = Junk THEN Junk ELSE f(s[k])]
Truncate(s) == Each(s, LAMBDA x : x - (x % 2))
UserForward(s) == Each(s, LAMBDA x : (x + 1) % 4)
UserBackward(s) == Each(s, LAMBDA x : (x + 3) % 4)
Prefilter(s) == Each(s, LAMBDA x : 3 - x)
Postfilter(s) == Each(s, LAMBDA x : (x + 2) % 4)

ShuffleWidth(ts, meta) == IF meta = 0 THEN ts ELSE meta

(* do_nothing, next_filter and last_filter; positions count from 1 and 0   *)
(* is none.  A pipeline is undone from its last position to the first.     *)
DoNothing(f, compress) == f = "none" \/ (~compress /\ f = "trunc")
NextFilter(fs, i) ==
  LET before == {k \in 1 .. i - 1 : ~DoNothing(fs[k], FALSE)} IN
  IF before = {} THEN "none" ELSE fs[CHOOSE k \in before : \A m \in before : m <= k]
LastFilter(fs, compress) ==
  LET active == {k \in DOMAIN fs : ~DoNothing(fs[k], compress)} IN
  IF active = {} THEN 0 ELSE CHOOSE k \in active : \A m \in active : k <= m

(* pipeline_forward.  The reference of delta is the source of the chunk,   *)
(* as it was before any filter.                                            *)
PipelineForward(c, ts, src, bs, b) ==
  LET first == IF c.prefilter THEN Prefilter(Block(src, bs, b)) ELSE Block(src, bs, b)
      Apply(f, meta, s) ==
        CASE f = "shuffle" -> ShuffleBytes(ShuffleWidth(ts, meta), s)
          [] f = "delta" -> IF b = 0 THEN DeltaOwn(s) ELSE Xor(s, Block(src, bs, 0))
          [] f = "trunc" -> Truncate(s)
          [] f = "user" -> UserForward(s)
          [] OTHER -> s
      after[i \in 0 .. MaxFilters] ==
        IF i = 0 THEN first ELSE Apply(c.filters[i], c.meta[i], after[i - 1])
  IN after[MaxFilters]
-----------------------------------------------------------------------------
(* Streams.  A codec, with or without a dictionary, is external. *)

Packs(s, dict) == Len(s) > 1 /\ (s[1] = s[2] \/ (dict # NoDict /\ s[1] = dict[1]))
GetRun(s) == \A k \in DOMAIN s : s[k] = s[1]

Failed == [ok |-> FALSE]
StreamDone(kind, data, size, dict) == [ok |-> TRUE, kind |-> kind, data |-> data, size |-> size, dict |-> dict]

(* One stream of blosc_c, when nt bytes of the dest are taken already and  *)
(* its length is to be written as well.                                    *)
EncodeStream(ext, dict, s, nt, dest) ==
  LET at == nt + IntSize
      extra == IF s[1] = 0 THEN 0 ELSE 1
      maxout == Smaller(Len(s), dest - at)
  IN IF ext /\ GetRun(s)
     THEN IF at + extra > dest THEN Failed ELSE StreamDone("run", s, IntSize + extra, NoDict)
     ELSE IF maxout <= 0 THEN Failed
     ELSE IF Packs(s, dict) THEN StreamDone("packed", s, IntSize + 1, dict)
     ELSE IF at + Len(s) > dest THEN Failed
     ELSE StreamDone("stored", s, IntSize + Len(s), NoDict)

NStreams(split, ts, leftover) == IF split /\ ~leftover THEN ts ELSE 1

(* The streams of a block: blosc_c after the filters. *)
WithStream(so, st) ==
  IF st.ok THEN [ok |-> TRUE, size |-> so.size + st.size, streams |-> Append(so.streams, st)] ELSE Failed
EncodeBlock(ext, dict, ns, s, nt, dest) ==
  LET ne == Len(s) \div ns
      upto[j \in 0 .. ns] ==
        IF j = 0 THEN [ok |-> TRUE, size |-> 0, streams |-> <<>>]
        ELSE IF ~upto[j - 1].ok THEN Failed
        ELSE WithStream(upto[j - 1], EncodeStream(ext, dict, SubSeq(s, (j - 1) * ne + 1, j * ne),
                                                  nt + upto[j - 1].size, dest))
  IN upto[ns]

(* All of the blocks, one after another (serial_blosc), or each one in a   *)
(* buffer of its own and then added to the chunk (t_blosc_do_job), in the  *)
(* order in which the threads finish.                                      *)
WithBlock(so, b, e, dest) ==
  IF ~e.ok THEN Failed
  ELSE IF so.nt + e.size > dest THEN Failed
  ELSE [ok |-> TRUE, nt |-> so.nt + e.size,
        blocks |-> [x \in DOMAIN so.blocks \cup {b} |->
          IF x = b THEN [bstart |-> so.nt, size |-> e.size, streams |-> e.streams] ELSE so.blocks[x]]]
EncodeBlocks(c, h, src, dict, start, dest, order) ==
  LET nb == NBlocks(h.nbytes, h.bs)
      ebsize == h.bs + h.ts * IntSize
      Encoded(b, nt) ==
        EncodeBlock(h.ext, dict, NStreams(h.split, h.ts, IsLeftover(h.nbytes, h.bs, b)),
                    PipelineForward(c, h.ts, src, h.bs, b),
                    IF order = <<>> THEN nt ELSE 0, IF order = <<>> THEN dest ELSE ebsize)
      upto[k \in 0 .. nb] ==
        IF k = 0 THEN [ok |-> TRUE, nt |-> start, blocks |-> [b \in {} |-> 0]]
        ELSE IF ~upto[k - 1].ok THEN Failed
        ELSE LET b == IF order = <<>> THEN k - 1 ELSE order[k]
             IN WithBlock(upto[k - 1], b, Encoded(b, upto[k - 1].nt), dest)
  IN upto[nb]
-----------------------------------------------------------------------------
(* Chunks.  The header is made of nbytes, cbytes, bs, ts, split, memcpyed, *)
(* filters, meta, special and usedict; the body of raw, blocks and dict.   *)

Overhead(ext) == IF ext THEN ExtHeader ELSE MinHeader

FlagsToFilters(flags) ==
  [i \in 1 .. MaxFilters |->
     IF i = MaxFilters /\ "shuffle" \in flags THEN "shuffle"
     ELSE IF i = MaxFilters - 1 /\ "delta" \in flags THEN "delta" ELSE "none"]
NoFilters == [i \in 1 .. MaxFilters |-> "none"]
NoMeta == [i \in 1 .. MaxFilters |-> 0]

(* blosc2_initialize_header_from_context writes the size that was asked    *)
(* for, not the one that the tuner chose.                                  *)
HeaderBlocksize(asked, bs, n) == Smaller(n, IF asked > 0 THEN asked ELSE bs)

(* What a call works with: initialize_context_compression.  hbs goes to    *)
(* the header, bs cuts the source.                                         *)
CallOf(c, asked, n) ==
  LET bs == NextBlocksize(c, asked, n)
      ts == IF c.ts > MaxTypesize THEN 1 ELSE c.ts
  IN [nbytes |-> n, bs |-> bs, hbs |-> HeaderBlocksize(asked, bs, n), ts |-> ts,
      ext |-> ~c.compat, split |-> SplitBlock(c, ts, bs)]

BStarts(h) == IntSize * NBlocks(h.nbytes, h.bs)

(* write_compression_header: a copy, before anything is tried. *)
MemcpyedAtOnce(c, h, dest, training) ==
  \/ c.clevel = 0
  \/ h.nbytes < MinBuffer
  \/ Overhead(h.ext) + (IF training THEN 0 ELSE BStarts(h)) > dest

ChunkOf(c, h, usedict, dict) ==
  [ok |-> TRUE, ext |-> h.ext, nbytes |-> h.nbytes, bs |-> h.hbs, ts |-> h.ts, split |-> h.split,
   filters |-> IF h.ext THEN c.filters ELSE FlagsToFilters(FiltersToFlags(c.filters)),
   meta |-> IF h.ext THEN c.meta ELSE NoMeta, special |-> "none", usedict |-> usedict,
   memcpyed |-> FALSE, cbytes |-> 0, raw |-> <<>>, blocks |-> <<>>, dict |-> dict]

(* The plain copy goes through the prefilter as well. *)
Plain(c, src) == IF c.prefilter THEN Prefilter(src) ELSE src

TotalStreams(h) ==
  LET nb == NBlocks(h.nbytes, h.bs) IN
  IF ~h.split THEN nb
  ELSE IF Leftover(h.nbytes, h.bs) > 0 THEN (nb - 1) * h.ts + 1 ELSE nb * h.ts

AllZero(h, nt) == nt = Overhead(h.ext) + BStarts(h) + TotalStreams(h) * IntSize

MutCopyFits(h, dest) == h.nbytes <= dest
CopyFits(h, dest) == h.nbytes + Overhead(h.ext) <= dest

(* blosc_compress_context: streams, a chunk of zeros, or a copy. *)
ChunkFrom(c, h, src, empty, dest, enc) ==
  IF enc.ok
  THEN IF AllZero(h, enc.nt)
       THEN [empty EXCEPT !.special = "zero", !.cbytes = Overhead(h.ext)]
       ELSE [empty EXCEPT !.blocks = enc.blocks, !.cbytes = enc.nt]
  ELSE IF ~CopyFits(h, dest) THEN Failed
  ELSE [empty EXCEPT !.memcpyed = TRUE, !.raw = Plain(c, src), !.cbytes = h.nbytes + Overhead(h.ext)]
CompressOnce(c, h, src, empty, start, dest, order, memcpyed) ==
  ChunkFrom(c, h, src, empty, dest,
            IF memcpyed THEN Failed ELSE EncodeBlocks(c, h, src, empty.dict, start, dest, order))
-----------------------------------------------------------------------------
(* Dictionaries: blosc2_compress_ctx. *)

(* The filtered blocks, in the order in which the first pass stored them. *)
Samples(c, h, src, order) ==
  LET upto[k \in 0 .. NBlocks(h.nbytes, h.bs)] ==
        IF k = 0 THEN <<>>
        ELSE upto[k - 1] \o PipelineForward(c, h.ts, src, h.bs, IF order = <<>> THEN k - 1 ELSE order[k])
  IN upto[NBlocks(h.nbytes, h.bs)]

DictMaxSize(n) == Smaller(MaxDict, n \div DictShare)
SampleUnits(h) == Greater(MinSamples, NBlocks(h.nbytes, h.bs) * (IF h.split THEN h.ts ELSE 1))
SampleSize(h) == (h.nbytes \div SampleUnits(h)) \div SampleFraction

(* ZDICT_trainFromBuffer finds nothing in samples that are all the same. *)
TrainFails(c, samples) == c.codec = "zstd" /\ GetRun(samples)

DictOf(c, h, samples) ==
  IF \/ DictMaxSize(h.nbytes) < MinDict
     \/ SampleSize(h) = 0
     \/ TrainFails(c, samples)
  THEN NoDict
  ELSE SubSeq(samples, 1, IF c.codec = "zstd" THEN DictMaxSize(h.nbytes)
                          ELSE Smaller(SampleUnits(h) * SampleSize(h), DictMaxSize(h.nbytes)))

MutFirstBlock(h, dict) == Overhead(h.ext) + BStarts(h) + Len(dict)
(* Where the blocks begin: after the starts, and the dictionary if any. *)
FirstBlock(h, dict) ==
  Overhead(h.ext) + BStarts(h) + (IF dict = NoDict THEN 0 ELSE IntSize + Len(dict))

(* The second pass.  The copy that the first one made of a small buffer    *)
(* left its bit in the header of dest, not in the context.                 *)
SecondPass(c, h, src, dest, order, dict) ==
  CompressOnce(c, h, src, ChunkOf(c, h, dict # NoDict, dict), FirstBlock(h, dict), dest, order, FALSE)
MarkCopied(ch) == IF ch.ok THEN [ch EXCEPT !.memcpyed = TRUE] ELSE ch
CompressWithDict(c, h, src, dest, order, copied) ==
  IF copied THEN MarkCopied(SecondPass(c, h, src, dest, order, NoDict))
  ELSE SecondPass(c, h, src, dest, order, DictOf(c, h, Samples(c, h, src, order)))

MaxOverheadFits(dest) == dest >= ExtHeader
DictCodec(c) == c.codec \in {"zstd", "lz4", "lz4hc"}

(* The whole call.  asked is the blocksize that the context holds. *)
CompressCall(c, h, src, dest, order) ==
  LET training == c.dict /\ c.clevel > 0
      atonce == MemcpyedAtOnce(c, h, dest, training)
      hm == IF atonce THEN [h EXCEPT !.split = TRUE] ELSE h
  IN IF ~MaxOverheadFits(dest) \/ (c.dict /\ ~DictCodec(c)) THEN Failed
     ELSE IF training
     THEN IF ~CopyFits(h, dest) THEN Failed ELSE CompressWithDict(c, hm, src, dest, order, atonce)
     ELSE CompressOnce(c, hm, src, ChunkOf(c, hm, FALSE, NoDict),
                       FirstBlock(h, NoDict), dest, order, atonce)
CompressCtx(c, asked, src, dest, order) == CompressCall(c, CallOf(c, asked, Len(src)), src, dest, order)
-----------------------------------------------------------------------------
(* Special chunks: blosc2_chunk_zeros, _uninit, _nans and _repeatval. *)

SpecialChunk(c, kind, n, value) ==
  LET h == CallOf(c, c.blocksize, n) IN
  [ChunkOf(c, h, FALSE, NoDict) EXCEPT
     !.ext = TRUE, !.filters = NoFilters, !.meta = NoMeta, !.split = TRUE, !.bs = Smaller(n, h.bs),
     !.special = kind, !.raw = IF kind = "value" THEN value ELSE <<>>,
     !.cbytes = ExtHeader + (IF kind = "value" THEN c.ts ELSE 0)]

(* frame_get_lazychunk: the compressed size of each block, from the        *)
(* starts of the blocks, which may be in any order.                        *)
LazyCsizes(ch) ==
  LET nb == NBlocks(ch.nbytes, ch.bs)
      Next(b) == {x \in DOMAIN ch.blocks : ch.blocks[x].bstart > ch.blocks[b].bstart}
  IN [b \in 0 .. nb - 1 |->
        IF ch.memcpyed THEN BlockLen(ch.nbytes, ch.bs, b)
        ELSE IF b \notin DOMAIN ch.blocks THEN 0
        ELSE IF Next(b) = {} THEN ch.cbytes - ch.blocks[b].bstart
        ELSE ch.blocks[CHOOSE x \in Next(b) : \A y \in Next(b) : ch.blocks[x].bstart <= ch.blocks[y].bstart].bstart
             - ch.blocks[b].bstart]
=============================================================================
