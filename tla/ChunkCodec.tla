------------------------------ MODULE ChunkCodec ------------------------------
(***************************************************************************)
(* The calls on chunks: a compression context makes them, one at a time,   *)
(* and a decompression context reads them, by the whole, by items and by   *)
(* blocks.  Both contexts are used again and again, and keep state from    *)
(* one call to the next.  A whole chunk is read by several threads when    *)
(* the context has them: the blocks' steps then interleave at the points   *)
(* where one can see another's bytes in dest.                              *)
(***************************************************************************)
EXTENDS ChunkDecode

CONSTANTS
  CParams,          \* compression parameters, one record each
  DParams,          \* [nthreads, post]
  Sources,          \* buffers to compress
  DestSizes,        \* sizes of the destination
  Specials,         \* kinds of special chunks, with their lengths: <<kind, n>>
  ItemCounts,       \* how many items a partial read asks for
  MaxMasked         \* how many blocks a mask leaves out at most

VARIABLES
  p,                \* the parameters of the decompression context
  cctx,             \* the compression context, and the blocksize it holds
  chunk,            \* the last chunk made, with what it was made from
  dctx,             \* the decompression context
  call,             \* a decompression by several threads, in progress
  pending,          \* the mask that was set and not used yet
  got               \* what the last call returned

vars == <<p, cctx, chunk, dctx, call, pending, got>>

NoContext == [live |-> FALSE]
NoChunk == [live |-> FALSE]
NoCall == [live |-> FALSE]
NoAnswer == [kind |-> "none"]
Answer(kind, ok, first, out, mask) ==
  [kind |-> kind, ok |-> ok, first |-> first, out |-> out, mask |-> mask]

Ch == chunk.ch
HasDelta(ch) == "delta" \in FiltersToFlags(ch.filters)

(* A chunk may be read when no call is in progress and the last answer was *)
(* taken.                                                                  *)
Readable == chunk.live /\ Ch.ok /\ ~call.live /\ got = NoAnswer

Init ==
  /\ p \in DParams
  /\ cctx = NoContext /\ chunk = NoChunk /\ call = NoCall /\ got = NoAnswer
  /\ dctx = [special |-> "none", meta |-> NoMeta, dict |-> NoDict, mask |-> NoMask, dref |-> FALSE]
  /\ pending = NoMask
-----------------------------------------------------------------------------
(* Making chunks *)

NewContext ==
  /\ ~cctx.live
  /\ \E c \in CParams : cctx' = [live |-> TRUE, c |-> c, blocksize |-> c.blocksize]
  /\ UNCHANGED <<p, chunk, dctx, call, pending, got>>

FreeContext ==
  /\ cctx.live /\ ~chunk.live
  /\ cctx' = NoContext
  /\ UNCHANGED <<p, chunk, dctx, call, pending, got>>

MakesChunk(ch, c, bs, src, dest) ==
  chunk' = [live |-> TRUE, ch |-> ch, c |-> c, bs |-> bs, src |-> src, dest |-> dest]

(* Threads finish their blocks in any order. *)
Orders(c, h) ==
  IF c.nthreads = 1 \/ h.nbytes \div h.bs <= 1 THEN {<<>>}
  ELSE LET nb == NBlocks(h.nbytes, h.bs) IN
       {o \in [1 .. nb -> 0 .. nb - 1] : \A i, j \in 1 .. nb : o[i] = o[j] => i = j}

(* blosc2_compress_ctx, and blosc2_compress for the header of Blosc1.  The *)
(* context keeps the blocksize and the typesize that this call has used.   *)
Compress ==
  /\ cctx.live /\ ~chunk.live
  /\ \E src \in Sources, dest \in DestSizes :
       LET asked == IF cctx.c.compat THEN cctx.c.blocksize ELSE cctx.blocksize
           h == CallOf(cctx.c, asked, Len(src))
       IN /\ \E order \in Orders(cctx.c, h) :
               MakesChunk(CompressCtx(cctx.c, asked, src, dest, order), cctx.c, h.bs, src, dest)
          /\ cctx' = IF cctx.c.compat THEN cctx ELSE [cctx EXCEPT !.blocksize = h.bs, !.c.ts = h.ts]
  /\ UNCHANGED <<p, dctx, call, pending, got>>

MakeSpecial ==
  /\ cctx.live /\ ~chunk.live /\ ~cctx.c.compat
  /\ \E s \in Specials :
       LET c == cctx.c
           value == [k \in 1 .. c.ts |-> k % 4]
           h == CallOf(c, c.blocksize, s[2])
           all == CASE s[1] = "value" -> SetValues(value, s[2])
                    [] s[1] = "nan" -> SetValues(<<3>>, s[2])
                    [] OTHER -> Zeros(s[2])
       IN /\ s[2] % c.ts = 0
          /\ MakesChunk(SpecialChunk(c, s[1], s[2], value), [c EXCEPT !.prefilter = FALSE], h.bs, all, ExtHeader + s[2])
  /\ UNCHANGED <<p, cctx, dctx, call, pending, got>>
-----------------------------------------------------------------------------
(* Reading the whole chunk *)

(* A mask may be of the wrong length.  None of these leaves out block 0 of *)
(* a chunk with delta: the others need it, and may wait for it forever.    *)
Masks(ch) ==
  LET nb == NBlocks(ch.nbytes, ch.bs) IN
  {[b \in 1 .. nb + 1 |-> FALSE]} \cup
  {m \in [1 .. nb -> BOOLEAN] :
     /\ Cardinality({b \in 1 .. nb : m[b]}) <= MaxMasked
     /\ HasDelta(ch) => ~m[1]}

SetMaskout ==
  /\ Readable /\ pending = NoMask
  /\ \E m \in Masks(Ch) : dctx' = [dctx EXCEPT !.mask = m] /\ pending' = m
  /\ UNCHANGED <<p, cctx, chunk, call, got>>

JunkDest(ch) == [b \in ChunkBlocks(ch) |-> JunkBytes(Len0(ch, b))]
Flat(ch, dest) == [k \in 1 .. ch.nbytes |-> dest[(k - 1) \div ch.bs][((k - 1) % ch.bs) + 1]]

(* blosc2_decompress_ctx frees the mask, whatever came of the call. *)
MaskOff(d) == [d EXCEPT !.mask = NoMask]

(* A chunk that initialize_context_decompression refuses. *)
Refuse ==
  /\ Readable /\ ~InitOK(dctx, Ch)
  /\ LET kept == IF dctx.mask # NoMask /\ Len(dctx.mask) # NBlocks(Ch.nbytes, Ch.bs)
                 THEN FromHeader(dctx, Ch) ELSE [FromHeader(dctx, Ch) EXCEPT !.special = Ch.special]
     IN dctx' = MaskOff([kept EXCEPT !.dict = NoDict])
  /\ got' = Answer("whole", FALSE, 0, <<>>, pending) /\ pending' = NoMask
  /\ UNCHANGED <<p, cctx, chunk, call>>

Serial(ch) == p.nthreads = 1 \/ ch.nbytes \div ch.bs <= 1

(* serial_blosc: the blocks in order; do_job has set dref_not_init. *)
DrefAfter(ch, d, first) == [d EXCEPT !.dref = @ /\ ~ClearsDref(ch, d, p, first)]
IntoDest(ch, so, b, w) ==
  [ok |-> w.ok, d |-> DrefAfter(ch, so.d, b = 0), dest |-> [so.dest EXCEPT ![b] = w.buf["D"]]]
SerialBlock(ch, so, b, lazy) ==
  IF ~so.ok \/ Masked(so.d, b) THEN so
  ELSE IF lazy /\ ~LazyOK(ch, b) THEN [so EXCEPT !.ok = FALSE]
  ELSE IntoDest(ch, so, b, BlockD(ch, so.d, p, b, b = 0, so.dest[0], so.dest[b]))
SerialDecode(ch, d, lazy) ==
  LET nb == NBlocks(ch.nbytes, ch.bs)
      upto[k \in 0 .. nb] ==
        IF k = 0 THEN [ok |-> TRUE, d |-> [d EXCEPT !.dref = TRUE], dest |-> JunkDest(ch)]
        ELSE SerialBlock(ch, upto[k - 1], k - 1, lazy)
  IN upto[nb]

DecompressSerial ==
  /\ Readable /\ InitOK(dctx, Ch) /\ Serial(Ch)
  /\ \E lazy \in {FALSE, CanBeLazy(Ch)} :
       \E end \in {SerialDecode(Ch, InitContext(dctx, Ch), lazy)} :
         /\ dctx' = MaskOff(end.d)
         /\ got' = Answer("whole", end.ok, 0, IF end.ok THEN Flat(Ch, end.dest) ELSE <<>>, pending)
  /\ pending' = NoMask
  /\ UNCHANGED <<p, cctx, chunk, call>>
-----------------------------------------------------------------------------
(* Reading it by threads.  Without a mask a thread has a range of blocks   *)
(* of its own; with one, each takes the next block that nobody took.       *)

Threads == 0 .. p.nthreads - 1
IdleWorker == [at |-> "take"]
Share(ch) == NBlocks(ch.nbytes, ch.bs) \div p.nthreads
             + (IF NBlocks(ch.nbytes, ch.bs) % p.nthreads > 0 THEN 1 ELSE 0)
Ranges(ch) == [t \in Threads |-> {b \in ChunkBlocks(ch) : b \div Share(ch) = t}]

DecompressParallel ==
  /\ Readable /\ InitOK(dctx, Ch) /\ ~Serial(Ch)
  /\ \E lazy \in {FALSE, CanBeLazy(Ch)} :
       call' = [live |-> TRUE, ok |-> TRUE, lazy |-> lazy, dref |-> TRUE, dest |-> JunkDest(Ch),
                left |-> IF dctx.mask = NoMask THEN Ranges(Ch) ELSE [t \in Threads |-> ChunkBlocks(Ch)],
                worker |-> [t \in Threads |-> IdleWorker]]
  /\ dctx' = [InitContext(dctx, Ch) EXCEPT !.dref = TRUE]
  /\ UNCHANGED <<p, cctx, chunk, pending, got>>

(* A worker's work becomes visible in dest, and goes on or ends. *)
MovesOn(t, b, w, at) ==
  call' = [call EXCEPT !.ok = @ /\ w.ok, !.dest[b] = w.buf["D"],
                       !.worker[t] = IF at = "take" THEN IdleWorker ELSE [at |-> at, b |-> b, w |-> w],
                       !.left = [u \in Threads |-> call.left[u] \ {b}]]
Where(w) == IF w.ok /\ AtDelta(Ch, w) THEN "delta" ELSE "take"

Takes(t, b) == call.worker[t].at = "take" /\ call.ok /\ b \in call.left[t] /\ \A x \in call.left[t] : b <= x

SkipMasked(t) ==
  /\ call.live
  /\ \E b \in ChunkBlocks(Ch) :
       /\ Takes(t, b) /\ Masked(dctx, b)
       /\ call' = [call EXCEPT !.left = [u \in Threads |-> call.left[u] \ {b}]]
  /\ UNCHANGED <<p, cctx, chunk, dctx, pending, got>>

TakeBlock(t) ==
  /\ call.live
  /\ \E b \in ChunkBlocks(Ch) :
       /\ Takes(t, b) /\ ~Masked(dctx, b)
       /\ \E w \in {RunToDelta(Ch, dctx, p, StartWork(Ch, dctx, p, b, call.dest[b]))} :
            LET read == [w EXCEPT !.ok = @ /\ (call.lazy => LazyOK(Ch, b))]
            IN MovesOn(t, b, read, Where(read))
  /\ UNCHANGED <<p, cctx, chunk, dctx, pending, got>>

MutReady(b) == TRUE
Ready(b) == b = 0 \/ ~call.dref

(* Block 0 goes first: it clears dref_not_init, and the others wait. *)
DeltaBlock(t) ==
  /\ call.live /\ call.worker[t].at = "delta" /\ Ready(call.worker[t].b)
  /\ LET b == call.worker[t].b
         w == Undo(Ch, dctx, p, call.worker[t].w, LAMBDA s : Undelta(b = 0, call.dest[0], s))
     IN call' = [call EXCEPT !.dest[b] = w.buf["D"], !.dref = @ /\ b # 0,
                             !.worker[t] = [at |-> "rest", b |-> b, w |-> w]]
  /\ UNCHANGED <<p, cctx, chunk, dctx, pending, got>>

RestOfBlock(t) ==
  /\ call.live /\ call.worker[t].at = "rest"
  /\ MovesOn(t, call.worker[t].b, RestOfWork(Ch, dctx, p, call.worker[t].w), "take")
  /\ UNCHANGED <<p, cctx, chunk, dctx, pending, got>>

FinishParallel ==
  /\ call.live
  /\ \A t \in Threads : call.worker[t].at = "take" /\ (~call.ok \/ call.left[t] = {})
  /\ got' = Answer("whole", call.ok, 0, IF call.ok THEN Flat(Ch, call.dest) ELSE <<>>, pending)
  /\ dctx' = MaskOff(dctx)
  /\ call' = NoCall /\ pending' = NoMask
  /\ UNCHANGED <<p, cctx, chunk>>
-----------------------------------------------------------------------------
(* Reading a part.  A mask that is pending would apply here as well: these *)
(* calls are modelled without one.                                         *)

(* _blosc_getitem: the blocks that hold the items, each into a buffer of   *)
(* its own, at offset 0.                                                   *)
ItemBlocks(ch, d, start, n, lazy) ==
  LET nb == NBlocks(ch.nbytes, ch.bs)
      Needed(b) == start < (b + 1) * ch.bs /\ b * ch.bs < start + n
      Taken(so, b, w) ==
        [ok |-> w.ok, d |-> DrefAfter(ch, so.d, TRUE),
         out |-> so.out \o SubSeq(w.buf["D"], Greater(start - b * ch.bs, 0) + 1,
                                  Smaller(start + n - b * ch.bs, Len0(ch, b)))]
      Item(so, b) ==
        IF ~so.ok \/ ~Needed(b) THEN so
        ELSE IF lazy /\ ~LazyOK(ch, b) THEN [so EXCEPT !.ok = FALSE]
        ELSE Taken(so, b, BlockD(ch, so.d, p, b, TRUE, <<>>, JunkBytes(Len0(ch, b))))
      upto[k \in 0 .. nb] == IF k = 0 THEN [ok |-> TRUE, d |-> d, out |-> <<>>] ELSE Item(upto[k - 1], k - 1)
  IN upto[nb]

(* Copies and special values without a postfilter are answered at once. *)
ItemAtOnce(ch, d, start, n) ==
  LET whole == CopyBlock([ch EXCEPT !.bs = ch.nbytes], d.special, 0)
  IN [ok |-> whole.ok, d |-> d, out |-> IF whole.ok THEN SubSeq(whole.data, start + 1, start + n) ELSE <<>>]

GetItem ==
  /\ Readable /\ pending = NoMask
  /\ \E first \in 0 .. Ch.nbytes - 1, items \in ItemCounts, lazy \in {FALSE, CanBeLazy(Ch)} :
       /\ (first + items) * Ch.ts <= Ch.nbytes
       /\ LET d == FromHeader(dctx, Ch)
              start == first * Ch.ts
              n == items * Ch.ts
              atonce == (Ch.memcpyed \/ d.special # "none") /\ ~lazy /\ ~p.post
          IN \E end \in {IF atonce THEN ItemAtOnce(Ch, d, start, n) ELSE ItemBlocks(Ch, d, start, n, lazy)} :
               /\ dctx' = end.d
               /\ got' = Answer("item", end.ok, start, IF end.ok THEN end.out ELSE <<>>, NoMask)
  /\ UNCHANGED <<p, cctx, chunk, call, pending>>

DecompressBlock ==
  /\ Readable /\ pending = NoMask
  /\ \E b \in ChunkBlocks(Ch) :
       LET d == [FromHeader(dctx, Ch) EXCEPT !.special = Ch.special, !.dict = NoDict]
       IN \E w \in {BlockD(Ch, d, p, b, TRUE, <<>>, JunkBytes(Len0(Ch, b)))} :
          /\ dctx' = DrefAfter(Ch, d, TRUE)
          /\ got' = Answer("block", w.ok, b * Ch.bs, IF w.ok THEN w.buf["D"] ELSE <<>>, NoMask)
  /\ UNCHANGED <<p, cctx, chunk, call, pending>>

(* The caller has done with a chunk. *)
DropChunk ==
  /\ chunk.live /\ ~call.live /\ got = NoAnswer /\ pending = NoMask
  /\ chunk' = NoChunk
  /\ UNCHANGED <<p, cctx, dctx, call, pending, got>>

(* The caller looks at what a call returned. *)
TakeAnswer ==
  /\ got # NoAnswer
  /\ got' = NoAnswer
  /\ UNCHANGED <<p, cctx, chunk, dctx, call, pending>>
-----------------------------------------------------------------------------
Next ==
  \/ NewContext \/ FreeContext \/ Compress \/ MakeSpecial
  \/ SetMaskout \/ Refuse \/ DecompressSerial \/ DecompressParallel \/ FinishParallel
  \/ \E t \in Threads : SkipMasked(t) \/ TakeBlock(t) \/ DeltaBlock(t) \/ RestOfBlock(t)
  \/ GetItem \/ DecompressBlock \/ TakeAnswer \/ DropChunk

Spec == Init /\ [][Next]_vars
-----------------------------------------------------------------------------
(* Properties *)

Bytes == -1 .. 3
IsBytes(s) == \A k \in DOMAIN s : s[k] \in Bytes

(* The types of the state: the bytes are bytes, a dictionary is never      *)
(* longer than the format allows, a chunk's header speaks of at least one  *)
(* block, and a context in use has a blocksize or 0 for automatic.         *)
TypeOK ==
  /\ p \in DParams
  /\ cctx.live => cctx.blocksize \in Nat /\ cctx.c.ts \in Nat \ {0}
  /\ chunk.live => \/ ~Ch.ok
                   \/ /\ Ch.bs \in 1 .. Ch.nbytes /\ Ch.ts \in 1 .. MaxTypesize
                      /\ Len(Ch.dict) <= MaxDict /\ IsBytes(Ch.dict) /\ IsBytes(Ch.raw)
  /\ IsBytes(dctx.dict) /\ Len(dctx.dict) <= MaxDict /\ dctx.dref \in BOOLEAN
  /\ call.live => \A b \in DOMAIN call.dest : Len(call.dest[b]) = Len0(Ch, b) /\ IsBytes(call.dest[b])
  /\ got.kind # "none" => IsBytes(got.out) /\ Len(got.out) <= Ch.nbytes

(* The blocks of a compressed chunk tile it: they begin where the starts   *)
(* and the dictionary end, none overlaps another in whatever order the     *)
(* threads stored them, and the last ends at cbytes (serial_blosc and      *)
(* t_blosc_do_job reserve the room, blosc_compress_context the total).     *)
ChunkTiled ==
  chunk.live /\ Ch.ok /\ Ch.blocks # <<>> =>
    LET from == Overhead(Ch.ext) + IntSize * Cardinality(DOMAIN Ch.blocks)
                + (IF Ch.usedict THEN IntSize + Len(Ch.dict) ELSE 0)
        used(b) == Ch.blocks[b].bstart .. Ch.blocks[b].bstart + Ch.blocks[b].size - 1
    IN /\ UNION {used(b) : b \in DOMAIN Ch.blocks} = from .. Ch.cbytes - 1
       /\ \A a, b \in DOMAIN Ch.blocks : a # b => used(a) \cap used(b) = {}

(* A destination with room for the source and a header always suffices,    *)
(* whatever the codec, the filters, the dictionary or the threads make of  *)
(* the data, and no chunk is longer than its destination.                  *)
CompressSucceeds ==
  chunk.live => /\ chunk.dest >= Len(chunk.src) + Overhead(~chunk.c.compat) => Ch.ok
                /\ Ch.ok => Ch.cbytes <= chunk.dest

(* What a reader is to see of a chunk: its source, through the prefilter,  *)
(* less the bits that a truncation gave up, through the postfilter.        *)
Want ==
  LET plain == Plain(chunk.c, chunk.src)
      kept == IF Ch.memcpyed \/ \A i \in DOMAIN Ch.filters : Ch.filters[i] # "trunc"
              THEN plain ELSE Truncate(plain)
  IN IF p.post THEN Postfilter(kept) ELSE kept

Exact(upto) ==
  /\ got.ok
  /\ \A k \in DOMAIN got.out :
       LET at == got.first + k
           b == (at - 1) \div Ch.bs
       IN (got.mask # NoMask /\ got.mask[b + 1]) \/ got.out[k] = upto[at]

(* The cases in which a read is known to go wrong, each with its cause.    *)
Streamed == ~Ch.memcpyed /\ Ch.special = "none"
PartRead == got.kind \in {"item", "block"}

(* Each block is taken for block 0, and with threads it depends on what    *)
(* the last call left in dref_not_init.                                    *)
PartOfDelta == PartRead /\ (NBlocks(Ch.nbytes, Ch.bs) > 1 \/ p.nthreads > 1)
(* Block 0 is announced before the filters under delta are undone. *)
FiltersUnderDelta ==
  /\ got.kind = "whole" /\ ~Serial(Ch)
  /\ \E i, j \in DOMAIN Ch.filters : i < j /\ Ch.filters[j] = "delta" /\ Ch.filters[i] \in {"shuffle", "user"}
(* The encoder's reference is the source, the decoder's what became of it. *)
LossyReference ==
  chunk.c.prefilter \/ p.post \/ \E i \in DOMAIN Ch.filters : Ch.filters[i] = "trunc"
DeltaAmiss == Streamed /\ HasDelta(Ch) /\ (PartOfDelta \/ FiltersUnderDelta \/ LossyReference)

(* The flag of a dictionary stays when the chunk becomes a copy, the flag  *)
(* of a copy stays when a small buffer is compressed, and no partial read  *)
(* loads a dictionary.                                                     *)
DictAmiss == (Ch.usedict /\ (Ch.memcpyed \/ PartRead)) \/ (Ch.memcpyed /\ Ch.raw = <<>>)
(* The header has the blocksize that was asked for, not the one used. *)
BlocksizeAmiss == Ch.bs # chunk.bs /\ Streamed
(* A filter of the user may make zeros out of other bytes. *)
ZerosAmiss == Ch.special = "zero" /\ \E i \in DOMAIN Ch.filters : Ch.filters[i] = "user"
(* A header of Blosc1 leaves a context with what the last chunk had. *)
OldHeaderAmiss == ~Ch.ext /\ (dctx.special # "none" \/ dctx.meta # NoMeta)
(* A value wider than the blocks of its chunk fills none of them. *)
ValueAmiss == Ch.special = "value" /\ Ch.bs % (Ch.cbytes - ExtHeader) # 0
(* Not an error: nothing was to be seen, or the mask is of no use. *)
NothingToSee ==
  \/ Ch.special = "uninit"
  \/ Ch.special = "nan" /\ Ch.ts \notin FloatSizes
  \/ got.mask # NoMask /\ Len(got.mask) # NBlocks(Ch.nbytes, Ch.bs)

KnownAmiss == DeltaAmiss \/ DictAmiss \/ BlocksizeAmiss \/ ZerosAmiss \/ OldHeaderAmiss \/ ValueAmiss

(* Every read of a chunk, by the whole, by items or by blocks, lazy or in  *)
(* memory, by one thread or several, succeeds and returns the source in    *)
(* every block that the mask of that very call does not leave out,         *)
(* whatever the two contexts were used for before; outside of the causes   *)
(* named above (blosc2_decompress_ctx, blosc2_getitem_ctx and              *)
(* blosc2_decompress_block_ctx).                                           *)
DecodesExact == got.kind # "none" /\ ~NothingToSee /\ ~KnownAmiss => Exact(Want)
=============================================================================
