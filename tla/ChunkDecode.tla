----------------------------- MODULE ChunkDecode -----------------------------
(***************************************************************************)
(* Reading a chunk: what a decompression context takes from the header,    *)
(* and blosc_d for one block, cut where threads meet.  A decompression     *)
(* context d keeps between calls: special, meta, dict, mask and dref       *)
(* (dref_not_init).  p are its parameters: nthreads and post, whether it   *)
(* has a postfilter.                                                       *)
(***************************************************************************)
EXTENDS ChunkFormat

NoMask == <<>>
ChunkBlocks(ch) == 0 .. NBlocks(ch.nbytes, ch.bs) - 1
Len0(ch, b) == BlockLen(ch.nbytes, ch.bs, b)

(* What blosc2_initialize_context_from_header takes.  A header without the *)
(* extension says nothing of the metadata of the filters, nor of special   *)
(* values: the context keeps what it had.                                  *)
FromHeader(d, ch) == IF ch.ext THEN [d EXCEPT !.meta = ch.meta, !.special = ch.special] ELSE d

(* The dictionary of a chunk.  Of a copy, the data is taken for it. *)
DictLoad(ch) ==
  IF ~ch.usedict THEN [ok |-> TRUE, dict |-> NoDict]
  ELSE IF ~ch.memcpyed THEN [ok |-> TRUE, dict |-> ch.dict]
  ELSE LET size == IF ch.raw = <<>> THEN 0 ELSE ch.raw[1] IN
       IF size \in 1 .. MaxDict /\ ch.nbytes >= IntSize + size
       THEN [ok |-> TRUE, dict |-> SubSeq(ch.raw, IntSize + 1, IntSize + size)]
       ELSE [ok |-> FALSE, dict |-> NoDict]

(* initialize_context_decompression: the old dictionary goes first. *)
InitContext(d, ch) == [FromHeader(d, ch) EXCEPT !.special = ch.special, !.dict = DictLoad(ch).dict]
InitOK(d, ch) ==
  /\ d.mask # NoMask => Len(d.mask) = NBlocks(ch.nbytes, ch.bs)
  /\ ch.memcpyed => ch.cbytes = ch.nbytes + Overhead(ch.ext)
  /\ DictLoad(ch).ok

(* A block of a lazy chunk is read from disk, as long as its trailer says. *)
LazyOK(ch, b) ==
  /\ LazyCsizes(ch)[b] \in 1 .. ch.bs + ch.ts * IntSize
  /\ ~ch.memcpyed => ch.blocks[b].size <= LazyCsizes(ch)[b]
CanBeLazy(ch) == ch.ext /\ ch.special = "none"

Masked(d, b) == d.mask # NoMask /\ d.mask[b + 1]
-----------------------------------------------------------------------------
(* Streams *)

(* A codec's decoder: with the wrong dictionary it may not notice. *)
Unpack(st, ne, dict) ==
  IF st.kind = "run" THEN [ok |-> TRUE, data |-> [k \in 1 .. ne |-> st.data[1]]]
  ELSE IF Len(st.data) # ne \/ (st.dict # NoDict /\ dict = NoDict) THEN Failed
  ELSE [ok |-> TRUE, data |-> IF st.dict \in {NoDict, dict} THEN st.data ELSE JunkBytes(ne)]

Joined(data, st) == IF st.ok THEN [st EXCEPT !.data = data \o @] ELSE Failed

Streams(ch, dict, b) ==
  LET ns == NStreams(ch.split, ch.ts, IsLeftover(ch.nbytes, ch.bs, b))
      ne == Len0(ch, b) \div ns
      upto[j \in 0 .. ns] ==
        IF j = 0 THEN [ok |-> TRUE, data |-> <<>>]
        ELSE IF ~upto[j - 1].ok \/ j > Len(ch.blocks[b].streams) THEN Failed
        ELSE Joined(upto[j - 1].data, Unpack(ch.blocks[b].streams[j], ne, dict))
  IN IF b \notin DOMAIN ch.blocks \/ ne = 0 THEN Failed ELSE upto[ns]

(* A block of a copy, or of a special chunk. *)
SetValues(value, n) == [k \in 1 .. n |-> value[((k - 1) % Len(value)) + 1]]
CopyBlock(ch, special, b) ==
  LET n == Len0(ch, b)
      width == ch.cbytes - Overhead(ch.ext)
      Gives(s) == [ok |-> TRUE, data |-> s]
  IN CASE special = "zero" -> Gives(Zeros(n))
       [] special = "uninit" -> Gives(JunkBytes(n))
       [] special = "value" -> IF n % width # 0 THEN Failed ELSE Gives(SetValues(ch.raw, n))
       [] special = "nan" -> IF ch.ts \notin FloatSizes \/ n % ch.ts # 0 THEN Failed ELSE Gives(SetValues(<<3>>, n))
       [] OTHER -> IF ch.raw = <<>> THEN Gives(JunkBytes(n)) ELSE Gives(Block(ch.raw, ch.bs, b))
-----------------------------------------------------------------------------
(* The filters of a block, undone.  A work w is a block on its way: i is   *)
(* the filter to undo next, src, dst and tmp name the buffers in the       *)
(* roles, buf holds their bytes.  D is the block's place in dest.          *)

Pad(s, n) == [k \in 1 .. n |-> IF k <= Len(s) THEN s[k] ELSE Junk]

HasFilters(ch) == LastFilter(ch.filters, FALSE) # 0

(* blosc_d, up to the filters; at is what dest has in D. *)
WorkOn(n, none, direct, at, got) ==
  [ok |-> got.ok,
   i |-> IF none THEN 0 ELSE MaxFilters,
   src |-> IF none /\ direct THEN "D" ELSE "T", dst |-> "T2", tmp |-> "T3",
   buf |-> [x \in {"T", "T2", "T3", "D"} |->
              IF got.ok /\ x = (IF direct THEN "D" ELSE "T") THEN Pad(got.data, n)
              ELSE IF x = "D" THEN at ELSE JunkBytes(n)]]
StartWork(ch, d, p, b, at) ==
  LET copy == ch.memcpyed \/ d.special # "none"
      none == copy \/ ~HasFilters(ch)
      direct == ~p.post /\ (none \/ NextFilter(ch.filters, MaxFilters + 1) = "delta")
  IN WorkOn(Len0(ch, b), none, direct, at,
            IF copy THEN CopyBlock(ch, d.special, b) ELSE Streams(ch, d.dict, b))

LastCopy(ch, w) ==
  \/ w.i = LastFilter(ch.filters, FALSE)
  \/ ch.filters[w.i] = "delta"
  \/ NextFilter(ch.filters, w.i) = "delta"

DestOf(ch, p, w) ==
  IF LastCopy(ch, w) /\ ~p.post /\ (ch.filters[w.i] = "delta" \/ w.src # "D") THEN "D" ELSE w.dst

Cycles(f) == f \notin {"none", "trunc"}

(* One filter; undelta is what delta makes of the bytes in its place. *)
Undo(ch, d, p, w, undelta(_)) ==
  LET f == ch.filters[w.i]
      dst == DestOf(ch, p, w)
      new == CASE f = "shuffle" -> UnshuffleBytes(ShuffleWidth(ch.ts, d.meta[w.i]), w.buf[w.src])
               [] f = "user" -> UserBackward(w.buf[w.src])
               [] f = "delta" -> undelta(w.buf[dst])
               [] OTHER -> w.buf[dst]      \* none, trunc: only the roles change
      done == w.i = LastFilter(ch.filters, FALSE)
  IN [w EXCEPT !.i = IF done THEN 0 ELSE w.i - 1,
               !.buf = [@ EXCEPT ![dst] = new],
               !.src = IF Cycles(f) THEN dst ELSE w.src,
               !.dst = IF Cycles(f) THEN w.tmp ELSE dst,
               !.tmp = IF Cycles(f) THEN w.src ELSE w.tmp]

(* The end of the pipeline: into dest, through the postfilter if any. *)
Finish(p, w) ==
  [w EXCEPT !.buf = [@ EXCEPT !["D"] = IF p.post THEN Postfilter(w.buf[w.src]) ELSE w.buf[w.src]]]

FinishIfDone(p, w) == IF w.i = 0 THEN Finish(p, w) ELSE w

AtDelta(ch, w) == w.i > 0 /\ ch.filters[w.i] = "delta"

(* From one meeting point to the next: until delta, or to the end. *)
RunToDelta(ch, d, p, w) ==
  LET run[k \in 0 .. MaxFilters] ==
        IF k = 0 \/ run[k - 1].i = 0 \/ AtDelta(ch, run[k - 1]) THEN (IF k = 0 THEN w ELSE run[k - 1])
        ELSE Undo(ch, d, p, run[k - 1], LAMBDA s : s)
  IN FinishIfDone(p, run[MaxFilters])

Undelta(first, ref, s) == IF first THEN UndeltaOwn(s) ELSE Xor(s, ref)

(* The delta filter when no other thread takes part.  first is offset = 0, *)
(* ref the start of dest.  With nthreads > 1 it only decodes when          *)
(* dref_not_init lets it.                                                  *)
SerialDelta(d, p, first, ref, s) ==
  IF p.nthreads > 1 /\ first /\ ~d.dref THEN s ELSE Undelta(first, ref, s)
(* Whether that decodes block 0, and clears dref_not_init. *)
ClearsDref(ch, d, p, first) ==
  /\ first /\ p.nthreads > 1 /\ "delta" \in FiltersToFlags(ch.filters)
  /\ ~ch.memcpyed /\ d.special = "none"

(* After delta: the other filters, and into dest. *)
RestOfWork(ch, d, p, w) == IF w.i = 0 THEN Finish(p, w) ELSE RunToDelta(ch, d, p, w)

(* The meeting point, passed by one thread. *)
PassDelta(ch, d, p, first, ref, w) ==
  IF ~AtDelta(ch, w) THEN w
  ELSE RestOfWork(ch, d, p, Undo(ch, d, p, w, LAMBDA s : SerialDelta(d, p, first, ref, s)))
DoWork(ch, d, p, first, ref, w) ==
  IF w.ok THEN PassDelta(ch, d, p, first, ref, RunToDelta(ch, d, p, w)) ELSE w

(* blosc_d by one thread, from start to end: the block that lands in D.    *)
BlockD(ch, d, p, b, first, ref, at) == DoWork(ch, d, p, first, ref, StartWork(ch, d, p, b, at))
=============================================================================
