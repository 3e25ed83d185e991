----------------------------- MODULE B2ndArray ------------------------------
(***************************************************************************)
(* b2nd.c as operators on one array: its geometry, its chunks and what     *)
(* every call computes.  An item is one symbol.  A chunk is the function   *)
(* from 0 .. extchunknitems - 1 to the items that its bytes hold: block    *)
(* after block, the items of a block in C order, padding included.         *)
(***************************************************************************)
EXTENDS NdIndex, FiniteSets, TLC

CONSTANTS
  MaxDim,             \* B2ND_MAX_DIM
  Int32Max, Int64Max, \* INT32_MAX and INT64_MAX, in items
  NestedDims,         \* up to how many dimensions have a copy loop of their own: 8
  OnDisk,             \* whether the array has a urlpath
  Failed              \* what a call that failed gives

Zero == 0                                   \* the item of a chunk of zeros
Garbage == -1                               \* what a malloc'ed buffer holds
Ok(x) == x # Failed
Axes(g) == 1 .. Len(g.shape)

(* The runs of like neighbours the selection loops advance over. *)
RunsBy(s, Same(_, _)) ==
  LET runs[k \in 0 .. Len(s)] ==
        IF k = 0 THEN <<>>
        ELSE LET before == runs[k - 1] IN
             IF k > 1 /\ Same(s[k - 1], s[k]) THEN [before EXCEPT ![Len(before)] = Append(@, s[k])]
             ELSE Append(before, <<s[k]>>)
  IN runs[Len(s)]
Items(n, F(_)) == Computed([i \in 0 .. n - 1 |-> F(i)])
-----------------------------------------------------------------------------
(* Geometry. *)
ValidateShapes(shape, chunkshape, blockshape) ==
  \A d \in DOMAIN shape :
    /\ shape[d] >= 0 /\ chunkshape[d] >= 0 /\ blockshape[d] >= 0
    /\ blockshape[d] = 0 => chunkshape[d] = 0

(* b2nd_mul_overflow_*, accumulated over the dimensions. *)
Overflows(lengths, limit) ==
  \E d \in DOMAIN lengths : NdSize(SubSeq(lengths, 1, d)) > limit

RoundUp(n, m) == IF n % m = 0 THEN n ELSE n + m - (n % m)
(* Strides are zero under a dimension that carries no chunking. *)
LiveStrides(lengths, Live(_)) ==
  LET n == Len(lengths)
      strides[d \in 1 .. n] ==
        IF d = n THEN 1 ELSE IF Live(d + 1) THEN strides[d + 1] * lengths[d + 1] ELSE 0
  IN [d \in 1 .. n |-> strides[d]]

UpdateShapeStruct(shape, chunkshape, blockshape) ==
  LET axes == DOMAIN shape
      ext == [d \in axes |-> IF chunkshape[d] = 0 THEN 0 ELSE RoundUp(shape[d], chunkshape[d])]
      extchunk == [d \in axes |-> IF chunkshape[d] = 0 THEN 0 ELSE RoundUp(chunkshape[d], blockshape[d])]
      live(d) == shape[d] # 0 /\ chunkshape[d] # 0 /\ blockshape[d] # 0
  IN IF \/ ~ValidateShapes(shape, chunkshape, blockshape)
        \/ Overflows(shape, Int64Max) \/ Overflows(ext, Int64Max) \/ Overflows(extchunk, Int64Max)
        \/ Overflows(chunkshape, Int32Max) \/ Overflows(blockshape, Int32Max)
     THEN Failed
     ELSE [shape |-> shape, chunkshape |-> chunkshape, blockshape |-> blockshape,
           extshape |-> ext, extchunkshape |-> extchunk,
           nitems |-> NdSize(shape), extnitems |-> NdSize(ext), extchunknitems |-> NdSize(extchunk),
           chunknitems |-> NdSize(chunkshape), blocknitems |-> NdSize(blockshape),
           itemBlockStrides |-> LiveStrides(blockshape, live),
           blockChunkStrides |->
             LiveStrides([d \in axes |-> IF blockshape[d] = 0 THEN 0 ELSE extchunk[d] \div blockshape[d]], live)]

ChunksInArray(g) == [d \in Axes(g) |-> g.extshape[d] \div g.chunkshape[d]]
BlocksInChunk(g) == [d \in Axes(g) |-> g.extchunkshape[d] \div g.blockshape[d]]
Nblocks(g) == g.extchunknitems \div g.blocknitems

(* The "b2nd" metalayer: an array with the dimensions and the three shapes. *)
SerializeMeta(g) == <<Len(g.shape)>> \o g.shape \o g.chunkshape \o g.blockshape
DeserializeMeta(smeta) ==
  LET n == IF smeta = <<>> THEN -1 ELSE smeta[1] IN
  IF n \notin 0 .. MaxDim \/ Len(smeta) < 1 + 3 * n THEN Failed
  ELSE [shape |-> SubSeq(smeta, 2, n + 1), chunkshape |-> SubSeq(smeta, n + 2, 2 * n + 1),
        blockshape |-> SubSeq(smeta, 2 * n + 2, 3 * n + 1)]

CreateCtx(shape, chunkshape, blockshape) ==
  IF Len(shape) > MaxDim \/ ~ValidateShapes(shape, chunkshape, blockshape) \/ Overflows(blockshape, Int32Max)
  THEN Failed ELSE [shape |-> shape, chunkshape |-> chunkshape, blockshape |-> blockshape]
-----------------------------------------------------------------------------
(* An array: its cached geometry, the metalayer and the chunks. *)
ArrayOf(g, chunks) == [g |-> g, meta |-> SerializeMeta(g), chunks |-> chunks]
ChunkOf(g, item) == Items(g.extchunknitems, LAMBDA i : item)

(* array_new: the chunks of an empty array are not there at all. *)
FilledGrid(g, item) ==
  IF ~Ok(g) THEN Failed
  ELSE IF g.extchunknitems > Int32Max THEN Failed
  ELSE ArrayOf(g, IF g.nitems = 0 THEN <<>>
                  ELSE [k \in 1 .. g.extnitems \div g.chunknitems |-> ChunkOf(g, item)])
ArrayNew(ctx, item) ==
  IF ~Ok(ctx) THEN Failed
  ELSE FilledGrid(UpdateShapeStruct(ctx.shape, ctx.chunkshape, ctx.blockshape), item)
FillWith(a, item) ==
  IF ~Ok(a) THEN Failed ELSE [a EXCEPT !.chunks = [k \in DOMAIN @ |-> ChunkOf(a.g, item)]]
Full(ctx, item) == FillWith(ArrayNew(ctx, Zero), item)

(* b2nd_from_schunk, behind b2nd_open and b2nd_from_cframe. *)
FromSchunk(meta, chunks) ==
  LET p == DeserializeMeta(meta) IN
  IF ~Ok(p) THEN Failed
  ELSE IF \E d \in DOMAIN p.shape : p.shape[d] # 0 /\ (p.chunkshape[d] = 0 \/ p.blockshape[d] = 0) THEN Failed
  ELSE LET g == UpdateShapeStruct(p.shape, p.chunkshape, p.blockshape) IN
       IF ~Ok(g) THEN Failed ELSE [g |-> g, meta |-> meta, chunks |-> chunks]
-----------------------------------------------------------------------------
(* b2nd_copy_buffer2.  The nested loops of copy2dim .. copy8dim, and the   *)
(* division of copy_ndim_fallback, give the starts of the rows.            *)
NestedRows(copy) ==
  LET loops[d \in 0 .. Len(copy) - 1] ==
        IF d = 0 THEN << <<>> >>
        ELSE FlattenSeq([r \in DOMAIN loops[d - 1] |-> [i \in 1 .. copy[d] |-> Append(loops[d - 1][r], i - 1)]])
  IN loops[Len(copy) - 1]
FallbackRows(copy) ==
  LET outer == SubSeq(copy, 1, Len(copy) - 1) IN
  [k \in 1 .. NdSize(outer) |-> UnidimToMultidim(outer, k - 1)]
CopyRows(copy) == IF Len(copy) <= NestedDims THEN NestedRows(copy) ELSE FallbackRows(copy)

CopyBuffer(src, srcShape, srcStart, srcStop, dst, dstShape, dstStart) ==
  LET n == Len(srcShape)
      copy == [d \in 1 .. n |-> srcStop[d] - srcStart[d]]
      Offset(row, shape, start) == NdDot(start, NdStrides(shape)) + NdDot(row, SubSeq(NdStrides(shape), 1, n - 1))
      Row(row) ==
        LET from == Offset(row, srcShape, srcStart)
            to == Offset(row, dstShape, dstStart)
        IN [e \in to .. to + copy[n] - 1 |-> src[e - to + from]]
  IN IF \E d \in 1 .. n : copy[d] = 0 THEN dst
     ELSE Folded(LAMBDA out, row : Row(row) @@ out, dst, CopyRows(copy))
-----------------------------------------------------------------------------
(* Slices.  A box is the pair of its first and past-the-end indices. *)
Shifted(index, by) == [d \in DOMAIN index |-> index[d] + by[d]]
From(index, origin) == [d \in DOMAIN index |-> index[d] - origin[d]]
Clip(index, limit) == [d \in DOMAIN index |-> IF index[d] > limit[d] THEN limit[d] ELSE index[d]]
Raise(index, limit) == [d \in DOMAIN index |-> IF index[d] < limit[d] THEN limit[d] ELSE index[d]]
Scaled(index, by) == [d \in DOMAIN index |-> index[d] * by[d]]
Apart(lo, hi, start, stop) == \E d \in DOMAIN lo : hi[d] <= start[d] \/ lo[d] >= stop[d]
Ones(n) == [d \in 1 .. n |-> 1]
Zeros(n) == [d \in 1 .. n |-> 0]
SliceSize(start, stop) == NdSize(From(stop, start))

(* Up to which chunk the loops over pos run. *)
UpdateStart(g, start) == [d \in Axes(g) |-> start[d] \div g.chunkshape[d]]
UpdateShape(g, start, stop) ==
  [d \in Axes(g) |->
     LET past == (start[d] \div g.chunkshape[d]) + 1
         end == (stop[d] + g.chunkshape[d] - 1) \div g.chunkshape[d]
     IN (IF end > past THEN end ELSE past) - UpdateStart(g, start)[d]]

ChunkStart(g, index) == Scaled(index, g.chunkshape)
ChunkStop(g, index) == Clip(Scaled(Shifted(index, Ones(Len(index))), g.chunkshape), g.shape)

(* The multidimensional indices of the chunks a slice meets, in order. *)
SliceChunks(g, start, stop) ==
  LET shape == UpdateShape(g, start, stop)
      all == [k \in 1 .. NdSize(shape) |-> Shifted(UnidimToMultidim(shape, k - 1), UpdateStart(g, start))]
  IN SelectSeq(all, LAMBDA index : ~Apart(ChunkStart(g, index), ChunkStop(g, index), start, stop))
Nchunk(g, index) == NdDot(index, NdStrides(ChunksInArray(g)))
GetSliceNchunks(g, start, stop) ==
  IF g.nitems = 0 THEN <<>>
  ELSE IF g.shape = <<>> THEN <<0>>
  ELSE LET cs == SliceChunks(g, start, stop) IN [k \in DOMAIN cs |-> Nchunk(g, cs[k])]

(* nchunk_fastpath: a whole chunk whose items lie in C order.  k is the    *)
(* first axis whose blockshape is not 1.                                   *)
Contiguous(g) ==
  /\ \A d \in Axes(g) : g.chunkshape[d] % g.blockshape[d] = 0
  /\ \A d \in Axes(g) :
       (\E k \in 1 .. d - 1 : g.blockshape[k] # 1) => g.chunkshape[d] = g.blockshape[d]
FastPath(g, start, stop) ==
  /\ SliceSize(start, stop) = g.chunknitems
  /\ \A d \in Axes(g) : start[d] % g.chunkshape[d] = 0 /\ stop[d] - start[d] = g.chunkshape[d]
  /\ Contiguous(g)
FastNchunk(g, start, stop) == GetSliceNchunks(g, start, stop)[1]

(* One block of a chunk, in the coordinates of the array. *)
BlockStart(g, index, nblock) ==
  Clip(Shifted(Scaled(UnidimToMultidim(BlocksInChunk(g), nblock), g.blockshape), ChunkStart(g, index)),
       ChunkStop(g, index))
BlockStop(g, index, nblock) ==
  Clip(Shifted(Scaled(Shifted(UnidimToMultidim(BlocksInChunk(g), nblock), Ones(Len(index))), g.blockshape),
               ChunkStart(g, index)),
       ChunkStop(g, index))
SliceBlocks(g, index, start, stop) ==
  SelectSeq([b \in 1 .. Nblocks(g) |-> b - 1],
            LAMBDA b : ~Apart(BlockStart(g, index, b), BlockStop(g, index, b), start, stop))
BlockOf(g, data, nblock) == Items(g.blocknitems, LAMBDA i : data[nblock * g.blocknitems + i])

(* decompress_chunk: the bytes of a chunk must fit the buffer they go to. *)
Decompress(chunk, nitems) == IF Cardinality(DOMAIN chunk) > nitems THEN Failed ELSE chunk
SliceOK(g, start, stop, bufshape) ==
  \A d \in Axes(g) : stop[d] - start[d] <= bufshape[d]
-----------------------------------------------------------------------------
(* get_set_slice, setting.  A chunk the slice covers is not decompressed.  *)
SetBlock(g, index, start, stop, bufshape, buffer, block, nblock) ==
  LET lo == BlockStart(g, index, nblock)
      from == Raise(lo, start)
      to == Clip(BlockStop(g, index, nblock), stop)
  IN CopyBuffer(buffer, bufshape, From(from, start), From(to, start), block, g.blockshape, From(from, lo))

MutCovers(g, index, start, stop) == \E d \in Axes(g) : ~(ChunkStart(g, index)[d] < start[d] \/ ChunkStop(g, index)[d] > stop[d])
Covers(g, index, start, stop) ==
  \A d \in Axes(g) : ~(ChunkStart(g, index)[d] < start[d] \/ ChunkStop(g, index)[d] > stop[d])
CoveredData(g) == ChunkOf(g, Zero)
SetChunk(g, index, start, stop, bufshape, buffer, chunk) ==
  LET data == IF Covers(g, index, start, stop) THEN CoveredData(g) ELSE chunk
      Store(dat, b) ==
        LET block == SetBlock(g, index, start, stop, bufshape, buffer, BlockOf(g, dat, b), b)
        IN [i \in b * g.blocknitems .. (b + 1) * g.blocknitems - 1 |-> block[i % g.blocknitems]] @@ dat
  IN Folded(Store, data, SliceBlocks(g, index, start, stop))

SetSlice(a, start, stop, bufshape, buffer) ==
  LET g == a.g IN
  IF g.shape = <<>> THEN [a EXCEPT !.chunks[1] = [i \in {0} |-> buffer[0]]]
  ELSE IF g.nitems = 0 THEN a
  ELSE IF ~SliceOK(g, start, stop, bufshape) \/ Cardinality(DOMAIN buffer) < SliceSize(start, stop) THEN Failed
  ELSE IF FastPath(g, start, stop)
  THEN [a EXCEPT !.chunks[FastNchunk(g, start, stop) + 1] = Items(g.extchunknitems, LAMBDA i : buffer[i])]
  ELSE Folded(LAMBDA arr, index :
                  [arr EXCEPT !.chunks[Nchunk(g, index) + 1] =
                     SetChunk(g, index, start, stop, bufshape, buffer, @)],
                a, SliceChunks(g, start, stop))
-----------------------------------------------------------------------------
(* get_set_slice, getting: block by block when few blocks are needed, else *)
(* the chunk with the other blocks masked out.  The rest of a buffer is    *)
(* zero.                                                                   *)
UseCompact(g, needed) ==
  Len(needed) * g.blocknitems * (IF OnDisk THEN 4 ELSE 16) <= g.extchunknitems
GetItem(chunk, first, n) ==
  IF first + n > Cardinality(DOMAIN chunk) THEN Failed ELSE Items(n, LAMBDA i : chunk[first + i])
Masked(g, chunk, needed) ==
  LET whole == Decompress(chunk, g.extchunknitems) IN
  IF ~Ok(whole) THEN Failed
  ELSE Items(g.extchunknitems, LAMBDA i :
         IF Contains(needed, i \div g.blocknitems) /\ i \in DOMAIN chunk THEN whole[i] ELSE Garbage)

(* The chunk a get copies from: all of it, or what is read block by block. *)
NeededData(g, chunk, needed) ==
  IF ~UseCompact(g, needed) THEN Masked(g, chunk, needed)
  ELSE Folded(LAMBDA dat, b :
                LET block == GetItem(chunk, b * g.blocknitems, g.blocknitems) IN
                IF ~Ok(block) \/ ~Ok(dat) THEN Failed
                ELSE [i \in b * g.blocknitems .. (b + 1) * g.blocknitems - 1 |-> block[i % g.blocknitems]] @@ dat,
              <<>>, needed)
GetChunk(g, index, start, stop, bufshape, buffer, chunk) ==
  LET needed == SliceBlocks(g, index, start, stop)
      data == NeededData(g, chunk, needed)
      Copied(buf, b) ==
        LET lo == BlockStart(g, index, b)
            from == Raise(lo, start)
            to == Clip(BlockStop(g, index, b), stop)
        IN CopyBuffer(BlockOf(g, data, b), g.blockshape, From(from, lo), From(to, lo),
                      buf, bufshape, From(from, start))
  IN IF ~Ok(buffer) \/ ~Ok(data) THEN Failed ELSE Folded(Copied, buffer, needed)

GetSlice(a, start, stop, bufshape) ==
  LET g == a.g
      buffer == Items(NdSize(bufshape), LAMBDA i : Zero)
  IN IF g.shape = <<>> THEN Decompress(a.chunks[1], 1)
     ELSE IF g.nitems = 0 THEN buffer
     ELSE IF ~SliceOK(g, start, stop, bufshape) THEN Failed
     ELSE IF FastPath(g, start, stop)
     THEN LET chunk == Decompress(a.chunks[FastNchunk(g, start, stop) + 1], SliceSize(start, stop))
          IN IF Ok(chunk) THEN chunk @@ buffer ELSE Failed
     ELSE Folded(LAMBDA buf, index :
                     GetChunk(g, index, start, stop, bufshape, buf, a.chunks[Nchunk(g, index) + 1]),
                   buffer, SliceChunks(g, start, stop))
ToCbuffer(a) ==
  IF a.g.nitems = 0 THEN <<>> ELSE GetSlice(a, Zeros(Len(a.g.shape)), a.g.shape, a.g.shape)
SetWhole(a, buffer) ==
  IF ~Ok(a) THEN Failed
  ELSE IF a.g.nitems = 0 THEN a
  ELSE SetSlice(a, Zeros(Len(a.g.shape)), a.g.shape, a.g.shape, buffer)
FromCbuffer(ctx, buffer) == SetWhole(ArrayNew(ctx, Zero), buffer)

(* b2nd_get_sparse_cbuffer: the storage coordinate of every logical one. *)
StorageCoord(g, coord) ==
  LET index == UnidimToMultidim(g.shape, coord)
      inChunk == [d \in Axes(g) |-> index[d] % g.chunkshape[d]]
      nchunk == NdDot([d \in Axes(g) |-> index[d] \div g.chunkshape[d]], NdStrides(ChunksInArray(g)))
      nblock == NdDot([d \in Axes(g) |-> inChunk[d] \div g.blockshape[d]], g.blockChunkStrides)
      item == NdDot([d \in Axes(g) |-> inChunk[d] % g.blockshape[d]], g.itemBlockStrides)
  IN nchunk * g.extchunknitems + nblock * g.blocknitems + item
GetSparse(a, coords) ==
  IF a.g.shape = <<>> \/ \E k \in DOMAIN coords : coords[k] \notin 0 .. a.g.nitems - 1 THEN Failed
  ELSE [k \in DOMAIN coords |->
          LET at == StorageCoord(a.g, coords[k])
          IN a.chunks[(at \div a.g.extchunknitems) + 1][at % a.g.extchunknitems]]
-----------------------------------------------------------------------------
(* b2nd_get_slice and b2nd_copy make a new array, chunk by chunk of the    *)
(* new one, or copy the super-chunk when the partitions are the same.      *)
SetIfOk(arr, lo, hi, shape, buffer) ==
  IF ~Ok(arr) \/ ~Ok(buffer) THEN Failed ELSE SetSlice(arr, lo, hi, shape, buffer)
SliceBox(arr, src, start, lo, hi) ==
  SetIfOk(arr, lo, hi, From(hi, lo), GetSlice(src, Shifted(lo, start), Shifted(hi, start), From(hi, lo)))
SliceChunk(arr, g, src, start, index) ==
  SliceBox(arr, src, start, ChunkStart(g, index), ChunkStop(g, index))
SliceInto(new, src, start) ==
  IF ~Ok(new) THEN Failed
  ELSE IF new.g.nitems = 0 THEN new
  ELSE Folded(LAMBDA arr, k : SliceChunk(arr, new.g, src, start, UnidimToMultidim(ChunksInArray(new.g), k)),
              new, [k \in DOMAIN new.chunks |-> k - 1])
SliceArray(ctx, src, start, stop) ==
  SliceInto(ArrayNew([ctx EXCEPT !.shape = From(stop, start)], Zero), src, start)
CopyArray(ctx, src) ==
  IF ctx.chunkshape = src.g.chunkshape /\ ctx.blockshape = src.g.blockshape
  THEN LET g == UpdateShapeStruct(src.g.shape, ctx.chunkshape, ctx.blockshape)
       IN IF Ok(g) THEN [g |-> g, meta |-> src.meta, chunks |-> src.chunks] ELSE Failed
  ELSE SliceArray(ctx, src, Zeros(Len(src.g.shape)), src.g.shape)

(* Views: the chunks of the array under other shapes (view_new). *)
ViewOf(view, a) == IF Ok(view) THEN [view EXCEPT !.chunks = a.chunks] ELSE Failed
ViewNew(a, shape, chunkshape, blockshape) ==
  ViewOf(ArrayNew(CreateCtx(shape, chunkshape, blockshape), Zero), a)
ExpandDims(a, axis) ==
  LET old(i) == Cardinality({j \in 1 .. i : ~axis[j]})
      Spread(s) == [i \in DOMAIN axis |-> IF axis[i] THEN 1 ELSE s[old(i)]]
  IN IF old(Len(axis)) > Len(a.g.shape) THEN Failed
     ELSE ViewNew(a, Spread(a.g.shape), Spread(a.g.chunkshape), Spread(a.g.blockshape))
SqueezeIndex(a, index) ==
  LET kept == SelectSeq([d \in Axes(a.g) |-> d], LAMBDA d : ~index[d])
      Pick(s) == [i \in DOMAIN kept |-> s[kept[i]]]
  IN IF \E d \in Axes(a.g) : index[d] /\ a.g.shape[d] # 1 THEN Failed
     ELSE ViewNew(a, Pick(a.g.shape), Pick(a.g.chunkshape), Pick(a.g.blockshape))
Squeeze(a) == SqueezeIndex(a, [d \in Axes(a.g) |-> a.g.shape[d] = 1])
-----------------------------------------------------------------------------
(* Resizing.  A chunk is in the range when one of its axes is. *)
MutInRange(g, index, start, lengths) ==
  \E d \in Axes(g) :
    start[d] < g.chunkshape[d] * index[d] /\ g.chunkshape[d] * index[d] < start[d] + lengths[d]
InRange(g, index, start, lengths) ==
  \E d \in Axes(g) :
    start[d] <= g.chunkshape[d] * index[d] /\ g.chunkshape[d] * index[d] < start[d] + lengths[d]

(* Publish the geometry (publish_shape_meta). *)
PublishShape(a, g) == [a EXCEPT !.g = g, !.meta = SerializeMeta(g)]

(* extend_shape: zeros at every new place of the grid, then the shape.  A  *)
(* NULL start is the old shape.                                            *)
ExtendShape(a, newshape, start) ==
  LET g == UpdateShapeStruct(newshape, a.g.chunkshape, a.g.blockshape)
      first == IF start = <<>> THEN a.g.shape ELSE start
      Step(chunks, k) ==
        IF InRange(g, UnidimToMultidim(ChunksInArray(g), k), first, From(newshape, a.g.shape))
        THEN InsertAt(chunks, k + 1, ChunkOf(g, Zero)) ELSE chunks
      nchunks == g.extnitems \div g.chunknitems
  IN IF newshape = a.g.shape THEN a
     ELSE IF nchunks = Len(a.chunks) THEN PublishShape(a, g)
     ELSE PublishShape([a EXCEPT !.chunks = Folded(Step, @, [k \in 1 .. nchunks |-> k - 1])], g)

(* shrink_shape: the shape first, then the chunks, from the last one. *)
ShrinkShape(a, newshape, start) ==
  LET g == UpdateShapeStruct(newshape, a.g.chunkshape, a.g.blockshape)
      first == IF start = <<>> THEN newshape ELSE start
      Step(chunks, k) ==
        IF InRange(g, UnidimToMultidim(ChunksInArray(a.g), k), first, From(a.g.shape, newshape))
        THEN RemoveAt(chunks, k + 1) ELSE chunks
      n == Len(a.chunks)
  IN IF newshape = a.g.shape THEN a
     ELSE [PublishShape(a, g) EXCEPT !.chunks = Folded(Step, @, [k \in 1 .. n |-> n - k])]

(* b2nd_resize.  A chunk cannot be cut unless it is the last one. *)
ResizeOK(g, newshape, start) ==
  start # <<>> =>
    \A d \in Axes(g) :
      /\ start[d] <= g.shape[d]
      /\ (\/ newshape[d] > g.shape[d] /\ start[d] # g.shape[d]
          \/ newshape[d] < g.shape[d] /\ start[d] # newshape[d])
         => start[d] % g.chunkshape[d] = 0 /\ (newshape[d] - g.shape[d]) % g.chunkshape[d] = 0
Resize(a, newshape, start) ==
  IF ~ResizeOK(a.g, newshape, start) THEN Failed
  ELSE ExtendShape(ShrinkShape(a, Clip(newshape, a.g.shape), start), newshape, start)

(* b2nd_insert, b2nd_append and b2nd_delete; axis counts from 1. *)
SetRows(grown, axis, at, n, bufshape, buffer) ==
  IF ~Ok(grown) THEN Failed
  ELSE SetSlice(grown, [Zeros(Len(bufshape)) EXCEPT ![axis] = at],
                [grown.g.shape EXCEPT ![axis] = at + n], bufshape, buffer)
Insert(a, buffer, axis, at) ==
  LET g == a.g
      axisSize == NdSize([d \in Axes(g) |-> IF d = axis THEN 1 ELSE g.shape[d]])
      n == Cardinality(DOMAIN buffer) \div axisSize
      start == IF at = g.shape[axis] THEN <<>> ELSE [Zeros(Len(g.shape)) EXCEPT ![axis] = at]
  IN IF Cardinality(DOMAIN buffer) % axisSize # 0 THEN Failed
     ELSE SetRows(Resize(a, [g.shape EXCEPT ![axis] = @ + n], start), axis, at, n,
                  [g.shape EXCEPT ![axis] = n], buffer)

(* A buffer of the size of a chunk goes straight to the super-chunk. *)
Accelerated(g, buffer, axis) ==
  /\ axis = 1 /\ \A d \in Axes(g) \ {1} : g.chunkshape[d] = g.blockshape[d]
  /\ Cardinality(DOMAIN buffer) = g.extchunknitems
AppendBuffer(a, buffer, axis) ==
  IF ~Accelerated(a.g, buffer, axis) THEN Insert(a, buffer, axis, a.g.shape[axis])
  ELSE Resize([a EXCEPT !.chunks = Append(@, buffer)],
              [a.g.shape EXCEPT ![axis] = @ + a.g.chunkshape[axis]], <<>>)

Delete(a, axis, at, n) ==
  Resize(a, [a.g.shape EXCEPT ![axis] = @ - n],
         IF at = a.g.shape[axis] - n THEN <<>> ELSE [Zeros(Len(a.g.shape)) EXCEPT ![axis] = at])

(* b2nd_concatenate: dst is src1 or its copy.  Aligned chunks move as they *)
(* are; the others go through a buffer of the shape of a chunk of src2.    *)
Aligned(src1, src2, dst, axis) ==
  \A d \in Axes(src2.g) :
    /\ src1.g.chunkshape[d] = src2.g.chunkshape[d] /\ src2.g.blockshape[d] = dst.g.blockshape[d]
    /\ d = axis => src1.g.shape[d] % dst.g.chunkshape[d] = 0
MoveChunk(dst, nchunk, chunk) ==
  IF nchunk >= Len(dst.chunks) THEN Failed ELSE [dst EXCEPT !.chunks[nchunk + 1] = chunk]
CopyBox(dst, src2, shift, lo, hi) ==
  SetIfOk(dst, Shifted(lo, shift), Shifted(hi, shift), src2.g.chunkshape,
          GetSlice(src2, lo, hi, src2.g.chunkshape))
ConcatChunk(dst, src1, src2, axis, index, chunk) ==
  IF ~Ok(dst) THEN Failed
  ELSE IF Aligned(src1, src2, dst, axis)
  THEN MoveChunk(dst, Nchunk(dst.g, [index EXCEPT ![axis] = @ + (src1.g.shape[axis] \div dst.g.chunkshape[axis])]),
                 chunk)
  ELSE CopyBox(dst, src2, [Zeros(Len(index)) EXCEPT ![axis] = src1.g.shape[axis]],
               ChunkStart(src2.g, index), ChunkStop(src2.g, index))
ConcatInto(base, src1, src2, axis) ==
  IF ~Ok(base) THEN Failed
  ELSE Folded(LAMBDA dst, k : ConcatChunk(dst, src1, src2, axis, UnidimToMultidim(ChunksInArray(src2.g), k),
                                          src2.chunks[k + 1]),
              Resize(base, [src1.g.shape EXCEPT ![axis] = @ + src2.g.shape[axis]], <<>>),
              [k \in DOMAIN src2.chunks |-> k - 1])
Concatenate(ctx, src1, src2, axis, copy) ==
  IF \/ axis \notin Axes(src1.g) \/ Len(src1.g.shape) # Len(src2.g.shape)
     \/ \E d \in Axes(src1.g) \ {axis} : src1.g.shape[d] # src2.g.shape[d]
  THEN Failed
  ELSE ConcatInto(IF copy THEN CopyArray(ctx, src1) ELSE src1, src1, src2, axis)
-----------------------------------------------------------------------------
(* orthogonal_selection.  A selection is sorted by value, then by place    *)
(* (compare_selection); its entries meet a chunk, then a block, in runs.   *)
SelectionLess(e, f) == e.value < f.value \/ (e.value = f.value /\ e.index < f.index)
Ordered(selection) ==
  SortSeq([j \in DOMAIN selection |-> [value |-> selection[j], index |-> j - 1]], SelectionLess)
BlockIndex(g, e, d) == (e.value % g.chunkshape[d]) \div g.blockshape[d]
ChunkRuns(g, sel, d) == RunsBy(sel, LAMBDA e, f : e.value \div g.chunkshape[d] = f.value \div g.chunkshape[d])
BlockRuns(g, sel, d) == RunsBy(sel, LAMBDA e, f : BlockIndex(g, e, d) = BlockIndex(g, f, d))
BatchRuns(sel) == RunsBy(sel, LAMBDA e, f : f.value = e.value + 1 /\ f.index = e.index + 1)

(* One member of every sequence of a tuple of sequences, in C order. *)
OnePerAxis(seqs) ==
  LET shape == [d \in DOMAIN seqs |-> Len(seqs[d])] IN
  [k \in 1 .. NdSize(shape) |->
     LET index == UnidimToMultidim(shape, k - 1) IN [d \in DOMAIN seqs |-> seqs[d][index[d] + 1]]]

ChunkIndex(g, run) == [d \in Axes(g) |-> run[d][1].value \div g.chunkshape[d]]
NblockOf(g, run) ==
  NdDot([d \in Axes(g) |-> BlockIndex(g, run[d][1], d)], NdStrides(BlocksInChunk(g)))
(* iter_block_maskout: the blocks a get needs of a chunk. *)
NeededBlocks(g, run) ==
  LET runs == OnePerAxis([d \in Axes(g) |-> BlockRuns(g, run[d], d)]) IN [k \in DOMAIN runs |-> NblockOf(g, runs[k])]

(* copy_block_buffer_data: the batches of a block, as the pairs of a start *)
(* in the block and one in the buffer, and a count.                        *)
Batches(g, run, bufshape) ==
  LET n == Len(g.shape)
      outer == OnePerAxis([d \in 1 .. n - 1 |-> run[d]])
      At(es, F(_, _), strides) == NdDot([d \in 1 .. n |-> F(es[d], d)], strides)
      Batch(es, b) ==
        LET all == Append(es, b[1]) IN
        [block |-> At(all, LAMBDA e, d : (e.value % g.chunkshape[d]) % g.blockshape[d], g.itemBlockStrides),
         buffer |-> At(all, LAMBDA e, d : e.index, NdStrides(bufshape)), count |-> Len(b)]
  IN FlattenSeq([k \in DOMAIN outer |-> [j \in DOMAIN BatchRuns(run[n]) |-> Batch(outer[k], BatchRuns(run[n])[j])]])

(* iter_block_copy and iter_chunk, getting and setting. *)
ChunkBatches(g, run, bufshape) ==
  LET runs == OnePerAxis([d \in Axes(g) |-> BlockRuns(g, run[d], d)]) IN
  FlattenSeq([k \in DOMAIN runs |->
    LET bs == Batches(g, runs[k], bufshape) IN
    [j \in DOMAIN bs |-> [bs[j] EXCEPT !.block = @ + NblockOf(g, runs[k]) * g.blocknitems]]])
GetBatches(data, buffer, batches) ==
  Folded(LAMBDA buf, b : [e \in b.buffer .. b.buffer + b.count - 1 |-> data[e - b.buffer + b.block]] @@ buf,
           buffer, batches)
SetBatches(data, buffer, batches) ==
  Folded(LAMBDA dat, b : [e \in b.block .. b.block + b.count - 1 |-> buffer[e - b.block + b.buffer]] @@ dat,
           data, batches)
SelectionRuns(g, selection) == OnePerAxis([d \in Axes(g) |-> ChunkRuns(g, Ordered(selection[d]), d)])
SelectionOK(g, selection, bufsize) ==
  /\ \A d \in Axes(g) : \A j \in DOMAIN selection[d] : selection[d][j] <= g.shape[d]
  /\ NdSize([d \in Axes(g) |-> Len(selection[d])]) >= bufsize

GetOrthogonal(a, selection, bufshape) ==
  LET g == a.g
      Step(buf, run) ==
        GetBatches(Masked(g, a.chunks[Nchunk(g, ChunkIndex(g, run)) + 1], NeededBlocks(g, run)), buf,
                   ChunkBatches(g, run, bufshape))
  IN IF ~SelectionOK(g, selection, NdSize(bufshape)) THEN Failed
     ELSE Folded(Step, Items(NdSize(bufshape), LAMBDA i : Garbage), SelectionRuns(g, selection))
SetOrthogonal(a, selection, bufshape, buffer) ==
  LET g == a.g IN
  IF ~SelectionOK(g, selection, Cardinality(DOMAIN buffer)) THEN Failed
  ELSE Folded(LAMBDA arr, run :
                  [arr EXCEPT !.chunks[Nchunk(g, ChunkIndex(g, run)) + 1] =
                     SetBatches(@, buffer, ChunkBatches(g, run, bufshape))],
                a, SelectionRuns(g, selection))
=============================================================================
