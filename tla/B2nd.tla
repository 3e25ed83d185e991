-------------------------------- MODULE B2nd ---------------------------------
(***************************************************************************)
(* The calls of b2nd.c on one array, one action per call.  call records    *)
(* the call and its arguments, out the buffer it filled; every item        *)
(* written is a new symbol.                                                *)
(***************************************************************************)
EXTENDS B2ndArray

CONSTANTS
  Contexts,           \* the contexts arrays are made with, the item they are full of and
                      \* how many calls may change them
  Partitions,         \* chunkshapes and blockshapes of other arrays
  Cuts,               \* the positions slices start and stop at
  Grow,               \* how many rows one call adds or takes away, at most
  Deltas,             \* by how much a resize may change an axis
  MaxLen,             \* the longest axis
  Pads,               \* by how much a buffer is longer than its slice
  Cautious            \* whether callers keep off the calls NextInGrid, TightBuffer
                      \* and WholeViews rule out, which misplace items

VARIABLES array, call, out, left
vars == <<array, call, out, left>>

NoCall == [name |-> "none"]
NoBuffer == <<>>

g == array.g
shape == g.shape
Stamp(n) == Items(n, LAMBDA i : 100 * (left + 1) + i)
Starts == {s \in [Axes(g) -> Cuts] : \A d \in Axes(g) : s[d] <= shape[d]}
Slices == {b \in Starts \X Starts : \A d \in Axes(g) : b[1][d] < b[2][d]}
(* A slice of one position along the other axes, or the whole of them. *)
Selections ==
  {[d \in Axes(g) |-> IF d = axis THEN sel ELSE [j \in 1 .. shape[d] |-> shape[d] - j]] :
     axis \in Axes(g), sel \in {<<0>>, <<1, 0, 1>>, <<0, 1, 2>>, <<2, 0, 1>>}}
NewShapes == {s \in [Axes(g) -> 0 .. MaxLen] :
                \A d \in Axes(g) : s[d] = 0 \/ s[d] - shape[d] \in Deltas}
(* A resize at a position is of one axis. *)
Positions(new) == {<<>>} \cup {s \in Starts : Cardinality({d \in Axes(g) : new[d] # shape[d]}) = 1}

Init ==
  /\ \E ctx \in Contexts :
       LET a == IF ctx.item = Zero THEN ArrayNew(ctx, Zero) ELSE Full(ctx, ctx.item) IN
       Ok(a) /\ array = a /\ left = ctx.calls
  /\ call = NoCall /\ out = NoBuffer

(* A call that changes the array, or fails and leaves it. *)
Changes(c, result) ==
  /\ left > 0 /\ left' = left - 1
  /\ call' = c
  /\ IF Ok(result) THEN array' = result /\ out' = NoBuffer ELSE array' = array /\ out' = Failed
Answers(c, buffer) ==
  /\ call' = c /\ out' = buffer
  /\ UNCHANGED <<array, left>>
ContentsOf(a) == IF Ok(a) THEN ToCbuffer(a) ELSE Failed

(* The fast path does not look at the shape of the buffer. *)
TightBuffer(start, stop, pad) == pad = 0 \/ ~FastPath(g, start, stop)

SetSliceCbuffer ==
  \E b \in Slices, pad \in Pads :
    LET bufshape == [d \in Axes(g) |-> b[2][d] - b[1][d] + pad]
        buffer == Stamp(NdSize(bufshape))
    IN /\ Cautious => TightBuffer(b[1], b[2], pad)
       /\ Changes([name |-> "set_slice", start |-> b[1], stop |-> b[2], bufshape |-> bufshape, buffer |-> buffer],
                  SetSlice(array, b[1], b[2], bufshape, buffer))
GetSliceCbuffer ==
  \E b \in Slices, pad \in Pads :
    LET bufshape == [d \in Axes(g) |-> b[2][d] - b[1][d] + pad] IN
    /\ Cautious => TightBuffer(b[1], b[2], pad)
    /\ Answers([name |-> "get_slice", start |-> b[1], stop |-> b[2], bufshape |-> bufshape],
               GetSlice(array, b[1], b[2], bufshape))
GetSparseCbuffer ==
  LET coords == [k \in 1 .. g.nitems |-> g.nitems - k] IN
  shape # <<>> /\ Answers([name |-> "get_sparse", coords |-> coords], GetSparse(array, coords))

SetOrthogonalSelection ==
  \E sel \in Selections :
    LET bufshape == [d \in Axes(g) |-> Len(sel[d])]
        buffer == Stamp(NdSize(bufshape))
    IN /\ \A d \in Axes(g) : \A j \in DOMAIN sel[d] : sel[d][j] \in 0 .. shape[d] - 1
       /\ Changes([name |-> "set_orthogonal", selection |-> sel, bufshape |-> bufshape, buffer |-> buffer],
                  SetOrthogonal(array, sel, bufshape, buffer))
GetOrthogonalSelection ==
  \E sel \in Selections :
    LET bufshape == [d \in Axes(g) |-> Len(sel[d])] IN
    /\ \A d \in Axes(g) : \A j \in DOMAIN sel[d] : sel[d][j] \in 0 .. shape[d] - 1
    /\ Answers([name |-> "get_orthogonal", selection |-> sel, bufshape |-> bufshape],
               GetOrthogonal(array, sel, bufshape))

ResizeShape ==
  \E new \in NewShapes : \E start \in Positions(new) :
    /\ start # <<>> => \A d \in Axes(g) : start[d] + (IF new[d] < shape[d] THEN shape[d] - new[d] ELSE 0) <= shape[d]
    /\ Changes([name |-> "resize", shape |-> new, start |-> start], Resize(array, new, start))
InsertRows ==
  \E axis \in Axes(g), n \in 1 .. Grow : \E at \in 0 .. shape[axis] :
    LET buffer == Stamp(NdSize([shape EXCEPT ![axis] = n])) IN
    /\ g.nitems > 0 /\ shape[axis] + n <= MaxLen
    /\ Changes([name |-> "insert", buffer |-> buffer, axis |-> axis, at |-> at], Insert(array, buffer, axis, at))
(* Where the chunk that is appended is the next one of the grid. *)
NextInGrid ==
  /\ g.extchunkshape = g.chunkshape /\ shape[1] % g.chunkshape[1] = 0
  /\ \A d \in Axes(g) \ {1} : shape[d] = g.chunkshape[d]
AppendRows ==
  \E axis \in Axes(g), n \in 1 .. Grow :
    LET buffer == Stamp(NdSize([shape EXCEPT ![axis] = n])) IN
    /\ NdSize([shape EXCEPT ![axis] = 1]) > 0 /\ shape[axis] + n <= MaxLen
    /\ Cautious /\ Accelerated(g, buffer, axis) => NextInGrid
    /\ Changes([name |-> "append", buffer |-> buffer, axis |-> axis], AppendBuffer(array, buffer, axis))
DeleteRows ==
  \E axis \in Axes(g), n \in 1 .. Grow : \E at \in 0 .. shape[axis] - n :
    Changes([name |-> "delete", axis |-> axis, at |-> at, n |-> n], Delete(array, axis, at, n))

(* New arrays, of any partition: their contents are the answer. *)
Ctx(part) == [shape |-> shape, chunkshape |-> part[1], blockshape |-> part[2]]
PartitionsHere == {part \in Partitions : Len(part[1]) = Len(shape)}
CopyCall ==
  \E part \in PartitionsHere : Answers([name |-> "copy"], ContentsOf(CopyArray(Ctx(part), array)))
GetSliceArray ==
  \E part \in PartitionsHere, b \in Slices :
    Answers([name |-> "slice_array", start |-> b[1], stop |-> b[2]],
            ContentsOf(SliceArray(Ctx(part), array, b[1], b[2])))
ToCbufferCall == Answers([name |-> "to_cbuffer"], ToCbuffer(array))

(* A view reads the chunks as they are: a squeezed axis must fill them. *)
WholeViews(index) == \A d \in Axes(g) : index[d] => g.chunkshape[d] = 1 /\ g.blockshape[d] = 1
SqueezeView ==
  \E index \in [Axes(g) -> BOOLEAN] :
    /\ \A d \in Axes(g) : index[d] => shape[d] = 1
    /\ \E d \in Axes(g) : index[d]
    /\ Cautious => WholeViews(index)
    /\ Answers([name |-> "view"], ContentsOf(SqueezeIndex(array, index)))
SqueezeAll ==
  LET index == [d \in Axes(g) |-> shape[d] = 1] IN
  /\ Cautious => WholeViews(index)
  /\ Answers([name |-> "view"], ContentsOf(Squeeze(array)))
ExpandView ==
  \E at \in 1 .. Len(shape) + 1 :
    Answers([name |-> "view"], ContentsOf(ExpandDims(array, [d \in 1 .. Len(shape) + 1 |-> d = at])))

(* The second array has its own partition and n positions on the axis. *)
ConcatenateCall ==
  \E part \in PartitionsHere, axis \in Axes(g), n \in 1 .. Grow :
    LET shape2 == [shape EXCEPT ![axis] = n]
        buffer == Stamp(NdSize(shape2))
    IN \E src2 \in {FromCbuffer([Ctx(part) EXCEPT !.shape = shape2], buffer)} :
       /\ g.nitems > 0 /\ shape[axis] + n <= MaxLen
       /\ Cautious => src2.g.chunkshape = Clip(src2.g.chunkshape, shape2)
       /\ Changes([name |-> "concatenate", buffer |-> buffer, axis |-> axis],
                  Concatenate(Ctx(part), array, src2, axis, FALSE))

(* The array is freed and opened again, or goes through a cframe. *)
Reopen == 
  LET a == FromSchunk(array.meta, array.chunks) IN
  Ok(a) /\ array' = a /\ call' = [name |-> "reopen"] /\ out' = NoBuffer /\ UNCHANGED left

Return == call # NoCall /\ call' = NoCall /\ out' = NoBuffer /\ UNCHANGED <<array, left>>

Call ==
  \/ SetSliceCbuffer \/ GetSliceCbuffer \/ GetSparseCbuffer
  \/ SetOrthogonalSelection \/ GetOrthogonalSelection
  \/ ResizeShape \/ InsertRows \/ AppendRows \/ DeleteRows
  \/ CopyCall \/ GetSliceArray \/ ToCbufferCall \/ SqueezeView \/ SqueezeAll \/ ExpandView
  \/ ConcatenateCall \/ Reopen
Next == (call = NoCall /\ Call) \/ Return
Spec == Init /\ [][Next]_vars
-----------------------------------------------------------------------------
(* The cached geometry and the chunks are of their types. *)
TypeOK ==
  /\ Ok(UpdateShapeStruct(shape, g.chunkshape, g.blockshape))
  /\ \A k \in DOMAIN array.chunks : DOMAIN array.chunks[k] = 0 .. g.extchunknitems - 1
  /\ left \in Nat

(* After any sequence of calls the super-chunk holds one chunk for every   *)
(* place of the grid the shape spans, and the metalayer gives back the     *)
(* geometry the handle caches: what another open would find is the array.  *)
(* No item of a chunk, in its padding neither, is what a buffer happened   *)
(* to hold before it was filled.                                           *)
GridExact ==
  /\ Len(array.chunks) = (IF g.nitems = 0 THEN 0 ELSE NdSize(ChunksInArray(g)))
  /\ FromSchunk(array.meta, array.chunks) = array
  /\ \A k \in DOMAIN array.chunks : \A i \in DOMAIN array.chunks[k] : array.chunks[k][i] >= 0

(* The item of an index, by the layout of chunks and blocks. *)
ItemAt(index) ==
  LET at == StorageCoord(g, NdDot(index, NdStrides(shape)))
  IN array.chunks[(at \div g.extchunknitems) + 1][at % g.extchunknitems]
Contents == Computed([i \in {UnidimToMultidim(shape, k) : k \in 0 .. g.nitems - 1} |-> ItemAt(i)])
Abstract == INSTANCE NdArray WITH
  Refused <- Failed,
  shape <- shape,
  value <- Contents

(* Every call does to the array, and answers, what NdArray says: a value   *)
(* at every index, whatever the chunks, the blocks, the padding and the    *)
(* path taken (fast, compact, masked out, aligned).                        *)
IsNdArray == Abstract!Spec
=============================================================================
