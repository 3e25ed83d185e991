----------------------------- MODULE CellFilters -----------------------------
(***************************************************************************)
(* ndcell.c and ndmean.c: a block of a b2nd array, taken apart in cells.   *)
(* shape is the blockshape of the "b2nd" metalayer, <<>> when the          *)
(* super-chunk has none; an element is one symbol (type size 4 or 8 makes  *)
(* no difference to the order), and a mean is the set of the elements it is*)
(* the mean of.                                                            *)
(***************************************************************************)
EXTENDS NdIndex, TLC

CONSTANT MaxDim                             \* NDCELL_MAX_DIM, NDMEAN_MAX_DIM

(* The checks of all four functions.  length is in bytes. *)
GeometryOK(shape, ts, length) ==
  /\ shape # <<>> /\ Len(shape) <= MaxDim
  /\ \A d \in DOMAIN shape : shape[d] > 0
  /\ ts * NdSize(shape) = length

(* The cells along each dimension, and how far a cell reaches. *)
CellGrid(shape, cell) == [d \in DOMAIN shape |-> (shape[d] + cell[d] - 1) \div cell[d]]
PadShape(shape, cell, ii) ==
  [d \in DOMAIN shape |->
     IF shape[d] % cell[d] # 0 /\ ii[d] = CellGrid(shape, cell)[d] - 1 THEN shape[d] % cell[d] ELSE cell[d]]

(* The first element of a cell: the loop starts from one side of the cell  *)
(* and goes over the dimensions from the last one.                         *)
CellOrigin(shape, side, ii) ==
  LET n == Len(shape)
      after[d \in 1 .. n] == IF d = n THEN side ELSE after[d + 1] * shape[d + 1]
  IN NdDot(ii, after)

(* The elements of a cell, row by row: those of each row are contiguous.   *)
CellElements(shape, side, cell, ii) ==
  LET n == Len(shape)
      pad == PadShape(shape, cell, ii)
      rows == SubSeq(pad, 1, n - 1)
      Row(k) == NdDot(UnidimToMultidim(rows, k), SubSeq(NdStrides(shape), 1, n - 1))
  IN [p \in 1 .. NdSize(pad) |->
        CellOrigin(shape, side, ii) + Row((p - 1) \div pad[n]) + ((p - 1) % pad[n])]

(* All cells, in order: where in the block the elements of the stream lie. *)
CellOrder(shape, side, cell) ==
  LET grid == CellGrid(shape, cell) IN
  FlattenSeq([c \in 1 .. NdSize(grid) |->
    CellElements(shape, side, cell, UnidimToMultidim(grid, c - 1))])
CellLengths(shape, cell) ==
  LET grid == CellGrid(shape, cell) IN
  [c \in 1 .. NdSize(grid) |-> NdSize(PadShape(shape, cell, UnidimToMultidim(grid, c - 1)))]

Scatter(order, src) ==
  [e \in {order[p] : p \in DOMAIN order} |-> src[CHOOSE p \in DOMAIN order :
     order[p] = e /\ \A q \in DOMAIN order : order[q] = e => q <= p]]
RefusedCells == <<>>
-----------------------------------------------------------------------------
(* ndcell: meta is the side of the cell, the same in all dimensions. *)
NdcellCell(shape, meta) == [d \in DOMAIN shape |-> meta]
NdcellOK(shape, ts, length, meta) ==
  GeometryOK(shape, ts, length) /\ meta > 0 /\ NdSize(NdcellCell(shape, meta)) <= length \div ts

NdcellForward(shape, ts, length, meta, src) ==
  IF ~NdcellOK(shape, ts, length, meta) THEN RefusedCells
  ELSE LET order == CellOrder(shape, meta, NdcellCell(shape, meta))
       IN [p \in DOMAIN order |-> src[order[p]]]

(* The last row written must end where the block does. *)
MutBackward(shape, side, cell, src) ==
  LET order == CellOrder(shape, side, cell) IN
  IF order[Len(order)] # NdSize(shape) THEN RefusedCells ELSE Scatter(order, src)
Backward(shape, side, cell, src) ==
  LET order == CellOrder(shape, side, cell) IN
  IF order[Len(order)] + 1 # NdSize(shape) THEN RefusedCells ELSE Scatter(order, src)
NdcellBackward(shape, ts, length, meta, src) ==
  IF ~NdcellOK(shape, ts, length, meta) THEN RefusedCells
  ELSE Backward(shape, meta, NdcellCell(shape, meta), src)
-----------------------------------------------------------------------------
(* ndmean: a cell is clipped to the block, but its first side is the one   *)
(* the origins are computed with.                                          *)
NdmeanCell(shape, meta) == [d \in DOMAIN shape |-> IF meta > shape[d] THEN shape[d] ELSE meta]
NdmeanOK(shape, ts, length, meta) ==
  /\ GeometryOK(shape, ts, length) /\ meta \in 1 .. 127
  /\ NdSize(NdmeanCell(shape, meta)) * ts <= length

(* mean_float and mean_double, started anew for every cell. *)
CellMean(order, first, length, src) == {src[order[p]] : p \in first .. first + length - 1}

NdmeanForward(shape, ts, length, meta, src) ==
  IF ts \notin {4, 8} \/ ~NdmeanOK(shape, ts, length, meta) THEN RefusedCells
  ELSE LET cell == NdmeanCell(shape, meta)
           order == CellOrder(shape, cell[1], cell)
           lengths == CellLengths(shape, cell)
           starts[c \in 1 .. Len(lengths)] == IF c = 1 THEN 1 ELSE starts[c - 1] + lengths[c - 1]
       IN FlattenSeq([c \in DOMAIN lengths |->
            LET mean == CellMean(order, starts[c], lengths[c], src) IN [k \in 1 .. lengths[c] |-> mean]])
NdmeanBackward(shape, ts, length, meta, src) ==
  IF ~NdmeanOK(shape, ts, length, meta) THEN RefusedCells
  ELSE LET cell == NdmeanCell(shape, meta) IN Backward(shape, cell[1], cell, src)
=============================================================================
