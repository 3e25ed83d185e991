----------------------------- MODULE BitShuffle ------------------------------
(***************************************************************************)
(* The bit shuffle: bitshuffle-generic.{h,c}, -sse2.c, -avx2.c, -avx512.c, *)
(* -neon.c and -altivec.c, and its dispatch in shuffle.c.                  *)
(* A byte is the function of its bits 0 .. 7, a bit a symbol.              *)
(* n is the number of elements (size in the code), es the element size.    *)
(***************************************************************************)
EXTENDS ByteShuffle

(* Sequences of the stores of all iterations of a loop. *)
ForEach(starts, f(_)) == FlattenSeq([k \in DOMAIN starts |-> f(starts[k])])
Steps(from, to, by) == IF from > to THEN <<>> ELSE [k \in 1 .. 1 + ((to - from) \div by) |-> from + (k - 1) * by]
-----------------------------------------------------------------------------
(* The scalar kernels *)

(* The 8x8 transposition is linear, so it is run once on a word whose bits *)
(* are the sets of the positions they are the exclusive or of.             *)
Xor(x, y) == [i \in 0 .. 63 |-> (x[i] \ y[i]) \cup (y[i] \ x[i])]
ShiftRight(x, s) == [i \in 0 .. 63 |-> IF i + s < 64 THEN x[i + s] ELSE {}]
ShiftLeft(x, s) == [i \in 0 .. 63 |-> IF i >= s THEN x[i - s] ELSE {}]
(* A mask is given by its bytes, the least significant first. *)
And(x, mask) ==
  [i \in 0 .. 63 |-> IF (mask[1 + i \div 8] \div 2 ^ (i % 8)) % 2 = 1 THEN x[i] ELSE {}]
Positions == [i \in 0 .. 63 |-> {i}]

SwapBits(x, s, mask) ==
  LET t == Now(And(Xor(x, ShiftRight(x, s)), mask)) IN Now(Xor(Xor(x, t), ShiftLeft(t, s)))

MutTransBit8x8 ==
  SwapBits(SwapBits(SwapBits(Positions, 7,  <<170, 0, 170, 0, 170, 0, 170, 0>>),
                                        14, <<204, 204, 0, 0, 204, 204, 0, 0>>),
                                        14, <<240, 240, 240, 240, 0, 0, 0, 0>>)
TransBit8x8 ==
  SwapBits(SwapBits(SwapBits(Positions, 7,  <<170, 0, 170, 0, 170, 0, 170, 0>>),
                                        14, <<204, 204, 0, 0, 204, 204, 0, 0>>),
                                        28, <<240, 240, 240, 240, 0, 0, 0, 0>>)
TransBit8x8BE ==
  SwapBits(SwapBits(SwapBits(Positions, 9,  <<85, 0, 85, 0, 85, 0, 85, 0>>),
                                        18, <<51, 51, 0, 0, 51, 51, 0, 0>>),
                                        36, <<15, 15, 15, 15, 0, 0, 0, 0>>)

(* Load a quadword in the byte order of the host, transpose it, and take   *)
(* it apart from its low byte on: byte k goes to row k (7 - k when the     *)
(* host is big endian).  A bit that is not one of the input is Mixed.      *)
Mixed == -2
Transposed(le, m, a) ==
  LET x == IF le THEN TransBit8x8 ELSE TransBit8x8BE
      Order(k) == IF le THEN k ELSE 7 - k
      Bit(from) == m[a + Order(from \div 8)][from % 8]
  IN [row \in 0 .. 7 |-> Now([b \in 0 .. 7 |->
        LET from == x[8 * Order(row) + b] IN
        IF \E p \in from : from = {p} THEN Bit(CHOOSE p \in from : TRUE) ELSE Mixed])]

(* bshuf_trans_byte_elem_remainder: byte j of element i goes to row j. *)
TransByteElemRemainder(src, dest, n, es, start) ==
  [a \in {j * n + i : j \in 0 .. es - 1, i \in start .. n - 1} |->
     src[(a % n) * es + a \div n]] @@ dest

TransBitByteRemainder(le, src, dest, n, es, start) ==
  LET row == (es * n) \div 8
      t == Now([i \in start \div 8 .. row - 1 |-> Transposed(le, src, 8 * i)])
  IN [a \in {k * row + i : k \in 0 .. 7, i \in start \div 8 .. row - 1} |->
        t[a % row][a \div row]] @@ dest

(* bshuf_trans_elem, and TRANS_ELEM_TYPE: transpose lda x ldb elements. *)
TransElem(src, lda, ldb, es) ==
  [a \in 0 .. lda * ldb * es - 1 |->
     LET i == (a \div es) % lda j == (a \div es) \div lda IN src[(i * ldb + j) * es + (a % es)]]

TransBitrowEight(src, n, es) == TransElem(src, 8, es, n \div 8)

TransByteBitrowScal(src, n, es) ==
  LET row == n \div 8 IN
  [a \in 0 .. n * es - 1 |->
     LET i == a \div (8 * es) j == (a % (8 * es)) \div 8 k == a % 8 IN src[(j * 8 + k) * row + i]]

ShuffleBitEightelemScal(le, src, n, es) ==
  LET t == Now([g \in 0 .. (n * es) \div 8 - 1 |-> Transposed(le, src, 8 * g)]) IN
  [a \in 0 .. n * es - 1 |->
     LET i == a \div (8 * es) k == (a % (8 * es)) \div es j == a % es IN t[i * es + j][k]]

TransBitElemScal(le, src, n, es) ==
  TransBitrowEight(
    TransBitByteRemainder(le, TransByteElemRemainder(src, Empty, n, es, 0), Empty, n, es, 0), n, es)
UntransBitElemScal(le, src, n, es) == ShuffleBitEightelemScal(le, TransByteBitrowScal(src, n, es), n, es)
-----------------------------------------------------------------------------
(* Bytes within elements, sixteen elements a group, then the remainder.    *)
(* net maps the es registers of the group to the es rows it is stored in.  *)

Groups(n) == Steps(0, n - 16, 16)
TransByteElemBy(net(_), src, n, es) ==
  TransByteElemRemainder(src,
    StoreAll(Empty, ForEach(Groups(n), LAMBDA i :
      LET r == net(Registers(es, LAMBDA k : Load(src, es * i + 16 * k, 16)))
      IN [k \in 1 .. es |-> At((k - 1) * n + i, r[k - 1])])),
    n, es, n - (n % 16))

Sse16(r) == Zips(1, 1, Zips(1, 1, Zips(1, 1, Zips(1, 1, r))))
Sse32(r) == Zips(8, 2, Zips(1, 1, Zips(1, 1, Zips(1, 1, r))))
Sse64(r) == Zips(8, 4, Zips(4, 2, Zips(1, 1, Zips(1, 1, r))))
TransByteElemSse16(src, n) == TransByteElemBy(Sse16, src, n, 2)
TransByteElemSse32(src, n) == TransByteElemBy(Sse32, src, n, 4)
TransByteElemSse64(src, n) == TransByteElemBy(Sse64, src, n, 8)

(* The vzip kernels of bitshuffle-neon.c are the same networks. *)
TransByteElemNeon16(src, n) == TransByteElemBy(Sse16, src, n, 2)
TransByteElemNeon32(src, n) == TransByteElemBy(Sse32, src, n, 4)
TransByteElemNeon64(src, n) == TransByteElemBy(Sse64, src, n, 8)

(* The networks of transpose-altivec.h. *)
TransByteElem16(src, n) == TransByteElemBy(Transpose2x16, src, n, 2)
TransByteElem32(src, n) == TransByteElemBy(Transpose4x16, src, n, 4)
TransByteElem64(src, n) == TransByteElemBy(Transpose8x16, src, n, 8)
TransByteElem128(src, n) == TransByteElemBy(Transpose16x16, src, n, 16)

(* Multiples of a power of two go through units of w bytes: transpose the  *)
(* units of the elements, then the bytes of the units, then collect rows.  *)
Hierarchically(kernel(_, _), src, n, es, w) ==
  TransElem(kernel(TransElem(src, n, es \div w, w), n * (es \div w)), w, es \div w, n)

TransByteElemSse(src, n, es) ==
  CASE es = 1 -> src
    [] es = 2 -> TransByteElemSse16(src, n)
    [] es = 4 -> TransByteElemSse32(src, n)
    [] es = 8 -> TransByteElemSse64(src, n)
    [] es # 2 /\ es % 4 # 0 /\ es # 1 -> TransByteElemRemainder(src, Empty, n, es, 0)
    [] es > 8 /\ es % 8 = 0 -> Hierarchically(TransByteElemSse64, src, n, es, 8)
    [] es > 4 /\ es % 8 = 4 -> Hierarchically(TransByteElemSse32, src, n, es, 4)

TransByteElemNeon(src, n, es) ==
  CASE es = 1 -> src
    [] es = 2 -> TransByteElemNeon16(src, n)
    [] es = 4 -> TransByteElemNeon32(src, n)
    [] es = 8 -> TransByteElemNeon64(src, n)
    [] es # 2 /\ es % 4 # 0 /\ es # 1 -> TransByteElemRemainder(src, Empty, n, es, 0)
    [] es > 8 /\ es % 8 = 0 -> Hierarchically(TransByteElemNeon64, src, n, es, 8)
    [] es > 4 /\ es % 8 = 4 -> Hierarchically(TransByteElemNeon32, src, n, es, 4)

TransByteElemAltivec(src, n, es) ==
  CASE es = 1 -> src
    [] es = 2 -> TransByteElem16(src, n)
    [] es = 4 -> TransByteElem32(src, n)
    [] es = 8 -> TransByteElem64(src, n)
    [] es = 16 -> TransByteElem128(src, n)
    [] es # 2 /\ es % 4 # 0 /\ es # 1 -> TransByteElemRemainder(src, Empty, n, es, 0)
    [] es > 16 /\ es % 16 = 0 -> Hierarchically(TransByteElem128, src, n, es, 16)
    [] es > 8 /\ es % 16 = 8 -> Hierarchically(TransByteElem64, src, n, es, 8)
    [] es > 4 /\ es % 8 = 4 -> Hierarchically(TransByteElem32, src, n, es, 4)
-----------------------------------------------------------------------------
(* Bits within bytes: the top bits of a vector, shifted left seven times.  *)

BitPlanes(v) ==
  LET shifted[k \in 0 .. 7] == IF k = 0 THEN v ELSE ShiftLeft16(shifted[k - 1])
  IN [k \in 0 .. 7 |-> MoveMask(shifted[k])]
BitPlaneStores(v, At7(_)) == LET p == BitPlanes(v) IN [k \in 1 .. 8 |-> At(At7(k - 1), p[k - 1])]

TransBitByteFrom(src, nbyte, from, w) ==
  ForEach(Steps(from, nbyte - w, w), LAMBDA i :
    BitPlaneStores(Load(src, i, w), LAMBDA k : ((7 - k) * nbyte + i) \div 8))

TransBitByteSse(src, n, es) ==
  LET nbyte == es * n IN
  TransBitByteRemainder(TRUE, src, StoreAll(Empty, TransBitByteFrom(src, nbyte, 0, 16)),
                        n, es, nbyte - (nbyte % 16))
TransBitByteNeon(src, n, es) ==
  LET nbyte == es * n IN
  TransBitByteRemainder(TRUE, src, StoreAll(Empty, TransBitByteFrom(src, nbyte, 0, 16)),
                        n, es, nbyte - (nbyte % 16))
(* vec_bperm takes bit kk of every byte where movemask takes the top one. *)
BitPerm(v, kk) == [k \in 0 .. 1 |-> [b \in 0 .. 7 |-> v[8 * k + b][kk]]]
TransBitByteAltivec(src, n, es) ==
  LET nbyte == es * n IN
  TransBitByteRemainder(TRUE, src,
    StoreAll(Empty, ForEach(Steps(0, nbyte - 16, 16), LAMBDA i :
      [k \in 1 .. 8 |-> At((i + (k - 1) * nbyte) \div 8, BitPerm(Load(src, i, 16), k - 1))])),
    n, es, nbyte - (nbyte % 16))
TransBitByteAvx(src, n, es) ==
  LET nbyte == es * n IN
  TransBitByteRemainder(TRUE, src, StoreAll(Empty, TransBitByteFrom(src, nbyte, 0, 32)),
                        n, es, nbyte - (nbyte % 32))
(* 64 bytes at a time, then 32 at a time, then the remainder. *)
TransBitByteAvx512(src, n, es) ==
  LET nbyte == es * n IN
  TransBitByteRemainder(TRUE, src,
    StoreAll(Empty, TransBitByteFrom(src, nbyte, 0, 64)
                    \o TransBitByteFrom(src, nbyte, nbyte - (nbyte % 64), 32)),
    n, es, nbyte - ((nbyte % 64) % 32))
-----------------------------------------------------------------------------
(* Bytes of bit rows *)

Bytewise(src, dest, row, nrows, from) ==
  [a \in {j * nrows + i : i \in 0 .. nrows - 1, j \in from .. row - 1} |->
     src[(a % nrows) * row + a \div nrows]] @@ dest
EightRows(r) == Zips(4, 1, ZipGroups(2, 4, ZipGroups(1, 8, r)))
LoadBitrows(src, first, row, j, n, w) == Registers(n, LAMBDA k : Load(src, (first + k) * row + j, w))

TransByteBitrowSse(src, n, es) ==
  LET row == n \div 8 nrows == 8 * es
      Tile(i, j) == LET r == EightRows(LoadBitrows(src, i, row, j, 8, 16)) IN
        [k \in 1 .. 16 |-> At((j + k - 1) * nrows + i, Load(r[(k - 1) \div 2], 8 * ((k - 1) % 2), 8))]
  IN Bytewise(src, StoreAll(Empty, ForEach(Steps(0, nrows - 8, 8), LAMBDA i :
                     ForEach(Steps(0, row - 16, 16), LAMBDA j : Tile(i, j)))),
              row, nrows, row - (row % 16))
TransByteBitrowNeon(src, n, es) == TransByteBitrowSse(src, n, es)

(* Four groups of eight rows make vectors of 32 bytes of a row. *)
TransByteBitrowAvx(src, n, es) ==
  LET row == n \div 8 nrows == 8 * es
      Tile(i, j) ==
        LET storage == [h \in 0 .. 3 |-> EightRows(LoadBitrows(src, 8 * (i + h), row, j, 8, 32))]
            Four(m) ==
              LET r == ZipHalves(8, Registers(4, LAMBDA h : storage[h][m]))
              IN << At((j + 2 * m) * nrows + 8 * i, Lanes2x128(0, r[0], r[1])),
                    At((j + 2 * m + 1) * nrows + 8 * i, Lanes2x128(0, r[2], r[3])),
                    At((j + 2 * m + 16) * nrows + 8 * i, Lanes2x128(1, r[0], r[1])),
                    At((j + 2 * m + 17) * nrows + 8 * i, Lanes2x128(1, r[2], r[3])) >>
        IN ForEach(Steps(0, 7, 1), Four)
  IN IF es % 4 # 0 THEN TransByteBitrowSse(src, n, es)
     ELSE Bytewise(src, StoreAll(Empty, ForEach(Steps(0, row - 32, 32), LAMBDA j :
                          ForEach(Steps(0, es - 4, 4), LAMBDA i : Tile(i, j)))),
                   row, nrows, row - (row % 32))

TransByteBitrowAltivec(src, n, es) ==
  LET row == n \div 8 nrows == 8 * es
      nv == IF es = 1 THEN 8 ELSE 16
      Tile(i, j) ==
        LET r == EightRows(LoadBitrows(src, i, row, j, nv, 16)) IN
        IF es = 1 THEN [k \in 1 .. 8 |-> At((j + 2 * (k - 1)) * nrows + i, r[k - 1])]
        ELSE [k \in 1 .. 16 |-> At((j + k - 1) * nrows + i, Zips(8, 8, r)[k - 1])]
  IN IF es > 1 /\ es % 2 # 0 THEN TransByteBitrowScal(src, n, es)
     ELSE Bytewise(src, StoreAll(Empty, ForEach(Steps(0, nrows - nv, nv), LAMBDA i :
                          ForEach(Steps(0, row - 16, 16), LAMBDA j : Tile(i, j)))),
                   row, nrows, row - (row % 16))
-----------------------------------------------------------------------------
(* Bits of eight elements *)

ShuffleBitEightelemBy(src, n, es, w) ==
  StoreAll(Empty, ForEach(Steps(0, (n - 8) * es, 8 * es), LAMBDA i :
    ForEach(Steps(0, 8 * es - w, w), LAMBDA j :
      BitPlaneStores(Load(src, i + j, w), LAMBDA k : i + (j \div 8) + (7 - k) * es))))

ShuffleBitEightelemSse(src, n, es) ==
  IF es % 2 # 0 THEN ShuffleBitEightelemScal(TRUE, src, n, es) ELSE ShuffleBitEightelemBy(src, n, es, 16)
ShuffleBitEightelemNeon(src, n, es) ==
  IF es % 2 # 0 THEN ShuffleBitEightelemScal(TRUE, src, n, es) ELSE ShuffleBitEightelemBy(src, n, es, 16)
ShuffleBitEightelemAvx(src, n, es) ==
  IF es % 4 # 0 THEN ShuffleBitEightelemSse(src, n, es) ELSE ShuffleBitEightelemBy(src, n, es, 32)
ShuffleBitEightelemAvx512(src, n, es) ==
  IF es % 8 # 0 THEN ShuffleBitEightelemAvx(src, n, es) ELSE ShuffleBitEightelemBy(src, n, es, 64)
ShuffleBitEightelemAltivec(src, n, es) ==
  IF es % 2 # 0 THEN ShuffleBitEightelemScal(TRUE, src, n, es)
  ELSE StoreAll(Empty, ForEach(Steps(0, (n - 8) * es, 8 * es), LAMBDA i :
         ForEach(Steps(0, 8 * es - 16, 16), LAMBDA j :
           [k \in 1 .. 8 |-> At(i + (j \div 8) + (k - 1) * es, BitPerm(Load(src, i + j, 16), k - 1))])))
-----------------------------------------------------------------------------
(* The whole transposition and its reverse, per instruction set *)
TransBitElemSse(src, n, es) == TransBitrowEight(TransBitByteSse(TransByteElemSse(src, n, es), n, es), n, es)
TransBitElemAvx(src, n, es) == TransBitrowEight(TransBitByteAvx(TransByteElemSse(src, n, es), n, es), n, es)
TransBitElemAvx512(src, n, es) ==
  TransBitrowEight(TransBitByteAvx512(TransByteElemSse(src, n, es), n, es), n, es)
TransBitElemNeon(src, n, es) ==
  TransBitrowEight(TransBitByteNeon(TransByteElemNeon(src, n, es), n, es), n, es)
TransBitElemAltivec(src, n, es) ==
  TransBitrowEight(TransBitByteAltivec(TransByteElemAltivec(src, n, es), n, es), n, es)

UntransBitElemSse(src, n, es) == ShuffleBitEightelemSse(TransByteBitrowSse(src, n, es), n, es)
UntransBitElemAvx(src, n, es) == ShuffleBitEightelemAvx(TransByteBitrowAvx(src, n, es), n, es)
UntransBitElemAvx512(src, n, es) == ShuffleBitEightelemAvx512(TransByteBitrowAvx(src, n, es), n, es)
UntransBitElemNeon(src, n, es) == ShuffleBitEightelemNeon(TransByteBitrowNeon(src, n, es), n, es)
UntransBitElemAltivec(src, n, es) ==
  ShuffleBitEightelemAltivec(TransByteBitrowAltivec(src, n, es), n, es)

(* The implementations of shuffle.c, with the two it does not install: the *)
(* NEON kernels it finds too slow, and the scalar ones of a big-endian host*)
TransBitElem(isa, src, n, es) ==
  CASE isa = "generic" -> TransBitElemScal(TRUE, src, n, es)
    [] isa = "generic_be" -> TransBitElemScal(FALSE, src, n, es)
    [] isa = "sse2" -> TransBitElemSse(src, n, es)
    [] isa = "avx2" -> TransBitElemAvx(src, n, es)
    [] isa = "avx512" -> TransBitElemAvx512(src, n, es)
    [] isa = "neon" -> TransBitElemNeon(src, n, es)
    [] isa = "altivec" -> TransBitElemAltivec(src, n, es)
UntransBitElem(isa, src, n, es) ==
  CASE isa = "generic" -> UntransBitElemScal(TRUE, src, n, es)
    [] isa = "generic_be" -> UntransBitElemScal(FALSE, src, n, es)
    [] isa = "sse2" -> UntransBitElemSse(src, n, es)
    [] isa = "avx2" -> UntransBitElemAvx(src, n, es)
    [] isa = "avx512" -> UntransBitElemAvx512(src, n, es)
    [] isa = "neon" -> UntransBitElemNeon(src, n, es)
    [] isa = "altivec" -> UntransBitElemAltivec(src, n, es)

(* blosc2_bitshuffle and bitunshuffle: whole groups of eight elements, and *)
(* the rest copied.  Up to format 2 a block with a rest was not shuffled.  *)
Whole(ts, bs) == LET n == bs \div ts IN n - (n % 8)

Bitshuffle(isa, ts, bs, src) ==
  LET n == Whole(ts, bs) IN
  Copy(IF n = 0 THEN Empty ELSE TransBitElem(isa, src, n, ts), src, n * ts, bs - n * ts)

MutBitunshuffle(isa, ts, bs, src, version) ==
  LET n == Whole(ts, bs) IN
  Copy(IF n = 0 THEN Empty ELSE UntransBitElem(isa, src, n, ts), src, n * ts, bs - n * ts)
Bitunshuffle(isa, ts, bs, src, version) ==
  LET n == Whole(ts, bs) IN
  IF version = 2
  THEN IF bs \div ts = n THEN UntransBitElem(isa, src, n, ts) ELSE src
  ELSE Copy(IF n = 0 THEN Empty ELSE UntransBitElem(isa, src, n, ts), src, n * ts, bs - n * ts)
=============================================================================
