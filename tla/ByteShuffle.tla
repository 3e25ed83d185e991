----------------------------- MODULE ByteShuffle -----------------------------
(***************************************************************************)
(* The byte shuffle: shuffle-generic.h, shuffle-sse2.c, shuffle-avx2.c,    *)
(* shuffle-neon.c, shuffle-altivec.c and the dispatch of shuffle.c.        *)
(* Every kernel is written as the stores it makes for the group of         *)
(* elements that starts at element j: ne is total_elements, ts the type    *)
(* size.  Registers are numbered as in the code.                           *)
(***************************************************************************)
EXTENDS Vectors

(* shuffle_generic_inline and unshuffle_generic_inline, from an element on;*)
(* the bytes after the last whole element are copied.                      *)
ShuffleGeneric(ts, first, bs, src, dest) ==
  LET ne == bs \div ts IN
  Copy([i \in {j * ne + e : j \in 0 .. ts - 1, e \in first .. ne - 1} |->
          src[(i % ne) * ts + i \div ne]] @@ dest,
       src, bs - (bs % ts), bs % ts)

UnshuffleGeneric(ts, first, bs, src, dest) ==
  LET ne == bs \div ts IN
  Copy([i \in first * ts .. ne * ts - 1 |-> src[(i % ts) * ne + i \div ts]] @@ dest,
       src, bs - (bs % ts), bs % ts)

(* Where shuffled bytes go: plane k gets register k, at element j.  Where  *)
(* whole elements go: registers in the given order, a fixed step apart.    *)
Planes(j, ne, r) == [k \in 1 .. Size(r) |-> At(j + (k - 1) * ne, r[k - 1])]
Rows(a, step, order, r) == [k \in 1 .. Len(order) |-> At(a + (k - 1) * step, r[order[k]])]

LoadRows(src, a, step, n, w) == Registers(n, LAMBDA k : Load(src, a + k * step, w))
LoadPlanes(src, j, ne, n, w) == Registers(n, LAMBDA k : Load(src, j + k * ne, w))

(* Offsets into a type of more than 16 bytes, one tile of 16 bytes each;   *)
(* the first advance makes the rest a multiple of 16.                      *)
TileOffsets(ts) ==
  LET rem == ts % 16 IN
  IF rem = 0 THEN [k \in 1 .. ts \div 16 |-> 16 * (k - 1)]
  ELSE <<0>> \o [k \in 1 .. ts \div 16 |-> rem + 16 * (k - 1)]
-----------------------------------------------------------------------------
(* SSE2 *)

Shuffle2Sse2(src, j, ne) ==
  LET Row(k) ==
        LET a == ShuffleEpi32(ShuffleHiEpi16(ShuffleLoEpi16(
                   Load(src, 2 * j + 16 * k, 16), \hD8), \hD8), \hD8)
            b == ShuffleEpi32(ZipUnits(1, 0, a, ShuffleEpi32(a, \h4E)), \hD8)
        IN ShuffleEpi32(ZipUnits(2, 0, b, ShuffleEpi32(b, \h4E)), \hD8)
  IN Planes(j, ne, Zips(8, 1, Registers(2, Row)))

(* The first stage of shuffle4, on one register of either width. *)
Quads(v) ==
  LET a == ZipUnits(1, 0, ShuffleEpi32(v, \hD8), ShuffleEpi32(v, \h8D))
  IN ZipUnits(2, 0, a, ShuffleEpi32(a, \h4E))

Shuffle4Sse2(src, j, ne) ==
  Planes(j, ne, Zips(8, 2, Zips(4, 1, Registers(4, LAMBDA k : Quads(Load(src, 4 * j + 16 * k, 16))))))

Octets(v) == ZipUnits(1, 0, v, ShuffleEpi32(v, \h4E))

Shuffle8Sse2(src, j, ne) ==
  Planes(j, ne, Zips(8, 4, Zips(4, 2, Zips(2, 1,
    Registers(8, LAMBDA k : Octets(Load(src, 8 * j + 16 * k, 16)))))))

Transpose16(r) == Zips(8, 8, Zips(4, 4, Zips(2, 2, Zips(1, 1, r))))

Shuffle16Sse2(src, j, ne) == Planes(j, ne, Transpose16(LoadRows(src, 16 * j, 16, 16, 16)))

Shuffle16TiledSse2(src, j, ne, ts) ==
  FlattenSeq([t \in DOMAIN TileOffsets(ts) |->
    LET off == TileOffsets(ts)[t] IN
    Planes(j + ne * off, ne, Transpose16(LoadRows(src, off + j * ts, ts, 16, 16)))])

Unshuffle2Sse2(src, j, ne) ==
  Rows(2 * j, 16, <<0, 1>>, ZipHalves(1, LoadPlanes(src, j, ne, 2, 16)))

Unshuffle4Sse2(src, j, ne) ==
  Rows(4 * j, 16, <<0, 2, 1, 3>>, ZipHalves(2, ZipHalves(1, LoadPlanes(src, j, ne, 4, 16))))

Unshuffle8Sse2(src, j, ne) ==
  Rows(8 * j, 16, <<0, 4, 2, 6, 1, 5, 3, 7>>,
       ZipHalves(4, ZipHalves(2, ZipHalves(1, LoadPlanes(src, j, ne, 8, 16)))))

Untranspose16(r) == ZipHalves(8, ZipHalves(4, ZipHalves(2, ZipHalves(1, r))))
Order16 == <<0, 8, 4, 12, 2, 10, 6, 14, 1, 9, 5, 13, 3, 11, 7, 15>>

(* Twelve planes and four of zeros: each store but the last writes four    *)
(* bytes too many, which the next one overwrites; the last one is masked.  *)
ZeroPadded(src, j, ne, w) ==
  Registers(16, LAMBDA k : IF k < 12 THEN Load(src, j + k * ne, w)
                           ELSE [i \in 0 .. w - 1 |-> -1])
Masked(stores, n) ==
  LET last == Len(stores) IN
  [stores EXCEPT ![last].v = [i \in 0 .. n - 1 |-> stores[last].v[i]]]

Unshuffle12Sse2(src, j, ne) ==
  Masked(Rows(12 * j, 12, Order16, Untranspose16(ZeroPadded(src, j, ne, 16))), 12)

Unshuffle16Sse2(src, j, ne) ==
  Rows(16 * j, 16, Order16, Untranspose16(LoadPlanes(src, j, ne, 16, 16)))

Unshuffle16TiledSse2(src, j, ne, ts, off) ==
  Rows(off + j * ts, ts, Order16, Untranspose16(LoadPlanes(src, j + ne * off, ne, 16, 16)))
-----------------------------------------------------------------------------
(* AVX2: 32 elements a group, in registers of two lanes *)

Shuffle2Avx2(src, j, ne) ==
  LET evens == <<0, 2, 4, 6, 8, 10, 12, 14, 1, 3, 5, 7, 9, 11, 13, 15>>
      Row(k) == ShuffleLanes(1, Load(src, 2 * j + 32 * k, 32), evens)
      a == Permute4x64(Row(0), \hD8)
      b == Permute4x64(Row(1), \h8D)
      r == <<BlendHigh(a, b), Permute4x64(BlendHigh(b, a), \h4E)>>
  IN Planes(j, ne, Registers(2, LAMBDA k : r[k + 1]))

Shuffle4Avx2(src, j, ne) ==
  LET x == Zips(8, 2, Zips(4, 1, Registers(4, LAMBDA k : Quads(Load(src, 4 * j + 32 * k, 32)))))
  IN Planes(j, ne, Registers(4, LAMBDA k : Permute(4, x[k], <<0, 4, 1, 5, 2, 6, 3, 7>>)))

Shuffle8Avx2(src, j, ne) ==
  LET x == Zips(8, 4, Zips(4, 2, Zips(2, 1,
             Registers(8, LAMBDA k : Octets(Load(src, 8 * j + 32 * k, 32))))))
  IN Planes(j, ne, Registers(8, LAMBDA k :
       ZipUnits(2, 0, Permute4x64(x[k], \hD8), Permute4x64(x[k], \h72))))

(* The last stage of shuffle16, with its shmask. *)
Interleave16(v) ==
  ShuffleLanes(1, Permute4x64(v, \hD8), <<0, 8, 1, 9, 2, 10, 3, 11, 4, 12, 5, 13, 6, 14, 7, 15>>)

Shuffle16Avx2(src, j, ne) ==
  LET x == Transpose16(LoadRows(src, 16 * j, 32, 16, 32))
  IN Planes(j, ne, Registers(16, LAMBDA k : Interleave16(x[k])))

Shuffle16TiledAvx2(src, j, ne, ts) ==
  FlattenSeq([t \in DOMAIN TileOffsets(ts) |->
    LET off == TileOffsets(ts)[t]
        Row(k) == Store(Load(src, off + (j + 2 * k) * ts, 16), 16,
                        Load(src, off + (j + 2 * k + 1) * ts, 16))
        x == Transpose16(Registers(16, Row))
    IN Planes(j + ne * off, ne, Registers(16, LAMBDA k : Interleave16(x[k])))])

Unshuffle2Avx2(src, j, ne) ==
  Rows(2 * j, 32, <<0, 1>>,
       ZipHalves(1, Registers(2, LAMBDA k : Permute4x64(Load(src, j + k * ne, 32), \hD8))))

Unshuffle4Avx2(src, j, ne) ==
  LET x == ZipHalves(2, ZipHalves(1, LoadPlanes(src, j, ne, 4, 32)))
  IN Rows(4 * j, 32, <<0, 1, 2, 3>>,
          Registers(4, LAMBDA k : Lanes2x128(k \div 2, x[k % 2], x[2 + (k % 2)])))

Unshuffle8Avx2(src, j, ne) ==
  LET x == ZipHalves(2, ZipHalves(1, LoadPlanes(src, j, ne, 8, 32)))
  IN Rows(8 * j, 32, <<0, 2, 1, 3, 4, 6, 5, 7>>,
          ZipHalves(4, Registers(8, LAMBDA k : Permute4x64(x[k], \hD8))))

JoinLanes(x) == Registers(16, LAMBDA k : Lanes2x128(k \div 8, x[k % 8], x[8 + (k % 8)]))
OrderLanes == <<0, 4, 2, 6, 1, 5, 3, 7, 8, 12, 10, 14, 9, 13, 11, 15>>

Unshuffle16Avx2(src, j, ne) ==
  Rows(16 * j, 32, OrderLanes, JoinLanes(Untranspose16(LoadPlanes(src, j, ne, 16, 32))))

Unshuffle12Avx2(src, j, ne) ==
  LET x == JoinLanes(Untranspose16(ZeroPadded(src, j, ne, 32)))
      y == Registers(16, LAMBDA k : Permute(4, x[k], <<0, 1, 2, 4, 5, 6, 0, 0>>))
  IN Masked(Rows(12 * j, 24, OrderLanes, y), 24)

(* storeu2: the two lanes of a register are two elements. *)
Unshuffle16TiledAvx2(src, j, ne, ts, off) ==
  LET x == JoinLanes(Untranspose16(LoadPlanes(src, j + ne * off, ne, 16, 32)))
      Element(e) == Load(x[OrderLanes[1 + e \div 2]], 16 * (e % 2), 16)
  IN [k \in 1 .. 32 |-> At(off + (j + k - 1) * ts, Element(k - 1))]
-----------------------------------------------------------------------------
(* NEON: 16 elements a group for 2 and 4 bytes, 8 elements for 8 and 16 *)

(* vld2q, vld4q: n vectors with every n-th byte; vst2q, vst4q the reverse. *)
Deinterleave(src, a, n) ==
  Registers(n, LAMBDA k : [i \in 0 .. 15 |-> src[a + n * i + k]])
Interleaved(n, r) == [i \in 0 .. 16 * n - 1 |-> r[i % n][i \div n]]

Shuffle2Neon(src, j, ne) == Planes(j, ne, Deinterleave(src, 2 * j, 2))
Shuffle4Neon(src, j, ne) == Planes(j, ne, Deinterleave(src, 4 * j, 4))

Shuffle8Neon(src, j, ne) ==
  Planes(j, ne, Zips(4, 4, Zips(2, 2, Zips(1, 1, LoadRows(src, 8 * j, 8, 8, 8)))))
Shuffle16Neon(src, j, ne) ==
  Planes(j, ne, Zips(4, 8, Zips(2, 4, Zips(1, 2, LoadRows(src, 16 * j, 8, 16, 8)))))

Unshuffle2Neon(src, j, ne) == <<At(2 * j, Interleaved(2, LoadPlanes(src, j, ne, 2, 16)))>>
Unshuffle4Neon(src, j, ne) == <<At(4 * j, Interleaved(4, LoadPlanes(src, j, ne, 4, 16)))>>

Unshuffle8Neon(src, j, ne) ==
  Rows(8 * j, 8, <<0, 1, 2, 3, 4, 5, 6, 7>>,
       Zips(4, 4, Zips(2, 2, Zips(1, 1, LoadPlanes(src, j, ne, 8, 8)))))
Unshuffle16Neon(src, j, ne) ==
  Rows(16 * j, 8, <<0, 8, 1, 9, 2, 10, 3, 11, 4, 12, 5, 13, 6, 14, 7, 15>>,
       Zips(4, 4, Zips(2, 2, Zips(1, 1, LoadPlanes(src, j, ne, 16, 8)))))
-----------------------------------------------------------------------------
(* Altivec: 16 elements a group *)

(* transpose-altivec.h: even and odd bytes of pairs ever further apart. *)
Transpose2x16(r) == EvenOdds(1, r)
Transpose4x16(r) == EvenOdds(2, EvenOdds(1, r))
Transpose8x16(r) == EvenOdds(4, EvenOdds(2, EvenOdds(1, r)))
Transpose16x16(r) == EvenOdds(8, EvenOdds(4, EvenOdds(2, EvenOdds(1, r))))

Shuffle2Altivec(src, j, ne) == Planes(j, ne, Transpose2x16(LoadRows(src, 2 * j, 16, 2, 16)))
Shuffle4Altivec(src, j, ne) == Planes(j, ne, Transpose4x16(LoadRows(src, 4 * j, 16, 4, 16)))
Shuffle8Altivec(src, j, ne) == Planes(j, ne, Transpose8x16(LoadRows(src, 8 * j, 16, 8, 16)))
Shuffle16Altivec(src, j, ne) == Planes(j, ne, Transpose16x16(LoadRows(src, 16 * j, 16, 16, 16)))

Shuffle16TiledAltivec(src, j, ne, ts) ==
  FlattenSeq([t \in DOMAIN TileOffsets(ts) |->
    LET off == TileOffsets(ts)[t] IN
    Planes(j + ne * off, ne, Transpose16x16(LoadRows(src, off + j * ts, ts, 16, 16)))])

Unshuffle2Altivec(src, j, ne) ==
  Rows(2 * j, 16, <<0, 1>>, ZipHalves(1, LoadPlanes(src, j, ne, 2, 16)))
Unshuffle4Altivec(src, j, ne) ==
  Rows(4 * j, 16, <<0, 2, 1, 3>>, ZipHalves(2, ZipHalves(1, LoadPlanes(src, j, ne, 4, 16))))
Unshuffle8Altivec(src, j, ne) ==
  Rows(8 * j, 16, <<0, 4, 2, 6, 1, 5, 3, 7>>,
       ZipHalves(4, ZipHalves(2, ZipHalves(1, LoadPlanes(src, j, ne, 8, 16)))))

(* vec_st instead of vec_xst: dest is taken to be aligned. *)
Unshuffle16Altivec(src, j, ne) ==
  Rows(16 * j, 16, [k \in 1 .. 16 |-> k - 1], Transpose16x16(LoadPlanes(src, j, ne, 16, 16)))

Unshuffle16TiledAltivec(src, j, ne, ts, off) ==
  Rows(off + j * ts, ts, [k \in 1 .. 16 |-> k - 1],
       Transpose16x16(LoadPlanes(src, j + ne * off, ne, 16, 16)))
-----------------------------------------------------------------------------
(* The drivers.  Elements per group of a kernel, 0 where there is none:    *)
(* the type sizes 2, 4, 8 and 16, 12 for the x86 unshuffles, and the tiled *)
(* kernels above 16.                                                       *)
Group(isa, ts) ==
  CASE isa = "neon" -> IF ts \in {2, 4} THEN 16 ELSE IF ts \in {8, 16} THEN 8 ELSE 0
    [] isa = "sse2" \/ isa = "altivec" -> 16
    [] isa = "avx2" -> 32
    [] isa = "generic" -> 0

(* The switches of shuffle_sse2 and unshuffle_sse2. *)
ShuffleSse2(ts, src, j, ne) ==
  CASE ts = 2 -> Shuffle2Sse2(src, j, ne)
    [] ts = 4 -> Shuffle4Sse2(src, j, ne)
    [] ts = 8 -> Shuffle8Sse2(src, j, ne)
    [] ts = 16 -> Shuffle16Sse2(src, j, ne)
    [] ts > 16 -> Shuffle16TiledSse2(src, j, ne, ts)
UnshuffleSse2(ts, src, j, ne, off) ==
  CASE ts = 2 -> Unshuffle2Sse2(src, j, ne)
    [] ts = 4 -> Unshuffle4Sse2(src, j, ne)
    [] ts = 8 -> Unshuffle8Sse2(src, j, ne)
    [] ts = 12 -> Unshuffle12Sse2(src, j, ne)
    [] ts = 16 -> Unshuffle16Sse2(src, j, ne)
    [] ts > 16 -> Unshuffle16TiledSse2(src, j, ne, ts, off)

(* The switches of shuffle_avx2 and unshuffle_avx2. *)
ShuffleAvx2(ts, src, j, ne) ==
  CASE ts = 2 -> Shuffle2Avx2(src, j, ne)
    [] ts = 4 -> Shuffle4Avx2(src, j, ne)
    [] ts = 8 -> Shuffle8Avx2(src, j, ne)
    [] ts = 16 -> Shuffle16Avx2(src, j, ne)
    [] ts > 16 -> Shuffle16TiledAvx2(src, j, ne, ts)
UnshuffleAvx2(ts, src, j, ne, off) ==
  CASE ts = 2 -> Unshuffle2Avx2(src, j, ne)
    [] ts = 4 -> Unshuffle4Avx2(src, j, ne)
    [] ts = 8 -> Unshuffle8Avx2(src, j, ne)
    [] ts = 12 -> Unshuffle12Avx2(src, j, ne)
    [] ts = 16 -> Unshuffle16Avx2(src, j, ne)
    [] ts > 16 -> Unshuffle16TiledAvx2(src, j, ne, ts, off)

(* The switches of shuffle_neon and unshuffle_neon. *)
ShuffleNeon(ts, src, j, ne) ==
  CASE ts = 2 -> Shuffle2Neon(src, j, ne)
    [] ts = 4 -> Shuffle4Neon(src, j, ne)
    [] ts = 8 -> Shuffle8Neon(src, j, ne)
    [] ts = 16 -> Shuffle16Neon(src, j, ne)
UnshuffleNeon(ts, src, j, ne, off) ==
  CASE ts = 2 -> Unshuffle2Neon(src, j, ne)
    [] ts = 4 -> Unshuffle4Neon(src, j, ne)
    [] ts = 8 -> Unshuffle8Neon(src, j, ne)
    [] ts = 16 -> Unshuffle16Neon(src, j, ne)

(* The switches of shuffle_altivec and unshuffle_altivec. *)
ShuffleAltivec(ts, src, j, ne) ==
  CASE ts = 2 -> Shuffle2Altivec(src, j, ne)
    [] ts = 4 -> Shuffle4Altivec(src, j, ne)
    [] ts = 8 -> Shuffle8Altivec(src, j, ne)
    [] ts = 16 -> Shuffle16Altivec(src, j, ne)
    [] ts > 16 -> Shuffle16TiledAltivec(src, j, ne, ts)
UnshuffleAltivec(ts, src, j, ne, off) ==
  CASE ts = 2 -> Unshuffle2Altivec(src, j, ne)
    [] ts = 4 -> Unshuffle4Altivec(src, j, ne)
    [] ts = 8 -> Unshuffle8Altivec(src, j, ne)
    [] ts = 16 -> Unshuffle16Altivec(src, j, ne)
    [] ts > 16 -> Unshuffle16TiledAltivec(src, j, ne, ts, off)

ShuffleStores(isa, ts, src, j, ne) ==
  CASE isa = "sse2" -> ShuffleSse2(ts, src, j, ne)
    [] isa = "avx2" -> ShuffleAvx2(ts, src, j, ne)
    [] isa = "neon" -> ShuffleNeon(ts, src, j, ne)
    [] isa = "altivec" -> ShuffleAltivec(ts, src, j, ne)

(* The tiled unshuffles go over the block once per tile: off is the tile.  *)
UnshuffleStores(isa, ts, src, j, ne, off) ==
  CASE isa = "sse2" -> UnshuffleSse2(ts, src, j, ne, off)
    [] isa = "avx2" -> UnshuffleAvx2(ts, src, j, ne, off)
    [] isa = "neon" -> UnshuffleNeon(ts, src, j, ne, off)
    [] isa = "altivec" -> UnshuffleAltivec(ts, src, j, ne, off)

Optimised(isa, ts) ==
  IF isa = "neon" THEN ts \in {2, 4, 8, 16} ELSE ts \in {2, 4, 8, 16} \/ ts > 16
UnshuffleOptimised(isa, ts) ==
  Optimised(isa, ts) \/ (isa \in {"sse2", "avx2"} /\ ts = 12)

(* shuffle_<isa>: whole groups with the kernel, the rest with the generic  *)
(* loop; short blocks and other type sizes are generic altogether.         *)
Shuffle(isa, ts, bs, src) ==
  LET g == Group(isa, ts)
      ne == bs \div ts
      groups == IF g = 0 THEN 0 ELSE bs \div (g * ts)
      stores == FlattenSeq([k \in 1 .. groups |->
                  ShuffleStores(isa, ts, src, (k - 1) * g, ne)])
  IN IF isa = "generic" \/ ~Optimised(isa, ts) \/ groups = 0
     THEN ShuffleGeneric(ts, 0, bs, src, Empty)
     ELSE IF groups * g * ts < bs
     THEN ShuffleGeneric(ts, groups * g, bs, src, StoreAll(Empty, stores))
     ELSE StoreAll(Empty, stores)

Unshuffle(isa, ts, bs, src) ==
  LET g == Group(isa, ts)
      ne == bs \div ts
      groups == IF g = 0 THEN 0 ELSE bs \div (g * ts)
      tiles == IF ts > 16 THEN TileOffsets(ts) ELSE <<0>>
      stores == FlattenSeq([k \in 1 .. groups * Len(tiles) |->
                  UnshuffleStores(isa, ts, src, ((k - 1) % groups) * g, ne,
                                  tiles[1 + (k - 1) \div groups])])
  IN IF isa = "generic" \/ ~UnshuffleOptimised(isa, ts) \/ groups = 0
     THEN UnshuffleGeneric(ts, 0, bs, src, Empty)
     ELSE IF groups * g * ts < bs
     THEN UnshuffleGeneric(ts, groups * g, bs, src, StoreAll(Empty, stores))
     ELSE StoreAll(Empty, stores)
=============================================================================
