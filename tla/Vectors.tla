------------------------------- MODULE Vectors -------------------------------
(***************************************************************************)
(* The vector instructions that the shuffle filters are written with.      *)
(* A byte is a symbol: the networks only move bytes, so following the      *)
(* index of each one through them decides the result for every input.      *)
(* Memory is a function from addresses to symbols; a vector is a function  *)
(* from 0 .. its length - 1, of 8, 16 or 32 bytes.                         *)
(***************************************************************************)
EXTENDS Integers, Sequences, FiniteSets, SequencesExt, TLC

Empty == [a \in {} |-> 0]                   \* memory nobody has written
Now(f) == f @@ Empty                        \* f, computed once and not on each use
Size(m) == Cardinality(DOMAIN m)
Lane(v) == IF Size(v) < 16 THEN Size(v) ELSE 16

(* Unaligned loads and stores.  A load outside of the buffer is an error;  *)
(* a store outside of it adds addresses that do not belong there.          *)
Load(m, a, n) == [i \in 0 .. n - 1 |-> m[a + i]]
Store(m, a, v) == [i \in a .. a + Size(v) - 1 |-> v[i - a]] @@ m
Copy(dest, src, a, n) == [i \in a .. a + n - 1 |-> src[i]] @@ dest

(* Stores in program order, done by halves: a later one wins where they    *)
(* overlap.                                                                *)
At(a, v) == [at |-> a, v |-> v]
RECURSIVE StoreAll(_, _)
StoreAll(m, stores) ==
  LET n == Len(stores) IN
  CASE n = 0 -> m
    [] n = 1 -> Store(m, stores[1].at, stores[1].v)
    [] OTHER -> StoreAll(Empty, SubSeq(stores, (n \div 2) + 1, n))
                @@ StoreAll(m, SubSeq(stores, 1, n \div 2))

(* unpacklo and unpackhi, vzip, vmrgh and vmrgl: interleave the units of w *)
(* bytes of the low (h = 0) or high (h = 1) half of each lane of a and b.  *)
ZipUnits(w, h, a, b) ==
  [i \in DOMAIN a |->
     LET p == i % Lane(a)
         from == (i - p) + h * (Lane(a) \div 2) + (p \div (2 * w)) * w + (p % w)
     IN IF (p \div w) % 2 = 0 THEN a[from] ELSE b[from]]

(* Move units of w bytes: of the whole vector (permute4x64,                *)
(* permutevar8x32), or of each lane (shuffle_epi8, _epi16, _epi32).        *)
Permute(w, v, idx) ==
  [i \in DOMAIN v |-> v[idx[1 + i \div w] * w + (i % w)]]
ShuffleLanes(w, v, idx) ==
  [i \in DOMAIN v |-> LET p == i % Lane(v) IN
     v[(i - p) + idx[1 + p \div w] * w + (p % w)]]

Imm8(n) == <<n % 4, (n \div 4) % 4, (n \div 16) % 4, (n \div 64) % 4>>

ShuffleEpi32(v, imm) == ShuffleLanes(4, v, Imm8(imm))
ShuffleLoEpi16(v, imm) == ShuffleLanes(2, v, Imm8(imm) \o <<4, 5, 6, 7>>)
ShuffleHiEpi16(v, imm) ==
  ShuffleLanes(2, v, <<0, 1, 2, 3>> \o [k \in 1 .. 4 |-> 4 + Imm8(imm)[k]])
Permute4x64(v, imm) == Permute(8, v, Imm8(imm))

(* permute2x128: the low lanes of a and b (half 0), or their high ones. *)
Lanes2x128(h, a, b) ==
  [i \in DOMAIN a |-> IF i < 16 THEN a[16 * h + i] ELSE b[16 * h + i - 16]]

(* blend_epi32: the four high dwords of one, the four low of the other. *)
BlendHigh(a, b) == [i \in DOMAIN a |-> IF i < 16 THEN a[i] ELSE b[i]]

(* vec_perm with the even, or the odd, bytes of two vectors in a row. *)
EvenOdd(h, a, b) ==
  [i \in DOMAIN a |-> LET p == 2 * i + h IN IF p < 16 THEN a[p] ELSE b[p - 16]]

(* Arrays of registers, from 0.  The stages of a network take registers at *)
(* distance d in pairs: zipped into two neighbours, or zipped, or taken    *)
(* apart, in place; or take neighbours, and collect the low halves first,  *)
(* in the whole array or in each group of g registers.                     *)
PairOf(k, d) == (k \div d) * 2 * d + (k % d)
Zips(w, d, r) ==
  [k \in DOMAIN r |-> LET x == PairOf(k \div 2, d) IN ZipUnits(w, k % 2, r[x], r[x + d])]
ZipGroups(w, g, r) ==
  [k \in DOMAIN r |-> LET i == k % g x == (k - i) + 2 * (i % (g \div 2)) IN
     ZipUnits(w, i \div (g \div 2), r[x], r[x + 1])]
ZipHalves(w, r) == ZipGroups(w, Size(r), r)
EvenOdds(d, r) ==
  [k \in DOMAIN r |-> LET h == (k \div d) % 2 x == k - d * h IN
     EvenOdd(h, r[x], r[x + d])]

Zero == -1                                  \* the bit that a shift brings in

(* Vectors whose bytes are bits 0 .. 7, least significant first.  movemask *)
(* (vec_bperm with the mask for bit 7) packs the top bits, eight to a      *)
(* byte; slli_epi16(v, 1) shifts every pair of bytes, low byte first.      *)
MoveMask(v) == [k \in 0 .. (Size(v) \div 8) - 1 |-> [b \in 0 .. 7 |-> v[8 * k + b][7]]]
ShiftLeft16(v) ==
  [i \in DOMAIN v |-> [b \in 0 .. 7 |->
     IF b > 0 THEN v[i][b - 1] ELSE IF i % 2 = 1 THEN v[i - 1][7] ELSE Zero]]

Registers(n, f(_)) == [k \in 0 .. n - 1 |-> f(k)]
=============================================================================
