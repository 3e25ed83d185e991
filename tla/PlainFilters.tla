---------------------------- MODULE PlainFilters -----------------------------
(***************************************************************************)
(* The filters that compute on the elements of a block in memory order:    *)
(* delta.c, trunc-prec.c, int_trunc.c and bytedelta.c.                     *)
(* bs is the size of the block, ts the type size.  An address missing from *)
(* the domain of a result was not written.                                 *)
(***************************************************************************)
EXTENDS BitShuffle
-----------------------------------------------------------------------------
(* delta.c.  A byte is the set of the input bytes it is the exclusive or   *)
(* of.  The work is done in words: type sizes other than 1, 2, 4 and 8 go  *)
(* by eight bytes when they can and by one when they cannot.               *)

DeltaWord(ts) == IF ts \in {1, 2, 4, 8} THEN ts ELSE IF ts % 8 = 0 THEN 8 ELSE 1
DeltaEnd(ts, bs) == DeltaWord(ts) * (bs \div DeltaWord(ts))

(* Block 0 is coded against its own previous word, the other blocks        *)
(* against block 0, which is dref.                                         *)
DeltaEncoder(dref, first, bs, ts, src) ==
  LET w == DeltaWord(ts) IN
  IF first
  THEN [i \in 0 .. DeltaEnd(ts, bs) - 1 |-> IF i < w THEN dref[i] ELSE SymDiff(src[i], dref[i - w])]
  ELSE [i \in 0 .. DeltaEnd(ts, bs) - 1 |-> SymDiff(src[i], dref[i])]

(* In place: for block 0 dref is dest itself, so word i - 1 is decoded     *)
(* when word i is.                                                         *)
DeltaDecoder(dref, first, bs, ts, dest) ==
  LET w == DeltaWord(ts)
      end == DeltaEnd(ts, bs)
      decoded[i \in 0 .. end - 1] == IF i < w THEN dest[i] ELSE SymDiff(dest[i], decoded[i - w])
  IN IF first THEN Now(decoded) @@ dest
     ELSE [i \in 0 .. end - 1 |-> SymDiff(dest[i], dref[i])] @@ dest
-----------------------------------------------------------------------------
(* trunc-prec.c and int_trunc.c.  Bytes are made of bits, as in BitShuffle;*)
(* elements are little endian.                                             *)

Masked0(ts, bs, zeroed, src) ==
  [a \in 0 .. ts * (bs \div ts) - 1 |-> [b \in 0 .. 7 |->
     IF 8 * (a % ts) + b < zeroed THEN Zero ELSE src[a][b]]]

Refused == <<>>                             \* nothing is written, an error returned
BitsMantissa(ts) == IF ts = 4 THEN 23 ELSE 52
ZeroedBits(total, prec) == IF prec >= 0 THEN total - prec ELSE -prec
Magnitude(n) == IF n < 0 THEN -n ELSE n

(* truncate_precision32 and truncate_precision64. *)
MutTruncatePrecision(prec, ts, bs, src) ==
  LET m == BitsMantissa(ts) IN
  IF ts \notin {4, 8} \/ Magnitude(prec) > m THEN Refused
  ELSE Masked0(ts, bs, ZeroedBits(m, prec), src)
TruncatePrecision(prec, ts, bs, src) ==
  LET m == BitsMantissa(ts) IN
  IF ts \notin {4, 8} \/ Magnitude(prec) > m \/ ZeroedBits(m, prec) >= m THEN Refused
  ELSE Masked0(ts, bs, ZeroedBits(m, prec), src)

(* int_trunc_forward with truncate_uint8 .. truncate_uint64: the meta byte *)
(* is taken as an int8_t, and zeroed_bits is an uint8_t.                   *)
Int8(meta) == IF meta > 127 THEN meta - 256 ELSE meta
TruncateUint(ts, bs, prec, src) ==
  LET zeroed == ZeroedBits(8 * ts, prec) % 256 IN
  IF zeroed >= 8 * ts THEN Refused ELSE Masked0(ts, bs, zeroed, src)
IntTruncForward(meta, ts, bs, src) ==
  IF ts \notin {1, 2, 4, 8} THEN Refused ELSE TruncateUint(ts, bs, Int8(meta), src)
IntTruncBackward(bs, src) == Copy(Empty, src, 0, bs)
-----------------------------------------------------------------------------
(* bytedelta.c.  A byte is the sum, modulo 256, of input bytes with        *)
(* coefficients: the function from the input bytes that occur to theirs.   *)

Coefficient(x, s) == IF s \in DOMAIN x THEN x[s] ELSE 0
Linear(x, y, k) ==
  LET c(s) == (Coefficient(x, s) + k * Coefficient(y, s)) % 256
  IN Now([s \in {t \in DOMAIN x \cup DOMAIN y : c(t) # 0} |-> c(s)])
Plus(x, y) == Linear(x, y, 1)
Minus(x, y) == Linear(x, y, 255)
NoBytes == Empty

(* The instructions of the two builds with vectors, on 16 bytes. *)
SimdAdd(v, u) == Now([i \in 0 .. 15 |-> Plus(v[i], u[i])])
SimdSub(v, u) == Now([i \in 0 .. 15 |-> Minus(v[i], u[i])])
SimdConcat(hi, lo) == [i \in 0 .. 15 |-> IF i = 0 THEN lo[15] ELSE hi[i - 1]]
SimdDuplane15(v) == [i \in 0 .. 15 |-> v[15]]
(* slli_epi64 by n bytes: within each half; vextq with zero: across them.  *)
ShiftHalves(v, n) == [i \in 0 .. 15 |-> IF i % 8 >= n THEN v[i - n] ELSE NoBytes]
ShiftWhole(v, n) == [i \in 0 .. 15 |-> IF i >= n THEN v[i - n] ELSE NoBytes]
HighGets7(v) == [i \in 0 .. 15 |-> IF i < 8 THEN NoBytes ELSE v[7]]

SimdPrefixSum(build, x) ==
  LET s1 == SimdAdd(x, ShiftHalves(x, 1)) s2 == SimdAdd(s1, ShiftHalves(s1, 2))
      s4 == SimdAdd(s2, ShiftHalves(s2, 4))
      k1 == SimdAdd(x, ShiftWhole(x, 1)) k2 == SimdAdd(k1, ShiftWhole(k1, 2))
      k4 == SimdAdd(k2, ShiftWhole(k2, 4))
  IN IF build = "ssse3" THEN SimdAdd(s4, HighGets7(s4)) ELSE SimdAdd(k4, ShiftWhole(k4, 8))

(* How many bytes of a channel of n go through the vectors. *)
Vectored(build, n) == IF build = "scalar" THEN 0 ELSE 16 * (n \div 16)

(* One channel of n bytes at address a.  carry: the last byte of the       *)
(* vectors is where the scalar loop goes on (the buggy loop starts from 0).*)
DeltaChannel(build, src, a, n, carry) ==
  LET vec == Vectored(build, n)
      V(k) == IF k < 0 THEN [i \in 0 .. 15 |-> NoBytes] ELSE Load(src, a + 16 * k, 16)
      vectors == Now([k \in 0 .. (vec \div 16) - 1 |-> SimdSub(V(k), SimdConcat(V(k), V(k - 1)))])
      Prev(i) == IF i = 0 \/ (i = vec /\ ~carry) THEN NoBytes ELSE src[a + i - 1]
  IN [i \in 0 .. n - 1 |-> IF i < vec THEN vectors[i \div 16][i % 16] ELSE Minus(src[a + i], Prev(i))]

UndeltaChannel(build, src, a, n, carry) ==
  LET vec == Vectored(build, n)
      sums[k \in -1 .. (vec \div 16) - 1] ==
        IF k < 0 THEN [i \in 0 .. 15 |-> NoBytes]
        ELSE SimdAdd(SimdPrefixSum(build, Load(src, a + 16 * k, 16)), SimdDuplane15(sums[k - 1]))
      vectors == Now(sums)
      last == IF vec = 0 \/ ~carry THEN NoBytes ELSE vectors[(vec \div 16) - 1][15]
      rest[i \in vec - 1 .. n - 1] == IF i = vec - 1 THEN last ELSE Plus(src[a + i], rest[i - 1])
  IN Now([i \in 0 .. vec - 1 |-> vectors[i \div 16][i % 16]]) @@ [i \in vec .. n - 1 |-> rest[i]]

Channels(ts, bs, f(_)) ==
  LET n == bs \div ts
      channel == Now([c \in 0 .. ts - 1 |-> f(c * n)])
  IN Now([a \in 0 .. ts * n - 1 |-> channel[a \div n][a % n]])

(* The type size is meta, or that of the super-chunk when meta is 0. *)
BytedeltaType(meta, ts) == IF meta = 0 THEN ts ELSE meta
CopyTail(ts, bs, src, dest) == Copy(dest, src, bs - (bs % ts), bs % ts)

BytedeltaForward(build, meta, schunkTs, bs, src) ==
  LET ts == BytedeltaType(meta, schunkTs) IN
  IF ts = 0 THEN Refused
  ELSE CopyTail(ts, bs, src, Channels(ts, bs, LAMBDA a : DeltaChannel(build, src, a, bs \div ts, TRUE)))
BytedeltaBackward(build, meta, schunkTs, bs, src) ==
  LET ts == BytedeltaType(meta, schunkTs) IN
  IF ts = 0 THEN Refused
  ELSE CopyTail(ts, bs, src, Channels(ts, bs, LAMBDA a : UndeltaChannel(build, src, a, bs \div ts, TRUE)))

(* Kept for old data: no carry into the scalar loop, no tail. *)
BytedeltaForwardBuggy(build, meta, schunkTs, bs, src) ==
  LET ts == BytedeltaType(meta, schunkTs) IN
  IF ts = 0 THEN Refused ELSE Channels(ts, bs, LAMBDA a : DeltaChannel(build, src, a, bs \div ts, FALSE))
BytedeltaBackwardBuggy(build, meta, schunkTs, bs, src) ==
  LET ts == BytedeltaType(meta, schunkTs) IN
  IF ts = 0 THEN Refused ELSE Channels(ts, bs, LAMBDA a : UndeltaChannel(build, src, a, bs \div ts, FALSE))
=============================================================================
