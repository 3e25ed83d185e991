-------------------------- MODULE GrowthSwmrProofs ---------------------------
(***************************************************************************)
(* The proofs about GrowthSwmr: for any grid, any axis and any number of   *)
(* operations the shape on disk is backed by chunks between any two        *)
(* writes; and when the array grows along its first axis, a reader gets    *)
(* the chunks of the places it asks for.                                   *)
(*                                                                         *)
(* The invariant has two layers.  GrowthInv says that the writes that are  *)
(* pending fit one after the other into the file and lead to the frame     *)
(* that the writer sees.  PlaceInv, for the first axis, says that every    *)
(* index there is, in the file, among the pending writes or in the cache   *)
(* of the reader, agrees with that of the writer on the chunks it has.     *)
(***************************************************************************)
EXTENDS GrowthSwmr, NdIndexProofs

(***************************************************************************)
(* The sets of the state.                                                  *)
(***************************************************************************)
Shape == {s \in Seq(Nat) : DifferAt(InitShape, s, Axis) /\ s[Axis] > 0}
PlaceSet == {UnidimToMultidim(p[1], p[2]) : p \in Shape \X Nat}
Entry == Nat \cup {Zeros}
HeaderSet == {h \in [len : Nat, n : Nat, cbytes : Nat, shape : Shape] :
                h.len = h.cbytes + h.n + 1 /\ NdSize(h.shape) <= h.n}
Cell == [kind : {"data"}, place : PlaceSet]
        \cup [kind : {"index"}, i : Nat, entries : Seq(Entry)]
        \cup [kind : {"trailer"}]
Write == [to : {"body"}, at : Nat, cells : Seq(Cell)]
         \cup [to : {"header"}, header : HeaderSet]
         \cup [to : {"len"}, len : Nat]
File == [header : HeaderSet, cells : Seq(Cell)]
(* A frame of the writer: its chunks are in its cells, one of them is not  *)
(* zeros, and there is a chunk for every place of its shape.               *)
Frame == {w \in [entries : Seq(Entry), cbytes : Nat, shape : Shape] :
            /\ \A k \in 1 .. Len(w.entries) : w.entries[k] # Zeros => w.entries[k] \in 1 .. w.cbytes
            /\ \E k \in 1 .. Len(w.entries) : w.entries[k] # Zeros
            /\ NdSize(w.shape) <= Len(w.entries)}
Reader == [pc : {"idle", "trailer", "metas", "vlmetas", "geometry", "ready", "index", "chunk"},
           hdr : HeaderSet, after : {"geometry", "index"}, force : BOOLEAN, tries : 0 .. MaxAttempts,
           len : Nat, oldLen : Nat, n : Nat, metas : Shape, vlmetas : BOOLEAN, newer : BOOLEAN,
           shape : Shape, index : Seq(Entry) \cup {None}, want : PlaceSet, nchunk : Nat,
           got : [place : PlaceSet, chunk : PlaceSet \cup {Zeros, Error}]]

-----------------------------------------------------------------------------
(***************************************************************************)
(* Writes that follow each other: each begins within the file or right     *)
(* behind it, and the length written last is that of the header.           *)
(***************************************************************************)
Shadow == [size : Nat, header : HeaderSet]
ShadowOf(f) == [size |-> Len(f.cells), header |-> f.header]
Settled(w) == [size |-> FrameLen(w), header |-> HeaderOf(w)]

Longer(a, b) == IF a > b THEN a ELSE b
Fits(st, wr) ==
  /\ wr.to = "body" => wr.at \in 1 .. st.size + 1
  /\ wr.to = "len" => wr.len <= st.size /\ wr.len = st.header.len
After(st, wr) ==
  IF wr.to = "body" THEN [size |-> Longer(st.size, wr.at + Len(wr.cells) - 1), header |-> st.header]
  ELSE IF wr.to = "header" THEN [size |-> st.size, header |-> wr.header]
  ELSE [size |-> wr.len, header |-> st.header]

Lays(st, ws) ==
  /\ \A j \in 0 .. Len(ws) : st[j] \in Shadow
  /\ \A j \in 1 .. Len(ws) : Fits(st[j - 1], ws[j]) /\ st[j] = After(st[j - 1], ws[j])
Runs(ws, a, b) == \E st : Lays(st, ws) /\ st[0] = a /\ st[Len(ws)] = b

(* A write keeps a shadow one.                                             *)
LEMMA AfterShadow ==
  ASSUME NEW st \in Shadow, NEW wr \in Write, Fits(st, wr)
  PROVE  After(st, wr) \in Shadow
<1>1. st.size \in Nat /\ st.header \in HeaderSet
  BY DEF Shadow
<1>2. CASE wr \in [to : {"body"}, at : Nat, cells : Seq(Cell)]
  <2>1. wr.to = "body" /\ wr.at \in Nat /\ wr.cells \in Seq(Cell) /\ wr.at >= 1
    BY <1>1, <1>2 DEF Fits
  <2>2. Len(wr.cells) \in Nat
    BY <2>1
  <2>3. Longer(st.size, wr.at + Len(wr.cells) - 1) \in Nat
    BY <1>1, <2>1, <2>2 DEF Longer
  <2> QED BY <1>1, <2>1, <2>3 DEF After, Shadow
<1>3. CASE wr \in [to : {"header"}, header : HeaderSet]
  BY <1>1, <1>3 DEF After, Shadow
<1>4. CASE wr \in [to : {"len"}, len : Nat]
  BY <1>1, <1>4 DEF After, Shadow
<1> QED BY <1>2, <1>3, <1>4 DEF Write

(* No writes lead nowhere.                                                 *)
LEMMA RunsNone ==
  ASSUME NEW a \in Shadow
  PROVE  Runs(<<>>, a, a)
<1> DEFINE st == [j \in {0} |-> a]
<1>1. Len(<<>>) = 0 /\ 0 .. 0 = {0} /\ 1 .. 0 = {}
  OBVIOUS
<1>2. Lays(st, <<>>) /\ st[0] = a
  BY <1>1 DEF Lays
<1> QED BY <1>1, <1>2 DEF Runs

(* One write leads to what is after it.                                    *)
LEMMA RunsOne ==
  ASSUME NEW a \in Shadow, NEW wr \in Write, Fits(a, wr)
  PROVE  Runs(<<wr>>, a, After(a, wr))
<1> DEFINE st == [j \in {0, 1} |-> IF j = 0 THEN a ELSE After(a, wr)]
<1>1. Len(<<wr>>) = 1 /\ 0 .. 1 = {0, 1} /\ 1 .. 1 = {1} /\ <<wr>>[1] = wr
  OBVIOUS
<1>2. st[0] = a /\ st[1] = After(a, wr)
  OBVIOUS
<1>3. Lays(st, <<wr>>)
  <2> HIDE DEF st
  <2> QED BY <1>1, <1>2, AfterShadow DEF Lays
<1> QED BY <1>1, <1>2, <1>3 DEF Runs

(* Writes one list behind the other lead to where the second leads.        *)
LEMMA RunsConcat ==
  ASSUME NEW ws \in Seq(Write), NEW vs \in Seq(Write), NEW a, NEW b, NEW c,
         Runs(ws, a, b), Runs(vs, b, c)
  PROVE  Runs(ws \o vs, a, c)
<1> DEFINE m == Len(ws)
           n == Len(vs)
           us == ws \o vs
<1>1. m \in Nat /\ n \in Nat /\ Len(us) = m + n
      /\ \A i \in 1 .. m + n : us[i] = IF i <= m THEN ws[i] ELSE vs[i - m]
  BY ConcatProperties
<1>2. PICK f : Lays(f, ws) /\ f[0] = a /\ f[m] = b
  BY DEF Runs
<1>3. PICK g : Lays(g, vs) /\ g[0] = b /\ g[n] = c
  BY DEF Runs
<1> DEFINE st == [j \in 0 .. m + n |-> IF j <= m THEN f[j] ELSE g[j - m]]
<1>4. ASSUME NEW j \in 0 .. m + n PROVE st[j] \in Shadow
  <2>1. CASE j <= m
    <3>1. j \in 0 .. m /\ st[j] = f[j]
      BY <1>1, <2>1
    <3> QED BY <1>2, <3>1 DEF Lays
  <2>2. CASE j > m
    <3>1. j - m \in 0 .. n /\ st[j] = g[j - m]
      BY <1>1, <2>2
    <3> QED BY <1>3, <3>1 DEF Lays
  <2> QED BY <1>1, <2>1, <2>2
<1>5. ASSUME NEW j \in 1 .. m + n
      PROVE  Fits(st[j - 1], us[j]) /\ st[j] = After(st[j - 1], us[j])
  <2>1. CASE j <= m
    <3>1. j \in 1 .. m /\ st[j] = f[j] /\ st[j - 1] = f[j - 1] /\ us[j] = ws[j]
      BY <1>1, <2>1
    <3> QED BY <1>2, <3>1 DEF Lays
  <2>2. CASE j > m
    <3>1. j - m \in 1 .. n /\ st[j] = g[j - m] /\ us[j] = vs[j - m] /\ (j - m) - 1 = (j - 1) - m
      BY <1>1, <2>2
    <3>2. st[j - 1] = g[(j - m) - 1]
      <4>1. CASE j - 1 = m
        <5>1. st[j - 1] = f[m] /\ (j - m) - 1 = 0
          BY <1>1, <4>1
        <5> QED BY <5>1, <1>2, <1>3
      <4>2. CASE j - 1 # m
        BY <1>1, <2>2, <4>2, SMTT(20)
      <4> QED BY <4>1, <4>2
    <3> QED BY <1>3, <3>1, <3>2 DEF Lays
  <2> QED BY <1>1, <2>1, <2>2
<1>6. st[0] = a /\ st[m + n] = c
  <2>1. st[0] = f[0]
    BY <1>1
  <2>2. CASE n = 0
    BY <1>1, <1>2, <1>3, <2>1, <2>2
  <2>3. CASE n # 0
    BY <1>1, <1>2, <1>3, <2>1, <2>3
  <2> QED BY <2>2, <2>3
<1>7. Lays(st, us)
  <2> HIDE DEF st, us, m, n
  <2> QED BY <1>1, <1>4, <1>5 DEF Lays
<1> HIDE DEF st, us
<1> QED BY <1>1, <1>6, <1>7 DEF Runs, us

(* One more write in front.                                                *)
LEMMA RunsThen ==
  ASSUME NEW wr \in Write, NEW vs \in Seq(Write), NEW a \in Shadow, NEW c, Fits(a, wr),
         Runs(vs, After(a, wr), c)
  PROVE  <<wr>> \o vs \in Seq(Write) /\ Runs(<<wr>> \o vs, a, c)
<1> DEFINE ws == <<wr>>
           b == After(a, wr)
<1>1. ws \in Seq(Write) /\ Runs(ws, a, b) /\ Runs(vs, b, c)
  BY RunsOne
<1> HIDE DEF ws, b
<1>2. ws \o vs \in Seq(Write) /\ Runs(ws \o vs, a, c)
  BY <1>1, RunsConcat, ConcatProperties
<1> QED BY <1>2 DEF ws

(* Carrying out the first write.                                           *)
LEMMA RunsTail ==
  ASSUME NEW ws \in Seq(Write), ws # <<>>, NEW a, NEW b, Runs(ws, a, b)
  PROVE  Fits(a, Head(ws)) /\ Runs(Tail(ws), After(a, Head(ws)), b) /\ a \in Shadow
<1> DEFINE n == Len(ws)
           st == Tail(ws)
<1>1. n \in Nat \ {0} /\ Head(ws) = ws[1] /\ Len(st) = n - 1
      /\ \A j \in 1 .. n - 1 : st[j] = ws[j + 1]
  BY HeadTailProperties
<1>2. PICK f : Lays(f, ws) /\ f[0] = a /\ f[n] = b
  BY DEF Runs
<1>3. 1 \in 1 .. n /\ 0 \in 0 .. n /\ 1 - 1 = 0
  BY <1>1
<1>4. Fits(a, ws[1]) /\ f[1] = After(a, ws[1]) /\ a \in Shadow
  BY <1>2, <1>3 DEF Lays
<1> DEFINE g == [j \in 0 .. n - 1 |-> f[j + 1]]
<1>5. ASSUME NEW j \in 0 .. n - 1 PROVE g[j] \in Shadow
  <2>1. j + 1 \in 0 .. n /\ g[j] = f[j + 1]
    BY <1>1
  <2> QED BY <1>2, <2>1 DEF Lays
<1>6. ASSUME NEW j \in 1 .. n - 1 PROVE Fits(g[j - 1], st[j]) /\ g[j] = After(g[j - 1], st[j])
  <2>1. j + 1 \in 1 .. n /\ (j + 1) - 1 = j /\ g[j] = f[j + 1] /\ g[j - 1] = f[j] /\ st[j] = ws[j + 1]
    BY <1>1
  <2> QED BY <1>2, <2>1 DEF Lays
<1>7. Lays(g, st) /\ g[0] = f[1] /\ g[n - 1] = b
  <2>1. g[0] = f[1] /\ g[n - 1] = f[n]
    BY <1>1
  <2> HIDE DEF g, st, n
  <2> QED BY <1>1, <1>2, <1>5, <1>6, <2>1 DEF Lays
<1>8. Runs(st, f[1], b)
  <2> HIDE DEF g, st, n
  <2> QED BY <1>1, <1>7 DEF Runs
<1> QED BY <1>1, <1>4, <1>8

(* Two writes one behind the other are a list of two.                      *)
LEMMA Pair ==
  ASSUME NEW S, NEW x \in S, NEW y \in S
  PROVE  <<x>> \o <<y>> = <<x, y>>
<1> DEFINE f == <<x>>
           g == <<y>>
           h == <<x, y>>
           r == f \o g
<1>1. f \in Seq(S) /\ g \in Seq(S) /\ Len(f) = 1 /\ Len(g) = 1 /\ f[1] = x /\ g[1] = y
  OBVIOUS
<1>2. h \in Seq(S) /\ Len(h) = 2 /\ h[1] = x /\ h[2] = y
  OBVIOUS
<1> HIDE DEF f, g, h
<1>3. r \in Seq(S) /\ Len(r) = Len(f) + Len(g)
      /\ \A i \in 1 .. Len(f) + Len(g) : r[i] = IF i <= Len(f) THEN f[i] ELSE g[i - Len(f)]
  BY <1>1, ConcatProperties
<1> HIDE DEF r
<1>4. r[1] = x /\ r[2] = y /\ Len(r) = 2
  BY <1>1, <1>3
<1>5. \A i \in 1 .. 2 : r[i] = h[i]
  BY <1>2, <1>4
<1>6. r = h
  BY <1>2, <1>3, <1>4, <1>5, SeqEqual
<1> QED BY <1>6 DEF r, f, g, h

-----------------------------------------------------------------------------
(* Shapes.  Any two differ at most along the axis.                         *)
LEMMA ShapesDiffer ==
  ASSUME NEW s \in Shape, NEW t,
         t \in Shape \/ \E m \in Nat : t = [s EXCEPT ![Axis] = m]
  PROVE  DifferAt(s, t, Axis)
<1>1. s \in Seq(Nat) /\ Axis \in 1 .. Len(s) /\ Len(s) \in Nat
      /\ \A d \in 1 .. Len(s) : d # Axis => s[d] > 0
  BY SMTT(20) DEF Shape, DifferAt
<1>2. CASE t \in Shape
  BY <1>1, <1>2 DEF Shape, DifferAt
<1>3. ASSUME NEW m \in Nat, t = [s EXCEPT ![Axis] = m] PROVE DifferAt(s, t, Axis)
  <2>1. t \in Seq(Nat) /\ Len(t) = Len(s) /\ \A d \in 1 .. Len(s) : t[d] = IF d = Axis THEN m ELSE s[d]
    BY <1>1, <1>3
  <2> QED BY <1>1, <2>1 DEF DifferAt
<1> QED BY <1>2, <1>3

(* A resize along the axis changes nothing else of the shape.              *)
LEMMA ShapeChanged ==
  ASSUME NEW s \in Shape, NEW m \in Nat
  PROVE  LET t == [s EXCEPT ![Axis] = m] IN
         /\ t[Axis] = m /\ Len(t) = Len(s) /\ DOMAIN t = 1 .. Len(s)
         /\ m > 0 => t \in Shape
<1> DEFINE t == [s EXCEPT ![Axis] = m]
<1>1. s \in Seq(Nat) /\ Len(s) \in Nat /\ DifferAt(InitShape, s, Axis)
  BY DEF Shape
<1>2. Axis \in 1 .. Len(s) /\ Len(InitShape) = Len(s)
  BY <1>1 DEF DifferAt
<1>3. t \in Seq(Nat) /\ Len(t) = Len(s) /\ DOMAIN t = 1 .. Len(s) /\ t[Axis] = m
  BY <1>1, <1>2
<1>4. \A d \in 1 .. Len(s) : d # Axis => t[d] = s[d]
  BY <1>1, <1>2
<1>5. DifferAt(InitShape, t, Axis)
  <2> HIDE DEF t
  <2> QED BY <1>1, <1>2, <1>3, <1>4 DEF DifferAt
<1> HIDE DEF t
<1>6. /\ t[Axis] = m /\ Len(t) = Len(s) /\ DOMAIN t = 1 .. Len(s)
      /\ m > 0 => t \in Shape
  BY <1>3, <1>5 DEF Shape
<1> QED BY <1>6 DEF t

(* The first shape is one of them.                                         *)
LEMMA InitShapeIs ==
  InitShape \in Shape
<1>1. InitShape \in Seq(Nat \ {0}) /\ Axis \in DOMAIN InitShape
  BY GrowthAssumption
<1>2. InitShape \in Seq(Nat) /\ Axis \in 1 .. Len(InitShape) /\ \A d \in 1 .. Len(InitShape) : InitShape[d] > 0
  BY <1>1
<1> QED BY <1>2 DEF Shape, DifferAt

(* The size of a shape is a number, and not zero.                          *)
LEMMA SizeIs ==
  ASSUME NEW s \in Shape
  PROVE  NdSize(s) \in Nat \ {0}
<1>1. DifferAt(s, s, Axis)
  BY ShapesDiffer
<1>2. PICK before, after \in Nat \ {0} : NdSize(s) = before * (s[Axis] * after)
  BY <1>1, GridSplit
<1>3. s[Axis] \in Nat \ {0}
  BY <1>1 DEF Shape, DifferAt
<1>4. s[Axis] * after \in Nat \ {0}
  BY <1>3
<1>5. before * (s[Axis] * after) \in Nat \ {0}
  BY <1>4
<1> QED BY <1>2, <1>5

(* A position of a place is within the length of its axis.                 *)
LEMMA PositionWithin ==
  ASSUME NEW t, t \in Shape \/ \E s \in Shape, m \in Nat : t = [s EXCEPT ![Axis] = m],
         NEW d \in DOMAIN t, NEW i \in 0 .. NdSize(t) - 1, d # Axis \/ t[Axis] > 0
  PROVE  UnidimToMultidim(t, i)[d] \in 0 .. t[d] - 1
<1>1. t \in Seq(Nat) /\ Axis \in 1 .. Len(t) /\ \A e \in 1 .. Len(t) : e # Axis => t[e] > 0
  <2>1. CASE t \in Shape
    <3>1. DifferAt(t, t, Axis)
      BY <2>1, ShapesDiffer
    <3> QED BY <3>1 DEF DifferAt
  <2>2. ASSUME NEW s \in Shape, NEW m \in Nat, t = [s EXCEPT ![Axis] = m]
        PROVE  t \in Seq(Nat) /\ Axis \in 1 .. Len(t) /\ \A e \in 1 .. Len(t) : e # Axis => t[e] > 0
    <3>1. DifferAt(s, t, Axis)
      BY <2>2, ShapesDiffer
    <3> QED BY <3>1 DEF DifferAt
  <2> QED BY <2>1, <2>2
<1>2. DOMAIN t = 1 .. Len(t) /\ d \in 1 .. Len(t) /\ t[d] \in Nat
  BY <1>1
<1>3. t[d] > 0
  BY <1>1, <1>2
<1>4. CASE t[Axis] > 0
  <2>1. \A e \in 1 .. Len(t) : t[e] > 0
    BY <1>1, <1>4
  <2>2. DifferAt(t, t, d)
    BY <1>1, <1>2, <2>1 DEF DifferAt
  <2>3. UnidimToMultidim(t, i)[d] = (i % (t[d] * NdStrides(t)[d])) \div NdStrides(t)[d]
    BY <2>2, PositionOnAxis
  <2>4. NdStrides(t)[d] \in Nat \ {0}
    <3>1. PICK before, after \in Nat \ {0} : NdStrides(t)[d] = after
      BY <2>2, GridSplit
    <3> QED BY <3>1
  <2> DEFINE y == NdStrides(t)[d]
             m == t[d]
             x == i % (m * y)
  <2>5. m * y \in Nat \ {0} /\ i \in Nat
    BY <1>2, <1>3, <2>4
  <2>6. x \in Nat /\ x < m * y
    <3> HIDE DEF y, m
    <3> QED BY <2>5
  <2>7. x \div y < m /\ x \div y \in Nat
    <3>1. m \in Nat /\ y \in Nat \ {0}
      BY <1>2, <2>4
    <3> HIDE DEF x, y, m
    <3> QED BY <2>6, <3>1, DivBelow
  <2> QED BY <1>2, <2>3, <2>7
<1>5. CASE ~ (t[Axis] > 0)
  <2>1. NdSize(t) = 0
    <3>1. DifferAt(t, t, Axis)
      BY <1>1 DEF DifferAt
    <3>2. PICK before, after \in Nat \ {0} : NdSize(t) = before * (t[Axis] * after)
      BY <3>1, GridSplit
    <3>3. t[Axis] = 0
      BY <1>1, <1>5
    <3> QED BY <3>2, <3>3
  <2> QED BY <2>1
<1> QED BY <1>4, <1>5

(* The places that a resize along the axis adds or takes away: in each     *)
(* period of p chunks, those from c on.  t is the larger shape.            *)
Cut(t, m, before, p, c) ==
  /\ p \in Nat \ {0} /\ c \in 0 .. p /\ before \in Nat \ {0}
  /\ NdSize(t) = before * p /\ NdSize([t EXCEPT ![Axis] = m]) = before * c
  /\ Axis = 1 => before = 1
  /\ \A k \in 1 .. NdSize(t) :
       /\ Places(t)[k][Axis] >= m <=> (k - 1) % p >= c
       /\ (\E d \in DOMAIN t : Places(t)[k][d] >= [t EXCEPT ![Axis] = m][d]) <=> (k - 1) % p >= c

(* Any resize along the axis cuts the grid in such periods.                *)
LEMMA CutExists ==
  ASSUME NEW t \in Shape, NEW m \in 0 .. t[Axis]
  PROVE  \E before, p, c : Cut(t, m, before, p, c)
<1> DEFINE s == [t EXCEPT ![Axis] = m]
<1>1. m \in Nat /\ t[Axis] \in Nat /\ t[Axis] > 0 /\ m <= t[Axis]
  BY DEF Shape, DifferAt
<1>2. DifferAt(t, s, Axis) /\ DifferAt(t, t, Axis)
  BY <1>1, ShapesDiffer
<1>3. s[Axis] = m /\ DOMAIN s = 1 .. Len(t) /\ DOMAIN t = 1 .. Len(t) /\ Axis \in 1 .. Len(t)
  BY <1>1, <1>2, ShapeChanged DEF DifferAt
<1>4. PICK before, after \in Nat \ {0} :
         /\ NdSize(t) = before * (t[Axis] * after) /\ NdSize(s) = before * (s[Axis] * after)
         /\ NdStrides(t)[Axis] = after /\ (Axis = 1 => before = 1)
  <2> HIDE DEF s
  <2> QED BY <1>2, GridSplit
<1> DEFINE p == t[Axis] * after
           c == m * after
<1>5. p \in Nat \ {0} /\ c \in 0 .. p
  <2>1. p \in Nat \ {0} /\ c \in Nat
    BY <1>1
  <2>2. c <= p
    <3>1. \A x, y, z \in Nat : x <= y => x * z <= y * z
      OBVIOUS
    <3> QED BY <3>1, <1>1
  <2> QED BY <2>1, <2>2
<1>6. NdSize(t) \in Nat
  BY SizeIs
<1>7. ASSUME NEW k \in 1 .. NdSize(t)
      PROVE  /\ Places(t)[k] = UnidimToMultidim(t, k - 1)
             /\ Places(t)[k][Axis] >= m <=> (k - 1) % p >= c
             /\ (\E d \in DOMAIN t : Places(t)[k][d] >= s[d]) <=> (k - 1) % p >= c
  <2>1. Places(t)[k] = UnidimToMultidim(t, k - 1) /\ k - 1 \in 0 .. NdSize(t) - 1 /\ k - 1 \in Nat
    BY <1>6 DEF Places
  <2>2. UnidimToMultidim(t, k - 1)[Axis] = ((k - 1) % p) \div after
    BY <1>2, <1>4, <2>1, PositionOnAxis
  <2> DEFINE x == (k - 1) % p
  <2>3. x \in Nat
    <3> HIDE DEF p
    <3> QED BY <1>5, <2>1
  <2>4. x \div after < m <=> x < c
    <3> HIDE DEF x
    <3> QED BY <1>1, <2>3, DivBelow
  <2>5. x \div after \in Nat /\ c \in Nat
    <3>1. x \div after \in Nat
      <4> HIDE DEF x
      <4> QED BY <2>3
    <3> QED BY <3>1, <1>5
  <2>6. Places(t)[k][Axis] >= m <=> x >= c
    <3> HIDE DEF x, c
    <3> QED BY <1>1, <2>1, <2>2, <2>3, <2>4, <2>5 DEF x
  <2>7. ASSUME NEW d \in DOMAIN t, Places(t)[k][d] >= s[d] PROVE d = Axis
    <3> SUFFICES ASSUME d # Axis PROVE FALSE
      OBVIOUS
    <3>1. s[d] = t[d] /\ t[d] \in Nat
      BY <1>3 DEF Shape
    <3>2. UnidimToMultidim(t, k - 1)[d] \in 0 .. t[d] - 1
      BY <2>1, PositionWithin
    <3> QED BY <2>1, <2>7, <3>1, <3>2
  <2>8. (\E d \in DOMAIN t : Places(t)[k][d] >= s[d]) <=> Places(t)[k][Axis] >= m
    <3>1. Axis \in DOMAIN t
      BY <1>3
    <3> HIDE DEF s
    <3> QED BY <1>3, <2>7, <3>1
  <2> QED BY <2>1, <2>6, <2>8
<1>8. NdSize(t) = before * p /\ NdSize(s) = before * c
  BY <1>3, <1>4
<1>9. Cut(t, m, before, p, c)
  <2> HIDE DEF p, c
  <2> QED BY <1>4, <1>5, <1>7, <1>8 DEF Cut
<1> QED BY <1>9

-----------------------------------------------------------------------------
(***************************************************************************)
(* What an index and a cell of data have to do with the frame w of the     *)
(* writer when the array grows along the first axis.  Entry k is the chunk *)
(* of Place(k) whatever the shape; an index knows no chunk that w does not *)
(* have, and none of the first chunks is zeros.                            *)
(***************************************************************************)
Place(k) == UnidimToMultidim(InitShape, k - 1)
FirstChunks == NdSize(InitShape)

IndexOK(e, w) ==
  \A k \in 1 .. Len(e) :
    /\ e[k] # Zeros => k \in 1 .. Len(w.entries) /\ w.entries[k] = e[k]
    /\ k <= FirstChunks => e[k] # Zeros
DataOK(p, place, w) ==
  p <= w.cbytes /\ \A k \in 1 .. Len(w.entries) : w.entries[k] = p => place = Place(k)
CellOK(p, cell, w) ==
  /\ cell.kind = "data" => DataOK(p, cell.place, w)
  /\ cell.kind = "index" => IndexOK(cell.entries, w)
CellsOK(at, cells, w) == \A i \in 1 .. Len(cells) : CellOK(at + i - 1, cells[i], w)
WritesOK(ws, w) == \A j \in 1 .. Len(ws) : ws[j].to = "body" => CellsOK(ws[j].at, ws[j].cells, w)

FrameOK(w) ==
  /\ \A k, l \in 1 .. Len(w.entries) : w.entries[k] = w.entries[l] /\ w.entries[k] # Zeros => k = l
  /\ IndexOK(w.entries, w) /\ FirstChunks <= Len(w.entries)

(* Two indexes with the same chunks: they may differ in zeros at the end.  *)
SameChunks(e, f) ==
  /\ \A k \in 1 .. Len(e) : e[k] # Zeros => k \in 1 .. Len(f) /\ f[k] = e[k]
  /\ \A k \in 1 .. Len(f) : f[k] # Zeros => k \in 1 .. Len(e) /\ e[k] = f[k]

(* An index with the chunks of the writer agrees with the writer.          *)
LEMMA SameIndexOK ==
  ASSUME NEW w \in Frame, FrameOK(w), NEW e \in Seq(Entry), SameChunks(e, w.entries)
  PROVE  IndexOK(e, w)
<1>1. ASSUME NEW k \in 1 .. Len(e), k <= FirstChunks PROVE e[k] # Zeros
  <2>1. k \in 1 .. Len(w.entries)
    <3>1. FirstChunks <= Len(w.entries) /\ Len(w.entries) \in Nat /\ FirstChunks \in Nat
      BY SizeIs, InitShapeIs DEF FrameOK, Frame, FirstChunks
    <3> QED BY <1>1, <3>1
  <2>2. w.entries[k] # Zeros
    BY <1>1, <2>1 DEF FrameOK, IndexOK
  <2> QED BY <2>1, <2>2 DEF SameChunks
<1> QED BY <1>1 DEF IndexOK, SameChunks

(* Two lists of writes agree with a frame one behind the other.            *)
LEMMA WritesConcat ==
  ASSUME NEW ws \in Seq(Write), NEW vs \in Seq(Write), NEW w, WritesOK(ws, w), WritesOK(vs, w)
  PROVE  WritesOK(ws \o vs, w)
<1>1. Len(ws) \in Nat /\ Len(vs) \in Nat /\ Len(ws \o vs) = Len(ws) + Len(vs)
      /\ \A i \in 1 .. Len(ws) + Len(vs) :
           (ws \o vs)[i] = IF i <= Len(ws) THEN ws[i] ELSE vs[i - Len(ws)]
  BY ConcatProperties
<1>2. ASSUME NEW j \in 1 .. Len(ws) + Len(vs)
      PROVE  \/ j \in 1 .. Len(ws) /\ (ws \o vs)[j] = ws[j]
             \/ j - Len(ws) \in 1 .. Len(vs) /\ (ws \o vs)[j] = vs[j - Len(ws)]
  BY <1>1
<1> QED BY <1>1, <1>2 DEF WritesOK

-----------------------------------------------------------------------------
(* What every operation writes after its data brings the file to what the  *)
(* writer sees.                                                            *)
LEMMA HeaderOfIs ==
  ASSUME NEW w \in Frame
  PROVE  /\ HeaderOf(w) \in HeaderSet /\ FrameLen(w) \in Nat /\ Len(w.entries) \in Nat
         /\ w.cbytes \in Nat /\ FrameLen(w) = w.cbytes + Len(w.entries) + 1
         /\ HeaderOf(w).len = FrameLen(w) /\ Settled(w) \in Shadow
<1>1. Len(w.entries) \in Nat /\ w.cbytes \in Nat /\ w.shape \in Shape /\ NdSize(w.shape) <= Len(w.entries)
  BY DEF Frame
<1>2. FrameLen(w) \in Nat /\ FrameLen(w) = w.cbytes + Len(w.entries) + 1
  BY <1>1 DEF FrameLen
<1>3. HeaderOf(w) \in HeaderSet
  BY <1>1, <1>2 DEF HeaderOf, HeaderSet
<1>4. HeaderOf(w).len = FrameLen(w)
  BY DEF HeaderOf
<1> QED BY <1>1, <1>2, <1>3, <1>4 DEF Settled, Shadow

(* The cells of the index, one an entry, each with the whole index.        *)
LEMMA IndexCellsAre ==
  ASSUME NEW w \in Frame
  PROVE  /\ IndexCells(w.entries) \in Seq(Cell) /\ Len(IndexCells(w.entries)) = Len(w.entries)
         /\ \A i \in 1 .. Len(w.entries) :
              IndexCells(w.entries)[i] = [kind |-> "index", i |-> i, entries |-> w.entries]
<1>1. w.entries \in Seq(Entry) /\ Len(w.entries) \in Nat /\ DOMAIN w.entries = 1 .. Len(w.entries)
  BY DEF Frame
<1>2. IndexCells(w.entries) = [i \in 1 .. Len(w.entries) |-> [kind |-> "index", i |-> i, entries |-> w.entries]]
  BY <1>1 DEF IndexCells
<1>3. \A i \in 1 .. Len(w.entries) : [kind |-> "index", i |-> i, entries |-> w.entries] \in Cell
  BY <1>1 DEF Cell
<1> QED BY <1>1, <1>2, <1>3

(* The index, the header, the trailer and the length of the file lead from *)
(* any file that holds the data to what the writer sees.                   *)
LEMMA RewriteRuns ==
  ASSUME NEW w \in Frame, NEW a \in Shadow, w.cbytes <= a.size
  PROVE  Rewrite(w) \in Seq(Write) /\ Runs(Rewrite(w), a, Settled(w))
<1> DEFINE n == Len(w.entries)
           first == Body(w.cbytes + 1, IndexCells(w.entries))
           second == [to |-> "header", header |-> HeaderOf(w)]
           third == Body(FrameLen(w), <<Trailer>>)
           fourth == [to |-> "len", len |-> FrameLen(w)]
<1>1. /\ HeaderOf(w) \in HeaderSet /\ FrameLen(w) \in Nat /\ n \in Nat /\ w.cbytes \in Nat
      /\ FrameLen(w) = w.cbytes + n + 1 /\ HeaderOf(w).len = FrameLen(w)
  BY HeaderOfIs
<1>2. a.size \in Nat /\ a.header \in HeaderSet
  BY DEF Shadow
<1>3. IndexCells(w.entries) \in Seq(Cell) /\ Len(IndexCells(w.entries)) = n
  BY IndexCellsAre
<1>4. <<Trailer>> \in Seq(Cell) /\ Len(<<Trailer>>) = 1
  <2>1. Trailer \in Cell
    BY DEF Trailer, Cell
  <2> QED BY <2>1
<1>5. first \in Write /\ second \in Write /\ third \in Write /\ fourth \in Write
  <2>1. w.cbytes + 1 \in Nat
    BY <1>1
  <2> QED BY <1>1, <1>3, <1>4, <2>1 DEF Write, Body
<1> DEFINE s1 == After(a, first)
           s2 == After(s1, second)
           s3 == After(s2, third)
           s4 == After(s3, fourth)
<1>6. Fits(a, first) /\ s1.header = a.header /\ s1.size >= w.cbytes + n /\ s1.size \in Nat
  BY <1>1, <1>2, <1>3, SMTT(20) DEF Fits, After, Body, Longer
<1>7. Fits(s1, second) /\ s2.header = HeaderOf(w) /\ s2.size = s1.size
  BY DEF Fits, After
<1>8. Fits(s2, third) /\ s3.header = HeaderOf(w) /\ s3.size >= FrameLen(w) /\ s3.size \in Nat
  <2>1. third.to = "body" /\ third.at = FrameLen(w) /\ Len(third.cells) = 1
    BY <1>4 DEF Body
  <2>2. s3 = [size |-> Longer(s2.size, FrameLen(w) + 1 - 1), header |-> s2.header]
    BY <2>1 DEF After
  <2> HIDE DEF s2, s3, third, s1
  <2> QED BY <1>1, <1>6, <1>7, <2>1, <2>2 DEF Fits, Longer
<1>9. Fits(s3, fourth) /\ s4 = Settled(w)
  <2>1. fourth.to = "len" /\ fourth.len = FrameLen(w)
    OBVIOUS
  <2>2. s4 = [size |-> FrameLen(w), header |-> s3.header]
    BY <2>1 DEF After
  <2> HIDE DEF s3, s4, fourth
  <2> QED BY <1>1, <1>8, <2>1, <2>2 DEF Fits, Settled
<1>10. s1 \in Shadow /\ s2 \in Shadow /\ s3 \in Shadow
  <2> HIDE DEF first, second, third
  <2>1. s1 \in Shadow
    BY <1>5, <1>6, AfterShadow
  <2> HIDE DEF s1
  <2>2. s2 \in Shadow
    BY <1>5, <1>7, <2>1, AfterShadow
  <2> HIDE DEF s2
  <2>3. s3 \in Shadow
    BY <1>5, <1>8, <2>2, AfterShadow
  <2> QED BY <2>1, <2>2, <2>3
<1>11. Runs(<<fourth>>, s3, Settled(w)) /\ <<fourth>> \in Seq(Write)
  <2> HIDE DEF s3, fourth
  <2> QED BY <1>5, <1>9, <1>10, RunsOne
<1> DEFINE four == <<fourth>>
           three == <<third>> \o four
           two == <<second>> \o three
           one == <<first>> \o two
<1>12. Runs(three, s2, Settled(w)) /\ three \in Seq(Write)
  <2> HIDE DEF third, fourth, s2, s3, s4
  <2> QED
    <3>1. four \in Seq(Write) /\ Runs(four, After(s2, third), Settled(w))
      BY <1>11 DEF s3
    <3> HIDE DEF four
    <3> QED BY <1>5, <1>8, <1>10, <3>1, RunsThen
<1>13. Runs(two, s1, Settled(w)) /\ two \in Seq(Write)
  <2> HIDE DEF second, s1, three
  <2>1. Runs(three, After(s1, second), Settled(w))
    BY <1>12
  <2> HIDE DEF s2
  <2> QED BY <1>5, <1>7, <1>10, <1>12, <2>1, RunsThen
<1>14. Runs(one, a, Settled(w)) /\ one \in Seq(Write)
  <2> HIDE DEF first, two
  <2>1. Runs(two, After(a, first), Settled(w))
    BY <1>13
  <2> HIDE DEF s1
  <2> QED BY <1>5, <1>6, <1>13, <2>1, RunsThen
<1>15. Rewrite(w) = one
  <2>1. Rewrite(w) = <<first>> \o <<second>> \o <<third, fourth>>
    BY DEF Rewrite, UpdateHeader, UpdateTrailer
  <2>2. <<third, fourth>> = three
    <3> HIDE DEF third, fourth
    <3> QED BY <1>5, Pair
  <2>3. <<first>> \in Seq(Write) /\ <<second>> \in Seq(Write) /\ three \in Seq(Write)
    <3> HIDE DEF first, second, three
    <3> QED BY <1>5, <1>12
  <2> DEFINE f == <<first>>
             g == <<second>>
  <2>4. (f \o g) \o three = f \o (g \o three)
    <3> HIDE DEF f, g, three
    <3> QED BY <2>3, ConcatAssociative DEF f, g
  <2> HIDE DEF first, second, third, fourth
  <2> QED BY <2>1, <2>2, <2>4
<1> QED
  <2> HIDE DEF one
  <2> QED BY <1>14, <1>15

-----------------------------------------------------------------------------
(***************************************************************************)
(* Frame w follows v: no chunk of v is lost, and the cells that v had are  *)
(* of the same chunks in w.  Then what agreed with v agrees with w.        *)
(***************************************************************************)
Follows(v, w) ==
  /\ v.cbytes <= w.cbytes
  /\ \A k \in 1 .. Len(v.entries) :
       v.entries[k] # Zeros => k \in 1 .. Len(w.entries) /\ w.entries[k] = v.entries[k]
  /\ \A k \in 1 .. Len(w.entries) :
       w.entries[k] \in 1 .. v.cbytes => k \in 1 .. Len(v.entries) /\ v.entries[k] = w.entries[k]

(* Frames with the same chunks in the same cells follow one another.       *)
LEMMA SameFollows ==
  ASSUME NEW v \in Frame, NEW w \in Frame, w.cbytes = v.cbytes, SameChunks(w.entries, v.entries)
  PROVE  Follows(v, w)
<1>1. v.cbytes \in Nat /\ w.cbytes \in Nat /\ Len(w.entries) \in Nat /\ Len(v.entries) \in Nat
  BY DEF Frame
<1>2. ASSUME NEW k \in 1 .. Len(w.entries), w.entries[k] \in 1 .. v.cbytes
      PROVE  k \in 1 .. Len(v.entries) /\ v.entries[k] = w.entries[k]
  <2>1. w.entries[k] # Zeros
    BY <1>1, <1>2, GrowthAssumption
  <2> QED BY <2>1 DEF SameChunks
<1> QED BY <1>1, <1>2 DEF SameChunks, Follows

(* An index that agreed with the earlier frame agrees with the later one.  *)
LEMMA IndexFollows ==
  ASSUME NEW v, NEW w, Follows(v, w), NEW e, IndexOK(e, v)
  PROVE  IndexOK(e, w)
BY DEF Follows, IndexOK

(* A list of cells that agreed with the earlier frame does with the later. *)
LEMMA CellsFollow ==
  ASSUME NEW v \in Frame, NEW w \in Frame, Follows(v, w), NEW at \in Nat, NEW cells \in Seq(Cell),
         CellsOK(at, cells, v)
  PROVE  CellsOK(at, cells, w)
<1>1. v.cbytes \in Nat /\ w.cbytes \in Nat /\ v.cbytes <= w.cbytes /\ Len(w.entries) \in Nat
      /\ Len(v.entries) \in Nat
  BY DEF Frame, Follows
<1>2. ASSUME NEW p \in Nat, NEW place, DataOK(p, place, v) PROVE DataOK(p, place, w)
  <2>1. p <= v.cbytes /\ p <= w.cbytes
    BY <1>1, <1>2 DEF DataOK
  <2>2. ASSUME NEW k \in 1 .. Len(w.entries), w.entries[k] = p PROVE place = Place(k)
    <3>1. w.entries[k] # Zeros
      BY <2>2, GrowthAssumption
    <3>2. w.entries[k] \in 1 .. w.cbytes
      BY <3>1 DEF Frame
    <3>3. w.entries[k] \in 1 .. v.cbytes
      BY <1>1, <2>1, <2>2, <3>2
    <3>4. k \in 1 .. Len(v.entries) /\ v.entries[k] = p
      BY <2>2, <3>3 DEF Follows
    <3> QED BY <1>2, <3>4 DEF DataOK
  <2> QED BY <2>1, <2>2 DEF DataOK
<1>3. ASSUME NEW i \in 1 .. Len(cells) PROVE CellOK(at + i - 1, cells[i], w)
  <2>1. CellOK(at + i - 1, cells[i], v) /\ at + i - 1 \in Nat
    BY DEF CellsOK
  <2> QED BY <1>2, <2>1, IndexFollows DEF CellOK
<1> QED BY <1>3 DEF CellsOK

(* So does a list of writes.                                               *)
LEMMA WritesFollow ==
  ASSUME NEW v \in Frame, NEW w \in Frame, Follows(v, w), NEW ws \in Seq(Write), WritesOK(ws, v)
  PROVE  WritesOK(ws, w)
<1>1. ASSUME NEW j \in 1 .. Len(ws), ws[j].to = "body" PROVE CellsOK(ws[j].at, ws[j].cells, w)
  <2>1. ws[j] \in Write
    OBVIOUS
  <2>2. ws[j] \in [to : {"body"}, at : Nat, cells : Seq(Cell)]
    BY <1>1, <2>1 DEF Write
  <2>3. ws[j].at \in Nat /\ ws[j].cells \in Seq(Cell) /\ CellsOK(ws[j].at, ws[j].cells, v)
    BY <1>1, <2>2 DEF WritesOK
  <2> QED BY <2>3, CellsFollow
<1> QED BY <1>1 DEF WritesOK

(* The chunks of the frame stay in order.                                  *)
LEMMA SameFrameOK ==
  ASSUME NEW v \in Frame, NEW w \in Frame, FrameOK(v), SameChunks(w.entries, v.entries)
  PROVE  FrameOK(w)
<1>1. Len(w.entries) \in Nat /\ Len(v.entries) \in Nat /\ FirstChunks \in Nat \ {0}
      /\ FirstChunks <= Len(v.entries)
  BY SizeIs, InitShapeIs DEF Frame, FirstChunks, FrameOK
<1>2. ASSUME NEW k \in 1 .. Len(w.entries), NEW l \in 1 .. Len(w.entries),
             w.entries[k] = w.entries[l], w.entries[k] # Zeros
      PROVE  k = l
  <2>1. k \in 1 .. Len(v.entries) /\ v.entries[k] = w.entries[k]
        /\ l \in 1 .. Len(v.entries) /\ v.entries[l] = w.entries[l]
    BY <1>2 DEF SameChunks
  <2> QED BY <1>2, <2>1 DEF FrameOK
<1>3. ASSUME NEW k \in 1 .. FirstChunks PROVE k \in 1 .. Len(w.entries) /\ w.entries[k] # Zeros
  <2>1. k \in 1 .. Len(v.entries) /\ k <= FirstChunks
    BY <1>1
  <2>2. v.entries[k] # Zeros
    BY <2>1 DEF FrameOK, IndexOK
  <2> QED BY <2>1, <2>2 DEF SameChunks
<1>4. FirstChunks <= Len(w.entries)
  <2>1. FirstChunks \in 1 .. FirstChunks
    BY <1>1
  <2> QED BY <1>1, <1>3, <2>1
<1>5. \A k \in 1 .. Len(w.entries) : k <= FirstChunks => w.entries[k] # Zeros
  BY <1>1, <1>3
<1> QED BY <1>2, <1>4, <1>5 DEF FrameOK, IndexOK

(* A list of one write.                                                    *)
LEMMA WritesOne ==
  ASSUME NEW wr \in Write, NEW w, wr.to = "body" => CellsOK(wr.at, wr.cells, w)
  PROVE  WritesOK(<<wr>>, w) /\ <<wr>> \in Seq(Write)
<1>1. Len(<<wr>>) = 1 /\ <<wr>>[1] = wr /\ 1 .. 1 = {1}
  OBVIOUS
<1>2. <<wr>> \in Seq(Write)
  OBVIOUS
<1> DEFINE ws == <<wr>>
<1>3. Len(ws) = 1 /\ ws[1] = wr
  BY <1>1
<1> HIDE DEF ws
<1>4. WritesOK(ws, w)
  BY <1>1, <1>3 DEF WritesOK
<1> QED BY <1>2, <1>4 DEF ws

(* What follows the data of an operation agrees with a frame when the new  *)
(* index does.                                                             *)
LEMMA RewriteOK ==
  ASSUME NEW w \in Frame, NEW v, IndexOK(w.entries, v)
  PROVE  WritesOK(Rewrite(w), v)
<1> DEFINE first == Body(w.cbytes + 1, IndexCells(w.entries))
           second == [to |-> "header", header |-> HeaderOf(w)]
           third == Body(FrameLen(w), <<Trailer>>)
           fourth == [to |-> "len", len |-> FrameLen(w)]
<1>1. HeaderOf(w) \in HeaderSet /\ FrameLen(w) \in Nat /\ w.cbytes + 1 \in Nat
  BY HeaderOfIs
<1>2. IndexCells(w.entries) \in Seq(Cell) /\ Len(IndexCells(w.entries)) = Len(w.entries)
      /\ \A i \in 1 .. Len(w.entries) :
           IndexCells(w.entries)[i] = [kind |-> "index", i |-> i, entries |-> w.entries]
  BY IndexCellsAre
<1>3. Trailer \in Cell /\ <<Trailer>> \in Seq(Cell) /\ Len(<<Trailer>>) = 1 /\ <<Trailer>>[1] = Trailer
  <2>1. Trailer \in Cell
    BY DEF Trailer, Cell
  <2> QED BY <2>1
<1>4. first \in Write /\ second \in Write /\ third \in Write /\ fourth \in Write
  BY <1>1, <1>2, <1>3 DEF Write, Body
<1>5. CellsOK(w.cbytes + 1, IndexCells(w.entries), v)
  <2> DEFINE cells == IndexCells(w.entries)
  <2>1. \A i \in 1 .. Len(cells) : cells[i] = [kind |-> "index", i |-> i, entries |-> w.entries]
    BY <1>2
  <2> HIDE DEF cells
  <2>2. ASSUME NEW i \in 1 .. Len(cells) PROVE CellOK(w.cbytes + 1 + i - 1, cells[i], v)
    <3>1. cells[i] = [kind |-> "index", i |-> i, entries |-> w.entries]
      BY <2>1
    <3>2. cells[i].kind = "index" /\ cells[i].entries = w.entries
      BY <3>1
    <3> QED BY <3>2 DEF CellOK
  <2>3. CellsOK(w.cbytes + 1, cells, v)
    BY <2>2 DEF CellsOK
  <2> QED BY <2>3 DEF cells
<1>6. CellsOK(FrameLen(w), <<Trailer>>, v)
  <2> DEFINE cells == <<Trailer>>
  <2>1. Len(cells) = 1 /\ cells[1] = Trailer /\ 1 .. 1 = {1} /\ Trailer.kind = "trailer"
    BY <1>3 DEF Trailer
  <2> HIDE DEF cells
  <2>2. CellsOK(FrameLen(w), cells, v)
    BY <2>1 DEF CellsOK, CellOK
  <2> QED BY <2>2 DEF cells
<1>7. WritesOK(<<first>>, v) /\ <<first>> \in Seq(Write)
  <2>1. first.at = w.cbytes + 1 /\ first.cells = IndexCells(w.entries)
    BY DEF Body
  <2>2. CellsOK(first.at, first.cells, v)
    <3> HIDE DEF first
    <3> QED BY <1>5, <2>1
  <2> HIDE DEF first
  <2> QED BY <1>4, <2>2, WritesOne
<1>8. WritesOK(<<second>>, v) /\ <<second>> \in Seq(Write)
  <2>1. second.to # "body"
    OBVIOUS
  <2> HIDE DEF second
  <2> QED BY <1>4, <2>1, WritesOne
<1>9. WritesOK(<<third>>, v) /\ <<third>> \in Seq(Write)
  <2>1. third.to = "body" => CellsOK(third.at, third.cells, v)
    BY <1>6 DEF Body
  <2> HIDE DEF third
  <2> QED BY <1>4, <2>1, WritesOne
<1>10. WritesOK(<<fourth>>, v) /\ <<fourth>> \in Seq(Write)
  <2>1. fourth.to # "body"
    OBVIOUS
  <2> HIDE DEF fourth
  <2> QED BY <1>4, <2>1, WritesOne
<1> DEFINE f == <<first>>
           s == <<second>>
           t == <<third>>
           l == <<fourth>>
<1>11. Rewrite(w) = f \o s \o (t \o l)
  <2>1. Rewrite(w) = f \o s \o <<third, fourth>>
    BY DEF Rewrite, UpdateHeader, UpdateTrailer
  <2>2. <<third, fourth>> = t \o l
    <3> HIDE DEF third, fourth
    <3> QED BY <1>4, Pair
  <2> QED BY <2>1, <2>2
<1>12. f \in Seq(Write) /\ s \in Seq(Write) /\ t \in Seq(Write) /\ l \in Seq(Write)
       /\ WritesOK(f, v) /\ WritesOK(s, v) /\ WritesOK(t, v) /\ WritesOK(l, v)
  BY <1>7, <1>8, <1>9, <1>10
<1> HIDE DEF f, s, t, l
<1>13. f \o s \in Seq(Write) /\ WritesOK(f \o s, v) /\ t \o l \in Seq(Write) /\ WritesOK(t \o l, v)
  BY <1>12, WritesConcat, ConcatProperties
<1> QED BY <1>11, <1>13, WritesConcat

(***************************************************************************)
(* A frame on the way of an operation that began with w0: what is to be    *)
(* written leads from w0 to it; no chunk comes or goes, and along the      *)
(* first axis the writes agree with w0.                                    *)
(***************************************************************************)
Build(w0) ==
  {t \in [w : Frame, writes : Seq(Write)] :
     /\ t.w.cbytes = w0.cbytes
     /\ Runs(t.writes, Settled(w0), Settled(t.w))
     /\ Axis = 1 /\ FrameOK(w0) => SameChunks(t.w.entries, w0.entries) /\ WritesOK(t.writes, w0)}

(* Nothing is written yet.                                                 *)
LEMMA BuildStart ==
  ASSUME NEW w \in Frame
  PROVE  [w |-> w, writes |-> <<>>] \in Build(w)
<1>1. Runs(<<>>, Settled(w), Settled(w))
  BY HeaderOfIs, RunsNone
<1>2. SameChunks(w.entries, w.entries)
  BY DEF SameChunks
<1>3. WritesOK(<<>>, w) /\ <<>> \in Seq(Write)
  BY DEF WritesOK
<1> QED BY <1>1, <1>2, <1>3 DEF Build

(* One more change of the index, written whole.                            *)
LEMMA BuildRewrite ==
  ASSUME NEW w0 \in Frame, NEW t \in Build(w0), NEW w \in Frame, w.cbytes = w0.cbytes,
         Axis = 1 /\ FrameOK(w0) => SameChunks(w.entries, w0.entries)
  PROVE  Does(t, w, Rewrite(w)) \in Build(w0)
<1>1. /\ t.w \in Frame /\ t.writes \in Seq(Write) /\ t.w.cbytes = w0.cbytes
      /\ Runs(t.writes, Settled(w0), Settled(t.w))
      /\ Axis = 1 /\ FrameOK(w0) => WritesOK(t.writes, w0)
  BY DEF Build
<1>2. Settled(t.w) \in Shadow /\ w.cbytes <= Settled(t.w).size
  BY <1>1, HeaderOfIs DEF Settled
<1>3. Rewrite(w) \in Seq(Write) /\ Runs(Rewrite(w), Settled(t.w), Settled(w))
  BY <1>2, RewriteRuns
<1> DEFINE ws == t.writes \o Rewrite(w)
<1>4. ws \in Seq(Write)
  BY <1>1, <1>3, ConcatProperties
<1>5. Runs(ws, Settled(w0), Settled(w))
  <2> DEFINE a == Settled(w0)
             b == Settled(t.w)
             c == Settled(w)
             vs == t.writes
             us == Rewrite(w)
  <2>1. vs \in Seq(Write) /\ us \in Seq(Write) /\ Runs(vs, a, b) /\ Runs(us, b, c)
    BY <1>1, <1>3
  <2> HIDE DEF a, b, c, vs, us
  <2>2. Runs(vs \o us, a, c)
    BY <2>1, RunsConcat
  <2> QED BY <2>2 DEF a, b, c, vs, us
<1>6. ASSUME Axis = 1, FrameOK(w0) PROVE WritesOK(ws, w0)
  <2>1. w.entries \in Seq(Entry) /\ SameChunks(w.entries, w0.entries)
    BY <1>6 DEF Frame
  <2>2. IndexOK(w.entries, w0)
    BY <1>6, <2>1, SameIndexOK
  <2>3. WritesOK(Rewrite(w), w0) /\ WritesOK(t.writes, w0)
    BY <1>1, <1>6, <2>2, RewriteOK
  <2> QED BY <1>1, <1>3, <2>3, WritesConcat
<1> HIDE DEF ws
<1>7. [w |-> w, writes |-> ws] \in Build(w0)
  BY <1>4, <1>5, <1>6 DEF Build
<1> QED BY <1>7 DEF Does, ws

(* A chunk of zeros more; along the first axis, at the end.                *)
LEMMA InsertBuilds ==
  ASSUME NEW w0 \in Frame, NEW t \in Build(w0), NEW k \in 1 .. Len(t.w.entries) + 1,
         Axis = 1 => k = Len(t.w.entries) + 1
  PROVE  /\ InsertChunk(t, k) \in Build(w0)
         /\ Len(InsertChunk(t, k).w.entries) = Len(t.w.entries) + 1
         /\ InsertChunk(t, k).w.shape = t.w.shape
<1> DEFINE e == t.w.entries
           n == Len(e)
           x == InsertAt(e, k, Zeros)
           w == [t.w EXCEPT !.entries = x]
<1>1. /\ t.w \in Frame /\ t.w.cbytes = w0.cbytes
      /\ Axis = 1 /\ FrameOK(w0) => SameChunks(e, w0.entries)
  BY DEF Build
<1>2. /\ t.w \in [entries : Seq(Entry), cbytes : Nat, shape : Shape]
      /\ \A j \in 1 .. n : e[j] # Zeros => e[j] \in 1 .. t.w.cbytes
      /\ \E j \in 1 .. n : e[j] # Zeros
      /\ NdSize(t.w.shape) <= n
  BY <1>1 DEF Frame
<1>3. e \in Seq(Entry) /\ n \in Nat /\ Zeros \in Entry /\ NdSize(t.w.shape) \in Nat
  BY <1>2, SizeIs DEF Entry
<1>4. /\ x \in Seq(Entry) /\ Len(x) = n + 1
      /\ \A j \in 1 .. n + 1 : x[j] = IF j < k THEN e[j] ELSE IF j = k THEN Zeros ELSE e[j - 1]
  <2>1. e \in Seq(Entry) /\ k \in 1 .. Len(e) + 1 /\ Zeros \in Entry
    BY <1>3
  <2> HIDE DEF e
  <2>2. n = Len(e)
    OBVIOUS
  <2> QED BY <2>1, <2>2, Inserted
<1>5. /\ w.entries = x /\ w.cbytes = t.w.cbytes /\ w.shape = t.w.shape
      /\ w \in [entries : Seq(Entry), cbytes : Nat, shape : Shape]
  BY <1>2, <1>4
<1>6. \A j \in 1 .. n + 1 : x[j] # Zeros => x[j] \in 1 .. t.w.cbytes
  <2> HIDE DEF x, e, n
  <2>1. ASSUME NEW j \in 1 .. n + 1, x[j] # Zeros PROVE x[j] \in 1 .. t.w.cbytes
    <3>1. CASE j < k
      <4>1. j \in 1 .. n /\ x[j] = e[j]
        BY <1>3, <1>4, <3>1 DEF e, n
      <4> QED BY <1>2, <2>1, <4>1
    <3>2. CASE j > k
      <4>1. j - 1 \in 1 .. n /\ x[j] = e[j - 1]
        BY <1>3, <1>4, <3>2
      <4> QED BY <1>2, <2>1, <4>1
    <3> QED BY <1>3, <1>4, <2>1, <3>1, <3>2
  <2> QED BY <2>1
<1>7. \E j \in 1 .. n + 1 : x[j] # Zeros
  <2>1. PICK j \in 1 .. n : e[j] # Zeros
    BY <1>2
  <2> HIDE DEF x, e, n
  <2>2. j < k => x[j] = e[j] /\ j \in 1 .. n + 1
    BY <1>3, <1>4
  <2>3. ~ (j < k) => x[j + 1] = e[j] /\ j + 1 \in 1 .. n + 1
    <3>1. ~ (j < k) => j + 1 > k /\ j + 1 \in 1 .. n + 1 /\ (j + 1) - 1 = j
      BY <1>3
    <3> QED BY <1>3, <1>4, <3>1
  <2> QED BY <2>1, <2>2, <2>3
<1>8. w \in Frame /\ Len(w.entries) = n + 1
  <2>1. NdSize(w.shape) <= n + 1
    BY <1>2, <1>3, <1>5
  <2> HIDE DEF x, e, n, w
  <2> QED BY <1>4, <1>5, <1>6, <1>7, <2>1 DEF Frame
<1>9. ASSUME Axis = 1, FrameOK(w0) PROVE SameChunks(x, w0.entries)
  <2>1. k = n + 1 /\ SameChunks(e, w0.entries) /\ Len(w0.entries) \in Nat
    BY <1>1, <1>9 DEF Frame
  <2> HIDE DEF x, e, n
  <2>2. \A j \in 1 .. n : x[j] = e[j] /\ j \in 1 .. n + 1
    BY <1>3, <1>4, <2>1
  <2>3. x[n + 1] = Zeros
    BY <1>3, <1>4, <2>1
  <2>4. ASSUME NEW j \in 1 .. Len(x), x[j] # Zeros
        PROVE  j \in 1 .. Len(w0.entries) /\ w0.entries[j] = x[j]
    <3>1. j \in 1 .. n
      BY <1>3, <1>4, <2>3, <2>4
    <3> QED BY <2>1, <2>2, <2>4, <3>1 DEF SameChunks, n
  <2>5. ASSUME NEW j \in 1 .. Len(w0.entries), w0.entries[j] # Zeros
        PROVE  j \in 1 .. Len(x) /\ x[j] = w0.entries[j]
    <3>1. j \in 1 .. n /\ e[j] = w0.entries[j]
      BY <2>1, <2>5 DEF SameChunks, n
    <3> QED BY <1>4, <2>2, <3>1
  <2> QED BY <2>4, <2>5 DEF SameChunks
<1>10. InsertChunk(t, k) = Does(t, w, Rewrite(w))
  BY DEF InsertChunk
<1>11. Does(t, w, Rewrite(w)).w = w
  BY DEF Does
<1>12. Does(t, w, Rewrite(w)) \in Build(w0)
  <2>1. w.cbytes = w0.cbytes /\ w.entries = x
    BY <1>1, <1>5
  <2> HIDE DEF w, x
  <2> QED BY <1>8, <1>9, <2>1, BuildRewrite
<1> HIDE DEF w, x
<1> QED BY <1>5, <1>8, <1>10, <1>11, <1>12

(* A chunk of zeros less; along the first axis, the last one.              *)
LEMMA DeleteBuilds ==
  ASSUME NEW w0 \in Frame, NEW t \in Build(w0), NEW k \in 1 .. Len(t.w.entries),
         t.w.entries[k] = Zeros, NdSize(t.w.shape) < Len(t.w.entries),
         Axis = 1 => k = Len(t.w.entries)
  PROVE  /\ DeleteChunk(t, k) \in Build(w0)
         /\ Len(DeleteChunk(t, k).w.entries) = Len(t.w.entries) - 1
         /\ DeleteChunk(t, k).w.shape = t.w.shape
         /\ \A j \in 1 .. k - 1 : DeleteChunk(t, k).w.entries[j] = t.w.entries[j]
<1> DEFINE e == t.w.entries
           n == Len(e)
           x == RemoveAt(e, k)
           w == [t.w EXCEPT !.entries = x]
<1>1. /\ t.w \in Frame /\ t.w.cbytes = w0.cbytes
      /\ Axis = 1 /\ FrameOK(w0) => SameChunks(e, w0.entries)
  BY DEF Build
<1>2. /\ t.w \in [entries : Seq(Entry), cbytes : Nat, shape : Shape]
      /\ \A j \in 1 .. n : e[j] # Zeros => e[j] \in 1 .. t.w.cbytes
      /\ \E j \in 1 .. n : e[j] # Zeros
  BY <1>1 DEF Frame
<1>3. e \in Seq(Entry) /\ n \in Nat /\ Zeros \in Entry /\ NdSize(t.w.shape) \in Nat
  BY <1>2, SizeIs DEF Entry
<1>4. /\ x \in Seq(Entry) /\ Len(x) = n - 1
      /\ \A j \in 1 .. n - 1 : x[j] = IF j < k THEN e[j] ELSE e[j + 1]
  <2>1. e \in Seq(Entry) /\ k \in 1 .. Len(e) /\ Zeros \in Entry
    BY <1>3
  <2> HIDE DEF e
  <2>2. n = Len(e)
    OBVIOUS
  <2> QED BY <2>1, <2>2, Removed
<1>5. /\ w.entries = x /\ w.cbytes = t.w.cbytes /\ w.shape = t.w.shape
      /\ w \in [entries : Seq(Entry), cbytes : Nat, shape : Shape]
  BY <1>2, <1>4
<1>6. \A j \in 1 .. n - 1 : x[j] # Zeros => x[j] \in 1 .. t.w.cbytes
  <2> HIDE DEF x, e, n
  <2>1. ASSUME NEW j \in 1 .. n - 1, x[j] # Zeros PROVE x[j] \in 1 .. t.w.cbytes
    <3>1. j \in 1 .. n /\ j + 1 \in 1 .. n /\ x[j] \in {e[j], e[j + 1]}
      BY <1>3, <1>4
    <3> QED BY <1>2, <2>1, <3>1
  <2> QED BY <2>1
<1>7. \E j \in 1 .. n - 1 : x[j] # Zeros
  <2>1. PICK j \in 1 .. n : e[j] # Zeros
    BY <1>2
  <2>2. j # k
    BY <2>1
  <2> HIDE DEF x, e, n
  <2>3. k \in 1 .. n
    BY DEF n, e
  <2>4. j < k => x[j] = e[j] /\ j \in 1 .. n - 1
    BY <1>3, <1>4, <2>3
  <2>5. ~ (j < k) => x[j - 1] = e[j] /\ j - 1 \in 1 .. n - 1
    <3>1. ~ (j < k) => j - 1 >= k /\ j - 1 \in 1 .. n - 1 /\ (j - 1) + 1 = j
      BY <1>3, <2>2, <2>3
    <3> QED BY <1>3, <1>4, <2>3, <3>1
  <2> QED BY <2>1, <2>4, <2>5
<1>8. w \in Frame /\ Len(w.entries) = n - 1
  <2>1. NdSize(w.shape) <= n - 1
    BY <1>3, <1>5
  <2> HIDE DEF x, e, n, w
  <2> QED BY <1>4, <1>5, <1>6, <1>7, <2>1 DEF Frame
<1>9. ASSUME Axis = 1, FrameOK(w0) PROVE SameChunks(x, w0.entries)
  <2>1. k = n /\ SameChunks(e, w0.entries) /\ Len(w0.entries) \in Nat /\ e[n] = Zeros
    BY <1>1, <1>9 DEF Frame
  <2> HIDE DEF x, e, n
  <2>2. \A j \in 1 .. n - 1 : x[j] = e[j] /\ j \in 1 .. n
    BY <1>3, <1>4, <2>1
  <2>3. ASSUME NEW j \in 1 .. Len(x), x[j] # Zeros
        PROVE  j \in 1 .. Len(w0.entries) /\ w0.entries[j] = x[j]
    BY <1>4, <2>1, <2>2, <2>3 DEF SameChunks, n
  <2>4. ASSUME NEW j \in 1 .. Len(w0.entries), w0.entries[j] # Zeros
        PROVE  j \in 1 .. Len(x) /\ x[j] = w0.entries[j]
    <3>1. j \in 1 .. n /\ e[j] = w0.entries[j]
      BY <2>1, <2>4 DEF SameChunks, n
    <3>2. j \in 1 .. n - 1
      BY <1>3, <2>1, <2>4, <3>1
    <3> QED BY <1>4, <2>2, <3>1, <3>2
  <2> QED BY <2>3, <2>4 DEF SameChunks
<1>10. DeleteChunk(t, k) = Does(t, w, Rewrite(w))
  BY DEF DeleteChunk
<1>11. Does(t, w, Rewrite(w)).w = w
  BY DEF Does
<1>12. Does(t, w, Rewrite(w)) \in Build(w0)
  <2>1. w.cbytes = w0.cbytes /\ w.entries = x
    BY <1>1, <1>5
  <2> HIDE DEF w, x
  <2> QED BY <1>8, <1>9, <2>1, BuildRewrite
<1>13. \A j \in 1 .. k - 1 : x[j] = e[j]
  <2> HIDE DEF x, e, n
  <2> QED BY <1>3, <1>4, SMTT(20) DEF n, e
<1> HIDE DEF w, x
<1> QED BY <1>5, <1>8, <1>10, <1>11, <1>12, <1>13

(* The shape is written when there is a chunk for each of its places.      *)
LEMMA PublishBuilds ==
  ASSUME NEW w0 \in Frame, NEW t \in Build(w0), NEW s \in Shape, NdSize(s) <= Len(t.w.entries)
  PROVE  /\ PublishShape(t, s) \in Build(w0)
         /\ PublishShape(t, s).w.entries = t.w.entries /\ PublishShape(t, s).w.shape = s
<1> DEFINE w == [t.w EXCEPT !.shape = s]
           ws == t.writes \o UpdateHeader(w)
<1>1. /\ t.w \in Frame /\ t.writes \in Seq(Write) /\ t.w.cbytes = w0.cbytes
      /\ Runs(t.writes, Settled(w0), Settled(t.w))
      /\ Axis = 1 /\ FrameOK(w0) => SameChunks(t.w.entries, w0.entries) /\ WritesOK(t.writes, w0)
  BY DEF Build
<1>2. /\ w.entries = t.w.entries /\ w.cbytes = t.w.cbytes /\ w.shape = s
      /\ w \in [entries : Seq(Entry), cbytes : Nat, shape : Shape]
  BY <1>1 DEF Frame
<1>3. w \in Frame
  <2> HIDE DEF w
  <2> QED BY <1>1, <1>2 DEF Frame
<1> DEFINE wr == [to |-> "header", header |-> HeaderOf(w)]
           a == Settled(t.w)
<1>4. a \in Shadow /\ wr \in Write /\ Fits(a, wr) /\ After(a, wr) = Settled(w)
  <2>1. a \in Shadow /\ HeaderOf(w) \in HeaderSet
    BY <1>1, <1>3, HeaderOfIs
  <2>2. wr \in Write
    BY <2>1 DEF Write
  <2>3. a.size = FrameLen(w)
    BY <1>2 DEF Settled, FrameLen
  <2> QED BY <2>1, <2>2, <2>3 DEF Fits, After, Settled
<1>5. UpdateHeader(w) = <<wr>>
  BY DEF UpdateHeader
<1>6. <<wr>> \in Seq(Write) /\ Runs(<<wr>>, a, Settled(w)) /\ WritesOK(<<wr>>, w0)
  <2>1. wr.to # "body"
    OBVIOUS
  <2> HIDE DEF wr, a
  <2> QED BY <1>4, <2>1, RunsOne, WritesOne
<1> DEFINE us == UpdateHeader(w)
           vs == t.writes
           b == Settled(w0)
           z == Settled(w)
<1>7. us \in Seq(Write) /\ vs \in Seq(Write) /\ Runs(us, a, z) /\ WritesOK(us, w0) /\ Runs(vs, b, a)
  BY <1>1, <1>5, <1>6
<1>8. vs \o us \in Seq(Write) /\ Runs(vs \o us, b, z)
  <2> HIDE DEF us, vs, a, b, z
  <2> QED BY <1>7, RunsConcat, ConcatProperties
<1>9. Axis = 1 /\ FrameOK(w0) => WritesOK(vs \o us, w0)
  <2> SUFFICES ASSUME Axis = 1, FrameOK(w0) PROVE WritesOK(vs \o us, w0)
    OBVIOUS
  <2>1. WritesOK(vs, w0)
    BY <1>1
  <2> HIDE DEF us, vs
  <2> QED BY <1>7, <2>1, WritesConcat
<1> DEFINE r == [w |-> w, writes |-> ws]
<1>10. r \in [w : Frame, writes : Seq(Write)] /\ r.w = w /\ r.writes = ws
  <2>1. ws \in Seq(Write)
    BY <1>8
  <2> HIDE DEF w, ws
  <2> QED BY <1>3, <2>1
<1>11. r \in Build(w0)
  <2>1. Runs(ws, Settled(w0), Settled(w)) /\ (Axis = 1 /\ FrameOK(w0) => WritesOK(ws, w0))
    BY <1>8, <1>9
  <2> HIDE DEF w, ws, r
  <2> QED BY <1>1, <1>2, <1>10, <2>1 DEF Build
<1>12. PublishShape(t, s) = r
  BY DEF PublishShape, Does
<1> HIDE DEF w, ws, r
<1> QED BY <1>2, <1>10, <1>11, <1>12

-----------------------------------------------------------------------------
(* The length of the index when the chunks of the first k places of the    *)
(* larger shape are decided on, n being the size of the smaller one.       *)
LengthAt(k, n, p, c) == n + (k - Kept(k, p, c))

Periods(before, p, c, n, N) ==
  /\ before \in Nat \ {0} /\ p \in Nat \ {0} /\ c \in 0 .. p
  /\ n = before * c /\ N = before * p /\ (Axis = 1 => before = 1)
(* From place to place the length grows by the places that are added; the  *)
(* chunk of a place is at most right behind the last one, and just there   *)
(* when the axis is the first.                                             *)
Lengths(n, N, p, c) ==
  /\ n \in Nat /\ N \in Nat /\ LengthAt(0, n, p, c) = n /\ LengthAt(N, n, p, c) = N
  /\ \A k \in 1 .. N :
       /\ k - 1 \in 0 .. N /\ k \in 0 .. N
       /\ LengthAt(k, n, p, c) = LengthAt(k - 1, n, p, c) + (IF (k - 1) % p >= c THEN 1 ELSE 0)
       /\ LengthAt(k - 1, n, p, c) \in Nat /\ n <= LengthAt(k - 1, n, p, c)
       /\ k <= LengthAt(k - 1, n, p, c) + 1
       /\ Axis = 1 /\ (k - 1) % p >= c => k = LengthAt(k - 1, n, p, c) + 1

(* The lengths grow as Lengths says.                                       *)
LEMMA LengthSteps ==
  ASSUME NEW before, NEW p, NEW c, NEW n, NEW N, Periods(before, p, c, n, N)
  PROVE  Lengths(n, N, p, c)
<1> DEFINE Length(k) == LengthAt(k, n, p, c)
<1>1. /\ before \in Nat \ {0} /\ p \in Nat \ {0} /\ c \in 0 .. p
      /\ n = before * c /\ N = before * p /\ (Axis = 1 => before = 1)
  BY DEF Periods
<1>2. n \in Nat /\ N \in Nat /\ c \in Nat
  BY <1>1
<1>3. Kept(0, p, c) = 0 /\ Kept(N, p, c) = n
  BY <1>1, <1>2, KeptEnds
<1>4. Length(0) = n /\ Length(N) = N
  BY <1>2, <1>3 DEF LengthAt
<1>5. ASSUME NEW k \in 1 .. N
      PROVE  /\ k - 1 \in 0 .. N /\ k \in 0 .. N
             /\ Length(k) = Length(k - 1) + (IF (k - 1) % p >= c THEN 1 ELSE 0)
             /\ Length(k - 1) \in Nat /\ n <= Length(k - 1) /\ k <= Length(k - 1) + 1
             /\ Axis = 1 /\ (k - 1) % p >= c => k = Length(k - 1) + 1
  <2>1. k - 1 \in Nat /\ k - 1 \in 0 .. N /\ k \in 0 .. N /\ (k - 1) + 1 = k
    BY <1>2
  <2>2. /\ Kept(k, p, c) = Kept(k - 1, p, c) + (IF (k - 1) % p < c THEN 1 ELSE 0)
        /\ Kept(k - 1, p, c) \in Nat /\ Kept(k, p, c) \in Nat
    <3> DEFINE i == k - 1
    <3>1. i \in Nat /\ i + 1 = k
      BY <2>1
    <3> HIDE DEF i
    <3>2. /\ Kept(i + 1, p, c) = Kept(i, p, c) + (IF i % p < c THEN 1 ELSE 0)
          /\ Kept(i, p, c) \in Nat /\ Kept(i + 1, p, c) \in Nat
      BY <1>1, <3>1, KeptStep
    <3> QED BY <3>1, <3>2 DEF i
  <2>3. Kept(k - 1, p, c) <= n /\ Kept(k - 1, p, c) <= k - 1
    <3>1. Kept(k - 1, p, c) <= Kept(N, p, c)
      BY <1>1, <1>2, <2>1, KeptGrows
    <3> QED BY <1>1, <1>3, <2>1, <3>1, KeptBelow
  <2>4. (k - 1) % p \in Nat
    BY <1>1, <2>1
  <2>5. ASSUME Axis = 1, (k - 1) % p >= c PROVE k = Length(k - 1) + 1
    <3>1. before = 1 /\ N = p /\ n = c
      <4>1. 1 * p = p /\ 1 * c = c
        BY <1>1, <1>2
      <4> QED BY <1>1, <2>5, <4>1
    <3>2. k - 1 < p
      BY <1>2, <3>1
    <3>3. (k - 1) \div p = 0 /\ (k - 1) % p = k - 1
      BY <1>1, <2>1, <3>2
    <3>4. 0 * c = 0
      BY <1>2
    <3>5. Kept(k - 1, p, c) = c
      BY <1>1, <1>2, <2>1, <2>5, <3>3, <3>4 DEF Kept
    <3> QED BY <1>1, <1>2, <2>1, <3>1, <3>5 DEF LengthAt
  <2> HIDE DEF Length
  <2>6. Length(k) = n + (k - Kept(k, p, c)) /\ Length(k - 1) = n + ((k - 1) - Kept(k - 1, p, c))
    BY DEF Length, LengthAt
  <2>7. Length(k) = Length(k - 1) + (IF (k - 1) % p >= c THEN 1 ELSE 0)
    BY <1>2, <2>1, <2>2, <2>4, <2>6
  <2> QED BY <1>2, <2>1, <2>2, <2>3, <2>5, <2>6, <2>7
<1> QED BY <1>2, <1>4, <1>5 DEF Lengths

(* extend_shape: chunks of zeros where the places of the new shape are not *)
(* among those of the old, then the new shape.  Before the chunk of place  *)
(* k is inserted the chunks of the places before k are there, so that it   *)
(* is inserted at most right behind the last one; along the first axis     *)
(* all the new places are behind the old ones.                             *)
LEMMA ExtendBuilds ==
  ASSUME NEW w \in Frame, NEW m \in Nat, Len(w.entries) = NdSize(w.shape), w.shape[Axis] <= m
  PROVE  LET new == [w.shape EXCEPT ![Axis] = m]
             t == ExtendShape([w |-> w, writes |-> <<>>], new)
         IN t \in Build(w) /\ t.w.shape = new /\ Len(t.w.entries) = NdSize(new)
<1> DEFINE old == w.shape
           new == [old EXCEPT ![Axis] = m]
           start == [w |-> w, writes |-> <<>>]
           N == NdSize(new)
           Op(t, k) == IF \E d \in DOMAIN new : Places(new)[k][d] >= start.w.shape[d]
                       THEN InsertChunk(t, k) ELSE t
<1>1. /\ new \in Shape /\ N \in Nat \ {0} /\ old \in Shape /\ old[Axis] \in 0 .. new[Axis]
      /\ old = [new EXCEPT ![Axis] = old[Axis]]
  <2>1. old \in Shape /\ old[Axis] \in Nat \ {0}
    BY SMTT(20) DEF Frame, Shape, DifferAt
  <2>2. new[Axis] = m /\ m > 0 /\ new \in Shape
    BY <2>1, ShapeChanged
  <2>3. old = [new EXCEPT ![Axis] = old[Axis]]
    <3>1. DifferAt(old, new, Axis) /\ DOMAIN old = DOMAIN new
      BY <2>1, <2>2, ShapesDiffer
    <3>2. old \in Seq(Nat)
      BY <2>1 DEF Shape
    <3> QED BY <3>2
  <2> HIDE DEF new
  <2> QED BY <2>1, <2>2, <2>3, SizeIs
<1>2. PICK before, p, c : Cut(new, old[Axis], before, p, c)
  <2> HIDE DEF new, old
  <2> QED BY <1>1, CutExists
<1> DEFINE n == before * c
           Length(k) == LengthAt(k, n, p, c)
<1>3. /\ p \in Nat \ {0} /\ c \in 0 .. p /\ before \in Nat \ {0}
      /\ N = before * p /\ Len(w.entries) = n /\ (Axis = 1 => before = 1)
  <2>1. NdSize(old) = NdSize([new EXCEPT ![Axis] = old[Axis]])
    <3> HIDE DEF new
    <3> QED BY <1>1
  <2> HIDE DEF new
  <2> QED BY <1>2, <2>1 DEF Cut
<1>4. ASSUME NEW k \in 1 .. N
      PROVE  (\E d \in DOMAIN new : Places(new)[k][d] >= old[d]) <=> (k - 1) % p >= c
  <2> HIDE DEF new, old
  <2> QED BY <1>1, <1>2 DEF Cut
<1>5. /\ n \in Nat /\ N \in Nat /\ Length(0) = n /\ Length(N) = N
      /\ \A k \in 1 .. N :
           /\ k - 1 \in 0 .. N /\ k \in 0 .. N
           /\ Length(k) = Length(k - 1) + (IF (k - 1) % p >= c THEN 1 ELSE 0)
           /\ Length(k - 1) \in Nat /\ n <= Length(k - 1) /\ k <= Length(k - 1) + 1
           /\ Axis = 1 /\ (k - 1) % p >= c => k = Length(k - 1) + 1
  <2>1. n = before * c
    OBVIOUS
  <2> HIDE DEF N, n
  <2>2. Periods(before, p, c, n, N)
    BY <1>3, <2>1 DEF Periods
  <2>3. Lengths(n, N, p, c)
    BY <2>2, LengthSteps
  <2> QED BY <2>3 DEF Lengths
<1> DEFINE T == [k \in 0 .. N |-> {t \in Build(w) : t.w.shape = old /\ Len(t.w.entries) = Length(k)}]
           step == [k \in 1 .. N |-> [t \in Build(w) |-> Op(t, k)]]
<1>6. ASSUME NEW k \in 1 .. N, NEW t \in T[k - 1]
      PROVE  t \in Build(w) /\ Op(t, k) \in T[k]
  <2>1. t \in Build(w) /\ t.w.shape = old /\ Len(t.w.entries) = Length(k - 1)
    <3> HIDE DEF N, Length
    <3> QED BY <1>5
  <2>2. T[k] = {u \in Build(w) : u.w.shape = old /\ Len(u.w.entries) = Length(k)}
    <3> HIDE DEF N, Length
    <3> QED BY <1>5
  <2>3. /\ Length(k) = Length(k - 1) + (IF (k - 1) % p >= c THEN 1 ELSE 0)
        /\ Length(k - 1) \in Nat /\ k <= Length(k - 1) + 1
        /\ Axis = 1 /\ (k - 1) % p >= c => k = Length(k - 1) + 1
        /\ k \in 1 .. Length(k - 1) + 1
    <3> HIDE DEF N, Length, n
    <3> QED BY <1>5
  <2> HIDE DEF N, Length, n, T, old
  <2>4. CASE (k - 1) % p >= c
    <3>1. Op(t, k) = InsertChunk(t, k)
      <4>1. \E d \in DOMAIN new : Places(new)[k][d] >= start.w.shape[d]
        <5>1. start.w.shape = old
          BY DEF old
        <5> HIDE DEF start, new
        <5> QED BY <1>4, <2>4, <5>1
      <4> HIDE DEF start, new
      <4> QED BY <4>1
    <3> HIDE DEF Op
    <3>2. InsertChunk(t, k) \in Build(w) /\ Len(InsertChunk(t, k).w.entries) = Len(t.w.entries) + 1
          /\ InsertChunk(t, k).w.shape = t.w.shape
      BY <2>1, <2>3, <2>4, InsertBuilds
    <3> QED BY <2>1, <2>2, <2>3, <2>4, <3>1, <3>2
  <2>5. CASE ~ ((k - 1) % p >= c)
    <3>1. Op(t, k) = t
      <4>1. ~ \E d \in DOMAIN new : Places(new)[k][d] >= start.w.shape[d]
        <5>1. start.w.shape = old
          BY DEF old
        <5> HIDE DEF start, new
        <5> QED BY <1>4, <2>5, <5>1
      <4> HIDE DEF start, new
      <4> QED BY <4>1
    <3> HIDE DEF Op
    <3> QED BY <2>1, <2>2, <2>3, <2>5, <3>1
  <2> HIDE DEF Op
  <2> QED BY <2>1, <2>4, <2>5
<1>7. Passes(step, N, T)
  <2>1. ASSUME NEW k \in 1 .. N, NEW t \in T[k - 1] PROVE step[k][t] \in T[k]
    <3>1. t \in Build(w) /\ Op(t, k) \in T[k]
      BY <1>6
    <3> HIDE DEF N, T, Op
    <3>2. step[k][t] = Op(t, k)
      BY <3>1
    <3> QED BY <3>1, <3>2
  <2> HIDE DEF N, T, step
  <2> QED BY <2>1 DEF Passes
<1>8. start \in T[0]
  <2>1. start \in Build(w)
    BY BuildStart
  <2>2. start.w.shape = old /\ Len(start.w.entries) = Length(0) /\ 0 \in 0 .. N
    <3> HIDE DEF N, Length, n
    <3> QED BY <1>3, <1>5
  <2> HIDE DEF N, Length, start, old
  <2> QED BY <2>1, <2>2
<1>9. PICK f : Loop(f, start, step, N, T)
  <2> HIDE DEF N, T, step, start
  <2> QED BY <1>5, <1>7, <1>8, LoopExists
<1>10. f = [k \in 0 .. N |-> f[k]] /\ f[0] = start /\ (\A k \in 0 .. N : f[k] \in T[k])
       /\ \A k \in 1 .. N : f[k] = step[k][f[k - 1]]
  <2> HIDE DEF N, T, step, start
  <2> QED BY <1>9, Zenon DEF Loop
<1>11. ASSUME NEW k \in 1 .. N PROVE f[k] = Op(f[k - 1], k)
  <2>1. f[k] = step[k][f[k - 1]] /\ f[k - 1] \in T[k - 1]
    <3> HIDE DEF N, T, step, start
    <3> QED BY <1>5, <1>10
  <2>2. f[k - 1] \in Build(w)
    <3> HIDE DEF N, T, Op
    <3> QED BY <1>6, <2>1
  <2> HIDE DEF N, T, Op
  <2> QED BY <2>1, <2>2
<1> DEFINE list == [k \in DOMAIN Places(new) |-> k]
           Is(r) == r = [k \in 0 .. Len(list) |-> IF k = 0 THEN start ELSE Op(r[k - 1], list[k])]
<1>12. Extended(start, new) = (CHOOSE r : Is(r))[Len(list)]
  BY DEF Extended, Folded
<1>13. Len(list) = N /\ \A k \in 1 .. N : list[k] = k
  <2>1. DOMAIN Places(new) = 1 .. N
    BY DEF Places
  <2>2. list = [k \in 1 .. N |-> k]
    BY <2>1
  <2> HIDE DEF N, list
  <2> QED BY <1>5, <2>2
<1>14. Is(f)
  <2>1. \A k \in 0 .. N : f[k] = IF k = 0 THEN start ELSE Op(f[k - 1], list[k])
    <3>1. \A k \in 0 .. N : k # 0 => k \in 1 .. N
      BY <1>5
    <3> HIDE DEF N, Op, start, list
    <3> QED BY <1>10, <1>11, <1>13, <3>1, ZenonT(20)
  <2>2. f = [k \in 0 .. N |-> f[k]]
    BY <1>10
  <2>3. [k \in 0 .. N |-> f[k]] = [k \in 0 .. N |-> IF k = 0 THEN start ELSE Op(f[k - 1], list[k])]
    <3> HIDE DEF N, Op, start, list
    <3> QED BY <2>1
  <2>4. f = [k \in 0 .. Len(list) |-> IF k = 0 THEN start ELSE Op(f[k - 1], list[k])]
    <3> HIDE DEF N, Op, start, list
    <3> QED BY <1>13, <2>2, <2>3, Zenon
  <2> HIDE DEF Op, start, list
  <2> QED BY <2>4
<1>15. PICK r : r = (CHOOSE s : Is(s))
  OBVIOUS
<1>16. Is(r)
  <2> HIDE DEF Is
  <2> QED BY <1>14, <1>15
<1>17. r[N] = f[N]
  <2>1. r[0] = start /\ \A k \in 1 .. N : r[k] = Op(r[k - 1], k)
    <3>1. 0 \in 0 .. N /\ \A k \in 1 .. N : k \in 0 .. N /\ k # 0
      BY <1>5
    <3>2. r = [k \in 0 .. N |-> IF k = 0 THEN start ELSE Op(r[k - 1], list[k])]
      <4> HIDE DEF N, Op, start, list
      <4> QED BY <1>13, <1>16
    <3> HIDE DEF N, Op, start, list, Is
    <3> QED BY <1>13, <3>1, <3>2
  <2>2. r[0] = f[0] /\ \A k \in 1 .. N : r[k - 1] = f[k - 1] => r[k] = f[k]
    <3> HIDE DEF N, Op, start, Is
    <3> QED BY <1>10, <1>11, <2>1
  <2>3. Alike(r, f, N)
    <3> HIDE DEF N, Is
    <3> QED BY <2>2 DEF Alike
  <2> HIDE DEF N, Is
  <2> QED BY <1>5, <2>3, LoopUnique
<1>18. Extended(start, new) = f[N]
  <2> HIDE DEF N, Op, start, list, new, Is
  <2> QED BY <1>12, <1>13, <1>15, <1>17
<1>19. f[N] \in Build(w) /\ Len(f[N].w.entries) = N
  <2>1. f[N] \in T[N]
    <3>1. N \in 0 .. N
      BY <1>5
    <3> HIDE DEF N, T, start
    <3> QED BY <1>10, <3>1
  <2>2. T[N] = {t \in Build(w) : t.w.shape = old /\ Len(t.w.entries) = Length(N)}
    <3> HIDE DEF N, Length
    <3> QED BY <1>5
  <2> HIDE DEF N, T, Length
  <2> QED BY <1>5, <2>1, <2>2
<1> DEFINE t == ExtendShape(start, new)
<1>20. t = PublishShape(f[N], new)
  <2> HIDE DEF new, start, N
  <2> QED BY <1>18 DEF ExtendShape
<1>21. t \in Build(w) /\ t.w.shape = new /\ Len(t.w.entries) = N
  <2>1. NdSize(new) <= Len(f[N].w.entries)
    BY <1>5, <1>19
  <2>2. new \in Shape
    BY <1>1
  <2> DEFINE u == f[N]
  <2>3. u \in Build(w) /\ Len(u.w.entries) = N /\ NdSize(new) <= Len(u.w.entries) /\ t = PublishShape(u, new)
    BY <1>19, <1>20, <2>1
  <2> HIDE DEF u, t, new, N
  <2> QED BY <2>2, <2>3, PublishBuilds
<1> QED BY <1>21

(* shrink_shape: the new shape, then the chunks of the places that are not *)
(* in it, from the last one.  They are chunks of zeros, and when chunk k   *)
(* is deleted the index is what the places before k have left, and k; the  *)
(* entries before it are as they were.                                     *)
LEMMA ShrinkBuilds ==
  ASSUME NEW w \in Frame, NEW m \in Nat, Len(w.entries) = NdSize(w.shape), m <= w.shape[Axis],
         \A k \in 1 .. Len(w.entries) : Places(w.shape)[k][Axis] >= m => w.entries[k] = Zeros
  PROVE  LET new == [w.shape EXCEPT ![Axis] = m]
             t == ShrinkShape([w |-> w, writes |-> <<>>], new)
         IN t \in Build(w) /\ t.w.shape = new /\ Len(t.w.entries) = NdSize(new)
<1> DEFINE old == w.shape
           new == [old EXCEPT ![Axis] = m]
           start == PublishShape([w |-> w, writes |-> <<>>], new)
           N == NdSize(old)
           Op(t, k) == IF \E d \in DOMAIN new : Places(old)[k][d] >= new[d]
                       THEN DeleteChunk(t, k) ELSE t
<1>1. old \in Shape /\ N \in Nat \ {0} /\ m \in 0 .. old[Axis] /\ DOMAIN new = DOMAIN old
  <2>1. old \in Shape /\ old[Axis] \in Nat \ {0}
    BY SMTT(20) DEF Frame, Shape, DifferAt
  <2> QED BY <2>1, SizeIs
<1>2. m > 0 /\ new \in Shape
  <2>1. PICK k \in 1 .. Len(w.entries) : w.entries[k] # Zeros
    BY DEF Frame
  <2>2. Places(old)[k][Axis] \in 0 .. old[Axis] - 1
    <3>1. k - 1 \in 0 .. NdSize(old) - 1 /\ k \in 1 .. NdSize(old)
      BY <1>1
    <3>2. Places(old)[k] = UnidimToMultidim(old, k - 1)
      BY <3>1 DEF Places
    <3>3. Axis \in DOMAIN old /\ old[Axis] > 0
      BY <1>1 DEF Shape, DifferAt
    <3> HIDE DEF old
    <3> QED BY <1>1, <3>1, <3>2, <3>3, PositionWithin
  <2>3. m # 0
    BY <2>1, <2>2
  <2> QED BY <1>1, <2>3, ShapeChanged
<1>3. PICK before, p, c : Cut(old, m, before, p, c)
  <2> HIDE DEF new, old
  <2> QED BY <1>1, CutExists
<1> DEFINE n == before * c
           Length(k) == LengthAt(k, n, p, c)
<1>4. /\ p \in Nat \ {0} /\ c \in 0 .. p /\ before \in Nat \ {0}
      /\ N = before * p /\ NdSize(new) = n /\ (Axis = 1 => before = 1)
  BY <1>3 DEF Cut
<1>5. /\ n \in Nat /\ N \in Nat /\ Length(0) = n /\ Length(N) = N
      /\ \A k \in 1 .. N :
           /\ k - 1 \in 0 .. N /\ k \in 0 .. N
           /\ Length(k) = Length(k - 1) + (IF (k - 1) % p >= c THEN 1 ELSE 0)
           /\ Length(k - 1) \in Nat /\ n <= Length(k - 1) /\ k <= Length(k - 1) + 1
           /\ Axis = 1 /\ (k - 1) % p >= c => k = Length(k - 1) + 1
  <2>1. n = before * c
    OBVIOUS
  <2> HIDE DEF N, n
  <2>2. Periods(before, p, c, n, N)
    BY <1>4, <2>1 DEF Periods
  <2>3. Lengths(n, N, p, c)
    BY <2>2, LengthSteps
  <2> QED BY <2>3 DEF Lengths
<1>6. ASSUME NEW k \in 1 .. N
      PROVE  /\ (\E d \in DOMAIN new : Places(old)[k][d] >= new[d]) <=> (k - 1) % p >= c
             /\ (k - 1) % p >= c => w.entries[k] = Zeros
  <2>1. (\E d \in DOMAIN old : Places(old)[k][d] >= [old EXCEPT ![Axis] = m][d]) <=> (k - 1) % p >= c
    <3> HIDE DEF old
    <3> QED BY <1>3 DEF Cut
  <2>2. Places(old)[k][Axis] >= m <=> (k - 1) % p >= c
    <3> HIDE DEF old
    <3> QED BY <1>3 DEF Cut
  <2>3. Places(old)[k][Axis] >= m => w.entries[k] = Zeros
    OBVIOUS
  <2> QED BY <1>1, <2>1, <2>2, <2>3
<1> DEFINE T == [j \in 0 .. N |-> {t \in Build(w) : /\ t.w.shape = new /\ Len(t.w.entries) = Length(N - j)
                                                  /\ \A i \in 1 .. N - j : t.w.entries[i] = w.entries[i]}]
           step == [j \in 1 .. N |-> [t \in Build(w) |-> Op(t, N + 1 - j)]]
<1>7. ASSUME NEW j \in 1 .. N, NEW t \in T[j - 1]
      PROVE  t \in Build(w) /\ Op(t, N + 1 - j) \in T[j]
  <2> DEFINE k == N + 1 - j
  <2>1. k \in 1 .. N /\ N - (j - 1) = k /\ N - j = k - 1 /\ j - 1 \in 0 .. N /\ j \in 0 .. N
    <3> HIDE DEF N
    <3> QED BY <1>5
  <2>2. /\ t \in Build(w) /\ t.w.shape = new /\ Len(t.w.entries) = Length(k)
        /\ \A i \in 1 .. k : t.w.entries[i] = w.entries[i]
    <3> HIDE DEF N, Length, k
    <3> QED BY <2>1
  <2>3. T[j] = {u \in Build(w) : /\ u.w.shape = new /\ Len(u.w.entries) = Length(k - 1)
                                /\ \A i \in 1 .. k - 1 : u.w.entries[i] = w.entries[i]}
    <3> HIDE DEF N, Length, k
    <3> QED BY <2>1
  <2>4. /\ Length(k) = Length(k - 1) + (IF (k - 1) % p >= c THEN 1 ELSE 0)
        /\ Length(k - 1) \in Nat /\ n <= Length(k - 1) /\ k <= Length(k - 1) + 1
        /\ Axis = 1 /\ (k - 1) % p >= c => k = Length(k - 1) + 1
    <3> HIDE DEF N, Length, n, k
    <3> QED BY <1>5, <2>1
  <2>5. /\ (\E d \in DOMAIN new : Places(old)[k][d] >= new[d]) <=> (k - 1) % p >= c
        /\ (k - 1) % p >= c => w.entries[k] = Zeros
    <3> HIDE DEF N, old, new, k
    <3> QED BY <1>6, <2>1
  <2>6. CASE (k - 1) % p >= c
    <3>1. Op(t, k) = DeleteChunk(t, k)
      <4> HIDE DEF k, old, new
      <4> QED BY <2>5, <2>6
    <3>2. k \in 1 .. Len(t.w.entries) /\ t.w.entries[k] = Zeros /\ NdSize(t.w.shape) < Len(t.w.entries)
          /\ (Axis = 1 => k = Len(t.w.entries)) /\ Len(t.w.entries) = Length(k - 1) + 1
      <4>1. k \in Nat /\ k >= 1 /\ k \in 1 .. k
        <5> HIDE DEF N, k
        <5> QED BY <2>1
      <4>2. Len(t.w.entries) = Length(k - 1) + 1
        <5> HIDE DEF N, k, Length
        <5> QED BY <2>2, <2>4, <2>6
      <4>3. NdSize(t.w.shape) = n
        <5> HIDE DEF new, n
        <5> QED BY <1>4, <2>2
      <4>4. t.w.entries[k] = Zeros
        <5> HIDE DEF k
        <5> QED BY <2>2, <2>5, <2>6, <4>1
      <4> HIDE DEF N, k, Length, n
      <4> QED BY <1>5, <2>4, <2>6, <4>1, <4>2, <4>3, <4>4
    <3> DEFINE u == DeleteChunk(t, k)
    <3>3. /\ u \in Build(w) /\ Len(u.w.entries) = Len(t.w.entries) - 1 /\ u.w.shape = t.w.shape
          /\ \A i \in 1 .. k - 1 : u.w.entries[i] = t.w.entries[i]
      <4> HIDE DEF k
      <4> QED BY <2>2, <3>2, DeleteBuilds, SMTT(30)
    <3>4. Len(u.w.entries) = Length(k - 1) /\ u.w.shape = new
          /\ \A i \in 1 .. k - 1 : u.w.entries[i] = w.entries[i]
      <4>1. k \in Nat
        <5> HIDE DEF N, k
        <5> QED BY <2>1
      <4> HIDE DEF N, k, u, Length, new
      <4> QED BY <2>2, <2>4, <3>2, <3>3, <4>1
    <3>5. u \in T[j]
      <4> HIDE DEF u, T, k, Length, new
      <4> QED BY <2>3, <3>3, <3>4
    <3> HIDE DEF T
    <3> QED BY <2>2, <3>1, <3>5
  <2>7. CASE ~ ((k - 1) % p >= c)
    <3>1. Op(t, k) = t
      <4> HIDE DEF k, old, new
      <4> QED BY <2>5, <2>7
    <3>2. Len(t.w.entries) = Length(k - 1) /\ \A i \in 1 .. k - 1 : t.w.entries[i] = w.entries[i]
      <4>1. k \in Nat
        <5> HIDE DEF N, k
        <5> QED BY <2>1
      <4> HIDE DEF N, k, Length, new
      <4> QED BY <2>2, <2>4, <2>7, <4>1
    <3>3. t \in T[j]
      <4> HIDE DEF T, k, Length, new
      <4> QED BY <2>2, <2>3, <3>2
    <3> HIDE DEF T, Op
    <3> QED BY <2>2, <3>1, <3>3
  <2> HIDE DEF Op, T
  <2> QED BY <2>6, <2>7
<1>8. Passes(step, N, T)
  <2>1. ASSUME NEW j \in 1 .. N, NEW t \in T[j - 1] PROVE step[j][t] \in T[j]
    <3>1. t \in Build(w) /\ Op(t, N + 1 - j) \in T[j]
      BY <1>7
    <3> HIDE DEF N, T, Op
    <3>2. step[j][t] = Op(t, N + 1 - j)
      BY <3>1
    <3> QED BY <3>1, <3>2
  <2> HIDE DEF N, T, step
  <2> QED BY <2>1 DEF Passes
<1>9. start \in T[0]
  <2> DEFINE s == [w |-> w, writes |-> <<>>]
  <2>1. s \in Build(w) /\ s.w = w
    BY BuildStart
  <2>2. NdSize(new) <= Len(s.w.entries)
    <3>1. n <= N
      <4>1. \A x, y, z \in Nat : x <= y => z * x <= z * y
        OBVIOUS
      <4>2. c \in Nat /\ p \in Nat /\ before \in Nat /\ c <= p
        BY <1>4
      <4> HIDE DEF N
      <4> QED BY <1>4, <4>1, <4>2
    <3> HIDE DEF N, n, s, new
    <3> QED BY <1>4, <2>1, <3>1 DEF N
  <2>3. start \in Build(w) /\ start.w.entries = w.entries /\ start.w.shape = new
    <3> HIDE DEF s, new
    <3> QED BY <1>2, <2>1, <2>2, PublishBuilds DEF s
  <2>4. Len(start.w.entries) = Length(N - 0) /\ 0 \in 0 .. N /\ N - 0 = N
    <3>1. N - 0 = N /\ Len(w.entries) = N
      BY <1>1
    <3> HIDE DEF N, Length, n, start
    <3> QED BY <1>5, <2>3, <3>1
  <2> HIDE DEF N, Length, start, new
  <2> QED BY <2>3, <2>4
<1>10. PICK f : Loop(f, start, step, N, T)
  <2> HIDE DEF N, T, step, start
  <2> QED BY <1>5, <1>8, <1>9, LoopExists
<1>11. f = [k \in 0 .. N |-> f[k]] /\ f[0] = start /\ (\A k \in 0 .. N : f[k] \in T[k])
       /\ \A k \in 1 .. N : f[k] = step[k][f[k - 1]]
  <2> HIDE DEF N, T, step, start
  <2> QED BY <1>10, Zenon DEF Loop
<1>12. ASSUME NEW j \in 1 .. N PROVE f[j] = Op(f[j - 1], N + 1 - j)
  <2>1. f[j] = step[j][f[j - 1]] /\ f[j - 1] \in T[j - 1]
    <3> HIDE DEF N, T, step, start
    <3> QED BY <1>5, <1>11
  <2>2. f[j - 1] \in Build(w)
    <3> HIDE DEF N, T, Op
    <3> QED BY <1>7, <2>1
  <2> HIDE DEF N, T, Op
  <2> QED BY <2>1, <2>2
<1> DEFINE L == Len(Places(old))
           list == [k \in 1 .. L |-> L + 1 - k]
           Is(r) == r = [k \in 0 .. Len(list) |-> IF k = 0 THEN start ELSE Op(r[k - 1], list[k])]
<1>13. ShrinkShape([w |-> w, writes |-> <<>>], new) = (CHOOSE r : Is(r))[Len(list)]
  <2> DEFINE From(o, t, k) == IF \E d \in DOMAIN new : Places(o)[k][d] >= new[d]
                              THEN DeleteChunk(t, k) ELSE t
             Chosen(o) == LET l == [k \in 1 .. Len(Places(o)) |-> Len(Places(o)) + 1 - k]
                          IN (CHOOSE r : r = [k \in 0 .. Len(l) |-> IF k = 0 THEN start
                                                                   ELSE From(o, r[k - 1], l[k])])[Len(l)]
             first == [w |-> w, writes |-> <<>>]
  <2>1. ShrinkShape(first, new) = Chosen(first.w.shape)
    BY DEF ShrinkShape, Folded
  <2>2. first.w.shape = old
    OBVIOUS
  <2>3. Chosen(first.w.shape) = Chosen(old)
    <3> HIDE DEF first, old, Chosen
    <3> QED BY <2>2
  <2>4. Chosen(old) = (CHOOSE r : Is(r))[Len(list)]
    OBVIOUS
  <2> HIDE DEF Chosen, Is, list, new, old
  <2> QED BY <2>1, <2>3, <2>4
<1>14. Len(list) = N /\ \A k \in 1 .. N : list[k] = N + 1 - k
  <2>1. Places(old) = [k \in 1 .. N |-> UnidimToMultidim(old, k - 1)]
    BY DEF Places
  <2>2. L = N
    <3> HIDE DEF N, old
    <3> QED BY <1>5, <2>1
  <2>3. list = [k \in 1 .. N |-> N + 1 - k]
    <3> HIDE DEF L, N
    <3> QED BY <2>2
  <2> HIDE DEF N, list
  <2> QED BY <1>5, <2>3
<1>15. Is(f)
  <2>1. \A k \in 0 .. N : f[k] = IF k = 0 THEN start ELSE Op(f[k - 1], list[k])
    <3>1. \A k \in 0 .. N : k # 0 => k \in 1 .. N
      BY <1>5
    <3>2. ASSUME NEW k \in 1 .. N PROVE f[k] = Op(f[k - 1], list[k])
      <4> DEFINE x == list[k]
                 y == N + 1 - k
                 u == f[k - 1]
      <4>1. x = y
        <5> HIDE DEF N, list
        <5> QED BY <1>14
      <4>2. f[k] = Op(u, y)
        <5> HIDE DEF N, Op
        <5> QED BY <1>12
      <4>3. f[k] = Op(u, x)
        <5> HIDE DEF x, y, u, Op
        <5> QED BY <4>1, <4>2
      <4> QED BY <4>3
    <3> HIDE DEF N, Op, start, list
    <3> QED BY <1>11, <3>1, <3>2
  <2>2. f = [k \in 0 .. N |-> f[k]]
    BY <1>11
  <2>3. [k \in 0 .. N |-> f[k]] = [k \in 0 .. N |-> IF k = 0 THEN start ELSE Op(f[k - 1], list[k])]
    <3> HIDE DEF N, Op, start, list
    <3> QED BY <2>1
  <2>4. f = [k \in 0 .. Len(list) |-> IF k = 0 THEN start ELSE Op(f[k - 1], list[k])]
    <3> HIDE DEF N, Op, start, list
    <3> QED BY <1>14, <2>2, <2>3, Zenon
  <2> HIDE DEF Op, start, list
  <2> QED BY <2>4
<1>16. PICK r : r = (CHOOSE s : Is(s))
  OBVIOUS
<1>17. Is(r)
  <2> HIDE DEF Is
  <2> QED BY <1>15, <1>16
<1>18. r[N] = f[N]
  <2>1. r[0] = start /\ \A k \in 1 .. N : r[k] = Op(r[k - 1], N + 1 - k)
    <3>1. 0 \in 0 .. N /\ \A k \in 1 .. N : k \in 0 .. N /\ k # 0
      BY <1>5
    <3>2. r = [k \in 0 .. N |-> IF k = 0 THEN start ELSE Op(r[k - 1], list[k])]
      <4> HIDE DEF N, Op, start, list
      <4> QED BY <1>14, <1>17
    <3> HIDE DEF N, Op, start, list, Is
    <3> QED BY <1>14, <3>1, <3>2
  <2>2. r[0] = f[0] /\ \A k \in 1 .. N : r[k - 1] = f[k - 1] => r[k] = f[k]
    <3> HIDE DEF N, Op, start, Is
    <3> QED BY <1>11, <1>12, <2>1
  <2>3. Alike(r, f, N)
    <3> HIDE DEF N, Is
    <3> QED BY <2>2 DEF Alike
  <2> HIDE DEF N, Is
  <2> QED BY <1>5, <2>3, LoopUnique
<1> DEFINE t == ShrinkShape([w |-> w, writes |-> <<>>], new)
<1>19. t = f[N]
  <2> HIDE DEF N, Op, start, list, new, Is
  <2> QED BY <1>13, <1>14, <1>16, <1>18
<1>20. f[N] \in Build(w) /\ f[N].w.shape = new /\ Len(f[N].w.entries) = NdSize(new)
  <2>1. f[N] \in T[N]
    <3>1. N \in 0 .. N
      BY <1>5
    <3> HIDE DEF N, T, start
    <3> QED BY <1>11, <3>1
  <2>2. /\ \A u \in T[N] : u \in Build(w) /\ u.w.shape = new /\ Len(u.w.entries) = Length(N - N)
        /\ N - N = 0
    <3> HIDE DEF N, Length, new
    <3> QED BY <1>5
  <2> HIDE DEF N, T, Length, new, n
  <2> QED BY <1>4, <1>5, <2>1, <2>2
<1> HIDE DEF t, N
<1> QED BY <1>19, <1>20 DEF t

-----------------------------------------------------------------------------
(***************************************************************************)
(* What an operation that began with w0 leaves: a frame with one chunk for *)
(* each place, writes that lead to it, and along the first axis writes     *)
(* that agree with it.                                                     *)
(***************************************************************************)
Result(w0) ==
  {t \in [w : Frame, writes : Seq(Write)] :
     /\ Len(t.w.entries) = NdSize(t.w.shape)
     /\ Runs(t.writes, Settled(w0), Settled(t.w))
     /\ Axis = 1 /\ FrameOK(w0) => Follows(w0, t.w) /\ FrameOK(t.w) /\ WritesOK(t.writes, t.w)}

(* A resize leaves such a frame.                                           *)
LEMMA BuildResult ==
  ASSUME NEW w0 \in Frame, NEW t \in Build(w0), Len(t.w.entries) = NdSize(t.w.shape)
  PROVE  t \in Result(w0)
<1>1. /\ t \in [w : Frame, writes : Seq(Write)] /\ t.w \in Frame /\ t.writes \in Seq(Write)
      /\ t.w.cbytes = w0.cbytes /\ Runs(t.writes, Settled(w0), Settled(t.w))
      /\ Axis = 1 /\ FrameOK(w0) => SameChunks(t.w.entries, w0.entries) /\ WritesOK(t.writes, w0)
  BY DEF Build
<1>2. ASSUME Axis = 1, FrameOK(w0)
      PROVE  Follows(w0, t.w) /\ FrameOK(t.w) /\ WritesOK(t.writes, t.w)
  <2>1. SameChunks(t.w.entries, w0.entries) /\ WritesOK(t.writes, w0)
    BY <1>1, <1>2
  <2>2. Follows(w0, t.w) /\ FrameOK(t.w)
    BY <1>1, <1>2, <2>1, SameFollows, SameFrameOK
  <2> QED BY <1>1, <2>1, <2>2, WritesFollow
<1> QED BY <1>1, <1>2 DEF Result

(* The places of a shape; along the first axis they are those of the       *)
(* first shape, as far as it goes.                                         *)
LEMMA PlaceIs ==
  ASSUME NEW s \in Shape, NEW k \in 1 .. NdSize(s)
  PROVE  /\ Places(s)[k] = UnidimToMultidim(s, k - 1) /\ Places(s)[k] \in PlaceSet
         /\ Axis = 1 => Places(s)[k] = Place(k)
<1>1. k - 1 \in Nat
  BY SizeIs
<1>2. Places(s)[k] = UnidimToMultidim(s, k - 1)
  BY DEF Places
<1>3. UnidimToMultidim(s, k - 1) \in PlaceSet
  <2> DEFINE x == <<s, k - 1>>
  <2>1. x \in Shape \X Nat /\ x[1] = s /\ x[2] = k - 1
    BY <1>1
  <2> HIDE DEF x
  <2>2. UnidimToMultidim(x[1], x[2]) \in PlaceSet
    BY <2>1 DEF PlaceSet
  <2> QED BY <2>1, <2>2
<1>4. ASSUME Axis = 1 PROVE UnidimToMultidim(s, k - 1) = Place(k)
  <2>1. DifferAt(s, InitShape, 1)
    BY <1>4, InitShapeIs, ShapesDiffer
  <2> DEFINE i == k - 1
             one == 1
  <2>2. DifferAt(s, InitShape, one) /\ i \in Nat
    BY <1>1, <2>1
  <2>3. UnidimToMultidim(s, i) = UnidimToMultidim(InitShape, i)
    <3> HIDE DEF i
    <3> QED BY <2>2, PlaceFixed
  <2> QED BY <2>3 DEF Place
<1> QED BY <1>2, <1>3, <1>4

(* The update of a chunk: its data where it was, or in a cell behind the   *)
(* others, then the index with that cell.                                  *)
LEMMA UpdateBuilds ==
  ASSUME NEW w \in Frame, Len(w.entries) = NdSize(w.shape), NEW k \in 1 .. Len(w.entries)
  PROVE  UpdateChunk([w |-> w, writes |-> <<>>], k, Places(w.shape)[k]) \in Result(w)
<1> DEFINE place == Places(w.shape)[k]
           v == IF w.entries[k] = Zeros THEN [w EXCEPT !.cbytes = w.cbytes + 1, !.entries[k] = w.cbytes + 1] ELSE w
           wr == Body(v.entries[k], <<Data(place)>>)
           n == Len(w.entries)
           b == w.cbytes
           at == v.entries[k]
<1>1. /\ w \in [entries : Seq(Entry), cbytes : Nat, shape : Shape] /\ n \in Nat /\ b \in Nat
      /\ \A j \in 1 .. n : w.entries[j] # Zeros => w.entries[j] \in 1 .. b
      /\ \E j \in 1 .. n : w.entries[j] # Zeros
      /\ w.shape \in Shape
  BY DEF Frame
<1>2. /\ v \in [entries : Seq(Entry), cbytes : Nat, shape : Shape]
      /\ v.shape = w.shape /\ Len(v.entries) = n
      /\ v.cbytes = IF w.entries[k] = Zeros THEN b + 1 ELSE b
      /\ \A j \in 1 .. n : v.entries[j] = IF w.entries[k] = Zeros /\ j = k THEN b + 1 ELSE w.entries[j]
  <2>1. CASE w.entries[k] = Zeros
    <3>1. v.entries = [w.entries EXCEPT ![k] = b + 1] /\ v.cbytes = b + 1 /\ v.shape = w.shape
      BY <1>1, <2>1
    <3>2. b + 1 \in Entry /\ w.entries \in Seq(Entry)
      BY <1>1 DEF Entry
    <3>3. [w.entries EXCEPT ![k] = b + 1] \in Seq(Entry) /\ Len([w.entries EXCEPT ![k] = b + 1]) = n
          /\ \A j \in 1 .. n : [w.entries EXCEPT ![k] = b + 1][j] = IF j = k THEN b + 1 ELSE w.entries[j]
      BY <3>2
    <3>4. v = [entries |-> [w.entries EXCEPT ![k] = b + 1], cbytes |-> b + 1, shape |-> w.shape]
      BY <1>1, <2>1
    <3> HIDE DEF v, n, b
    <3> QED BY <1>1, <2>1, <3>1, <3>3, <3>4
  <2>2. CASE w.entries[k] # Zeros
    <3>1. v = w
      BY <2>2
    <3> HIDE DEF v, n, b
    <3> QED BY <1>1, <2>2, <3>1 DEF n, b
  <2> QED BY <2>1, <2>2
<1>3. at \in 1 .. v.cbytes /\ at # Zeros /\ \A j \in 1 .. n : v.entries[j] # Zeros => v.entries[j] \in 1 .. v.cbytes
  <2> HIDE DEF v, n, b
  <2>1. k \in 1 .. n /\ at = v.entries[k]
    BY DEF n
  <2> HIDE DEF at
  <2>2. b \in Nat /\ v.cbytes \in Nat /\ b <= v.cbytes /\ (w.entries[k] = Zeros => v.cbytes = b + 1)
    BY <1>1, <1>2
  <2>3. ASSUME NEW j \in 1 .. n, v.entries[j] # Zeros PROVE v.entries[j] \in 1 .. v.cbytes
    <3>1. CASE w.entries[k] = Zeros /\ j = k
      <4>1. v.entries[j] = b + 1
        BY <1>2, <3>1
      <4> QED BY <2>2, <3>1, <4>1
    <3>2. CASE ~ (w.entries[k] = Zeros /\ j = k)
      <4>1. v.entries[j] = w.entries[j]
        BY <1>2, <3>2
      <4>2. w.entries[j] \in 1 .. b
        BY <1>1, <2>3, <4>1
      <4> QED BY <2>2, <4>1, <4>2
    <3> QED BY <3>1, <3>2
  <2>4. at # Zeros
    <3>1. CASE w.entries[k] = Zeros
      <4>1. at = b + 1
        BY <1>2, <2>1, <3>1
      <4> QED BY <2>2, <4>1, GrowthAssumption
    <3>2. CASE w.entries[k] # Zeros
      BY <1>2, <2>1, <3>2
    <3> QED BY <3>1, <3>2
  <2> QED BY <2>1, <2>3, <2>4
<1>4. v \in Frame /\ Len(v.entries) = NdSize(v.shape)
  <2>1. NdSize(v.shape) = n /\ NdSize(v.shape) <= Len(v.entries)
    BY <1>1, <1>2
  <2>2. \E j \in 1 .. Len(v.entries) : v.entries[j] # Zeros
    <3>1. k \in 1 .. n
      OBVIOUS
    <3> HIDE DEF v, n
    <3> QED BY <1>2, <1>3, <3>1
  <2> HIDE DEF v, n
  <2> QED BY <1>2, <1>3, <2>1, <2>2 DEF Frame
<1>5. place \in PlaceSet /\ (Axis = 1 => place = Place(k))
  BY <1>1, PlaceIs
<1>6. <<Data(place)>> \in Seq(Cell) /\ Len(<<Data(place)>>) = 1 /\ <<Data(place)>>[1] = Data(place)
  <2>1. Data(place) \in Cell
    <3> HIDE DEF place
    <3> QED BY <1>5 DEF Data, Cell
  <2> HIDE DEF place
  <2> QED BY <2>1
<1>7. wr \in Write /\ wr.to = "body" /\ wr.at = at /\ wr.cells = <<Data(place)>>
  <2>1. v.cbytes \in Nat
    BY <1>4 DEF Frame
  <2>2. at \in Nat
    <3> HIDE DEF v, at
    <3> QED BY <1>3, <2>1
  <2> HIDE DEF at, place, v
  <2> QED BY <1>6, <2>2 DEF Write, Body, at
<1> DEFINE a == Settled(w)
           z == Settled(v)
           vs == Rewrite(v)
           ws == <<wr>> \o vs
<1>8. ws \in Seq(Write) /\ Runs(ws, a, z)
  <2>1. a \in Shadow /\ a.size = b + n + 1
    <3>1. a \in Shadow /\ FrameLen(w) = b + n + 1
      BY HeaderOfIs
    <3> QED BY <3>1 DEF Settled
  <2>2. Fits(a, wr) /\ After(a, wr) \in Shadow /\ v.cbytes <= After(a, wr).size
    <3>1. Len(wr.cells) = 1
      <4> HIDE DEF wr, place
      <4> QED BY <1>6, <1>7
    <3>2. v.cbytes \in Nat /\ v.cbytes <= b + 1
      <4> HIDE DEF v, b
      <4> QED BY <1>1, <1>2
    <3>3. Fits(a, wr)
      <4> HIDE DEF a, wr, v, at, b, n
      <4> QED BY <1>1, <1>3, <1>7, <2>1, <3>2 DEF Fits
    <3>4. After(a, wr) \in Shadow
      <4> HIDE DEF a, wr
      <4> QED BY <1>7, <2>1, <3>3, AfterShadow
    <3>5. After(a, wr).size = Longer(a.size, at + 1 - 1)
      <4> HIDE DEF a, wr, at
      <4> QED BY <1>7, <3>1 DEF After
    <3>6. Longer(a.size, at + 1 - 1) >= a.size
      <4>1. at \in Int /\ a.size \in Int
        <5> HIDE DEF a, v, at, b, n
        <5> QED BY <1>1, <1>3, <2>1, <3>2
      <4> HIDE DEF a, at
      <4> QED BY <4>1 DEF Longer
    <3>7. After(a, wr).size \in Int
      BY <3>4 DEF Shadow
    <3> HIDE DEF a, wr, v, at, b, n
    <3> QED BY <1>1, <2>1, <3>2, <3>3, <3>4, <3>5, <3>6, <3>7
  <2>3. vs \in Seq(Write) /\ Runs(vs, After(a, wr), z)
    <3> HIDE DEF a, wr, v
    <3> QED BY <1>4, <2>2, RewriteRuns
  <2> HIDE DEF a, wr, z, vs
  <2> QED BY <1>7, <2>1, <2>2, <2>3, RunsThen
<1>9. ASSUME Axis = 1, FrameOK(w) PROVE Follows(w, v) /\ FrameOK(v) /\ WritesOK(ws, v)
  <2>1. /\ \A i, j \in 1 .. n : w.entries[i] = w.entries[j] /\ w.entries[i] # Zeros => i = j
        /\ \A j \in 1 .. n : j <= FirstChunks => w.entries[j] # Zeros
        /\ FirstChunks <= n
    BY <1>9 DEF FrameOK, IndexOK
  <2>2. b + 1 \notin 1 .. b /\ b + 1 # Zeros
    BY <1>1, GrowthAssumption
  <2>3. k \in 1 .. n
    OBVIOUS
  <2>4. ASSUME NEW i \in 1 .. n, NEW j \in 1 .. n, v.entries[i] = v.entries[j], v.entries[i] # Zeros
        PROVE  i = j
    <3> HIDE DEF v, b, n
    <3>1. ASSUME NEW l \in 1 .. n, v.entries[l] # Zeros
          PROVE  \/ l = k /\ v.entries[l] = b + 1
                 \/ v.entries[l] = w.entries[l] /\ w.entries[l] \in 1 .. b
      <4>1. CASE w.entries[k] = Zeros /\ l = k
        BY <1>2, <4>1
      <4>2. CASE ~ (w.entries[k] = Zeros /\ l = k)
        <5>1. v.entries[l] = w.entries[l]
          BY <1>2, <4>2
        <5> QED BY <1>1, <3>1, <5>1
      <4> QED BY <4>1, <4>2
    <3>2. v.entries[j] # Zeros
      BY <2>4
    <3> QED BY <2>1, <2>2, <2>4, <3>1, <3>2
  <2>5. ASSUME NEW j \in 1 .. n, w.entries[j] # Zeros PROVE v.entries[j] = w.entries[j]
    <3>1. ~ (w.entries[k] = Zeros /\ j = k)
      BY <2>5
    <3> HIDE DEF v, b, n
    <3> QED BY <1>2, <3>1
  <2>6. ASSUME NEW j \in 1 .. n, v.entries[j] \in 1 .. b PROVE w.entries[j] = v.entries[j]
    <3> HIDE DEF v, b, n
    <3> QED BY <1>1, <1>2, <2>2, <2>6
  <2>7. b <= v.cbytes /\ Len(v.entries) = n
    <3> HIDE DEF v, b, n
    <3> QED BY <1>1, <1>2
  <2>8. Follows(w, v)
    <3> HIDE DEF v
    <3> QED BY <2>5, <2>6, <2>7 DEF Follows
  <2>9. IndexOK(v.entries, v) /\ FrameOK(v)
    <3>1. \A j \in 1 .. n : j <= FirstChunks => v.entries[j] # Zeros
      <4> HIDE DEF v, n
      <4> QED BY <2>1, <2>5
    <3> HIDE DEF v, n
    <3> QED BY <2>1, <2>4, <2>7, <3>1 DEF FrameOK, IndexOK
  <2>10. WritesOK(vs, v) /\ vs \in Seq(Write)
    <3>1. v.cbytes <= z.size /\ z \in Shadow
      <4> HIDE DEF v
      <4> QED BY <1>4, HeaderOfIs DEF Settled
    <3> HIDE DEF v, z
    <3> QED BY <1>4, <2>9, <3>1, RewriteOK, RewriteRuns
  <2>11. DataOK(at, place, v)
    <3>1. ASSUME NEW j \in 1 .. Len(v.entries), v.entries[j] = at PROVE place = Place(j)
      <4>1. j = k
        <5> HIDE DEF v, n
        <5> QED BY <1>3, <2>3, <2>4, <2>7, <3>1
      <4> QED BY <1>5, <1>9, <4>1
    <3>2. at <= v.cbytes
      <4> HIDE DEF v, at
      <4> QED BY <1>3
    <3> HIDE DEF v, at, place
    <3> QED BY <3>1, <3>2 DEF DataOK
  <2>12. CellsOK(wr.at, wr.cells, v)
    <3> DEFINE cells == <<Data(place)>>
    <3>1. Len(cells) = 1 /\ cells[1] = Data(place)
      BY <1>6
    <3>2. Data(place).kind = "data" /\ Data(place).place = place
      BY DEF Data
    <3>3. at + 1 - 1 = at
      <4>1. at \in Int
        <5>1. v.cbytes \in Int
          <6> HIDE DEF v
          <6> QED BY <1>4 DEF Frame
        <5> HIDE DEF v, at
        <5> QED BY <1>3, <5>1
      <4> HIDE DEF at
      <4> QED BY <4>1
    <3> HIDE DEF cells, v, place, at
    <3>4. CellOK(at, Data(place), v)
      BY <2>11, <3>2 DEF CellOK
    <3>5. CellsOK(at, cells, v)
      <4>1. ASSUME NEW i \in 1 .. Len(cells) PROVE CellOK(at + i - 1, cells[i], v)
        <5>1. i = 1 /\ cells[i] = Data(place) /\ at + i - 1 = at
          BY <3>1, <3>3
        <5> QED BY <3>4, <5>1
      <4> QED BY <4>1 DEF CellsOK
    <3> HIDE DEF wr
    <3> QED BY <1>7, <3>5 DEF cells
  <2>13. WritesOK(<<wr>>, v) /\ <<wr>> \in Seq(Write)
    <3> HIDE DEF wr, v
    <3> QED BY <1>7, <2>12, WritesOne
  <2> DEFINE us == <<wr>>
  <2>14. WritesOK(us \o vs, v)
    <3> HIDE DEF wr, v, vs, us
    <3> QED BY <2>10, <2>13, WritesConcat DEF us
  <2> QED BY <2>8, <2>9, <2>14
<1> DEFINE r == [w |-> v, writes |-> ws]
<1>10. r \in Result(w)
  <2>1. r \in [w : Frame, writes : Seq(Write)] /\ r.w = v /\ r.writes = ws
    <3> HIDE DEF v, ws
    <3> QED BY <1>4, <1>8
  <2> HIDE DEF r, v, ws
  <2> QED BY <1>4, <1>8, <1>9, <2>1 DEF Result
<1>11. UpdateChunk([w |-> w, writes |-> <<>>], k, place) = [w |-> v, writes |-> <<>> \o ws]
  BY DEF UpdateChunk, Does
<1>12. <<>> \o ws = ws
  <2> HIDE DEF ws
  <2> QED BY <1>8, ConcatEmptySeq
<1> HIDE DEF v, ws
<1> QED BY <1>10, <1>11, <1>12

-----------------------------------------------------------------------------
(***************************************************************************)
(* The invariants.                                                         *)
(***************************************************************************)
GrowthInv ==
  /\ file \in File
  /\ writer \in Frame /\ Len(writer.entries) = NdSize(writer.shape)
  /\ pending \in Seq(Write) /\ Runs(pending, ShadowOf(file), Settled(writer))
  /\ ops \in 0 .. MaxOps
  /\ reader \in Reader

(* What the reader holds when the array grows along the first axis.        *)
ReaderOK ==
  /\ reader.index # None => IndexOK(reader.index, writer)
  /\ reader.nchunk > 0 => reader.want = Place(reader.nchunk)
  /\ reader.pc = "chunk" =>
       reader.index # None /\ reader.nchunk \in 1 .. Len(reader.index) /\ reader.index[reader.nchunk] # Zeros
PlaceInv ==
  /\ FrameOK(writer) /\ CellsOK(1, file.cells, writer) /\ WritesOK(pending, writer)
  /\ ReaderOK /\ ReadsInPlace

(* When nothing is pending the file is what the writer sees.               *)
LEMMA RunsOut ==
  ASSUME NEW a, NEW b, Runs(<<>>, a, b)
  PROVE  a = b
<1>1. Len(<<>>) = 0
  OBVIOUS
<1> QED BY <1>1 DEF Runs

(* A write at a place of the body.                                         *)
LEMMA PutIs ==
  ASSUME NEW S, NEW cells \in Seq(S), NEW at \in 1 .. Len(cells) + 1, NEW new \in Seq(S)
  PROVE  /\ Put(cells, at, new) \in Seq(S)
         /\ Len(Put(cells, at, new)) = Longer(Len(cells), at + Len(new) - 1)
         /\ \A p \in 1 .. Longer(Len(cells), at + Len(new) - 1) :
              \/ p - at + 1 \in 1 .. Len(new) /\ Put(cells, at, new)[p] = new[p - at + 1]
              \/ p \in 1 .. Len(cells) /\ Put(cells, at, new)[p] = cells[p]
<1> DEFINE m == Len(cells)
           n == Len(new)
           l == IF at + n - 1 > m THEN at + n - 1 ELSE m
           r == [p \in 1 .. l |-> IF p >= at /\ p < at + n THEN new[p - at + 1] ELSE cells[p]]
<1>1. m \in Nat /\ n \in Nat /\ at \in Nat /\ at >= 1 /\ at <= m + 1
      /\ (\A p \in 1 .. m : cells[p] \in S) /\ \A p \in 1 .. n : new[p] \in S
  OBVIOUS
<1>2. l \in Nat /\ l = Longer(m, at + n - 1)
  <2> HIDE DEF m, n
  <2> QED BY <1>1 DEF Longer
<1>3. ASSUME NEW p \in 1 .. l
      PROVE  /\ r[p] \in S
             /\ \/ p - at + 1 \in 1 .. n /\ r[p] = new[p - at + 1]
                \/ p \in 1 .. m /\ r[p] = cells[p]
  <2>1. p \in Nat /\ p >= 1 /\ p <= l
    <3> HIDE DEF l
    <3> QED BY <1>2
  <2>2. CASE p >= at /\ p < at + n
    <3>1. p - at + 1 \in 1 .. n
      <4> HIDE DEF m, n, l
      <4> QED BY <1>1, <2>1, <2>2
    <3>2. r[p] = new[p - at + 1]
      <4> HIDE DEF l, n
      <4> QED BY <2>2
    <3> HIDE DEF r, n, l
    <3> QED BY <1>1, <3>1, <3>2
  <2>3. CASE ~ (p >= at /\ p < at + n)
    <3>1. p \in 1 .. m
      <4> HIDE DEF m, n
      <4> QED BY <1>1, <2>1, <2>3
    <3>2. r[p] = cells[p]
      <4> HIDE DEF l, n
      <4> QED BY <2>3
    <3> HIDE DEF r, m, l
    <3> QED BY <1>1, <3>1, <3>2
  <2> QED BY <2>2, <2>3
<1>4. r \in Seq(S) /\ Len(r) = l
  <2>1. r = [p \in 1 .. l |-> r[p]]
    <3> HIDE DEF l
    <3> QED OBVIOUS
  <2>2. \A p \in 1 .. l : r[p] \in S
    <3> HIDE DEF r, l
    <3> QED BY <1>3
  <2>3. l \in Nat
    <3> HIDE DEF l
    <3> QED BY <1>2
  <2>4. r \in [1 .. l -> S]
    <3> HIDE DEF r, l
    <3> QED BY <2>1, <2>2
  <2> HIDE DEF r, l
  <2> QED BY <2>3, <2>4
<1>5. Put(cells, at, new) = r
  BY DEF Put
<1> HIDE DEF r, l, m, n
<1> QED BY <1>2, <1>3, <1>4, <1>5 DEF m, n

(* Cutting the file.                                                       *)
LEMMA CutIs ==
  ASSUME NEW S, NEW cells \in Seq(S), NEW l \in 0 .. Len(cells)
  PROVE  /\ SubSeq(cells, 1, l) \in Seq(S) /\ Len(SubSeq(cells, 1, l)) = l
         /\ \A p \in 1 .. l : p \in 1 .. Len(cells) /\ SubSeq(cells, 1, l)[p] = cells[p]
<1> DEFINE a == SubSeq(cells, 1, l)
<1>1. l \in Int /\ \A i \in 1 .. l : cells[i] \in S
  OBVIOUS
<1>2. a \in Seq(S) /\ Len(a) = (IF 1 <= l THEN l - 1 + 1 ELSE 0) /\ \A i \in 1 .. l - 1 + 1 : a[i] = cells[1 + i - 1]
  BY <1>1, SubSeqProperties
<1>3. Len(a) = l
  <2> HIDE DEF a
  <2> QED BY <1>2
<1>4. ASSUME NEW p \in 1 .. l PROVE p \in 1 .. Len(cells) /\ a[p] = cells[p]
  <2>1. p \in 1 .. l - 1 + 1 /\ 1 + p - 1 = p
    OBVIOUS
  <2>2. a[p] = cells[1 + p - 1]
    <3> HIDE DEF a
    <3> QED BY <1>2, <2>1
  <2> HIDE DEF a
  <2> QED BY <2>1, <2>2
<1> HIDE DEF a
<1> QED BY <1>2, <1>3, <1>4 DEF a

(* The next write, at a place that is there or right behind the file, with *)
(* cells that agree with the frame of the writer.                          *)
LEMMA WriteKeeps ==
  ASSUME GrowthInv, WriteNext
  PROVE  GrowthInv' /\ (Axis = 1 /\ PlaceInv => PlaceInv')
<1> DEFINE wr == Head(pending)
           cells == file.cells
           header == file.header
<1>1. /\ file \in File /\ header \in HeaderSet /\ cells \in Seq(Cell) /\ Len(cells) \in Nat
      /\ file = [header |-> header, cells |-> cells]
  BY DEF GrowthInv, File
<1>2. /\ pending \in Seq(Write) /\ pending # <<>> /\ pending' = Tail(pending)
      /\ Runs(pending, ShadowOf(file), Settled(writer))
  BY DEF GrowthInv, WriteNext
<1>3. wr \in Write /\ Tail(pending) \in Seq(Write)
  BY <1>2
<1>4. /\ Fits(ShadowOf(file), wr)
      /\ Runs(Tail(pending), After(ShadowOf(file), wr), Settled(writer))
  BY <1>2, RunsTail
<1>5. ShadowOf(file).size = Len(cells) /\ ShadowOf(file).header = header
  BY DEF ShadowOf
<1>6. UNCHANGED <<writer, ops, reader>>
  BY DEF WriteNext
<1>7. ASSUME PlaceInv PROVE wr.to = "body" => CellsOK(wr.at, wr.cells, writer)
  <2>1. Len(pending) \in Nat \ {0} /\ wr = pending[1]
    BY <1>2
  <2>2. WritesOK(pending, writer) /\ 1 \in 1 .. Len(pending)
    BY <1>7, <2>1 DEF PlaceInv
  <2> HIDE DEF wr
  <2> QED BY <2>1, <2>2 DEF WritesOK
<1>8. /\ file' \in File /\ ShadowOf(file') = After(ShadowOf(file), wr)
      /\ PlaceInv => CellsOK(1, file'.cells, writer)
  <2>1. CASE wr.to = "body"
    <3>1. wr \in [to : {"body"}, at : Nat, cells : Seq(Cell)]
      <4> HIDE DEF wr
      <4> QED BY <1>3, <2>1 DEF Write
    <3> DEFINE at == wr.at
               new == wr.cells
               put == Put(cells, at, new)
    <3>2. file' = [header |-> header, cells |-> put]
      <4>1. file' = [file EXCEPT !.cells = Put(file.cells, wr.at, wr.cells)]
        <5> HIDE DEF wr
        <5> QED BY <2>1, Zenon DEF WriteNext, wr
      <4> HIDE DEF wr, put, header
      <4> QED BY <1>1, <4>1 DEF put
    <3>3. at \in 1 .. Len(cells) + 1 /\ new \in Seq(Cell)
      <4> HIDE DEF wr, cells
      <4> QED BY <1>4, <1>5, <2>1, <3>1 DEF Fits
    <3>4. /\ put \in Seq(Cell) /\ Len(put) = Longer(Len(cells), at + Len(new) - 1)
          /\ \A p \in 1 .. Len(put) :
               \/ p - at + 1 \in 1 .. Len(new) /\ put[p] = new[p - at + 1]
               \/ p \in 1 .. Len(cells) /\ put[p] = cells[p]
      <4>1. cells \in Seq(Cell)
        BY <1>1
      <4> HIDE DEF cells, at, new
      <4>2. /\ put \in Seq(Cell) /\ Len(put) = Longer(Len(cells), at + Len(new) - 1)
            /\ \A p \in 1 .. Longer(Len(cells), at + Len(new) - 1) :
                 \/ p - at + 1 \in 1 .. Len(new) /\ put[p] = new[p - at + 1]
                 \/ p \in 1 .. Len(cells) /\ put[p] = cells[p]
        BY <3>3, <4>1, PutIs
      <4> HIDE DEF put
      <4> QED BY <4>2
    <3>5. file' \in File
      <4> HIDE DEF put, header
      <4> QED BY <1>1, <3>2, <3>4 DEF File
    <3>6. ShadowOf(file') = After(ShadowOf(file), wr)
      <4>1. file'.cells = put /\ file'.header = header
        <5> HIDE DEF put, header
        <5> QED BY <3>2
      <4>2. ShadowOf(file') = [size |-> Len(put), header |-> header]
        <5> HIDE DEF put, header
        <5> QED BY <4>1 DEF ShadowOf
      <4>3. After(ShadowOf(file), wr) = [size |-> Longer(Len(cells), at + Len(new) - 1), header |-> header]
        <5> HIDE DEF wr, cells, header
        <5> QED BY <1>5, <2>1 DEF After
      <4> HIDE DEF put, header, wr, cells, at, new
      <4> QED BY <3>4, <4>2, <4>3
    <3>7. ASSUME PlaceInv PROVE CellsOK(1, file'.cells, writer)
      <4>1. CellsOK(at, new, writer) /\ CellsOK(1, cells, writer)
        <5>1. CellsOK(at, new, writer)
          <6> HIDE DEF wr
          <6> QED BY <1>7, <2>1, <3>7
        <5>2. CellsOK(1, file.cells, writer)
          BY <3>7 DEF PlaceInv
        <5> QED BY <5>1, <5>2
      <4>2. ASSUME NEW p \in 1 .. Len(put) PROVE CellOK(1 + p - 1, put[p], writer)
        <5>1. 1 + p - 1 = p /\ at + (p - at + 1) - 1 = p
          <6>1. at \in Int
            <7> HIDE DEF at
            <7> QED BY <3>3
          <6> HIDE DEF at, put
          <6> QED BY <6>1
        <5>2. CASE p - at + 1 \in 1 .. Len(new) /\ put[p] = new[p - at + 1]
          <6>1. CellOK(at + (p - at + 1) - 1, new[p - at + 1], writer)
            <7> HIDE DEF at, new, put
            <7> QED BY <4>1, <5>2 DEF CellsOK
          <6> HIDE DEF at, new, put
          <6> QED BY <5>1, <5>2, <6>1
        <5>3. CASE p \in 1 .. Len(cells) /\ put[p] = cells[p]
          <6> HIDE DEF at, new, put, cells
          <6> QED BY <4>1, <5>1, <5>3 DEF CellsOK
        <5> HIDE DEF put, at, new, cells
        <5> QED BY <3>4, <5>2, <5>3
      <4>3. file'.cells = put
        <5> HIDE DEF put, header
        <5> QED BY <3>2
      <4> HIDE DEF put
      <4> QED BY <4>2, <4>3 DEF CellsOK
    <3> QED BY <3>5, <3>6, <3>7
  <2>2. CASE wr.to = "header"
    <3>1. wr \in [to : {"header"}, header : HeaderSet]
      <4> HIDE DEF wr
      <4> QED BY <1>3, <2>2 DEF Write
    <3>2. file' = [header |-> wr.header, cells |-> cells]
      <4>1. file' = [file EXCEPT !.header = wr.header]
        <5> HIDE DEF wr
        <5> QED BY <2>2, Zenon DEF WriteNext, wr
      <4> HIDE DEF wr, cells
      <4> QED BY <1>1, <4>1
    <3>3. file' \in File /\ file'.cells = cells /\ file'.header = wr.header
      <4> HIDE DEF wr, cells
      <4> QED BY <1>1, <3>1, <3>2 DEF File
    <3>4. ShadowOf(file') = After(ShadowOf(file), wr)
      <4> HIDE DEF wr, cells
      <4> QED BY <1>5, <2>2, <3>3 DEF After, ShadowOf
    <3>5. PlaceInv => CellsOK(1, file'.cells, writer)
      <4> HIDE DEF wr
      <4> QED BY <3>3 DEF PlaceInv
    <3> QED BY <3>3, <3>4, <3>5
  <2>3. CASE wr.to = "len"
    <3>1. wr \in [to : {"len"}, len : Nat]
      <4> HIDE DEF wr
      <4> QED BY <1>3, <2>3 DEF Write
    <3> DEFINE l == wr.len
               cut == SubSeq(cells, 1, l)
    <3>2. l \in 0 .. Len(cells) /\ l = header.len
      <4> HIDE DEF wr, cells, header
      <4> QED BY <1>1, <1>4, <1>5, <2>3, <3>1 DEF Fits
    <3>3. file' = [header |-> header, cells |-> cut]
      <4>1. file' = [file EXCEPT !.cells = SubSeq(file.cells, 1, wr.len), !.header.len = wr.len]
        <5> HIDE DEF wr
        <5> QED BY <2>3, Zenon DEF WriteNext, wr
      <4>2. [header EXCEPT !.len = l] = header
        <5> HIDE DEF l, header
        <5> QED BY <1>1, <3>2 DEF HeaderSet
      <4>3. file' = [header |-> [header EXCEPT !.len = l], cells |-> cut]
        <5> HIDE DEF wr
        <5> QED BY <1>1, <4>1
      <4> HIDE DEF l, header, cut
      <4> QED BY <4>2, <4>3
    <3>4. /\ cut \in Seq(Cell) /\ Len(cut) = l
          /\ \A p \in 1 .. l : p \in 1 .. Len(cells) /\ cut[p] = cells[p]
      <4> HIDE DEF cells, l
      <4> QED BY <1>1, <3>2, CutIs
    <3>5. file' \in File /\ file'.cells = cut /\ file'.header = header
      <4> HIDE DEF header, cut
      <4> QED BY <1>1, <3>3, <3>4 DEF File
    <3>6. ShadowOf(file') = After(ShadowOf(file), wr)
      <4>1. ShadowOf(file') = [size |-> l, header |-> header]
        <5> HIDE DEF header, cut, l
        <5> QED BY <3>4, <3>5 DEF ShadowOf
      <4> HIDE DEF wr, header
      <4> QED BY <1>5, <2>3, <4>1 DEF After
    <3>7. ASSUME PlaceInv PROVE CellsOK(1, file'.cells, writer)
      <4>1. CellsOK(1, cells, writer)
        BY <3>7 DEF PlaceInv
      <4>2. ASSUME NEW p \in 1 .. l PROVE CellOK(1 + p - 1, cut[p], writer)
        <5> HIDE DEF cut, cells, l
        <5> QED BY <3>4, <4>1 DEF CellsOK
      <4> HIDE DEF cut, l
      <4> QED BY <3>4, <3>5, <4>2 DEF CellsOK
    <3> QED BY <3>5, <3>6, <3>7
  <2> HIDE DEF wr
  <2> QED BY <1>3, <2>1, <2>2, <2>3 DEF Write
<1>9. GrowthInv'
  <2>1. pending' \in Seq(Write) /\ Runs(pending', ShadowOf(file'), Settled(writer'))
    <3> HIDE DEF wr
    <3> QED BY <1>2, <1>3, <1>4, <1>6, <1>8
  <2> QED BY <1>6, <1>8, <2>1 DEF GrowthInv
<1>10. ASSUME Axis = 1, PlaceInv PROVE PlaceInv'
  <2>1. WritesOK(pending', writer)
    <3>1. /\ Len(pending) \in Nat \ {0} /\ Len(Tail(pending)) = Len(pending) - 1
          /\ \A j \in 1 .. Len(pending) - 1 : Tail(pending)[j] = pending[j + 1] /\ j + 1 \in 1 .. Len(pending)
      BY <1>2
    <3> QED BY <1>2, <1>10, <3>1 DEF PlaceInv, WritesOK
  <2>2. ReaderOK' /\ ReadsInPlace'
    BY <1>6, <1>10 DEF PlaceInv, ReaderOK, ReadsInPlace
  <2> QED BY <1>6, <1>8, <1>10, <2>1, <2>2 DEF PlaceInv
<1> QED BY <1>9, <1>10

(* An operation begins when nothing is pending: the writes lead from the   *)
(* file to the new frame, and what there is agrees with that frame too.    *)
LEMMA OperationKeeps ==
  ASSUME GrowthInv, NEW t \in Result(writer), Begins(t)
  PROVE  GrowthInv' /\ (Axis = 1 /\ PlaceInv => PlaceInv')
<1>1. /\ pending = <<>> /\ ops' \in 0 .. MaxOps /\ writer' = t.w /\ pending' = t.writes
      /\ UNCHANGED <<file, reader>>
  BY GrowthAssumption DEF Begins, GrowthInv
<1>2. /\ t.w \in Frame /\ t.writes \in Seq(Write) /\ Len(t.w.entries) = NdSize(t.w.shape)
      /\ Runs(t.writes, Settled(writer), Settled(t.w))
      /\ Axis = 1 /\ FrameOK(writer) => Follows(writer, t.w) /\ FrameOK(t.w) /\ WritesOK(t.writes, t.w)
  BY DEF Result
<1>3. ShadowOf(file) = Settled(writer)
  <2>1. Runs(<<>>, ShadowOf(file), Settled(writer))
    BY <1>1 DEF GrowthInv
  <2> QED BY <2>1, RunsOut
<1>4. GrowthInv'
  <2>1. ShadowOf(file') = Settled(writer)
    BY <1>1, <1>3
  <2> QED BY <1>1, <1>2, <2>1 DEF GrowthInv
<1>5. ASSUME Axis = 1, PlaceInv PROVE PlaceInv'
  <2>1. Follows(writer, t.w) /\ FrameOK(t.w) /\ WritesOK(t.writes, t.w)
    BY <1>2, <1>5 DEF PlaceInv
  <2>2. CellsOK(1, file.cells, t.w)
    <3> DEFINE one == 1
               cells == file.cells
    <3>1. one \in Nat /\ cells \in Seq(Cell) /\ CellsOK(one, cells, writer) /\ writer \in Frame
      BY <1>5 DEF PlaceInv, GrowthInv, File
    <3> HIDE DEF one, cells
    <3>2. CellsOK(one, cells, t.w)
      BY <1>2, <2>1, <3>1, CellsFollow
    <3> QED BY <3>2 DEF one, cells
  <2>3. ReaderOK'
    <3>1. reader.index # None => IndexOK(reader.index, t.w)
      <4> SUFFICES ASSUME reader.index # None PROVE IndexOK(reader.index, t.w)
        OBVIOUS
      <4>1. IndexOK(reader.index, writer)
        BY <1>5 DEF PlaceInv, ReaderOK
      <4> QED BY <2>1, <4>1, IndexFollows
    <3> QED BY <1>1, <1>5, <3>1 DEF PlaceInv, ReaderOK
  <2>4. ReadsInPlace'
    BY <1>1, <1>5 DEF PlaceInv, ReadsInPlace
  <2> QED BY <1>1, <2>1, <2>2, <2>3, <2>4 DEF PlaceInv
<1> QED BY <1>4, <1>5

(* extend_shape builds the chunks of the new places, then the shape.       *)
LEMMA ExtendKeeps ==
  ASSUME GrowthInv, Extend
  PROVE  GrowthInv' /\ (Axis = 1 /\ PlaceInv => PlaceInv')
<1> DEFINE m == writer.shape[Axis] + 1
           t == ExtendShape([w |-> writer, writes |-> <<>>], [writer.shape EXCEPT ![Axis] = m])
<1>1. /\ writer \in Frame /\ Len(writer.entries) = NdSize(writer.shape)
  BY DEF GrowthInv
<1>2. writer.shape[Axis] \in Nat
  BY <1>1 DEF Frame, Shape, DifferAt
<1>3. m \in Nat /\ writer.shape[Axis] <= m
  BY <1>2
<1>4. /\ t \in Build(writer) /\ t.w.shape = [writer.shape EXCEPT ![Axis] = m]
      /\ Len(t.w.entries) = NdSize([writer.shape EXCEPT ![Axis] = m])
  <2> HIDE DEF m
  <2> QED BY <1>1, <1>3, ExtendBuilds
<1>5. t \in Result(writer)
  <2>1. Len(t.w.entries) = NdSize(t.w.shape)
    BY <1>4
  <2> HIDE DEF t
  <2> QED BY <1>1, <1>4, <2>1, BuildResult
<1>6. Begins(t)
  BY DEF Extend, Start
<1> HIDE DEF t
<1> QED BY <1>5, <1>6, OperationKeeps

(* shrink_shape builds the shape, then removes the chunks of zeros.        *)
LEMMA ShrinkKeeps ==
  ASSUME GrowthInv, Shrink
  PROVE  GrowthInv' /\ (Axis = 1 /\ PlaceInv => PlaceInv')
<1> DEFINE m == writer.shape[Axis] - 1
           new == [writer.shape EXCEPT ![Axis] = m]
           t == ShrinkShape([w |-> writer, writes |-> <<>>], new)
<1>1. /\ writer \in Frame /\ Len(writer.entries) = NdSize(writer.shape)
  BY DEF GrowthInv
<1>2. writer.shape \in Shape /\ writer.shape[Axis] \in Nat \ {0}
  BY <1>1, SMTT(20) DEF Frame, Shape, DifferAt
<1>3. m \in Nat /\ m <= writer.shape[Axis]
  BY <1>2
<1>4. new[Axis] = m
  <2> HIDE DEF m
  <2> QED BY <1>2, <1>3, ShapeChanged
<1>5. ASSUME NEW k \in 1 .. Len(writer.entries), Places(writer.shape)[k][Axis] >= m
      PROVE  writer.entries[k] = Zeros
  <2>1. k \in DOMAIN writer.entries
    BY <1>1 DEF Frame
  <2>2. \A j \in DOMAIN writer.entries : Places(writer.shape)[j][Axis] >= new[Axis] => writer.entries[j] = Zeros
    BY DEF Shrink
  <2> HIDE DEF m, new
  <2> QED BY <1>4, <1>5, <2>1, <2>2
<1>6. t \in Build(writer) /\ t.w.shape = new /\ Len(t.w.entries) = NdSize(new)
  <2> HIDE DEF m
  <2> QED BY <1>1, <1>3, <1>5, ShrinkBuilds
<1>7. t \in Result(writer)
  <2>1. Len(t.w.entries) = NdSize(t.w.shape)
    BY <1>6
  <2> HIDE DEF t
  <2> QED BY <1>1, <1>6, <2>1, BuildResult
<1>8. Begins(t)
  BY DEF Shrink, Start
<1> HIDE DEF t
<1> QED BY <1>7, <1>8, OperationKeeps

(* An update of a chunk builds its data, then the index that points at it. *)
LEMMA FillKeeps ==
  ASSUME GrowthInv, Fill
  PROVE  GrowthInv' /\ (Axis = 1 /\ PlaceInv => PlaceInv')
<1>1. /\ writer \in Frame /\ Len(writer.entries) = NdSize(writer.shape)
  BY DEF GrowthInv
<1>2. PICK k \in DOMAIN writer.entries :
        Begins(UpdateChunk([w |-> writer, writes |-> <<>>], k, Places(writer.shape)[k]))
  BY DEF Fill, Start
<1>3. k \in 1 .. Len(writer.entries)
  BY <1>1, <1>2 DEF Frame
<1> DEFINE t == UpdateChunk([w |-> writer, writes |-> <<>>], k, Places(writer.shape)[k])
<1>4. t \in Result(writer) /\ Begins(t)
  BY <1>1, <1>2, <1>3, UpdateBuilds
<1> HIDE DEF t
<1> QED BY <1>4, OperationKeeps

-----------------------------------------------------------------------------
(* The steps of the reader change nothing but the reader, and most of them *)
(* neither the index, nor the place it wants, nor what it got.             *)
LEMMA ReaderKeeps ==
  ASSUME GrowthInv, reader' \in Reader, UNCHANGED <<file, writer, pending, ops>>
  PROVE  /\ GrowthInv'
         /\ PlaceInv /\ ReaderOK' /\ ReadsInPlace' => PlaceInv'
<1>1. GrowthInv'
  BY DEF GrowthInv
<1>2. ASSUME PlaceInv, ReaderOK', ReadsInPlace' PROVE PlaceInv'
  BY <1>2 DEF PlaceInv
<1> QED BY <1>1, <1>2

(* A step of the reader that keeps its index, its place and its result.    *)
LEMMA QuietKeeps ==
  ASSUME GrowthInv, reader' \in Reader, UNCHANGED <<file, writer, pending, ops>>,
         reader'.index \in {reader.index, None}, reader'.nchunk = reader.nchunk,
         reader'.want = reader.want, reader'.got = reader.got, reader'.pc # "chunk"
  PROVE  GrowthInv' /\ (Axis = 1 /\ PlaceInv => PlaceInv')
<1>1. ASSUME PlaceInv PROVE ReaderOK' /\ ReadsInPlace'
  <2>1. /\ reader.index # None => IndexOK(reader.index, writer)
        /\ reader.nchunk > 0 => reader.want = Place(reader.nchunk)
        /\ ReadsInPlace
    BY <1>1 DEF PlaceInv, ReaderOK
  <2>2. ReaderOK'
    BY <2>1 DEF ReaderOK
  <2>3. ReadsInPlace'
    BY <2>1 DEF ReadsInPlace
  <2> QED BY <2>2, <2>3
<1> QED BY <1>1, ReaderKeeps

(* A read of the header.                                                   *)
LEMMA HeaderRead ==
  ASSUME GrowthInv, NEW after \in {"geometry", "index"}, ReadHeader(after)
  PROVE  /\ reader' \in Reader /\ UNCHANGED <<file, writer, pending, ops>>
         /\ reader'.index = reader.index /\ reader'.nchunk = reader.nchunk
         /\ reader'.want = reader.want /\ reader'.got = reader.got
         /\ reader'.pc \in {"trailer", after}
<1>1. reader \in Reader /\ file.header \in HeaderSet
  BY DEF GrowthInv, File
<1>2. PICK pc \in {"trailer", after} :
        reader' = [reader EXCEPT !.hdr = file.header, !.after = after, !.pc = pc]
  <2>1. UNCHANGED <<file, writer, pending, ops>>
        /\ reader' = [reader EXCEPT !.hdr = file.header, !.after = after,
                                    !.pc = IF reader.force \/ file.header.len # reader.len THEN "trailer" ELSE after]
    BY Zenon DEF ReadHeader, Reads
  <2>2. CASE reader.force \/ file.header.len # reader.len
    BY <2>1, <2>2
  <2>3. CASE ~ (reader.force \/ file.header.len # reader.len)
    BY <2>1, <2>3
  <2> QED BY <2>2, <2>3
<1>3. UNCHANGED <<file, writer, pending, ops>>
  BY Zenon DEF ReadHeader, Reads
<1>4. pc \in {"trailer", "geometry", "index"}
  OBVIOUS
<1>5. reader' \in Reader
  BY <1>1, <1>2, <1>4 DEF Reader
<1>6. /\ reader'.index = reader.index /\ reader'.nchunk = reader.nchunk
      /\ reader'.want = reader.want /\ reader'.got = reader.got /\ reader'.pc = pc
  BY <1>1, <1>2 DEF Reader
<1> QED BY <1>3, <1>5, <1>6

(* The check of frame_refresh_if_stale.                                    *)
LEMMA PollKeeps ==
  ASSUME GrowthInv, Poll
  PROVE  GrowthInv' /\ (Axis = 1 /\ PlaceInv => PlaceInv')
<1> DEFINE after == "geometry"
<1>1. ReadHeader(after) /\ after \in {"geometry", "index"} /\ after # "chunk"
  BY DEF Poll
<1> HIDE DEF after
<1>2. /\ reader' \in Reader /\ UNCHANGED <<file, writer, pending, ops>>
      /\ reader'.index = reader.index /\ reader'.nchunk = reader.nchunk
      /\ reader'.want = reader.want /\ reader'.got = reader.got
      /\ reader'.pc \in {"trailer", after}
  BY <1>1, HeaderRead
<1>3. reader'.pc # "chunk"
  BY <1>1, <1>2
<1> QED BY <1>2, <1>3, QuietKeeps

(* The trailer, at the length of the header that was read.                 *)
LEMMA TrailerKeeps ==
  ASSUME GrowthInv, ReadTrailer
  PROVE  GrowthInv' /\ (Axis = 1 /\ PlaceInv => PlaceInv')
<1>1. reader \in Reader /\ reader.hdr.len \in Nat /\ reader.after \in {"geometry", "index"}
  BY DEF GrowthInv, Reader, HeaderSet
<1>2. /\ UNCHANGED <<file, writer, pending, ops>>
      /\ \/ reader' = [reader EXCEPT !.oldLen = reader.len, !.len = reader.hdr.len, !.force = FALSE,
                                     !.tries = 1, !.pc = "metas"]
         \/ reader' = [reader EXCEPT !.pc = reader.after]
  BY Zenon DEF ReadTrailer, Reads
<1>3. 1 \in 0 .. MaxAttempts /\ reader.len \in Nat
  BY <1>1, GrowthAssumption DEF Reader
<1> DEFINE len == reader.hdr.len
           oldLen == reader.len
           after == reader.after
           r == [reader EXCEPT !.oldLen = oldLen, !.len = len, !.force = FALSE, !.tries = 1, !.pc = "metas"]
           s == [reader EXCEPT !.pc = after]
<1>4. /\ r \in Reader /\ r.index = reader.index /\ r.nchunk = reader.nchunk
      /\ r.want = reader.want /\ r.got = reader.got /\ r.pc # "chunk"
  <2>1. len \in Nat /\ oldLen \in Nat
    BY <1>1, <1>3
  <2> HIDE DEF len, oldLen
  <2> QED BY <1>1, <1>3, <2>1 DEF Reader
<1>5. /\ s \in Reader /\ s.index = reader.index /\ s.nchunk = reader.nchunk
      /\ s.want = reader.want /\ s.got = reader.got /\ s.pc # "chunk"
  <2>1. after \in {"geometry", "index"}
    BY <1>1
  <2> HIDE DEF after
  <2> QED BY <1>1, <2>1 DEF Reader
<1> HIDE DEF r, s
<1> QED BY <1>2, <1>4, <1>5, QuietKeeps DEF r, s

(* The metalayers, from the header as it is now.                           *)
LEMMA MetasKeep ==
  ASSUME GrowthInv, ReadMetalayers
  PROVE  GrowthInv' /\ (Axis = 1 /\ PlaceInv => PlaceInv')
<1>1. reader \in Reader /\ file.header.shape \in Shape
  BY DEF GrowthInv, File, HeaderSet
<1>2. /\ UNCHANGED <<file, writer, pending, ops>>
      /\ reader' = [reader EXCEPT !.metas = file.header.shape, !.vlmetas = FALSE, !.pc = "vlmetas"]
  BY Zenon DEF ReadMetalayers, Reads
<1>3. reader' \in Reader
  BY <1>1, <1>2 DEF Reader
<1>4. /\ reader'.index = reader.index /\ reader'.nchunk = reader.nchunk
      /\ reader'.want = reader.want /\ reader'.got = reader.got /\ reader'.pc # "chunk"
  BY <1>1, <1>2 DEF Reader
<1> QED BY <1>2, <1>3, <1>4, QuietKeeps

(* The variable-length metalayers: refreshed, tried again or rolled back.  *)
LEMMA VlmetasKeep ==
  ASSUME GrowthInv, ReadVlmetalayers
  PROVE  GrowthInv' /\ (Axis = 1 /\ PlaceInv => PlaceInv')
<1>1. reader \in Reader /\ reader.hdr.n \in Nat /\ reader.after \in {"geometry", "index"}
      /\ reader.oldLen \in Nat /\ reader.tries \in 0 .. MaxAttempts
  BY DEF GrowthInv, Reader, HeaderSet
<1> DEFINE n == reader.hdr.n
           after == reader.after
           oldLen == reader.oldLen
           tries == reader.tries + 1
           r == [reader EXCEPT !.vlmetas = TRUE, !.newer = TRUE, !.index = None, !.n = n, !.pc = after]
           s == [reader EXCEPT !.tries = tries, !.pc = "metas"]
           t == [reader EXCEPT !.len = oldLen, !.force = TRUE, !.pc = after]
<1>2. /\ UNCHANGED <<file, writer, pending, ops>>
      /\ reader' = r \/ (reader' = s /\ reader.tries < MaxAttempts) \/ reader' = t
  <2>1. /\ UNCHANGED <<file, writer, pending, ops>>
        /\ reader' = IF CellAt(reader.len).kind = "trailer" THEN r
                     ELSE IF reader.tries < MaxAttempts THEN s ELSE t
    BY Zenon DEF ReadVlmetalayers, Reads, Refreshed, RollBack
  <2> HIDE DEF r, s, t
  <2> QED BY <2>1
<1>3. /\ r \in Reader /\ r.index \in {reader.index, None} /\ r.nchunk = reader.nchunk
      /\ r.want = reader.want /\ r.got = reader.got /\ r.pc # "chunk"
  <2>1. n \in Nat /\ after \in {"geometry", "index"}
    BY <1>1
  <2> HIDE DEF n, after
  <2> QED BY <1>1, <2>1 DEF Reader
<1>4. /\ reader.tries < MaxAttempts => s \in Reader
      /\ s.index \in {reader.index, None} /\ s.nchunk = reader.nchunk
      /\ s.want = reader.want /\ s.got = reader.got /\ s.pc # "chunk"
  <2>1. reader.tries < MaxAttempts => tries \in 0 .. MaxAttempts
    BY <1>1, GrowthAssumption
  <2> HIDE DEF tries
  <2> QED BY <1>1, <2>1 DEF Reader
<1>5. /\ t \in Reader /\ t.index \in {reader.index, None} /\ t.nchunk = reader.nchunk
      /\ t.want = reader.want /\ t.got = reader.got /\ t.pc # "chunk"
  <2>1. oldLen \in Nat /\ after \in {"geometry", "index"}
    BY <1>1
  <2> HIDE DEF oldLen, after
  <2> QED BY <1>1, <2>1 DEF Reader
<1> HIDE DEF r, s, t
<1> QED BY <1>2, <1>3, <1>4, <1>5, QuietKeeps

(* The shape follows the metalayers.                                       *)
LEMMA GeometryKeeps ==
  ASSUME GrowthInv, Geometry
  PROVE  GrowthInv' /\ (Axis = 1 /\ PlaceInv => PlaceInv')
<1>1. reader \in Reader
  BY DEF GrowthInv
<1> DEFINE shape == IF reader.newer THEN reader.metas ELSE reader.shape
           r == [reader EXCEPT !.shape = shape, !.newer = FALSE, !.pc = "ready"]
<1>2. UNCHANGED <<file, writer, pending, ops>> /\ reader' = r
  BY Zenon DEF Geometry, Reads
<1>3. /\ r \in Reader /\ r.index = reader.index /\ r.nchunk = reader.nchunk
      /\ r.want = reader.want /\ r.got = reader.got /\ r.pc # "chunk"
  <2>1. shape \in Shape
    BY <1>1 DEF Reader
  <2> HIDE DEF shape
  <2> QED BY <1>1, <2>1 DEF Reader
<1> HIDE DEF r
<1> QED BY <1>2, <1>3, QuietKeeps

(* A poll ends without a read.                                             *)
LEMMA RefreshKeeps ==
  ASSUME GrowthInv, Refresh
  PROVE  GrowthInv' /\ (Axis = 1 /\ PlaceInv => PlaceInv')
<1>1. reader \in Reader
  BY DEF GrowthInv
<1> DEFINE r == [reader EXCEPT !.pc = "idle"]
<1>2. UNCHANGED <<file, writer, pending, ops>> /\ reader' = r
  BY Zenon DEF Refresh, Reads
<1>3. /\ r \in Reader /\ r.index = reader.index /\ r.nchunk = reader.nchunk
      /\ r.want = reader.want /\ r.got = reader.got /\ r.pc # "chunk"
  BY <1>1 DEF Reader
<1> HIDE DEF r
<1> QED BY <1>2, <1>3, QuietKeeps

(* The reader asks for chunk k of the shape that it knows, which is the    *)
(* chunk of Place(k).                                                      *)
LEMMA GetChunkKeeps ==
  ASSUME GrowthInv, GetChunk
  PROVE  GrowthInv' /\ (Axis = 1 /\ PlaceInv => PlaceInv')
<1>1. reader \in Reader /\ reader.shape \in Shape /\ file.header \in HeaderSet
  BY DEF GrowthInv, Reader, File
<1>2. UNCHANGED <<file, writer, pending, ops>>
  BY Zenon DEF GetChunk, Reads
<1>3. PICK k \in 1 .. NdSize(reader.shape), pc \in {"trailer", "index"} :
        reader' = [reader EXCEPT !.want = Places(reader.shape)[k], !.nchunk = k, !.hdr = file.header,
                                 !.after = "index", !.pc = pc]
  <2>1. PICK k \in 1 .. NdSize(reader.shape) :
          reader' = [reader EXCEPT !.want = Places(reader.shape)[k], !.nchunk = k, !.hdr = file.header,
                                   !.after = "index",
                                   !.pc = IF reader.force \/ file.header.len # reader.len THEN "trailer" ELSE "index"]
    BY Zenon DEF GetChunk, Reads
  <2>2. CASE reader.force \/ file.header.len # reader.len
    BY <2>1, <2>2
  <2>3. CASE ~ (reader.force \/ file.header.len # reader.len)
    BY <2>1, <2>3
  <2> QED BY <2>2, <2>3
<1> DEFINE place == Places(reader.shape)[k]
           hdr == file.header
           r == [reader EXCEPT !.want = place, !.nchunk = k, !.hdr = hdr, !.after = "index", !.pc = pc]
<1>4. reader' = r
  BY <1>3
<1>5. place \in PlaceSet /\ k \in Nat /\ (Axis = 1 => place = Place(k))
  BY <1>1, PlaceIs, SizeIs
<1>6. /\ r \in Reader /\ r.index = reader.index /\ r.nchunk = k /\ r.want = place
      /\ r.got = reader.got /\ r.pc # "chunk"
  <2>1. hdr \in HeaderSet /\ pc \in {"trailer", "index"}
    BY <1>1
  <2> HIDE DEF place, hdr
  <2> QED BY <1>1, <1>5, <2>1 DEF Reader
<1>7. ASSUME Axis = 1, PlaceInv PROVE ReaderOK' /\ ReadsInPlace'
  <2>1. (reader.index # None => IndexOK(reader.index, writer)) /\ ReadsInPlace
    BY <1>7 DEF PlaceInv, ReaderOK
  <2> HIDE DEF r, place
  <2>2. ReaderOK'
    BY <1>2, <1>4, <1>5, <1>6, <1>7, <2>1 DEF ReaderOK
  <2>3. ReadsInPlace'
    BY <1>4, <1>6, <2>1 DEF ReadsInPlace
  <2> QED BY <2>2, <2>3
<1> HIDE DEF r
<1> QED BY <1>2, <1>4, <1>6, <1>7, ReaderKeeps

(* Behind the first chunks the place is behind the first shape.            *)
LEMMA PlaceBeyond ==
  ASSUME Axis = 1, NEW k \in Nat, k > FirstChunks
  PROVE  \E d \in DOMAIN InitShape : Place(k)[d] >= InitShape[d]
<1> DEFINE s == InitShape
           one == 1
           i == k - 1
<1>1. s \in Shape /\ DifferAt(s, s, one)
  BY InitShapeIs, ShapesDiffer
<1>2. PICK before, after \in Nat \ {0} :
         NdSize(s) = before * (s[one] * after) /\ NdStrides(s)[one] = after /\ (one = 1 => before = 1)
  <2> HIDE DEF s, one
  <2> QED BY <1>1, GridSplit
<1>3. one \in DOMAIN s /\ s[one] \in Nat
  BY <1>1 DEF DifferAt
<1>4. s[one] * after \in Nat /\ NdSize(s) = s[one] * after
  <2>1. s[one] * after \in Nat
    <3> HIDE DEF one, s
    <3> QED BY <1>2, <1>3
  <2>2. \A x \in Nat : 1 * x = x
    OBVIOUS
  <2> HIDE DEF s
  <2> QED BY <1>2, <2>1, <2>2
<1>5. i \in Nat /\ i >= s[one] * after
  BY <1>4 DEF FirstChunks
<1>6. Place(k)[one] = i \div after
  <2>1. Place(k) = [d \in DOMAIN s |-> IF d = 1 THEN i \div NdStrides(s)[1]
                                       ELSE (i % NdStrides(s)[d - 1]) \div NdStrides(s)[d]]
    BY DEF Place, UnidimToMultidim
  <2> HIDE DEF i, s
  <2> QED BY <1>2, <1>3, <2>1
<1>7. i \div after >= s[one]
  <2>1. i \div after \in Nat /\ ~ (i < s[one] * after)
    <3> HIDE DEF i, one, s
    <3> QED BY <1>2, <1>4, <1>5
  <2>2. i \div after < s[one] <=> i < s[one] * after
    <3> HIDE DEF i, one, s
    <3> QED BY <1>2, <1>3, <1>5, DivBelow
  <2> HIDE DEF i, one, s
  <2> QED BY <1>3, <2>1, <2>2
<1> HIDE DEF one, i
<1> QED BY <1>3, <1>6, <1>7 DEF s

(* A cell of the file is a cell, and agrees with the frame of the writer.  *)
LEMMA CellAtIs ==
  ASSUME GrowthInv, NEW p, CellAt(p).kind \in {"data", "index"}
  PROVE  /\ p \in Nat /\ CellAt(p) \in Cell
         /\ CellAt(p).kind = "data" => CellAt(p).place \in PlaceSet
         /\ CellAt(p).kind = "index" => CellAt(p).entries \in Seq(Entry)
         /\ PlaceInv => CellOK(p, CellAt(p), writer)
<1>1. file.cells \in Seq(Cell)
  BY DEF GrowthInv, File
<1>2. p \in DOMAIN file.cells
  <2> SUFFICES ASSUME p \notin DOMAIN file.cells PROVE FALSE
    OBVIOUS
  <2>1. CellAt(p) = [kind |-> "none"]
    BY DEF CellAt
  <2> QED BY <2>1
<1>3. p \in 1 .. Len(file.cells) /\ p \in Nat /\ CellAt(p) = file.cells[p] /\ CellAt(p) \in Cell
  BY <1>1, <1>2 DEF CellAt
<1>4. CellAt(p).kind = "data" => CellAt(p).place \in PlaceSet
  <2> HIDE DEF CellAt
  <2> QED BY <1>3 DEF Cell
<1>5. CellAt(p).kind = "index" => CellAt(p).entries \in Seq(Entry)
  BY <1>3 DEF Cell
<1>6. ASSUME PlaceInv PROVE CellOK(p, CellAt(p), writer)
  <2>1. CellOK(1 + p - 1, file.cells[p], writer)
    BY <1>3, <1>6 DEF PlaceInv, CellsOK
  <2>2. 1 + p - 1 = p
    BY <1>3
  <2> QED BY <1>3, <2>1, <2>2
<1> QED BY <1>3, <1>4, <1>5, <1>6

(* The index that the reader takes from the file.                          *)
LEMMA IndexReadIs ==
  ASSUME GrowthInv
  PROVE  /\ IndexRead \in Seq(Entry) \cup {None}
         /\ PlaceInv /\ IndexRead # None => IndexOK(IndexRead, writer)
<1> DEFINE first == reader.hdr.cbytes + 1
           cell == CellAt(first)
<1>1. \/ IndexRead = None
      \/ IndexRead = <<>>
      \/ cell.kind = "index" /\ IndexRead = cell.entries
  BY DEF IndexRead
<1>2. ASSUME cell.kind = "index"
      PROVE  cell.entries \in Seq(Entry) /\ (PlaceInv => IndexOK(cell.entries, writer))
  <2>1. cell.entries \in Seq(Entry) /\ (PlaceInv => CellOK(first, cell, writer))
    <3> HIDE DEF first
    <3> QED BY <1>2, CellAtIs
  <2> HIDE DEF cell
  <2> QED BY <1>2, <2>1 DEF CellOK
<1>3. <<>> \in Seq(Entry) /\ IndexOK(<<>>, writer)
  BY DEF IndexOK
<1> HIDE DEF cell
<1> QED BY <1>1, <1>2, <1>3

(* The offset of the chunk.  A chunk of zeros is none of the first chunks, *)
(* by the index whatever its age.                                          *)
LEMMA CoffsetKeeps ==
  ASSUME GrowthInv, GetCoffset
  PROVE  GrowthInv' /\ (Axis = 1 /\ PlaceInv => PlaceInv')
<1> DEFINE index == IF reader.index = None THEN IndexRead ELSE reader.index
           Got(c) == [place |-> reader.want, chunk |-> c]
           none == [reader EXCEPT !.got = Got(Error), !.pc = "idle"]
           fail == [reader EXCEPT !.index = index, !.pc = "idle", !.got = Got(Error)]
           zeros == [reader EXCEPT !.index = index, !.pc = "idle", !.got = Got(Zeros)]
           found == [reader EXCEPT !.index = index, !.pc = "chunk"]
<1>1. reader \in Reader
  BY DEF GrowthInv
<1>2. UNCHANGED <<file, writer, pending, ops>>
  BY Zenon DEF GetCoffset, Reads, Ends
<1>3. /\ index \in Seq(Entry) \cup {None}
      /\ PlaceInv /\ index # None => IndexOK(index, writer)
  <2>1. reader.index \in Seq(Entry) \cup {None}
    BY <1>1 DEF Reader
  <2>2. PlaceInv /\ reader.index # None => IndexOK(reader.index, writer)
    BY DEF PlaceInv, ReaderOK
  <2> QED BY <2>1, <2>2, IndexReadIs
<1>4. \/ reader' = none
      \/ index # None /\ reader' = fail
      \/ index # None /\ reader.nchunk \in DOMAIN index /\ index[reader.nchunk] = Zeros /\ reader' = zeros
      \/ index # None /\ reader.nchunk \in DOMAIN index /\ index[reader.nchunk] # Zeros /\ reader' = found
  <2>1. IF reader.nchunk > reader.hdr.n \/ index = None THEN reader' = none
        ELSE IF reader.nchunk \notin DOMAIN index THEN reader' = fail
        ELSE IF index[reader.nchunk] = Zeros THEN reader' = zeros
        ELSE reader' = found
    BY Zenon DEF GetCoffset, Reads, Ends
  <2> HIDE DEF index, none, fail, zeros, found
  <2> QED BY <2>1
<1>5. Got(Error) \in [place : PlaceSet, chunk : PlaceSet \cup {Zeros, Error}]
      /\ Got(Zeros) \in [place : PlaceSet, chunk : PlaceSet \cup {Zeros, Error}]
  BY <1>1 DEF Reader
<1>6. /\ none \in Reader /\ none.index = reader.index /\ none.nchunk = reader.nchunk
      /\ none.want = reader.want /\ none.got = Got(Error) /\ none.pc = "idle"
  <2> HIDE DEF Got
  <2> QED BY <1>1, <1>5 DEF Reader
<1>7. /\ fail \in Reader /\ fail.index = index /\ fail.nchunk = reader.nchunk
      /\ fail.want = reader.want /\ fail.got = Got(Error) /\ fail.pc = "idle"
  <2> HIDE DEF Got, index
  <2> QED BY <1>1, <1>3, <1>5 DEF Reader
<1>8. /\ zeros \in Reader /\ zeros.index = index /\ zeros.nchunk = reader.nchunk
      /\ zeros.want = reader.want /\ zeros.got = Got(Zeros) /\ zeros.pc = "idle"
  <2> HIDE DEF Got, index
  <2> QED BY <1>1, <1>3, <1>5 DEF Reader
<1>9. /\ found \in Reader /\ found.index = index /\ found.nchunk = reader.nchunk
      /\ found.want = reader.want /\ found.got = reader.got /\ found.pc = "chunk"
  <2> HIDE DEF index
  <2> QED BY <1>1, <1>3 DEF Reader
<1>10. reader' \in Reader
  <2> HIDE DEF none, fail, zeros, found
  <2> QED BY <1>4, <1>6, <1>7, <1>8, <1>9
<1>11. ASSUME Axis = 1, PlaceInv PROVE ReaderOK' /\ ReadsInPlace'
  <2>1. /\ reader.index # None => IndexOK(reader.index, writer)
        /\ reader.nchunk > 0 => reader.want = Place(reader.nchunk)
        /\ ReadsInPlace
        /\ index # None => IndexOK(index, writer)
    BY <1>3, <1>11 DEF PlaceInv, ReaderOK
  <2>2. DOMAIN index = 1 .. Len(index) \/ index = None
    <3> HIDE DEF index
    <3> QED BY <1>3
  <2>3. Got(Error).chunk = Error /\ Got(Zeros).chunk = Zeros /\ Got(Zeros).place = reader.want
    OBVIOUS
  <2> HIDE DEF index, none, fail, zeros, found, Got
  <2>4. CASE reader' = none
    <3>1. ReaderOK'
      BY <1>2, <1>6, <2>1, <2>4 DEF ReaderOK
    <3>2. ReadsInPlace'
      BY <1>6, <2>3, <2>4 DEF ReadsInPlace
    <3> QED BY <3>1, <3>2
  <2>5. CASE index # None /\ reader' = fail
    <3>1. ReaderOK'
      BY <1>2, <1>7, <2>1, <2>5 DEF ReaderOK
    <3>2. ReadsInPlace'
      BY <1>7, <2>3, <2>5 DEF ReadsInPlace
    <3> QED BY <3>1, <3>2
  <2>6. CASE /\ index # None /\ reader.nchunk \in DOMAIN index /\ index[reader.nchunk] = Zeros
             /\ reader' = zeros
    <3>1. ReaderOK'
      BY <1>2, <1>8, <2>1, <2>6 DEF ReaderOK
    <3>2. reader.nchunk \in 1 .. Len(index) /\ Len(index) \in Nat /\ FirstChunks \in Nat
      BY <1>3, <2>2, <2>6, InitShapeIs, SizeIs DEF FirstChunks
    <3>3. reader.nchunk \in Nat /\ reader.nchunk > FirstChunks
      BY <2>1, <2>6, <3>2 DEF IndexOK
    <3>4. reader.want = Place(reader.nchunk)
      BY <2>1, <3>2
    <3>5. \E d \in DOMAIN InitShape : reader.want[d] >= InitShape[d]
      BY <1>11, <3>3, <3>4, PlaceBeyond
    <3>6. ReadsInPlace'
      BY <1>8, <2>3, <2>6, <3>5 DEF ReadsInPlace
    <3> QED BY <3>1, <3>6
  <2>7. CASE /\ index # None /\ reader.nchunk \in DOMAIN index /\ index[reader.nchunk] # Zeros
             /\ reader' = found
    <3>1. ReaderOK'
      BY <1>2, <1>9, <2>1, <2>2, <2>7 DEF ReaderOK
    <3>2. ReadsInPlace'
      BY <1>9, <2>1, <2>7 DEF ReadsInPlace
    <3> QED BY <3>1, <3>2
  <2> QED BY <1>4, <2>4, <2>5, <2>6, <2>7
<1> HIDE DEF index, none, fail, zeros, found
<1> QED BY <1>2, <1>10, <1>11, ReaderKeeps

(* The data of the chunk: the cell that an index of any age names is still *)
(* that of the chunk.                                                      *)
LEMMA ChunkKeeps ==
  ASSUME GrowthInv, ReadChunk
  PROVE  GrowthInv' /\ (Axis = 1 /\ PlaceInv => PlaceInv')
<1> DEFINE at == reader.index[reader.nchunk]
           cell == CellAt(at)
           Got(c) == [place |-> reader.want, chunk |-> c]
           Read(c) == [reader EXCEPT !.got = Got(c), !.pc = "idle"]
<1>1. reader \in Reader /\ reader.pc = "chunk"
  BY DEF GrowthInv, ReadChunk
<1>2. UNCHANGED <<file, writer, pending, ops>>
  BY Zenon DEF ReadChunk, Reads, Ends
<1>3. PICK c : reader' = Read(c) /\ (c = Error \/ (cell.kind = "data" /\ c = cell.place))
  <2>1. reader' = Read(IF at <= reader.hdr.cbytes /\ cell.kind = "data" THEN cell.place ELSE Error)
    BY Zenon DEF ReadChunk, Reads, Ends
  <2> DEFINE x == IF at <= reader.hdr.cbytes /\ cell.kind = "data" THEN cell.place ELSE Error
  <2>2. x = Error \/ (cell.kind = "data" /\ x = cell.place)
    <3> HIDE DEF cell, at
    <3> QED OBVIOUS
  <2>3. reader' = Read(x)
    BY <2>1
  <2> HIDE DEF x, Read, cell
  <2> QED BY <2>2, <2>3
<1>4. cell.kind = "data" => cell.place \in PlaceSet /\ at \in Nat
                            /\ (PlaceInv => CellOK(at, cell, writer))
  <2> HIDE DEF at
  <2> QED BY CellAtIs
<1>5. c \in PlaceSet \cup {Zeros, Error}
  <2> HIDE DEF cell, at, Read
  <2> QED BY <1>3, <1>4
<1> DEFINE r == Read(c)
<1>6. /\ r \in Reader /\ r.index = reader.index /\ r.nchunk = reader.nchunk
      /\ r.want = reader.want /\ r.got = Got(c) /\ r.pc = "idle"
  <2>1. Got(c) \in [place : PlaceSet, chunk : PlaceSet \cup {Zeros, Error}]
    BY <1>1, <1>5 DEF Reader
  <2> HIDE DEF Got
  <2> QED BY <1>1, <2>1 DEF Reader
<1>7. reader' = r
  BY <1>3
<1>8. Got(c).chunk = c /\ Got(c).place = reader.want
  OBVIOUS
<1>9. ASSUME Axis = 1, PlaceInv PROVE ReaderOK' /\ ReadsInPlace'
  <2>1. /\ reader.index # None => IndexOK(reader.index, writer)
        /\ reader.nchunk > 0 => reader.want = Place(reader.nchunk)
        /\ reader.index # None /\ reader.nchunk \in 1 .. Len(reader.index) /\ at # Zeros
    BY <1>1, <1>9 DEF PlaceInv, ReaderOK
  <2> HIDE DEF r, Read, Got
  <2>2. ReaderOK'
    BY <1>2, <1>6, <1>7, <2>1 DEF ReaderOK
  <2>3. c = Error \/ c = reader.want
    <3> SUFFICES ASSUME cell.kind = "data", c = cell.place PROVE c = reader.want
      <4> HIDE DEF cell, at
      <4> QED BY <1>3
    <3>1. IndexOK(reader.index, writer)
      BY <2>1
    <3>2. reader.nchunk \in 1 .. Len(writer.entries) /\ writer.entries[reader.nchunk] = at
      BY <2>1, <3>1 DEF IndexOK
    <3>3. CellOK(at, cell, writer)
      <4> HIDE DEF cell, at
      <4> QED BY <1>4, <1>9
    <3>4. DataOK(at, cell.place, writer)
      <4> HIDE DEF cell, at
      <4> QED BY <3>3 DEF CellOK
    <3>5. cell.place = Place(reader.nchunk)
      <4> HIDE DEF cell, at
      <4> QED BY <3>2, <3>4 DEF DataOK
    <3>6. reader.nchunk > 0
      BY <3>2
    <3> HIDE DEF cell, at
    <3> QED BY <2>1, <3>5, <3>6
  <2>4. ReadsInPlace'
    BY <1>6, <1>7, <1>8, <2>3 DEF ReadsInPlace
  <2> QED BY <2>2, <2>4
<1>10. reader' \in Reader
  <2> HIDE DEF r
  <2> QED BY <1>6, <1>7
<1> HIDE DEF r
<1> QED BY <1>2, <1>9, <1>10, ReaderKeeps

-----------------------------------------------------------------------------
(* Any step.                                                               *)
LEMMA NextKeeps ==
  ASSUME GrowthInv, [Next]_vars
  PROVE  GrowthInv' /\ (Axis = 1 /\ PlaceInv => PlaceInv')
<1>1. CASE Extend
  BY <1>1, ExtendKeeps
<1>2. CASE Shrink
  BY <1>2, ShrinkKeeps
<1>3. CASE Fill
  BY <1>3, FillKeeps
<1>4. CASE WriteNext
  BY <1>4, WriteKeeps
<1>5. CASE Poll
  BY <1>5, PollKeeps
<1>6. CASE ReadTrailer
  BY <1>6, TrailerKeeps
<1>7. CASE ReadMetalayers
  BY <1>7, MetasKeep
<1>8. CASE ReadVlmetalayers
  BY <1>8, VlmetasKeep
<1>9. CASE Geometry
  BY <1>9, GeometryKeeps
<1>10. CASE Refresh
  BY <1>10, RefreshKeeps
<1>11. CASE GetChunk
  BY <1>11, GetChunkKeeps
<1>12. CASE GetCoffset
  BY <1>12, CoffsetKeeps
<1>13. CASE ReadChunk
  BY <1>13, ChunkKeeps
<1>14. CASE UNCHANGED vars
  <2>1. UNCHANGED <<file, writer, pending, ops, reader>>
    BY <1>14 DEF vars
  <2>2. GrowthInv'
    BY <2>1 DEF GrowthInv
  <2>3. PlaceInv => PlaceInv'
    BY <2>1 DEF PlaceInv, ReaderOK, ReadsInPlace
  <2> QED BY <2>2, <2>3
<1> QED BY <1>1, <1>2, <1>3, <1>4, <1>5, <1>6, <1>7, <1>8, <1>9, <1>10, <1>11, <1>12, <1>13, <1>14
        DEF Next, WriterStep, ReaderStep
-----------------------------------------------------------------------------
(* The array at the start: every chunk is filled, in the order of the grid,*)
(* and the file is what the writer sees.                                   *)
LEMMA InitFrame ==
  ASSUME NEW n, n = NdSize(InitShape),
         NEW w, w = [entries |-> [k \in 1 .. n |-> k], cbytes |-> n, shape |-> InitShape]
  PROVE  /\ w \in Frame /\ Len(w.entries) = n /\ FrameOK(w) /\ n \in Nat \ {0}
         /\ \A k \in 1 .. n : w.entries[k] = k
<1> DEFINE e == [k \in 1 .. n |-> k]
<1>1. n \in Nat \ {0} /\ InitShape \in Shape
  BY SizeIs, InitShapeIs
<1>2. e \in Seq(Entry) /\ Len(e) = n /\ \A k \in 1 .. n : e[k] = k
  <2>1. e \in [1 .. n -> Entry]
    BY <1>1 DEF Entry
  <2>2. DOMAIN e = 1 .. n /\ \A k \in 1 .. n : e[k] = k
    OBVIOUS
  <2> HIDE DEF e
  <2> QED BY <1>1, <2>1, <2>2
<1>3. w.entries = e /\ w.cbytes = n /\ w.shape = InitShape
      /\ w = [entries |-> e, cbytes |-> n, shape |-> InitShape]
  OBVIOUS
<1> HIDE DEF e
<1>4. \A k \in 1 .. n : e[k] # Zeros /\ e[k] \in 1 .. n
  BY <1>1, <1>2, GrowthAssumption
<1>5. w \in [entries : Seq(Entry), cbytes : Nat, shape : Shape]
  BY <1>1, <1>2, <1>3
<1>6. w \in Frame
  <2>1. 1 \in 1 .. n /\ n <= n
    BY <1>1
  <2> QED BY <1>1, <1>2, <1>3, <1>4, <1>5, <2>1 DEF Frame
<1>7. IndexOK(e, w)
  BY <1>2, <1>3, <1>4 DEF IndexOK
<1>8. FrameOK(w)
  <2>1. FirstChunks <= n
    BY <1>1 DEF FirstChunks
  <2> QED BY <1>2, <1>3, <1>7, <2>1 DEF FrameOK
<1> QED BY <1>1, <1>2, <1>3, <1>6, <1>8

(* The cells of the file at the start: each chunk in the cell of its       *)
(* number, the index, the trailer.                                         *)
FilledCells(n) == [k \in 1 .. n |-> Data(Places(InitShape)[k])]
(* They are cells of a frame as long as the writer says, and they agree    *)
(* with it.                                                                *)
LEMMA InitCells ==
  ASSUME NEW n \in Nat \ {0}, NEW w \in Frame, Len(w.entries) = n, w.cbytes = n, FrameOK(w),
         \A k \in 1 .. n : w.entries[k] = k, \A k \in 1 .. n : k \in 1 .. NdSize(InitShape)
  PROVE  LET cells == FilledCells(n) \o IndexCells(w.entries) \o <<Trailer>> IN
         /\ cells \in Seq(Cell) /\ Len(cells) = FrameLen(w)
         /\ Axis = 1 => CellsOK(1, cells, w)
<1> DEFINE data == FilledCells(n)
           index == IndexCells(w.entries)
           last == <<Trailer>>
           front == data \o index
           cells == front \o last
<1>1. /\ w \in Frame /\ Len(w.entries) = n /\ FrameOK(w) /\ n \in Nat /\ n > 0
      /\ \A k \in 1 .. n : w.entries[k] = k
  OBVIOUS
<1>2. w.cbytes = n /\ FrameLen(w) = n + n + 1
  BY DEF FrameLen
<1>3. data \in Seq(Cell) /\ Len(data) = n /\ \A k \in 1 .. n : data[k] = Data(Places(InitShape)[k])
  <2>1. ASSUME NEW k \in 1 .. n PROVE Data(Places(InitShape)[k]) \in Cell
    <3>1. Places(InitShape)[k] \in PlaceSet
      BY InitShapeIs, PlaceIs
    <3> QED BY <3>1 DEF Data, Cell
  <2>2. data \in [1 .. n -> Cell]
    BY <2>1 DEF FilledCells
  <2>3. \A k \in 1 .. n : data[k] = Data(Places(InitShape)[k])
    BY DEF FilledCells
  <2> HIDE DEF data
  <2> QED BY <1>1, <2>2, <2>3
<1>4. /\ index \in Seq(Cell) /\ Len(index) = n
      /\ \A i \in 1 .. n : index[i] = [kind |-> "index", i |-> i, entries |-> w.entries]
  BY <1>1, IndexCellsAre
<1>5. last \in Seq(Cell) /\ Len(last) = 1 /\ last[1] = Trailer
  <2>1. Trailer \in Cell
    BY DEF Trailer, Cell
  <2> QED BY <2>1
<1> HIDE DEF data, index, last
<1>7. front \in Seq(Cell) /\ Len(front) = n + n
      /\ \A i \in 1 .. n + n : front[i] = IF i <= n THEN data[i] ELSE index[i - n]
  <2>1. front \in Seq(Cell) /\ Len(front) = Len(data) + Len(index)
        /\ \A i \in 1 .. Len(data) + Len(index) :
             front[i] = IF i <= Len(data) THEN data[i] ELSE index[i - Len(data)]
    <3>1. data \in Seq(Cell) /\ index \in Seq(Cell)
      BY <1>3, <1>4
    <3> QED BY <3>1, ConcatProperties, Zenon
  <2>2. Len(data) = n /\ Len(index) = n
    BY <1>3, <1>4
  <2> HIDE DEF front
  <2> QED BY <2>1, <2>2
<1> HIDE DEF front
<1>8. cells \in Seq(Cell) /\ Len(cells) = n + n + 1
      /\ \A i \in 1 .. n + n + 1 : cells[i] = IF i <= n + n THEN front[i] ELSE last[i - (n + n)]
  <2>1. cells \in Seq(Cell) /\ Len(cells) = Len(front) + Len(last)
        /\ \A i \in 1 .. Len(front) + Len(last) :
             cells[i] = IF i <= Len(front) THEN front[i] ELSE last[i - Len(front)]
    <3>1. front \in Seq(Cell) /\ last \in Seq(Cell)
      BY <1>5, <1>7
    <3> QED BY <3>1, ConcatProperties, Zenon
  <2>2. Len(front) = n + n /\ Len(last) = 1
    BY <1>5, <1>7
  <2> HIDE DEF cells
  <2> QED BY <2>1, <2>2
<1> HIDE DEF cells
<1>9. ASSUME Axis = 1, NEW p \in 1 .. n + n + 1 PROVE CellOK(1 + p - 1, cells[p], w)
  <2>1. 1 + p - 1 = p
    OBVIOUS
  <2>2. CASE p <= n
    <3>1. p \in 1 .. n /\ p <= n + n
      BY <1>1, <2>2
    <3>2. cells[p] = Data(Places(InitShape)[p])
      BY <1>3, <1>7, <1>8, <3>1
    <3>3. Places(InitShape)[p] = Place(p)
      BY <1>9, <3>1, InitShapeIs, PlaceIs
    <3>4. cells[p].kind = "data" /\ cells[p].place = Place(p)
      BY <3>2, <3>3 DEF Data
    <3>5. DataOK(p, Place(p), w)
      BY <1>1, <1>2, <2>2 DEF DataOK
    <3> QED BY <2>1, <3>4, <3>5 DEF CellOK
  <2>3. CASE p > n /\ p <= n + n
    <3>1. p - n \in 1 .. n /\ p \in 1 .. n + n /\ ~ p <= n
      BY <1>1, <2>3
    <3>2. cells[p] = index[p - n]
      BY <1>7, <1>8, <2>3, <3>1
    <3>3. cells[p] = [kind |-> "index", i |-> p - n, entries |-> w.entries]
      BY <1>4, <3>1, <3>2
    <3>4. cells[p].kind = "index" /\ cells[p].entries = w.entries
      BY <3>3
    <3>5. IndexOK(w.entries, w)
      BY <1>1 DEF FrameOK
    <3> QED BY <2>1, <3>4, <3>5 DEF CellOK
  <2>4. CASE p > n + n
    <3>1. p - (n + n) = 1 /\ ~ p <= n + n
      BY <1>1, <2>4
    <3>2. cells[p] = Trailer
      BY <1>5, <1>8, <3>1
    <3>3. cells[p].kind = "trailer"
      BY <3>2 DEF Trailer
    <3> QED BY <3>3 DEF CellOK
  <2> QED BY <1>1, <2>2, <2>3, <2>4
<1>10. Axis = 1 => CellsOK(1, cells, w)
  BY <1>8, <1>9 DEF CellsOK
<1> QED BY <1>2, <1>8, <1>10 DEF cells, front, data, index, last

(* The invariants hold at the start.                                       *)
LEMMA InitGrowth ==
  ASSUME Init
  PROVE  GrowthInv /\ (Axis = 1 => PlaceInv)
<1> DEFINE n == NdSize(InitShape)
           cells == file.cells
<1>1. /\ writer = [entries |-> [k \in 1 .. n |-> k], cbytes |-> n, shape |-> InitShape]
      /\ file = [header |-> HeaderOf(writer),
                 cells |-> [k \in 1 .. n |-> Data(Places(InitShape)[k])]
                           \o IndexCells(writer.entries) \o <<Trailer>>]
      /\ pending = <<>> /\ ops = 0
  BY DEF Init
<1>2. reader = [pc |-> "idle", hdr |-> file.header, after |-> "geometry", force |-> FALSE, tries |-> 0,
                len |-> file.header.len, oldLen |-> 0, n |-> n, metas |-> InitShape, vlmetas |-> TRUE,
                newer |-> FALSE, shape |-> InitShape, index |-> None, want |-> Places(InitShape)[1],
                nchunk |-> 0, got |-> [place |-> Places(InitShape)[1], chunk |-> Error]]
  BY DEF Init
<1>3. cells = [k \in 1 .. n |-> Data(Places(InitShape)[k])] \o IndexCells(writer.entries) \o <<Trailer>>
      /\ file.header = HeaderOf(writer) /\ file = [header |-> HeaderOf(writer), cells |-> cells]
      /\ writer.shape = InitShape
  BY <1>1
<1> HIDE DEF n, cells
<1>4. writer \in Frame /\ Len(writer.entries) = n /\ FrameOK(writer) /\ n \in Nat \ {0}
  BY <1>1, InitFrame DEF n
<1>5. cells \in Seq(Cell) /\ Len(cells) = FrameLen(writer) /\ (Axis = 1 => CellsOK(1, cells, writer))
  <2>1. writer.cbytes = n /\ \A k \in 1 .. n : writer.entries[k] = k
    BY <1>1, InitFrame DEF n
  <2>2. \A k \in 1 .. n : k \in 1 .. NdSize(InitShape)
    BY DEF n
  <2>3. cells = FilledCells(n) \o IndexCells(writer.entries) \o <<Trailer>>
    BY <1>3 DEF FilledCells
  <2> QED BY <1>4, <2>1, <2>2, <2>3, InitCells
<1>6. HeaderOf(writer) \in HeaderSet /\ Settled(writer) \in Shadow /\ FrameLen(writer) \in Nat
      /\ HeaderOf(writer).len = FrameLen(writer)
  BY <1>4, HeaderOfIs
<1>7. file \in File
  BY <1>3, <1>5, <1>6 DEF File
<1>8. Runs(pending, ShadowOf(file), Settled(writer)) /\ pending \in Seq(Write)
  <2>1. ShadowOf(file) = Settled(writer)
    BY <1>3, <1>5 DEF ShadowOf, Settled, cells
  <2>2. Runs(<<>>, Settled(writer), Settled(writer))
    BY <1>6, RunsNone
  <2> QED BY <1>1, <2>1, <2>2
<1>9. Places(InitShape)[1] \in PlaceSet
  <2>1. 1 \in 1 .. n
    BY <1>4
  <2> QED BY <2>1, InitShapeIs, PlaceIs DEF n
<1>10. reader \in Reader
  <2> DEFINE hdr == file.header
             place == Places(InitShape)[1]
             got == [place |-> place, chunk |-> Error]
             len == file.header.len
  <2>1. hdr \in HeaderSet /\ len \in Nat /\ place \in PlaceSet
    BY <1>3, <1>6, <1>9
  <2>2. got \in [place : PlaceSet, chunk : PlaceSet \cup {Zeros, Error}]
    BY <2>1
  <2>3. 0 \in 0 .. MaxAttempts
    BY GrowthAssumption
  <2>4. reader = [pc |-> "idle", hdr |-> hdr, after |-> "geometry", force |-> FALSE, tries |-> 0,
                len |-> len, oldLen |-> 0, n |-> n, metas |-> InitShape, vlmetas |-> TRUE,
                newer |-> FALSE, shape |-> InitShape, index |-> None, want |-> place,
                nchunk |-> 0, got |-> got]
    BY <1>2
  <2> HIDE DEF hdr, place, got, len
  <2> QED BY <1>4, <2>1, <2>2, <2>3, <2>4, InitShapeIs DEF Reader
<1>11. GrowthInv
  <2>1. ops \in 0 .. MaxOps
    BY <1>1, GrowthAssumption
  <2> QED BY <1>3, <1>4, <1>7, <1>8, <1>10, <2>1 DEF GrowthInv, n
<1>12. ASSUME Axis = 1 PROVE PlaceInv
  <2>1. WritesOK(pending, writer)
    <3>1. Len(<<>>) = 0
      OBVIOUS
    <3> QED BY <1>1, <3>1 DEF WritesOK
  <2>2. reader.index = None /\ reader.nchunk = 0 /\ reader.pc = "idle" /\ reader.got.chunk = Error
    BY <1>2
  <2>3. ReaderOK
    BY <2>2 DEF ReaderOK
  <2>4. ReadsInPlace
    BY <2>2 DEF ReadsInPlace
  <2> QED BY <1>4, <1>5, <1>12, <2>1, <2>3, <2>4 DEF PlaceInv, cells
<1> QED BY <1>11, <1>12

-----------------------------------------------------------------------------
(* The inductive invariant holds in every state: the writes a call of the  *)
(* writer has left are each within the file, and lead to the frame the     *)
(* handle of the writer describes.                                         *)
THEOREM GrowthInvHolds == Spec => []GrowthInv
<1>1. Init => GrowthInv
  BY InitGrowth
<1>2. GrowthInv /\ [Next]_vars => GrowthInv'
  BY NextKeeps
<1> QED BY <1>1, <1>2, PTL DEF Spec

(* The handles are of their types, the length in the header is always that *)
(* of its counters, and between two calls of the writer (resize,           *)
(* update_chunk) the file is what the handle of the writer says.           *)
THEOREM GrowthTypes == Spec => []TypeOK
<1>1. GrowthInv => TypeOK
  <2> SUFFICES ASSUME GrowthInv PROVE TypeOK
    OBVIOUS
  <2>1. file \in File /\ reader \in Reader /\ ops \in 0 .. MaxOps
    BY DEF GrowthInv
  <2>2. file.header.len = file.header.cbytes + file.header.n + 1
    BY <2>1 DEF File, HeaderSet
  <2>3. ASSUME pending = <<>>
        PROVE  file.header = HeaderOf(writer) /\ Len(file.cells) = FrameLen(writer)
    <3>1. Runs(<<>>, ShadowOf(file), Settled(writer))
      BY <2>3 DEF GrowthInv
    <3>2. ShadowOf(file) = Settled(writer)
      BY <3>1, RunsOut
    <3>3. ShadowOf(file).size = Len(file.cells) /\ ShadowOf(file).header = file.header
          /\ Settled(writer).size = FrameLen(writer) /\ Settled(writer).header = HeaderOf(writer)
      BY DEF ShadowOf, Settled
    <3> QED BY <3>2, <3>3
  <2>4. reader.tries \in 0 .. MaxAttempts
        /\ reader.pc \in {"idle", "trailer", "metas", "vlmetas", "geometry", "ready", "index", "chunk"}
    BY <2>1 DEF Reader
  <2> QED BY <2>1, <2>2, <2>3, <2>4 DEF TypeOK
<1> QED BY <1>1, GrowthInvHolds, PTL

(* Between any two writes, and so after a crash of the writer, the shape   *)
(* in the metalayer has no more places than the header counts chunks:      *)
(* extend_shape puts the chunks first and shrink_shape the shape, for any  *)
(* grid and any axis.                                                      *)
THEOREM ShapeIsBacked == Spec => []FileShapeBacked
<1>1. GrowthInv => FileShapeBacked
  BY DEF GrowthInv, File, HeaderSet, FileShapeBacked
<1> QED BY <1>1, GrowthInvHolds, PTL

(* When the array grows along its first axis, a chunk a reader gets without *)
(* a lock, whatever it cached and whenever it read each part, is the chunk *)
(* of the place it asked for, or zeros where nothing was at the start.     *)
THEOREM ReadsStayInPlace ==
  ASSUME Axis = 1
  PROVE  Spec => []ReadsInPlace
<1> DEFINE Inv == GrowthInv /\ PlaceInv
<1>1. Init => Inv
  BY InitGrowth
<1>2. Inv /\ [Next]_vars => Inv'
  BY NextKeeps
<1>3. Inv => ReadsInPlace
  BY DEF PlaceInv
<1> QED BY <1>1, <1>2, <1>3, PTL DEF Spec
=============================================================================
