-------------------------- MODULE ChunkStoreProofs ---------------------------
(***************************************************************************)
(* The proofs about ChunkStore: for chunks of any sizes, lists of any      *)
(* length and each kind of storage, a super-chunk whose callers keep to    *)
(* Careful is the list that its calls describe, and its counters, its      *)
(* index and its payload tell the truth.                                   *)
(*                                                                         *)
(* The invariant is Holds(s, l): the super-chunk s holds the list l of     *)
(* chunks.  Each call takes a list to a list; reading gives the list back. *)
(* NdIndexProofs is extended for its lemmas on loops and on lists.         *)
(***************************************************************************)
EXTENDS ChunkStore, NdIndexProofs, FiniteSetTheorems

(* What callers avoid: all the sequences of calls that Avoid can name.     *)
Careful ==
  {"short_append", "special_uneven", "reorder_uneven", "recompress_uneven",
   "large_id", "loaded_reorder"} \subseteq Avoid

-----------------------------------------------------------------------------
(***************************************************************************)
(* Sums over lists.                                                        *)
(***************************************************************************)
Sums(g, f) ==
  /\ g \in [0 .. Len(f) -> Nat] /\ g[0] = 0
  /\ \A k \in 1 .. Len(f) : g[k] = g[k - 1] + f[k]

(* The sum is the last of the sums of the first entries.                   *)
LEMMA SumSteps ==
  ASSUME NEW f \in Seq(Nat)
  PROVE  \E g : Sums(g, f) /\ Sum(f) = g[Len(f)]
<1> DEFINE n == Len(f)
           Is(g) == g = [k \in 0 .. n |-> IF k = 0 THEN 0 ELSE g[k - 1] + f[k]]
           step == [k \in 1 .. n |-> [t \in Nat |-> t + f[k]]]
           T == [k \in 0 .. n |-> Nat]
<1>1. n \in Nat /\ \A k \in 1 .. n : f[k] \in Nat
  OBVIOUS
<1>2. Passes(step, n, T)
  <2> SUFFICES ASSUME NEW k \in 1 .. n, NEW t \in Nat PROVE step[k][t] \in Nat
    <3>1. \A k \in 0 .. n : T[k] = Nat
      BY <1>1
    <3>2. \A k \in 1 .. n : k - 1 \in 0 .. n /\ k \in 0 .. n
      BY <1>1
    <3> HIDE DEF n, step, T
    <3> QED BY <3>1, <3>2 DEF Passes
  <2> QED BY <1>1
<1>3. PICK h : Loop(h, 0, step, n, T)
  <2> DEFINE zero == 0
  <2>1. zero \in T[0]
    BY <1>1
  <2>2. \E h : Loop(h, zero, step, n, T)
    <3> HIDE DEF n, step, T, zero
    <3> QED BY <1>1, <1>2, <2>1, LoopExists
  <2> QED BY <2>2
<1>4. h = [k \in 0 .. n |-> h[k]] /\ h[0] = 0 /\ (\A k \in 0 .. n : h[k] \in Nat)
      /\ \A k \in 1 .. n : h[k] = step[k][h[k - 1]]
  <2>1. h = [k \in 0 .. n |-> h[k]] /\ h[0] = 0 /\ (\A k \in 0 .. n : h[k] \in T[k])
        /\ \A k \in 1 .. n : h[k] = step[k][h[k - 1]]
    <3> HIDE DEF n, step, T
    <3> QED BY <1>3, Zenon DEF Loop
  <2>2. \A k \in 0 .. n : T[k] = Nat
    BY <1>1
  <2> HIDE DEF n, step, T
  <2>3. \A k \in 0 .. n : h[k] \in T[k]
    BY <2>1, Zenon
  <2>4. \A k \in 0 .. n : h[k] \in Nat
    BY <2>2, <2>3, Zenon
  <2> QED BY <2>1, <2>4, Zenon
<1>5. ASSUME NEW k \in 1 .. n PROVE h[k] = h[k - 1] + f[k]
  <2>1. k - 1 \in 0 .. n
    BY <1>1
  <2>2. h[k - 1] \in Nat /\ h[k] = step[k][h[k - 1]]
    <3> HIDE DEF n, step
    <3> QED BY <1>4, <2>1
  <2> QED BY <2>2
<1>6. Is(h)
  <2>1. \A k \in 0 .. n : h[k] = IF k = 0 THEN 0 ELSE h[k - 1] + f[k]
    <3>1. \A k \in 0 .. n : k # 0 => k \in 1 .. n
      BY <1>1
    <3> HIDE DEF n
    <3> QED BY <1>4, <3>1, <1>5
  <2> HIDE DEF n
  <2>2. [k \in 0 .. n |-> h[k]] = [k \in 0 .. n |-> IF k = 0 THEN 0 ELSE h[k - 1] + f[k]]
    BY <2>1
  <2> QED BY <1>4, <2>2, Zenon
<1>7. PICK g : g = (CHOOSE s : Is(s))
  OBVIOUS
<1>8. Is(g)
  <2> HIDE DEF Is
  <2> QED BY <1>6, <1>7
<1>9. \A k \in 0 .. n : g[k] = h[k]
  <2>1. g[0] = h[0] /\ \A k \in 1 .. n : g[k] = g[k - 1] + f[k]
    <3> HIDE DEF n
    <3>1. g[0] = 0 /\ \A k \in 1 .. n : k \in 0 .. n /\ g[k] = g[k - 1] + f[k]
      BY <1>1, <1>8
    <3> QED BY <1>4, <3>1
  <2>2. \A k \in 1 .. n : g[k - 1] = h[k - 1] => g[k] = h[k]
    BY <2>1, <1>5
  <2>3. Alike(g, h, n)
    BY <2>1, <2>2 DEF Alike
  <2> HIDE DEF n
  <2> QED BY <1>1, <2>3, LoopUnique
<1>10. Sum(f) = g[n]
  BY <1>7 DEF Sum
<1>11. Sums(h, f)
  BY <1>4, <1>5 DEF Sums
<1>12. n \in 0 .. n
  BY <1>1
<1> QED BY <1>9, <1>10, <1>11, <1>12

(* The sum of the first entries of a list: what Sums and equality of the   *)
(* entries leave no choice about.                                          *)
LEMMA SumIs ==
  ASSUME NEW f \in Seq(Nat), NEW g, Sums(g, f)
  PROVE  Sum(f) = g[Len(f)] /\ Sum(f) \in Nat
<1>1. PICK h : Sums(h, f) /\ Sum(f) = h[Len(f)]
  BY SumSteps
<1> DEFINE n == Len(f)
<1>2. n \in Nat /\ n \in 0 .. n
  OBVIOUS
<1>3. Alike(h, g, n)
  BY <1>1 DEF Sums, Alike
<1>4. \A k \in 0 .. n : h[k] = g[k]
  <2> HIDE DEF n
  <2> QED BY <1>2, <1>3, LoopUnique
<1> QED BY <1>1, <1>2, <1>4 DEF Sums

(* Nothing adds up to nothing.                                             *)
LEMMA SumEmpty ==
  ASSUME NEW f \in Seq(Nat), Len(f) = 0
  PROVE  Sum(f) = 0
<1>1. PICK h : Sums(h, f) /\ Sum(f) = h[Len(f)]
  BY SumSteps
<1> QED BY <1>1 DEF Sums

(* One more entry anywhere in a list.                                      *)
LEMMA SumInserted ==
  ASSUME NEW f \in Seq(Nat), NEW g \in Seq(Nat), NEW x \in Nat, NEW k \in 1 .. Len(f) + 1,
         Len(g) = Len(f) + 1,
         \A j \in 1 .. Len(f) + 1 : g[j] = IF j < k THEN f[j] ELSE IF j = k THEN x ELSE f[j - 1]
  PROVE  Sum(g) = Sum(f) + x /\ Sum(f) \in Nat
<1> DEFINE n == Len(f)
<1>1. n \in Nat /\ k \in Nat /\ k >= 1 /\ k <= n + 1 /\ Len(g) = n + 1
      /\ \A j \in 1 .. n + 1 : g[j] = IF j < k THEN f[j] ELSE IF j = k THEN x ELSE f[j - 1]
  OBVIOUS
<1>2. PICK a : Sums(a, f) /\ Sum(f) = a[n]
  BY SumSteps
<1>3. a[0] = 0 /\ (\A j \in 0 .. n : a[j] \in Nat) /\ \A j \in 1 .. n : a[j] = a[j - 1] + f[j]
  BY <1>2 DEF Sums
<1> DEFINE b == [j \in 0 .. n + 1 |-> IF j < k THEN a[j] ELSE a[j - 1] + x]
<1> HIDE DEF n
<1>4. ASSUME NEW j \in 0 .. n + 1 PROVE b[j] \in Nat /\ b[j] = IF j < k THEN a[j] ELSE a[j - 1] + x
  <2>1. CASE j < k
    <3>1. j \in 0 .. n /\ b[j] = a[j]
      BY <1>1, <2>1
    <3> QED BY <1>3, <2>1, <3>1
  <2>2. CASE ~ j < k
    <3>1. j - 1 \in 0 .. n /\ b[j] = a[j - 1] + x
      BY <1>1, <2>2
    <3>2. a[j - 1] \in Nat
      BY <1>3, <3>1
    <3> QED BY <2>2, <3>1, <3>2
  <2> QED BY <2>1, <2>2
<1>5. ASSUME NEW j \in 1 .. n + 1 PROVE b[j] = b[j - 1] + g[j]
  <2> HIDE DEF b
  <2>0. j \in 0 .. n + 1 /\ j - 1 \in 0 .. n + 1 /\ j \in Nat
    BY <1>1
  <2>1. CASE j < k
    <3>1. b[j] = a[j] /\ b[j - 1] = a[j - 1] /\ g[j] = f[j] /\ j \in 1 .. n
      BY <1>1, <1>4, <2>0, <2>1, SMTT(30)
    <3> QED BY <1>3, <3>1
  <2>2. CASE j = k
    <3>1. b[j] = a[j - 1] + x /\ b[j - 1] = a[j - 1] /\ g[j] = x
      BY <1>1, <1>4, <2>0, <2>2
    <3> QED BY <3>1
  <2>3. CASE j > k
    <3>0. j - 1 \in 1 .. n /\ ~ j < k /\ ~ j - 1 < k /\ j # k /\ j \in 1 .. n + 1
      BY <1>1, <2>3
    <3>1. j - 1 \in 1 .. n /\ b[j] = a[j - 1] + x /\ b[j - 1] = a[(j - 1) - 1] + x /\ g[j] = f[j - 1]
      <4>1. g[j] = f[j - 1]
        BY <1>1, <3>0
      <4>2. b[j] = a[j - 1] + x /\ b[j - 1] = a[(j - 1) - 1] + x
        BY <1>4, <2>0, <3>0
      <4> QED BY <3>0, <4>1, <4>2
    <3>2. a[j - 1] = a[(j - 1) - 1] + f[j - 1] /\ (j - 1) - 1 \in 0 .. n
      BY <1>1, <1>3, <3>1
    <3>3. a[(j - 1) - 1] \in Nat /\ f[j - 1] \in Nat
      BY <1>3, <3>1, <3>2, SMTT(30) DEF n
    <3> QED BY <3>1, <3>2, <3>3, SMTT(30)
  <2> QED BY <1>1, <2>0, <2>1, <2>2, <2>3
<1>6. Sums(b, g)
  <2>1. b \in [0 .. n + 1 -> Nat] /\ b[0] = 0
    <3>1. 0 \in 0 .. n + 1 /\ 0 < k
      BY <1>1
    <3>2. b[0] = 0
      BY <1>3, <1>4, <3>1
    <3>3. b = [j \in 0 .. n + 1 |-> b[j]]
      OBVIOUS
    <3> HIDE DEF b
    <3> QED BY <1>4, <3>2, <3>3
  <2> HIDE DEF b
  <2> QED BY <1>1, <1>5, <2>1 DEF Sums
<1>7. n + 1 \in 0 .. n + 1 /\ ~ n + 1 < k /\ n + 1 - 1 = n /\ n \in 0 .. n
  BY <1>1
<1>8. b[n + 1] = a[n] + x
  BY <1>4, <1>7
<1> HIDE DEF b
<1> QED BY <1>1, <1>2, <1>3, <1>6, <1>7, <1>8, SumIs

(* One entry less.                                                         *)
LEMMA SumRemoved ==
  ASSUME NEW f \in Seq(Nat), NEW h \in Seq(Nat), NEW k \in 1 .. Len(f), Len(h) = Len(f) - 1,
         \A j \in 1 .. Len(f) - 1 : h[j] = IF j < k THEN f[j] ELSE f[j + 1]
  PROVE  Sum(f) = Sum(h) + f[k] /\ Sum(h) \in Nat /\ f[k] \in Nat
<1> DEFINE n == Len(h)
           x == f[k]
<1>1. n \in Nat /\ Len(f) = n + 1 /\ x \in Nat /\ k \in 1 .. n + 1
  OBVIOUS
<1>2. ASSUME NEW j \in 1 .. n + 1 PROVE f[j] = IF j < k THEN h[j] ELSE IF j = k THEN x ELSE h[j - 1]
  <2>1. CASE j < k
    <3>1. j \in 1 .. Len(f) - 1
      BY <1>1, <2>1
    <3> QED BY <2>1, <3>1
  <2>2. CASE j > k
    <3>1. j - 1 \in 1 .. Len(f) - 1 /\ ~ j - 1 < k /\ (j - 1) + 1 = j
      BY <1>1, <2>2
    <3> QED BY <2>2, <3>1, SMTT(30)
  <2> QED BY <1>1, <2>1, <2>2
<1> HIDE DEF n, x
<1>3. Sum(f) = Sum(h) + x /\ Sum(h) \in Nat
  BY <1>1, <1>2, SumInserted DEF n
<1> QED BY <1>1, <1>3 DEF x

(* Another entry.                                                          *)
LEMMA SumReplaced ==
  ASSUME NEW f \in Seq(Nat), NEW g \in Seq(Nat), NEW k \in 1 .. Len(f), Len(g) = Len(f),
         \A j \in 1 .. Len(f) : j # k => g[j] = f[j]
  PROVE  \E rest \in Nat : Sum(f) = rest + f[k] /\ Sum(g) = rest + g[k] /\ f[k] \in Nat /\ g[k] \in Nat
<1> DEFINE h == RemoveAt(f, k)
<1>1. h \in Seq(Nat) /\ Len(h) = Len(f) - 1
      /\ \A j \in 1 .. Len(f) - 1 : h[j] = IF j < k THEN f[j] ELSE f[j + 1]
  BY Removed
<1> HIDE DEF h
<1>2. Sum(f) = Sum(h) + f[k] /\ Sum(h) \in Nat /\ f[k] \in Nat
  BY <1>1, SumRemoved
<1>3. Sum(g) = Sum(h) + g[k] /\ g[k] \in Nat
  <2>1. ASSUME NEW j \in 1 .. Len(g) - 1 PROVE h[j] = IF j < k THEN g[j] ELSE g[j + 1]
    <3>1. j \in 1 .. Len(f) - 1 /\ j \in 1 .. Len(f) /\ j + 1 \in 1 .. Len(f)
      BY SMTT(30)
    <3>2. CASE j < k
      BY <1>1, <3>1, <3>2
    <3>3. CASE ~ j < k
      <4>1. j + 1 # k
        BY <3>3
      <4> QED BY <1>1, <3>1, <3>3, <4>1
    <3> QED BY <3>2, <3>3
  <2>2. k \in 1 .. Len(g) /\ Len(h) = Len(g) - 1
    BY <1>1
  <2> QED BY <1>1, <2>1, <2>2, SumRemoved
<1> QED BY <1>2, <1>3

(* A function from 1 .. n is a list of n entries.                          *)
LEMMA ListIs ==
  ASSUME NEW S, NEW n \in Nat, NEW f \in [1 .. n -> S]
  PROVE  f \in Seq(S) /\ Len(f) = n /\ DOMAIN f = 1 .. n
OBVIOUS

(* A permutation: onto and one to one.                                     *)
Permutes(p, n) ==
  /\ p \in [1 .. n -> 1 .. n]
  /\ \A i, j \in 1 .. n : p[i] = p[j] => i = j
  /\ \A i \in 1 .. n : \E j \in 1 .. n : p[j] = i

(* Where a permutation of n + 1 takes n + 1, and the permutation of n that *)
(* is left without it.                                                     *)
LEMMA PermutesLess ==
  ASSUME NEW m \in Nat, NEW q, Permutes(q, m + 1)
  PROVE  \E k \in 1 .. m + 1, r \in [1 .. m -> 1 .. m] :
           /\ q[k] = m + 1 /\ Permutes(r, m)
           /\ \A i \in 1 .. m : r[i] = IF i < k THEN q[i] ELSE q[i + 1]
<1>1. \A i \in 1 .. m + 1 : q[i] \in 1 .. m + 1
  BY DEF Permutes
<1>2. \A i, j \in 1 .. m + 1 : q[i] = q[j] => i = j
  BY DEF Permutes
<1>3. \A i \in 1 .. m + 1 : \E j \in 1 .. m + 1 : q[j] = i
  BY DEF Permutes
<1>4. PICK k \in 1 .. m + 1 : q[k] = m + 1
  <2>1. m + 1 \in 1 .. m + 1
    OBVIOUS
  <2> QED BY <1>3, <2>1
<1> DEFINE r == [i \in 1 .. m |-> IF i < k THEN q[i] ELSE q[i + 1]]
<1>5. ASSUME NEW i \in 1 .. m
      PROVE  /\ i \in 1 .. m + 1 /\ i + 1 \in 1 .. m + 1
             /\ r[i] = (IF i < k THEN q[i] ELSE q[i + 1]) /\ r[i] \in 1 .. m
  <2>1. i \in 1 .. m + 1 /\ i + 1 \in 1 .. m + 1 /\ r[i] = (IF i < k THEN q[i] ELSE q[i + 1])
    OBVIOUS
  <2>2. CASE i < k
    <3>1. q[i] \in 1 .. m + 1 /\ q[i] # m + 1
      BY <1>1, <1>2, <1>4, <2>1, <2>2
    <3> QED BY <2>1, <2>2, <3>1
  <2>3. CASE ~ i < k
    <3>1. q[i + 1] \in 1 .. m + 1 /\ q[i + 1] # m + 1
      BY <1>1, <1>2, <1>4, <2>1, <2>3
    <3> QED BY <2>1, <2>3, <3>1
  <2> QED BY <2>2, <2>3
<1>6. r \in [1 .. m -> 1 .. m]
  <2>1. r = [i \in 1 .. m |-> r[i]]
    OBVIOUS
  <2> HIDE DEF r
  <2> QED BY <1>5, <2>1
<1> HIDE DEF r
<1>7. ASSUME NEW i \in 1 .. m, NEW j \in 1 .. m, r[i] = r[j] PROVE i = j
  <2>1. i \in 1 .. m + 1 /\ i + 1 \in 1 .. m + 1 /\ r[i] = (IF i < k THEN q[i] ELSE q[i + 1])
    BY <1>5
  <2>2. j \in 1 .. m + 1 /\ j + 1 \in 1 .. m + 1 /\ r[j] = (IF j < k THEN q[j] ELSE q[j + 1])
    BY <1>5
  <2>3. CASE i < k /\ j < k
    BY <1>2, <1>7, <2>1, <2>2, <2>3
  <2>4. CASE i < k /\ ~ j < k
    <3>1. i = j + 1
      BY <1>2, <1>7, <2>1, <2>2, <2>4
    <3> QED BY <2>4, <3>1
  <2>5. CASE ~ i < k /\ j < k
    <3>1. i + 1 = j
      BY <1>2, <1>7, <2>1, <2>2, <2>5
    <3> QED BY <2>5, <3>1
  <2>6. CASE ~ i < k /\ ~ j < k
    <3>1. i + 1 = j + 1
      BY <1>2, <1>7, <2>1, <2>2, <2>6
    <3> QED BY <3>1
  <2> QED BY <2>3, <2>4, <2>5, <2>6
<1>8. ASSUME NEW i \in 1 .. m PROVE \E j \in 1 .. m : r[j] = i
  <2>1. i \in 1 .. m + 1 /\ i # m + 1
    OBVIOUS
  <2>2. PICK j \in 1 .. m + 1 : q[j] = i
    BY <1>3, <2>1
  <2>3. j # k
    BY <1>4, <2>1, <2>2
  <2>4. CASE j < k
    <3>1. j \in 1 .. m
      BY <2>4
    <3>2. r[j] = q[j]
      BY <1>5, <2>4, <3>1
    <3> QED BY <2>2, <3>1, <3>2
  <2>5. CASE j > k
    <3>1. j - 1 \in 1 .. m /\ ~ j - 1 < k /\ (j - 1) + 1 = j
      BY <2>5
    <3>2. r[j - 1] = q[j]
      BY <1>5, <3>1
    <3> QED BY <2>2, <3>1, <3>2
  <2> QED BY <2>3, <2>4, <2>5
<1>9. Permutes(r, m)
  BY <1>6, <1>7, <1>8 DEF Permutes
<1> QED BY <1>4, <1>5, <1>6, <1>9

(* f in another order.                                                     *)
Moved(f, p, n) == [i \in 1 .. n |-> f[p[i]]]

(* The entries moved are entries still.                                    *)
LEMMA MovedIs ==
  ASSUME NEW n \in Nat, NEW f \in [1 .. n -> Nat], NEW p, Permutes(p, n)
  PROVE  /\ Moved(f, p, n) \in [1 .. n -> Nat] /\ Moved(f, p, n) \in Seq(Nat)
         /\ Len(Moved(f, p, n)) = n
         /\ \A i \in 1 .. n : Moved(f, p, n)[i] = f[p[i]]
<1> DEFINE u == Moved(f, p, n)
<1>1. \A i \in 1 .. n : p[i] \in 1 .. n
  BY DEF Permutes
<1>2. \A i \in 1 .. n : u[i] = f[p[i]] /\ u[i] \in Nat
  BY <1>1 DEF Moved
<1>3. u = [i \in 1 .. n |-> u[i]]
  BY DEF Moved
<1> HIDE DEF u
<1>4. u \in [1 .. n -> Nat]
  BY <1>2, <1>3
<1>5. u \in Seq(Nat) /\ Len(u) = n
  BY <1>4
<1> QED BY <1>2, <1>4, <1>5 DEF u

(* The same for one entry more.                                            *)
LEMMA SumPermutedStep ==
  ASSUME NEW m \in Nat, NEW h \in [1 .. m + 1 -> Nat], NEW q, Permutes(q, m + 1),
         \A f2 \in [1 .. m -> Nat] : \A q2 \in [1 .. m -> 1 .. m] :
           Permutes(q2, m) => Sum(Moved(f2, q2, m)) = Sum(f2)
  PROVE  Sum(Moved(h, q, m + 1)) = Sum(h)
<1>1. PICK k \in 1 .. m + 1, r \in [1 .. m -> 1 .. m] :
        /\ q[k] = m + 1 /\ Permutes(r, m)
        /\ \A i \in 1 .. m : r[i] = IF i < k THEN q[i] ELSE q[i + 1]
  BY PermutesLess, ZenonT(30)
<1> DEFINE g == [i \in 1 .. m |-> h[i]]
           x == h[m + 1]
           u == Moved(g, r, m)
           v == Moved(h, q, m + 1)
<1>2. g \in [1 .. m -> Nat] /\ \A i \in 1 .. m : g[i] = h[i]
  BY SMTT(30)
<1>3. x \in Nat /\ Len(h) = m + 1 /\ h \in Seq(Nat)
  <2>1. m + 1 \in 1 .. m + 1 /\ m + 1 \in Nat
    OBVIOUS
  <2> QED BY <2>1, ListIs
<1> HIDE DEF g, x
<1>4. g \in Seq(Nat) /\ Len(g) = m
  BY <1>2
<1>5. Sum(u) = Sum(g)
  BY <1>1, <1>2
<1>6. u \in Seq(Nat) /\ Len(u) = m /\ \A i \in 1 .. m : u[i] = h[r[i]]
  <2>1. u \in Seq(Nat) /\ Len(u) = m /\ \A i \in 1 .. m : u[i] = g[r[i]]
    <3>1. Permutes(r, m)
      BY <1>1
    <3> QED BY <1>2, <3>1, MovedIs, ZenonT(30)
  <2>2. \A i \in 1 .. m : r[i] \in 1 .. m
    BY <1>1
  <2> HIDE DEF u
  <2> QED BY <1>2, <2>1, <2>2
<1>7. v \in Seq(Nat) /\ Len(v) = m + 1 /\ \A i \in 1 .. m + 1 : v[i] = h[q[i]]
  <2>1. m + 1 \in Nat
    OBVIOUS
  <2> QED BY <2>1, MovedIs, ZenonT(30)
<1> HIDE DEF u, v
<1>8. Sum(h) = Sum(g) + x /\ Sum(g) \in Nat
  <2>1. \A j \in 1 .. m + 1 : h[j] = IF j < m + 1 THEN g[j] ELSE IF j = m + 1 THEN x ELSE g[j - 1]
    BY <1>2 DEF x
  <2>2. m + 1 \in 1 .. Len(g) + 1 /\ Len(h) = Len(g) + 1
    BY <1>3, <1>4
  <2>3. \A j \in 1 .. Len(g) + 1 : h[j] = IF j < m + 1 THEN g[j] ELSE IF j = m + 1 THEN x ELSE g[j - 1]
    BY <1>4, <2>1
  <2> QED BY <1>3, <1>4, <2>2, <2>3, SumInserted, ZenonT(30)
<1>9. Sum(v) = Sum(u) + x
  <2>1. ASSUME NEW j \in 1 .. m + 1
        PROVE  v[j] = IF j < k THEN u[j] ELSE IF j = k THEN x ELSE u[j - 1]
    <3>1. v[j] = h[q[j]]
      BY <1>7
    <3>2. CASE j < k
      <4>1. j \in 1 .. m
        BY <3>2
      <4>2. r[j] = q[j]
        BY <1>1, <3>2, <4>1
      <4> QED BY <1>6, <3>1, <3>2, <4>1, <4>2
    <3>3. CASE j = k
      BY <1>1, <3>1, <3>3 DEF x
    <3>4. CASE j > k
      <4>1. j - 1 \in 1 .. m /\ ~ j - 1 < k /\ (j - 1) + 1 = j
        BY <3>4
      <4>2. r[j - 1] = q[j]
        BY <1>1, <4>1
      <4>3. u[j - 1] = v[j]
        BY <1>6, <3>1, <4>1, <4>2
      <4> QED BY <3>4, <4>3
    <3> QED BY <3>2, <3>3, <3>4
  <2>2. k \in 1 .. Len(u) + 1 /\ Len(v) = Len(u) + 1
    BY <1>6, <1>7
  <2>3. \A j \in 1 .. Len(u) + 1 : v[j] = IF j < k THEN u[j] ELSE IF j = k THEN x ELSE u[j - 1]
    BY <1>6, <2>1
  <2> QED BY <1>3, <1>6, <1>7, <2>2, <2>3, SumInserted, ZenonT(30)
<1> QED BY <1>5, <1>8, <1>9 DEF u, v

(* The entries in another order have the same sum.                         *)
LEMMA SumPermuted ==
  ASSUME NEW n \in Nat, NEW f \in [1 .. n -> Nat], NEW p, Permutes(p, n)
  PROVE  Sum(Moved(f, p, n)) = Sum(f)
<1> DEFINE S == {m \in Nat : \A h \in [1 .. m -> Nat] : \A q \in [1 .. m -> 1 .. m] :
                               Permutes(q, m) => Sum(Moved(h, q, m)) = Sum(h)}
<1>1. 0 \in S
  <2>1. ASSUME NEW h \in [1 .. 0 -> Nat], NEW q \in [1 .. 0 -> 1 .. 0], Permutes(q, 0)
        PROVE  Sum(Moved(h, q, 0)) = Sum(h)
    <3>1. h \in Seq(Nat) /\ Len(h) = 0
      OBVIOUS
    <3>2. Moved(h, q, 0) \in Seq(Nat) /\ Len(Moved(h, q, 0)) = 0
      BY <2>1, MovedIs
    <3> QED BY <3>1, <3>2, SumEmpty
  <2> QED BY <2>1
<1>2. ASSUME NEW m \in Nat, m \in S PROVE m + 1 \in S
  <2>1. ASSUME NEW h \in [1 .. m + 1 -> Nat], NEW q \in [1 .. m + 1 -> 1 .. m + 1], Permutes(q, m + 1)
        PROVE  Sum(Moved(h, q, m + 1)) = Sum(h)
    <3>1. \A f2 \in [1 .. m -> Nat] : \A q2 \in [1 .. m -> 1 .. m] :
            Permutes(q2, m) => Sum(Moved(f2, q2, m)) = Sum(f2)
      BY <1>2
    <3> HIDE DEF S
    <3> QED BY <2>1, <3>1, SumPermutedStep
  <2>2. m + 1 \in Nat
    OBVIOUS
  <2> QED BY <2>1, <2>2
<1>3. n \in S
  <2> HIDE DEF S
  <2> QED BY <1>1, <1>2, SetInduction
<1>4. p \in [1 .. n -> 1 .. n]
  BY DEF Permutes
<1> QED BY <1>3, <1>4

-----------------------------------------------------------------------------
(***************************************************************************)
(* Lists of chunks.                                                        *)
(***************************************************************************)
ChunkSet ==
  {c \in [data : {c.data : c \in Chunks} \cup DOMAIN SpecialCode, nbytes : Nat \ {0}, cbytes : Nat] :
     IF IsSpecial(c) THEN c.cbytes = Overhead ELSE c.cbytes > Overhead}

Bytes(l) == [i \in 1 .. Len(l) |-> l[i].nbytes]
StoredIn(l) == [i \in 1 .. Len(l) |-> Stored(l[i])]

(* g is f with x at k, without its entry k, with x instead of its entry k. *)
Inserts(g, f, k, x) ==
  /\ Len(g) = Len(f) + 1
  /\ \A j \in 1 .. Len(f) + 1 : g[j] = IF j < k THEN f[j] ELSE IF j = k THEN x ELSE f[j - 1]
Deletes(g, f, k) ==
  /\ Len(g) = Len(f) - 1
  /\ \A j \in 1 .. Len(f) - 1 : g[j] = IF j < k THEN f[j] ELSE f[j + 1]
Replaces(g, f, k, x) ==
  /\ Len(g) = Len(f)
  /\ \A j \in 1 .. Len(f) : g[j] = IF j = k THEN x ELSE f[j]

(* The codes of special values are negative and differ.                    *)
LEMMA Codes ==
  /\ \A d \in DOMAIN SpecialCode : SpecialCode[d] \in Int /\ SpecialCode[d] < 0
  /\ \A d, e \in DOMAIN SpecialCode : SpecialCode[d] = SpecialCode[e] => d = e
<1>1. DOMAIN SpecialCode = {"zero", "nan", "uninit"}
  BY DEF SpecialCode
<1>2. SpecialCode["zero"] = -1 /\ SpecialCode["nan"] = -2 /\ SpecialCode["uninit"] = -3
  BY DEF SpecialCode
<1> QED BY <1>1, <1>2

(* What a chunk occupies, and that no chunk is what a failed read yields.  *)
LEMMA ChunkFacts ==
  ASSUME NEW c \in ChunkSet
  PROVE  /\ c.nbytes \in Nat /\ c.nbytes > 0
         /\ c.cbytes \in Nat /\ c.cbytes >= Overhead /\ c.cbytes > 0
         /\ Stored(c) \in Nat /\ Stored(c) <= c.cbytes /\ OldCbytes(c) = Stored(c)
         /\ IF IsSpecial(c) THEN Stored(c) = 0 /\ c.cbytes = Overhead
                            ELSE Stored(c) = c.cbytes /\ c.cbytes > Overhead
         /\ c # Unreadable /\ c # EmptyFile
         /\ c = [data |-> c.data, nbytes |-> c.nbytes, cbytes |-> c.cbytes]
         /\ Overhead \in Nat /\ Overhead > 0
<1>1. Overhead \in Nat /\ Overhead > 0
  BY StoreAssumption DEF StoreAssumption
<1>2. c \in [data : {d.data : d \in Chunks} \cup DOMAIN SpecialCode, nbytes : Nat \ {0}, cbytes : Nat]
      /\ IF IsSpecial(c) THEN c.cbytes = Overhead ELSE c.cbytes > Overhead
  BY DEF ChunkSet
<1>3. c.nbytes \in Nat /\ c.nbytes # 0 /\ c.cbytes \in Nat
      /\ c = [data |-> c.data, nbytes |-> c.nbytes, cbytes |-> c.cbytes]
  BY <1>2
<1>4. c # Unreadable /\ c # EmptyFile
  BY <1>3 DEF Unreadable, EmptyFile
<1> QED BY <1>1, <1>2, <1>3, <1>4 DEF Stored, OldCbytes

(* The sizes of a list of chunks, as lists of numbers.                     *)
LEMMA SizesOf ==
  ASSUME NEW l \in Seq(ChunkSet)
  PROVE  /\ Bytes(l) \in [1 .. Len(l) -> Nat] /\ StoredIn(l) \in [1 .. Len(l) -> Nat]
         /\ Bytes(l) \in Seq(Nat) /\ Len(Bytes(l)) = Len(l)
         /\ StoredIn(l) \in Seq(Nat) /\ Len(StoredIn(l)) = Len(l)
         /\ \A i \in 1 .. Len(l) : Bytes(l)[i] = l[i].nbytes /\ StoredIn(l)[i] = Stored(l[i])
         /\ Sum(Bytes(l)) \in Nat /\ Sum(StoredIn(l)) \in Nat
<1> DEFINE n == Len(l)
<1>1. n \in Nat /\ \A i \in 1 .. n : l[i] \in ChunkSet
  OBVIOUS
<1>2. \A i \in 1 .. n : l[i].nbytes \in Nat /\ Stored(l[i]) \in Nat
  BY <1>1, ChunkFacts
<1>3. Bytes(l) \in [1 .. n -> Nat] /\ \A i \in 1 .. n : Bytes(l)[i] = l[i].nbytes
  BY <1>2 DEF Bytes
<1>4. StoredIn(l) \in [1 .. n -> Nat] /\ \A i \in 1 .. n : StoredIn(l)[i] = Stored(l[i])
  BY <1>2 DEF StoredIn
<1> HIDE DEF n
<1>5. Bytes(l) \in Seq(Nat) /\ Len(Bytes(l)) = n /\ StoredIn(l) \in Seq(Nat) /\ Len(StoredIn(l)) = n
  BY <1>1, <1>3, <1>4, ListIs
<1>6. Sum(Bytes(l)) \in Nat /\ Sum(StoredIn(l)) \in Nat
  <2>1. ASSUME NEW f \in Seq(Nat) PROVE Sum(f) \in Nat
    <3>1. \E g : Sums(g, f)
      BY SumSteps
    <3> QED BY <3>1, SumIs
  <2> QED BY <1>5, <2>1
<1> QED BY <1>3, <1>4, <1>5, <1>6 DEF n

(* Its sums when a chunk is inserted, deleted, replaced, or moved.         *)
LEMMA ListInserted ==
  ASSUME NEW l \in Seq(ChunkSet), NEW m \in Seq(ChunkSet), NEW c \in ChunkSet,
         NEW i \in 1 .. Len(l) + 1, Inserts(m, l, i, c)
  PROVE  /\ Sum(Bytes(m)) = Sum(Bytes(l)) + c.nbytes
         /\ Sum(StoredIn(m)) = Sum(StoredIn(l)) + Stored(c)
<1>1. Len(l) \in Nat /\ Len(m) = Len(l) + 1
      /\ \A j \in 1 .. Len(l) + 1 : m[j] = IF j < i THEN l[j] ELSE IF j = i THEN c ELSE l[j - 1]
  BY DEF Inserts
<1>2. \A j \in 1 .. Len(l) + 1 : (j < i => j \in 1 .. Len(l)) /\ (j > i => j - 1 \in 1 .. Len(l))
  BY <1>1
<1>3. c.nbytes \in Nat /\ Stored(c) \in Nat
  BY ChunkFacts
<1> DEFINE f == Bytes(l)
           g == Bytes(m)
<1>4. Sum(g) = Sum(f) + c.nbytes
  <2>1. f \in Seq(Nat) /\ Len(f) = Len(l) /\ \A j \in 1 .. Len(l) : f[j] = l[j].nbytes
    BY SizesOf
  <2>2. g \in Seq(Nat) /\ Len(g) = Len(l) + 1 /\ \A j \in 1 .. Len(l) + 1 : g[j] = m[j].nbytes
    BY <1>1, SizesOf
  <2> HIDE DEF f, g
  <2>3. ASSUME NEW j \in 1 .. Len(f) + 1
        PROVE  g[j] = IF j < i THEN f[j] ELSE IF j = i THEN c.nbytes ELSE f[j - 1]
    <3>1. j \in 1 .. Len(l) + 1
      BY <2>1
    <3>2. CASE j < i
      BY <1>1, <1>2, <2>1, <2>2, <3>1, <3>2
    <3>3. CASE j = i
      BY <1>1, <2>2, <3>1, <3>3
    <3>4. CASE j > i
      <4>1. m[j] = l[j - 1] /\ j - 1 \in 1 .. Len(l)
        BY <1>1, <1>2, <3>1, <3>4
      <4>2. g[j] = f[j - 1]
        BY <2>1, <2>2, <3>1, <4>1
      <4> QED BY <3>4, <4>2
    <3> QED BY <1>1, <3>1, <3>2, <3>3, <3>4
  <2>4. Len(g) = Len(f) + 1 /\ i \in 1 .. Len(f) + 1
    BY <2>1, <2>2
  <2> QED BY <1>3, <2>1, <2>2, <2>3, <2>4, SumInserted
<1> DEFINE u == StoredIn(l)
           v == StoredIn(m)
<1>5. Sum(v) = Sum(u) + Stored(c)
  <2>1. u \in Seq(Nat) /\ Len(u) = Len(l) /\ \A j \in 1 .. Len(l) : u[j] = Stored(l[j])
    BY SizesOf
  <2>2. v \in Seq(Nat) /\ Len(v) = Len(l) + 1 /\ \A j \in 1 .. Len(l) + 1 : v[j] = Stored(m[j])
    BY <1>1, SizesOf
  <2> HIDE DEF u, v
  <2>3. ASSUME NEW j \in 1 .. Len(u) + 1
        PROVE  v[j] = IF j < i THEN u[j] ELSE IF j = i THEN Stored(c) ELSE u[j - 1]
    <3>1. j \in 1 .. Len(l) + 1
      BY <2>1
    <3>2. CASE j < i
      BY <1>1, <1>2, <2>1, <2>2, <3>1, <3>2
    <3>3. CASE j = i
      BY <1>1, <2>2, <3>1, <3>3
    <3>4. CASE j > i
      <4>1. m[j] = l[j - 1] /\ j - 1 \in 1 .. Len(l)
        BY <1>1, <1>2, <3>1, <3>4
      <4>2. v[j] = u[j - 1]
        BY <2>1, <2>2, <3>1, <4>1
      <4> QED BY <3>4, <4>2
    <3> QED BY <1>1, <3>1, <3>2, <3>3, <3>4
  <2>4. Len(v) = Len(u) + 1 /\ i \in 1 .. Len(u) + 1
    BY <2>1, <2>2
  <2> QED BY <1>3, <2>1, <2>2, <2>3, <2>4, SumInserted
<1> QED BY <1>4, <1>5

(* A chunk less.                                                           *)
LEMMA ListDeleted ==
  ASSUME NEW l \in Seq(ChunkSet), NEW m \in Seq(ChunkSet), NEW i \in 1 .. Len(l), Deletes(m, l, i)
  PROVE  /\ Sum(Bytes(l)) = Sum(Bytes(m)) + l[i].nbytes
         /\ Sum(StoredIn(l)) = Sum(StoredIn(m)) + Stored(l[i])
<1>1. Len(l) \in Nat /\ Len(m) = Len(l) - 1
      /\ \A j \in 1 .. Len(l) - 1 : m[j] = IF j < i THEN l[j] ELSE l[j + 1]
  BY DEF Deletes
<1>2. \A j \in 1 .. Len(l) - 1 : j \in 1 .. Len(l) /\ j + 1 \in 1 .. Len(l)
  BY <1>1
<1> DEFINE f == Bytes(l)
           g == Bytes(m)
<1>4. Sum(f) = Sum(g) + f[i] /\ f[i] = l[i].nbytes
  <2>1. f \in Seq(Nat) /\ Len(f) = Len(l) /\ \A j \in 1 .. Len(l) : f[j] = l[j].nbytes
    BY SizesOf
  <2>2. g \in Seq(Nat) /\ Len(g) = Len(l) - 1 /\ \A j \in 1 .. Len(l) - 1 : g[j] = m[j].nbytes
    BY <1>1, SizesOf
  <2> HIDE DEF f, g
  <2>3. \A j \in 1 .. Len(f) - 1 : g[j] = IF j < i THEN f[j] ELSE f[j + 1]
    BY <1>1, <1>2, <2>1, <2>2
  <2>4. i \in 1 .. Len(f) /\ Len(g) = Len(f) - 1
    BY <2>1, <2>2
  <2> QED BY <2>1, <2>2, <2>3, <2>4, SumRemoved
<1> DEFINE u == StoredIn(l)
           v == StoredIn(m)
<1>5. Sum(u) = Sum(v) + u[i] /\ u[i] = Stored(l[i])
  <2>1. u \in Seq(Nat) /\ Len(u) = Len(l) /\ \A j \in 1 .. Len(l) : u[j] = Stored(l[j])
    BY SizesOf
  <2>2. v \in Seq(Nat) /\ Len(v) = Len(l) - 1 /\ \A j \in 1 .. Len(l) - 1 : v[j] = Stored(m[j])
    BY <1>1, SizesOf
  <2> HIDE DEF u, v
  <2>3. \A j \in 1 .. Len(u) - 1 : v[j] = IF j < i THEN u[j] ELSE u[j + 1]
    BY <1>1, <1>2, <2>1, <2>2
  <2>4. i \in 1 .. Len(u) /\ Len(v) = Len(u) - 1
    BY <2>1, <2>2
  <2> QED BY <2>1, <2>2, <2>3, <2>4, SumRemoved
<1> QED BY <1>4, <1>5

(* Another chunk.                                                          *)
LEMMA ListReplaced ==
  ASSUME NEW l \in Seq(ChunkSet), NEW m \in Seq(ChunkSet), NEW c \in ChunkSet,
         NEW i \in 1 .. Len(l), Replaces(m, l, i, c)
  PROVE  /\ Sum(Bytes(m)) = Sum(Bytes(l)) + c.nbytes - l[i].nbytes
         /\ Sum(StoredIn(m)) = Sum(StoredIn(l)) - Stored(l[i]) + Stored(c)
<1>1. Len(l) \in Nat /\ Len(m) = Len(l) /\ m[i] = c
      /\ \A j \in 1 .. Len(l) : j # i => m[j] = l[j]
  BY DEF Replaces
<1> DEFINE f == Bytes(l)
           g == Bytes(m)
<1>4. PICK r \in Nat : Sum(f) = r + f[i] /\ Sum(g) = r + g[i] /\ f[i] = l[i].nbytes
                       /\ g[i] = c.nbytes /\ f[i] \in Nat /\ g[i] \in Nat
  <2>1. f \in Seq(Nat) /\ Len(f) = Len(l) /\ \A j \in 1 .. Len(l) : f[j] = l[j].nbytes
    BY SizesOf
  <2>2. g \in Seq(Nat) /\ Len(g) = Len(l) /\ \A j \in 1 .. Len(l) : g[j] = m[j].nbytes
    BY <1>1, SizesOf
  <2> HIDE DEF f, g
  <2>3. \A j \in 1 .. Len(f) : j # i => g[j] = f[j]
    BY <1>1, <2>1, <2>2
  <2>4. i \in 1 .. Len(f) /\ Len(g) = Len(f) /\ f[i] = l[i].nbytes /\ g[i] = c.nbytes
    BY <1>1, <2>1, <2>2
  <2>5. \E r \in Nat : Sum(f) = r + f[i] /\ Sum(g) = r + g[i] /\ f[i] \in Nat /\ g[i] \in Nat
    BY <2>1, <2>2, <2>3, <2>4, SumReplaced
  <2> QED BY <2>4, <2>5
<1> DEFINE u == StoredIn(l)
           v == StoredIn(m)
<1>5. PICK r2 \in Nat : Sum(u) = r2 + u[i] /\ Sum(v) = r2 + v[i] /\ u[i] = Stored(l[i])
                        /\ v[i] = Stored(c) /\ u[i] \in Nat /\ v[i] \in Nat
  <2>1. u \in Seq(Nat) /\ Len(u) = Len(l) /\ \A j \in 1 .. Len(l) : u[j] = Stored(l[j])
    BY SizesOf
  <2>2. v \in Seq(Nat) /\ Len(v) = Len(l) /\ \A j \in 1 .. Len(l) : v[j] = Stored(m[j])
    BY <1>1, SizesOf
  <2> HIDE DEF u, v
  <2>3. \A j \in 1 .. Len(u) : j # i => v[j] = u[j]
    BY <1>1, <2>1, <2>2
  <2>4. i \in 1 .. Len(u) /\ Len(v) = Len(u) /\ u[i] = Stored(l[i]) /\ v[i] = Stored(c)
    BY <1>1, <2>1, <2>2
  <2>5. \E rest \in Nat : Sum(u) = rest + u[i] /\ Sum(v) = rest + v[i] /\ u[i] \in Nat /\ v[i] \in Nat
    BY <2>1, <2>2, <2>3, <2>4, SumReplaced
  <2> QED BY <2>4, <2>5
<1>6. Sum(g) = Sum(f) + c.nbytes - l[i].nbytes
  <2> HIDE DEF f, g
  <2> QED BY <1>4
<1>7. Sum(v) = Sum(u) - Stored(l[i]) + Stored(c)
  <2> HIDE DEF u, v
  <2> QED BY <1>5
<1> QED BY <1>6, <1>7

(* The chunks in another order.                                            *)
LEMMA ListPermuted ==
  ASSUME NEW l \in Seq(ChunkSet), NEW m \in Seq(ChunkSet), NEW p, Permutes(p, Len(l)),
         Len(m) = Len(l), \A i \in 1 .. Len(l) : m[i] = l[p[i]]
  PROVE  Sum(Bytes(m)) = Sum(Bytes(l)) /\ Sum(StoredIn(m)) = Sum(StoredIn(l))
<1> DEFINE n == Len(l)
<1>1. n \in Nat /\ Permutes(p, n) /\ Len(m) = n /\ \A i \in 1 .. n : m[i] = l[p[i]] /\ p[i] \in 1 .. n
  <2>1. \A i \in 1 .. Len(l) : p[i] \in 1 .. Len(l)
    BY DEF Permutes
  <2> QED BY <2>1
<1>2. Bytes(l) \in [1 .. n -> Nat] /\ StoredIn(l) \in [1 .. n -> Nat]
      /\ \A i \in 1 .. n : Bytes(l)[i] = l[i].nbytes /\ StoredIn(l)[i] = Stored(l[i])
  BY SizesOf
<1> HIDE DEF n
<1>3. Bytes(m) = Moved(Bytes(l), p, n)
  BY <1>1, <1>2 DEF Bytes, Moved
<1>4. StoredIn(m) = Moved(StoredIn(l), p, n)
  BY <1>1, <1>2 DEF StoredIn, Moved
<1>5. Sum(Moved(Bytes(l), p, n)) = Sum(Bytes(l)) /\ Sum(Moved(StoredIn(l), p, n)) = Sum(StoredIn(l))
  BY <1>1, <1>2, SumPermuted
<1> QED BY <1>3, <1>4, <1>5

(* Every chunk but the last has the size, and the last is no larger.       *)
Even(l, size) ==
  size > 0 => \A i \in 1 .. Len(l) : IF i = Len(l) THEN l[i].nbytes <= size
                                                   ELSE l[i].nbytes = size

(* The division that get_header_info and frame_get_chunk do on the sizes.  *)
LEMMA LastChunk ==
  ASSUME NEW n \in Nat \ {0}, NEW size \in Nat \ {0}, NEW last \in 1 .. size,
         NEW t \in Nat, t = (n - 1) * size + last
  PROVE  /\ (t + size - 1) \div size = n
         /\ t % size = IF last < size THEN last ELSE 0
<1>1. (n - 1) * size \in Nat /\ n * size = (n - 1) * size + size /\ (n + 1) * size = n * size + size
      /\ n * size \in Nat
  OBVIOUS
<1>2. (t + size - 1) \div size = n
  <2> DEFINE x == t + size - 1
  <2>1. x \in Nat /\ ~ x < n * size /\ x < (n + 1) * size
    BY <1>1
  <2> HIDE DEF x
  <2>2. ~ x \div size < n /\ x \div size < n + 1
    BY <2>1, DivBelow
  <2>3. x \div size \in Nat
    BY <2>1
  <2>4. x \div size = n
    BY <2>2, <2>3
  <2> QED BY <2>4 DEF x
<1>3. t \div size \in Nat /\ t = size * (t \div size) + (t % size) /\ t % size \in 0 .. size - 1
  <2> DEFINE q == t \div size
             r == t % size
  <2>1. q \in Nat /\ t = size * q + r /\ r \in 0 .. size - 1
    OBVIOUS
  <2> QED BY <2>1
<1>4. CASE last < size
  <2>1. ~ t < (n - 1) * size /\ t < n * size
    BY <1>1, <1>4
  <2>2. ~ t \div size < n - 1 /\ t \div size < n
    BY <2>1, DivBelow
  <2>3. t \div size = n - 1
    BY <1>3, <2>2
  <2> QED BY <1>3, <1>4, <2>3
<1>5. CASE last = size
  <2>1. ~ t < n * size /\ t < (n + 1) * size
    BY <1>1, <1>5
  <2>2. ~ t \div size < n /\ t \div size < n + 1
    BY <2>1, DivBelow
  <2>3. t \div size = n
    BY <1>3, <2>2
  <2> QED BY <1>1, <1>3, <1>5, <2>3
<1> QED BY <1>2, <1>4, <1>5

(* What an even list adds up to.                                           *)
LEMMA EvenSum ==
  ASSUME NEW l \in Seq(ChunkSet), NEW size \in Nat \ {0}, Even(l, size), Len(l) # 0
  PROVE  /\ Sum(Bytes(l)) = (Len(l) - 1) * size + l[Len(l)].nbytes
         /\ l[Len(l)].nbytes \in 1 .. size
<1> DEFINE n == Len(l)
           f == Bytes(l)
           last == l[n].nbytes
<1>1. n \in Nat /\ n # 0 /\ n \in 1 .. n /\ l[n] \in ChunkSet
  OBVIOUS
<1>2. \A i \in 1 .. n : IF i = n THEN l[i].nbytes <= size ELSE l[i].nbytes = size
  BY DEF Even
<1>3. f \in Seq(Nat) /\ Len(f) = n /\ \A i \in 1 .. n : f[i] = l[i].nbytes
  BY SizesOf
<1>4. last \in 1 .. size
  BY <1>1, <1>2, ChunkFacts
<1> DEFINE g == [k \in 0 .. n |-> IF k = n THEN (n - 1) * size + last ELSE k * size]
<1> HIDE DEF n, f, last
<1>5. \A k \in 0 .. n : g[k] \in Nat
  <2>1. (n - 1) * size + last \in Nat
    BY <1>1, <1>4
  <2>2. \A k \in 0 .. n : k * size \in Nat
    OBVIOUS
  <2> QED BY <2>1, <2>2
<1>6. g[0] = 0
  <2>1. 0 \in 0 .. n /\ 0 # n
    BY <1>1
  <2> QED BY <2>1
<1>7. ASSUME NEW k \in 1 .. n PROVE g[k] = g[k - 1] + f[k]
  <2>1. k \in 0 .. n /\ k - 1 \in 0 .. n /\ k - 1 # n /\ f[k] = l[k].nbytes
    BY <1>1, <1>3
  <2>2. g[k - 1] = (k - 1) * size
    BY <2>1
  <2>3. CASE k = n
    <3>1. g[k] = (n - 1) * size + last /\ f[k] = last
      BY <2>1, <2>3 DEF last
    <3> HIDE DEF g
    <3> QED BY <2>2, <2>3, <3>1
  <2>4. CASE k # n
    <3>1. g[k] = k * size /\ f[k] = size
      BY <1>2, <2>1, <2>4 DEF n
    <3>2. k * size = (k - 1) * size + size
      BY <1>1
    <3> HIDE DEF g
    <3> QED BY <2>2, <3>1, <3>2
  <2> QED BY <2>3, <2>4
<1>8. g = [k \in 0 .. n |-> g[k]] /\ n \in 0 .. n
  BY <1>1
<1>9. g[n] = (n - 1) * size + last
  BY <1>8
<1> HIDE DEF g
<1>10. g \in [0 .. n -> Nat]
  BY <1>5, <1>8
<1>11. Sums(g, f)
  BY <1>3, <1>6, <1>7, <1>10 DEF Sums
<1>12. Sum(f) = g[n]
  BY <1>3, <1>11, SumIs
<1> QED BY <1>4, <1>9, <1>12 DEF n, f, last

(* The sum of all entries bounds each, and one of them at 0 all.           *)
LEMMA NonEmptySum ==
  ASSUME NEW l \in Seq(ChunkSet)
  PROVE  /\ Len(l) = 0 => Sum(Bytes(l)) = 0 /\ Sum(StoredIn(l)) = 0
         /\ Len(l) # 0 => Sum(Bytes(l)) > 0
<1>1. CASE Len(l) = 0
  BY <1>1, SizesOf, SumEmpty
<1>2. CASE Len(l) # 0
  <2> DEFINE f == Bytes(l)
             h == RemoveAt(f, 1)
  <2>1. f \in Seq(Nat) /\ Len(f) = Len(l) /\ f[1] = l[1].nbytes /\ 1 \in 1 .. Len(f) /\ l[1] \in ChunkSet
    <3>1. 1 \in 1 .. Len(l)
      BY <1>2
    <3> QED BY <3>1, SizesOf
  <2>2. f[1] > 0
    BY <2>1, ChunkFacts
  <2> HIDE DEF f
  <2>3. h \in Seq(Nat) /\ Len(h) = Len(f) - 1
        /\ \A j \in 1 .. Len(f) - 1 : h[j] = IF j < 1 THEN f[j] ELSE f[j + 1]
    BY <2>1, Removed
  <2> HIDE DEF h
  <2>4. Sum(f) = Sum(h) + f[1] /\ Sum(h) \in Nat /\ f[1] \in Nat
    BY <2>1, <2>3, SumRemoved
  <2> QED BY <1>2, <2>2, <2>4 DEF f
<1> QED BY <1>1, <1>2

(* x is the highest of the first k offsets and -1.                         *)
Highest(x, offs, k) ==
  /\ x = -1 \/ \E i \in 1 .. k : x = offs[i]
  /\ x >= -1 /\ \A i \in 1 .. k : x >= offs[i]

(* The next chunk id is above those in use, and no code of special values. *)
LEMMA NextIdAbove ==
  ASSUME NEW offs \in Seq(Int)
  PROVE  /\ NextId(offs) \in Nat
         /\ \A i \in 1 .. Len(offs) : NextId(offs) > offs[i]
<1> DEFINE n == Len(offs)
           S == {k \in Nat : k <= n => \E x \in Int : Highest(x, offs, k)}
<1>1. n \in Nat /\ \A i \in 1 .. n : offs[i] \in Int
  OBVIOUS
<1>2. 0 \in S
  <2>1. Highest(-1, offs, 0)
    BY DEF Highest
  <2> QED BY <2>1
<1>3. ASSUME NEW k \in Nat, k \in S PROVE k + 1 \in S
  <2>1. ASSUME k + 1 <= n PROVE \E x \in Int : Highest(x, offs, k + 1)
    <3>1. PICK x \in Int : Highest(x, offs, k)
      BY <1>3, <2>1
    <3>2. offs[k + 1] \in Int /\ k + 1 \in 1 .. k + 1
      <4>1. k + 1 \in 1 .. n
        BY <1>1, <2>1
      <4> QED BY <1>1, <4>1
    <3>3. \A i \in 1 .. k + 1 : i \in 1 .. k \/ i = k + 1
      OBVIOUS
    <3>4. CASE x >= offs[k + 1]
      <4>1. Highest(x, offs, k + 1)
        BY <3>1, <3>3, <3>4 DEF Highest
      <4> QED BY <4>1
    <3>5. CASE x < offs[k + 1]
      <4>1. \A i \in 1 .. k : offs[i] \in Int
        BY <1>1, <2>1
      <4>2. Highest(offs[k + 1], offs, k + 1)
        BY <3>1, <3>2, <3>3, <3>5, <4>1 DEF Highest
      <4> QED BY <3>2, <4>2
    <3> QED BY <3>2, <3>4, <3>5
  <2>2. k + 1 \in Nat
    OBVIOUS
  <2> QED BY <2>1, <2>2
<1>4. n \in S
  <2> HIDE DEF S
  <2> QED BY <1>1, <1>2, <1>3, SetInduction
<1> DEFINE T == {-1} \cup Range(offs)
<1>5. T = {-1} \cup {offs[i] : i \in 1 .. n}
  BY <1>1 DEF Range
<1>6. \A x \in T : x \in Int
  BY <1>1, <1>5
<1>7. \E x \in T : \A y \in T : x >= y
  <2>1. PICK x \in Int : Highest(x, offs, n)
    BY <1>1, <1>4
  <2> QED BY <1>5, <2>1 DEF Highest
<1>8. Max(T) \in T /\ \A y \in T : Max(T) >= y
  <2> HIDE DEF T
  <2> QED BY <1>7 DEF Max
<1>9. NextId(offs) = 1 + Max(T)
  BY DEF NextId
<1>10. -1 \in T /\ \A i \in 1 .. n : offs[i] \in T
  BY <1>5
<1> DEFINE x == Max(T)
<1>11. x \in Int /\ x >= -1 /\ \A i \in 1 .. n : x >= offs[i]
  <2> HIDE DEF T
  <2> QED BY <1>6, <1>8, <1>10
<1> HIDE DEF x, T
<1>12. NextId(offs) = 1 + x
  BY <1>9 DEF x
<1> QED BY <1>1, <1>11, <1>12

(* An order that names every position permutes them.                       *)
LEMMA OrderPermutes ==
  ASSUME NEW n \in Nat, NEW p \in [1 .. n -> 1 .. n], Range(p) = 1 .. n
  PROVE  Permutes(p, n)
<1>1. \A i \in 1 .. n : \E j \in 1 .. n : p[j] = i
  BY DEF Range
<1>2. p \in Surjection(1 .. n, 1 .. n)
  BY <1>1 DEF Surjection
<1>3. IsFiniteSet(1 .. n)
  BY FS_Interval
<1>4. p \in Injection(1 .. n, 1 .. n)
  BY <1>2, <1>3, FS_SurjSameCardinalityImpliesInj
<1>5. \A i, j \in 1 .. n : p[i] = p[j] => i = j
  BY <1>4 DEF Injection, IsInjective
<1> QED BY <1>1, <1>5 DEF Permutes

-----------------------------------------------------------------------------
(***************************************************************************)
(* The index, the payload and the chunk files of a list.                   *)
(***************************************************************************)
(* A code for a special chunk, a place for any other.                      *)
Index(offs, l) ==
  /\ Len(offs) = Len(l)
  /\ \A i \in 1 .. Len(l) : IF IsSpecial(l[i]) THEN offs[i] = SpecialCode[l[i].data]
                                               ELSE offs[i] \in Nat

(* The cells behind o are those of the chunk, in order.                    *)
Whole(payload, o, c) ==
  /\ o + c.cbytes <= Len(payload)
  /\ \A k \in 1 .. c.cbytes : payload[o + k] = [of |-> c, part |-> k]

(* Two chunks with no cell in common.                                      *)
Apart(o, c, p, d) == o + c.cbytes <= p \/ p + d.cbytes <= o

(* Every chunk is whole, and no two overlap.                               *)
Laid(offs, payload, l) ==
  /\ \A i \in 1 .. Len(l) : ~IsSpecial(l[i]) => Whole(payload, offs[i], l[i])
  /\ \A i, j \in 1 .. Len(l) : i # j /\ ~IsSpecial(l[i]) /\ ~IsSpecial(l[j]) =>
       Apart(offs[i], l[i], offs[j], l[j])

(* Every chunk has a file of its own, and the other files are empty.       *)
Filed(offs, files, l) ==
  /\ \A i \in 1 .. Len(l) : ~IsSpecial(l[i]) => offs[i] \in DOMAIN files /\ files[offs[i]] = l[i]
  /\ \A i, j \in 1 .. Len(l) : i # j /\ ~IsSpecial(l[i]) => offs[i] # offs[j]
  /\ \A id \in DOMAIN files : files[id] = EmptyFile \/ \E i \in 1 .. Len(l) : offs[i] = id

(* Entry j of the n entries of g is entry p[j] of f, or x where p[j] is 0: *)
(* what an insertion, a deletion, a replacement and a reordering have in   *)
(* common.                                                                 *)
Picks(p, n, m) == p \in [1 .. m -> 0 .. n] /\ \A i, j \in 1 .. m : p[i] = p[j] => i = j
Picked(g, f, p, n, x) == Len(g) = n /\ \A j \in 1 .. n : g[j] = IF p[j] = 0 THEN x ELSE f[p[j]]

Inserting(n, k) == [j \in 1 .. n + 1 |-> IF j < k THEN j ELSE IF j = k THEN 0 ELSE j - 1]
Deleting(n, k) == [j \in 1 .. n - 1 |-> IF j < k THEN j ELSE j + 1]
Replacing(n, k) == [j \in 1 .. n |-> IF j = k THEN 0 ELSE j]

(* They pick what they say.                                                *)
LEMMA PicksInserting ==
  ASSUME NEW n \in Nat, NEW k \in 1 .. n + 1
  PROVE  /\ Picks(Inserting(n, k), n, n + 1)
         /\ \A i \in 1 .. n : \E j \in 1 .. n + 1 : Inserting(n, k)[j] = i
         /\ \A f, g, x : Len(f) = n /\ Inserts(g, f, k, x) => Picked(g, f, Inserting(n, k), n + 1, x)
<1> DEFINE p == Inserting(n, k)
<1>1. ASSUME NEW j \in 1 .. n + 1
      PROVE  /\ p[j] = (IF j < k THEN j ELSE IF j = k THEN 0 ELSE j - 1)
             /\ p[j] \in 0 .. n /\ (j < k => p[j] # 0) /\ (j > k => p[j] # 0)
  BY DEF Inserting
<1>2. p = [j \in 1 .. n + 1 |-> p[j]]
  BY DEF Inserting
<1> HIDE DEF p
<1>3. \A i, j \in 1 .. n + 1 : p[i] = p[j] => i = j
  BY <1>1
<1>4. Picks(p, n, n + 1)
  BY <1>1, <1>2, <1>3 DEF Picks
<1>5. ASSUME NEW f, NEW g, NEW x, Len(f) = n, Inserts(g, f, k, x)
      PROVE  Picked(g, f, p, n + 1, x)
  <2>1. Len(g) = n + 1
        /\ \A j \in 1 .. n + 1 : g[j] = IF j < k THEN f[j] ELSE IF j = k THEN x ELSE f[j - 1]
    BY <1>5 DEF Inserts
  <2>2. ASSUME NEW j \in 1 .. n + 1 PROVE g[j] = IF p[j] = 0 THEN x ELSE f[p[j]]
    <3>1. CASE j < k
      BY <1>1, <2>1, <3>1
    <3>2. CASE j = k
      BY <1>1, <2>1, <3>2
    <3>3. CASE j > k
      BY <1>1, <2>1, <3>3
    <3> QED BY <3>1, <3>2, <3>3
  <2> QED BY <2>1, <2>2 DEF Picked
<1>6. ASSUME NEW i \in 1 .. n PROVE \E j \in 1 .. n + 1 : p[j] = i
  <2>1. CASE i < k
    <3>1. i \in 1 .. n + 1
      OBVIOUS
    <3> QED BY <1>1, <2>1, <3>1
  <2>2. CASE ~ i < k
    <3>1. i + 1 \in 1 .. n + 1 /\ ~ i + 1 < k /\ i + 1 # k /\ (i + 1) - 1 = i
      BY <2>2
    <3>2. p[i + 1] = i
      BY <1>1, <3>1
    <3> QED BY <3>1, <3>2
  <2> QED BY <2>1, <2>2
<1> QED BY <1>4, <1>5, <1>6 DEF p

(* Deletion leaves out one entry.                                          *)
LEMMA PicksDeleting ==
  ASSUME NEW n \in Nat, NEW k \in 1 .. n
  PROVE  /\ Picks(Deleting(n, k), n, n - 1)
         /\ \A j \in 1 .. n - 1 : Deleting(n, k)[j] # 0 /\ Deleting(n, k)[j] # k
         /\ \A i \in 1 .. n : i # k => \E j \in 1 .. n - 1 : Deleting(n, k)[j] = i
         /\ \A f, g, x : Len(f) = n /\ Deletes(g, f, k) => Picked(g, f, Deleting(n, k), n - 1, x)
<1> DEFINE p == Deleting(n, k)
<1>1. ASSUME NEW j \in 1 .. n - 1
      PROVE  /\ p[j] = (IF j < k THEN j ELSE j + 1)
             /\ p[j] \in 0 .. n /\ p[j] # 0 /\ p[j] # k
  BY DEF Deleting
<1>2. p = [j \in 1 .. n - 1 |-> p[j]]
  BY DEF Deleting
<1> HIDE DEF p
<1>3. \A i, j \in 1 .. n - 1 : p[i] = p[j] => i = j
  BY <1>1
<1>4. Picks(p, n, n - 1)
  BY <1>1, <1>2, <1>3 DEF Picks
<1>5. ASSUME NEW f, NEW g, NEW x, Len(f) = n, Deletes(g, f, k)
      PROVE  Picked(g, f, p, n - 1, x)
  <2>1. Len(g) = n - 1 /\ \A j \in 1 .. n - 1 : g[j] = IF j < k THEN f[j] ELSE f[j + 1]
    BY <1>5 DEF Deletes
  <2>2. ASSUME NEW j \in 1 .. n - 1 PROVE g[j] = IF p[j] = 0 THEN x ELSE f[p[j]]
    <3>1. CASE j < k
      BY <1>1, <2>1, <3>1
    <3>2. CASE ~ j < k
      BY <1>1, <2>1, <3>2
    <3> QED BY <3>1, <3>2
  <2> QED BY <2>1, <2>2 DEF Picked
<1>6. ASSUME NEW i \in 1 .. n, i # k PROVE \E j \in 1 .. n - 1 : p[j] = i
  <2>1. CASE i < k
    <3>1. i \in 1 .. n - 1
      BY <2>1
    <3> QED BY <1>1, <2>1, <3>1
  <2>2. CASE i > k
    <3>1. i - 1 \in 1 .. n - 1 /\ ~ i - 1 < k
      BY <2>2
    <3>2. p[i - 1] = i
      BY <1>1, <3>1
    <3> QED BY <3>1, <3>2
  <2> QED BY <1>6, <2>1, <2>2
<1> QED BY <1>1, <1>4, <1>5, <1>6 DEF p

(* Replacement puts one entry in the place of another.                     *)
LEMMA PicksReplacing ==
  ASSUME NEW n \in Nat, NEW k \in 1 .. n
  PROVE  /\ Picks(Replacing(n, k), n, n)
         /\ \A f, g, x : Len(f) = n /\ Replaces(g, f, k, x) => Picked(g, f, Replacing(n, k), n, x)
<1> DEFINE p == Replacing(n, k)
<1>1. ASSUME NEW j \in 1 .. n
      PROVE  p[j] = (IF j = k THEN 0 ELSE j) /\ p[j] \in 0 .. n
  BY DEF Replacing
<1>2. p = [j \in 1 .. n |-> p[j]]
  BY DEF Replacing
<1> HIDE DEF p
<1>3. \A i, j \in 1 .. n : p[i] = p[j] => i = j
  BY <1>1
<1>4. Picks(p, n, n)
  BY <1>1, <1>2, <1>3 DEF Picks
<1>5. ASSUME NEW f, NEW g, NEW x, Len(f) = n, Replaces(g, f, k, x)
      PROVE  Picked(g, f, p, n, x)
  <2>1. Len(g) = n /\ \A j \in 1 .. n : g[j] = IF j = k THEN x ELSE f[j]
    BY <1>5 DEF Replaces
  <2>2. ASSUME NEW j \in 1 .. n PROVE g[j] = IF p[j] = 0 THEN x ELSE f[p[j]]
    BY <1>1, <2>1
  <2> QED BY <2>1, <2>2 DEF Picked
<1> QED BY <1>4, <1>5 DEF p

(* So does a permutation, of all entries.                                  *)
LEMMA PicksPermuted ==
  ASSUME NEW n \in Nat, NEW p, Permutes(p, n)
  PROVE  /\ Picks(p, n, n) /\ \A j \in 1 .. n : p[j] # 0
         /\ \A f, g, x : Len(g) = n /\ (\A i \in 1 .. n : g[i] = f[p[i]]) => Picked(g, f, p, n, x)
<1>1. \A j \in 1 .. n : p[j] \in 0 .. n /\ p[j] # 0
  BY DEF Permutes
<1>2. p = [j \in 1 .. n |-> p[j]]
  BY DEF Permutes
<1>3. \A i, j \in 1 .. n : p[i] = p[j] => i = j
  BY DEF Permutes
<1>4. Picks(p, n, n)
  BY <1>1, <1>2, <1>3 DEF Picks
<1>5. ASSUME NEW f, NEW g, NEW x, Len(g) = n, \A i \in 1 .. n : g[i] = f[p[i]]
      PROVE  Picked(g, f, p, n, x)
  BY <1>1, <1>5 DEF Picked
<1> QED BY <1>1, <1>4, <1>5

(* An offset is below zero for special values, and not for another chunk.  *)
LEMMA IndexSign ==
  ASSUME NEW l \in Seq(ChunkSet), NEW offs, Index(offs, l), NEW i \in 1 .. Len(l)
  PROVE  /\ offs[i] \in Int /\ (offs[i] < 0 <=> IsSpecial(l[i]))
         /\ (IsSpecial(l[i]) => offs[i] = SpecialCode[l[i].data] /\ l[i].data \in DOMAIN SpecialCode)
<1>1. IF IsSpecial(l[i]) THEN offs[i] = SpecialCode[l[i].data] ELSE offs[i] \in Nat
  BY DEF Index
<1>2. IsSpecial(l[i]) => l[i].data \in DOMAIN SpecialCode
  BY DEF IsSpecial
<1>3. CASE IsSpecial(l[i])
  <2>1. SpecialCode[l[i].data] \in Int /\ SpecialCode[l[i].data] < 0
    BY <1>2, <1>3, Codes
  <2> QED BY <1>1, <1>2, <1>3, <2>1
<1>4. CASE ~IsSpecial(l[i])
  BY <1>1, <1>4
<1> QED BY <1>3, <1>4

(* The offset a chunk may get: its code, or a place.                       *)
OffsetOf(o, c) == IF IsSpecial(c) THEN o = SpecialCode[c.data] ELSE o \in Nat

(* The index of what is picked.                                            *)
LEMMA IndexPicked ==
  ASSUME NEW l \in Seq(ChunkSet), NEW m \in Seq(ChunkSet), NEW c, NEW offs, NEW offs2, NEW o, NEW p,
         Index(offs, l), Picks(p, Len(l), Len(m)), Picked(m, l, p, Len(m), c),
         Picked(offs2, offs, p, Len(m), o), \A j \in 1 .. Len(m) : p[j] = 0 => OffsetOf(o, c)
  PROVE  Index(offs2, m)
<1>1. Len(offs2) = Len(m)
  BY DEF Picked
<1>2. ASSUME NEW j \in 1 .. Len(m)
      PROVE  IF IsSpecial(m[j]) THEN offs2[j] = SpecialCode[m[j].data] ELSE offs2[j] \in Nat
  <2>1. /\ m[j] = IF p[j] = 0 THEN c ELSE l[p[j]]
        /\ offs2[j] = IF p[j] = 0 THEN o ELSE offs[p[j]]
    BY DEF Picked
  <2>2. CASE p[j] = 0
    BY <2>1, <2>2 DEF OffsetOf
  <2>3. CASE p[j] # 0
    <3>1. p[j] \in 1 .. Len(l)
      BY <2>3 DEF Picks
    <3> QED BY <2>1, <2>3, <3>1 DEF Index
  <2> QED BY <2>2, <2>3
<1> QED BY <1>1, <1>2 DEF Index

(* The chunks that are picked stay where they are in a payload that grows, *)
(* and the one that is new lies behind them.                               *)
LEMMA LaidPicked ==
  ASSUME NEW l \in Seq(ChunkSet), NEW m \in Seq(ChunkSet), NEW c \in ChunkSet,
         NEW offs, NEW offs2, NEW o, NEW p, NEW payload, NEW payload2,
         Index(offs, l), Laid(offs, payload, l),
         Picks(p, Len(l), Len(m)), Picked(m, l, p, Len(m), c), Picked(offs2, offs, p, Len(m), o),
         Len(payload) \in Nat, Len(payload2) \in Nat, Len(payload2) >= Len(payload),
         \A k \in 1 .. Len(payload) : payload2[k] = payload[k],
         \A j \in 1 .. Len(m) : p[j] = 0 /\ ~IsSpecial(c) =>
           o \in Nat /\ o >= Len(payload) /\ Whole(payload2, o, c)
  PROVE  Laid(offs2, payload2, m)
<1>1. ASSUME NEW j \in 1 .. Len(m)
      PROVE  /\ m[j] = (IF p[j] = 0 THEN c ELSE l[p[j]])
             /\ offs2[j] = (IF p[j] = 0 THEN o ELSE offs[p[j]])
             /\ p[j] # 0 => p[j] \in 1 .. Len(l)
  <2>1. /\ m[j] = (IF p[j] = 0 THEN c ELSE l[p[j]])
        /\ offs2[j] = (IF p[j] = 0 THEN o ELSE offs[p[j]])
    BY DEF Picked
  <2>2. p[j] # 0 => p[j] \in 1 .. Len(l)
    BY DEF Picks
  <2> QED BY <2>1, <2>2
<1>2. ASSUME NEW i \in 1 .. Len(l), ~IsSpecial(l[i])
      PROVE  /\ Whole(payload, offs[i], l[i]) /\ offs[i] \in Nat /\ l[i].cbytes \in Nat
             /\ offs[i] + l[i].cbytes <= Len(payload) /\ Whole(payload2, offs[i], l[i])
  <2>1. Whole(payload, offs[i], l[i])
    BY <1>2 DEF Laid
  <2>2. offs[i] \in Nat
    BY <1>2 DEF Index
  <2>3. l[i] \in ChunkSet
    OBVIOUS
  <2>4. l[i].cbytes \in Nat
    BY <2>3, ChunkFacts
  <2>5. \A k \in 1 .. l[i].cbytes : offs[i] + k \in 1 .. Len(payload)
    BY <2>1, <2>2, <2>4 DEF Whole
  <2>6. Whole(payload2, offs[i], l[i])
    <3>1. offs[i] + l[i].cbytes <= Len(payload2)
      BY <2>1, <2>2, <2>4 DEF Whole
    <3>2. ASSUME NEW k \in 1 .. l[i].cbytes PROVE payload2[offs[i] + k] = [of |-> l[i], part |-> k]
      <4>1. payload[offs[i] + k] = [of |-> l[i], part |-> k]
        BY <2>1 DEF Whole
      <4>2. payload2[offs[i] + k] = payload[offs[i] + k]
        BY <2>5
      <4> QED BY <4>1, <4>2
    <3> QED BY <3>1, <3>2 DEF Whole
  <2> QED BY <2>1, <2>2, <2>4, <2>6 DEF Whole
<1>3. ASSUME NEW j \in 1 .. Len(m), ~IsSpecial(m[j]) PROVE Whole(payload2, offs2[j], m[j])
  <2>1. CASE p[j] = 0
    <3>1. m[j] = c /\ offs2[j] = o
      BY <1>1, <2>1
    <3> QED BY <1>3, <2>1, <3>1
  <2>2. CASE p[j] # 0
    <3>1. m[j] = l[p[j]] /\ offs2[j] = offs[p[j]] /\ p[j] \in 1 .. Len(l)
      BY <1>1, <2>2
    <3> QED BY <1>2, <1>3, <3>1
  <2> QED BY <2>1, <2>2
<1>4. ASSUME NEW i \in 1 .. Len(m), NEW j \in 1 .. Len(m), i # j, ~IsSpecial(m[i]), ~IsSpecial(m[j])
      PROVE  Apart(offs2[i], m[i], offs2[j], m[j])
  <2>1. p[i] # p[j]
    BY <1>4 DEF Picks
  <2>2. CASE p[i] # 0 /\ p[j] # 0
    <3>1. /\ m[i] = l[p[i]] /\ offs2[i] = offs[p[i]] /\ p[i] \in 1 .. Len(l)
          /\ m[j] = l[p[j]] /\ offs2[j] = offs[p[j]] /\ p[j] \in 1 .. Len(l)
      BY <1>1, <2>2
    <3> QED BY <1>4, <2>1, <3>1 DEF Laid
  <2>3. CASE p[i] = 0 /\ p[j] # 0
    <3>1. /\ m[i] = c /\ offs2[i] = o
          /\ m[j] = l[p[j]] /\ offs2[j] = offs[p[j]] /\ p[j] \in 1 .. Len(l)
      BY <1>1, <2>3
    <3>2. offs[p[j]] \in Nat /\ l[p[j]].cbytes \in Nat /\ offs[p[j]] + l[p[j]].cbytes <= Len(payload)
      BY <1>2, <1>4, <3>1
    <3>3. o \in Nat /\ o >= Len(payload)
      BY <1>4, <2>3, <3>1
    <3> QED BY <3>1, <3>2, <3>3 DEF Apart
  <2>4. CASE p[i] # 0 /\ p[j] = 0
    <3>1. /\ m[j] = c /\ offs2[j] = o
          /\ m[i] = l[p[i]] /\ offs2[i] = offs[p[i]] /\ p[i] \in 1 .. Len(l)
      BY <1>1, <2>4
    <3>2. offs[p[i]] \in Nat /\ l[p[i]].cbytes \in Nat /\ offs[p[i]] + l[p[i]].cbytes <= Len(payload)
      BY <1>2, <1>4, <3>1
    <3>3. o \in Nat /\ o >= Len(payload)
      BY <1>4, <2>4, <3>1
    <3> QED BY <3>1, <3>2, <3>3 DEF Apart
  <2> QED BY <2>1, <2>2, <2>3, <2>4
<1> QED BY <1>3, <1>4 DEF Laid

(* The files of the chunks that are picked, and that of the one that is    *)
(* new.                                                                    *)
LEMMA FiledPicked ==
  ASSUME NEW l \in Seq(ChunkSet), NEW m \in Seq(ChunkSet), NEW c \in ChunkSet,
         NEW offs, NEW offs2, NEW o, NEW p, NEW files, NEW files2,
         Index(offs, l), Filed(offs, files, l),
         Picks(p, Len(l), Len(m)), Picked(m, l, p, Len(m), c), Picked(offs2, offs, p, Len(m), o),
         \A j \in 1 .. Len(m) : p[j] = 0 => OffsetOf(o, c),
         \A j \in 1 .. Len(m) : p[j] = 0 /\ ~IsSpecial(c) => o \in DOMAIN files2 /\ files2[o] = c,
         \A j \in 1 .. Len(m) : p[j] # 0 /\ ~IsSpecial(l[p[j]]) =>
           /\ offs[p[j]] \in DOMAIN files2 /\ files2[offs[p[j]]] = files[offs[p[j]]]
           /\ ~IsSpecial(c) => offs[p[j]] # o,
         \A id \in DOMAIN files2 : files2[id] = EmptyFile \/ \E j \in 1 .. Len(m) : offs2[j] = id
  PROVE  Filed(offs2, files2, m)
<1>1. ASSUME NEW j \in 1 .. Len(m)
      PROVE  /\ m[j] = (IF p[j] = 0 THEN c ELSE l[p[j]])
             /\ offs2[j] = (IF p[j] = 0 THEN o ELSE offs[p[j]])
             /\ p[j] # 0 => p[j] \in 1 .. Len(l)
  <2>1. /\ m[j] = (IF p[j] = 0 THEN c ELSE l[p[j]])
        /\ offs2[j] = (IF p[j] = 0 THEN o ELSE offs[p[j]])
    BY DEF Picked
  <2>2. p[j] # 0 => p[j] \in 1 .. Len(l)
    BY DEF Picks
  <2> QED BY <2>1, <2>2
<1>2. ASSUME NEW j \in 1 .. Len(m), ~IsSpecial(m[j])
      PROVE  offs2[j] \in DOMAIN files2 /\ files2[offs2[j]] = m[j]
  <2>1. CASE p[j] = 0
    <3>1. m[j] = c /\ offs2[j] = o
      BY <1>1, <2>1
    <3> QED BY <1>2, <2>1, <3>1
  <2>2. CASE p[j] # 0
    <3>1. m[j] = l[p[j]] /\ offs2[j] = offs[p[j]] /\ p[j] \in 1 .. Len(l)
      BY <1>1, <2>2
    <3>2. files[offs[p[j]]] = l[p[j]]
      BY <1>2, <3>1 DEF Filed
    <3> QED BY <1>2, <2>2, <3>1, <3>2
  <2> QED BY <2>1, <2>2
<1>3. Index(offs2, m)
  BY IndexPicked
<1>4. ASSUME NEW i \in 1 .. Len(m), NEW j \in 1 .. Len(m), i # j, ~IsSpecial(m[i])
      PROVE  offs2[i] # offs2[j]
  <2>1. p[i] # p[j]
    BY <1>4 DEF Picks
  <2>2. CASE IsSpecial(m[j])
    BY <1>3, <1>4, <2>2, IndexSign
  <2>3. CASE ~IsSpecial(m[j]) /\ p[i] # 0 /\ p[j] # 0
    <3>1. /\ m[i] = l[p[i]] /\ offs2[i] = offs[p[i]] /\ p[i] \in 1 .. Len(l)
          /\ offs2[j] = offs[p[j]] /\ p[j] \in 1 .. Len(l)
      BY <1>1, <2>3
    <3> QED BY <1>4, <2>1, <3>1 DEF Filed
  <2>4. CASE ~IsSpecial(m[j]) /\ p[i] = 0 /\ p[j] # 0
    <3>1. m[i] = c /\ offs2[i] = o /\ m[j] = l[p[j]] /\ offs2[j] = offs[p[j]]
      BY <1>1, <2>4
    <3> QED BY <1>4, <2>4, <3>1
  <2>5. CASE ~IsSpecial(m[j]) /\ p[i] # 0 /\ p[j] = 0
    <3>1. m[j] = c /\ offs2[j] = o /\ m[i] = l[p[i]] /\ offs2[i] = offs[p[i]]
      BY <1>1, <2>5
    <3> QED BY <1>4, <2>5, <3>1
  <2> QED BY <2>1, <2>2, <2>3, <2>4, <2>5
<1> QED BY <1>2, <1>4 DEF Filed

(* q is p with c instead of the `old' cells behind x, in `new' cells; the  *)
(* offsets of what lies behind move with it.                               *)
Shifts(q, p, x, old, new, c) ==
  /\ Len(q) = Len(p) - old + new
  /\ \A k \in 1 .. Len(q) : q[k] = IF k <= x THEN p[k]
                                   ELSE IF k <= x + new THEN [of |-> c, part |-> k - x]
                                   ELSE p[k - new + old]
MovesBehind(offs2, offs, i, o, delta) ==
  /\ Len(offs2) = Len(offs)
  /\ \A j \in 1 .. Len(offs) : offs2[j] = IF j = i THEN o
                                          ELSE IF offs[j] > offs[i] THEN offs[j] + delta
                                          ELSE offs[j]

(* Cells within a payload, and cells that move with what lies before them. *)
LEMMA CellsWithin ==
  ASSUME NEW x \in Int, NEW size \in Nat, NEW len \in Nat, x + size <= len, x >= 0, NEW k \in 1 .. size
  PROVE  x + k \in 1 .. len /\ ~ x + k <= x /\ x + k <= x + size /\ (x + k) - x = k
  OBVIOUS

(* Such cells were as far behind before.                                   *)
LEMMA CellsMoved ==
  ASSUME NEW x \in Nat, NEW old \in Nat, NEW new \in Nat, NEW len \in Nat, NEW len2 \in Nat,
         NEW a \in Nat, NEW b \in Int, NEW size \in Nat,
         b = a + (new - old), x + old <= a, a + size <= len, len2 = len - old + new
  PROVE  /\ b >= x + new /\ b >= 0 /\ b + size <= len2
         /\ \A k \in 1 .. size : /\ ~ b + k <= x /\ ~ b + k <= x + new
                                 /\ (b + k) - new + old = a + k
  OBVIOUS

(* Chunks on either side of x stay apart.                                  *)
LEMMA StayApart ==
  ASSUME NEW x \in Int, NEW old \in Nat, NEW new \in Nat, NEW a \in Int, NEW b \in Int,
         NEW a2 \in Int, NEW b2 \in Int, NEW d \in Nat, NEW e \in Nat,
         a + d <= b \/ b + e <= a,
         a > x => a2 = a + (new - old) /\ a2 >= x + new, ~ a > x => a2 = a /\ a2 + d <= x,
         b > x => b2 = b + (new - old) /\ b2 >= x + new, ~ b > x => b2 = b /\ b2 + e <= x
  PROVE  a2 + d <= b2 \/ b2 + e <= a2
  OBVIOUS

(* A chunk changes in place: what lies behind it moves with its offsets.   *)
LEMMA LaidReplaced ==
  ASSUME NEW l \in Seq(ChunkSet), NEW m \in Seq(ChunkSet), NEW c \in ChunkSet, NEW i \in 1 .. Len(l),
         NEW offs, NEW offs2, NEW o, NEW payload, NEW payload2,
         Index(offs, l), Laid(offs, payload, l), Replaces(m, l, i, c), ~IsSpecial(l[i]),
         o = (IF IsSpecial(c) THEN SpecialCode[c.data] ELSE offs[i]),
         MovesBehind(offs2, offs, i, o, Stored(c) - l[i].cbytes),
         Len(payload) \in Nat, Shifts(payload2, payload, offs[i], l[i].cbytes, Stored(c), c)
  PROVE  Index(offs2, m) /\ Laid(offs2, payload2, m)
<1> DEFINE n == Len(l)
           x == offs[i]
           old == l[i].cbytes
           new == Stored(c)
<1>1. n \in Nat /\ Len(m) = n /\ m[i] = c /\ \A j \in 1 .. n : j # i => m[j] = l[j]
  BY DEF Replaces
<1>2. x \in Nat /\ old \in Nat /\ old > 0 /\ new \in Nat /\ x + old <= Len(payload)
  <2>1. l[i] \in ChunkSet
    OBVIOUS
  <2>2. x \in Nat /\ Whole(payload, x, l[i])
    BY DEF Index, Laid
  <2> QED BY <2>1, <2>2, ChunkFacts DEF Whole
<1> HIDE DEF n, x, old, new
<1>3. ASSUME NEW j \in 1 .. n, ~IsSpecial(l[j]), j # i
      PROVE  /\ offs[j] \in Nat /\ l[j].cbytes \in Nat /\ l[j].cbytes > 0
             /\ Whole(payload, offs[j], l[j])
             /\ offs[j] > x => offs[j] >= x + old
             /\ ~ offs[j] > x => offs[j] + l[j].cbytes <= x
  <2>1. l[j] \in ChunkSet
    BY <1>3 DEF n
  <2>2. offs[j] \in Nat /\ Whole(payload, offs[j], l[j])
    BY <1>3 DEF Index, Laid, n
  <2>3. x + old <= offs[j] \/ offs[j] + l[j].cbytes <= x
    BY <1>3 DEF Laid, Apart, n, x, old
  <2>4. l[j].cbytes \in Nat /\ l[j].cbytes > 0
    BY <1>3, <2>1, ChunkFacts
  <2> QED BY <1>2, <2>2, <2>3, <2>4
<1>4. ASSUME NEW j \in 1 .. n, j # i
      PROVE  offs2[j] = IF offs[j] > x THEN offs[j] + (new - old) ELSE offs[j]
  BY <1>4 DEF n, x, new, old, MovesBehind, Index
<1>5. offs2[i] = (IF IsSpecial(c) THEN SpecialCode[c.data] ELSE x) /\ Len(offs2) = n
  BY DEF x, MovesBehind, Index, n
<1>0. \A k \in 1 .. Len(payload2) :
        payload2[k] = IF k <= x THEN payload[k]
                      ELSE IF k <= x + new THEN [of |-> c, part |-> k - x]
                      ELSE payload[k - new + old]
  BY DEF x, new, old, Shifts
<1>6. Len(payload2) = Len(payload) - old + new /\ Len(payload2) \in Nat
  <2>1. Len(payload2) = Len(payload) - old + new
    BY DEF x, new, old, Shifts
  <2> QED BY <1>2, <2>1
<1>7. Index(offs2, m)
  <2>1. ASSUME NEW j \in 1 .. n
        PROVE  IF IsSpecial(m[j]) THEN offs2[j] = SpecialCode[m[j].data] ELSE offs2[j] \in Nat
    <3>1. CASE j = i
      BY <1>1, <1>2, <1>5, <3>1
    <3>2. CASE j # i /\ IsSpecial(l[j])
      <4>1. offs[j] \in Int /\ offs[j] < 0 /\ offs[j] = SpecialCode[l[j].data]
        BY <3>2, IndexSign DEF n
      <4> QED BY <1>1, <1>2, <1>4, <3>2, <4>1
    <3>3. CASE j # i /\ ~IsSpecial(l[j])
      BY <1>1, <1>2, <1>3, <1>4, <3>3
    <3> QED BY <3>1, <3>2, <3>3
  <2> QED BY <1>1, <1>5, <2>1 DEF Index, n
<1>8. ASSUME NEW j \in 1 .. n, ~IsSpecial(m[j]) PROVE Whole(payload2, offs2[j], m[j])
  <2>1. CASE j = i
    <3>1. m[j] = c /\ offs2[j] = x /\ new = c.cbytes
      BY <1>1, <1>5, <1>8, <2>1, ChunkFacts DEF new
    <3>2. x + c.cbytes <= Len(payload2)
      BY <1>2, <1>6, <3>1
    <3>3. ASSUME NEW k \in 1 .. c.cbytes PROVE payload2[x + k] = [of |-> c, part |-> k]
      <4>1. x + k \in 1 .. Len(payload2) /\ ~ x + k <= x /\ x + k <= x + new /\ (x + k) - x = k
        <5>1. x \in Int /\ x >= 0 /\ c.cbytes \in Nat /\ Len(payload2) \in Nat
          BY <1>2, <1>6, <3>1
        <5>2. x + k \in 1 .. Len(payload2) /\ ~ x + k <= x /\ x + k <= x + c.cbytes /\ (x + k) - x = k
          BY <3>2, <5>1, CellsWithin
        <5> QED BY <3>1, <5>2
      <4> QED BY <1>0, <4>1
    <3> QED BY <3>1, <3>2, <3>3 DEF Whole
  <2>2. CASE j # i /\ offs[j] > x
    <3>1. ~IsSpecial(l[j]) /\ m[j] = l[j] /\ offs2[j] = offs[j] + (new - old)
      BY <1>1, <1>4, <1>8, <2>2
    <3>2. /\ offs[j] \in Nat /\ l[j].cbytes \in Nat /\ offs[j] >= x + old
          /\ Whole(payload, offs[j], l[j])
      BY <1>3, <2>2, <3>1
    <3>3. /\ offs2[j] \in Int /\ offs2[j] >= 0 /\ offs2[j] + l[j].cbytes <= Len(payload2)
          /\ \A k \in 1 .. l[j].cbytes :
               /\ ~ offs2[j] + k <= x /\ ~ offs2[j] + k <= x + new
               /\ (offs2[j] + k) - new + old = offs[j] + k
      <4>1. offs[j] + l[j].cbytes <= Len(payload) /\ x + old <= offs[j]
        BY <1>2, <3>2 DEF Whole
      <4>2. x \in Nat /\ old \in Nat /\ new \in Nat /\ Len(payload) \in Nat /\ Len(payload2) \in Nat
            /\ offs[j] \in Nat /\ l[j].cbytes \in Nat
        BY <1>2, <1>6, <3>2
      <4>3. offs2[j] = offs[j] + (new - old) /\ Len(payload2) = Len(payload) - old + new
            /\ offs2[j] \in Int
        BY <1>6, <3>1, <4>2
      <4>4. /\ offs2[j] >= x + new /\ offs2[j] >= 0
            /\ offs2[j] + l[j].cbytes <= Len(payload2)
            /\ \A k \in 1 .. l[j].cbytes : /\ ~ offs2[j] + k <= x /\ ~ offs2[j] + k <= x + new
                                          /\ (offs2[j] + k) - new + old = offs[j] + k
        <5> DEFINE a == offs[j]
                   b == offs2[j]
                   size == l[j].cbytes
                   len == Len(payload)
                   len2 == Len(payload2)
        <5>1. /\ x \in Nat /\ old \in Nat /\ new \in Nat /\ len \in Nat /\ len2 \in Nat
              /\ a \in Nat /\ b \in Int /\ size \in Nat
              /\ b = a + (new - old) /\ x + old <= a /\ a + size <= len /\ len2 = len - old + new
          BY <4>1, <4>2, <4>3
        <5> HIDE DEF a, b, size, len, len2
        <5>2. /\ b >= x + new /\ b >= 0 /\ b + size <= len2
              /\ \A k \in 1 .. size : /\ ~ b + k <= x /\ ~ b + k <= x + new
                                      /\ (b + k) - new + old = a + k
          BY <5>1, CellsMoved
        <5> QED BY <5>2, Zenon DEF a, b, size, len, len2
      <4> QED BY <4>3, <4>4
    <3>4. ASSUME NEW k \in 1 .. l[j].cbytes PROVE payload2[offs2[j] + k] = [of |-> l[j], part |-> k]
      <4>1. offs2[j] + k \in 1 .. Len(payload2)
        BY <1>6, <3>2, <3>3, CellsWithin, SMTT(30)
      <4>2. payload2[offs2[j] + k] = payload[(offs2[j] + k) - new + old]
        BY <1>0, <3>3, <4>1
      <4>3. payload2[offs2[j] + k] = payload[offs[j] + k]
        BY <3>3, <4>2
      <4> QED BY <3>2, <4>3 DEF Whole
    <3> QED BY <3>1, <3>3, <3>4 DEF Whole
  <2>3. CASE j # i /\ ~ offs[j] > x
    <3>1. ~IsSpecial(l[j]) /\ m[j] = l[j] /\ offs2[j] = offs[j]
      BY <1>1, <1>4, <1>8, <2>3
    <3>2. /\ offs[j] \in Nat /\ l[j].cbytes \in Nat /\ offs[j] + l[j].cbytes <= x
          /\ Whole(payload, offs[j], l[j])
      BY <1>3, <2>3, <3>1
    <3>3. offs2[j] + l[j].cbytes <= Len(payload2)
      BY <1>2, <1>6, <3>1, <3>2, SMTT(30)
    <3>4. ASSUME NEW k \in 1 .. l[j].cbytes PROVE payload2[offs2[j] + k] = [of |-> l[j], part |-> k]
      <4>1. offs2[j] + k \in 1 .. Len(payload2) /\ offs2[j] + k <= x
        <5>0. offs[j] \in Int /\ offs[j] >= 0 /\ l[j].cbytes \in Nat /\ x \in Nat /\ Len(payload2) \in Nat
              /\ offs[j] + l[j].cbytes <= x /\ offs[j] + l[j].cbytes <= Len(payload2)
          BY <1>2, <1>6, <3>1, <3>2, <3>3
        <5>1. offs[j] + k \in 1 .. x
          BY <5>0, CellsWithin, SMTT(30)
        <5>2. offs[j] + k \in 1 .. Len(payload2)
          BY <5>0, CellsWithin
        <5> QED BY <3>1, <5>0, <5>1, <5>2
      <4>2. payload2[offs2[j] + k] = payload[offs[j] + k]
        <5>1. payload2[offs2[j] + k] = payload[offs2[j] + k]
          BY <1>0, <4>1
        <5> QED BY <3>1, <5>1
      <4> QED BY <3>2, <4>2 DEF Whole
    <3> QED BY <3>1, <3>3, <3>4 DEF Whole
  <2> QED BY <2>1, <2>2, <2>3
<1>9. ASSUME NEW j \in 1 .. n, ~IsSpecial(m[j]), j # i
      PROVE  /\ offs2[j] \in Int /\ m[j] = l[j] /\ ~IsSpecial(l[j]) /\ l[j].cbytes \in Nat /\ offs[j] \in Nat
             /\ offs[j] > x => offs2[j] = offs[j] + (new - old) /\ offs2[j] >= x + new
             /\ ~ offs[j] > x => offs2[j] = offs[j] /\ offs2[j] + l[j].cbytes <= x
  <2>1. m[j] = l[j] /\ ~IsSpecial(l[j])
    BY <1>1, <1>9
  <2> QED BY <1>2, <1>3, <1>4, <1>9, <2>1
<1>10. ASSUME NEW j \in 1 .. n, ~IsSpecial(m[j]), j # i, ~IsSpecial(c)
       PROVE  Apart(offs2[i], m[i], offs2[j], m[j]) /\ Apart(offs2[j], m[j], offs2[i], m[i])
  <2>1. offs2[i] = x /\ m[i] = c /\ c.cbytes = new
    BY <1>1, <1>5, <1>10, ChunkFacts DEF new
  <2> QED BY <1>2, <1>9, <1>10, <2>1 DEF Apart
<1>11. ASSUME NEW j \in 1 .. n, NEW k \in 1 .. n, j # k, ~IsSpecial(m[j]), ~IsSpecial(m[k])
       PROVE  Apart(offs2[j], m[j], offs2[k], m[k])
  <2>1. CASE j = i
    BY <1>1, <1>10, <1>11, <2>1
  <2>2. CASE k = i
    BY <1>1, <1>10, <1>11, <2>2
  <2>3. CASE j # i /\ k # i
    <3> DEFINE a == offs[j]
               b == offs[k]
               a2 == offs2[j]
               b2 == offs2[k]
               d == l[j].cbytes
               e == l[k].cbytes
    <3>1. a + d <= b \/ b + e <= a
      BY <1>9, <1>11, <2>3 DEF Laid, n, Apart
    <3>2. /\ a2 \in Int /\ m[j] = l[j] /\ d \in Nat /\ a \in Nat
          /\ a > x => a2 = a + (new - old) /\ a2 >= x + new
          /\ ~ a > x => a2 = a /\ a2 + d <= x
      BY <1>9, <1>11, <2>3
    <3>3. /\ b2 \in Int /\ m[k] = l[k] /\ e \in Nat /\ b \in Nat
          /\ b > x => b2 = b + (new - old) /\ b2 >= x + new
          /\ ~ b > x => b2 = b /\ b2 + e <= x
      BY <1>9, <1>11, <2>3
    <3>4. a2 + d <= b2 \/ b2 + e <= a2
      <4> HIDE DEF a, b, a2, b2, d, e
      <4>1. x \in Int /\ old \in Nat /\ new \in Nat /\ a \in Int /\ b \in Int
            /\ a2 \in Int /\ b2 \in Int /\ d \in Nat /\ e \in Nat
        BY <1>2, <3>2, <3>3
      <4>2. /\ a > x => a2 = a + (new - old) /\ a2 >= x + new
            /\ ~ a > x => a2 = a /\ a2 + d <= x
        BY <3>2
      <4>3. /\ b > x => b2 = b + (new - old) /\ b2 >= x + new
            /\ ~ b > x => b2 = b /\ b2 + e <= x
        BY <3>3
      <4> QED BY <3>1, <4>1, <4>2, <4>3, StayApart
    <3> QED BY <3>2, <3>3, <3>4 DEF Apart
  <2> QED BY <2>1, <2>2, <2>3
<1>12. Laid(offs2, payload2, m)
  BY <1>1, <1>8, <1>11 DEF Laid
<1> QED BY <1>7, <1>12

-----------------------------------------------------------------------------
(***************************************************************************)
(* Super-chunks, and the list one holds.                                   *)
(***************************************************************************)
HeadSet == [nbytes : Int, cbytes : Int, chunksize : Nat \cup {-1}]
CellSet == [of : ChunkSet \cup {Unreadable}, part : Nat]
FileSet == UNION {[ids -> ChunkSet \cup {EmptyFile}] : ids \in SUBSET Nat}
StoreSet ==
  [where : {"memory", "cframe", "file", "sframe"}, nchunks : Int, nbytes : Int, cbytes : Int,
   chunksize : Nat \cup {-1}, data : Seq(ChunkSet), room : Nat, head : HeadSet, at : Int,
   offs : Seq(Int), payload : Seq(CellSet), files : FileSet]

(* The handle counts what the list has.                                    *)
Counts(s, l) ==
  /\ s.nchunks = Len(l) /\ s.nbytes = Sum(Bytes(l)) /\ s.cbytes >= Sum(StoredIn(l))
  /\ Even(l, s.chunksize) /\ (s.chunksize = -1 => Len(l) = 0)

(* No special values among chunks of several sizes.                        *)
Plain(l, size) == size = 0 => \A i \in 1 .. Len(l) : ~IsSpecial(l[i])

(* The offsets and what they lead to, when the chunks end at `total'.      *)
Stores(s, l, total) ==
  /\ Index(s.offs, l) /\ total >= 0
  /\ Contiguous(s) => Len(s.payload) = total /\ Laid(s.offs, s.payload, l)
  /\ Sparse(s) => total = Sum(StoredIn(l)) /\ Filed(s.offs, s.files, l)

(* The frame has the list in it, for a reader who starts from its header.  *)
Placed(s, l) ==
  /\ Stores(s, l, s.head.cbytes)
  /\ s.head.nbytes = Sum(Bytes(l)) /\ Even(l, s.head.chunksize)
  /\ Len(l) # 0 => s.head.chunksize # -1 /\ s.at # NoIndex
  /\ Contiguous(s) => s.at \in {NoIndex, s.head.cbytes}
  /\ Plain(l, s.head.chunksize)

(* The header on disk says what the handle says.                           *)
InStep(s) ==
  /\ s.head.nbytes = s.nbytes /\ s.head.cbytes = s.cbytes
  /\ s.nchunks # 0 => s.head.chunksize = s.chunksize

(* The handle counts the list, and memory or the frame holds it.           *)
Holds(s, l) ==
  /\ Counts(s, l)
  /\ ~InFrame(s) => s.data = l /\ s.offs = <<>>
  /\ InFrame(s) => InStep(s) /\ Placed(s, l)

(* What is not changed by changing the counters.                           *)
SameFrame(s, t) ==
  /\ t.where = s.where /\ t.head = s.head /\ t.at = s.at
  /\ t.offs = s.offs /\ t.payload = s.payload /\ t.files = s.files

(* The fields of a super-chunk.                                            *)
LEMMA StoreFields ==
  ASSUME NEW s \in StoreSet
  PROVE  /\ s.where \in {"memory", "cframe", "file", "sframe"}
         /\ s.nchunks \in Int /\ s.nbytes \in Int /\ s.cbytes \in Int
         /\ s.chunksize \in Nat \cup {-1} /\ s.data \in Seq(ChunkSet) /\ s.room \in Nat
         /\ s.head \in HeadSet /\ s.at \in Int
         /\ s.offs \in Seq(Int) /\ s.payload \in Seq(CellSet) /\ s.files \in FileSet
         /\ s.head.nbytes \in Int /\ s.head.cbytes \in Int /\ s.head.chunksize \in Nat \cup {-1}
         /\ InFrame(s) => Contiguous(s) \/ Sparse(s)
         /\ ~(Contiguous(s) /\ Sparse(s)) /\ (~InFrame(s) => ~Contiguous(s) /\ ~Sparse(s))
<1>1. /\ s.where \in {"memory", "cframe", "file", "sframe"}
      /\ s.nchunks \in Int /\ s.nbytes \in Int /\ s.cbytes \in Int
      /\ s.chunksize \in Nat \cup {-1} /\ s.data \in Seq(ChunkSet) /\ s.room \in Nat
      /\ s.head \in HeadSet /\ s.at \in Int
      /\ s.offs \in Seq(Int) /\ s.payload \in Seq(CellSet) /\ s.files \in FileSet
  BY DEF StoreSet
<1>2. s.head.nbytes \in Int /\ s.head.cbytes \in Int /\ s.head.chunksize \in Nat \cup {-1}
  BY <1>1 DEF HeadSet
<1> QED BY <1>1, <1>2 DEF InFrame, Contiguous, Sparse

(* Writing the header and the trailer.                                     *)
LEMMA HeaderFields ==
  ASSUME NEW s \in StoreSet
  PROVE  \E t \in StoreSet :
           /\ UpdateHeader(s) = t /\ t.where = s.where /\ t.nchunks = s.nchunks /\ t.nbytes = s.nbytes
           /\ t.cbytes = s.cbytes /\ t.chunksize = s.chunksize /\ t.data = s.data
           /\ t.at = s.at /\ t.offs = s.offs /\ t.payload = s.payload /\ t.files = s.files
           /\ t.head.nbytes = s.nbytes /\ t.head.cbytes = s.cbytes /\ t.head.chunksize = s.chunksize
<1> DEFINE h == [nbytes |-> s.nbytes, cbytes |-> s.cbytes, chunksize |-> s.chunksize]
           t == [s EXCEPT !.head = h]
<1>1. h \in HeadSet /\ h.nbytes = s.nbytes /\ h.cbytes = s.cbytes /\ h.chunksize = s.chunksize
  BY StoreFields DEF HeadSet
<1> HIDE DEF h
<1>2. /\ t \in StoreSet /\ t.head = h
      /\ t.where = s.where /\ t.nchunks = s.nchunks /\ t.nbytes = s.nbytes
      /\ t.cbytes = s.cbytes /\ t.chunksize = s.chunksize /\ t.data = s.data
      /\ t.at = s.at /\ t.offs = s.offs /\ t.payload = s.payload /\ t.files = s.files
  BY <1>1 DEF StoreSet
<1>3. UpdateHeader(s) = t
  BY DEF UpdateHeader, h
<1> HIDE DEF t
<1> QED BY <1>1, <1>2, <1>3

(* Changing counters keeps a frame.                                        *)
LEMMA PlacedSame ==
  ASSUME NEW s, NEW t, NEW l, SameFrame(s, t), Placed(s, l)
  PROVE  Placed(t, l)
BY DEF SameFrame, Placed, Stores, Contiguous, Sparse

(* What there is to show of a call: a list that the super-chunk holds if   *)
(* no special values are left among chunks of several sizes.               *)
Takes(s, l) ==
  /\ s \in StoreSet /\ l \in Seq(ChunkSet)
  /\ InFrame(s) => Index(s.offs, l)
  /\ (InFrame(s) => Plain(l, s.chunksize)) => Holds(s, l)

(* The header written last makes a list of what the frame stores.          *)
LEMMA HeaderWritten ==
  ASSUME NEW s \in StoreSet, NEW l \in Seq(ChunkSet), InFrame(s), Counts(s, l), Stores(s, l, s.cbytes),
         s.at # NoIndex, Contiguous(s) => s.at = s.cbytes
  PROVE  /\ Takes(UpdateHeader(s), l) /\ UpdateHeader(s).where = s.where
         /\ UpdateHeader(s).chunksize = s.chunksize
<1>1. PICK t \in StoreSet :
           /\ UpdateHeader(s) = t /\ t.where = s.where /\ t.nchunks = s.nchunks /\ t.nbytes = s.nbytes
           /\ t.cbytes = s.cbytes /\ t.chunksize = s.chunksize /\ t.data = s.data
           /\ t.at = s.at /\ t.offs = s.offs /\ t.payload = s.payload /\ t.files = s.files
           /\ t.head.nbytes = s.nbytes /\ t.head.cbytes = s.cbytes /\ t.head.chunksize = s.chunksize
  BY HeaderFields
<1>2. /\ InFrame(t) /\ (Contiguous(t) <=> Contiguous(s)) /\ (Sparse(t) <=> Sparse(s))
  BY <1>1 DEF InFrame, Contiguous, Sparse
<1>3. Counts(t, l)
  BY <1>1 DEF Counts
<1>4. InStep(t)
  BY <1>1 DEF InStep
<1>5. Stores(t, l, s.cbytes) /\ Index(t.offs, l)
  BY <1>1, <1>2 DEF Stores
<1>6. s.nbytes = Sum(Bytes(l)) /\ Even(l, s.chunksize) /\ (Len(l) # 0 => s.chunksize # -1)
  BY DEF Counts
<1>7. ASSUME Plain(l, t.chunksize) PROVE Placed(t, l)
  BY <1>1, <1>2, <1>5, <1>6, <1>7 DEF Placed
<1>8. Takes(t, l)
  BY <1>2, <1>3, <1>4, <1>5, <1>7 DEF Takes, Holds
<1> QED BY <1>1, <1>8

(* What callers avoid makes it so.                                         *)
LEMMA TakesHolds ==
  ASSUME NEW s, NEW l, Takes(s, l),
         InFrame(s) => ~(s.chunksize = 0 /\ \E i \in DOMAIN s.offs : s.offs[i] < 0)
  PROVE  s \in StoreSet /\ l \in Seq(ChunkSet) /\ Holds(s, l)
<1>1. s \in StoreSet /\ l \in Seq(ChunkSet)
  BY DEF Takes
<1>2. ASSUME InFrame(s) PROVE Plain(l, s.chunksize)
  <2>1. Index(s.offs, l)
    BY <1>2 DEF Takes
  <2>2. s.offs \in Seq(Int) /\ Len(s.offs) = Len(l)
    BY <1>1, <2>1, StoreFields DEF Index
  <2>3. DOMAIN s.offs = 1 .. Len(l)
    BY <2>2
  <2>4. ASSUME NEW i \in 1 .. Len(l), IsSpecial(l[i]) PROVE s.offs[i] < 0
    BY <1>1, <2>1, <2>4, IndexSign
  <2> QED BY <1>2, <2>3, <2>4 DEF Plain
<1> QED BY <1>1, <1>2 DEF Takes

(* A whole chunk in the payload is what frame_get_chunk finds there.       *)
LEMMA PayloadRead ==
  ASSUME NEW s \in StoreSet, NEW c \in ChunkSet, NEW o \in Nat, ~IsSpecial(c),
         Whole(s.payload, o, c), Len(s.payload) = s.head.cbytes
  PROVE  PayloadAt(s, o) = c
<1>1. c.cbytes \in Nat /\ Overhead \in Nat /\ c.cbytes > Overhead /\ c.cbytes >= 1
  BY ChunkFacts
<1>2. s.head.cbytes \in Int /\ o + c.cbytes <= s.head.cbytes
  BY StoreFields DEF Whole
<1>3. \A k \in 1 .. c.cbytes : s.payload[o + k] = [of |-> c, part |-> k]
  BY DEF Whole
<1>4. o + Overhead <= s.head.cbytes
  BY <1>1, <1>2
<1>5. s.payload[o + 1].of = c
  <2>1. 1 \in 1 .. c.cbytes
    BY <1>1
  <2>2. s.payload[o + 1] = [of |-> c, part |-> 1]
    BY <1>3, <2>1, Zenon
  <2> QED BY <2>2
<1> QED BY <1>2, <1>3, <1>4, <1>5 DEF PayloadAt

(* The header and the index of a frame give the number of its chunks.      *)
LEMMA HeaderRead ==
  ASSUME NEW s \in StoreSet, NEW l \in Seq(ChunkSet), InFrame(s), Placed(s, l)
  PROVE  /\ HeadNchunks(s) = Len(l) /\ Len(s.offs) = Len(l) /\ Len(l) \in Nat
         /\ Len(l) # 0 => /\ IndexReadable(s, Len(l), Len(l))
                          /\ IndexReadable(s, Len(l), Len(l) + 1)
<1> DEFINE n == Len(l)
           size == s.head.chunksize
           t == s.head.nbytes
<1>1. /\ n \in Nat /\ Len(s.offs) = n /\ t = Sum(Bytes(l)) /\ Even(l, size) /\ t \in Nat
      /\ size \in Nat \cup {-1} /\ (n # 0 => size # -1 /\ s.at # NoIndex)
      /\ (Contiguous(s) => s.at \in {NoIndex, s.head.cbytes})
  BY StoreFields, SizesOf DEF Placed, Stores, Index
<1>2. InFrame(s) => Contiguous(s) \/ Sparse(s)
  BY StoreFields
<1>3. n # 0 => IndexFound(s)
  BY <1>1, <1>2 DEF IndexFound
<1>4. n # 0 => IndexReadable(s, n, n) /\ IndexReadable(s, n, n + 1)
  BY <1>1, <1>3 DEF IndexReadable
<1>5. CASE n = 0
  <2>1. t = 0
    BY <1>1, <1>5, NonEmptySum
  <2> QED BY <1>1, <1>4, <1>5, <2>1 DEF HeadNchunks
<1>6. CASE n # 0 /\ size = 0
  <2>1. t > 0
    BY <1>1, <1>6, NonEmptySum
  <2>2. HeadNchunks(s) = Len(s.offs)
    BY <1>1, <1>3, <1>6, <2>1 DEF HeadNchunks
  <2> QED BY <1>1, <1>4, <2>2
<1>7. CASE n # 0 /\ size > 0
  <2>1. t > 0 /\ size \in Nat \ {0}
    BY <1>1, <1>7, NonEmptySum
  <2>2. t = (n - 1) * size + l[n].nbytes /\ l[n].nbytes \in 1 .. size
    BY <1>1, <1>7, <2>1, EvenSum
  <2>3. (t + size - 1) \div size = n
    <3> DEFINE last == l[n].nbytes
    <3>1. t = (n - 1) * size + last /\ last \in 1 .. size /\ n \in Nat \ {0}
      BY <1>1, <1>7, <2>2
    <3> HIDE DEF last, n, t, size
    <3> QED BY <1>1, <2>1, <3>1, LastChunk
  <2>4. HeadNchunks(s) = (t + size - 1) \div size
    BY <1>7, <2>1 DEF HeadNchunks
  <2> QED BY <1>1, <1>4, <2>3, <2>4
<1> QED BY <1>1, <1>5, <1>6, <1>7

(* A chunk of special values takes its size from the header.               *)
LEMMA SpecialRead ==
  ASSUME NEW s \in StoreSet, NEW l \in Seq(ChunkSet), InFrame(s), Placed(s, l),
         NEW i \in 1 .. Len(l), IsSpecial(l[i])
  PROVE  SpecialAt(s, i, Len(l)) = l[i]
<1> DEFINE n == Len(l)
           size == s.head.chunksize
           t == s.head.nbytes
           last == l[n].nbytes
           d == CHOOSE e \in DOMAIN SpecialCode : SpecialCode[e] = s.offs[i]
<1>1. /\ n \in Nat \ {0} /\ n \in 1 .. n /\ t = Sum(Bytes(l)) /\ Even(l, size) /\ t \in Nat
      /\ size \in Nat \cup {-1} /\ size # -1 /\ Plain(l, size) /\ Index(s.offs, l)
  BY StoreFields, SizesOf DEF Placed, Stores
<1>2. size \in Nat \ {0}
  BY <1>1 DEF Plain
<1>3. t = (n - 1) * size + last /\ last \in 1 .. size
  BY <1>1, <1>2, EvenSum
<1>4. t % size = IF last < size THEN last ELSE 0
  <2> HIDE DEF n, size, t, last
  <2> QED BY <1>1, <1>2, <1>3, LastChunk, ZenonT(30)
<1>5. l[i] \in ChunkSet
  OBVIOUS
<1>6. s.offs[i] = SpecialCode[l[i].data] /\ l[i].data \in DOMAIN SpecialCode
  BY <1>1, IndexSign
<1>7. d = l[i].data
  BY <1>6, Codes
<1>8. l[i].nbytes = IF i = n /\ t % size > 0 THEN t % size ELSE size
  <2>1. CASE i = n
    <3>1. l[i].nbytes = last
      BY <2>1
    <3> HIDE DEF n, size, t, last
    <3> QED BY <1>2, <1>3, <1>4, <2>1, <3>1
  <2>2. CASE i # n
    BY <1>1, <1>2, <2>2 DEF Even
  <2> QED BY <2>1, <2>2
<1>9. l[i] = [data |-> l[i].data, nbytes |-> l[i].nbytes, cbytes |-> l[i].cbytes] /\ l[i].cbytes = Overhead
  BY <1>5, ChunkFacts
<1>10. SpecialAt(s, i, n) = [data |-> d, nbytes |-> IF i = n /\ t % size > 0 THEN t % size ELSE size,
                             cbytes |-> Overhead]
  BY <1>2 DEF SpecialAt
<1> HIDE DEF n, d, size, t
<1>11. SpecialAt(s, i, n) = l[i]
  BY <1>7, <1>8, <1>9, <1>10
<1> QED BY <1>11 DEF n

(* Reading a frame gives the list it has in it.                            *)
LEMMA ChunkRead ==
  ASSUME NEW s \in StoreSet, NEW l \in Seq(ChunkSet), InFrame(s), Placed(s, l), NEW i \in 1 .. Len(l)
  PROVE  FrameGetChunk(s, i) = l[i]
<1> DEFINE n == Len(l)
           c == l[i]
           o == s.offs[i]
<1>1. HeadNchunks(s) = n /\ n \in Nat /\ n # 0 /\ IndexReadable(s, n, n) /\ ~ n < i
  BY HeaderRead
<1>2. c \in ChunkSet /\ c # Unreadable /\ c # EmptyFile
  BY ChunkFacts
<1>3. Index(s.offs, l) /\ o \in Int /\ (o < 0 <=> IsSpecial(c))
  BY IndexSign DEF Placed, Stores
<1>4. CASE IsSpecial(c)
  <2>1. SpecialAt(s, i, n) = c
    BY <1>4, SpecialRead
  <2> HIDE DEF n, c, o
  <2>2. FrameGetChunk(s, i) = SpecialAt(s, i, n)
    BY <1>1, <1>3, <1>4 DEF FrameGetChunk, o
  <2> QED BY <2>1, <2>2 DEF c
<1>5. CASE ~IsSpecial(c) /\ Sparse(s)
  <2>1. o \in DOMAIN s.files /\ s.files[o] = c
    BY <1>5 DEF Placed, Stores, Filed
  <2>2. FileAt(s, o) = c
    BY <1>2, <2>1 DEF FileAt
  <2> HIDE DEF n, c, o
  <2>3. FrameGetChunk(s, i) = FileAt(s, o)
    BY <1>1, <1>3, <1>5 DEF FrameGetChunk, o
  <2> QED BY <2>2, <2>3 DEF c
<1>6. CASE ~IsSpecial(c) /\ ~Sparse(s)
  <2>1. Contiguous(s)
    BY <1>6, StoreFields
  <2>2. Whole(s.payload, o, c) /\ Len(s.payload) = s.head.cbytes /\ o \in Nat
    BY <1>3, <1>6, <2>1 DEF Placed, Stores, Laid
  <2> HIDE DEF n, c, o
  <2>3. PayloadAt(s, o) = c
    BY <1>2, <1>6, <2>2, PayloadRead
  <2>4. FrameGetChunk(s, i) = PayloadAt(s, o)
    BY <1>1, <1>3, <1>6 DEF FrameGetChunk, o
  <2> QED BY <2>3, <2>4 DEF c
<1> QED BY <1>4, <1>5, <1>6

(* Whatever a super-chunk is stored in, reading it gives its list.         *)
LEMMA Reads ==
  ASSUME NEW s \in StoreSet, NEW l \in Seq(ChunkSet), Holds(s, l)
  PROVE  /\ s.nchunks = Len(l) /\ Len(l) \in Nat
         /\ \A i \in 1 .. Len(l) : GetChunk(s, i) = l[i] /\ l[i] \in ChunkSet /\ l[i] # Unreadable
         /\ Seen(s) = [i \in 1 .. Len(l) |-> Content(l[i])]
<1>1. s.nchunks = Len(l) /\ Len(l) \in Nat
  BY DEF Holds, Counts
<1>2. ASSUME NEW i \in 1 .. Len(l) PROVE GetChunk(s, i) = l[i] /\ l[i] \in ChunkSet /\ l[i] # Unreadable
  <2>1. l[i] \in ChunkSet /\ l[i] # Unreadable
    BY ChunkFacts
  <2>2. CASE InFrame(s)
    <3>1. FrameGetChunk(s, i) = l[i]
      BY <2>2, ChunkRead DEF Holds
    <3> QED BY <2>1, <2>2, <3>1 DEF GetChunk
  <2>3. CASE ~InFrame(s)
    BY <2>1, <2>3 DEF GetChunk, Holds
  <2> QED BY <2>2, <2>3
<1> QED BY <1>1, <1>2 DEF Seen

(* The cells and files that are written.                                   *)
LEMMA LayIs ==
  ASSUME NEW payload \in Seq(CellSet), NEW o \in Nat, NEW c \in ChunkSet, NEW total \in Nat,
         Len(payload) <= total, o + c.cbytes <= total
  PROVE  /\ Lay(payload, o, c, total) \in Seq(CellSet) /\ Len(Lay(payload, o, c, total)) = total
         /\ Whole(Lay(payload, o, c, total), o, c)
         /\ \A k \in 1 .. total : k \notin o + 1 .. o + c.cbytes /\ k <= Len(payload) =>
              Lay(payload, o, c, total)[k] = payload[k]
<1> DEFINE p == Lay(payload, o, c, total)
<1>1. c.cbytes \in Nat
  BY ChunkFacts
<1>2. Junk \in CellSet
  BY DEF Junk, CellSet
<1>3. ASSUME NEW k \in 1 .. total
      PROVE  /\ p[k] = (IF k \in o + 1 .. o + c.cbytes THEN [of |-> c, part |-> k - o]
                        ELSE IF k <= Len(payload) THEN payload[k] ELSE Junk)
             /\ p[k] \in CellSet
  <2>1. p[k] = (IF k \in o + 1 .. o + c.cbytes THEN [of |-> c, part |-> k - o]
                ELSE IF k <= Len(payload) THEN payload[k] ELSE Junk)
    BY DEF Lay
  <2>2. CASE k \in o + 1 .. o + c.cbytes
    <3>1. k - o \in Nat
      BY <1>1, <2>2
    <3>2. [of |-> c, part |-> k - o] \in CellSet
      BY <3>1 DEF CellSet
    <3> QED BY <2>1, <2>2, <3>2
  <2>3. CASE k \notin o + 1 .. o + c.cbytes /\ k <= Len(payload)
    <3>1. payload[k] \in CellSet
      BY <2>3
    <3> QED BY <2>1, <2>3, <3>1
  <2>4. CASE k \notin o + 1 .. o + c.cbytes /\ ~ k <= Len(payload)
    BY <1>2, <2>1, <2>4
  <2> QED BY <2>2, <2>3, <2>4
<1>4. p = [k \in 1 .. total |-> p[k]]
  BY DEF Lay
<1> HIDE DEF p
<1>5. p \in Seq(CellSet) /\ Len(p) = total
  <2>1. p \in [1 .. total -> CellSet]
    BY <1>3, <1>4
  <2> QED BY <2>1, ListIs
<1>6. ASSUME NEW k \in 1 .. c.cbytes PROVE p[o + k] = [of |-> c, part |-> k]
  <2>1. o + k \in 1 .. total /\ o + k \in o + 1 .. o + c.cbytes /\ (o + k) - o = k
    BY <1>1
  <2> QED BY <1>3, <2>1
<1>7. Whole(p, o, c)
  BY <1>5, <1>6 DEF Whole
<1> QED BY <1>3, <1>5, <1>7 DEF p

(* A chunk file is written, or removed.                                    *)
LEMMA FilesWritten ==
  ASSUME NEW files \in FileSet, NEW id \in Nat, NEW c \in ChunkSet \cup {EmptyFile}
  PROVE  /\ CreateFile(files, id, c) \in FileSet
         /\ DOMAIN CreateFile(files, id, c) = DOMAIN files \cup {id}
         /\ CreateFile(files, id, c)[id] = c
         /\ \A i \in DOMAIN files : i # id => CreateFile(files, id, c)[i] = files[i]
<1>1. PICK ids \in SUBSET Nat : files \in [ids -> ChunkSet \cup {EmptyFile}]
  BY DEF FileSet
<1>2. CreateFile(files, id, c) \in [ids \cup {id} -> ChunkSet \cup {EmptyFile}]
  BY <1>1 DEF CreateFile
<1>3. ids \cup {id} \in SUBSET Nat
  OBVIOUS
<1>4. CreateFile(files, id, c) \in FileSet
  BY <1>2, <1>3 DEF FileSet
<1> QED BY <1>1, <1>2, <1>4 DEF CreateFile

(* Removal leaves the others.                                              *)
LEMMA FilesRemoved ==
  ASSUME NEW files \in FileSet, NEW id
  PROVE  /\ RemoveFile(files, id) \in FileSet
         /\ DOMAIN RemoveFile(files, id) = DOMAIN files \ {id}
         /\ \A i \in DOMAIN files : i # id => RemoveFile(files, id)[i] = files[i]
<1>1. PICK ids \in SUBSET Nat : files \in [ids -> ChunkSet \cup {EmptyFile}]
  BY DEF FileSet
<1>2. RemoveFile(files, id) \in [ids \ {id} -> ChunkSet \cup {EmptyFile}]
  BY <1>1 DEF RemoveFile
<1>3. ids \ {id} \in SUBSET Nat
  OBVIOUS
<1>4. RemoveFile(files, id) \in FileSet
  BY <1>2, <1>3 DEF FileSet
<1> QED BY <1>1, <1>2, <1>4 DEF RemoveFile

-----------------------------------------------------------------------------
(***************************************************************************)
(* Appending and inserting.                                                *)
(***************************************************************************)

(* A new chunk in the index, in the payload or in a file.                  *)
LEMMA StoredNew ==
  ASSUME NEW t \in StoreSet, NEW l \in Seq(ChunkSet), NEW m \in Seq(ChunkSet), NEW c \in ChunkSet,
         NEW i \in 1 .. Len(l) + 1, NEW o, NEW offs \in Seq(Int),
         InFrame(t), Placed(t, l), Inserts(m, l, i, c), Counts(t, m),
         t.cbytes = t.head.cbytes + Stored(c),
         o = NewOffset(t, c, t.offs), Inserts(offs, t.offs, i, o)
  PROVE  /\ Takes(StoreNew(t, c, o, offs), m)
         /\ StoreNew(t, c, o, offs).where = t.where /\ StoreNew(t, c, o, offs).chunksize = t.chunksize
<1> DEFINE total == t.head.cbytes + Stored(c)
           n == Len(l)
           p == Inserting(n, i)
<1>1. /\ Stored(c) \in Nat /\ t.head.cbytes \in Nat /\ total \in Nat /\ total = t.cbytes
      /\ total >= t.head.cbytes /\ t.cbytes # NoIndex
  <2>1. t.head.cbytes \in Nat
    BY StoreFields DEF Placed, Stores
  <2>2. Stored(c) \in Nat
    BY ChunkFacts
  <2> DEFINE a == t.head.cbytes
             b == Stored(c)
  <2>3. total = a + b /\ t.cbytes = a + b
    OBVIOUS
  <2>4. NoIndex = -1
    BY DEF NoIndex
  <2>5. a \in Nat /\ b \in Nat
    BY <2>1, <2>2
  <2> HIDE DEF a, b, total
  <2>6. total \in Nat /\ total = t.cbytes /\ total >= a /\ t.cbytes # NoIndex
    BY <2>3, <2>4, <2>5
  <2> QED BY <2>5, <2>6 DEF a, b
<1>2. /\ n \in Nat /\ Len(m) = n + 1 /\ Len(t.offs) = n /\ Index(t.offs, l) /\ t.offs \in Seq(Int)
      /\ t.payload \in Seq(CellSet) /\ t.files \in FileSet
  BY StoreFields DEF Placed, Stores, Index, Inserts
<1>3. /\ Picks(p, n, Len(m)) /\ Picked(m, l, p, Len(m), c) /\ Picked(offs, t.offs, p, Len(m), o)
      /\ \A k \in 1 .. n : \E j \in 1 .. Len(m) : p[j] = k
  <2> HIDE DEF p
  <2>1. /\ Picks(p, n, n + 1)
        /\ \A k \in 1 .. n : \E j \in 1 .. n + 1 : p[j] = k
        /\ \A f, g, x : Len(f) = n /\ Inserts(g, f, i, x) => Picked(g, f, p, n + 1, x)
    BY <1>2, PicksInserting DEF p
  <2> QED BY <1>2, <2>1
<1> HIDE DEF n, p, total
<1>4. NextId(t.offs) \in Nat /\ \A k \in 1 .. n : NextId(t.offs) > t.offs[k]
  BY <1>2, NextIdAbove
<1>5. OffsetOf(o, c)
  BY <1>1, <1>4 DEF OffsetOf, NewOffset
<1>6. Index(offs, m)
  BY <1>2, <1>3, <1>5, IndexPicked DEF n
<1>7. Sum(StoredIn(m)) = Sum(StoredIn(l)) + Stored(c)
  BY ListInserted
<1>8. ASSUME NEW k \in 1 .. n
      PROVE  t.offs[k] \in Int /\ (t.offs[k] < 0 <=> IsSpecial(l[k]))
  BY <1>2, IndexSign DEF n
<1>9. ASSUME NEW id, \E k \in 1 .. n : t.offs[k] = id PROVE \E j \in 1 .. Len(m) : offs[j] = id
  <2>1. PICK k \in 1 .. n : t.offs[k] = id
    BY <1>9
  <2>2. PICK j \in 1 .. Len(m) : p[j] = k
    BY <1>3
  <2>3. offs[j] = t.offs[k]
    <3>1. offs[j] = IF p[j] = 0 THEN o ELSE t.offs[p[j]]
      BY <1>3, Zenon DEF Picked
    <3>2. k # 0
      BY <1>2
    <3> QED BY <2>2, <3>1, <3>2
  <2> QED BY <2>1, <2>3
<1>14. ASSUME NEW j \in 1 .. Len(m), p[j] # 0 PROVE p[j] \in 1 .. n
  <2>1. p[j] \in 0 .. n
    BY <1>3, Zenon DEF Picks
  <2> QED BY <1>2, <1>14, <2>1
<1>10. CASE IsSpecial(c)
  <2> DEFINE q == [t EXCEPT !.offs = offs, !.at = total]
  <2>1. /\ q \in StoreSet /\ q.where = t.where /\ q.nchunks = t.nchunks /\ q.nbytes = t.nbytes
        /\ q.cbytes = t.cbytes /\ q.chunksize = t.chunksize /\ q.offs = offs /\ q.at = total
        /\ q.payload = t.payload /\ q.files = t.files
    BY <1>1 DEF StoreSet
  <2>2. StoreNew(t, c, o, offs) = UpdateHeader(q)
    BY <1>10 DEF StoreNew, total
  <2> HIDE DEF q
  <2>3. /\ InFrame(q) /\ (Contiguous(q) <=> Contiguous(t)) /\ (Sparse(q) <=> Sparse(t))
    BY <2>1 DEF InFrame, Contiguous, Sparse
  <2>4. Stored(c) = 0
    BY <1>10, ChunkFacts
  <2>5. ASSUME Contiguous(t) PROVE Len(t.payload) = t.cbytes /\ Laid(offs, t.payload, m)
    <3>1. Len(t.payload) = t.head.cbytes /\ Laid(t.offs, t.payload, l)
      BY <2>5 DEF Placed, Stores
    <3>2. Len(t.payload) \in Nat
      BY <1>1, <3>1
    <3>3. Laid(offs, t.payload, m)
      BY <1>2, <1>3, <1>10, <3>1, <3>2, LaidPicked DEF n
    <3> QED BY <1>1, <2>4, <3>1, <3>3 DEF total
  <2>6. ASSUME Sparse(t) PROVE t.cbytes = Sum(StoredIn(m)) /\ Filed(offs, t.files, m)
    <3>1. t.head.cbytes = Sum(StoredIn(l)) /\ Filed(t.offs, t.files, l)
      BY <2>6 DEF Placed, Stores
    <3>2. \A id \in DOMAIN t.files : t.files[id] = EmptyFile \/ \E j \in 1 .. Len(m) : offs[j] = id
      BY <1>9, <3>1 DEF Filed, n
    <3>3. ASSUME NEW j \in 1 .. Len(m), p[j] # 0, ~IsSpecial(l[p[j]])
          PROVE  t.offs[p[j]] \in DOMAIN t.files
      <4>1. p[j] \in 1 .. n
        BY <1>14, <3>3
      <4> QED BY <3>1, <3>3, <4>1 DEF Filed, n
    <3>4. Filed(offs, t.files, m)
      BY <1>2, <1>3, <1>5, <1>10, <3>1, <3>2, <3>3, FiledPicked DEF n
    <3> QED BY <1>1, <1>7, <3>1, <3>4 DEF total
  <2>7. Stores(q, m, q.cbytes) /\ Counts(q, m)
    BY <1>1, <1>6, <2>1, <2>3, <2>5, <2>6 DEF Stores, Counts
  <2> QED BY <1>1, <2>1, <2>2, <2>3, <2>7, HeaderWritten
<1>11. CASE ~IsSpecial(c) /\ Sparse(t)
  <2> DEFINE files == CreateFile(t.files, o, c)
             q == [[t EXCEPT !.offs = offs, !.at = total] EXCEPT !.files = files]
  <2>0. o = NextId(t.offs) /\ o \in Nat /\ o \notin {t.offs[k] : k \in 1 .. n}
    <3>1. o = NextId(t.offs)
      BY <1>11 DEF NewOffset
    <3> QED BY <1>4, <1>8, <3>1
  <2>a. /\ files \in FileSet /\ DOMAIN files = DOMAIN t.files \cup {o} /\ files[o] = c
        /\ \A k \in DOMAIN t.files : k # o => files[k] = t.files[k]
    <3>1. c \in ChunkSet \cup {EmptyFile} /\ t.files \in FileSet /\ o \in Nat
      BY <1>2, <2>0
    <3> QED BY <3>1, FilesWritten, ZenonT(30)
  <2>2. StoreNew(t, c, o, offs) = UpdateHeader(q)
    BY <1>11 DEF StoreNew, total
  <2> HIDE DEF files
  <2>1. /\ q \in StoreSet /\ q.where = t.where /\ q.nchunks = t.nchunks /\ q.nbytes = t.nbytes
        /\ q.cbytes = t.cbytes /\ q.chunksize = t.chunksize /\ q.offs = offs /\ q.at = total
        /\ q.payload = t.payload /\ q.files = files
    BY <1>1, <2>a DEF StoreSet
  <2> HIDE DEF q
  <2>3. /\ InFrame(q) /\ (Contiguous(q) <=> Contiguous(t)) /\ Sparse(q) /\ ~Contiguous(q)
    BY <1>11, <2>1 DEF InFrame, Contiguous, Sparse
  <2>6. t.cbytes = Sum(StoredIn(m)) /\ Filed(offs, files, m)
    <3>1. t.head.cbytes = Sum(StoredIn(l)) /\ Filed(t.offs, t.files, l)
      BY <1>11 DEF Placed, Stores
    <3>2. ASSUME NEW id \in DOMAIN files PROVE files[id] = EmptyFile \/ \E j \in 1 .. Len(m) : offs[j] = id
      <4>1. CASE id = o
        <5>1. \E j \in 1 .. Len(m) : offs[j] = o
          <6>1. i \in 1 .. Len(m) /\ i \in 1 .. Len(t.offs) + 1
            BY <1>2 DEF n
          <6>2. offs[i] = IF i < i THEN t.offs[i] ELSE IF i = i THEN o ELSE t.offs[i - 1]
            BY <6>1, Zenon DEF Inserts
          <6>3. ~ i < i
            OBVIOUS
          <6> QED BY <6>1, <6>2, <6>3
        <5> QED BY <4>1, <5>1
      <4>2. CASE id # o
        <5>1. id \in DOMAIN t.files /\ files[id] = t.files[id]
          BY <2>a, <4>2
        <5> QED BY <1>9, <3>1, <5>1 DEF Filed, n
      <4> QED BY <4>1, <4>2
    <3>3. ASSUME NEW j \in 1 .. Len(m), p[j] # 0, ~IsSpecial(l[p[j]])
          PROVE  /\ t.offs[p[j]] \in DOMAIN files /\ files[t.offs[p[j]]] = t.files[t.offs[p[j]]]
                 /\ t.offs[p[j]] # o
      <4>1. p[j] \in 1 .. n
        BY <1>14, <3>3
      <4>2. t.offs[p[j]] \in DOMAIN t.files
        BY <3>1, <3>3, <4>1 DEF Filed, n
      <4>3. t.offs[p[j]] # o
        BY <2>0, <4>1
      <4> QED BY <2>a, <4>2, <4>3
    <3>4. Filed(offs, files, m)
      <4>1. o \in DOMAIN files /\ files[o] = c
        BY <2>a
      <4>2. /\ Index(t.offs, l) /\ Picks(p, Len(l), Len(m)) /\ Picked(m, l, p, Len(m), c)
            /\ Picked(offs, t.offs, p, Len(m), o) /\ Filed(t.offs, t.files, l)
        BY <1>2, <1>3, <3>1 DEF n
      <4> QED BY <1>5, <3>2, <3>3, <4>1, <4>2, FiledPicked
    <3> QED BY <1>1, <1>7, <3>1, <3>4 DEF total
  <2>7. Stores(q, m, q.cbytes) /\ Counts(q, m)
    BY <1>1, <1>6, <2>1, <2>3, <2>6 DEF Stores, Counts
  <2> QED BY <1>1, <2>1, <2>2, <2>3, <2>7, HeaderWritten
<1>12. CASE ~IsSpecial(c) /\ ~Sparse(t)
  <2> DEFINE payload == Lay(t.payload, o, c, total)
             q == [[t EXCEPT !.offs = offs, !.at = total] EXCEPT !.payload = payload]
  <2>0. Contiguous(t) /\ o = t.head.cbytes /\ c.cbytes = Stored(c) /\ c.cbytes \in Nat
    BY <1>12, StoreFields, ChunkFacts DEF NewOffset
  <2>b. Len(t.payload) = t.head.cbytes /\ Laid(t.offs, t.payload, l)
    BY <2>0 DEF Placed, Stores
  <2>a. /\ payload \in Seq(CellSet) /\ Len(payload) = total /\ Whole(payload, o, c)
        /\ \A k \in 1 .. total : k \notin o + 1 .. o + c.cbytes /\ k <= Len(t.payload) =>
             payload[k] = t.payload[k]
    <3>1. Len(t.payload) <= total /\ o + c.cbytes <= total /\ o \in Nat
      BY <1>1, <2>0, <2>b DEF total
    <3>2. total \in Nat /\ t.payload \in Seq(CellSet)
      BY <1>1, <1>2
    <3> DEFINE old == t.payload
    <3>3. old \in Seq(CellSet) /\ Len(old) <= total /\ payload = Lay(old, o, c, total)
      BY <3>1, <3>2
    <3> HIDE DEF old, payload
    <3>4. /\ payload \in Seq(CellSet) /\ Len(payload) = total /\ Whole(payload, o, c)
          /\ \A k \in 1 .. total : k \notin o + 1 .. o + c.cbytes /\ k <= Len(old) => payload[k] = old[k]
      BY <3>1, <3>2, <3>3, LayIs
    <3> QED BY <3>4 DEF old
  <2>2. StoreNew(t, c, o, offs) = UpdateHeader(q)
    BY <1>12 DEF StoreNew, total
  <2> HIDE DEF payload
  <2>1. /\ q \in StoreSet /\ q.where = t.where /\ q.nchunks = t.nchunks /\ q.nbytes = t.nbytes
        /\ q.cbytes = t.cbytes /\ q.chunksize = t.chunksize /\ q.offs = offs /\ q.at = total
        /\ q.payload = payload /\ q.files = t.files
    BY <1>1, <2>a DEF StoreSet
  <2> HIDE DEF q
  <2>3. /\ InFrame(q) /\ Contiguous(q) /\ ~Sparse(q)
    BY <1>12, <2>0, <2>1 DEF InFrame, Contiguous, Sparse
  <2>5. Laid(offs, payload, m)
    <3>1. \A k \in 1 .. Len(t.payload) : payload[k] = t.payload[k]
      <4>1. \A k \in 1 .. Len(t.payload) : k \in 1 .. total /\ k \notin o + 1 .. o + c.cbytes /\ k <= Len(t.payload)
        BY <1>1, <2>0, <2>b, SMTT(30)
      <4> QED BY <2>a, <4>1
    <3>2. Len(t.payload) \in Nat /\ Len(payload) \in Nat /\ Len(payload) >= Len(t.payload)
      BY <1>1, <2>a, <2>b
    <3>3. o \in Nat /\ o >= Len(t.payload)
      BY <1>1, <2>0, <2>b
    <3> QED BY <1>2, <1>3, <2>a, <2>b, <3>1, <3>2, <3>3, LaidPicked DEF n
  <2>7. Stores(q, m, q.cbytes) /\ Counts(q, m)
    BY <1>1, <1>6, <2>1, <2>3, <2>5, <2>a DEF Stores, Counts
  <2> QED BY <1>1, <2>1, <2>2, <2>3, <2>7, HeaderWritten
<1> QED BY <1>10, <1>11, <1>12

(* A chunk added to an even list, or to one whose chunk size goes.         *)
LEMMA AddedEven ==
  ASSUME NEW s \in StoreSet, NEW l \in Seq(ChunkSet), Holds(s, l), NEW c \in ChunkSet,
         NEW i \in 1 .. Len(l) + 1, NEW m \in Seq(ChunkSet), Inserts(m, l, i, c)
  PROVE  LET size == NewChunksize(s, c, Uneven(s, i, c)) IN
         /\ size \in Nat
         /\ ~(size > 0 /\ c.nbytes > size) => Even(m, size)
         /\ Len(l) # 0 => ~(size > 0 /\ c.nbytes > size)
         /\ Len(l) # 0 /\ size # 0 => size = s.chunksize
<1> DEFINE n == Len(l)
           size == NewChunksize(s, c, Uneven(s, i, c))
<1>1. /\ n \in Nat /\ s.nchunks = n /\ Even(l, s.chunksize) /\ (s.chunksize = -1 => n = 0)
      /\ s.chunksize \in Nat \cup {-1} /\ c.nbytes \in Nat /\ c.nbytes > 0 /\ i \in Nat
  BY StoreFields, ChunkFacts DEF Holds, Counts
<1>2. \A j \in 1 .. n : GetChunk(s, j) = l[j] /\ l[j].nbytes \in Nat
  BY Reads, ChunkFacts
<1>3. /\ Len(m) = n + 1
      /\ \A j \in 1 .. n + 1 : m[j] = IF j < i THEN l[j] ELSE IF j = i THEN c ELSE l[j - 1]
  BY DEF Inserts
<1>4. CASE n = 0
  <2>1. size = IF s.chunksize = -1 THEN c.nbytes ELSE s.chunksize
    BY <1>1, <1>4 DEF NewChunksize, Uneven
  <2>2. i = 1 /\ m[1] = c
    BY <1>1, <1>3, <1>4
  <2>3. size \in Nat /\ (~(size > 0 /\ c.nbytes > size) /\ size > 0 => c.nbytes <= size)
    BY <1>1, <2>1
  <2> HIDE DEF size
  <2>4. ~(size > 0 /\ c.nbytes > size) => Even(m, size)
    BY <1>3, <1>4, <2>2, <2>3 DEF Even
  <2> QED BY <1>4, <2>3, <2>4 DEF size
<1>5. CASE n # 0 /\ Uneven(s, i, c)
  <2>1. size = 0
    BY <1>5 DEF NewChunksize
  <2> HIDE DEF size
  <2>2. size \in Nat /\ Even(m, size) /\ ~(size > 0 /\ c.nbytes > size)
    BY <2>1 DEF Even
  <2> QED BY <2>1, <2>2 DEF size
<1>6. CASE n # 0 /\ ~Uneven(s, i, c)
  <2>1. size = s.chunksize /\ size \in Nat
    BY <1>1, <1>6 DEF NewChunksize
  <2> HIDE DEF size
  <2>2. CASE size = 0
    <3>1. size \in Nat /\ Even(m, size) /\ ~(size > 0 /\ c.nbytes > size)
      BY <2>1, <2>2 DEF Even
    <3> QED BY <2>1, <3>1 DEF size
  <2>3. CASE size > 0
    <3>1. n \in 1 .. n /\ GetChunk(s, n) = l[n] /\ l[n].nbytes \in Nat
      BY <1>1, <1>2, <1>6
    <3>2. ~ l[n].nbytes < size /\ ~ c.nbytes > size /\ ~(i <= n /\ c.nbytes # size)
      BY <1>1, <1>6, <2>1, <2>3, <3>1 DEF Uneven
    <3>3. \A j \in 1 .. n : IF j = n THEN l[j].nbytes <= size ELSE l[j].nbytes = size
      BY <1>1, <2>1, <2>3 DEF Even
    <3>4. \A j \in 1 .. n : l[j].nbytes = size
      <4>1. l[n].nbytes = size
        BY <2>1, <3>1, <3>2, <3>3
      <4> QED BY <3>3, <4>1
    <3>5. ASSUME NEW j \in 1 .. Len(m)
          PROVE  IF j = Len(m) THEN m[j].nbytes <= size ELSE m[j].nbytes = size
      <4>1. m[j] = IF j < i THEN l[j] ELSE IF j = i THEN c ELSE l[j - 1]
        BY <1>3, <3>5
      <4>2. CASE j = i
        <5>1. m[j] = c
          BY <4>1, <4>2
        <5> QED BY <1>1, <1>3, <2>1, <3>2, <4>2, <5>1
      <4>3. CASE j < i
        <5>1. m[j] = l[j] /\ j \in 1 .. n
          BY <1>1, <1>3, <4>1, <4>3
        <5> QED BY <2>1, <3>4, <5>1
      <4>4. CASE j > i
        <5>1. m[j] = l[j - 1] /\ j - 1 \in 1 .. n
          BY <1>1, <1>3, <4>1, <4>4
        <5> QED BY <2>1, <3>4, <5>1
      <4> QED BY <1>1, <1>3, <4>2, <4>3, <4>4
    <3>6. Even(m, size)
      BY <3>5 DEF Even
    <3> QED BY <2>1, <3>2, <3>6 DEF size
  <2> QED BY <2>1, <2>2, <2>3
<1> QED BY <1>4, <1>5, <1>6

(* The counters when a chunk is added, and the frame that has not changed. *)
LEMMA AddedCounts ==
  ASSUME NEW s \in StoreSet, NEW l \in Seq(ChunkSet), Holds(s, l), NEW c \in ChunkSet,
         NEW i \in 1 .. Len(l) + 1, NEW m \in Seq(ChunkSet), Inserts(m, l, i, c),
         NEW size \in Nat, Even(m, size)
  PROVE  \E t \in StoreSet :
           /\ Counted(s, c, size) = t /\ SameFrame(s, t) /\ Counts(t, m)
           /\ t.chunksize = size /\ t.data = s.data /\ t.room = s.room /\ t.nchunks = Len(l) + 1
           /\ InFrame(s) => InFrame(t) /\ Placed(t, l) /\ t.cbytes = t.head.cbytes + Stored(c)
<1> DEFINE more == IF InFrame(s) THEN Stored(c) ELSE c.cbytes
           chunks == s.nchunks + 1
           bytes == s.nbytes + c.nbytes
           stored == s.cbytes + more
           t == [s EXCEPT !.nchunks = chunks, !.nbytes = bytes, !.chunksize = size, !.cbytes = stored]
<1>1. /\ Counts(s, l) /\ s.nchunks \in Int /\ s.nbytes \in Int /\ s.cbytes \in Int
      /\ (InFrame(s) => s.head.cbytes = s.cbytes /\ Placed(s, l))
  BY StoreFields DEF Holds, InStep
<1>2. c.nbytes \in Nat /\ Stored(c) \in Nat /\ c.cbytes \in Nat /\ Stored(c) <= c.cbytes
  BY ChunkFacts
<1>3. more \in Nat /\ more >= Stored(c) /\ (InFrame(s) => more = Stored(c))
  BY <1>2
<1>4. Counted(s, c, size) = t
  BY DEF Counted
<1> HIDE DEF more
<1>5. /\ t \in StoreSet /\ t.where = s.where /\ t.head = s.head /\ t.at = s.at
      /\ t.offs = s.offs /\ t.payload = s.payload /\ t.files = s.files
      /\ t.nchunks = s.nchunks + 1 /\ t.nbytes = s.nbytes + c.nbytes /\ t.cbytes = s.cbytes + more
      /\ t.chunksize = size /\ t.data = s.data /\ t.room = s.room
  <2>1. chunks \in Int /\ bytes \in Int /\ stored \in Int /\ size \in Nat \cup {-1}
    BY <1>1, <1>2, <1>3, SMTT(30)
  <2> HIDE DEF chunks, bytes, stored
  <2>2. /\ t \in StoreSet /\ t.where = s.where /\ t.head = s.head /\ t.at = s.at
        /\ t.offs = s.offs /\ t.payload = s.payload /\ t.files = s.files
        /\ t.nchunks = chunks /\ t.nbytes = bytes /\ t.cbytes = stored
        /\ t.chunksize = size /\ t.data = s.data /\ t.room = s.room
    BY <2>1 DEF StoreSet
  <2> HIDE DEF t
  <2> QED BY <2>2 DEF chunks, bytes, stored
<1> HIDE DEF t
<1>6. SameFrame(s, t) /\ (InFrame(s) => InFrame(t))
  BY <1>5 DEF SameFrame, InFrame
<1>7. Sum(Bytes(m)) = Sum(Bytes(l)) + c.nbytes /\ Sum(StoredIn(m)) = Sum(StoredIn(l)) + Stored(c)
      /\ Sum(Bytes(l)) \in Nat /\ Sum(StoredIn(l)) \in Nat /\ Len(m) = Len(l) + 1 /\ Len(l) \in Nat
  <2>1. Sum(Bytes(l)) \in Nat /\ Sum(StoredIn(l)) \in Nat /\ Len(l) \in Nat
    BY SizesOf
  <2>2. Sum(Bytes(m)) = Sum(Bytes(l)) + c.nbytes /\ Sum(StoredIn(m)) = Sum(StoredIn(l)) + Stored(c)
    BY ListInserted
  <2> QED BY <2>1, <2>2 DEF Inserts
<1>8. Counts(t, m)
  <2>1. s.nchunks = Len(l) /\ s.nbytes = Sum(Bytes(l)) /\ s.cbytes >= Sum(StoredIn(l))
    BY <1>1 DEF Counts
  <2>2. t.nchunks = Len(m) /\ t.nbytes = Sum(Bytes(m)) /\ t.chunksize # -1
    BY <1>5, <1>7, <2>1
  <2>3. t.cbytes >= Sum(StoredIn(m))
    <3> DEFINE a == Sum(StoredIn(l))
               b == s.cbytes
               d == Stored(c)
    <3>1. a \in Nat /\ b \in Int /\ d \in Nat /\ more \in Nat /\ b >= a /\ more >= d
          /\ t.cbytes = b + more /\ Sum(StoredIn(m)) = a + d
      BY <1>1, <1>2, <1>3, <1>5, <1>7, <2>1
    <3> HIDE DEF a, b, d
    <3> QED BY <3>1
  <2> QED BY <1>5, <2>2, <2>3 DEF Counts
<1>9. ASSUME InFrame(s) PROVE Placed(t, l) /\ t.cbytes = t.head.cbytes + Stored(c)
  <2>1. Placed(t, l)
    BY <1>1, <1>6, <1>9, PlacedSame, Zenon
  <2>2. t.head.cbytes = s.cbytes
    BY <1>1, <1>5, <1>9
  <2> QED BY <1>3, <1>5, <1>9, <2>1, <2>2
<1>10. t.nchunks = Len(l) + 1
  BY <1>1, <1>5 DEF Counts
<1> QED BY <1>4, <1>5, <1>6, <1>8, <1>9, <1>10, Zenon

(* Appending is inserting behind the last entry.                           *)
LEMMA Appended ==
  ASSUME NEW S, NEW f \in Seq(S), NEW x \in S
  PROVE  Append(f, x) \in Seq(S) /\ Inserts(Append(f, x), f, Len(f) + 1, x)
BY DEF Inserts

(* What InsertAt and RemoveAt do.                                          *)
LEMMA InsertsAt ==
  ASSUME NEW S, NEW f \in Seq(S), NEW k \in 1 .. Len(f) + 1, NEW x \in S
  PROVE  InsertAt(f, k, x) \in Seq(S) /\ Inserts(InsertAt(f, k, x), f, k, x)
BY Inserted DEF Inserts

(* An entry is taken out.                                                  *)
LEMMA DeletesAt ==
  ASSUME NEW S, NEW f \in Seq(S), NEW k \in 1 .. Len(f)
  PROVE  RemoveAt(f, k) \in Seq(S) /\ Deletes(RemoveAt(f, k), f, k)
BY Removed DEF Deletes

(* What a call that succeeds leaves: the list it says, in the same kind of *)
(* storage and with the chunk size it was decided to have.                 *)
Accepts(r, s, m, size) ==
  r = Done(r.st) /\ Takes(r.st, m) /\ r.st.where = s.where /\ r.st.chunksize = size

(* frame_append_chunk and frame_insert_chunk find the frame in order; only *)
(* a second short chunk in a row is refused.                               *)
LEMMA FrameAdds ==
  ASSUME NEW t \in StoreSet, NEW l \in Seq(ChunkSet), NEW m \in Seq(ChunkSet), NEW c \in ChunkSet,
         NEW i \in 1 .. Len(l) + 1, InFrame(t), Placed(t, l), Inserts(m, l, i, c), Counts(t, m),
         t.cbytes = t.head.cbytes + Stored(c)
  PROVE  /\ Accepts(FrameInsert(t, i, c), t, m, t.chunksize)
         /\ (/\ i = Len(l) + 1
             /\ Len(l) # 0 /\ t.head.chunksize > 0 =>
                  c.nbytes <= t.head.chunksize \/ t.chunksize = 0
             /\ Len(l) # 0 => ~(t.head.nbytes < t.head.chunksize /\ c.nbytes < t.head.chunksize))
            => Accepts(FrameAppend(t, c), t, m, t.chunksize)
<1> DEFINE n == Len(l)
           o == NewOffset(t, c, t.offs)
           offs == IF n > 0 THEN t.offs ELSE <<>>
<1>1. /\ HeadNchunks(t) = n /\ Len(t.offs) = n /\ n \in Nat /\ t.offs \in Seq(Int)
      /\ (n # 0 => IndexReadable(t, n, n) /\ IndexReadable(t, n, n + 1))
  BY HeaderRead, StoreFields
<1>2. offs = t.offs
  <2>1. CASE n = 0
    <3>1. t.offs = <<>>
      BY <1>1, <2>1
    <3> QED BY <2>1, <3>1
  <2> QED BY <1>1, <2>1
<1>3. o \in Int
  <2>1. NextId(t.offs) \in Nat
    BY <1>1, NextIdAbove
  <2>2. IsSpecial(c) => SpecialCode[c.data] \in Int
    BY Codes DEF IsSpecial
  <2>3. t.head.cbytes \in Int
    BY StoreFields
  <2> QED BY <2>1, <2>2, <2>3 DEF NewOffset
<1> HIDE DEF o
<1>4. /\ Takes(StoreNew(t, c, o, InsertAt(t.offs, i, o)), m)
      /\ StoreNew(t, c, o, InsertAt(t.offs, i, o)).where = t.where
      /\ StoreNew(t, c, o, InsertAt(t.offs, i, o)).chunksize = t.chunksize
  <2> DEFINE a == InsertAt(t.offs, i, o)
  <2>1. i \in 1 .. Len(t.offs) + 1
    BY <1>1
  <2>2. a \in Seq(Int) /\ Inserts(a, t.offs, i, o)
    BY <1>1, <1>3, <2>1, InsertsAt, Zenon
  <2> HIDE DEF a
  <2>3. /\ Takes(StoreNew(t, c, o, a), m) /\ StoreNew(t, c, o, a).where = t.where
        /\ StoreNew(t, c, o, a).chunksize = t.chunksize
    BY <2>2, StoredNew DEF o
  <2> QED BY <2>3 DEF a
<1>5. FrameInsert(t, i, c) = Done(StoreNew(t, c, o, InsertAt(t.offs, i, o)))
  <2>1. FrameInsert(t, i, c) = IF n < 0 \/ (n > 0 /\ ~IndexReadable(t, n, n + 1)) THEN Refuse(t)
         ELSE Done(StoreNew(t, c, NewOffset(t, c, offs), InsertAt(offs, i, NewOffset(t, c, offs))))
    <3> HIDE DEF n
    <3> QED BY <1>1 DEF FrameInsert
  <2> HIDE DEF offs
  <2>2. ~(n < 0 \/ (n > 0 /\ ~IndexReadable(t, n, n + 1)))
    BY <1>1
  <2> QED BY <1>2, <2>1, <2>2 DEF o
<1>6. Accepts(FrameInsert(t, i, c), t, m, t.chunksize)
  BY <1>4, <1>5 DEF Accepts, Done
<1>7. ASSUME i = n + 1,
             n # 0 /\ t.head.chunksize > 0 => c.nbytes <= t.head.chunksize \/ t.chunksize = 0,
             n # 0 => ~(t.head.nbytes < t.head.chunksize /\ c.nbytes < t.head.chunksize)
      PROVE  Accepts(FrameAppend(t, c), t, m, t.chunksize)
  <2> DEFINE a == Append(t.offs, o)
  <2>1. a \in Seq(Int) /\ Inserts(a, t.offs, i, o)
    BY <1>1, <1>3, <1>7, Appended
  <2>2. FrameAppend(t, c) =
          IF \/ n < 0
             \/ n > 0 /\ t.head.chunksize > 0 /\ t.chunksize # 0 /\ c.nbytes > t.head.chunksize
             \/ TwoShort(t, n, c)
             \/ n > 0 /\ ~IndexReadable(t, n, n + 1)
          THEN Refuse(t)
          ELSE Done(StoreNew(t, c, NewOffset(t, c, offs), Append(offs, NewOffset(t, c, offs))))
    BY <1>1 DEF FrameAppend
  <2> HIDE DEF a, offs
  <2>3. /\ Takes(StoreNew(t, c, o, a), m) /\ StoreNew(t, c, o, a).where = t.where
        /\ StoreNew(t, c, o, a).chunksize = t.chunksize
    BY <2>1, StoredNew DEF o
  <2>4. c.nbytes \in Nat /\ t.head.chunksize \in Int /\ t.head.nbytes \in Int
    BY ChunkFacts, StoreFields
  <2>5. ~TwoShort(t, n, c)
    <3>1. CASE n # 0
      <4>1. n \in 1 .. n
        BY <1>1, <3>1
      <4>2. FrameGetChunk(t, n) = l[n]
        BY <4>1, ChunkRead
      <4>3. l[n] # Unreadable
        BY <4>1, ChunkFacts
      <4> QED BY <1>7, <2>4, <3>1, <4>2, <4>3 DEF TwoShort
    <3> QED BY <1>1, <3>1 DEF TwoShort
  <2>6. ~(n < 0) /\ ~(n > 0 /\ ~IndexReadable(t, n, n + 1))
    BY <1>1
  <2>7. ~(n > 0 /\ t.head.chunksize > 0 /\ t.chunksize # 0 /\ c.nbytes > t.head.chunksize)
    BY <1>1, <1>7, <2>4
  <2>8. FrameAppend(t, c) = Done(StoreNew(t, c, o, a))
    BY <1>2, <2>2, <2>5, <2>6, <2>7 DEF o, a
  <2> QED BY <2>3, <2>8 DEF Accepts, Done
<1> QED BY <1>6, <1>7

(* The memory of a super-chunk without a frame.                            *)
LEMMA MemoryTakes ==
  ASSUME NEW t \in StoreSet, NEW m \in Seq(ChunkSet), ~InFrame(t), t.offs = <<>>, Counts(t, m),
         NEW room \in Nat
  PROVE  Accepts(Done([t EXCEPT !.data = m, !.room = room]), t, m, t.chunksize)
<1> DEFINE q == [t EXCEPT !.data = m, !.room = room]
<1>1. /\ q \in StoreSet /\ q.where = t.where /\ q.nchunks = t.nchunks /\ q.nbytes = t.nbytes
      /\ q.cbytes = t.cbytes /\ q.chunksize = t.chunksize /\ q.data = m /\ q.offs = t.offs
  BY DEF StoreSet
<1> HIDE DEF q
<1>2. ~InFrame(q) /\ Counts(q, m)
  BY <1>1 DEF InFrame, Counts
<1>3. Takes(q, m)
  BY <1>1, <1>2 DEF Takes, Holds
<1>4. Accepts(Done(q), t, m, t.chunksize)
  BY <1>1, <1>3 DEF Accepts, Done
<1> QED BY <1>4 DEF q

(* A second short chunk in a row, which a frame refuses.                   *)
Short(s, l, c) ==
  InFrame(s) /\ Len(l) # 0 /\ s.nbytes < s.chunksize /\ c.nbytes < s.chunksize

(* append_chunk and insert_chunk: an empty super-chunk refuses a chunk of  *)
(* more than the chunk size that is left of an earlier list; any other     *)
(* chunk is added.                                                         *)
LEMMA Adds ==
  ASSUME NEW s \in StoreSet, NEW l \in Seq(ChunkSet), Holds(s, l), NEW c \in ChunkSet,
         NEW i \in 1 .. Len(l) + 1
  PROVE  LET size == NewChunksize(s, c, Uneven(s, i, c))
             m == InsertAt(l, i, c)
             big == size > 0 /\ c.nbytes > size
         IN /\ big => InsertChunk(s, i, c) = Refuse(s)
            /\ ~big => Accepts(InsertChunk(s, i, c), s, m, size)
            /\ i = Len(l) + 1 /\ big => AppendChunk(s, c) = Refuse(s)
            /\ i = Len(l) + 1 /\ ~big /\ ~Short(s, l, c) => Accepts(AppendChunk(s, c), s, m, size)
<1> DEFINE n == Len(l)
           size == NewChunksize(s, c, Uneven(s, i, c))
           m == InsertAt(l, i, c)
           big == size > 0 /\ c.nbytes > size
           t == Counted(s, c, size)
           memory == Done([t EXCEPT !.data = InsertAt(@, i, c),
                                    !.room = IF s.nchunks + 1 > @ THEN @ + Page ELSE @])
<1>1. m \in Seq(ChunkSet) /\ Inserts(m, l, i, c)
  BY InsertsAt, Zenon
<1>2. n \in Nat /\ s.nchunks = n /\ \A j \in 1 .. n : GetChunk(s, j) # Unreadable
  BY Reads
<1>3. InsertChunk(s, i, c) = IF big THEN Refuse(s) ELSE IF InFrame(s) THEN FrameInsert(t, i, c) ELSE memory
  <2>1. InsertChunk(s, i, c) =
          IF i > n + 1 THEN Refuse(s)
          ELSE IF \/ n > 0 /\ GetChunk(s, 1) = Unreadable
                  \/ n > 0 /\ s.chunksize # 0 /\ GetChunk(s, n) = Unreadable
                  \/ big
               THEN Refuse(s) ELSE IF InFrame(s) THEN FrameInsert(t, i, c) ELSE memory
    <3> HIDE DEF n
    <3> QED BY <1>2 DEF InsertChunk, AddChunk
  <2>2. ~ i > n + 1 /\ (n > 0 => 1 \in 1 .. n /\ n \in 1 .. n)
    BY <1>2
  <2> HIDE DEF n, big, t, memory
  <2> QED BY <1>2, <2>1, <2>2
<1>4. i = n + 1 => AppendChunk(s, c) = IF big THEN Refuse(s) ELSE IF InFrame(s) THEN FrameAppend(t, c) ELSE memory
  <2>1. i = n + 1 => AppendChunk(s, c) =
          IF \/ n > 0 /\ GetChunk(s, 1) = Unreadable
             \/ n > 0 /\ s.chunksize # 0 /\ GetChunk(s, n) = Unreadable
             \/ big
          THEN Refuse(s) ELSE IF InFrame(s) THEN FrameAppend(t, c) ELSE memory
    <3> HIDE DEF n
    <3> QED BY <1>2 DEF AppendChunk, AddChunk
  <2>2. n > 0 => 1 \in 1 .. n /\ n \in 1 .. n
    BY <1>2
  <2> HIDE DEF n, big, t, memory
  <2> QED BY <1>2, <2>1, <2>2
<1>5. /\ size \in Nat /\ (~big => Even(m, size)) /\ (n # 0 => ~big)
      /\ (n # 0 /\ size # 0 => size = s.chunksize)
  BY <1>1, AddedEven
<1>6. c.nbytes \in Nat /\ Page \in Nat
  BY ChunkFacts, StoreAssumption
<1> HIDE DEF size, m, big
<1>7. ASSUME ~big
      PROVE  /\ InFrame(s) => /\ Accepts(FrameInsert(t, i, c), s, m, size)
                              /\ i = n + 1 /\ ~Short(s, l, c) => Accepts(FrameAppend(t, c), s, m, size)
             /\ ~InFrame(s) => Accepts(memory, s, m, size)
  <2> HIDE DEF n
  <2>1. PICK u \in StoreSet :
           /\ Counted(s, c, size) = u /\ SameFrame(s, u) /\ Counts(u, m)
           /\ u.chunksize = size /\ u.data = s.data /\ u.room = s.room /\ u.nchunks = n + 1
           /\ InFrame(s) => InFrame(u) /\ Placed(u, l) /\ u.cbytes = u.head.cbytes + Stored(c)
    BY <1>1, <1>5, <1>7, AddedCounts DEF n
  <2>2. u.where = s.where /\ u.head = s.head
    BY <2>1 DEF SameFrame
  <2>3. ASSUME InFrame(s) PROVE Accepts(FrameInsert(u, i, c), s, m, size)
    <3>1. Accepts(FrameInsert(u, i, c), u, m, u.chunksize)
      BY <1>1, <2>1, <2>3, FrameAdds
    <3> QED BY <2>1, <2>2, <3>1 DEF Accepts
  <2>4. ASSUME InFrame(s), i = n + 1, ~Short(s, l, c) PROVE Accepts(FrameAppend(u, c), s, m, size)
    <3>1. InStep(s)
      BY <2>4 DEF Holds
    <3>2. u.head.nbytes = s.nbytes /\ (n # 0 => u.head.chunksize = s.chunksize)
      BY <1>2, <2>2, <3>1 DEF InStep
    <3>3. n # 0 /\ u.head.chunksize > 0 => c.nbytes <= u.head.chunksize \/ u.chunksize = 0
      BY <1>5, <1>6, <1>7, <2>1, <3>2 DEF big
    <3>4. n # 0 => ~(u.head.nbytes < u.head.chunksize /\ c.nbytes < u.head.chunksize)
      BY <2>4, <3>2 DEF Short, n
    <3>5. Accepts(FrameAppend(u, c), u, m, u.chunksize)
      BY <1>1, <2>1, <2>4, <3>3, <3>4, FrameAdds DEF n
    <3> QED BY <2>1, <2>2, <3>5 DEF Accepts
  <2>5. ASSUME ~InFrame(s) PROVE Accepts(memory, s, m, size)
    <3> DEFINE room == IF s.nchunks + 1 > u.room THEN u.room + Page ELSE u.room
    <3>1. room \in Nat /\ ~InFrame(u) /\ u.data = l /\ u.offs = <<>>
      <4>1. u.room \in Nat /\ ~InFrame(u) /\ u.offs = s.offs
        BY <2>1, <2>2, <2>5, StoreFields DEF InFrame, SameFrame
      <4> QED BY <1>6, <2>1, <2>5, <4>1 DEF Holds
    <3>2. memory = Done([u EXCEPT !.data = m, !.room = room])
      BY <2>1, <3>1 DEF m
    <3> HIDE DEF room
    <3>3. Accepts(Done([u EXCEPT !.data = m, !.room = room]), u, m, u.chunksize)
      BY <1>1, <2>1, <3>1, MemoryTakes
    <3> QED BY <2>1, <2>2, <3>2, <3>3 DEF Accepts
  <2> QED BY <2>1, <2>3, <2>4, <2>5
<1> QED BY <1>3, <1>4, <1>7 DEF size, m, big

-----------------------------------------------------------------------------
(***************************************************************************)
(* Updating.                                                               *)
(***************************************************************************)
UpdatedSize(s, i, c) ==
  NewChunksize(s, c, /\ s.chunksize > 0
                     /\ c.nbytes > s.chunksize \/ (i # s.nchunks /\ c.nbytes # s.chunksize))

(* Another chunk in an even list, or in one whose chunk size goes.         *)
LEMMA UpdatedEven ==
  ASSUME NEW s \in StoreSet, NEW l \in Seq(ChunkSet), Holds(s, l), NEW c \in ChunkSet,
         NEW i \in 1 .. Len(l), NEW m \in Seq(ChunkSet), Replaces(m, l, i, c)
  PROVE  UpdatedSize(s, i, c) \in Nat /\ Even(m, UpdatedSize(s, i, c))
<1> DEFINE n == Len(l)
           uneven == /\ s.chunksize > 0
                     /\ c.nbytes > s.chunksize \/ (i # s.nchunks /\ c.nbytes # s.chunksize)
           size == UpdatedSize(s, i, c)
<1>1. /\ n \in Nat /\ s.nchunks = n /\ Even(l, s.chunksize) /\ s.chunksize \in Nat
      /\ c.nbytes \in Nat /\ c.nbytes > 0 /\ i \in 1 .. n
  <2>1. s.chunksize \in Nat \cup {-1} /\ c.nbytes \in Nat /\ c.nbytes > 0
    BY StoreFields, ChunkFacts
  <2>2. n \in Nat /\ s.nchunks = n /\ Even(l, s.chunksize) /\ (s.chunksize = -1 => n = 0)
    BY DEF Holds, Counts
  <2> QED BY <2>1, <2>2
<1>2. Len(m) = n /\ \A j \in 1 .. n : m[j] = IF j = i THEN c ELSE l[j]
  BY DEF Replaces
<1>3. size = IF uneven THEN 0 ELSE s.chunksize
  BY <1>1 DEF UpdatedSize, NewChunksize
<1>4. CASE uneven \/ s.chunksize = 0
  <2>1. size = 0
    BY <1>3, <1>4
  <2> HIDE DEF size
  <2> QED BY <2>1 DEF Even, size
<1>5. CASE ~uneven /\ s.chunksize > 0
  <2>1. size = s.chunksize
    BY <1>3, <1>5
  <2>2. c.nbytes <= s.chunksize /\ (i = n \/ c.nbytes = s.chunksize)
    BY <1>1, <1>5
  <2>3. \A j \in 1 .. n : IF j = n THEN l[j].nbytes <= s.chunksize ELSE l[j].nbytes = s.chunksize
    BY <1>5 DEF Even, Holds, Counts
  <2> HIDE DEF size, uneven, n
  <2>4. ASSUME NEW j \in 1 .. n PROVE IF j = n THEN m[j].nbytes <= s.chunksize ELSE m[j].nbytes = s.chunksize
    <3>1. CASE j = i
      <4>1. m[j] = c
        BY <1>2, <3>1
      <4> QED BY <1>1, <2>2, <3>1, <4>1
    <3>2. CASE j # i
      <4>1. m[j] = l[j]
        BY <1>2, <3>2
      <4> QED BY <2>3, <4>1
    <3> QED BY <3>1, <3>2
  <2>5. Even(m, s.chunksize)
    BY <1>2, <2>4 DEF Even
  <2> QED BY <1>1, <2>1, <2>5 DEF size
<1> QED BY <1>1, <1>4, <1>5

Updated(s, i, c) ==
  [s EXCEPT !.chunksize = UpdatedSize(s, i, c), !.nbytes = @ + c.nbytes - GetChunk(s, i).nbytes,
            !.cbytes = @ - OldCbytes(GetChunk(s, i)) + (IF InFrame(s) THEN Stored(c) ELSE c.cbytes)]

(* The counters when a chunk is updated.                                   *)
LEMMA UpdatedCounts ==
  ASSUME NEW s \in StoreSet, NEW l \in Seq(ChunkSet), Holds(s, l), NEW c \in ChunkSet,
         NEW i \in 1 .. Len(l), NEW m \in Seq(ChunkSet), Replaces(m, l, i, c)
  PROVE  \E t \in StoreSet :
           /\ Updated(s, i, c) = t /\ SameFrame(s, t) /\ Counts(t, m)
           /\ t.chunksize = UpdatedSize(s, i, c) /\ t.data = s.data /\ t.room = s.room
           /\ InFrame(s) => /\ InFrame(t) /\ Placed(t, l)
                            /\ t.cbytes = t.head.cbytes - Stored(l[i]) + Stored(c)
<1> DEFINE old == l[i]
           size == UpdatedSize(s, i, c)
           more == IF InFrame(s) THEN Stored(c) ELSE c.cbytes
           bytes == s.nbytes + c.nbytes - old.nbytes
           stored == s.cbytes - OldCbytes(old) + more
           t == [s EXCEPT !.chunksize = size, !.nbytes = bytes, !.cbytes = stored]
<1>1. /\ Counts(s, l) /\ s.nchunks \in Int /\ s.nbytes \in Int /\ s.cbytes \in Int
      /\ (InFrame(s) => s.head.cbytes = s.cbytes /\ Placed(s, l))
  BY StoreFields DEF Holds, InStep
<1>2. c.nbytes \in Nat /\ Stored(c) \in Nat /\ c.cbytes \in Nat /\ Stored(c) <= c.cbytes
  BY ChunkFacts
<1>3. old \in ChunkSet /\ old.nbytes \in Nat /\ Stored(old) \in Nat /\ OldCbytes(old) = Stored(old)
      /\ GetChunk(s, i) = old
  BY Reads, ChunkFacts
<1>4. more \in Nat /\ more >= Stored(c) /\ (InFrame(s) => more = Stored(c))
  BY <1>2
<1>5. Updated(s, i, c) = t
  BY <1>3 DEF Updated
<1>6. size \in Nat /\ Even(m, size)
  BY UpdatedEven
<1> HIDE DEF more, old, size
<1>7. /\ t \in StoreSet /\ t.where = s.where /\ t.head = s.head /\ t.at = s.at
      /\ t.offs = s.offs /\ t.payload = s.payload /\ t.files = s.files
      /\ t.nchunks = s.nchunks /\ t.nbytes = s.nbytes + c.nbytes - old.nbytes
      /\ t.cbytes = s.cbytes - Stored(old) + more
      /\ t.chunksize = size /\ t.data = s.data /\ t.room = s.room
  <2>1. bytes \in Int /\ stored \in Int /\ size \in Nat \cup {-1}
    <3>1. /\ s.nbytes \in Int /\ c.nbytes \in Int /\ old.nbytes \in Int
          /\ s.cbytes \in Int /\ OldCbytes(old) \in Int /\ more \in Int /\ size \in Nat
      BY <1>1, <1>2, <1>3, <1>4, <1>6
    <3> QED BY <3>1
  <2> HIDE DEF bytes, stored
  <2>2. /\ t \in StoreSet /\ t.where = s.where /\ t.head = s.head /\ t.at = s.at
        /\ t.offs = s.offs /\ t.payload = s.payload /\ t.files = s.files
        /\ t.nchunks = s.nchunks /\ t.nbytes = bytes /\ t.cbytes = stored
        /\ t.chunksize = size /\ t.data = s.data /\ t.room = s.room
    BY <2>1 DEF StoreSet
  <2> HIDE DEF t
  <2> QED BY <1>3, <2>2 DEF bytes, stored
<1> HIDE DEF t
<1>8. SameFrame(s, t) /\ (InFrame(s) => InFrame(t))
  BY <1>7 DEF SameFrame, InFrame
<1>9. /\ Sum(Bytes(m)) = Sum(Bytes(l)) + c.nbytes - old.nbytes
      /\ Sum(StoredIn(m)) = Sum(StoredIn(l)) - Stored(old) + Stored(c)
      /\ Sum(Bytes(l)) \in Nat /\ Sum(StoredIn(l)) \in Nat /\ Len(m) = Len(l) /\ Len(l) \in Nat
  <2>1. Sum(Bytes(l)) \in Nat /\ Sum(StoredIn(l)) \in Nat /\ Len(l) \in Nat
    BY SizesOf
  <2>2. /\ Sum(Bytes(m)) = Sum(Bytes(l)) + c.nbytes - old.nbytes
        /\ Sum(StoredIn(m)) = Sum(StoredIn(l)) - Stored(old) + Stored(c)
    BY ListReplaced DEF old
  <2> QED BY <2>1, <2>2 DEF Replaces
<1>10. Counts(t, m)
  <2>1. s.nchunks = Len(l) /\ s.nbytes = Sum(Bytes(l)) /\ s.cbytes >= Sum(StoredIn(l))
    BY <1>1 DEF Counts
  <2>2. t.nchunks = Len(m) /\ t.nbytes = Sum(Bytes(m)) /\ t.chunksize # -1
    BY <1>6, <1>7, <1>9, <2>1
  <2>3. t.cbytes >= Sum(StoredIn(m))
    <3> DEFINE a == Sum(StoredIn(l))
               b == s.cbytes
               d == Stored(c)
               e == Stored(old)
    <3>1. a \in Nat /\ b \in Int /\ d \in Nat /\ e \in Nat /\ more \in Nat /\ b >= a /\ more >= d
          /\ t.cbytes = b - e + more /\ Sum(StoredIn(m)) = a - e + d
      BY <1>1, <1>2, <1>3, <1>4, <1>7, <1>9, <2>1
    <3> HIDE DEF a, b, d, e
    <3> QED BY <3>1
  <2> QED BY <1>6, <1>7, <2>2, <2>3 DEF Counts
<1>11. ASSUME InFrame(s) PROVE Placed(t, l) /\ t.cbytes = t.head.cbytes - Stored(old) + Stored(c)
  <2>1. Placed(t, l)
    BY <1>1, <1>8, <1>11, PlacedSame, Zenon
  <2>2. t.head.cbytes = s.cbytes
    BY <1>1, <1>7, <1>11
  <2> QED BY <1>4, <1>7, <1>11, <2>1, <2>2
<1> QED BY <1>5, <1>7, <1>8, <1>10, <1>11, Zenon DEF old, size

(* The payload of an update in place.                                      *)
LEMMA ShiftedIs ==
  ASSUME NEW payload \in Seq(CellSet), NEW o \in Nat, NEW old \in Nat, NEW c \in ChunkSet,
         o + old <= Len(payload), NEW total, total = Len(payload) - old + Stored(c)
  PROVE  LET room == ShiftTail(payload, o, old, Stored(c))
             q == IF IsSpecial(c) THEN room ELSE Lay(room, o, c, total)
         IN /\ q \in Seq(CellSet) /\ Len(q) = total
            /\ Shifts(q, payload, o, old, Stored(c), c)
<1> DEFINE n == Len(payload)
           new == Stored(c)
           room == ShiftTail(payload, o, old, new)
           q == IF IsSpecial(c) THEN room ELSE Lay(room, o, c, total)
<1>1. /\ n \in Nat /\ new \in Nat /\ total \in Nat /\ total = n - old + new /\ o + old <= n
      /\ o + new <= total
  <2>1. new \in Nat
    BY ChunkFacts
  <2> HIDE DEF new
  <2> QED BY <2>1 DEF new
<1>2. c.cbytes \in Nat /\ (IsSpecial(c) => new = 0) /\ (~IsSpecial(c) => new = c.cbytes)
  BY ChunkFacts
<1>3. Junk \in CellSet
  BY DEF Junk, CellSet
<1>4. ASSUME NEW k \in 1 .. total
      PROVE  /\ room[k] = (IF k <= o THEN payload[k] ELSE IF k <= o + new THEN Junk
                           ELSE payload[k - new + old])
             /\ room[k] \in CellSet
  <2>1. room[k] = (IF k <= o THEN payload[k] ELSE IF k <= o + new THEN Junk
                   ELSE payload[k - new + old])
    BY DEF ShiftTail
  <2> HIDE DEF new, room
  <2>2. CASE k <= o
    <3>1. k \in 1 .. n
      BY <1>1, <2>2
    <3>2. payload[k] \in CellSet
      BY <3>1
    <3> QED BY <2>1, <2>2, <3>2
  <2>3. CASE ~ k <= o /\ k <= o + new
    BY <1>3, <2>1, <2>3
  <2>4. CASE ~ k <= o /\ ~ k <= o + new
    <3>1. k - new + old \in 1 .. n
      BY <1>1, <2>4
    <3>2. payload[k - new + old] \in CellSet
      BY <3>1
    <3> QED BY <2>1, <2>4, <3>2
  <2> QED BY <2>2, <2>3, <2>4
<1>5. room \in Seq(CellSet) /\ Len(room) = total
  <2>1. room = [k \in 1 .. total |-> room[k]]
    BY DEF ShiftTail
  <2> HIDE DEF room
  <2>2. room \in [1 .. total -> CellSet]
    BY <1>4, <2>1
  <2> QED BY <1>1, <2>2, ListIs
<1> HIDE DEF new, room
<1>6. CASE IsSpecial(c)
  <2>1. q = room
    BY <1>6
  <2>2. \A k \in 1 .. total : room[k] = IF k <= o THEN payload[k]
                                        ELSE IF k <= o + new THEN [of |-> c, part |-> k - o]
                                        ELSE payload[k - new + old]
    <3>1. new = 0
      BY <1>2, <1>6
    <3> QED BY <1>1, <1>4, <3>1
  <2> QED BY <1>1, <1>5, <2>1, <2>2 DEF Shifts, room, new
<1>7. CASE ~IsSpecial(c)
  <2> DEFINE p == Lay(room, o, c, total)
  <2>1. q = p /\ new = c.cbytes
    BY <1>2, <1>7
  <2>2. /\ p \in Seq(CellSet) /\ Len(p) = total /\ Whole(p, o, c)
        /\ \A k \in 1 .. total : k \notin o + 1 .. o + c.cbytes /\ k <= Len(room) => p[k] = room[k]
    <3>1. Len(room) <= total /\ o + c.cbytes <= total
      BY <1>1, <1>5, <2>1
    <3>2. total \in Nat /\ room \in Seq(CellSet) /\ p = Lay(room, o, c, total)
      BY <1>1, <1>5
    <3> HIDE DEF p
    <3>3. p \in Seq(CellSet) /\ Len(p) = total /\ Whole(p, o, c)
      BY <3>1, <3>2, LayIs
    <3>4. \A k \in 1 .. total : k \notin o + 1 .. o + c.cbytes /\ k <= Len(room) => p[k] = room[k]
      BY <3>1, <3>2, LayIs
    <3> QED BY <3>3, <3>4
  <2> HIDE DEF p, q
  <2>3. ASSUME NEW k \in 1 .. total
        PROVE  p[k] = IF k <= o THEN payload[k]
                      ELSE IF k <= o + new THEN [of |-> c, part |-> k - o]
                      ELSE payload[k - new + old]
    <3>1. CASE ~ k <= o /\ k <= o + new
      <4>1. k - o \in 1 .. c.cbytes /\ o + (k - o) = k
        BY <1>1, <1>2, <2>1, <3>1
      <4>2. p[o + (k - o)] = [of |-> c, part |-> k - o]
        BY <2>2, <4>1, Zenon DEF Whole
      <4> QED BY <3>1, <4>1, <4>2
    <3>2. CASE k <= o \/ ~ k <= o + new
      <4>1. k \notin o + 1 .. o + c.cbytes /\ k <= Len(room)
        BY <1>1, <1>5, <2>1, <3>2
      <4>2. p[k] = room[k]
        BY <2>2, <4>1
      <4> QED BY <1>1, <1>4, <3>2, <4>2
    <3> QED BY <3>1, <3>2
  <2>4. Shifts(p, payload, o, old, new, c)
    BY <1>1, <2>2, <2>3 DEF Shifts
  <2> QED BY <2>1, <2>2, <2>4 DEF q, room, new
<1> QED BY <1>6, <1>7

(* An index and a payload written to a contiguous frame.                   *)
LEMMA ContiguousWritten ==
  ASSUME NEW t \in StoreSet, NEW m \in Seq(ChunkSet), Contiguous(t), Counts(t, m), t.cbytes >= 0,
         NEW offs \in Seq(Int), NEW payload \in Seq(CellSet), Len(payload) = t.cbytes,
         Index(offs, m), Laid(offs, payload, m), NEW at, at = t.cbytes
  PROVE  Accepts(Done(UpdateHeader([t EXCEPT !.offs = offs, !.at = at, !.payload = payload])),
                 t, m, t.chunksize)
<1> DEFINE q == [t EXCEPT !.offs = offs, !.at = at, !.payload = payload]
<1>1. t.cbytes \in Int /\ at \in Int /\ at # NoIndex
  BY StoreFields DEF NoIndex
<1>2. /\ q \in StoreSet /\ q.where = t.where /\ q.nchunks = t.nchunks /\ q.nbytes = t.nbytes
      /\ q.cbytes = t.cbytes /\ q.chunksize = t.chunksize /\ q.offs = offs /\ q.at = at
      /\ q.payload = payload
  BY <1>1 DEF StoreSet
<1> HIDE DEF q
<1>3. InFrame(q) /\ Contiguous(q) /\ ~Sparse(q)
  BY <1>2 DEF InFrame, Contiguous, Sparse
<1>4. Stores(q, m, q.cbytes) /\ Counts(q, m)
  BY <1>2, <1>3 DEF Stores, Counts
<1>5. Takes(UpdateHeader(q), m) /\ UpdateHeader(q).where = q.where /\ UpdateHeader(q).chunksize = q.chunksize
  BY <1>1, <1>2, <1>3, <1>4, HeaderWritten
<1>6. Accepts(Done(UpdateHeader(q)), t, m, t.chunksize)
  BY <1>2, <1>5 DEF Accepts, Done
<1> QED BY <1>6 DEF q

(* An index and chunk files written to a sparse one.                       *)
LEMMA SparseWritten ==
  ASSUME NEW t \in StoreSet, NEW m \in Seq(ChunkSet), Sparse(t), Counts(t, m),
         NEW at \in Int, at # NoIndex, t.cbytes = Sum(StoredIn(m)),
         NEW offs \in Seq(Int), NEW files \in FileSet, Index(offs, m), Filed(offs, files, m)
  PROVE  Accepts(Done(UpdateHeader([t EXCEPT !.offs = offs, !.at = at, !.files = files])),
                 t, m, t.chunksize)
<1> DEFINE q == [t EXCEPT !.offs = offs, !.at = at, !.files = files]
<1>1. t.cbytes \in Nat
  BY SizesOf
<1>2. /\ q \in StoreSet /\ q.where = t.where /\ q.nchunks = t.nchunks /\ q.nbytes = t.nbytes
      /\ q.cbytes = t.cbytes /\ q.chunksize = t.chunksize /\ q.offs = offs /\ q.at = at
      /\ q.files = files
  BY DEF StoreSet
<1> HIDE DEF q
<1>3. InFrame(q) /\ ~Contiguous(q) /\ Sparse(q)
  BY <1>2 DEF InFrame, Contiguous, Sparse
<1>4. Stores(q, m, q.cbytes) /\ Counts(q, m)
  BY <1>1, <1>2, <1>3 DEF Stores, Counts
<1>5. Takes(UpdateHeader(q), m) /\ UpdateHeader(q).where = q.where /\ UpdateHeader(q).chunksize = q.chunksize
  BY <1>1, <1>2, <1>3, <1>4, HeaderWritten
<1>6. Accepts(Done(UpdateHeader(q)), t, m, t.chunksize)
  BY <1>2, <1>5 DEF Accepts, Done
<1> QED BY <1>6 DEF q

(* What frame_update_chunk finds.                                          *)
LEMMA FrameUpdates ==
  ASSUME NEW t \in StoreSet, NEW l \in Seq(ChunkSet), NEW i \in 1 .. Len(l), NEW c,
         InFrame(t), Placed(t, l)
  PROVE  /\ FrameUpdate(t, i, c) =
              Done(UpdateHeader(IF Sparse(t) THEN UpdateSparse(t, i, c) ELSE UpdateContiguous(t, i, c)))
         /\ FrameGetChunk(t, i) = l[i] /\ t.offs \in Seq(Int) /\ Len(t.offs) = Len(l) /\ Len(l) \in Nat
         /\ i \in 1 .. Len(t.offs) /\ Index(t.offs, l) /\ t.at # NoIndex
         /\ t.offs[i] \in Int /\ (t.offs[i] < 0 <=> IsSpecial(l[i]))
<1>1. /\ HeadNchunks(t) = Len(l) /\ Len(t.offs) = Len(l) /\ Len(l) \in Nat /\ Len(l) # 0
      /\ IndexReadable(t, Len(l), Len(l)) /\ t.offs \in Seq(Int) /\ ~ i > Len(l)
  BY HeaderRead, StoreFields
<1>2. FrameGetChunk(t, i) = l[i] /\ l[i] # Unreadable
  BY ChunkRead, ChunkFacts
<1>3. Index(t.offs, l) /\ t.at # NoIndex
  BY <1>1 DEF Placed, Stores
<1>4. t.offs[i] \in Int /\ (t.offs[i] < 0 <=> IsSpecial(l[i]))
  BY <1>3, IndexSign
<1>5. FrameUpdate(t, i, c) =
        Done(UpdateHeader(IF Sparse(t) THEN UpdateSparse(t, i, c) ELSE UpdateContiguous(t, i, c)))
  BY <1>1, <1>2 DEF FrameUpdate
<1> QED BY <1>1, <1>2, <1>3, <1>4, <1>5

(* In a contiguous frame, in the place of a chunk that has one.            *)
LEMMA UpdatesInPlace ==
  ASSUME NEW t \in StoreSet, NEW l \in Seq(ChunkSet), NEW m \in Seq(ChunkSet), NEW c \in ChunkSet,
         NEW i \in 1 .. Len(l), Contiguous(t), Placed(t, l), Replaces(m, l, i, c), Counts(t, m),
         t.cbytes = t.head.cbytes - Stored(l[i]) + Stored(c), ~IsSpecial(l[i])
  PROVE  Accepts(FrameUpdate(t, i, c), t, m, t.chunksize)
<1> DEFINE n == Len(l)
           x == t.offs[i]
           old == l[i].cbytes
           delta == Stored(c) - old
           o == IF IsSpecial(c) THEN SpecialCode[c.data] ELSE x
           offs == MovedOffsets(t.offs, i, o, x, delta)
           total == t.head.cbytes + delta
           room == ShiftTail(t.payload, x, old, Stored(c))
           payload == IF IsSpecial(c) THEN room ELSE Lay(room, o, c, total)
<1>0. InFrame(t) /\ ~Sparse(t)
  BY DEF InFrame, Contiguous, Sparse
<1>1. /\ FrameUpdate(t, i, c) = Done(UpdateHeader(UpdateContiguous(t, i, c)))
      /\ FrameGetChunk(t, i) = l[i] /\ t.offs \in Seq(Int) /\ Len(t.offs) = n /\ n \in Nat
      /\ Index(t.offs, l) /\ x \in Nat
  BY <1>0, FrameUpdates, SMTT(30)
<1>2. /\ l[i] \in ChunkSet /\ old \in Nat /\ Stored(l[i]) = old /\ Stored(c) \in Nat
      /\ (IsSpecial(c) => SpecialCode[c.data] \in Int)
  BY ChunkFacts, Codes, SMTT(30) DEF IsSpecial
<1>3. t.payload \in Seq(CellSet) /\ Len(t.payload) = t.head.cbytes /\ Laid(t.offs, t.payload, l)
      /\ t.head.cbytes \in Nat
  BY StoreFields DEF Placed, Stores
<1>4. x + old <= Len(t.payload)
  BY <1>1, <1>2, <1>3 DEF Laid, Whole
<1>5. delta \in Int /\ o \in Int /\ total = t.cbytes /\ total = Len(t.payload) - old + Stored(c)
  BY <1>1, <1>2, <1>3, SMTT(30)
<1>6. /\ payload \in Seq(CellSet) /\ Len(payload) = total
      /\ Shifts(payload, t.payload, x, old, Stored(c), c)
  <2> DEFINE f == t.payload
             q == IF IsSpecial(c) THEN ShiftTail(f, x, old, Stored(c))
                  ELSE Lay(ShiftTail(f, x, old, Stored(c)), x, c, total)
  <2>1. payload = q
    OBVIOUS
  <2>2. f \in Seq(CellSet) /\ x + old <= Len(f) /\ total = Len(f) - old + Stored(c) /\ x \in Nat /\ old \in Nat
    BY <1>1, <1>2, <1>3, <1>4, <1>5
  <2> HIDE DEF f, x, old, total, payload
  <2>3. q \in Seq(CellSet) /\ Len(q) = total /\ Shifts(q, f, x, old, Stored(c), c)
    BY <2>2, ShiftedIs
  <2> QED BY <2>1, <2>3 DEF f
<1>7. offs \in Seq(Int) /\ MovesBehind(offs, t.offs, i, o, delta)
  <2> DEFINE f == t.offs
             q == MovedOffsets(f, i, o, x, delta)
  <2>1. f \in Seq(Int) /\ Len(f) = n /\ DOMAIN f = 1 .. n /\ x = f[i] /\ n \in Nat
    BY <1>1
  <2> HIDE DEF f, x, o, delta, n
  <2>2. \A j \in 1 .. n : q[j] = (IF j = i THEN o ELSE IF f[j] > f[i] THEN f[j] + delta ELSE f[j])
    BY <2>1 DEF MovedOffsets
  <2>3. ASSUME NEW j \in 1 .. n PROVE f[j] \in Int /\ q[j] \in Int
    <3>1. f[j] \in Int
      BY <2>1
    <3>2. f[j] + delta \in Int /\ o \in Int
      BY <1>5, <3>1
    <3> HIDE DEF q
    <3>3. q[j] \in {o, f[j] + delta, f[j]}
      BY <2>2
    <3> QED BY <3>1, <3>2, <3>3
  <2>4. q = [j \in 1 .. n |-> q[j]]
    BY <2>1 DEF MovedOffsets
  <2> HIDE DEF q
  <2>5. q \in [1 .. n -> Int]
    BY <2>3, <2>4
  <2>6. q \in Seq(Int) /\ Len(q) = n
    BY <2>1, <2>5, ListIs
  <2>7. MovesBehind(q, f, i, o, delta)
    BY <2>1, <2>2, <2>6 DEF MovesBehind
  <2> QED BY <2>6, <2>7 DEF f, q
<1>8. UpdateContiguous(t, i, c) = [t EXCEPT !.offs = offs, !.at = total, !.payload = payload]
  <2> DEFINE regular == x >= 0
             old1 == FrameGetChunk(t, i).cbytes
             delta1 == IF regular THEN Stored(c) - old1 ELSE Stored(c)
             o1 == IF IsSpecial(c) THEN SpecialCode[c.data] ELSE IF regular THEN x ELSE t.head.cbytes
             offs1 == IF regular THEN MovedOffsets(t.offs, i, o1, x, delta1) ELSE [t.offs EXCEPT ![i] = o1]
             total1 == t.head.cbytes + delta1
             room1 == IF regular THEN ShiftTail(t.payload, x, old1, Stored(c)) ELSE t.payload
             payload1 == IF IsSpecial(c) THEN room1 ELSE Lay(room1, o1, c, total1)
  <2>1. UpdateContiguous(t, i, c) = [t EXCEPT !.offs = offs1, !.at = total1, !.payload = payload1]
    BY DEF UpdateContiguous
  <2>2. regular /\ old1 = old
    BY <1>1
  <2> HIDE DEF regular, old1
  <2>3. delta1 = delta /\ o1 = o
    BY <2>2
  <2> HIDE DEF delta1
  <2>4. total1 = total /\ offs1 = offs
    BY <2>2, <2>3
  <2>5. payload1 = payload
    <3> HIDE DEF total, total1
    <3>1. CASE IsSpecial(c)
      BY <2>2, <3>1
    <3>2. CASE ~IsSpecial(c)
      BY <2>2, <2>3, <2>4, <3>2
    <3> QED BY <3>1, <3>2
  <2> HIDE DEF offs, payload, total, offs1, total1, payload1
  <2> QED BY <2>1, <2>4, <2>5
<1> HIDE DEF offs, payload, total
<1>9. Index(offs, m) /\ Laid(offs, payload, m)
  <2>1. Len(t.payload) \in Nat
    BY <1>3
  <2>2. MovesBehind(offs, t.offs, i, o, Stored(c) - l[i].cbytes)
    BY <1>7
  <2>3. Shifts(payload, t.payload, t.offs[i], l[i].cbytes, Stored(c), c)
    BY <1>6
  <2>4. o = IF IsSpecial(c) THEN SpecialCode[c.data] ELSE t.offs[i]
    OBVIOUS
  <2>5. Index(t.offs, l) /\ Laid(t.offs, t.payload, l)
    BY <1>1, <1>3
  <2> HIDE DEF o, x, old, delta, n
  <2> QED BY <2>1, <2>2, <2>3, <2>4, <2>5, LaidReplaced, Zenon
<1>10. Len(payload) = t.cbytes /\ t.cbytes >= 0
  BY <1>5, <1>6
<1>11. Accepts(Done(UpdateHeader([t EXCEPT !.offs = offs, !.at = total, !.payload = payload])),
               t, m, t.chunksize)
  BY <1>5, <1>6, <1>7, <1>9, <1>10, ContiguousWritten
<1> QED BY <1>1, <1>8, <1>11

(* An entry of an index changes.                                           *)
LEMMA ReplacesAt ==
  ASSUME NEW S, NEW f \in Seq(S), NEW k \in 1 .. Len(f), NEW x \in S
  PROVE  [f EXCEPT ![k] = x] \in Seq(S) /\ Replaces([f EXCEPT ![k] = x], f, k, x)
BY DEF Replaces

(* A chunk of special values gets its payload at the end.                  *)
LEMMA UpdatesAtEnd ==
  ASSUME NEW t \in StoreSet, NEW l \in Seq(ChunkSet), NEW m \in Seq(ChunkSet), NEW c \in ChunkSet,
         NEW i \in 1 .. Len(l), Contiguous(t), Placed(t, l), Replaces(m, l, i, c), Counts(t, m),
         t.cbytes = t.head.cbytes - Stored(l[i]) + Stored(c), IsSpecial(l[i])
  PROVE  Accepts(FrameUpdate(t, i, c), t, m, t.chunksize)
<1> DEFINE n == Len(l)
           x == t.offs[i]
           o == IF IsSpecial(c) THEN SpecialCode[c.data] ELSE t.head.cbytes
           offs == [t.offs EXCEPT ![i] = o]
           total == t.head.cbytes + Stored(c)
           payload == IF IsSpecial(c) THEN t.payload ELSE Lay(t.payload, o, c, total)
           p == Replacing(n, i)
<1>0. InFrame(t) /\ ~Sparse(t)
  BY DEF InFrame, Contiguous, Sparse
<1>1. /\ FrameUpdate(t, i, c) = Done(UpdateHeader(UpdateContiguous(t, i, c)))
      /\ t.offs \in Seq(Int) /\ Len(t.offs) = n /\ n \in Nat /\ i \in 1 .. Len(t.offs)
      /\ Index(t.offs, l) /\ x \in Int /\ x < 0
  BY <1>0, FrameUpdates
<1>2. /\ l[i] \in ChunkSet /\ Stored(l[i]) = 0 /\ Stored(c) \in Nat /\ c.cbytes \in Nat
      /\ (IsSpecial(c) => SpecialCode[c.data] \in Int) /\ (IsSpecial(c) => Stored(c) = 0)
      /\ (~IsSpecial(c) => Stored(c) = c.cbytes)
  BY ChunkFacts, Codes, SMTT(30) DEF IsSpecial
<1>3. t.payload \in Seq(CellSet) /\ Len(t.payload) = t.head.cbytes /\ Laid(t.offs, t.payload, l)
      /\ t.head.cbytes \in Nat
  BY StoreFields DEF Placed, Stores
<1>4. o \in Int /\ total = t.cbytes /\ total \in Nat /\ OffsetOf(o, c)
  BY <1>1, <1>2, <1>3 DEF OffsetOf
<1>5. UpdateContiguous(t, i, c) = [t EXCEPT !.offs = offs, !.at = total, !.payload = payload]
  <2> DEFINE regular == x >= 0
             old1 == FrameGetChunk(t, i).cbytes
             delta1 == IF regular THEN Stored(c) - old1 ELSE Stored(c)
             o1 == IF IsSpecial(c) THEN SpecialCode[c.data] ELSE IF regular THEN x ELSE t.head.cbytes
             offs1 == IF regular THEN MovedOffsets(t.offs, i, o1, x, delta1) ELSE [t.offs EXCEPT ![i] = o1]
             total1 == t.head.cbytes + delta1
             room1 == IF regular THEN ShiftTail(t.payload, x, old1, Stored(c)) ELSE t.payload
             payload1 == IF IsSpecial(c) THEN room1 ELSE Lay(room1, o1, c, total1)
  <2>1. UpdateContiguous(t, i, c) = [t EXCEPT !.offs = offs1, !.at = total1, !.payload = payload1]
    BY DEF UpdateContiguous
  <2>2. ~regular
    BY <1>1
  <2> HIDE DEF regular, old1
  <2>3. delta1 = Stored(c) /\ o1 = o
    BY <2>2
  <2> HIDE DEF delta1
  <2>4. total1 = total /\ offs1 = offs
    BY <2>2, <2>3
  <2>5. payload1 = payload
    <3> HIDE DEF total, total1
    <3>1. CASE IsSpecial(c)
      BY <2>2, <3>1
    <3>2. CASE ~IsSpecial(c)
      BY <2>2, <2>3, <2>4, <3>2
    <3> QED BY <3>1, <3>2
  <2> HIDE DEF offs, payload, total, offs1, total1, payload1
  <2> QED BY <2>1, <2>4, <2>5
<1>6. offs \in Seq(Int) /\ Replaces(offs, t.offs, i, o)
  BY <1>1, <1>4, ReplacesAt, Zenon
<1>7. Picks(p, n, Len(m)) /\ Picked(m, l, p, Len(m), c) /\ Picked(offs, t.offs, p, Len(m), o)
  <2>1. Len(m) = n
    BY DEF Replaces
  <2> HIDE DEF p, offs
  <2>2. /\ Picks(p, n, n)
        /\ \A f, g, y : Len(f) = n /\ Replaces(g, f, i, y) => Picked(g, f, p, n, y)
    BY <1>1, PicksReplacing DEF p
  <2> HIDE DEF n
  <2> QED BY <1>1, <1>6, <2>1, <2>2 DEF n
<1>8. /\ payload \in Seq(CellSet) /\ Len(payload) = total
      /\ \A k \in 1 .. Len(t.payload) : payload[k] = t.payload[k]
      /\ ~IsSpecial(c) => Whole(payload, o, c)
  <2>1. CASE IsSpecial(c)
    BY <1>2, <1>3, <2>1
  <2>2. CASE ~IsSpecial(c)
    <3> DEFINE f == t.payload
    <3>1. f \in Seq(CellSet) /\ Len(f) \in Nat /\ Len(f) <= total /\ o = Len(f) /\ o + c.cbytes <= total
          /\ payload = Lay(f, o, c, total)
      BY <1>2, <1>3, <2>2
    <3> HIDE DEF f, payload, o, total
    <3>2. payload \in Seq(CellSet) /\ Len(payload) = total /\ Whole(payload, o, c)
      BY <1>4, <3>1, LayIs
    <3>3. \A k \in 1 .. total : k \notin o + 1 .. o + c.cbytes /\ k <= Len(f) => payload[k] = f[k]
      BY <1>4, <3>1, LayIs
    <3>4. \A k \in 1 .. Len(f) : k \in 1 .. total /\ k \notin o + 1 .. o + c.cbytes /\ k <= Len(f)
      BY <1>2, <1>4, <3>1
    <3>5. \A k \in 1 .. Len(f) : payload[k] = f[k]
      BY <3>3, <3>4
    <3> QED BY <3>2, <3>5 DEF f
  <2> QED BY <2>1, <2>2
<1> HIDE DEF payload, offs, p
<1>9. Index(offs, m)
  BY <1>1, <1>4, <1>7, IndexPicked DEF n
<1>10. Laid(offs, payload, m)
  <2>1. /\ Len(t.payload) \in Nat /\ Len(payload) \in Nat /\ Len(payload) >= Len(t.payload)
        /\ (~IsSpecial(c) => o \in Nat /\ o >= Len(t.payload) /\ Whole(payload, o, c))
    BY <1>2, <1>3, <1>4, <1>8
  <2>2. /\ Index(t.offs, l) /\ Laid(t.offs, t.payload, l) /\ Picks(p, Len(l), Len(m))
        /\ Picked(m, l, p, Len(m), c) /\ Picked(offs, t.offs, p, Len(m), o)
    BY <1>1, <1>3, <1>7 DEF n
  <2> HIDE DEF o, n
  <2> QED BY <1>8, <2>1, <2>2, LaidPicked
<1>11. Len(payload) = t.cbytes /\ t.cbytes >= 0
  BY <1>4, <1>8
<1> HIDE DEF total, o
<1>12. Accepts(Done(UpdateHeader([t EXCEPT !.offs = offs, !.at = total, !.payload = payload])),
               t, m, t.chunksize)
  BY <1>4, <1>6, <1>8, <1>9, <1>10, <1>11, ContiguousWritten
<1> QED BY <1>1, <1>5, <1>12

(* In a sparse frame a chunk keeps its file or gets the next.              *)
LEMMA UpdatesFile ==
  ASSUME NEW t \in StoreSet, NEW l \in Seq(ChunkSet), NEW m \in Seq(ChunkSet), NEW c \in ChunkSet,
         NEW i \in 1 .. Len(l), Sparse(t), Placed(t, l), Replaces(m, l, i, c), Counts(t, m),
         t.cbytes = t.head.cbytes - Stored(l[i]) + Stored(c)
  PROVE  Accepts(FrameUpdate(t, i, c), t, m, t.chunksize)
<1> DEFINE n == Len(l)
           x == t.offs[i]
           id == IF x >= 0 \/ IsSpecial(c) THEN x ELSE NextId(t.offs)
           o == IF IsSpecial(c) THEN SpecialCode[c.data] ELSE id
           offs == [t.offs EXCEPT ![i] = o]
           body == IF IsSpecial(c) THEN EmptyFile ELSE c
           files == IF id < 0 THEN t.files ELSE CreateFile(t.files, id, body)
           p == Replacing(n, i)
<1>0. InFrame(t) /\ ~Contiguous(t)
  BY DEF InFrame, Contiguous, Sparse
<1>1. /\ FrameUpdate(t, i, c) = Done(UpdateHeader(UpdateSparse(t, i, c)))
      /\ t.offs \in Seq(Int) /\ Len(t.offs) = n /\ n \in Nat /\ i \in 1 .. Len(t.offs)
      /\ Index(t.offs, l) /\ x \in Int /\ t.at # NoIndex
  BY <1>0, FrameUpdates
<1>2. IsSpecial(c) => SpecialCode[c.data] \in Int
  BY Codes DEF IsSpecial
<1>3. t.files \in FileSet /\ Filed(t.offs, t.files, l) /\ t.at \in Int /\ t.head.cbytes = Sum(StoredIn(l))
  BY StoreFields DEF Placed, Stores
<1>4. /\ NextId(t.offs) \in Nat /\ \A k \in 1 .. n : t.offs[k] \in Int /\ NextId(t.offs) > t.offs[k]
  BY <1>1, NextIdAbove
<1>5. id \in Int /\ o \in Int /\ OffsetOf(o, c) /\ (~IsSpecial(c) => o = id /\ id \in Nat)
  BY <1>1, <1>2, <1>4 DEF OffsetOf
<1>6. UpdateSparse(t, i, c) = [t EXCEPT !.offs = offs, !.at = t.at, !.files = files]
  <2>1. UpdateSparse(t, i, c) = [t EXCEPT !.offs = offs, !.files = files]
    BY DEF UpdateSparse
  <2> HIDE DEF offs, files
  <2>2. [t EXCEPT !.offs = offs, !.files = files] = [t EXCEPT !.offs = offs, !.at = t.at, !.files = files]
    BY DEF StoreSet
  <2> QED BY <2>1, <2>2
<1>7. offs \in Seq(Int) /\ Replaces(offs, t.offs, i, o)
  BY <1>1, <1>5, ReplacesAt, Zenon
<1>8. Picks(p, n, Len(m)) /\ Picked(m, l, p, Len(m), c) /\ Picked(offs, t.offs, p, Len(m), o)
  <2>1. Len(m) = n
    BY DEF Replaces
  <2> HIDE DEF p, offs
  <2>2. /\ Picks(p, n, n)
        /\ \A f, g, y : Len(f) = n /\ Replaces(g, f, i, y) => Picked(g, f, p, n, y)
    BY <1>1, PicksReplacing DEF p
  <2> HIDE DEF n
  <2> QED BY <1>1, <1>7, <2>1, <2>2 DEF n
<1>9. \A j \in 1 .. n : (p[j] = 0 <=> j = i) /\ (j # i => p[j] = j)
  <2> HIDE DEF offs, files
  <2> QED BY <1>1 DEF Replacing
<1>10. \A j \in 1 .. n : offs[j] = IF j = i THEN o ELSE t.offs[j]
  <2> HIDE DEF offs
  <2> QED BY <1>1, <1>7 DEF Replaces
<1>11. /\ files \in FileSet
       /\ DOMAIN files = DOMAIN t.files \cup (IF id < 0 THEN {} ELSE {id})
       /\ (~ id < 0 => files[id] = body)
       /\ \A k \in DOMAIN t.files : k # id => files[k] = t.files[k]
  <2>1. CASE id < 0
    BY <1>3, <2>1
  <2>2. CASE ~ id < 0
    <3>1. body \in ChunkSet \cup {EmptyFile} /\ id \in Nat /\ t.files \in FileSet
      BY <1>3, <1>5, <2>2
    <3> HIDE DEF body, id
    <3>2. /\ CreateFile(t.files, id, body) \in FileSet
          /\ DOMAIN CreateFile(t.files, id, body) = DOMAIN t.files \cup {id}
          /\ CreateFile(t.files, id, body)[id] = body
          /\ \A k \in DOMAIN t.files : k # id => CreateFile(t.files, id, body)[k] = t.files[k]
      BY <3>1, FilesWritten, ZenonT(30)
    <3> QED BY <2>2, <3>2
  <2> QED BY <2>1, <2>2
<1> HIDE DEF offs, files, p
<1>12. Index(offs, m)
  BY <1>1, <1>5, <1>8, IndexPicked DEF n
<1>13. ASSUME NEW j \in 1 .. n, j # i, ~IsSpecial(l[j])
       PROVE  /\ t.offs[j] \in DOMAIN files /\ files[t.offs[j]] = t.files[t.offs[j]] /\ t.offs[j] # id
  <2>1. t.offs[j] \in DOMAIN t.files /\ t.offs[j] # x /\ t.offs[j] \in Int
    BY <1>3, <1>4, <1>13 DEF Filed, n
  <2>2. t.offs[j] # id
    BY <1>4, <1>13, <2>1
  <2> HIDE DEF id
  <2> QED BY <1>11, <2>1, <2>2
<1>14. ASSUME NEW k \in DOMAIN files PROVE files[k] = EmptyFile \/ \E j \in 1 .. Len(m) : offs[j] = k
  <2>0. Len(m) = n
    BY DEF Replaces
  <2>1. CASE k = id /\ ~ id < 0
    <3>1. CASE IsSpecial(c)
      BY <1>11, <2>1, <3>1
    <3>2. CASE ~IsSpecial(c)
      <4>1. i \in 1 .. n /\ offs[i] = k
        BY <1>1, <1>5, <1>10, <2>1, <3>2
      <4> QED BY <2>0, <4>1
    <3> QED BY <3>1, <3>2
  <2>2. CASE ~(k = id /\ ~ id < 0)
    <3> HIDE DEF id
    <3>1. k \in DOMAIN t.files
      BY <1>11, <2>2
    <3>2. CASE k = id
      <4>1. files = t.files
        BY <2>2, <3>2 DEF files
      <4>2. k < 0
        BY <2>2, <3>2
      <4>3. FALSE
        <5>1. \A a \in DOMAIN t.files : a \in Nat
          BY <1>3 DEF FileSet
        <5> QED BY <3>1, <4>2, <5>1
      <4> QED BY <4>3
    <3>3. CASE k # id
      <4>1. files[k] = t.files[k]
        BY <1>11, <3>1, <3>3
      <4>2. t.files[k] = EmptyFile \/ \E j \in 1 .. n : t.offs[j] = k
        BY <1>3, <3>1 DEF Filed, n
      <4>3. ASSUME NEW j \in 1 .. n, t.offs[j] = k, files[k] # EmptyFile PROVE j # i
        <5>1. CASE j = i
          <6>1. x = k /\ k >= 0
            <7>1. \A a \in DOMAIN t.files : a \in Nat
              BY <1>3 DEF FileSet
            <7> QED BY <3>1, <4>3, <5>1, <7>1
          <6> QED BY <3>3, <6>1 DEF id
        <5> QED BY <5>1
      <4>4. ASSUME files[k] # EmptyFile PROVE \E j \in 1 .. n : offs[j] = k
        <5>1. PICK j \in 1 .. n : t.offs[j] = k
          BY <4>1, <4>2, <4>4
        <5>2. j # i
          BY <4>3, <4>4, <5>1
        <5>3. offs[j] = k
          BY <1>10, <5>1, <5>2
        <5> QED BY <5>3
      <4> QED BY <2>0, <4>4
    <3> QED BY <3>2, <3>3
  <2> QED BY <2>1, <2>2
<1>15. Filed(offs, files, m)
  <2>0. Len(m) = n
    BY DEF Replaces
  <2>1. ASSUME NEW j \in 1 .. Len(m), p[j] # 0, ~IsSpecial(l[p[j]])
        PROVE  /\ t.offs[p[j]] \in DOMAIN files /\ files[t.offs[p[j]]] = t.files[t.offs[p[j]]]
               /\ (~IsSpecial(c) => t.offs[p[j]] # o)
    <3>1. j \in 1 .. n /\ j # i /\ p[j] = j
      BY <1>9, <2>0, <2>1
    <3> QED BY <1>5, <1>13, <2>1, <3>1
  <2>2. ~IsSpecial(c) => o \in DOMAIN files /\ files[o] = c
    <3>1. ASSUME ~IsSpecial(c) PROVE o = id /\ ~ id < 0 /\ body = c
      BY <1>5, <3>1
    <3> HIDE DEF id, o, body
    <3> QED BY <1>11, <3>1
  <2>3. /\ Index(t.offs, l) /\ Picks(p, Len(l), Len(m)) /\ Picked(m, l, p, Len(m), c)
        /\ Picked(offs, t.offs, p, Len(m), o) /\ Filed(t.offs, t.files, l) /\ OffsetOf(o, c)
    BY <1>1, <1>3, <1>5, <1>8 DEF n
  <2> HIDE DEF o, n
  <2> QED BY <1>14, <2>1, <2>2, <2>3, FiledPicked, ZenonT(30)
<1>16. t.cbytes = Sum(StoredIn(m))
  BY <1>3, ListReplaced
<1> HIDE DEF o, id
<1>17. Accepts(Done(UpdateHeader([t EXCEPT !.offs = offs, !.at = t.at, !.files = files])),
               t, m, t.chunksize)
  BY <1>1, <1>3, <1>7, <1>11, <1>12, <1>15, <1>16, SparseWritten
<1> QED BY <1>1, <1>6, <1>17

(* blosc2_schunk_update_chunk puts the chunk in the place of the old one.  *)
LEMMA Updates ==
  ASSUME NEW s \in StoreSet, NEW l \in Seq(ChunkSet), Holds(s, l), NEW c \in ChunkSet,
         NEW i \in 1 .. Len(l)
  PROVE  Accepts(UpdateChunk(s, i, c), s, [l EXCEPT ![i] = c], UpdatedSize(s, i, c))
<1> DEFINE n == Len(l)
           m == [l EXCEPT ![i] = c]
           size == UpdatedSize(s, i, c)
           t == Updated(s, i, c)
<1>1. m \in Seq(ChunkSet) /\ Replaces(m, l, i, c)
  BY ReplacesAt, Zenon
<1>2. n \in Nat /\ s.nchunks = n /\ ~ i > n /\ GetChunk(s, i) # Unreadable
  BY Reads
<1>3. UpdateChunk(s, i, c) = IF InFrame(s) THEN FrameUpdate(t, i, c) ELSE Done([t EXCEPT !.data[i] = c])
  <2> DEFINE old == GetChunk(s, i)
             more == IF InFrame(s) THEN Stored(c) ELSE c.cbytes
             sized == [s EXCEPT !.chunksize = size]
             t2 == [sized EXCEPT !.nbytes = @ + c.nbytes - old.nbytes,
                                 !.cbytes = @ - OldCbytes(old) + more]
  <2>1. UpdateChunk(s, i, c) =
          IF i > s.nchunks THEN Refuse(s)
          ELSE IF old = Unreadable THEN Refuse(sized)
          ELSE IF InFrame(s) THEN FrameUpdate(t2, i, c) ELSE Done([t2 EXCEPT !.data[i] = c])
    BY DEF UpdateChunk, UpdatedSize
  <2>2. t2 = t
    <3> HIDE DEF old, more, size
    <3>1. t2 = [s EXCEPT !.chunksize = size, !.nbytes = @ + c.nbytes - old.nbytes,
                         !.cbytes = @ - OldCbytes(old) + more]
      BY DEF StoreSet
    <3> QED BY <3>1 DEF Updated, old, more, size
  <2> HIDE DEF t2, t, sized
  <2> QED BY <1>2, <2>1, <2>2
<1>4. PICK u \in StoreSet :
           /\ t = u /\ SameFrame(s, u) /\ Counts(u, m)
           /\ u.chunksize = size /\ u.data = s.data /\ u.room = s.room
           /\ InFrame(s) => /\ InFrame(u) /\ Placed(u, l)
                            /\ u.cbytes = u.head.cbytes - Stored(l[i]) + Stored(c)
  BY <1>1, UpdatedCounts
<1>5. u.where = s.where
  BY <1>4 DEF SameFrame
<1> HIDE DEF m, size, t
<1>6. CASE InFrame(s)
  <2>1. Contiguous(u) \/ Sparse(u)
    BY <1>4, <1>6, StoreFields
  <2>2. CASE Contiguous(u)
    <3>1. Accepts(FrameUpdate(u, i, c), u, m, u.chunksize)
      BY <1>1, <1>4, <1>6, <2>2, UpdatesInPlace, UpdatesAtEnd
    <3> QED BY <1>3, <1>4, <1>5, <1>6, <3>1 DEF Accepts, m, size
  <2>3. CASE Sparse(u)
    <3>1. Accepts(FrameUpdate(u, i, c), u, m, u.chunksize)
      BY <1>1, <1>4, <1>6, <2>3, UpdatesFile
    <3> QED BY <1>3, <1>4, <1>5, <1>6, <3>1 DEF Accepts, m, size
  <2> QED BY <2>1, <2>2, <2>3
<1>7. CASE ~InFrame(s)
  <2>1. ~InFrame(u) /\ u.data = l /\ u.offs = <<>> /\ u.room \in Nat
    BY <1>4, <1>5, <1>7, StoreFields DEF InFrame, Holds, SameFrame
  <2>2. [u EXCEPT !.data[i] = c] = [u EXCEPT !.data = m, !.room = u.room]
    BY <2>1 DEF StoreSet, m
  <2>3. Accepts(Done([u EXCEPT !.data = m, !.room = u.room]), u, m, u.chunksize)
    BY <1>1, <1>4, <2>1, MemoryTakes
  <2> QED BY <1>3, <1>4, <1>5, <1>7, <2>2, <2>3 DEF Accepts, m, size
<1> QED BY <1>6, <1>7

-----------------------------------------------------------------------------
(***************************************************************************)
(* Deleting and reordering.                                                *)
(***************************************************************************)

(* A list that is even stays so when a chunk goes.                         *)
LEMMA DeletedEven ==
  ASSUME NEW l \in Seq(ChunkSet), NEW m \in Seq(ChunkSet), NEW size \in Nat, Even(l, size),
         NEW i \in 1 .. Len(l), Deletes(m, l, i)
  PROVE  Even(m, size)
<1> DEFINE n == Len(l)
<1>1. /\ n \in Nat /\ Len(m) = n - 1 /\ \A j \in 1 .. n - 1 : m[j] = IF j < i THEN l[j] ELSE l[j + 1]
  BY DEF Deletes
<1>2. ASSUME size > 0, NEW j \in 1 .. n - 1
      PROVE  IF j = n - 1 THEN m[j].nbytes <= size ELSE m[j].nbytes = size
  <2>1. \A k \in 1 .. n : IF k = n THEN l[k].nbytes <= size ELSE l[k].nbytes = size
    BY <1>2 DEF Even
  <2> HIDE DEF n
  <2>2. CASE j < i
    <3>1. j \in 1 .. n /\ j # n /\ m[j] = l[j]
      BY <1>1, <2>2
    <3> QED BY <2>1, <3>1
  <2>3. CASE ~ j < i
    <3>1. j + 1 \in 1 .. n /\ m[j] = l[j + 1] /\ (j + 1 = n <=> j = n - 1)
      BY <1>1, <2>3
    <3>2. IF j + 1 = n THEN l[j + 1].nbytes <= size ELSE l[j + 1].nbytes = size
      BY <2>1, <3>1
    <3> QED BY <3>1, <3>2
  <2> QED BY <2>2, <2>3
<1> QED BY <1>1, <1>2 DEF Even

Deleted(s, i) ==
  [s EXCEPT !.nchunks = @ - 1, !.nbytes = @ - GetChunk(s, i).nbytes,
            !.cbytes = IF Contiguous(s) THEN @ ELSE @ - OldCbytes(GetChunk(s, i))]

(* The counters when a chunk is deleted.                                   *)
LEMMA DeletedCounts ==
  ASSUME NEW s \in StoreSet, NEW l \in Seq(ChunkSet), Holds(s, l),
         NEW i \in 1 .. Len(l), NEW m \in Seq(ChunkSet), Deletes(m, l, i)
  PROVE  \E t \in StoreSet :
           /\ Deleted(s, i) = t /\ SameFrame(s, t) /\ Counts(t, m)
           /\ t.chunksize = s.chunksize /\ t.data = s.data /\ t.room = s.room
           /\ InFrame(s) =>
                /\ InFrame(t) /\ Placed(t, l)
                /\ t.cbytes = IF Contiguous(t) THEN t.head.cbytes ELSE t.head.cbytes - Stored(l[i])
<1> DEFINE old == l[i]
           chunks == s.nchunks - 1
           bytes == s.nbytes - old.nbytes
           stored == IF Contiguous(s) THEN s.cbytes ELSE s.cbytes - OldCbytes(old)
           t == [s EXCEPT !.nchunks = chunks, !.nbytes = bytes, !.cbytes = stored]
<1>1. /\ Counts(s, l) /\ s.nchunks \in Int /\ s.nbytes \in Int /\ s.cbytes \in Int
      /\ s.chunksize \in Nat \cup {-1}
      /\ (InFrame(s) => s.head.cbytes = s.cbytes /\ Placed(s, l))
  BY StoreFields DEF Holds, InStep
<1>2. old \in ChunkSet /\ old.nbytes \in Nat /\ Stored(old) \in Nat /\ OldCbytes(old) = Stored(old)
      /\ GetChunk(s, i) = old
  BY Reads, ChunkFacts
<1>3. Deleted(s, i) = t
  BY <1>2 DEF Deleted
<1>4. stored \in Int /\ stored = IF Contiguous(s) THEN s.cbytes ELSE s.cbytes - Stored(old)
  BY <1>1, <1>2
<1> HIDE DEF old, stored
<1>5. /\ t \in StoreSet /\ t.where = s.where /\ t.head = s.head /\ t.at = s.at
      /\ t.offs = s.offs /\ t.payload = s.payload /\ t.files = s.files
      /\ t.nchunks = s.nchunks - 1 /\ t.nbytes = s.nbytes - old.nbytes /\ t.cbytes = stored
      /\ t.chunksize = s.chunksize /\ t.data = s.data /\ t.room = s.room
  <2>1. bytes \in Int /\ chunks \in Int
    <3>1. s.nbytes \in Int /\ old.nbytes \in Int /\ s.nchunks \in Int
      BY <1>1, <1>2
    <3> QED BY <3>1
  <2> HIDE DEF bytes, chunks
  <2>2. /\ t \in StoreSet /\ t.where = s.where /\ t.head = s.head /\ t.at = s.at
        /\ t.offs = s.offs /\ t.payload = s.payload /\ t.files = s.files
        /\ t.nchunks = chunks /\ t.nbytes = bytes /\ t.cbytes = stored
        /\ t.chunksize = s.chunksize /\ t.data = s.data /\ t.room = s.room
    BY <1>4, <2>1 DEF StoreSet
  <2> HIDE DEF t
  <2> QED BY <2>2 DEF bytes, chunks
<1> HIDE DEF t
<1>6. SameFrame(s, t) /\ (InFrame(s) => InFrame(t)) /\ (Contiguous(t) <=> Contiguous(s))
  BY <1>5 DEF SameFrame, InFrame, Contiguous
<1>7. /\ Sum(Bytes(l)) = Sum(Bytes(m)) + old.nbytes
      /\ Sum(StoredIn(l)) = Sum(StoredIn(m)) + Stored(old)
      /\ Sum(Bytes(m)) \in Nat /\ Sum(StoredIn(m)) \in Nat /\ Len(m) = Len(l) - 1 /\ Len(l) \in Nat
  <2>1. Sum(Bytes(m)) \in Nat /\ Sum(StoredIn(m)) \in Nat /\ Len(l) \in Nat
    BY SizesOf
  <2>2. /\ Sum(Bytes(l)) = Sum(Bytes(m)) + old.nbytes
        /\ Sum(StoredIn(l)) = Sum(StoredIn(m)) + Stored(old)
    BY ListDeleted DEF old
  <2> QED BY <2>1, <2>2 DEF Deletes
<1>8. Counts(t, m)
  <2>1. /\ s.nchunks = Len(l) /\ s.nbytes = Sum(Bytes(l)) /\ s.cbytes >= Sum(StoredIn(l))
        /\ Even(l, s.chunksize) /\ (s.chunksize = -1 => Len(l) = 0) /\ Len(l) # 0
    BY <1>1 DEF Counts
  <2>2. t.nchunks = Len(m) /\ t.nbytes = Sum(Bytes(m)) /\ t.chunksize \in Nat
    <3> DEFINE a == Sum(Bytes(m))
               b == old.nbytes
    <3>1. a \in Nat /\ b \in Nat /\ t.nbytes = s.nbytes - b /\ s.nbytes = a + b
      BY <1>2, <1>5, <1>7, <2>1
    <3>2. t.nbytes = a
      <4> HIDE DEF a, b
      <4> QED BY <3>1
    <3>3. t.nchunks = Len(m) /\ t.chunksize \in Nat
      BY <1>1, <1>5, <1>7, <2>1
    <3> QED BY <3>2, <3>3
  <2>3. t.cbytes >= Sum(StoredIn(m))
    <3> DEFINE a == Sum(StoredIn(m))
               b == s.cbytes
               e == Stored(old)
    <3>1. Sum(StoredIn(m)) = a /\ a \in Nat /\ b \in Int /\ e \in Nat /\ b >= a + e /\ (t.cbytes = b \/ t.cbytes = b - e)
      BY <1>1, <1>2, <1>4, <1>5, <1>7, <2>1
    <3> HIDE DEF a, b, e
    <3> QED BY <3>1
  <2>4. Even(m, t.chunksize) /\ t.chunksize # -1
    <3>1. s.chunksize \in Nat
      BY <1>5, <2>2
    <3>2. Even(m, s.chunksize)
      BY <2>1, <3>1, DeletedEven
    <3> QED BY <1>5, <2>2, <3>2
  <2> QED BY <2>2, <2>3, <2>4 DEF Counts
<1>9. ASSUME InFrame(s)
      PROVE  /\ Placed(t, l)
             /\ t.cbytes = IF Contiguous(t) THEN t.head.cbytes ELSE t.head.cbytes - Stored(old)
  <2>1. Placed(t, l)
    BY <1>1, <1>6, <1>9, PlacedSame, Zenon
  <2>2. t.head.cbytes = s.cbytes
    BY <1>1, <1>5, <1>9
  <2> QED BY <1>4, <1>5, <1>6, <1>9, <2>1, <2>2
<1> QED BY <1>3, <1>5, <1>6, <1>8, <1>9, Zenon DEF old

(* frame_delete_chunk leaves the cells of the chunk, or removes its file.  *)
LEMMA FrameDeletes ==
  ASSUME NEW t \in StoreSet, NEW l \in Seq(ChunkSet), NEW m \in Seq(ChunkSet),
         NEW i \in 1 .. Len(l), InFrame(t), Placed(t, l), Deletes(m, l, i), Counts(t, m),
         t.cbytes = IF Contiguous(t) THEN t.head.cbytes ELSE t.head.cbytes - Stored(l[i])
  PROVE  Accepts(FrameDelete(t, i), t, m, t.chunksize)
<1> DEFINE n == Len(l)
           x == t.offs[i]
           offs == RemoveAt(t.offs, i)
           files == IF Sparse(t) THEN RemoveFile(t.files, x) ELSE t.files
           p == Deleting(n, i)
           at == t.head.cbytes
<1>1. /\ HeadNchunks(t) = n /\ Len(t.offs) = n /\ n \in Nat /\ n # 0
      /\ IndexReadable(t, n, n) /\ t.offs \in Seq(Int) /\ ~ n < i /\ i \in 1 .. Len(t.offs)
  BY HeaderRead, StoreFields
<1>2. Index(t.offs, l) /\ x \in Int /\ (x < 0 <=> IsSpecial(l[i])) /\ at \in Int /\ at >= 0
      /\ t.files \in FileSet
  BY IndexSign, StoreFields DEF Placed, Stores
<1>3. FrameDelete(t, i) = Done(UpdateHeader([t EXCEPT !.offs = offs, !.at = at, !.files = files]))
  <2>1. Sparse(t) /\ x >= 0 => x \in DOMAIN t.files
    BY <1>2 DEF Placed, Stores, Filed
  <2>2. FrameDelete(t, i) =
          IF n < i \/ ~IndexReadable(t, n, n) \/ (Sparse(t) /\ x >= 0 /\ x \notin DOMAIN t.files)
          THEN Refuse(t)
          ELSE Done(UpdateHeader([t EXCEPT !.offs = offs, !.at = at, !.files = files]))
    <3> HIDE DEF n
    <3> QED BY <1>1 DEF FrameDelete
  <2> HIDE DEF n, offs, at, files
  <2> QED BY <1>1, <2>1, <2>2
<1>4. offs \in Seq(Int) /\ Deletes(offs, t.offs, i)
  BY <1>1, DeletesAt, Zenon
<1>5. /\ Picks(p, n, Len(m)) /\ Picked(m, l, p, Len(m), EmptyFile) /\ Picked(offs, t.offs, p, Len(m), 0)
      /\ Len(m) = n - 1
      /\ \A j \in 1 .. Len(m) : p[j] # 0 /\ p[j] # i /\ p[j] \in 1 .. n
      /\ \A k \in 1 .. n : k # i => \E j \in 1 .. Len(m) : p[j] = k
  <2>1. Len(m) = n - 1
    BY DEF Deletes
  <2> HIDE DEF p, offs
  <2>2. /\ Picks(p, n, n - 1)
        /\ \A j \in 1 .. n - 1 : p[j] # 0 /\ p[j] # i
        /\ \A k \in 1 .. n : k # i => \E j \in 1 .. n - 1 : p[j] = k
        /\ \A f, g, y : Len(f) = n /\ Deletes(g, f, i) => Picked(g, f, p, n - 1, y)
    BY <1>1, PicksDeleting DEF p
  <2>3. \A j \in 1 .. n - 1 : p[j] \in 1 .. n
    <3>1. \A j \in 1 .. n - 1 : p[j] \in 0 .. n
      BY <2>2 DEF Picks
    <3> QED BY <1>1, <2>2, <3>1
  <2>4. Picked(m, l, p, n - 1, EmptyFile) /\ Picked(offs, t.offs, p, n - 1, 0)
    BY <1>1, <1>4, <2>2, Zenon
  <2> HIDE DEF n
  <2> QED BY <2>1, <2>2, <2>3, <2>4
<1> HIDE DEF offs, p
<1>6. Index(offs, m)
  BY <1>2, <1>5, IndexPicked, ZenonT(30) DEF n
<1>7. CASE Contiguous(t)
  <2>1. /\ files = t.files /\ t.payload \in Seq(CellSet) /\ Len(t.payload) = t.head.cbytes
        /\ Laid(t.offs, t.payload, l)
    BY <1>7, StoreFields DEF Placed, Stores, Contiguous, Sparse
  <2>2. Laid(offs, t.payload, m)
    <3> DEFINE c == l[i]
    <3>1. Picked(m, l, p, Len(m), c)
      BY <1>5 DEF Picked
    <3>2. Len(t.payload) \in Nat /\ c \in ChunkSet
      BY <2>1
    <3>3. /\ Index(t.offs, l) /\ Picks(p, Len(l), Len(m)) /\ Picked(offs, t.offs, p, Len(m), 0)
          /\ \A k \in 1 .. Len(t.payload) : t.payload[k] = t.payload[k]
          /\ \A j \in 1 .. Len(m) : p[j] = 0 /\ ~IsSpecial(c) =>
               0 \in Nat /\ 0 >= Len(t.payload) /\ Whole(t.payload, 0, c)
          /\ Len(t.payload) >= Len(t.payload)
      BY <1>2, <1>5, <3>2 DEF n
    <3> HIDE DEF c
    <3> QED BY <2>1, <3>1, <3>2, <3>3, LaidPicked
  <2>3. [t EXCEPT !.offs = offs, !.at = at, !.files = files]
          = [t EXCEPT !.offs = offs, !.at = at, !.payload = t.payload]
    <3> HIDE DEF files
    <3> QED BY <2>1 DEF StoreSet
  <2>4. at = t.cbytes /\ t.cbytes >= 0 /\ Len(t.payload) = t.cbytes
    BY <1>2, <1>7, <2>1
  <2>5. Accepts(Done(UpdateHeader([t EXCEPT !.offs = offs, !.at = at, !.payload = t.payload])),
                t, m, t.chunksize)
    <3> HIDE DEF at
    <3> QED BY <1>4, <1>6, <1>7, <2>1, <2>2, <2>4, ContiguousWritten
  <2> QED BY <1>3, <2>3, <2>5
<1>8. CASE Sparse(t)
  <2>1. files \in FileSet /\ DOMAIN files = DOMAIN t.files \ {x}
        /\ \A k \in DOMAIN t.files : k # x => files[k] = t.files[k]
    <3>1. files = RemoveFile(t.files, x) /\ t.files \in FileSet
      BY <1>2, <1>8
    <3> HIDE DEF files, x
    <3> QED BY <3>1, FilesRemoved
  <2>2. Filed(t.offs, t.files, l) /\ t.head.cbytes = Sum(StoredIn(l)) /\ ~Contiguous(t)
    BY <1>8 DEF Placed, Stores, Contiguous, Sparse
  <2> HIDE DEF files
  <2>3. ASSUME NEW j \in 1 .. Len(m), ~IsSpecial(l[p[j]])
        PROVE  t.offs[p[j]] \in DOMAIN files /\ files[t.offs[p[j]]] = t.files[t.offs[p[j]]]
    <3>1. p[j] \in 1 .. n /\ p[j] # i
      BY <1>5
    <3>2. t.offs[p[j]] \in DOMAIN t.files /\ t.offs[p[j]] # x
      BY <2>2, <2>3, <3>1 DEF Filed, n
    <3> QED BY <2>1, <3>2
  <2>4. ASSUME NEW k \in DOMAIN files PROVE files[k] = EmptyFile \/ \E j \in 1 .. Len(m) : offs[j] = k
    <3>1. k \in DOMAIN t.files /\ k # x /\ files[k] = t.files[k]
      BY <2>1
    <3>2. ASSUME files[k] # EmptyFile PROVE \E j \in 1 .. Len(m) : offs[j] = k
      <4>1. PICK a \in 1 .. n : t.offs[a] = k
        BY <2>2, <3>1, <3>2 DEF Filed, n
      <4>2. PICK j \in 1 .. Len(m) : p[j] = a
        BY <1>5, <3>1, <4>1
      <4>3. offs[j] = k
        <5>1. offs[j] = IF p[j] = 0 THEN 0 ELSE t.offs[p[j]]
          BY <1>5, Zenon DEF Picked
        <5> QED BY <1>5, <4>1, <4>2, <5>1
      <4> QED BY <4>3
    <3> QED BY <3>2
  <2>5. Filed(offs, files, m)
    <3> DEFINE c == l[i]
               o == x
    <3>1. Picked(m, l, p, Len(m), c) /\ Picked(offs, t.offs, p, Len(m), o)
      BY <1>5 DEF Picked
    <3>2. OffsetOf(o, c) /\ c \in ChunkSet
      BY <1>2, IndexSign DEF OffsetOf, Index
    <3>3. /\ Index(t.offs, l) /\ Picks(p, Len(l), Len(m))
          /\ \A j \in 1 .. Len(m) : p[j] # 0
      BY <1>2, <1>5 DEF n
    <3>4. ASSUME NEW j \in 1 .. Len(m), p[j] # 0, ~IsSpecial(l[p[j]])
          PROVE  /\ t.offs[p[j]] \in DOMAIN files /\ files[t.offs[p[j]]] = t.files[t.offs[p[j]]]
      BY <2>3, <3>4
    <3>5. /\ \A j \in 1 .. Len(m) : p[j] = 0 => OffsetOf(o, c)
          /\ \A j \in 1 .. Len(m) : p[j] = 0 /\ ~IsSpecial(c) => o \in DOMAIN files /\ files[o] = c
          /\ \A j \in 1 .. Len(m) : p[j] # 0 /\ ~IsSpecial(l[p[j]]) =>
               /\ t.offs[p[j]] \in DOMAIN files /\ files[t.offs[p[j]]] = t.files[t.offs[p[j]]]
               /\ ~IsSpecial(c) => t.offs[p[j]] # o
      <4>1. ASSUME NEW j \in 1 .. Len(m), ~IsSpecial(l[p[j]]) PROVE t.offs[p[j]] # o
        <5>1. p[j] \in 1 .. n /\ p[j] # i
          BY <1>5
        <5> QED BY <2>2, <4>1, <5>1 DEF Filed, n
      <4> HIDE DEF o
      <4> QED BY <3>2, <3>3, <3>4, <4>1
    <3> HIDE DEF c, o
    <3> QED BY <2>2, <2>4, <3>1, <3>2, <3>3, <3>5, FiledPicked
  <2>6. t.cbytes = Sum(StoredIn(m))
    <3>1. Sum(StoredIn(l)) = Sum(StoredIn(m)) + Stored(l[i]) /\ Sum(StoredIn(m)) \in Nat
          /\ Stored(l[i]) \in Nat
      <4>1. Sum(StoredIn(l)) = Sum(StoredIn(m)) + Stored(l[i])
        BY ListDeleted
      <4>2. l[i] \in ChunkSet /\ Sum(StoredIn(m)) \in Nat
        BY SizesOf
      <4>3. Stored(l[i]) \in Nat
        BY <4>2, ChunkFacts
      <4> QED BY <4>1, <4>2, <4>3
    <3>2. t.cbytes = Sum(StoredIn(l)) - Stored(l[i])
      BY <2>2
    <3> DEFINE a == Sum(StoredIn(m))
               b == Stored(l[i])
    <3>3. t.cbytes = (a + b) - b /\ a \in Nat /\ b \in Nat
      BY <3>1, <3>2
    <3>4. t.cbytes = a
      <4> HIDE DEF a, b
      <4> QED BY <3>3
    <3> QED BY <3>4
  <2>7. at # NoIndex
    BY <1>2 DEF NoIndex
  <2>8. Accepts(Done(UpdateHeader([t EXCEPT !.offs = offs, !.at = at, !.files = files])),
                t, m, t.chunksize)
    <3> HIDE DEF at
    <3> QED BY <1>2, <1>4, <1>6, <1>8, <2>1, <2>5, <2>6, <2>7, SparseWritten
  <2> QED BY <1>3, <2>8
<1> QED BY <1>7, <1>8, StoreFields

(* blosc2_schunk_delete_chunk takes the chunk out of the list.             *)
LEMMA DeletesChunk ==
  ASSUME NEW s \in StoreSet, NEW l \in Seq(ChunkSet), Holds(s, l), NEW i \in 1 .. Len(l)
  PROVE  Accepts(DeleteChunk(s, i), s, RemoveAt(l, i), s.chunksize)
<1> DEFINE n == Len(l)
           m == RemoveAt(l, i)
           t == Deleted(s, i)
<1>1. m \in Seq(ChunkSet) /\ Deletes(m, l, i)
  BY DeletesAt, Zenon
<1>2. n \in Nat /\ s.nchunks = n /\ ~ i > n /\ GetChunk(s, i) # Unreadable
  BY Reads
<1>3. DeleteChunk(s, i) = IF InFrame(s) THEN FrameDelete(t, i) ELSE Done([t EXCEPT !.data = RemoveAt(@, i)])
  BY <1>2 DEF DeleteChunk, Deleted
<1>4. PICK u \in StoreSet :
           /\ t = u /\ SameFrame(s, u) /\ Counts(u, m)
           /\ u.chunksize = s.chunksize /\ u.data = s.data /\ u.room = s.room
           /\ InFrame(s) =>
                /\ InFrame(u) /\ Placed(u, l)
                /\ u.cbytes = IF Contiguous(u) THEN u.head.cbytes ELSE u.head.cbytes - Stored(l[i])
  BY <1>1, DeletedCounts
<1>5. u.where = s.where
  BY <1>4 DEF SameFrame
<1> HIDE DEF m, t
<1>6. CASE InFrame(s)
  <2>1. Accepts(FrameDelete(u, i), u, m, u.chunksize)
    BY <1>1, <1>4, <1>6, FrameDeletes
  <2> QED BY <1>3, <1>4, <1>5, <1>6, <2>1 DEF Accepts, m
<1>7. CASE ~InFrame(s)
  <2>1. ~InFrame(u) /\ u.data = l /\ u.offs = <<>> /\ u.room \in Nat
    BY <1>4, <1>5, <1>7, StoreFields DEF InFrame, Holds, SameFrame
  <2>2. [u EXCEPT !.data = RemoveAt(@, i)] = [u EXCEPT !.data = m, !.room = u.room]
    BY <2>1 DEF StoreSet, m
  <2>3. Accepts(Done([u EXCEPT !.data = m, !.room = u.room]), u, m, u.chunksize)
    BY <1>1, <1>4, <2>1, MemoryTakes
  <2> QED BY <1>3, <1>4, <1>5, <1>7, <2>2, <2>3 DEF Accepts, m
<1> QED BY <1>6, <1>7

(* The counters when chunks of the same sizes change places.               *)
LEMMA ReorderedCounts ==
  ASSUME NEW s \in StoreSet, NEW l \in Seq(ChunkSet), Counts(s, l), NEW p, Permutes(p, Len(l)),
         NEW m \in Seq(ChunkSet), Len(m) = Len(l), \A j \in 1 .. Len(l) : m[j] = l[p[j]],
         s.chunksize > 0 => \A j \in 1 .. Len(l) : m[j].nbytes = l[j].nbytes
  PROVE  Counts(s, m) /\ Sum(StoredIn(m)) = Sum(StoredIn(l))
<1>1. Sum(Bytes(m)) = Sum(Bytes(l)) /\ Sum(StoredIn(m)) = Sum(StoredIn(l))
  BY ListPermuted
<1>2. Even(m, s.chunksize)
  <2>1. Even(l, s.chunksize)
    BY DEF Counts
  <2> QED BY <2>1 DEF Even
<1> QED BY <1>1, <1>2 DEF Counts

(* frame_reorder_offsets changes the index alone.                          *)
LEMMA FrameReorders ==
  ASSUME NEW s \in StoreSet, NEW l \in Seq(ChunkSet), InFrame(s), Holds(s, l),
         NEW p \in [1 .. Len(l) -> 1 .. Len(l)], Permutes(p, Len(l)),
         NEW m \in Seq(ChunkSet), Len(m) = Len(l), \A j \in 1 .. Len(l) : m[j] = l[p[j]], Counts(s, m),
         Sum(StoredIn(m)) = Sum(StoredIn(l))
  PROVE  \/ Accepts(FrameReorder(s, p), s, m, s.chunksize)
         \/ Len(l) = 0 /\ FrameReorder(s, p) = Refuse(s)
<1> DEFINE n == Len(l)
           offs == [i \in 1 .. n |-> s.offs[p[i]]]
           at == s.head.cbytes
<1>1. Placed(s, l) /\ s.head.cbytes = s.cbytes
  BY DEF Holds, InStep
<1>2. /\ HeadNchunks(s) = n /\ Len(s.offs) = n /\ n \in Nat /\ s.offs \in Seq(Int)
      /\ (n # 0 => IndexReadable(s, n, n))
  BY <1>1, HeaderRead, StoreFields
<1>3. FrameReorder(s, p) = IF ~IndexReadable(s, n, n) THEN Refuse(s)
                           ELSE Done(UpdateHeader([s EXCEPT !.offs = offs, !.at = at]))
  <2>1. FrameReorder(s, p) = IF n < 0 \/ ~IndexReadable(s, n, n) THEN Refuse(s)
                             ELSE Done(UpdateHeader([s EXCEPT !.offs = offs, !.at = at]))
    BY <1>2 DEF FrameReorder
  <2> HIDE DEF offs, at, n
  <2> QED BY <1>2, <2>1
<1>4. Index(s.offs, l) /\ at \in Int /\ at >= 0 /\ at # NoIndex /\ at = s.cbytes
  BY <1>1, StoreFields DEF Placed, Stores, NoIndex
<1>5. offs \in Seq(Int) /\ Len(offs) = n /\ \A i \in 1 .. n : offs[i] = s.offs[p[i]]
  <2>1. \A i \in 1 .. n : p[i] \in 1 .. n
    OBVIOUS
  <2>2. \A i \in 1 .. n : s.offs[i] \in Int
    BY <1>2
  <2>3. offs \in [1 .. n -> Int]
    <3> HIDE DEF n
    <3> QED BY <2>1, <2>2
  <2>4. \A i \in 1 .. n : offs[i] = s.offs[p[i]]
    OBVIOUS
  <2> HIDE DEF offs
  <2> QED BY <1>2, <2>3, <2>4, ListIs
<1> HIDE DEF offs
<1>6. /\ \A i \in 1 .. n : p[i] \in 1 .. n /\ m[i] = l[p[i]] /\ offs[i] = s.offs[p[i]]
      /\ \A i, j \in 1 .. n : i # j => p[i] # p[j]
      /\ \A k \in 1 .. n : \E j \in 1 .. n : p[j] = k
      /\ Len(m) = n
  <2>1. \A i \in 1 .. n : p[i] \in 1 .. n /\ m[i] = l[p[i]]
    OBVIOUS
  <2>2. Len(m) = n
    OBVIOUS
  <2>3. Permutes(p, n)
    OBVIOUS
  <2> HIDE DEF n
  <2>4. \A i, j \in 1 .. n : i # j => p[i] # p[j]
    BY <2>3, Zenon DEF Permutes
  <2>5. \A k \in 1 .. n : \E j \in 1 .. n : p[j] = k
    BY <2>3, Zenon DEF Permutes
  <2> QED BY <1>5, <2>1, <2>2, <2>4, <2>5
<1>7. Index(offs, m)
  <2>1. \A i \in 1 .. n : IF IsSpecial(l[i]) THEN s.offs[i] = SpecialCode[l[i].data] ELSE s.offs[i] \in Nat
    BY <1>4 DEF Index
  <2>2. ASSUME NEW i \in 1 .. n
        PROVE  IF IsSpecial(m[i]) THEN offs[i] = SpecialCode[m[i].data] ELSE offs[i] \in Nat
    <3>1. p[i] \in 1 .. n /\ m[i] = l[p[i]] /\ offs[i] = s.offs[p[i]]
      BY <1>6
    <3>2. IF IsSpecial(l[p[i]]) THEN s.offs[p[i]] = SpecialCode[l[p[i]].data] ELSE s.offs[p[i]] \in Nat
      BY <2>1, <3>1
    <3> QED BY <3>1, <3>2
  <2> HIDE DEF n
  <2> QED BY <1>5, <1>6, <2>2 DEF Index
<1>8. ASSUME Contiguous(s)
      PROVE  Laid(offs, s.payload, m) /\ Len(s.payload) = s.cbytes /\ s.payload \in Seq(CellSet)
  <2>1. Len(s.payload) = s.cbytes /\ s.payload \in Seq(CellSet) /\ Laid(s.offs, s.payload, l)
    BY <1>1, <1>8, StoreFields DEF Placed, Stores
  <2>2. Laid(offs, s.payload, m)
    <3> DEFINE t == s.payload
    <3>3. /\ \A i \in 1 .. n : ~IsSpecial(l[i]) => Whole(t, s.offs[i], l[i])
          /\ \A i, j \in 1 .. n : i # j /\ ~IsSpecial(l[i]) /\ ~IsSpecial(l[j]) =>
               Apart(s.offs[i], l[i], s.offs[j], l[j])
      BY <2>1 DEF Laid
    <3> HIDE DEF n, t
    <3>1. ASSUME NEW i \in 1 .. n, ~IsSpecial(m[i])
          PROVE  Whole(s.payload, offs[i], m[i])
      <4>1. p[i] \in 1 .. n /\ m[i] = l[p[i]] /\ offs[i] = s.offs[p[i]]
        BY <1>6
      <4>2. Whole(t, s.offs[p[i]], l[p[i]])
        BY <3>1, <3>3, <4>1, Zenon
      <4> QED BY <4>1, <4>2 DEF t
    <3>2. ASSUME NEW i \in 1 .. n, NEW j \in 1 .. n, i # j, ~IsSpecial(m[i]), ~IsSpecial(m[j])
          PROVE  Apart(offs[i], m[i], offs[j], m[j])
      <4>1. /\ p[i] \in 1 .. n /\ m[i] = l[p[i]] /\ offs[i] = s.offs[p[i]]
            /\ p[j] \in 1 .. n /\ m[j] = l[p[j]] /\ offs[j] = s.offs[p[j]]
            /\ p[i] # p[j]
        BY <1>6, <3>2
      <4>2. Apart(s.offs[p[i]], l[p[i]], s.offs[p[j]], l[p[j]])
        BY <3>2, <3>3, <4>1
      <4> QED BY <4>1, <4>2
    <3> QED BY <1>6, <3>1, <3>2, Zenon DEF Laid
  <2> QED BY <2>1, <2>2
<1>9. ASSUME Sparse(s)
      PROVE  Filed(offs, s.files, m) /\ s.files \in FileSet /\ s.cbytes = Sum(StoredIn(m))
  <2>1. Filed(s.offs, s.files, l) /\ s.files \in FileSet /\ s.cbytes = Sum(StoredIn(m))
    BY <1>1, <1>9, StoreFields DEF Placed, Stores
  <2>6. /\ \A i \in 1 .. n : ~IsSpecial(l[i]) =>
               s.offs[i] \in DOMAIN s.files /\ s.files[s.offs[i]] = l[i]
        /\ \A i, j \in 1 .. n : i # j /\ ~IsSpecial(l[i]) => s.offs[i] # s.offs[j]
    BY <2>1 DEF Filed
  <2>2. ASSUME NEW i \in 1 .. n, ~IsSpecial(m[i])
        PROVE  offs[i] \in DOMAIN s.files /\ s.files[offs[i]] = m[i]
    <3>1. p[i] \in 1 .. n /\ m[i] = l[p[i]] /\ offs[i] = s.offs[p[i]]
      BY <1>6
    <3>2. s.offs[p[i]] \in DOMAIN s.files /\ s.files[s.offs[p[i]]] = l[p[i]]
      BY <2>2, <2>6, <3>1
    <3> QED BY <3>1, <3>2
  <2>3. ASSUME NEW i \in 1 .. n, NEW j \in 1 .. n, i # j, ~IsSpecial(m[i])
        PROVE  offs[i] # offs[j]
    <3>1. /\ p[i] \in 1 .. n /\ m[i] = l[p[i]] /\ offs[i] = s.offs[p[i]]
          /\ p[j] \in 1 .. n /\ offs[j] = s.offs[p[j]] /\ p[i] # p[j]
      BY <1>6, <2>3
    <3> QED BY <2>3, <2>6, <3>1
  <2>4. ASSUME NEW id \in DOMAIN s.files, s.files[id] # EmptyFile PROVE \E j \in 1 .. n : offs[j] = id
    <3>1. PICK k \in 1 .. n : s.offs[k] = id
      BY <2>1, <2>4 DEF Filed, n
    <3>2. PICK j \in 1 .. n : p[j] = k
      BY <1>6
    <3> QED BY <1>6, <3>1, <3>2
  <2>5. Filed(offs, s.files, m)
    <3> HIDE DEF n
    <3> QED BY <1>6, <2>2, <2>3, <2>4, ZenonT(30) DEF Filed
  <2> QED BY <2>1, <2>5
<1>10. CASE ~IndexReadable(s, n, n)
  BY <1>2, <1>3, <1>10
<1>11. CASE IndexReadable(s, n, n)
  <2>1. FrameReorder(s, p) = Done(UpdateHeader([s EXCEPT !.offs = offs, !.at = at]))
    BY <1>3, <1>11
  <2> HIDE DEF at
  <2>2. CASE Contiguous(s)
    <3>1. [s EXCEPT !.offs = offs, !.at = at] = [s EXCEPT !.offs = offs, !.at = at, !.payload = s.payload]
      BY DEF StoreSet
    <3>2. s.cbytes >= 0
      BY <1>4
    <3>3. Accepts(Done(UpdateHeader([s EXCEPT !.offs = offs, !.at = at, !.payload = s.payload])),
                  s, m, s.chunksize)
      BY <1>4, <1>5, <1>7, <1>8, <2>2, <3>2, ContiguousWritten
    <3> QED BY <2>1, <3>1, <3>3
  <2>3. CASE Sparse(s)
    <3>1. [s EXCEPT !.offs = offs, !.at = at] = [s EXCEPT !.offs = offs, !.at = at, !.files = s.files]
      BY DEF StoreSet
    <3>3. Accepts(Done(UpdateHeader([s EXCEPT !.offs = offs, !.at = at, !.files = s.files])),
                  s, m, s.chunksize)
      BY <1>4, <1>5, <1>7, <1>9, <2>3, SparseWritten
    <3> QED BY <2>1, <3>1, <3>3
  <2> QED BY <2>2, <2>3, StoreFields
<1> QED BY <1>10, <1>11

(* blosc2_schunk_reorder_offsets puts the chunks in the order it is given, *)
(* when that keeps the list even and the array of pointers is as long.     *)
LEMMA Reorders ==
  ASSUME NEW s \in StoreSet, NEW l \in Seq(ChunkSet), Holds(s, l),
         NEW order \in [1 .. Len(l) -> 1 .. Len(l)],
         s.chunksize > 0 => \A i \in 1 .. Len(l) : l[order[i]].nbytes = l[i].nbytes,
         ~InFrame(s) => s.room >= Len(l)
  PROVE  LET m == [i \in 1 .. Len(l) |-> l[order[i]]] IN
         /\ Range(order) # 1 .. Len(l) => ReorderOffsets(s, order) = Refuse(s)
         /\ Range(order) = 1 .. Len(l) =>
              \/ Accepts(ReorderOffsets(s, order), s, m, s.chunksize)
              \/ Len(l) = 0 /\ ReorderOffsets(s, order) = Refuse(s)
<1> DEFINE n == Len(l)
           m == [i \in 1 .. n |-> l[order[i]]]
<1>1. n \in Nat /\ s.nchunks = n /\ Counts(s, l)
  BY Reads DEF Holds
<1>2. CASE Range(order) # 1 .. n
  BY <1>1, <1>2 DEF ReorderOffsets
<1>3. CASE Range(order) = 1 .. n
  <2>1. Permutes(order, n)
    BY <1>1, <1>3, OrderPermutes
  <2>2. m \in Seq(ChunkSet) /\ Len(m) = n /\ \A j \in 1 .. n : m[j] = l[order[j]]
    <3>1. \A j \in 1 .. n : order[j] \in 1 .. n /\ l[order[j]] \in ChunkSet
      OBVIOUS
    <3>2. m \in [1 .. n -> ChunkSet]
      <4> HIDE DEF n
      <4> QED BY <3>1
    <3>3. \A j \in 1 .. n : m[j] = l[order[j]]
      OBVIOUS
    <3> HIDE DEF m
    <3> QED BY <1>1, <3>2, <3>3, ListIs
  <2> HIDE DEF m
  <2>3. s.chunksize > 0 => \A j \in 1 .. n : m[j].nbytes = l[j].nbytes
    BY <2>2
  <2>4. Counts(s, m) /\ Sum(StoredIn(m)) = Sum(StoredIn(l))
    BY <1>1, <2>1, <2>2, <2>3, ReorderedCounts
  <2>5. CASE InFrame(s)
    <3>1. ReorderOffsets(s, order) = FrameReorder(s, order)
      BY <1>1, <1>3, <2>5 DEF ReorderOffsets
    <3>2. \/ Accepts(FrameReorder(s, order), s, m, s.chunksize)
          \/ Len(l) = 0 /\ FrameReorder(s, order) = Refuse(s)
      BY <2>1, <2>2, <2>4, <2>5, FrameReorders
    <3> QED BY <1>3, <3>1, <3>2 DEF m
  <2>6. CASE ~InFrame(s)
    <3>1. s.data = l /\ s.offs = <<>> /\ s.room \in Nat /\ s.room >= n
      BY <2>6, StoreFields DEF Holds
    <3> DEFINE data == [i \in 1 .. s.nchunks |-> IF order[i] <= s.room THEN s.data[order[i]] ELSE Unreadable]
    <3>2. data = m
      <4>1. \A i \in 1 .. n : order[i] \in 1 .. n /\ order[i] <= s.room
        BY <1>1, <3>1
      <4> HIDE DEF n
      <4> QED BY <1>1, <3>1, <4>1 DEF m
    <3>3. ReorderOffsets(s, order) = Done([s EXCEPT !.data = data])
      BY <1>1, <1>3, <2>6 DEF ReorderOffsets
    <3> HIDE DEF data
    <3>4. [s EXCEPT !.data = m] = [s EXCEPT !.data = m, !.room = s.room]
      BY DEF StoreSet
    <3>5. Accepts(Done([s EXCEPT !.data = m, !.room = s.room]), s, m, s.chunksize)
      BY <2>2, <2>4, <2>6, <3>1, MemoryTakes
    <3> QED BY <1>3, <3>2, <3>3, <3>4, <3>5 DEF m
  <2> QED BY <2>5, <2>6
<1> QED BY <1>2, <1>3

-----------------------------------------------------------------------------
(***************************************************************************)
(* Calls that append chunk after chunk.                                    *)
(***************************************************************************)

(* The appends one after the other: T[k] has what there may be after k of  *)
(* them.                                                                   *)
LEMMA AppendSteps ==
  ASSUME NEW s, NEW chunks \in Seq(ChunkSet), NEW T, Done(s) \in T[0],
         \A k \in 1 .. Len(chunks) : \A r \in T[k - 1] :
           (IF r.ok THEN AppendChunk(r.st, chunks[k]) ELSE r) \in T[k]
  PROVE  AppendAll(s, chunks) \in T[Len(chunks)]
<1> DEFINE n == Len(chunks)
           Next1(k, r) == IF r.ok THEN AppendChunk(r.st, chunks[k]) ELSE r
           Is(g) == g = [k \in 0 .. n |-> IF k = 0 THEN Done(s) ELSE Next1(k, g[k - 1])]
           step == [k \in 1 .. n |-> [r \in T[k - 1] |-> Next1(k, r)]]
           base == Done(s)
<1>1. n \in Nat
  OBVIOUS
<1>2. Passes(step, n, T)
  BY DEF Passes
<1>3. PICK h : Loop(h, base, step, n, T)
  <2>1. base \in T[0]
    OBVIOUS
  <2>2. \E h : Loop(h, base, step, n, T)
    <3> HIDE DEF n, step, base
    <3> QED BY <1>1, <1>2, <2>1, LoopExists
  <2> QED BY <2>2
<1>4. h = [k \in 0 .. n |-> h[k]] /\ h[0] = base /\ (\A k \in 0 .. n : h[k] \in T[k])
      /\ \A k \in 1 .. n : h[k] = step[k][h[k - 1]]
  <2> HIDE DEF n, step, base
  <2> QED BY <1>3, Zenon DEF Loop
<1>5. ASSUME NEW k \in 1 .. n PROVE h[k] = Next1(k, h[k - 1])
  <2>1. k - 1 \in 0 .. n
    BY <1>1
  <2>2. h[k - 1] \in T[k - 1] /\ h[k] = step[k][h[k - 1]]
    <3> HIDE DEF n, step
    <3> QED BY <1>4, <2>1
  <2> HIDE DEF Next1
  <2> QED BY <2>2
<1> HIDE DEF Next1
<1>6. Is(h)
  <2>1. \A k \in 0 .. n : h[k] = IF k = 0 THEN Done(s) ELSE Next1(k, h[k - 1])
    <3>1. \A k \in 0 .. n : k # 0 => k \in 1 .. n
      BY <1>1
    <3> HIDE DEF n
    <3> QED BY <1>4, <3>1, <1>5
  <2> HIDE DEF n
  <2>2. [k \in 0 .. n |-> h[k]] = [k \in 0 .. n |-> IF k = 0 THEN Done(s) ELSE Next1(k, h[k - 1])]
    BY <2>1
  <2> QED BY <1>4, <2>2, Zenon
<1>7. PICK g : g = (CHOOSE f : Is(f))
  OBVIOUS
<1>8. Is(g)
  <2> HIDE DEF Is
  <2> QED BY <1>6, <1>7
<1>9. \A k \in 0 .. n : g[k] = h[k]
  <2>1. g[0] = h[0] /\ \A k \in 1 .. n : g[k] = Next1(k, g[k - 1])
    <3> HIDE DEF n
    <3>1. g[0] = Done(s) /\ \A k \in 1 .. n : k \in 0 .. n /\ g[k] = Next1(k, g[k - 1])
      BY <1>1, <1>8
    <3> QED BY <1>4, <3>1
  <2>2. \A k \in 1 .. n : g[k - 1] = h[k - 1] => g[k] = h[k]
    BY <2>1, <1>5
  <2>3. Alike(g, h, n)
    BY <2>1, <2>2 DEF Alike
  <2> HIDE DEF n
  <2> QED BY <1>1, <2>3, LoopUnique
<1>10. AppendAll(s, chunks) = g[n]
  BY <1>7 DEF AppendAll, Next1
<1>11. n \in 0 .. n
  BY <1>1
<1> QED BY <1>4, <1>9, <1>10, <1>11

(* The first k chunks of a list, and one more.                             *)
First(l, k) == [i \in 1 .. k |-> l[i]]

(* The first k chunks are the first k - 1 with the k-th at their end.      *)
LEMMA FirstStep ==
  ASSUME NEW l \in Seq(ChunkSet), NEW k \in 1 .. Len(l)
  PROVE  /\ First(l, k - 1) \in Seq(ChunkSet) /\ Len(First(l, k - 1)) = k - 1
         /\ l[k] \in ChunkSet /\ k \in 1 .. Len(First(l, k - 1)) + 1
         /\ \A j \in 1 .. k - 1 : First(l, k - 1)[j] = l[j]
         /\ First(l, k) \in Seq(ChunkSet) /\ Len(First(l, k)) = k
         /\ InsertAt(First(l, k - 1), k, l[k]) = First(l, k)
<1> DEFINE p == First(l, k - 1)
           q == First(l, k)
<1>1. k \in Nat /\ k - 1 \in Nat /\ \A j \in 1 .. k : l[j] \in ChunkSet
  OBVIOUS
<1>2. p \in [1 .. k - 1 -> ChunkSet] /\ \A j \in 1 .. k - 1 : p[j] = l[j]
  BY <1>1 DEF First
<1>3. q \in [1 .. k -> ChunkSet] /\ \A j \in 1 .. k : q[j] = l[j]
  BY <1>1 DEF First
<1> HIDE DEF p, q
<1>4. p \in Seq(ChunkSet) /\ Len(p) = k - 1
  BY <1>1, <1>2, ListIs
<1>5. q \in Seq(ChunkSet) /\ Len(q) = k
  BY <1>1, <1>3, ListIs
<1>6. k \in 1 .. Len(p) + 1 /\ l[k] \in ChunkSet
  BY <1>1, <1>4
<1> DEFINE c == l[k]
           g == InsertAt(p, k, c)
<1>7. g \in Seq(ChunkSet) /\ Inserts(g, p, k, c)
  <2> HIDE DEF c
  <2> QED BY <1>4, <1>6, InsertsAt, Zenon DEF c
<1> HIDE DEF g
<1>8. Len(g) = k /\ \A j \in 1 .. k : g[j] = q[j]
  <2>1. Len(g) = k /\ \A j \in 1 .. k : g[j] = IF j < k THEN p[j] ELSE IF j = k THEN c ELSE p[j - 1]
    BY <1>1, <1>4, <1>7 DEF Inserts
  <2> QED BY <1>1, <1>2, <1>3, <2>1
<1>9. g = q
  <2>1. DOMAIN g = 1 .. k /\ DOMAIN q = 1 .. k
    BY <1>3, <1>7, <1>8
  <2>2. g = [j \in 1 .. k |-> g[j]] /\ q = [j \in 1 .. k |-> q[j]]
    BY <1>3, <1>7, <1>8
  <2> QED BY <1>8, <2>2
<1> QED BY <1>2, <1>4, <1>5, <1>6, <1>9 DEF p, q, g, c

(* A call that succeeds and leaves a super-chunk that holds the list.      *)
Gives(r, where, m) ==
  r = Done(r.st) /\ r.st \in StoreSet /\ m \in Seq(ChunkSet) /\ Holds(r.st, m) /\ r.st.where = where

Holders(m, where) == {u \in StoreSet : Holds(u, m) /\ u.where = where}

(* The whole list is its first chunks, all of them.                        *)
LEMMA FirstAll ==
  ASSUME NEW l \in Seq(ChunkSet)
  PROVE  First(l, Len(l)) = l
BY DEF First

(* An empty super-chunk in memory takes any chunks, or refuses the first.  *)
LEMMA AppendsInMemory ==
  ASSUME NEW s \in StoreSet, NEW chunks \in Seq(ChunkSet), ~InFrame(s), Holds(s, First(chunks, 0))
  PROVE  AppendAll(s, chunks) = Refuse(s) \/ Gives(AppendAll(s, chunks), s.where, chunks)
<1> DEFINE n == Len(chunks)
           After(k) == {Done(u) : u \in Holders(First(chunks, k), s.where)} \cup {Refuse(s)}
           T == [k \in 0 .. n |-> IF k = 0 THEN {Done(s)} ELSE After(k)]
<1>1. n \in Nat
  OBVIOUS
<1>2. Done(s) \in T[0]
  BY <1>1
<1>3. ASSUME NEW k \in 1 .. n, NEW r \in T[k - 1]
      PROVE  (IF r.ok THEN AppendChunk(r.st, chunks[k]) ELSE r) \in T[k]
  <2> DEFINE p == First(chunks, k - 1)
             q == First(chunks, k)
             c == chunks[k]
  <2>1. k - 1 \in 0 .. n /\ k \in 0 .. n /\ k # 0
    BY <1>1
  <2>2. /\ p \in Seq(ChunkSet) /\ Len(p) = k - 1 /\ c \in ChunkSet /\ k \in 1 .. Len(p) + 1 /\ k = Len(p) + 1
        /\ InsertAt(p, k, c) = q
    <3>1. /\ p \in Seq(ChunkSet) /\ Len(p) = k - 1 /\ c \in ChunkSet /\ k \in 1 .. Len(p) + 1
          /\ InsertAt(p, k, c) = q
      BY FirstStep
    <3> HIDE DEF p, q, c
    <3> QED BY <3>1
  <2>3. T[k] = After(k)
    BY <2>1
  <2>4. \/ r = Done(s) /\ k = 1
        \/ k # 1 /\ r \in After(k - 1)
    BY <2>1
  <2>5. CASE r = Refuse(s)
    <3> HIDE DEF T, n
    <3> QED BY <2>3, <2>5 DEF Refuse
  <2>6. ASSUME NEW u \in StoreSet, Holds(u, p), u.where = s.where, r = Done(u), k = 1 => u = s
        PROVE  r.ok /\ AppendChunk(r.st, c) \in After(k)
    <3> HIDE DEF T, p, q, c
    <3> DEFINE size == NewChunksize(u, c, Uneven(u, k, c))
               a == AppendChunk(u, c)
    <3>1. r.ok /\ r.st = u
      BY <2>6 DEF Done
    <3>2. ~InFrame(u) /\ ~Short(u, p, c)
      BY <2>6 DEF InFrame, Short
    <3>3. (a = Refuse(u) /\ Len(p) = 0) \/ Accepts(a, u, q, size)
      <4> DEFINE big == size > 0 /\ c.nbytes > size
                 m == InsertAt(p, k, c)
      <4>1. m \in Seq(ChunkSet) /\ Inserts(m, p, k, c)
        BY <2>2, InsertsAt, Zenon
      <4>2. Len(p) # 0 => ~big
        <5> HIDE DEF m
        <5> QED BY <2>2, <2>6, <4>1, AddedEven
      <4>3. (big => a = Refuse(u)) /\ (~big => Accepts(a, u, m, size))
        BY <2>2, <2>6, <3>2, Adds
      <4> HIDE DEF m, big, size, a
      <4> QED BY <2>2, <4>2, <4>3 DEF m
    <3> HIDE DEF a, size
    <3>4. CASE a = Refuse(u) /\ Len(p) = 0
      <4>1. k = 1 /\ u = s
        BY <2>2, <2>6, <3>4
      <4> QED BY <3>1, <3>4, <4>1 DEF a
    <3>5. CASE Accepts(a, u, q, size)
      <4>1. a = Done(a.st) /\ Takes(a.st, q) /\ a.st.where = s.where
        BY <2>6, <3>5 DEF Accepts
      <4>2. a.st \in Holders(q, s.where)
        BY <3>2, <4>1 DEF Takes, Holders, InFrame
      <4>3. a \in After(k)
        BY <4>1, <4>2 DEF q
      <4> QED BY <3>1, <4>3 DEF a
    <3> QED BY <3>3, <3>4, <3>5
  <2>7. CASE r = Done(s) /\ k = 1
    <3>1. Holds(s, p)
      BY <2>7
    <3>2. r.ok /\ AppendChunk(r.st, c) \in After(k)
      BY <2>6, <2>7, <3>1
    <3> QED BY <2>3, <3>2
  <2>8. CASE k # 1 /\ r \in After(k - 1) /\ r # Refuse(s)
    <3>1. PICK u \in Holders(p, s.where) : r = Done(u)
      BY <2>8
    <3>2. r.ok /\ AppendChunk(r.st, c) \in After(k)
      BY <2>6, <2>8, <3>1 DEF Holders
    <3> QED BY <2>3, <3>2
  <2> HIDE DEF T
  <2> QED BY <2>4, <2>5, <2>7, <2>8
<1>4. AppendAll(s, chunks) \in T[n]
  <2> HIDE DEF T
  <2> QED BY <1>2, <1>3, AppendSteps DEF n
<1>5. n \in 0 .. n
  BY <1>1
<1>6. CASE n = 0
  <2>1. AppendAll(s, chunks) = Done(s)
    BY <1>4, <1>5, <1>6
  <2>2. chunks = First(chunks, 0)
    BY <1>6, FirstAll
  <2> QED BY <2>1, <2>2 DEF Gives, Done
<1>7. CASE n # 0
  <2>1. AppendAll(s, chunks) \in After(n)
    BY <1>4, <1>5, <1>7
  <2>2. First(chunks, n) = chunks
    BY FirstAll
  <2>3. ASSUME NEW u \in Holders(chunks, s.where), AppendAll(s, chunks) = Done(u)
        PROVE  Gives(AppendAll(s, chunks), s.where, chunks)
    BY <2>3 DEF Gives, Holders, Done
  <2> QED BY <2>1, <2>2, <2>3
<1> QED BY <1>6, <1>7

(* A chunk that fits behind a list of full chunks leaves the chunk size,   *)
(* and is not the second short one.                                        *)
LEMMA AppendsFitting ==
  ASSUME NEW u \in StoreSet, NEW p \in Seq(ChunkSet), Holds(u, p), NEW c \in ChunkSet,
         u.chunksize # -1, u.chunksize > 0 => c.nbytes <= u.chunksize,
         u.chunksize > 0 => \A j \in 1 .. Len(p) : p[j].nbytes = u.chunksize
  PROVE  Accepts(AppendChunk(u, c), u, InsertAt(p, Len(p) + 1, c), u.chunksize)
<1> DEFINE n == Len(p)
           size == u.chunksize
           k == n + 1
<1>1. /\ n \in Nat /\ k \in 1 .. n + 1 /\ size \in Nat /\ u.nchunks = n /\ c.nbytes \in Nat /\ c.nbytes > 0
      /\ u.nbytes = Sum(Bytes(p)) /\ Even(p, size)
  BY StoreFields, ChunkFacts, SMTT(30) DEF Holds, Counts
<1>2. n # 0 => n \in 1 .. n /\ GetChunk(u, n) = p[n]
  <2>1. n # 0 => n \in 1 .. n
    BY <1>1
  <2> QED BY <2>1, Reads
<1>3. ~Uneven(u, k, c)
  <2>1. size > 0 /\ n # 0 => p[n].nbytes = size
    BY <1>2
  <2> HIDE DEF n
  <2> QED BY <1>1, <1>2, <2>1 DEF Uneven
<1>4. NewChunksize(u, c, Uneven(u, k, c)) = size
  BY <1>1, <1>3 DEF NewChunksize
<1>5. ~(size > 0 /\ c.nbytes > size)
  BY <1>1
<1>6. ~Short(u, p, c)
  <2> SUFFICES ASSUME n # 0, u.nbytes < size, c.nbytes < size PROVE FALSE
    BY DEF Short
  <2>1. size \in Nat \ {0}
    BY <1>1
  <2>2. u.nbytes = (n - 1) * size + p[n].nbytes /\ p[n].nbytes = size
    BY <1>1, <1>2, <2>1, EvenSum
  <2>3. (n - 1) * size >= 0 /\ (n - 1) * size \in Int
    BY <1>1, <2>1
  <2> HIDE DEF n, size
  <2> QED BY <1>1, <2>2, <2>3
<1> HIDE DEF n, size
<1>7. k = n + 1 /\ k \in 1 .. n + 1
  BY <1>1
<1> HIDE DEF k
<1>8. Accepts(AppendChunk(u, c), u, InsertAt(p, k, c), NewChunksize(u, c, Uneven(u, k, c)))
  BY <1>4, <1>5, <1>6, <1>7, Adds DEF n
<1> QED BY <1>4, <1>8 DEF k, n, size

(* An empty super-chunk takes chunks that are even for its chunk size.     *)
LEMMA AppendsEven ==
  ASSUME NEW s \in StoreSet, NEW chunks \in Seq(ChunkSet), Holds(s, First(chunks, 0)),
         Even(chunks, s.chunksize), Len(chunks) # 0 => s.chunksize # -1,
         InFrame(s) => Plain(chunks, s.chunksize)
  PROVE  Gives(AppendAll(s, chunks), s.where, chunks)
<1> DEFINE n == Len(chunks)
           size == s.chunksize
           After(k) == {Done(u) : u \in {v \in Holders(First(chunks, k), s.where) : v.chunksize = size}}
           T == [k \in 0 .. n |-> After(k)]
<1>1. n \in Nat /\ size \in Nat \cup {-1} /\ \A k \in 1 .. n : chunks[k].nbytes \in Nat
  BY StoreFields, ChunkFacts
<1>2. Done(s) \in T[0]
  BY <1>1 DEF Holders
<1>3. ASSUME NEW k \in 1 .. n, NEW r \in T[k - 1]
      PROVE  (IF r.ok THEN AppendChunk(r.st, chunks[k]) ELSE r) \in T[k]
  <2> DEFINE p == First(chunks, k - 1)
             q == First(chunks, k)
             c == chunks[k]
  <2>1. k - 1 \in 0 .. n /\ k \in 0 .. n /\ n # 0 /\ k \in Nat
    BY <1>1
  <2>2. /\ p \in Seq(ChunkSet) /\ Len(p) = k - 1 /\ c \in ChunkSet /\ k = Len(p) + 1
        /\ InsertAt(p, k, c) = q /\ q \in Seq(ChunkSet) /\ Len(q) = k /\ \A j \in 1 .. k - 1 : p[j] = chunks[j]
    <3>1. /\ p \in Seq(ChunkSet) /\ Len(p) = k - 1 /\ c \in ChunkSet
          /\ InsertAt(p, k, c) = q /\ q \in Seq(ChunkSet) /\ Len(q) = k
          /\ \A j \in 1 .. k - 1 : p[j] = chunks[j]
      BY FirstStep
    <3> HIDE DEF p, q, c
    <3> QED BY <2>1, <3>1
  <2>3. T[k] = After(k) /\ r \in After(k - 1)
    BY <2>1
  <2>4. PICK u \in StoreSet : r = Done(u) /\ Holds(u, p) /\ u.where = s.where /\ u.chunksize = size
    BY <2>3 DEF Holders
  <2> DEFINE a == AppendChunk(u, c)
  <2>5. r.ok /\ r.st = u
    BY <2>4 DEF Done
  <2>6. Accepts(a, u, q, size)
    <3>1. size # -1
      BY <2>1
    <3>2. size > 0 => c.nbytes <= size /\ \A j \in 1 .. k - 1 : chunks[j].nbytes = size
      <4>1. size > 0 => \A j \in 1 .. n : IF j = n THEN chunks[j].nbytes <= size ELSE chunks[j].nbytes = size
        BY DEF Even
      <4>2. \A j \in 1 .. k - 1 : j \in 1 .. n /\ j # n
        BY <1>1
      <4> QED BY <1>1, <4>1, <4>2, SMTT(30)
    <3> HIDE DEF size, p, q, c, n, a
    <3>3. Accepts(AppendChunk(u, c), u, InsertAt(p, Len(p) + 1, c), u.chunksize)
      BY <2>2, <2>4, <3>1, <3>2, AppendsFitting, SMTT(30)
    <3> QED BY <2>2, <2>4, <3>3 DEF a
  <2>7. InFrame(u) => Plain(q, size)
    <3>1. \A j \in 1 .. k : q[j] = chunks[j] /\ j \in 1 .. n
      BY <1>1 DEF First
    <3>2. InFrame(u) => InFrame(s)
      BY <2>4 DEF InFrame
    <3>3. ASSUME InFrame(u), size = 0 PROVE \A j \in 1 .. k : ~IsSpecial(q[j])
      BY <3>1, <3>2, <3>3 DEF Plain
    <3> HIDE DEF q, size
    <3> QED BY <2>2, <3>3 DEF Plain
  <2> HIDE DEF T, p, q, c, size, a
  <2>8. a = Done(a.st) /\ Takes(a.st, q) /\ a.st.where = s.where /\ a.st.chunksize = size
    BY <2>4, <2>6 DEF Accepts
  <2>9. InFrame(a.st) => InFrame(u)
    BY <2>4, <2>8 DEF InFrame
  <2>10. a.st \in Holders(q, s.where)
    BY <2>7, <2>8, <2>9 DEF Takes, Holders
  <2>11. a \in After(k)
    BY <2>8, <2>10 DEF q
  <2> QED BY <2>3, <2>5, <2>11 DEF a, c
<1>4. AppendAll(s, chunks) \in T[n]
  <2> HIDE DEF T
  <2> QED BY <1>2, <1>3, AppendSteps DEF n
<1>5. n \in 0 .. n
  BY <1>1
<1>6. AppendAll(s, chunks) \in After(n)
  BY <1>4, <1>5
<1>7. First(chunks, n) = chunks
  BY FirstAll
<1>8. ASSUME NEW u \in Holders(chunks, s.where), AppendAll(s, chunks) = Done(u)
      PROVE  Gives(AppendAll(s, chunks), s.where, chunks)
  BY <1>8 DEF Gives, Holders, Done
<1> QED BY <1>6, <1>7, <1>8

-----------------------------------------------------------------------------
(***************************************************************************)
(* Filling, copying, opening and loading.                                  *)
(***************************************************************************)

(* A list with no chunks in it.                                            *)
LEMMA EmptyList ==
  /\ <<>> \in Seq(ChunkSet) /\ Len(<<>>) = 0
  /\ Sum(Bytes(<<>>)) = 0 /\ Sum(StoredIn(<<>>)) = 0
  /\ \A l \in Seq(ChunkSet) : (Len(l) = 0 => l = <<>>) /\ First(l, 0) = <<>>
<1>1. <<>> \in Seq(ChunkSet) /\ Len(<<>>) = 0
  OBVIOUS
<1>2. Sum(Bytes(<<>>)) = 0 /\ Sum(StoredIn(<<>>)) = 0
  BY <1>1, NonEmptySum
<1>3. \A l \in Seq(ChunkSet) : (Len(l) = 0 => l = <<>>) /\ First(l, 0) = <<>>
  BY DEF First
<1> QED BY <1>1, <1>2, <1>3

(* A new super-chunk, as blosc2_schunk_new makes it, holds nothing.        *)
LEMMA NewHolds ==
  ASSUME NEW where \in {"memory", "cframe", "file", "sframe"}, NEW size \in Nat \cup {-1}
  PROVE  /\ New(where, size) \in StoreSet /\ Holds(New(where, size), <<>>)
         /\ New(where, size).where = where /\ New(where, size).chunksize = size
<1> DEFINE s == New(where, size)
           none == <<>>
           head == [nbytes |-> 0, cbytes |-> 0, chunksize |-> -1]
<1>1. head \in HeadSet /\ head.nbytes = 0 /\ head.cbytes = 0 /\ head.chunksize = -1
  BY DEF HeadSet
<1>2. none \in FileSet /\ DOMAIN none = {}
  <2>1. DOMAIN none = {}
    OBVIOUS
  <2>2. none \in [{} -> ChunkSet \cup {EmptyFile}]
    BY <2>1
  <2>3. {} \in SUBSET Nat
    OBVIOUS
  <2>4. [{} -> ChunkSet \cup {EmptyFile}] \in {[ids -> ChunkSet \cup {EmptyFile}] : ids \in SUBSET Nat}
    BY <2>3, Zenon
  <2> HIDE DEF none
  <2> QED BY <2>1, <2>2, <2>4, Zenon DEF FileSet
<1>3. none \in Seq(ChunkSet) /\ none \in Seq(Int) /\ none \in Seq(CellSet) /\ Len(none) = 0
  OBVIOUS
<1>4. s = [where |-> where, nchunks |-> 0, nbytes |-> 0, cbytes |-> 0, chunksize |-> size,
           data |-> none, room |-> 0, head |-> head, at |-> NoIndex,
           offs |-> none, payload |-> none, files |-> none]
  BY DEF New
<1>5. NoIndex \in Int
  BY DEF NoIndex
<1> HIDE DEF head, none
<1>6. /\ s \in StoreSet /\ s.where = where /\ s.nchunks = 0 /\ s.nbytes = 0 /\ s.cbytes = 0
      /\ s.chunksize = size /\ s.data = none /\ s.head = head /\ s.at = NoIndex
      /\ s.offs = none /\ s.payload = none /\ s.files = none
  <2> HIDE DEF s
  <2> QED BY <1>1, <1>2, <1>3, <1>4, <1>5 DEF StoreSet
<1> HIDE DEF s
<1>7. Sum(Bytes(none)) = 0 /\ Sum(StoredIn(none)) = 0
  BY EmptyList DEF none
<1>8. \A x \in Nat \cup {-1} : Even(none, x) /\ Plain(none, x)
  BY <1>3 DEF Even, Plain
<1>9. Counts(s, none)
  BY <1>3, <1>6, <1>7, <1>8 DEF Counts
<1>10. InStep(s)
  BY <1>1, <1>6 DEF InStep
<1>11. Index(none, none) /\ Laid(none, none, none) /\ Filed(none, none, none)
  BY <1>2, <1>3 DEF Index, Laid, Filed
<1>12. Stores(s, none, 0)
  BY <1>3, <1>6, <1>7, <1>11 DEF Stores
<1>13. Placed(s, none)
  BY <1>1, <1>3, <1>6, <1>7, <1>8, <1>12 DEF Placed
<1>14. Holds(s, none)
  BY <1>6, <1>9, <1>10, <1>13 DEF Holds, none
<1> QED BY <1>6, <1>14 DEF s, none

(* The chunks a copy is made of: those of the list, compressed again when  *)
(* the parameters differ.                                                  *)
CopyOf(l, size, cb) == [i \in 1 .. Len(l) |-> IF cb = 0 THEN l[i] ELSE Recompressed(l[i], size, cb)]

(* A copy has the contents of the list, and its special chunks in the same *)
(* places.                                                                 *)
LEMMA CopiesChunks ==
  ASSUME NEW l \in Seq(ChunkSet), NEW size, NEW cb \in {Stored(c) : c \in Chunks},
         cb > 0 => \A i \in 1 .. Len(l) : l[i].nbytes = size
  PROVE  /\ CopyOf(l, size, cb) \in Seq(ChunkSet) /\ Len(CopyOf(l, size, cb)) = Len(l)
         /\ \A i \in 1 .. Len(l) : LET c == CopyOf(l, size, cb)[i] IN
              Content(c) = Content(l[i]) /\ (IsSpecial(c) <=> IsSpecial(l[i]))
<1> DEFINE m == CopyOf(l, size, cb)
<1>1. Len(l) \in Nat
  OBVIOUS
<1>2. cb \in Nat /\ (cb # 0 => cb > Overhead) /\ Overhead \in Nat
  <2>1. PICK c \in Chunks : cb = Stored(c)
    OBVIOUS
  <2>2. /\ IF IsSpecial(c) THEN c.cbytes = Overhead ELSE c.cbytes > Overhead
        /\ c.cbytes \in Nat /\ Overhead \in Nat
    BY StoreAssumption DEF StoreAssumption
  <2> QED BY <2>1, <2>2 DEF Stored
<1>3. ASSUME NEW i \in 1 .. Len(l)
      PROVE  m[i] \in ChunkSet /\ Content(m[i]) = Content(l[i]) /\ (IsSpecial(m[i]) <=> IsSpecial(l[i]))
  <2> DEFINE c == l[i]
  <2>1. c \in ChunkSet /\ c.nbytes \in Nat
    BY ChunkFacts
  <2>2. m[i] = IF cb = 0 THEN c ELSE Recompressed(c, size, cb)
    BY DEF CopyOf
  <2>3. cb # 0 => c.nbytes = size
    BY <1>2
  <2> HIDE DEF c, m
  <2>4. CASE cb = 0 \/ IsSpecial(c)
    <3>1. m[i] = c
      BY <2>1, <2>2, <2>3, <2>4 DEF Recompressed
    <3> QED BY <2>1, <3>1 DEF c
  <2>5. CASE cb # 0 /\ ~IsSpecial(c)
    <3>1. m[i] = [c EXCEPT !.cbytes = cb]
      BY <2>1, <2>2, <2>3, <2>5 DEF Recompressed
    <3>2. c \in [data : {d.data : d \in Chunks} \cup DOMAIN SpecialCode, nbytes : Nat \ {0}, cbytes : Nat]
      BY <2>1 DEF ChunkSet
    <3>3. /\ m[i] \in [data : {d.data : d \in Chunks} \cup DOMAIN SpecialCode, nbytes : Nat \ {0}, cbytes : Nat]
          /\ m[i].data = c.data /\ m[i].nbytes = c.nbytes /\ m[i].cbytes = cb
      BY <1>2, <3>1, <3>2
    <3>4. ~IsSpecial(m[i])
      BY <2>5, <3>3 DEF IsSpecial
    <3>5. m[i] \in ChunkSet
      BY <1>2, <2>5, <3>3, <3>4 DEF ChunkSet
    <3>6. Content(m[i]) = Content(c)
      BY <3>3 DEF Content
    <3> QED BY <2>5, <3>4, <3>5, <3>6 DEF c
  <2> QED BY <2>4, <2>5
<1>4. m \in [1 .. Len(l) -> ChunkSet]
  <2>1. m = [i \in 1 .. Len(l) |-> m[i]]
    BY DEF CopyOf
  <2> HIDE DEF m
  <2> QED BY <1>3, <2>1
<1> HIDE DEF m
<1>5. m \in Seq(ChunkSet) /\ Len(m) = Len(l)
  BY <1>1, <1>4, ListIs
<1> QED BY <1>3, <1>5 DEF m

(* blosc2_schunk_copy makes a super-chunk that holds a copy of each chunk. *)
LEMMA Copies ==
  ASSUME NEW s \in StoreSet, NEW l \in Seq(ChunkSet), Holds(s, l),
         NEW where \in {"memory", "cframe", "file", "sframe"}, NEW cb \in {Stored(c) : c \in Chunks},
         cb > 0 => \A i \in 1 .. Len(l) : l[i].nbytes = s.chunksize,
         where # "memory" => Plain(l, s.chunksize)
  PROVE  Gives(CopySchunk(s, where, cb), where, CopyOf(l, s.chunksize, cb))
<1> DEFINE n == Len(l)
           size == s.chunksize
           m == CopyOf(l, size, cb)
           olds == [i \in 1 .. s.nchunks |-> GetChunk(s, i)]
           news == [i \in DOMAIN olds |-> IF cb = 0 THEN olds[i] ELSE Recompressed(olds[i], size, cb)]
           t == New(where, size)
           r == AppendAll(t, m)
<1>1. /\ n \in Nat /\ s.nchunks = n /\ size \in Nat \cup {-1} /\ Even(l, size) /\ (size = -1 => n = 0)
      /\ \A i \in 1 .. n : GetChunk(s, i) = l[i] /\ l[i] # Unreadable
  BY Reads, StoreFields DEF Holds, Counts
<1>2. /\ m \in Seq(ChunkSet) /\ Len(m) = n
      /\ \A i \in 1 .. n : Content(m[i]) = Content(l[i]) /\ (IsSpecial(m[i]) <=> IsSpecial(l[i]))
  BY CopiesChunks
<1>3. \A i \in 1 .. n : m[i].nbytes = l[i].nbytes
  BY <1>2 DEF Content
<1>4. DOMAIN olds = 1 .. n /\ \A i \in 1 .. n : olds[i] = l[i]
  BY <1>1
<1>5. news = m
  <2> HIDE DEF olds, size
  <2>1. news = [i \in 1 .. n |-> IF cb = 0 THEN l[i] ELSE Recompressed(l[i], size, cb)]
    BY <1>4
  <2> QED BY <2>1 DEF CopyOf
<1>6. CopySchunk(s, where, cb) =
        IF \/ Unreadable \in Range(olds)
           \/ cb > 0 /\ \E c \in Range(olds) : c.nbytes > size
           \/ ~AppendAll(t, news).ok
        THEN Refuse(s) ELSE AppendAll(t, news)
  BY DEF CopySchunk
<1>7. /\ t \in StoreSet /\ Holds(t, <<>>) /\ t.where = where /\ t.chunksize = size
  BY <1>1, NewHolds
<1>8. Even(m, size)
  <2> HIDE DEF m, size, n
  <2> QED BY <1>1, <1>2, <1>3 DEF Even, n
<1>9. InFrame(t) => Plain(m, size)
  <2>1. InFrame(t) => Plain(l, size)
    BY <1>7 DEF InFrame
  <2> HIDE DEF m, size, t
  <2> QED BY <1>2, <2>1 DEF Plain
<1>10. Gives(r, where, m)
  <2>1. Holds(t, First(m, 0))
    BY <1>2, <1>7, EmptyList
  <2>2. Gives(r, t.where, m)
    <3> HIDE DEF t, m, size, n
    <3> QED BY <1>1, <1>2, <1>7, <1>8, <1>9, <2>1, AppendsEven DEF r
  <2> QED BY <1>7, <2>2
<1>11. Unreadable \notin Range(olds) /\ ~(cb > 0 /\ \E c \in Range(olds) : c.nbytes > size)
  <2>1. Range(olds) = {l[i] : i \in 1 .. n}
    <3> HIDE DEF olds
    <3> QED BY <1>4 DEF Range
  <2>2. cb > 0 => \A i \in 1 .. n : ~ l[i].nbytes > size
    <3>1. \A i \in 1 .. n : l[i].nbytes \in Nat
      BY ChunkFacts
    <3> QED BY <3>1
  <2> HIDE DEF olds, size
  <2> QED BY <1>1, <2>1, <2>2
<1>12. r.ok
  BY <1>10 DEF Gives, Done
<1> HIDE DEF olds, news, m, size, t
<1> QED BY <1>5, <1>6, <1>10, <1>11, <1>12 DEF m, size

(* The chunks fill_special makes: n of them, all full but the last.        *)
FillOf(f) ==
  [i \in DOMAIN FillContents(f) |->
     [data |-> f.data, nbytes |-> FillContents(f)[i].nbytes, cbytes |-> Overhead]]

(* fill_special divides t bytes into n chunks, each full but the last, which *)
(* is not empty (schunk.c: nchunks rounded up, the leftover when there is  *)
(* one).                                                                   *)
LEMMA FillSizes ==
  ASSUME NEW t \in Nat \ {0}, NEW size \in Nat \ {0}
  PROVE  \E n \in Nat \ {0}, last \in 1 .. size :
           /\ (t + size - 1) \div size = n /\ t = (n - 1) * size + last
           /\ \A i \in 1 .. n : (IF i * size <= t THEN size ELSE t % size) = IF i = n THEN last ELSE size
<1> DEFINE n == (t + size - 1) \div size
           last == t - (n - 1) * size
<1>1. n \in Nat /\ n * size <= t + size - 1 /\ t + size - 1 < (n + 1) * size
  <2>1. t + size - 1 \in Nat
    OBVIOUS
  <2> QED BY <2>1
<1> HIDE DEF n
<1>2. (n + 1) * size = n * size + size /\ n * size \in Nat /\ (n - 1) * size = n * size - size
  BY <1>1
<1>3. last \in 1 .. size /\ t = (n - 1) * size + last
  BY <1>1, <1>2
<1>4. n # 0
  <2> SUFFICES ASSUME n = 0 PROVE FALSE
    OBVIOUS
  <2>1. n * size = 0
    OBVIOUS
  <2> QED BY <1>1, <1>2, <2>1
<1> HIDE DEF last
<1>5. t % size = IF last < size THEN last ELSE 0
  <2>1. n \in Nat \ {0} /\ t \in Nat
    BY <1>1, <1>4
  <2> QED BY <1>3, <2>1, LastChunk, ZenonT(30)
<1>6. ASSUME NEW i \in 1 .. n
      PROVE  (IF i * size <= t THEN size ELSE t % size) = IF i = n THEN last ELSE size
  <2>1. CASE i = n
    <3>1. i * size = n * size
      BY <2>1
    <3> QED BY <1>1, <1>2, <1>3, <1>5, <2>1, <3>1
  <2>2. CASE i # n
    <3>1. i <= n - 1 /\ i \in Nat /\ n - 1 \in Nat
      BY <1>1, <2>2
    <3>2. i * size <= (n - 1) * size
      BY <3>1
    <3>3. i * size \in Nat
      BY <3>1
    <3> QED BY <1>2, <1>3, <2>2, <3>2, <3>3
  <2> QED BY <2>1, <2>2
<1>7. (t + size - 1) \div size = n /\ n \in Nat \ {0}
  BY <1>1, <1>4 DEF n
<1>8. n \in Nat \ {0} /\ last \in 1 .. size
  BY <1>3, <1>7
<1> USE <1>8
<1> WITNESS n \in Nat \ {0}, last \in 1 .. size
<1> QED BY <1>3, <1>6, <1>7

(* They are chunks, even for the size they are made with, and add up.      *)
LEMMA FillList ==
  ASSUME NEW f \in Fills
  PROVE  /\ FillOf(f) \in Seq(ChunkSet) /\ FillContents(f) = [i \in 1 .. Len(FillOf(f)) |-> Content(FillOf(f)[i])]
         /\ DOMAIN FillContents(f) = 1 .. Len(FillOf(f)) /\ Len(FillContents(f)) = Len(FillOf(f))
         /\ \A i \in 1 .. Len(FillOf(f)) : IsSpecial(FillOf(f)[i]) /\ FillOf(f)[i].data = f.data
                                           /\ FillContents(f)[i].data = f.data
         /\ Even(FillOf(f), f.chunksize) /\ Sum(Bytes(FillOf(f))) = f.total
         /\ Sum(StoredIn(FillOf(f))) = 0 /\ f.chunksize \in Nat \ {0} /\ f.total \in Nat
<1> DEFINE t == f.total
           size == f.chunksize
           m == FillOf(f)
<1>1. t \in Nat \ {0} /\ size \in Nat \ {0} /\ f.data \in DOMAIN SpecialCode
  BY StoreAssumption DEF StoreAssumption
<1>2. PICK n \in Nat \ {0}, last \in 1 .. size :
           /\ (t + size - 1) \div size = n /\ t = (n - 1) * size + last
           /\ \A i \in 1 .. n : (IF i * size <= t THEN size ELSE t % size) = IF i = n THEN last ELSE size
  <2> HIDE DEF t, size
  <2> QED BY <1>1, FillSizes
<1>3. FillContents(f) = [i \in 1 .. n |-> [data |-> f.data,
                                            nbytes |-> IF i * size <= t THEN size ELSE t % size]]
  BY <1>2 DEF FillContents
<1> HIDE DEF t, size
<1>4. /\ FillContents(f) = [i \in 1 .. n |-> [data |-> f.data, nbytes |-> IF i = n THEN last ELSE size]]
      /\ DOMAIN FillContents(f) = 1 .. n
  BY <1>2, <1>3
<1>5. m = [i \in 1 .. n |-> [data |-> f.data, nbytes |-> IF i = n THEN last ELSE size, cbytes |-> Overhead]]
  <2>1. m = [i \in 1 .. n |-> [data |-> f.data, nbytes |-> FillContents(f)[i].nbytes, cbytes |-> Overhead]]
    BY <1>4 DEF FillOf
  <2>2. \A i \in 1 .. n : FillContents(f)[i].nbytes = IF i = n THEN last ELSE size
    BY <1>4
  <2> HIDE DEF m
  <2> QED BY <2>1, <2>2
<1>6. Overhead \in Nat
  BY StoreAssumption DEF StoreAssumption
<1>7. ASSUME NEW i \in 1 .. n
      PROVE  /\ m[i] \in ChunkSet /\ IsSpecial(m[i]) /\ m[i].nbytes = IF i = n THEN last ELSE size
             /\ m[i].data = f.data
             /\ Content(m[i]) = [data |-> f.data, nbytes |-> IF i = n THEN last ELSE size]
  <2> DEFINE x == IF i = n THEN last ELSE size
  <2>1. m[i] = [data |-> f.data, nbytes |-> x, cbytes |-> Overhead]
    BY <1>5
  <2>2. x \in Nat \ {0}
    BY <1>1, <1>2
  <2> HIDE DEF m, x
  <2>3. m[i].data = f.data /\ m[i].nbytes = x /\ m[i].cbytes = Overhead
    BY <2>1
  <2>4. IsSpecial(m[i])
    BY <1>1, <2>3 DEF IsSpecial
  <2>5. m[i] \in [data : {d.data : d \in Chunks} \cup DOMAIN SpecialCode, nbytes : Nat \ {0}, cbytes : Nat]
    BY <1>1, <1>6, <2>1, <2>2
  <2>6. m[i] \in ChunkSet
    BY <2>3, <2>4, <2>5 DEF ChunkSet
  <2> QED BY <2>3, <2>4, <2>6 DEF x, Content
<1>8. m \in Seq(ChunkSet) /\ Len(m) = n
  <2>1. m = [i \in 1 .. n |-> m[i]]
    BY <1>5
  <2> HIDE DEF m
  <2>2. m \in [1 .. n -> ChunkSet]
    BY <1>7, <2>1
  <2> QED BY <1>2, <2>2, ListIs
<1> HIDE DEF m
<1>9. Even(m, size)
  BY <1>2, <1>7, <1>8 DEF Even
<1>10. Sum(Bytes(m)) = t
  <2>1. Sum(Bytes(m)) = (Len(m) - 1) * size + m[Len(m)].nbytes
    BY <1>1, <1>2, <1>8, <1>9, EvenSum
  <2>2. m[n].nbytes = last
    <3>1. n \in 1 .. n
      BY <1>2
    <3>2. \A i \in 1 .. n : m[i].nbytes = IF i = n THEN last ELSE size
      BY <1>7, Zenon
    <3> QED BY <3>1, <3>2
  <2>3. Sum(Bytes(m)) = (n - 1) * size + last
    BY <1>8, <2>1, <2>2
  <2> QED BY <1>2, <2>3
<1>11. Sum(StoredIn(m)) = 0
  <2> DEFINE g == [k \in 0 .. n |-> 0]
  <2>1. \A k \in 1 .. n : StoredIn(m)[k] = 0
    BY <1>7, <1>8 DEF StoredIn, Stored
  <2>2. StoredIn(m) \in Seq(Nat) /\ Len(StoredIn(m)) = n
    BY <1>8, SizesOf
  <2>3. Sums(g, StoredIn(m))
    BY <1>2, <2>1, <2>2 DEF Sums
  <2>4. g[n] = 0
    BY <1>2
  <2> HIDE DEF g
  <2> QED BY <2>2, <2>3, <2>4, SumIs
<1>12. FillContents(f) = [i \in 1 .. n |-> Content(m[i])]
  <2> HIDE DEF t
  <2> QED BY <1>4, <1>7
<1>13. \A i \in 1 .. n : FillContents(f)[i].data = f.data
  BY <1>4
<1>14. Len(FillContents(f)) = n
  <2> DEFINE g == FillContents(f)
             S == {g[i] : i \in 1 .. n}
  <2>4. g = [i \in 1 .. n |-> [data |-> f.data, nbytes |-> IF i = n THEN last ELSE size]]
    BY <1>4
  <2> HIDE DEF g
  <2>1. g = [i \in 1 .. n |-> g[i]]
    BY <2>4
  <2>2. g \in [1 .. n -> S]
    BY <2>1
  <2> HIDE DEF S
  <2>3. Len(g) = n
    BY <1>2, <2>2, ListIs
  <2> QED BY <2>3 DEF g
<1> QED BY <1>1, <1>4, <1>7, <1>8, <1>9, <1>10, <1>11, <1>12, <1>13, <1>14 DEF m, t, size

(* frame_fill_special writes an index of special offsets and nothing else. *)
LEMMA FrameFills ==
  ASSUME NEW s \in StoreSet, NEW l \in Seq(ChunkSet), InFrame(s), Holds(s, l), NEW f \in Fills,
         s.nbytes = 0, s.cbytes = 0, Len(l) = 0
  PROVE  LET counted == [s EXCEPT !.nchunks = Len(FillContents(f)), !.nbytes = f.total,
                                  !.chunksize = f.chunksize]
             r == FrameFill(counted, FillContents(f))
         IN r.ok /\ Gives(r, s.where, FillOf(f))
<1> DEFINE m == FillOf(f)
           n == Len(m)
           contents == FillContents(f)
           offs == [i \in DOMAIN contents |-> SpecialCode[contents[i].data]]
           none == <<>>
           t == [s EXCEPT !.nchunks = Len(contents), !.nbytes = f.total, !.chunksize = f.chunksize]
           q == [t EXCEPT !.offs = offs, !.at = 0, !.payload = none]
<1>1. /\ m \in Seq(ChunkSet) /\ n \in Nat /\ DOMAIN contents = 1 .. n /\ Len(contents) = n
      /\ \A i \in 1 .. n : IsSpecial(m[i]) /\ m[i].data = f.data /\ contents[i].data = f.data
      /\ Even(m, f.chunksize) /\ Sum(Bytes(m)) = f.total /\ Sum(StoredIn(m)) = 0
      /\ f.chunksize \in Nat \ {0} /\ f.total \in Nat
  BY FillList
<1>2. /\ InStep(s) /\ Placed(s, l)
      /\ s.head.nbytes = 0 /\ s.head.cbytes = 0
  BY DEF Holds, InStep
<1>3. \A i \in 1 .. n : SpecialCode[contents[i].data] = SpecialCode[m[i].data] /\ SpecialCode[m[i].data] \in Int
  <2> HIDE DEF m, contents
  <2> QED BY <1>1, Codes DEF IsSpecial, n
<1>4. offs \in Seq(Int) /\ Len(offs) = n /\ \A i \in 1 .. n : offs[i] = SpecialCode[m[i].data]
  <2> HIDE DEF m, contents
  <2>1. offs = [i \in 1 .. n |-> SpecialCode[contents[i].data]]
    BY <1>1
  <2>2. \A i \in 1 .. n : offs[i] = SpecialCode[m[i].data]
    BY <1>3, <2>1
  <2>3. offs \in [1 .. n -> Int]
    BY <1>3, <2>1
  <2> HIDE DEF offs, n
  <2> QED BY <1>1, <2>2, <2>3, ListIs
<1>5. none \in Seq(CellSet) /\ Len(none) = 0
  OBVIOUS
<1>6. FrameFill(t, contents) = Done(UpdateHeader(q))
  <2>1. t.head = s.head
    BY DEF StoreSet
  <2> HIDE DEF t, contents
  <2> QED BY <1>2, <2>1 DEF FrameFill
<1> HIDE DEF m, contents, offs, none
<1>7. /\ q \in StoreSet /\ q.where = s.where /\ q.nchunks = n /\ q.nbytes = f.total /\ q.cbytes = s.cbytes
      /\ q.chunksize = f.chunksize /\ q.data = s.data /\ q.head = s.head /\ q.at = 0
      /\ q.offs = offs /\ q.payload = none /\ q.files = s.files
  <2>1. /\ t \in StoreSet /\ t.where = s.where /\ t.nchunks = n /\ t.nbytes = f.total /\ t.cbytes = s.cbytes
        /\ t.chunksize = f.chunksize /\ t.data = s.data /\ t.head = s.head /\ t.files = s.files
    <3> DEFINE b == f.total
               size == f.chunksize
               k == Len(contents)
    <3>1. k = n /\ k \in Int /\ b \in Int /\ size \in Nat \cup {-1}
      BY <1>1
    <3> HIDE DEF b, size, k
    <3>2. t = [s EXCEPT !.nchunks = k, !.nbytes = b, !.chunksize = size]
      BY DEF b, size, k
    <3> HIDE DEF t, n
    <3>3. /\ t \in StoreSet /\ t.where = s.where /\ t.nchunks = k /\ t.nbytes = b /\ t.cbytes = s.cbytes
          /\ t.chunksize = size /\ t.data = s.data /\ t.head = s.head /\ t.files = s.files
      BY <3>1, <3>2 DEF StoreSet
    <3> QED BY <3>1, <3>3 DEF b, size
  <2> HIDE DEF t, n
  <2>2. offs \in Seq(Int) /\ none \in Seq(CellSet)
    BY <1>4, <1>5
  <2> QED BY <2>1, <2>2 DEF StoreSet
<1> HIDE DEF q
<1>8. Counts(q, m)
  <2> HIDE DEF n
  <2> QED BY <1>1, <1>7 DEF Counts, n
<1>9. Index(offs, m)
  BY <1>1, <1>4 DEF Index
<1>10. Laid(offs, none, m)
  BY <1>1 DEF Laid, n
<1>11. ASSUME Sparse(s) PROVE Filed(offs, s.files, m)
  <2>1. Filed(s.offs, s.files, l)
    BY <1>2, <1>11 DEF Placed, Stores
  <2>2. \A id \in DOMAIN s.files : s.files[id] = EmptyFile
    BY <2>1 DEF Filed
  <2> QED BY <1>1, <2>2 DEF Filed, n
<1>12. (Contiguous(q) <=> Contiguous(s)) /\ (Sparse(q) <=> Sparse(s)) /\ InFrame(q)
  BY <1>7 DEF Contiguous, Sparse, InFrame
<1>13. Stores(q, m, q.cbytes)
  BY <1>1, <1>5, <1>7, <1>9, <1>10, <1>11, <1>12 DEF Stores
<1>14. q.at # NoIndex /\ q.at = q.cbytes
  BY <1>7 DEF NoIndex
<1> DEFINE u == UpdateHeader(q)
<1>15. Takes(u, m) /\ u.where = s.where /\ u.chunksize = f.chunksize
  BY <1>1, <1>7, <1>8, <1>12, <1>13, <1>14, HeaderWritten
<1> HIDE DEF u
<1>16. Plain(m, u.chunksize)
  BY <1>1, <1>15 DEF Plain
<1>17. u \in StoreSet /\ Holds(u, m)
  BY <1>15, <1>16 DEF Takes
<1>18. FrameFill(t, contents) = Done(u)
  BY <1>6 DEF u
<1>19. FrameFill(t, contents).ok /\ Gives(FrameFill(t, contents), s.where, m)
  <2> HIDE DEF t
  <2> QED BY <1>1, <1>15, <1>17, <1>18 DEF Gives, Done
<1> QED BY <1>19 DEF t, m, contents

(* blosc2_schunk_fill_special fills an empty super-chunk, or refuses.      *)
LEMMA FillsSpecial ==
  ASSUME NEW s \in StoreSet, NEW l \in Seq(ChunkSet), Holds(s, l), NEW f \in Fills
  PROVE  \/ FillSpecial(s, f) = Refuse(s)
         \/ Len(l) = 0 /\ Gives(FillSpecial(s, f), s.where, FillOf(f))
<1> DEFINE contents == FillContents(f)
           counted == [s EXCEPT !.nchunks = Len(contents), !.nbytes = f.total, !.chunksize = f.chunksize]
           r == FrameFill(counted, contents)
           m == FillOf(f)
<1>1. FillSpecial(s, f) = IF s.nbytes > 0 \/ s.cbytes > 0 THEN Refuse(s)
                          ELSE IF InFrame(s) THEN (IF r.ok THEN r ELSE Refuse(s))
                          ELSE AppendAll(s, m)
  BY DEF FillSpecial, FillOf
<1>2. s.nbytes = Sum(Bytes(l)) /\ s.cbytes >= Sum(StoredIn(l)) /\ s.cbytes \in Int /\ s.nbytes \in Int
  BY StoreFields DEF Holds, Counts
<1>3. CASE s.nbytes > 0 \/ s.cbytes > 0
  BY <1>1, <1>3
<1>4. CASE ~(s.nbytes > 0 \/ s.cbytes > 0)
  <2>1. Len(l) = 0
    BY <1>2, <1>4, NonEmptySum
  <2>2. l = <<>>
    BY <2>1, EmptyList
  <2>3. s.nbytes = 0 /\ s.cbytes = 0
    <3>1. Sum(Bytes(l)) = 0 /\ Sum(StoredIn(l)) = 0
      BY <2>1, NonEmptySum
    <3> QED BY <1>2, <1>4, <3>1
  <2>4. CASE InFrame(s)
    <3>1. r.ok /\ Gives(r, s.where, m)
      BY <2>1, <2>3, <2>4, FrameFills
    <3> HIDE DEF r, m
    <3> QED BY <1>1, <1>4, <2>1, <2>4, <3>1 DEF m
  <2>5. CASE ~InFrame(s)
    <3>1. m \in Seq(ChunkSet)
      BY FillList
    <3> HIDE DEF m
    <3>2. First(m, 0) = l
      BY <2>2, <3>1, EmptyList
    <3>3. AppendAll(s, m) = Refuse(s) \/ Gives(AppendAll(s, m), s.where, m)
      BY <2>5, <3>1, <3>2, AppendsInMemory
    <3> QED BY <1>1, <1>4, <2>1, <2>5, <3>3 DEF m
  <2> QED BY <2>4, <2>5
<1> QED BY <1>3, <1>4

(* A frame that holds a list opens, but for a sparse frame with an id      *)
(* above what its chunks take up.                                          *)
LEMMA FrameOpens ==
  ASSUME NEW s \in StoreSet, NEW l \in Seq(ChunkSet), InFrame(s), Holds(s, l),
         Sparse(s) => \A i \in DOMAIN s.offs : s.offs[i] >= 0 => s.offs[i] <= s.cbytes - Overhead
  PROVE  Opens(s)
<1> DEFINE n == Len(l)
<1>1. /\ HeadNchunks(s) = n /\ n \in Nat /\ Len(s.offs) = n /\ (n # 0 => IndexReadable(s, n, n))
      /\ Placed(s, l) /\ s.head.cbytes = s.cbytes
  BY HeaderRead DEF Holds, InStep
<1>2. ASSUME NEW i \in 1 .. n PROVE s.offs[i] < 0 \/ s.offs[i] <= s.head.cbytes - Overhead
  <2>1. CASE Sparse(s)
    <3>1. i \in DOMAIN s.offs /\ s.offs[i] \in Int
      <4>1. s.offs \in Seq(Int)
        BY StoreFields
      <4> QED BY <1>1, <4>1
    <3> QED BY <1>1, <2>1, <3>1
  <2>2. CASE Contiguous(s) /\ IsSpecial(l[i])
    BY <1>1, <2>2, IndexSign DEF Placed, Stores
  <2>3. CASE Contiguous(s) /\ ~IsSpecial(l[i])
    <3>1. Whole(s.payload, s.offs[i], l[i]) /\ Len(s.payload) = s.head.cbytes
      BY <1>1, <2>3 DEF Placed, Stores, Laid
    <3>2. l[i].cbytes \in Nat /\ l[i].cbytes > Overhead /\ Overhead \in Nat
      BY <2>3, ChunkFacts
    <3>3. s.offs[i] \in Int /\ s.head.cbytes \in Int
      BY <1>1, IndexSign, StoreFields DEF Placed, Stores
    <3>4. s.offs[i] + l[i].cbytes <= s.head.cbytes
      BY <3>1 DEF Whole
    <3> QED BY <3>2, <3>3, <3>4
  <2> QED BY <2>1, <2>2, <2>3, StoreFields
<1>3. n > 0 => FrameGetChunk(s, 1) # Unreadable
  <2> SUFFICES ASSUME n > 0 PROVE FrameGetChunk(s, 1) # Unreadable
    OBVIOUS
  <2>1. 1 \in 1 .. Len(l)
    BY <1>1
  <2>2. FrameGetChunk(s, 1) = l[1]
    BY <1>1, <2>1, ChunkRead
  <2>3. l[1] # Unreadable
    BY <2>1, ChunkFacts
  <2> QED BY <2>2, <2>3
<1> HIDE DEF n
<1> QED BY <1>1, <1>2, <1>3 DEF Opens

(* What frame_to_schunk takes from the header counts the same list.        *)
LEMMA Reopens ==
  ASSUME NEW s \in StoreSet, NEW l \in Seq(ChunkSet), InFrame(s), Holds(s, l),
         Sparse(s) => \A i \in DOMAIN s.offs : s.offs[i] >= 0 => s.offs[i] <= s.cbytes - Overhead
  PROVE  Gives(Reopened(s), s.where, l)
<1> DEFINE n == Len(l)
           t == [s EXCEPT !.nchunks = n, !.nbytes = s.head.nbytes, !.cbytes = s.head.cbytes,
                          !.chunksize = s.head.chunksize]
<1>1. /\ HeadNchunks(s) = n /\ n \in Nat /\ Placed(s, l) /\ InStep(s) /\ Counts(s, l)
  BY HeaderRead DEF Holds
<1>2. Reopened(s) = Done(t)
  BY <1>1, FrameOpens DEF Reopened, Attached
<1>3. /\ s.head.nbytes \in Int /\ s.head.cbytes \in Int /\ s.head.chunksize \in Nat \cup {-1}
      /\ n \in Int
  BY <1>1, StoreFields
<1>4. /\ t \in StoreSet /\ t.where = s.where /\ t.nchunks = n /\ t.nbytes = s.head.nbytes
      /\ t.cbytes = s.head.cbytes /\ t.chunksize = s.head.chunksize /\ t.data = s.data
      /\ t.head = s.head /\ t.at = s.at /\ t.offs = s.offs /\ t.payload = s.payload /\ t.files = s.files
  <2> HIDE DEF n
  <2> QED BY <1>3 DEF StoreSet
<1> HIDE DEF t
<1>5. SameFrame(s, t)
  BY <1>4 DEF SameFrame
<1>6. Placed(t, l)
  BY <1>1, <1>5, PlacedSame
<1>7. Counts(t, l)
  BY <1>1, <1>4 DEF Counts, InStep, Placed, Stores
<1>8. InStep(t)
  BY <1>4 DEF InStep
<1>9. InFrame(t)
  BY <1>4 DEF InFrame
<1>10. Holds(t, l)
  BY <1>6, <1>7, <1>8, <1>9 DEF Holds
<1> QED BY <1>2, <1>4, <1>10 DEF Gives, Done

(* Larger entries, a larger sum.                                           *)
LEMMA SumGrows ==
  ASSUME NEW f \in Seq(Nat), NEW g \in Seq(Nat), Len(f) = Len(g), \A k \in 1 .. Len(f) : f[k] <= g[k]
  PROVE  Sum(f) <= Sum(g) /\ Sum(f) \in Nat /\ Sum(g) \in Nat
<1> DEFINE n == Len(f)
<1>1. PICK a : Sums(a, f) /\ Sum(f) = a[n]
  BY SumSteps
<1>2. PICK b : Sums(b, g) /\ Sum(g) = b[n]
  BY SumSteps
<1> DEFINE S == {k \in 0 .. n : a[k] <= b[k]}
<1>3. n \in Nat /\ \A k \in 1 .. n : f[k] \in Nat /\ g[k] \in Nat
  OBVIOUS
<1>4. /\ \A k \in 0 .. n : a[k] \in Nat /\ b[k] \in Nat
      /\ a[0] = 0 /\ b[0] = 0
      /\ \A k \in 1 .. n : a[k] = a[k - 1] + f[k] /\ b[k] = b[k - 1] + g[k]
  BY <1>1, <1>2 DEF Sums
<1>5. 0 \in S
  BY <1>3, <1>4
<1>6. \A k \in 1 .. n : f[k] <= g[k]
  OBVIOUS
<1>7. ASSUME NEW k \in 1 .. n, k - 1 \in S PROVE k \in S
  <2> HIDE DEF n
  <2>1. k - 1 \in 0 .. n /\ k \in 0 .. n /\ a[k - 1] <= b[k - 1]
    BY <1>3, <1>7
  <2>2. a[k] <= b[k]
    <3>1. f[k] \in Nat /\ g[k] \in Nat /\ f[k] <= g[k]
      BY <1>3, <1>6 DEF n
    <3>2. a[k - 1] \in Nat /\ b[k - 1] \in Nat /\ a[k] = a[k - 1] + f[k] /\ b[k] = b[k - 1] + g[k]
      BY <1>4, <2>1
    <3> QED BY <2>1, <3>1, <3>2, SMTT(30)
  <2> QED BY <2>1, <2>2
<1>8. n \in S
  <2> HIDE DEF S, n
  <2>1. 0 .. n \subseteq S
    BY <1>3, <1>5, <1>7, BoundedInduction
  <2> QED BY <1>3, <2>1
<1>9. n \in 0 .. n
  BY <1>3
<1> QED BY <1>1, <1>2, <1>4, <1>8, <1>9

(* blosc2_schunk_from_buffer with a copy: the chunks of a frame in memory. *)
LEMMA Loads ==
  ASSUME NEW s \in StoreSet, NEW l \in Seq(ChunkSet), Contiguous(s), Holds(s, l)
  PROVE  Gives(Loaded(s), "memory", l)
<1> DEFINE n == Len(l)
           chunks == [i \in 1 .. HeadNchunks(s) |-> FrameGetChunk(s, i)]
           size == s.head.chunksize
           total == IF l = <<>> THEN s.head.cbytes ELSE Sum([i \in 1 .. n |-> l[i].cbytes])
           t == New("memory", size)
           q == [t EXCEPT !.data = l, !.nchunks = n, !.nbytes = s.head.nbytes, !.cbytes = total]
<1>1. InFrame(s) /\ ~Sparse(s)
  BY DEF Contiguous, InFrame, Sparse
<1>2. /\ HeadNchunks(s) = n /\ n \in Nat /\ Placed(s, l) /\ InStep(s) /\ Counts(s, l)
      /\ s.head.nbytes = Sum(Bytes(l)) /\ s.head.nbytes \in Int /\ s.head.cbytes \in Int
      /\ size \in Nat \cup {-1} /\ Even(l, size) /\ (n # 0 => size # -1) /\ s.head.cbytes >= 0
  BY <1>1, HeaderRead, StoreFields DEF Holds, Placed, Stores
<1>3. Opens(s)
  BY <1>1, FrameOpens
<1>4. \A i \in 1 .. n : FrameGetChunk(s, i) = l[i] /\ l[i] # Unreadable
  BY <1>1, <1>2, ChunkRead, ChunkFacts
<1>5. chunks = l
  <2>1. chunks = [i \in 1 .. n |-> l[i]]
    <3> HIDE DEF n
    <3> QED BY <1>2, <1>4
  <2>2. l = [i \in 1 .. n |-> l[i]]
    OBVIOUS
  <2> QED BY <2>1, <2>2
<1>6. DOMAIN l = 1 .. n /\ Unreadable \notin Range(l)
  <2>1. DOMAIN l = 1 .. n
    OBVIOUS
  <2> QED BY <1>4, <2>1 DEF Range
<1>7. Loaded(s) = Done(q)
  <2>1. Loaded(s) =
          IF \/ ~Opens(s) \/ Unreadable \in Range(chunks)
             \/ Sum([i \in DOMAIN chunks |-> chunks[i].nbytes]) # s.head.nbytes
          THEN Refuse(s)
          ELSE Done([t EXCEPT !.data = chunks, !.nchunks = Len(chunks), !.nbytes = s.head.nbytes,
                              !.cbytes = IF chunks = <<>> THEN s.head.cbytes
                                         ELSE Sum([i \in DOMAIN chunks |-> chunks[i].cbytes])])
    BY DEF Loaded
  <2>2. [i \in DOMAIN chunks |-> chunks[i].nbytes] = Bytes(l)
    BY <1>5, <1>6 DEF Bytes
  <2> HIDE DEF chunks, t
  <2> QED BY <1>2, <1>3, <1>5, <1>6, <2>1, <2>2
<1>8. total \in Int /\ total >= Sum(StoredIn(l))
  <2>1. CASE l = <<>>
    BY <1>2, <2>1, EmptyList
  <2>2. CASE l # <<>>
    <3> DEFINE g == [i \in 1 .. n |-> l[i].cbytes]
    <3>1. \A i \in 1 .. n : g[i] = l[i].cbytes /\ l[i].cbytes \in Nat /\ StoredIn(l)[i] <= g[i]
      BY ChunkFacts DEF StoredIn
    <3>2. g \in Seq(Nat) /\ Len(g) = n
      <4>1. g \in [1 .. n -> Nat]
        BY <3>1
      <4> HIDE DEF g, n
      <4> QED BY <1>2, <4>1, ListIs
    <3>3. StoredIn(l) \in Seq(Nat) /\ Len(StoredIn(l)) = n
      BY SizesOf
    <3> HIDE DEF g, n
    <3>4. Sum(StoredIn(l)) <= Sum(g) /\ Sum(StoredIn(l)) \in Nat /\ Sum(g) \in Nat
      BY <3>1, <3>2, <3>3, SumGrows
    <3>5. total = Sum(g)
      BY <2>2 DEF g
    <3> QED BY <3>4, <3>5
  <2> QED BY <2>1, <2>2
<1>9. t \in StoreSet /\ t.where = "memory" /\ t.chunksize = size
  BY <1>2, NewHolds
<1> DEFINE b == s.head.nbytes
<1> HIDE DEF t, size, total, n, chunks
<1>10. /\ q \in StoreSet /\ q.where = "memory" /\ q.nchunks = n /\ q.nbytes = b
       /\ q.cbytes = total /\ q.chunksize = size /\ q.data = l /\ q.offs = t.offs
  <2>1. b \in Int /\ n \in Int
    BY <1>2
  <2>2. q = [t EXCEPT !.data = l, !.nchunks = n, !.nbytes = b, !.cbytes = total]
    OBVIOUS
  <2> HIDE DEF b, q
  <2> QED BY <1>8, <1>9, <2>1, <2>2 DEF StoreSet
<1> HIDE DEF q
<1>11. ~InFrame(q)
  BY <1>10 DEF InFrame
<1>12. Counts(q, l)
  BY <1>2, <1>8, <1>10 DEF Counts, b, n
<1>13. Holds(q, l)
  BY <1>10, <1>11, <1>12 DEF Holds, t, New
<1> QED BY <1>7, <1>10, <1>13 DEF Gives, Done

-----------------------------------------------------------------------------
(***************************************************************************)
(* What holding a list says about the store.                               *)
(***************************************************************************)

(* The sizes of the chunks.                                                *)
LEMMA HeldSizes ==
  ASSUME store \in StoreSet, NEW l \in Seq(ChunkSet), Holds(store, l)
  PROVE  SizesHonest
<1>1. /\ store.nchunks = Len(l) /\ Even(l, store.chunksize)
      /\ \A i \in 1 .. Len(l) : GetChunk(store, i) = l[i]
  BY Reads DEF Holds, Counts
<1> QED BY <1>1 DEF SizesHonest, EvenSizes, Even

(* The counters.                                                           *)
LEMMA HeldTotals ==
  ASSUME store \in StoreSet, NEW l \in Seq(ChunkSet), Holds(store, l)
  PROVE  TotalsExact
<1> DEFINE n == Len(l)
           s == store
<1>1. /\ s.nchunks = n /\ n \in Nat /\ s.nbytes = Sum(Bytes(l))
      /\ \A i \in 1 .. n : GetChunk(s, i) = l[i]
  BY Reads DEF Holds, Counts
<1>2. [i \in 1 .. s.nchunks |-> GetChunk(s, i).nbytes] = Bytes(l)
  BY <1>1 DEF Bytes
<1>3. [i \in 1 .. s.nchunks |-> Stored(GetChunk(s, i))] = StoredIn(l)
  BY <1>1 DEF StoredIn
<1>4. CASE ~InFrame(s)
  BY <1>1, <1>2, <1>4 DEF TotalsExact, Holds
<1>5. CASE InFrame(s)
  <2>1. InStep(s) /\ Placed(s, l)
    BY <1>5 DEF Holds
  <2>2. HeadNchunks(s) = n /\ Len(s.offs) = n
    BY <1>5, <2>1, HeaderRead
  <2>3. s.nbytes > 0 => n # 0
    <3>1. n = 0 => Sum(Bytes(l)) = 0
      BY NonEmptySum
    <3> HIDE DEF n
    <3> QED BY <1>1, <3>1
  <2>4. s.head.nbytes = s.nbytes /\ s.head.cbytes = s.cbytes /\ (s.nbytes > 0 => s.head.chunksize = s.chunksize)
    BY <1>1, <2>1, <2>3 DEF InStep
  <2>5. /\ Contiguous(s) => Len(s.payload) = s.cbytes
        /\ Sparse(s) => s.cbytes = Sum(StoredIn(l))
    BY <2>1, <2>4 DEF Placed, Stores
  <2> QED BY <1>1, <1>2, <1>3, <1>5, <2>2, <2>4, <2>5 DEF TotalsExact
<1> QED BY <1>4, <1>5

(* The payload and the chunk files.                                        *)
LEMMA HeldLayout ==
  ASSUME store \in StoreSet, NEW l \in Seq(ChunkSet), Holds(store, l)
  PROVE  LayoutSound
<1> DEFINE n == Len(l)
           s == store
           regular == {i \in DOMAIN s.offs : s.offs[i] >= 0}
           cells(i) == s.offs[i] + 1 .. s.offs[i] + GetChunk(s, i).cbytes
<1>1. CASE ~InFrame(s)
  <2>1. DOMAIN s.offs = {}
    BY <1>1 DEF Holds
  <2>2. ~Contiguous(s) /\ ~Sparse(s)
    BY <1>1, StoreFields
  <2> QED BY <2>1, <2>2 DEF LayoutSound
<1>2. CASE InFrame(s)
  <2>1. n \in Nat /\ \A i \in 1 .. n : GetChunk(s, i) = l[i] /\ l[i] \in ChunkSet /\ l[i] # Unreadable
    BY Reads
  <2>2. Placed(s, l) /\ Index(s.offs, l)
    BY <1>2 DEF Holds, Placed, Stores
  <2>3. DOMAIN s.offs = 1 .. n
    <3>1. s.offs \in Seq(Int) /\ Len(s.offs) = n
      BY <2>2, StoreFields DEF Index
    <3> QED BY <3>1
  <2>4. \A i \in 1 .. n : s.offs[i] \in Int /\ (s.offs[i] >= 0 <=> ~IsSpecial(l[i]))
    BY <2>2, IndexSign
  <2>5. \A i \in regular : i \in 1 .. n /\ s.offs[i] \in Nat /\ ~IsSpecial(l[i]) /\ GetChunk(s, i) = l[i]
    BY <2>1, <2>3, <2>4
  <2>6. \A i \in regular : GetChunk(s, i) # Unreadable
    BY <2>1, <2>5
  <2>7. ASSUME Contiguous(s), NEW i \in regular, NEW j \in regular, i # j
        PROVE  s.offs[i] # s.offs[j] /\ cells(i) \cap cells(j) = {}
    <3> DEFINE c == l[i]
               d == l[j]
               o == s.offs[i]
               p == s.offs[j]
    <3>1. Apart(o, c, p, d)
      <4>1. Laid(s.offs, s.payload, l)
        BY <2>2, <2>7 DEF Placed, Stores
      <4>2. \A x, y \in 1 .. n : x # y /\ ~IsSpecial(l[x]) /\ ~IsSpecial(l[y]) =>
               Apart(s.offs[x], l[x], s.offs[y], l[y])
        BY <4>1 DEF Laid
      <4>3. i \in 1 .. n /\ j \in 1 .. n /\ ~IsSpecial(l[i]) /\ ~IsSpecial(l[j])
        BY <2>5
      <4> HIDE DEF n, s
      <4> QED BY <2>7, <4>2, <4>3
    <3>2. c.cbytes \in Nat /\ c.cbytes > 0 /\ d.cbytes \in Nat /\ d.cbytes > 0 /\ o \in Nat /\ p \in Nat
      <4>1. c \in ChunkSet /\ d \in ChunkSet /\ o \in Nat /\ p \in Nat
        <5>1. i \in 1 .. n /\ j \in 1 .. n /\ o \in Nat /\ p \in Nat
          BY <2>5
        <5> QED BY <2>1, <5>1
      <4> HIDE DEF c, d, o, p
      <4> QED BY <4>1, ChunkFacts
    <3>3. cells(i) = o + 1 .. o + c.cbytes /\ cells(j) = p + 1 .. p + d.cbytes
      BY <2>5
    <3> HIDE DEF cells, c, d, o, p
    <3>4. o # p /\ (o + 1 .. o + c.cbytes) \cap (p + 1 .. p + d.cbytes) = {}
      BY <3>1, <3>2 DEF Apart
    <3> QED BY <3>3, <3>4 DEF o, p
  <2>8. ASSUME Sparse(s), NEW i \in regular, NEW j \in regular, i # j
        PROVE  s.offs[i] # s.offs[j]
    BY <2>2, <2>5, <2>8 DEF Placed, Stores, Filed
  <2>9. ASSUME Sparse(s), NEW id \in DOMAIN s.files
        PROVE  s.files[id] = EmptyFile <=> id \notin Range(s.offs)
    <3>1. Filed(s.offs, s.files, l)
      BY <2>2, <2>9 DEF Placed, Stores
    <3>2. id \in Nat
      BY <2>9, StoreFields DEF FileSet
    <3>3. s.files[id] = EmptyFile \/ \E i \in 1 .. n : s.offs[i] = id
      BY <2>9, <3>1 DEF Filed
    <3>4. ASSUME NEW i \in 1 .. n, s.offs[i] = id PROVE s.files[id] # EmptyFile
      <4>1. ~IsSpecial(l[i])
        BY <2>4, <3>2, <3>4
      <4>2. s.files[id] = l[i]
        BY <3>1, <3>4, <4>1 DEF Filed
      <4>3. l[i] # EmptyFile
        BY ChunkFacts
      <4> QED BY <4>2, <4>3
    <3>5. id \in Range(s.offs) <=> \E i \in 1 .. n : s.offs[i] = id
      <4> HIDE DEF s, n
      <4> QED BY <2>3 DEF Range
    <3> QED BY <3>3, <3>4, <3>5
  <2>10. Contiguous(s) \/ Sparse(s)
    BY <1>2, StoreFields
  <2>11. /\ \A i, j \in regular : i # j => s.offs[i] # s.offs[j]
         /\ Contiguous(s) => \A i, j \in regular : i # j => cells(i) \cap cells(j) = {}
    <3> HIDE DEF cells, regular, s
    <3> QED BY <2>7, <2>8, <2>10
  <2> QED BY <2>6, <2>9, <2>11, Zenon DEF LayoutSound
<1> QED BY <1>1, <1>2

-----------------------------------------------------------------------------
(***************************************************************************)
(* The calls, and the list a caller sees.                                  *)
(***************************************************************************)
Contents(l) == [i \in 1 .. Len(l) |-> Content(l[i])]
ContentSet == {Content(c) : c \in ChunkSet}

(* The step is one of the list's, and what it leaves holds a list again.   *)
Follows == \E m \in Seq(ChunkSet) : store' \in StoreSet /\ Holds(store', m) /\ List!Next

(* Lists with the same entries are the same.                               *)
LEMMA SameList ==
  ASSUME NEW S, NEW f \in Seq(S), NEW g \in Seq(S), Len(f) = Len(g),
         \A i \in 1 .. Len(f) : f[i] = g[i]
  PROVE  f = g
OBVIOUS

(* The contents of a list are as long, and one by one.                     *)
LEMMA ContentsAre ==
  ASSUME NEW l \in Seq(ChunkSet)
  PROVE  /\ Contents(l) \in Seq(ContentSet) /\ Len(Contents(l)) = Len(l) /\ Len(l) \in Nat
         /\ \A i \in 1 .. Len(l) : Contents(l)[i] = Content(l[i])
         /\ Contents(l) = <<>> <=> Len(l) = 0
<1> DEFINE n == Len(l)
           f == Contents(l)
<1>1. n \in Nat /\ \A i \in 1 .. n : l[i] \in ChunkSet
  OBVIOUS
<1>2. f = [i \in 1 .. n |-> Content(l[i])]
  BY DEF Contents
<1> HIDE DEF f, n
<1>3. \A i \in 1 .. n : f[i] = Content(l[i]) /\ f[i] \in ContentSet
  BY <1>1, <1>2 DEF ContentSet
<1>4. f \in [1 .. n -> ContentSet]
  BY <1>2, <1>3
<1>5. f \in Seq(ContentSet) /\ Len(f) = n
  BY <1>1, <1>4, ListIs
<1>6. f = <<>> <=> n = 0
  BY <1>5
<1> QED BY <1>1, <1>3, <1>5, <1>6 DEF f, n

(* The contents with one more chunk.                                       *)
LEMMA ContentsInserted ==
  ASSUME NEW l \in Seq(ChunkSet), NEW c \in ChunkSet, NEW i \in 1 .. Len(l) + 1
  PROVE  /\ Contents(InsertAt(l, i, c)) = InsertAt(Contents(l), i, Content(c))
         /\ i = Len(l) + 1 => Contents(InsertAt(l, i, c)) = Append(Contents(l), Content(c))
<1> DEFINE n == Len(l)
           m == InsertAt(l, i, c)
           x == Content(c)
           f == Contents(l)
           g == InsertAt(f, i, x)
           h == Append(f, x)
           k == Contents(m)
<1>1. m \in Seq(ChunkSet) /\ Inserts(m, l, i, c)
  BY InsertsAt, Zenon
<1>2. f \in Seq(ContentSet) /\ Len(f) = n /\ n \in Nat /\ \A j \in 1 .. n : f[j] = Content(l[j])
  BY ContentsAre
<1>3. x \in ContentSet
  BY DEF ContentSet
<1> HIDE DEF m, x, f
<1>4. k \in Seq(ContentSet) /\ Len(k) = Len(m) /\ \A j \in 1 .. Len(m) : k[j] = Content(m[j])
  BY <1>1, ContentsAre
<1>5. Len(m) = n + 1 /\ \A j \in 1 .. n + 1 : m[j] = IF j < i THEN l[j] ELSE IF j = i THEN c ELSE l[j - 1]
  BY <1>1 DEF Inserts
<1> HIDE DEF k, n
<1>6. \A j \in 1 .. n + 1 : k[j] = IF j < i THEN f[j] ELSE IF j = i THEN x ELSE f[j - 1]
  <2>1. ASSUME NEW j \in 1 .. n + 1
        PROVE  k[j] = IF j < i THEN f[j] ELSE IF j = i THEN x ELSE f[j - 1]
    <3>1. k[j] = Content(m[j]) /\ m[j] = IF j < i THEN l[j] ELSE IF j = i THEN c ELSE l[j - 1]
      BY <1>4, <1>5
    <3>2. i \in 1 .. n + 1
      BY DEF n
    <3>3. CASE j < i
      BY <1>2, <3>1, <3>2, <3>3
    <3>4. CASE j = i
      BY <3>1, <3>4 DEF x
    <3>5. CASE j > i
      <4>1. j - 1 \in 1 .. n
        BY <1>2, <3>2, <3>5
      <4> QED BY <1>2, <3>1, <3>2, <3>5, <4>1
    <3> QED BY <1>2, <3>2, <3>3, <3>4, <3>5
  <2> QED BY <2>1
<1>7. Inserts(k, f, i, x)
  BY <1>2, <1>4, <1>5, <1>6 DEF Inserts
<1>8. g \in Seq(ContentSet) /\ Inserts(g, f, i, x)
  <2>1. i \in 1 .. Len(f) + 1
    BY <1>2 DEF n
  <2> QED BY <1>2, <1>3, <2>1, InsertsAt, Zenon
<1> HIDE DEF g
<1>9. k = g
  <2>1. Len(k) = Len(g) /\ \A j \in 1 .. Len(k) : k[j] = g[j]
    BY <1>7, <1>8 DEF Inserts
  <2> QED BY <1>4, <1>8, <2>1, SameList
<1>10. ASSUME i = n + 1 PROVE k = h
  <2>1. h \in Seq(ContentSet) /\ Inserts(h, f, i, x)
    BY <1>2, <1>3, <1>10, Appended
  <2> HIDE DEF h
  <2>2. Len(k) = Len(h) /\ \A j \in 1 .. Len(k) : k[j] = h[j]
    BY <1>7, <2>1 DEF Inserts
  <2> QED BY <1>4, <2>1, <2>2, SameList
<1> QED BY <1>9, <1>10 DEF m, x, f, g, k, n

(* The contents without a chunk.                                           *)
LEMMA ContentsDeleted ==
  ASSUME NEW l \in Seq(ChunkSet), NEW i \in 1 .. Len(l)
  PROVE  Contents(RemoveAt(l, i)) = RemoveAt(Contents(l), i)
<1> DEFINE n == Len(l)
           m == RemoveAt(l, i)
           f == Contents(l)
           g == RemoveAt(f, i)
           k == Contents(m)
<1>1. m \in Seq(ChunkSet) /\ Deletes(m, l, i)
  BY DeletesAt, Zenon
<1>2. f \in Seq(ContentSet) /\ Len(f) = n /\ n \in Nat /\ \A j \in 1 .. n : f[j] = Content(l[j])
  BY ContentsAre
<1> HIDE DEF m, f
<1>4. k \in Seq(ContentSet) /\ Len(k) = Len(m) /\ \A j \in 1 .. Len(m) : k[j] = Content(m[j])
  BY <1>1, ContentsAre
<1>5. Len(m) = n - 1 /\ \A j \in 1 .. n - 1 : m[j] = IF j < i THEN l[j] ELSE l[j + 1]
  BY <1>1 DEF Deletes
<1> HIDE DEF k, n
<1>6. ASSUME NEW j \in 1 .. n - 1 PROVE k[j] = IF j < i THEN f[j] ELSE f[j + 1]
  <2>1. k[j] = Content(m[j]) /\ m[j] = IF j < i THEN l[j] ELSE l[j + 1]
    BY <1>4, <1>5
  <2>2. j \in 1 .. n /\ j + 1 \in 1 .. n
    BY <1>2
  <2> QED BY <1>2, <2>1, <2>2
<1>7. Deletes(k, f, i)
  BY <1>2, <1>4, <1>5, <1>6 DEF Deletes
<1>8. g \in Seq(ContentSet) /\ Deletes(g, f, i)
  <2>1. i \in 1 .. Len(f)
    BY <1>2 DEF n
  <2> QED BY <1>2, <2>1, DeletesAt, Zenon
<1> HIDE DEF g
<1>9. k = g
  <2>1. Len(k) = Len(g) /\ \A j \in 1 .. Len(k) : k[j] = g[j]
    BY <1>7, <1>8 DEF Deletes
  <2> QED BY <1>4, <1>8, <2>1, SameList
<1> QED BY <1>9 DEF m, f, g, k

(* The contents with another chunk.                                        *)
LEMMA ContentsReplaced ==
  ASSUME NEW l \in Seq(ChunkSet), NEW c \in ChunkSet, NEW i \in 1 .. Len(l)
  PROVE  /\ [l EXCEPT ![i] = c] \in Seq(ChunkSet)
         /\ Contents([l EXCEPT ![i] = c]) = [Contents(l) EXCEPT ![i] = Content(c)]
<1> DEFINE n == Len(l)
           m == [l EXCEPT ![i] = c]
           f == Contents(l)
           g == [f EXCEPT ![i] = Content(c)]
           k == Contents(m)
<1>1. m \in Seq(ChunkSet) /\ Len(m) = n /\ n \in Nat
  OBVIOUS
<1>2. f \in Seq(ContentSet) /\ Len(f) = n /\ \A j \in 1 .. n : f[j] = Content(l[j])
  BY ContentsAre
<1>3. Content(c) \in ContentSet
  BY DEF ContentSet
<1>4. k \in Seq(ContentSet) /\ Len(k) = n /\ \A j \in 1 .. n : k[j] = Content(m[j])
  <2> HIDE DEF m
  <2> QED BY <1>1, ContentsAre
<1>5. \A j \in 1 .. n : m[j] = IF j = i THEN c ELSE l[j]
  OBVIOUS
<1> HIDE DEF m, f, k, n
<1>6. g \in Seq(ContentSet) /\ Len(g) = n /\ \A j \in 1 .. n : g[j] = IF j = i THEN Content(c) ELSE f[j]
  <2>1. i \in 1 .. Len(f)
    BY <1>2 DEF n
  <2> QED BY <1>2, <1>3, <2>1
<1>7. \A j \in 1 .. n : k[j] = g[j]
  BY <1>2, <1>4, <1>5, <1>6
<1> HIDE DEF g
<1>8. k = g
  BY <1>4, <1>6, <1>7, SameList
<1> QED BY <1>1, <1>8 DEF m, f, g, k

(* The list and the store take the operators on lists from one library.    *)
LEMMA SameOperators ==
  ASSUME NEW f, NEW i, NEW x
  PROVE  /\ List!InsertAt(f, i, x) = InsertAt(f, i, x) /\ List!RemoveAt(f, i) = RemoveAt(f, i)
         /\ List!Range(f) = Range(f)
BY DEF List!InsertAt, InsertAt, List!RemoveAt, RemoveAt, List!Range, Range

(* The step answers this call with this result, and the store that the     *)
(* result holds is the one after the step.                                 *)
LEMMA AnswersWith ==
  ASSUME NEW call, NEW r, Answers(call, r)
  PROVE  store' = r.st /\ answer'.call = call /\ answer'.ok = r.ok /\ ~Avoided(store, call, r)
BY DEF Answers

(* Under Careful a call that is accepted leaves a list.                    *)
LEMMA AcceptedHolds ==
  ASSUME Careful, NEW s, NEW call, NEW r, NEW t, NEW m, NEW size, ~Avoided(s, call, r), Accepts(r, t, m, size)
  PROVE  r.ok /\ r.st \in StoreSet /\ m \in Seq(ChunkSet) /\ Holds(r.st, m)
<1>1. r = Done(r.st) /\ Takes(r.st, m)
  BY DEF Accepts
<1>2. r.ok
  BY <1>1 DEF Done
<1>3. InFrame(r.st) => ~(r.st.chunksize = 0 /\ \E i \in DOMAIN r.st.offs : r.st.offs[i] < 0)
  BY DEF Careful, Avoided
<1> QED BY <1>1, <1>2, <1>3, TakesHolds

(* A step that succeeds leaves what its call says.                        *)
LEMMA StepSucceeds ==
  ASSUME store \in StoreSet, NEW l \in Seq(ChunkSet), Holds(store, l), store' \in StoreSet,
         NEW m \in Seq(ChunkSet), Holds(store', m), answer'.ok
  PROVE  /\ Seen(store) = Contents(l) /\ Seen(store') = Contents(m)
         /\ List!InRange(answer'.call) /\ Contents(m) = List!Done(answer'.call) => Follows
<1>1. Seen(store) = Contents(l) /\ Seen(store') = Contents(m)
  BY Reads DEF Contents
<1>2. ASSUME List!InRange(answer'.call), Contents(m) = List!Done(answer'.call) PROVE Follows
  <2>1. List!Succeeds
    BY <1>1, <1>2 DEF List!Succeeds
  <2> QED BY <2>1 DEF Follows, List!Next
<1> QED BY <1>1, <1>2

(* A step that is refused changes nothing.                                 *)
LEMMA StepRefused ==
  ASSUME store \in StoreSet, NEW l \in Seq(ChunkSet), Holds(store, l), store' = store, ~answer'.ok
  PROVE  /\ Seen(store) = Contents(l)
         /\ (List!InRange(answer'.call) => List!MayRefuse(answer'.call)) => Follows
<1>1. Seen(store) = Contents(l)
  BY Reads DEF Contents
<1>2. ASSUME List!InRange(answer'.call) => List!MayRefuse(answer'.call) PROVE Follows
  <2>1. List!Refused
    BY <1>2 DEF List!Refused
  <2> QED BY <2>1 DEF Follows, List!Next
<1> QED BY <1>1, <1>2

(* The chunks callers pass are chunks.                                     *)
LEMMA ChunksAreChunks == Chunks \subseteq ChunkSet
<1> SUFFICES ASSUME NEW c \in Chunks PROVE c \in ChunkSet
  OBVIOUS
<1>1. /\ c \in [data : {d.data : d \in Chunks}, nbytes : Nat \ {0}, cbytes : Nat]
      /\ IF IsSpecial(c) THEN c.cbytes = Overhead ELSE c.cbytes > Overhead
  BY StoreAssumption DEF StoreAssumption
<1>2. c \in [data : {d.data : d \in Chunks} \cup DOMAIN SpecialCode, nbytes : Nat \ {0}, cbytes : Nat]
  BY <1>1
<1> QED BY <1>1, <1>2 DEF ChunkSet

(* blosc2_schunk_append_chunk.                                             *)
LEMMA AppendStep ==
  ASSUME Careful, store \in StoreSet, NEW l \in Seq(ChunkSet), Holds(store, l), NEW c \in Chunks, SchunkAppend(c)
  PROVE  Follows
<1> DEFINE call == [name |-> "append", chunk |-> c, content |-> Content(c)]
           r == AppendChunk(store, c)
           i == Len(l) + 1
           m == InsertAt(l, i, c)
           size == NewChunksize(store, c, Uneven(store, i, c))
           big == size > 0 /\ c.nbytes > size
<1>1. store' = r.st /\ answer'.call = call /\ answer'.ok = r.ok /\ ~Avoided(store, call, r)
  <2> HIDE DEF call, r
  <2>1. Answers(call, r)
    BY DEF SchunkAppend, call, r
  <2> QED BY <2>1, AnswersWith
<1>2. c \in ChunkSet /\ i \in 1 .. Len(l) + 1 /\ m \in Seq(ChunkSet) /\ Inserts(m, l, i, c)
  <2>1. c \in ChunkSet /\ i \in 1 .. Len(l) + 1
    BY ChunksAreChunks
  <2> HIDE DEF i
  <2> QED BY <2>1, InsertsAt, Zenon
<1>3. ~Short(store, l, c)
  <2>1. store.nchunks = Len(l) /\ Len(l) \in Nat
    BY Reads
  <2> HIDE DEF r
  <2>2. ~(InFrame(store) /\ store.nchunks > 0 /\ store.nbytes < store.chunksize /\ c.nbytes < store.chunksize)
    BY <1>1 DEF Careful, Avoided
  <2> QED BY <2>1, <2>2 DEF Short
<1>4. Len(l) # 0 => ~big
  <2> HIDE DEF m, i
  <2> QED BY <1>2, AddedEven
<1>5. (big => r = Refuse(store)) /\ (~big => Accepts(r, store, m, size))
  BY <1>2, <1>3, Adds
<1>6. Contents(m) = Append(Contents(l), Content(c))
  BY <1>2, ContentsInserted
<1> HIDE DEF m, size, big, i, r
<1>7. CASE big
  <2>1. store' = store /\ ~answer'.ok /\ Len(l) = 0
    BY <1>1, <1>4, <1>5, <1>7 DEF Refuse
  <2>2. Seen(store) = <<>>
    BY <2>1, StepRefused, ContentsAre
  <2>3. List!MayRefuse(answer'.call)
    BY <1>1, <2>2 DEF List!MayRefuse
  <2> QED BY <2>1, <2>3, StepRefused
<1>8. CASE ~big
  <2>1. r.ok /\ r.st \in StoreSet /\ Holds(r.st, m)
    BY <1>1, <1>5, <1>8, AcceptedHolds
  <2>2. store' \in StoreSet /\ Holds(store', m) /\ answer'.ok
    BY <1>1, <2>1
  <2>3. Seen(store) = Contents(l)
    BY <1>2, <2>2, StepSucceeds
  <2>4. List!InRange(answer'.call) /\ Contents(m) = List!Done(answer'.call)
    BY <1>1, <1>6, <2>3 DEF List!InRange, List!Done
  <2> QED BY <1>2, <2>2, <2>4, StepSucceeds
<1> QED BY <1>7, <1>8

(* blosc2_schunk_insert_chunk.                                             *)
LEMMA InsertStep ==
  ASSUME Careful, store \in StoreSet, NEW l \in Seq(ChunkSet), Holds(store, l),
         NEW i \in Positions, NEW c \in Chunks, SchunkInsert(i, c)
  PROVE  Follows
<1> DEFINE call == [name |-> "insert", n |-> i, content |-> Content(c)]
           r == InsertChunk(store, i, c)
           m == InsertAt(l, i, c)
           size == NewChunksize(store, c, Uneven(store, i, c))
           big == size > 0 /\ c.nbytes > size
<1>1. store' = r.st /\ answer'.call = call /\ answer'.ok = r.ok /\ ~Avoided(store, call, r)
  <2> HIDE DEF call, r
  <2>1. Answers(call, r)
    BY DEF SchunkInsert, call, r
  <2> QED BY <2>1, AnswersWith
<1>2. /\ store.nchunks = Len(l) /\ Len(l) \in Nat /\ i \in Nat \ {0} /\ c \in ChunkSet
      /\ Len(Contents(l)) = Len(l)
  <2>1. i \in Nat \ {0}
    <3>1. MaxChunks \in Nat
      BY StoreAssumption DEF StoreAssumption
    <3> QED BY <3>1 DEF Positions
  <2>2. c \in ChunkSet
    BY ChunksAreChunks
  <2>3. store.nchunks = Len(l) /\ Len(l) \in Nat
    BY Reads
  <2>4. Len(Contents(l)) = Len(l)
    BY ContentsAre
  <2> QED BY <2>1, <2>2, <2>3, <2>4
<1> HIDE DEF r, m, size, big
<1>3. CASE i > Len(l) + 1
  <2>1. r = Refuse(store)
    BY <1>2, <1>3 DEF r, InsertChunk
  <2>2. store' = store /\ ~answer'.ok
    BY <1>1, <2>1 DEF Refuse
  <2>3. Seen(store) = Contents(l)
    BY <2>2, StepRefused
  <2>4. ~List!InRange(answer'.call)
    BY <1>1, <1>2, <1>3, <2>3 DEF List!InRange
  <2> QED BY <2>2, <2>4, StepRefused
<1>4. CASE i <= Len(l) + 1
  <2>1. i \in 1 .. Len(l) + 1
    BY <1>2, <1>4
  <2>2. m \in Seq(ChunkSet) /\ Inserts(m, l, i, c)
    BY <1>2, <2>1, InsertsAt, Zenon DEF m
  <2>3. Len(l) # 0 => ~big
    BY <1>2, <2>1, <2>2, AddedEven DEF big, size
  <2>4. (big => r = Refuse(store)) /\ (~big => Accepts(r, store, m, size))
    BY <1>2, <2>1, Adds DEF r, m, big, size
  <2>5. Contents(m) = InsertAt(Contents(l), i, Content(c))
    BY <1>2, <2>1, ContentsInserted DEF m
  <2>6. CASE big
    <3>1. store' = store /\ ~answer'.ok /\ Len(l) = 0
      BY <1>1, <2>3, <2>4, <2>6 DEF Refuse
    <3>2. Seen(store) = <<>>
      BY <3>1, StepRefused, ContentsAre
    <3>3. List!MayRefuse(answer'.call)
      BY <1>1, <3>2 DEF List!MayRefuse
    <3> QED BY <3>1, <3>3, StepRefused
  <2>7. CASE ~big
    <3>1. r.ok /\ r.st \in StoreSet /\ Holds(r.st, m)
      BY <1>1, <2>4, <2>7, AcceptedHolds
    <3>2. store' \in StoreSet /\ Holds(store', m) /\ answer'.ok
      BY <1>1, <3>1
    <3>3. Seen(store) = Contents(l)
      BY <2>2, <3>2, StepSucceeds
    <3>4. List!InRange(answer'.call) /\ Contents(m) = List!Done(answer'.call)
      <4>1. answer'.call = call /\ i \in 1 .. Len(Seen(store)) + 1
        BY <1>1, <1>2, <2>1, <3>3
      <4>2. List!InRange(call)
        BY <4>1 DEF List!InRange
      <4>3. List!Done(call) = Contents(m)
        BY <2>5, <3>3, SameOperators DEF List!Done
      <4> QED BY <4>1, <4>2, <4>3
    <3> QED BY <2>2, <3>2, <3>4, StepSucceeds
  <2> QED BY <2>6, <2>7
<1> QED BY <1>2, <1>3, <1>4

(* blosc2_schunk_update_chunk.                                             *)
LEMMA UpdateStep ==
  ASSUME Careful, store \in StoreSet, NEW l \in Seq(ChunkSet), Holds(store, l),
         NEW i \in Positions, NEW c \in Chunks, SchunkUpdate(i, c)
  PROVE  Follows
<1> DEFINE call == [name |-> "update", n |-> i, content |-> Content(c)]
           r == UpdateChunk(store, i, c)
           m == [l EXCEPT ![i] = c]
<1>1. store' = r.st /\ answer'.call = call /\ answer'.ok = r.ok /\ ~Avoided(store, call, r)
  <2> HIDE DEF call, r
  <2>1. Answers(call, r)
    BY DEF SchunkUpdate, call, r
  <2> QED BY <2>1, AnswersWith
<1>2. /\ store.nchunks = Len(l) /\ Len(l) \in Nat /\ i \in Nat \ {0} /\ c \in ChunkSet
      /\ Len(Contents(l)) = Len(l)
  <2>1. i \in Nat \ {0}
    <3>1. MaxChunks \in Nat
      BY StoreAssumption DEF StoreAssumption
    <3> QED BY <3>1 DEF Positions
  <2>2. c \in ChunkSet
    BY ChunksAreChunks
  <2>3. store.nchunks = Len(l) /\ Len(l) \in Nat
    BY Reads
  <2>4. Len(Contents(l)) = Len(l)
    BY ContentsAre
  <2> QED BY <2>1, <2>2, <2>3, <2>4
<1> HIDE DEF r, m
<1>3. CASE i > Len(l)
  <2>1. r = Refuse(store)
    BY <1>2, <1>3 DEF r, UpdateChunk
  <2>2. store' = store /\ ~answer'.ok
    BY <1>1, <2>1 DEF Refuse
  <2>3. Seen(store) = Contents(l)
    BY <2>2, StepRefused
  <2>4. ~List!InRange(answer'.call)
    BY <1>1, <1>2, <1>3, <2>3 DEF List!InRange
  <2> QED BY <2>2, <2>4, StepRefused
<1>4. CASE i <= Len(l)
  <2>1. i \in 1 .. Len(l)
    BY <1>2, <1>4
  <2>2. m \in Seq(ChunkSet) /\ Contents(m) = [Contents(l) EXCEPT ![i] = Content(c)]
    BY <1>2, <2>1, ContentsReplaced DEF m
  <2>3. Accepts(r, store, m, UpdatedSize(store, i, c))
    BY <1>2, <2>1, Updates DEF r, m
  <2>4. r.ok /\ r.st \in StoreSet /\ Holds(r.st, m)
    BY <1>1, <2>3, AcceptedHolds
  <2>5. store' \in StoreSet /\ Holds(store', m) /\ answer'.ok
    BY <1>1, <2>4
  <2>6. Seen(store) = Contents(l)
    BY <2>2, <2>5, StepSucceeds
  <2>7. List!InRange(answer'.call) /\ Contents(m) = List!Done(answer'.call)
    <3> DEFINE called == answer'.call
    <3>1. called = call /\ call.name # "insert" /\ i \in 1 .. Len(Seen(store))
      BY <1>1, <1>2, <2>1, <2>6
    <3>2. List!InRange(call)
      BY <3>1 DEF List!InRange
    <3>3. List!Done(call) = Contents(m)
      BY <2>2, <2>6, SameOperators DEF List!Done
    <3> QED BY <3>1, <3>2, <3>3
  <2> QED BY <2>2, <2>5, <2>7, StepSucceeds
<1> QED BY <1>2, <1>3, <1>4

(* blosc2_schunk_delete_chunk.                                             *)
LEMMA DeleteStep ==
  ASSUME Careful, store \in StoreSet, NEW l \in Seq(ChunkSet), Holds(store, l),
         NEW i \in Positions, SchunkDelete(i)
  PROVE  Follows
<1> DEFINE call == [name |-> "delete", n |-> i]
           r == DeleteChunk(store, i)
           m == RemoveAt(l, i)
<1>1. store' = r.st /\ answer'.call = call /\ answer'.ok = r.ok /\ ~Avoided(store, call, r)
  <2> HIDE DEF call, r
  <2>1. Answers(call, r)
    BY DEF SchunkDelete, call, r
  <2> QED BY <2>1, AnswersWith
<1>2. store.nchunks = Len(l) /\ Len(l) \in Nat /\ i \in Nat \ {0} /\ Len(Contents(l)) = Len(l)
  <2>1. i \in Nat \ {0}
    <3>1. MaxChunks \in Nat
      BY StoreAssumption DEF StoreAssumption
    <3> QED BY <3>1 DEF Positions
  <2>3. store.nchunks = Len(l) /\ Len(l) \in Nat
    BY Reads
  <2>4. Len(Contents(l)) = Len(l)
    BY ContentsAre
  <2> QED BY <2>1, <2>3, <2>4
<1> HIDE DEF r, m
<1>3. CASE i > Len(l)
  <2>1. r = Refuse(store)
    BY <1>2, <1>3 DEF r, DeleteChunk
  <2>2. store' = store /\ ~answer'.ok
    BY <1>1, <2>1 DEF Refuse
  <2>3. Seen(store) = Contents(l)
    BY <2>2, StepRefused
  <2>4. ~List!InRange(answer'.call)
    BY <1>1, <1>2, <1>3, <2>3 DEF List!InRange
  <2> QED BY <2>2, <2>4, StepRefused
<1>4. CASE i <= Len(l)
  <2>1. i \in 1 .. Len(l)
    BY <1>2, <1>4
  <2>2. Contents(m) = RemoveAt(Contents(l), i)
    BY <2>1, ContentsDeleted DEF m
  <2>3. Accepts(r, store, m, store.chunksize)
    BY <2>1, DeletesChunk DEF r, m
  <2>4. r.ok /\ r.st \in StoreSet /\ m \in Seq(ChunkSet) /\ Holds(r.st, m)
    BY <1>1, <2>3, AcceptedHolds
  <2>5. store' \in StoreSet /\ Holds(store', m) /\ answer'.ok
    BY <1>1, <2>4
  <2>6. Seen(store) = Contents(l)
    BY <2>4, <2>5, StepSucceeds
  <2>7. List!InRange(answer'.call) /\ Contents(m) = List!Done(answer'.call)
    <3> DEFINE called == answer'.call
    <3>1. called = call /\ call.name # "insert" /\ i \in 1 .. Len(Seen(store))
      BY <1>1, <1>2, <2>1, <2>6
    <3>2. List!InRange(call)
      BY <3>1 DEF List!InRange
    <3>3. List!Done(call) = Contents(m)
      BY <2>2, <2>6, SameOperators DEF List!Done
    <3> QED BY <3>1, <3>2, <3>3
  <2> QED BY <2>4, <2>5, <2>7, StepSucceeds
<1> QED BY <1>2, <1>3, <1>4

(* blosc2_schunk_reorder_offsets.                                          *)
LEMMA ReorderStep ==
  ASSUME Careful, store \in StoreSet, NEW l \in Seq(ChunkSet), Holds(store, l),
         NEW order \in [1 .. store.nchunks -> 1 .. store.nchunks], SchunkReorder(order)
  PROVE  Follows
<1> DEFINE call == [name |-> "reorder", order |-> order]
           r == ReorderOffsets(store, order)
           n == Len(l)
           m == [i \in 1 .. n |-> l[order[i]]]
<1>1. store' = r.st /\ answer'.call = call /\ answer'.ok = r.ok /\ ~Avoided(store, call, r)
  <2> HIDE DEF call, r
  <2>1. Answers(call, r)
    BY DEF SchunkReorder, call, r
  <2> QED BY <2>1, AnswersWith
<1>2. /\ store.nchunks = n /\ n \in Nat /\ \A i \in 1 .. n : GetChunk(store, i) = l[i]
  BY Reads
<1>3. Len(Contents(l)) = n /\ \A i \in 1 .. n : Contents(l)[i] = Content(l[i])
  BY ContentsAre
<1>4. order \in [1 .. n -> 1 .. n] /\ \A i \in 1 .. n : order[i] \in 1 .. n
  BY <1>2
<1>5. /\ store.chunksize > 0 => \A i \in 1 .. n : l[order[i]].nbytes = l[i].nbytes
      /\ ~InFrame(store) => store.room >= n
  <2> HIDE DEF r, n
  <2>1. /\ store.chunksize > 0 => \A i \in 1 .. n : GetChunk(store, order[i]).nbytes = GetChunk(store, i).nbytes
        /\ ~InFrame(store) => ~ store.room < n
    BY <1>1, <1>2 DEF Careful, Avoided
  <2>2. store.room \in Nat
    BY StoreFields
  <2>3. ASSUME store.chunksize > 0, NEW i \in 1 .. n PROVE l[order[i]].nbytes = l[i].nbytes
    <3>1. order[i] \in 1 .. n
      BY <1>4
    <3>2. GetChunk(store, i) = l[i] /\ GetChunk(store, order[i]) = l[order[i]]
      BY <1>2, <3>1
    <3> QED BY <2>1, <2>3, <3>2
  <2> QED BY <1>2, <2>1, <2>2, <2>3
<1>6. /\ Range(order) # 1 .. n => r = Refuse(store)
      /\ Range(order) = 1 .. n =>
           \/ Accepts(r, store, m, store.chunksize)
           \/ n = 0 /\ r = Refuse(store)
  BY <1>4, <1>5, Reorders
<1> HIDE DEF r
<1>7. CASE r = Refuse(store) /\ (Range(order) # 1 .. n \/ n = 0)
  <2>1. store' = store /\ ~answer'.ok
    BY <1>1, <1>7 DEF Refuse
  <2>2. Seen(store) = Contents(l)
    BY <2>1, StepRefused
  <2>3. List!InRange(answer'.call) => List!MayRefuse(answer'.call)
    <3>1. CASE n = 0
      <4>1. Seen(store) = <<>>
        BY <2>2, <3>1, ContentsAre
      <4> QED BY <1>1, <4>1 DEF List!MayRefuse
    <3>2. CASE Range(order) # 1 .. n
      <4>1. List!Range(order) # 1 .. Len(Seen(store))
        BY <1>3, <2>2, <3>2, SameOperators
      <4>2. ~List!InRange(call)
        BY <4>1 DEF List!InRange
      <4> QED BY <1>1, <4>2
    <3> QED BY <1>7, <3>1, <3>2
  <2> QED BY <2>1, <2>3, StepRefused
<1>8. CASE Accepts(r, store, m, store.chunksize) /\ Range(order) = 1 .. n
  <2> HIDE DEF m
  <2>1. r.ok /\ r.st \in StoreSet /\ m \in Seq(ChunkSet) /\ Holds(r.st, m)
    BY <1>1, <1>8, AcceptedHolds
  <2>2. store' \in StoreSet /\ Holds(store', m) /\ answer'.ok
    BY <1>1, <2>1
  <2>3. Seen(store) = Contents(l)
    BY <2>1, <2>2, StepSucceeds
  <2>4. Contents(m) = [i \in 1 .. Len(Contents(l)) |-> Contents(l)[order[i]]]
    <3>1. Contents(m) = [i \in 1 .. n |-> Content(l[order[i]])]
      <4>1. Len(m) = n /\ \A i \in 1 .. n : m[i] = l[order[i]]
        <5>1. m \in [1 .. n -> ChunkSet]
          <6> HIDE DEF n
          <6>1. \A i \in 1 .. n : l[order[i]] \in ChunkSet
            BY <1>4 DEF n
          <6> QED BY <6>1 DEF m
        <5>2. \A i \in 1 .. n : m[i] = l[order[i]]
          BY DEF m
        <5> HIDE DEF n
        <5> QED BY <1>2, <5>1, <5>2, ListIs
      <4> HIDE DEF n
      <4> QED BY <4>1 DEF Contents
    <3>2. \A i \in 1 .. n : Contents(l)[order[i]] = Content(l[order[i]])
      BY <1>3, <1>4
    <3> HIDE DEF n
    <3> QED BY <1>3, <3>1, <3>2
  <2>5. List!InRange(call)
    <3>1. List!Range(order) = 1 .. Len(Seen(store))
      BY <1>3, <1>8, <2>3, SameOperators
    <3> QED BY <3>1 DEF List!InRange
  <2>6. List!Done(call) = Contents(m)
    BY <2>3, <2>4 DEF List!Done
  <2> QED BY <1>1, <2>1, <2>2, <2>5, <2>6, StepSucceeds
<1> QED BY <1>6, <1>7, <1>8

(* blosc2_schunk_fill_special.                                             *)
LEMMA FillStep ==
  ASSUME store \in StoreSet, NEW l \in Seq(ChunkSet), Holds(store, l), NEW f \in Fills, SchunkFill(f)
  PROVE  Follows
<1> DEFINE call == [name |-> "fill", contents |-> FillContents(f)]
           r == FillSpecial(store, f)
           m == FillOf(f)
<1>1. store' = r.st /\ answer'.call = call /\ answer'.ok = r.ok
  <2> HIDE DEF call, r
  <2>1. Answers(call, r)
    BY DEF SchunkFill, call, r
  <2> QED BY <2>1, AnswersWith
<1>2. \/ r = Refuse(store)
      \/ Len(l) = 0 /\ Gives(r, store.where, m)
  BY FillsSpecial
<1>3. FillContents(f) = Contents(m)
  <2> HIDE DEF m
  <2> QED BY FillList DEF Contents, m
<1> HIDE DEF r, m
<1>4. CASE r = Refuse(store)
  <2>1. store' = store /\ ~answer'.ok
    BY <1>1, <1>4 DEF Refuse
  <2>2. List!InRange(call) => List!MayRefuse(call)
    BY DEF List!InRange, List!MayRefuse
  <2> QED BY <1>1, <2>1, <2>2, StepRefused
<1>5. CASE Len(l) = 0 /\ Gives(r, store.where, m)
  <2>1. r.ok /\ r.st \in StoreSet /\ m \in Seq(ChunkSet) /\ Holds(r.st, m)
    BY <1>5 DEF Gives, Done
  <2>2. store' \in StoreSet /\ Holds(store', m) /\ answer'.ok
    BY <1>1, <2>1
  <2>3. Seen(store) = <<>>
    BY <1>5, <2>1, <2>2, StepSucceeds, ContentsAre
  <2>4. List!InRange(call)
    BY <2>3 DEF List!InRange
  <2>5. List!Done(call) = Contents(m)
    BY <1>3 DEF List!Done
  <2> QED BY <1>1, <2>1, <2>2, <2>4, <2>5, StepSucceeds
<1> QED BY <1>2, <1>4, <1>5

(* A call that copies, opens or loads, and leaves what its caller sees.    *)
LEMMA SameContents ==
  ASSUME store \in StoreSet, NEW l \in Seq(ChunkSet), Holds(store, l),
         NEW m, NEW r, NEW where, Gives(r, where, m), Contents(m) = Contents(l),
         store' = r.st, answer'.ok = r.ok, answer'.call.name \in {"copy", "reopen", "load"}
  PROVE  Follows
<1>1. r.ok /\ r.st \in StoreSet /\ m \in Seq(ChunkSet) /\ Holds(r.st, m)
  BY DEF Gives, Done
<1>2. Seen(store) = Contents(l)
  BY <1>1, StepSucceeds
<1>3. List!InRange(answer'.call) /\ List!Done(answer'.call) = Contents(m)
  <2> DEFINE name == answer'.call.name
  <2>1. name # "insert" /\ name \notin {"update", "delete"} /\ name # "fill" /\ name # "reorder"
        /\ name # "append" /\ name # "update" /\ name # "delete"
    OBVIOUS
  <2>2. List!InRange(answer'.call)
    BY <2>1 DEF List!InRange
  <2>3. List!Done(answer'.call) = Seen(store)
    BY <2>1 DEF List!Done
  <2> QED BY <1>2, <2>2, <2>3
<1> QED BY <1>1, <1>3, StepSucceeds

(* blosc2_schunk_copy.                                                     *)
LEMMA CopyStep ==
  ASSUME Careful, store \in StoreSet, NEW l \in Seq(ChunkSet), Holds(store, l),
         NEW where \in Storages, NEW cb \in {Stored(c) : c \in Chunks}, SchunkCopy(where, cb)
  PROVE  Follows
<1> DEFINE call == [name |-> "copy", where |-> where, cb |-> cb]
           r == CopySchunk(store, where, cb)
           size == store.chunksize
           m == CopyOf(l, size, cb)
           n == Len(l)
<1>1. store' = r.st /\ answer'.call = call /\ answer'.ok = r.ok /\ ~Avoided(store, call, r)
  <2> HIDE DEF call, r
  <2>1. Answers(call, r)
    BY DEF SchunkCopy, call, r
  <2> QED BY <2>1, AnswersWith
<1>2. store.nchunks = n /\ n \in Nat /\ \A i \in 1 .. n : GetChunk(store, i) = l[i]
  BY Reads
<1>3. cb > 0 => \A i \in 1 .. n : l[i].nbytes = size
  <2> HIDE DEF r, n
  <2>1. cb > 0 => \A i \in 1 .. store.nchunks : GetChunk(store, i).nbytes = store.chunksize
    BY <1>1 DEF Careful, Avoided
  <2> QED BY <1>2, <2>1
<1>4. where # "memory" => Plain(l, size)
  <2> HIDE DEF r, n
  <2>1. where # "memory" /\ store.chunksize = 0 => ~HasSpecial(store)
    BY <1>1 DEF Careful, Avoided
  <2> QED BY <1>2, <2>1 DEF HasSpecial, Plain, n
<1>5. where \in {"memory", "cframe", "file", "sframe"}
  BY StoreAssumption DEF StoreAssumption
<1>6. Gives(r, where, m)
  BY <1>3, <1>4, <1>5, Copies
<1>7. Contents(m) = Contents(l)
  <2>1. Len(m) = n /\ \A i \in 1 .. n : Content(m[i]) = Content(l[i])
    BY <1>3, CopiesChunks
  <2> HIDE DEF m
  <2> QED BY <2>1 DEF Contents
<1> HIDE DEF r, m
<1> QED BY <1>1, <1>6, <1>7, SameContents

(* frame_to_schunk.                                                        *)
LEMMA ReopenStep ==
  ASSUME Careful, store \in StoreSet, NEW l \in Seq(ChunkSet), Holds(store, l), SchunkReopen
  PROVE  Follows
<1> DEFINE call == [name |-> "reopen"]
           r == Reopened(store)
<1>1. InFrame(store) /\ store' = r.st /\ answer'.call = call /\ answer'.ok = r.ok /\ ~Avoided(store, call, r)
  <2> HIDE DEF call, r
  <2>1. InFrame(store) /\ Answers(call, r)
    BY DEF SchunkReopen, call, r
  <2> QED BY <2>1, AnswersWith
<1>2. Sparse(store) => \A i \in DOMAIN store.offs : store.offs[i] >= 0 => store.offs[i] <= store.cbytes - Overhead
  <2> HIDE DEF r
  <2>1. Sparse(store) => \A i \in DOMAIN store.offs : store.offs[i] >= 0 => ~ store.offs[i] > store.cbytes - Overhead
    BY <1>1 DEF Careful, Avoided
  <2>2. \A i \in DOMAIN store.offs : store.offs[i] \in Int
    <3>1. store.offs \in Seq(Int)
      BY StoreFields
    <3> QED BY <3>1
  <2>3. store.cbytes \in Int /\ Overhead \in Int
    BY StoreFields, StoreAssumption DEF StoreAssumption
  <2> QED BY <2>1, <2>2, <2>3
<1>3. Gives(r, store.where, l)
  BY <1>1, <1>2, Reopens
<1> HIDE DEF r
<1> QED BY <1>1, <1>3, SameContents

(* blosc2_schunk_from_buffer.                                              *)
LEMMA LoadStep ==
  ASSUME store \in StoreSet, NEW l \in Seq(ChunkSet), Holds(store, l), SchunkLoad
  PROVE  Follows
<1> DEFINE call == [name |-> "load"]
           r == Loaded(store)
<1>1. Contiguous(store) /\ store' = r.st /\ answer'.call = call /\ answer'.ok = r.ok
  <2> HIDE DEF call, r
  <2>1. Contiguous(store) /\ Answers(call, r)
    BY DEF SchunkLoad, Contiguous, call, r
  <2> QED BY <2>1, AnswersWith
<1>2. Gives(r, "memory", l)
  BY <1>1, Loads
<1> HIDE DEF r
<1> QED BY <1>1, <1>2, SameContents

-----------------------------------------------------------------------------
(***************************************************************************)
(* The theorems.                                                           *)
(***************************************************************************)

(* The inductive invariant: the super-chunk holds some list.               *)
HoldsList == store \in StoreSet /\ \E l \in Seq(ChunkSet) : Holds(store, l)

(* A new super-chunk holds nothing, and its caller sees nothing.           *)
LEMMA HoldsInit == Init => HoldsList /\ Seen(store) = <<>>
<1> SUFFICES ASSUME Init PROVE HoldsList /\ Seen(store) = <<>>
  OBVIOUS
<1>1. PICK where \in Storages : store = New(where, -1)
  BY DEF Init
<1>2. where \in {"memory", "cframe", "file", "sframe"}
  BY StoreAssumption DEF StoreAssumption
<1>3. -1 \in Nat \cup {-1}
  OBVIOUS
<1>4. store \in StoreSet /\ Holds(store, <<>>)
  BY <1>1, <1>2, <1>3, NewHolds
<1>5. <<>> \in Seq(ChunkSet)
  OBVIOUS
<1>6. Seen(store) = <<>>
  <2>1. Seen(store) = [i \in 1 .. Len(<<>>) |-> Content(<<>>[i])]
    BY <1>4, <1>5, Reads
  <2> QED BY <2>1
<1> QED BY <1>4, <1>5, <1>6 DEF HoldsList

(* Every step keeps the invariant, and is a step of the list or none.      *)
LEMMA HoldsNext ==
  ASSUME Careful, HoldsList, [Next]_vars
  PROVE  HoldsList' /\ (List!Next \/ UNCHANGED <<Seen(store), answer>>)
<1>1. PICK l \in Seq(ChunkSet) : store \in StoreSet /\ Holds(store, l)
  BY DEF HoldsList
<1>2. ASSUME Follows PROVE HoldsList' /\ List!Next
  BY <1>2 DEF Follows, HoldsList
<1>3. CASE \E c \in Chunks : SchunkAppend(c)
  BY <1>1, <1>2, <1>3, AppendStep
<1>4. CASE \E i \in Positions, c \in Chunks : SchunkInsert(i, c)
  BY <1>1, <1>2, <1>4, InsertStep
<1>5. CASE \E i \in Positions, c \in Chunks : SchunkUpdate(i, c)
  BY <1>1, <1>2, <1>5, UpdateStep
<1>6. CASE \E i \in Positions : SchunkDelete(i)
  BY <1>1, <1>2, <1>6, DeleteStep
<1>7. CASE \E order \in [1 .. store.nchunks -> 1 .. store.nchunks] : SchunkReorder(order)
  BY <1>1, <1>2, <1>7, ReorderStep
<1>8. CASE \E f \in Fills : SchunkFill(f)
  BY <1>1, <1>2, <1>8, FillStep
<1>9. CASE \E where \in Storages, cb \in {Stored(c) : c \in Chunks} : SchunkCopy(where, cb)
  <2>1. PICK where \in Storages, cb \in {Stored(c) : c \in Chunks} : SchunkCopy(where, cb)
    BY <1>9
  <2>2. Follows
    BY <1>1, <2>1, CopyStep
  <2> QED BY <1>2, <2>2
<1>10. CASE SchunkReopen
  BY <1>1, <1>2, <1>10, ReopenStep
<1>11. CASE SchunkLoad
  BY <1>1, <1>2, <1>11, LoadStep
<1>12. CASE UNCHANGED vars
  <2>1. store' = store /\ answer' = answer
    BY <1>12 DEF vars
  <2>2. HoldsList'
    BY <1>1, <2>1 DEF HoldsList
  <2> QED BY <2>1, <2>2
<1> QED BY <1>3, <1>4, <1>5, <1>6, <1>7, <1>8, <1>9, <1>10, <1>11, <1>12 DEF Next

(* Whatever it is stored in, a super-chunk holds a list of chunks: what    *)
(* reading it gives (blosc2_schunk_get_chunk, frame_get_chunk).            *)
THEOREM HoldsAlways == Careful => (Spec => []HoldsList)
<1> SUFFICES ASSUME Careful PROVE Spec => []HoldsList
  OBVIOUS
<1>1. Init => HoldsList
  BY HoldsInit
<1>2. HoldsList /\ [Next]_vars => HoldsList'
  BY HoldsNext
<1> QED BY <1>1, <1>2, PTL DEF Spec

(* No sequence of calls leaves a chunk of another size before the last     *)
(* under a fixed chunk size: frame_get_chunk and get_header_info may rely  *)
(* on it.                                                                  *)
THEOREM SizesStayHonest == Careful => (Spec => []SizesHonest)
<1> SUFFICES ASSUME Careful PROVE Spec => []SizesHonest
  OBVIOUS
<1>1. HoldsList => SizesHonest
  BY HeldSizes DEF HoldsList
<1>2. Spec => []HoldsList
  BY HoldsAlways
<1> QED BY <1>1, <1>2, PTL

(* The counters of the handle, the header and the index agree with what    *)
(* the chunks add up to, after any sequence of calls.                      *)
THEOREM TotalsStayExact == Careful => (Spec => []TotalsExact)
<1> SUFFICES ASSUME Careful PROVE Spec => []TotalsExact
  OBVIOUS
<1>1. HoldsList => TotalsExact
  BY HeldTotals DEF HoldsList
<1>2. Spec => []HoldsList
  BY HoldsAlways
<1> QED BY <1>1, <1>2, PTL

(* Offsets lead to whole chunks, no two chunks share a cell or a file, and *)
(* a chunk file without a chunk is empty.                                  *)
THEOREM LayoutStaysSound == Careful => (Spec => []LayoutSound)
<1> SUFFICES ASSUME Careful PROVE Spec => []LayoutSound
  OBVIOUS
<1>1. HoldsList => LayoutSound
  BY HeldLayout DEF HoldsList
<1>2. Spec => []HoldsList
  BY HoldsAlways
<1> QED BY <1>1, <1>2, PTL

(* The super-chunk implements the list: each call does to what can be read *)
(* what its name says, or fails and changes nothing that can be read.      *)
THEOREM StoreIsChunkList == Careful => (Spec => IsChunkList)
<1> SUFFICES ASSUME Careful PROVE Spec => IsChunkList
  OBVIOUS
<1>1. Init => Seen(store) = <<>>
  BY HoldsInit
<1>2. HoldsList /\ [Next]_vars => [List!Next]_<<Seen(store), answer>>
  BY HoldsNext
<1>3. Spec => []HoldsList
  BY HoldsAlways
<1> QED BY <1>1, <1>2, <1>3, PTL DEF Spec, IsChunkList, List!Spec
=============================================================================
