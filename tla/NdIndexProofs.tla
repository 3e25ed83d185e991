---------------------------- MODULE NdIndexProofs ----------------------------
(***************************************************************************)
(* Induction over the length of a list, and what it gives about NdIndex:   *)
(* the recursive functions of that module satisfy their equations, the     *)
(* size of a shape is the product of a length, what is before it and what  *)
(* is behind it, and the places of a grid do not depend on its first       *)
(* length.                                                                 *)
(*                                                                         *)
(* The induction theorems of the library quantify over predicates.  The    *)
(* same principle stated for sets needs no predicate: a set with 0 in it   *)
(* that is closed under the successor holds every number, and the claim is *)
(* the definition of the set.                                              *)
(***************************************************************************)
EXTENDS NdIndex, TLAPS, WellFoundedInduction, SequenceTheorems

(* The order of the numbers is well founded: a nonempty set of lengths has *)
(* a least element.                                                        *)
LEMMA LeastElement ==
  ASSUME NEW T \in SUBSET Nat, T # {}
  PROVE  \E x \in T : \A y \in T : x <= y
<1> DEFINE R == {ss \in Nat \X Nat : ss[1] < ss[2]}
<1>1. IsWellFoundedOn(R, Nat)
  BY NatLessThanWellFounded, Zenon DEF OpToRel
<1>2. PICK x \in T : \A y \in T : ~ (<<y, x>> \in R)
  <2> HIDE DEF R
  <2> QED BY <1>1, WFMin, Zenon
<1>3. \A y \in T : ~ (y < x)
  <2> SUFFICES ASSUME NEW y \in T, y < x PROVE FALSE
    OBVIOUS
  <2>1. <<y, x>> \in R
    OBVIOUS
  <2> QED BY <2>1, <1>2
<1> QED BY <1>3

(* Induction, for the set of the numbers for which the claim holds.        *)
LEMMA SetInduction ==
  ASSUME NEW S, 0 \in S, \A n \in Nat : n \in S => n + 1 \in S
  PROVE  Nat \subseteq S
<1> DEFINE T == Nat \ S
<1> SUFFICES ASSUME T # {} PROVE FALSE
  OBVIOUS
<1>1. PICK x \in T : \A y \in T : x <= y
  <2>1. T \in SUBSET Nat
    OBVIOUS
  <2> HIDE DEF T
  <2> QED BY <2>1, LeastElement
<1>2. x - 1 \in Nat /\ x - 1 \notin T
  BY <1>1
<1> QED BY <1>2

(* A loop that runs through 1 .. n, each pass a function from the values   *)
(* there may be before it to those there may be after it, has a value      *)
(* after each pass.  T[k] is the invariant of the loop after pass k.       *)
Passes(step, n, T) == \A k \in 1 .. n : \A t \in T[k - 1] : step[k][t] \in T[k]
Loop(f, base, step, n, T) ==
  /\ f = [k \in 0 .. n |-> f[k]] /\ f[0] = base
  /\ \A k \in 0 .. n : f[k] \in T[k]
  /\ \A k \in 1 .. n : f[k] = step[k][f[k - 1]]

(* There are such values.                                                  *)
LEMMA LoopExists ==
  ASSUME NEW n \in Nat, NEW T, NEW base \in T[0], NEW step, Passes(step, n, T)
  PROVE  \E f : Loop(f, base, step, n, T)
<1> DEFINE S == {m \in Nat : m <= n => \E f : Loop(f, base, step, m, T)}
<1>1. 0 \in S
  <2> DEFINE f == [k \in 0 .. 0 |-> base]
  <2>1. f[0] = base /\ 0 .. 0 = {0}
    OBVIOUS
  <2>2. f = [k \in 0 .. 0 |-> f[k]]
    OBVIOUS
  <2>3. Loop(f, base, step, 0, T)
    <3> HIDE DEF f
    <3> QED BY <2>1, <2>2 DEF Loop
  <2> QED BY <2>3
<1>2. ASSUME NEW m \in Nat, m \in S PROVE m + 1 \in S
  <2> SUFFICES ASSUME m + 1 <= n PROVE \E f : Loop(f, base, step, m + 1, T)
    OBVIOUS
  <2>1. PICK f : Loop(f, base, step, m, T)
    BY <1>2
  <2> DEFINE g == [k \in 0 .. m + 1 |-> IF k = m + 1 THEN step[m + 1][f[m]] ELSE f[k]]
  <2>2. step[m + 1][f[m]] \in T[m + 1]
    <3>1. m + 1 \in 1 .. n /\ f[m] \in T[(m + 1) - 1]
      BY <2>1 DEF Loop
    <3> QED BY <3>1 DEF Passes
  <2>3. g = [k \in 0 .. m + 1 |-> g[k]]
    OBVIOUS
  <2>4. g[0] = base
    BY <2>1 DEF Loop
  <2>5. ASSUME NEW k \in 0 .. m + 1 PROVE g[k] \in T[k]
    BY <2>1, <2>2 DEF Loop
  <2>6. ASSUME NEW k \in 1 .. m + 1 PROVE g[k] = step[k][g[k - 1]]
    <3>1. CASE k = m + 1
      <4>1. g[k] = step[m + 1][f[m]] /\ g[k - 1] = f[m]
        BY <3>1
      <4> QED BY <4>1, <3>1
    <3>2. CASE k # m + 1
      <4>1. k \in 1 .. m /\ g[k] = f[k] /\ g[k - 1] = f[k - 1]
        BY <3>2
      <4> QED BY <4>1, <2>1 DEF Loop
    <3> QED BY <3>1, <3>2
  <2>7. Loop(g, base, step, m + 1, T)
    <3> HIDE DEF g
    <3> QED BY <2>3, <2>4, <2>5, <2>6 DEF Loop
  <2> QED BY <2>7
<1>3. Nat \subseteq S
  <2> HIDE DEF S
  <2> QED BY <1>1, <1>2, SetInduction
<1>4. n \in S
  BY <1>3
<1> QED BY <1>4

(* Induction up to a bound, and down from it.                              *)
LEMMA BoundedInduction ==
  ASSUME NEW n \in Nat, NEW S, 0 \in S, \A k \in 1 .. n : k - 1 \in S => k \in S
  PROVE  0 .. n \subseteq S
<1> DEFINE R == {m \in Nat : m <= n => m \in S}
<1>1. 0 \in R
  OBVIOUS
<1>2. \A m \in Nat : m \in R => m + 1 \in R
  <2> TAKE m \in Nat
  <2> HAVE m \in R
  <2> SUFFICES ASSUME m + 1 <= n PROVE m + 1 \in S
    OBVIOUS
  <2>1. m + 1 \in 1 .. n /\ (m + 1) - 1 = m /\ m \in S
    OBVIOUS
  <2> QED BY <2>1
<1>3. Nat \subseteq R
  <2> HIDE DEF R
  <2> QED BY <1>1, <1>2, SetInduction
<1> QED BY <1>3

(* What holds of n, and of each number below that follows one it holds of, *)
(* holds from 1 to n.                                                      *)
LEMMA DownwardInduction ==
  ASSUME NEW n \in Nat, NEW S, n \in S, \A k \in 1 .. n - 1 : k + 1 \in S => k \in S
  PROVE  1 .. n \subseteq S
<1> DEFINE R == {m \in Nat : m <= n - 1 => n - m \in S}
<1>1. 0 \in R
  OBVIOUS
<1>2. \A m \in Nat : m \in R => m + 1 \in R
  <2> TAKE m \in Nat
  <2> HAVE m \in R
  <2> SUFFICES ASSUME m + 1 <= n - 1 PROVE n - (m + 1) \in S
    OBVIOUS
  <2>1. n - (m + 1) \in 1 .. n - 1 /\ (n - (m + 1)) + 1 = n - m /\ n - m \in S
    OBVIOUS
  <2> QED BY <2>1
<1>3. Nat \subseteq R
  <2> HIDE DEF R
  <2> QED BY <1>1, <1>2, SetInduction
<1>4. ASSUME NEW k \in 1 .. n PROVE k \in S
  <2>1. n - k \in R /\ n - (n - k) = k
    BY <1>3
  <2> QED BY <2>1
<1> QED BY <1>4

(* A loop that does the same in each pass gives the same.                  *)
Alike(f, g, n) == f[0] = g[0] /\ \A k \in 1 .. n : f[k - 1] = g[k - 1] => f[k] = g[k]

(* The values after the passes are determined by the passes.               *)
LEMMA LoopUnique ==
  ASSUME NEW n \in Nat, NEW f, NEW g, Alike(f, g, n)
  PROVE  \A k \in 0 .. n : f[k] = g[k]
<1> DEFINE S == {k \in 0 .. n : f[k] = g[k]}
<1>1. 0 \in S /\ \A k \in 1 .. n : k - 1 \in S => k \in S
  BY DEF Alike
<1>2. 0 .. n \subseteq S
  <2> HIDE DEF S
  <2> QED BY <1>1, BoundedInduction
<1> QED BY <1>2

-----------------------------------------------------------------------------
(* The size of a shape is the last of the products of its first lengths.   *)
Products(size, shape) ==
  /\ size \in [0 .. Len(shape) -> Nat]
  /\ size[0] = 1
  /\ \A d \in 1 .. Len(shape) : size[d] = size[d - 1] * shape[d]

(* NdSize is the last of the products.                                     *)
LEMMA SizeProducts ==
  ASSUME NEW shape \in Seq(Nat)
  PROVE  \E size : Products(size, shape) /\ NdSize(shape) = size[Len(shape)]
<1> DEFINE n == Len(shape)
           Is(size) == size = [d \in 0 .. n |-> IF d = 0 THEN 1 ELSE size[d - 1] * shape[d]]
           step == [d \in 1 .. n |-> [t \in Nat |-> t * shape[d]]]
           T == [d \in 0 .. n |-> Nat]
<1>1. n \in Nat /\ \A d \in 1 .. n : shape[d] \in Nat
  OBVIOUS
<1>2. Passes(step, n, T)
  <2> SUFFICES ASSUME NEW k \in 1 .. n, NEW t \in Nat PROVE step[k][t] \in Nat
    <3>1. \A k \in 0 .. n : T[k] = Nat
      BY <1>1
    <3>2. \A k \in 1 .. n : k - 1 \in 0 .. n /\ k \in 0 .. n
      BY <1>1
    <3> HIDE DEF n, step, T
    <3> QED BY <3>1, <3>2 DEF Passes
  <2> QED BY <1>1
<1>3. PICK f : Loop(f, 1, step, n, T)
  <2> DEFINE one == 1
  <2>1. one \in T[0]
    BY <1>1
  <2>2. \E f : Loop(f, one, step, n, T)
    <3> HIDE DEF n, step, T, one
    <3> QED BY <1>1, <1>2, <2>1, LoopExists
  <2> QED BY <2>2
<1>31. f = [k \in 0 .. n |-> f[k]] /\ f[0] = 1 /\ (\A k \in 0 .. n : f[k] \in Nat)
      /\ \A k \in 1 .. n : f[k] = step[k][f[k - 1]]
  <2>1. f = [k \in 0 .. n |-> f[k]] /\ f[0] = 1 /\ (\A k \in 0 .. n : f[k] \in T[k])
        /\ \A k \in 1 .. n : f[k] = step[k][f[k - 1]]
    <3> HIDE DEF n, step, T
    <3> QED BY <1>3, Zenon DEF Loop
  <2>2. \A k \in 0 .. n : T[k] = Nat
    BY <1>1
  <2> HIDE DEF n, step, T
  <2>3. \A k \in 0 .. n : f[k] \in T[k]
    BY <2>1, Zenon
  <2>4. \A k \in 0 .. n : f[k] \in Nat
    BY <2>2, <2>3, Zenon
  <2> QED BY <2>1, <2>4, Zenon
<1>4. ASSUME NEW d \in 1 .. n PROVE f[d] = f[d - 1] * shape[d]
  <2>1. d - 1 \in 0 .. n
    BY <1>1
  <2>2. f[d - 1] \in Nat /\ f[d] = step[d][f[d - 1]]
    <3> HIDE DEF n, step
    <3> QED BY <1>31, <2>1
  <2> QED BY <2>2
<1>5. Is(f)
  <2>1. \A d \in 0 .. n : f[d] = IF d = 0 THEN 1 ELSE f[d - 1] * shape[d]
    <3>1. f[0] = 1
      BY <1>31
    <3>2. \A d \in 0 .. n : d # 0 => d \in 1 .. n
      BY <1>1
    <3> HIDE DEF n
    <3> QED BY <3>1, <3>2, <1>4
  <2>2. f = [k \in 0 .. n |-> f[k]]
    BY <1>31
  <2> HIDE DEF n
  <2>3. [k \in 0 .. n |-> f[k]] = [d \in 0 .. n |-> IF d = 0 THEN 1 ELSE f[d - 1] * shape[d]]
    BY <2>1
  <2> QED BY <2>2, <2>3, Zenon
<1>6. PICK size : size = (CHOOSE s : Is(s))
  OBVIOUS
<1>7. Is(size)
  <2> HIDE DEF Is
  <2> QED BY <1>5, <1>6
<1>8. \A d \in 0 .. n : size[d] = f[d]
  <2>1. size[0] = f[0] /\ \A d \in 1 .. n : size[d] = size[d - 1] * shape[d]
    <3>1. f[0] = 1
      BY <1>31
    <3> HIDE DEF n
    <3>2. size[0] = 1 /\ \A d \in 1 .. n : d \in 0 .. n /\ size[d] = size[d - 1] * shape[d]
      BY <1>1, <1>7
    <3> QED BY <3>1, <3>2
  <2>2. \A d \in 1 .. n : size[d - 1] = f[d - 1] => size[d] = f[d]
    BY <2>1, <1>4
  <2>3. Alike(size, f, n)
    BY <2>1, <2>2 DEF Alike
  <2> HIDE DEF n
  <2> QED BY <1>1, <2>3, LoopUnique
<1>9. NdSize(shape) = size[n]
  BY <1>6 DEF NdSize
<1>10. Products(f, shape)
  BY <1>31, <1>4 DEF Products
<1>11. n \in 0 .. n
  BY <1>1
<1>12. NdSize(shape) = f[n]
  BY <1>8, <1>9, <1>11
<1> QED BY <1>10, <1>12

(* The strides are the products of the lengths behind.                     *)
Strides(st, shape) ==
  /\ st \in [1 .. Len(shape) -> Nat]
  /\ \A d \in 1 .. Len(shape) : st[d] = IF d = Len(shape) THEN 1 ELSE shape[d + 1] * st[d + 1]

(* NdStrides gives them.                                                   *)
LEMMA StrideProducts ==
  ASSUME NEW shape \in Seq(Nat)
  PROVE  Strides(NdStrides(shape), shape)
<1> DEFINE n == Len(shape)
           Is(s) == s = [d \in 1 .. n |-> IF d = n THEN 1 ELSE shape[d + 1] * s[d + 1]]
           step == [k \in 1 .. n |-> [t \in Nat |-> shape[n + 1 - k] * t]]
           T == [k \in 0 .. n |-> Nat]
<1>1. n \in Nat /\ \A d \in 1 .. n : shape[d] \in Nat
  OBVIOUS
<1>2. Passes(step, n, T)
  <2> SUFFICES ASSUME NEW k \in 1 .. n, NEW t \in Nat PROVE step[k][t] \in Nat
    <3>1. \A k \in 0 .. n : T[k] = Nat
      BY <1>1
    <3>2. \A k \in 1 .. n : k - 1 \in 0 .. n /\ k \in 0 .. n
      BY <1>1
    <3> HIDE DEF n, step, T
    <3> QED BY <3>1, <3>2 DEF Passes
  <2>1. n + 1 - k \in 1 .. n /\ step[k][t] = shape[n + 1 - k] * t
    BY <1>1
  <2>2. shape[n + 1 - k] \in Nat
    BY <1>1, <2>1
  <2>3. shape[n + 1 - k] * t \in Nat
    BY <2>2
  <2> HIDE DEF n, step
  <2> QED BY <2>1, <2>3
<1>3. PICK f : Loop(f, 1, step, n, T)
  <2> DEFINE one == 1
  <2>1. one \in T[0]
    BY <1>1
  <2>2. \E f : Loop(f, one, step, n, T)
    <3> HIDE DEF n, step, T, one
    <3> QED BY <1>1, <1>2, <2>1, LoopExists
  <2> QED BY <2>2
<1>31. f = [k \in 0 .. n |-> f[k]] /\ f[0] = 1 /\ (\A k \in 0 .. n : f[k] \in Nat)
      /\ \A k \in 1 .. n : f[k] = step[k][f[k - 1]]
  <2>1. f = [k \in 0 .. n |-> f[k]] /\ f[0] = 1 /\ (\A k \in 0 .. n : f[k] \in T[k])
        /\ \A k \in 1 .. n : f[k] = step[k][f[k - 1]]
    <3> HIDE DEF n, step, T
    <3> QED BY <1>3, Zenon DEF Loop
  <2>2. \A k \in 0 .. n : T[k] = Nat
    BY <1>1
  <2> HIDE DEF n, step, T
  <2>3. \A k \in 0 .. n : f[k] \in T[k]
    BY <2>1, Zenon
  <2>4. \A k \in 0 .. n : f[k] \in Nat
    BY <2>2, <2>3, Zenon
  <2> QED BY <2>1, <2>4, Zenon
<1> DEFINE g == [d \in 1 .. n |-> f[n - d]]
<1>4. g \in [1 .. n -> Nat]
  BY <1>1, <1>31
<1>5. ASSUME NEW d \in 1 .. n
      PROVE g[d] = IF d = n THEN 1 ELSE shape[d + 1] * g[d + 1]
  <2>1. CASE d = n
    BY <2>1, <1>1, <1>31
  <2>2. CASE d # n
    <3>1. n - d \in 1 .. n /\ d + 1 \in 1 .. n /\ (n - d) - 1 = n - (d + 1) /\ n + 1 - (n - d) = d + 1
      BY <1>1, <2>2
    <3>2. g[d] = f[n - d] /\ g[d + 1] = f[(n - d) - 1] /\ f[(n - d) - 1] \in Nat
      BY <1>1, <3>1, <1>31, <1>4
    <3>3. f[n - d] = step[n - d][f[(n - d) - 1]]
      <4> HIDE DEF n, step
      <4> QED BY <1>31, <3>1
    <3>4. f[n - d] = shape[d + 1] * f[(n - d) - 1]
      BY <3>1, <3>2, <3>3
    <3> QED BY <2>2, <3>2, <3>4
  <2> QED BY <2>1, <2>2
<1>6. Is(g)
  <2>1. g = [d \in 1 .. n |-> g[d]]
    OBVIOUS
  <2> HIDE DEF g, n
  <2> QED BY <1>5, <2>1
<1>7. PICK s : s = (CHOOSE x : Is(x))
  OBVIOUS
<1>8. Is(s)
  <2> HIDE DEF Is
  <2> QED BY <1>6, <1>7
<1>9. NdStrides(shape) = [d \in 1 .. n |-> s[d]]
  BY <1>7 DEF NdStrides
<1>10. \A d \in 1 .. n : s[d] = g[d]
  <2> DEFINE S == {d \in 1 .. n : s[d] = g[d]}
  <2>1. CASE n = 0
    BY <2>1
  <2>2. CASE n # 0
    <3>1. n \in S
      BY <1>1, <1>5, <1>8, <2>2
    <3>2. ASSUME NEW k \in 1 .. n - 1, k + 1 \in S PROVE k \in S
      <4>1. k \in 1 .. n /\ k # n
        BY <1>1
      <4>2. s[k] = shape[k + 1] * s[k + 1]
        <5> HIDE DEF n
        <5> QED BY <4>1, <1>8
      <4>3. g[k] = shape[k + 1] * g[k + 1]
        <5> HIDE DEF g
        <5> QED BY <4>1, <1>5
      <4> QED BY <4>1, <4>2, <4>3, <3>2
    <3>3. 1 .. n \subseteq S
      <4> HIDE DEF S, n
      <4> QED BY <1>1, <3>1, <3>2, DownwardInduction
    <3> QED BY <3>3
  <2> QED BY <2>1, <2>2
<1>11. NdStrides(shape) = g
  BY <1>9, <1>10
<1>12. g \in [1 .. Len(shape) -> Nat] /\ \A d \in 1 .. Len(shape) :
         g[d] = IF d = Len(shape) THEN 1 ELSE shape[d + 1] * g[d + 1]
  <2> HIDE DEF g
  <2> QED BY <1>4, <1>5
<1> QED
  <2> HIDE DEF g
  <2> QED BY <1>11, <1>12 DEF Strides

(* A shape is cut at any length into what is before it and what is behind. *)
LEMMA SizeSplit ==
  ASSUME NEW shape \in Seq(Nat), NEW size, Products(size, shape), NEW d \in 1 .. Len(shape)
  PROVE  size[Len(shape)] = size[d - 1] * (shape[d] * NdStrides(shape)[d])
<1> DEFINE n == Len(shape)
           st == NdStrides(shape)
           S == {e \in 1 .. n : size[n] = size[e - 1] * (shape[e] * st[e])}
<1>1. n \in Nat /\ \A e \in 1 .. n : shape[e] \in Nat
  OBVIOUS
<1>2. Strides(st, shape)
  BY StrideProducts
<1>3. ASSUME NEW e \in 1 .. n
      PROVE  /\ size[e] = size[e - 1] * shape[e] /\ size[e] \in Nat /\ size[e - 1] \in Nat
             /\ st[e] = (IF e = n THEN 1 ELSE shape[e + 1] * st[e + 1]) /\ st[e] \in Nat
  <2>1. e \in 0 .. n /\ e - 1 \in 0 .. n
    BY <1>1
  <2> HIDE DEF n, st
  <2> QED BY <1>2, <2>1 DEF Products, Strides, n
<1>4. n \in S
  <2>1. n \in 1 .. n
    BY <1>1
  <2>2. size[n] = size[n - 1] * shape[n] /\ st[n] = 1 /\ shape[n] \in Nat
    BY <1>1, <1>3, <2>1
  <2> HIDE DEF n, st
  <2> QED BY <2>1, <2>2
<1>5. ASSUME NEW k \in 1 .. n - 1, k + 1 \in S PROVE k \in S
  <2>1. k \in 1 .. n /\ k + 1 \in 1 .. n /\ k # n /\ (k + 1) - 1 = k
    BY <1>1
  <2>2. size[n] = size[k] * (shape[k + 1] * st[k + 1])
    BY <2>1, <1>5
  <2>3. st[k] = shape[k + 1] * st[k + 1] /\ size[k] = size[k - 1] * shape[k]
    BY <2>1, <1>3
  <2>4. size[n] = (size[k - 1] * shape[k]) * st[k]
    BY <2>2, <2>3
  <2>5. size[k - 1] \in Nat /\ shape[k] \in Nat /\ st[k] \in Nat
    BY <2>1, <1>1, <1>3
  <2>6. \A a, b, c \in Nat : (a * b) * c = a * (b * c)
    OBVIOUS
  <2>7. size[n] = size[k - 1] * (shape[k] * st[k])
    BY <2>4, <2>5, <2>6
  <2> HIDE DEF n, st
  <2> QED BY <2>1, <2>7
<1>6. 1 .. n \subseteq S
  <2> HIDE DEF S, n, st
  <2> QED BY <1>1, <1>4, <1>5, DownwardInduction
<1> QED BY <1>6

-----------------------------------------------------------------------------
(* Two shapes that differ in the length of axis a, as before and after a   *)
(* resize along it.                                                        *)
DifferAt(s, t, a) ==
  /\ s \in Seq(Nat) /\ t \in Seq(Nat) /\ Len(s) = Len(t) /\ a \in 1 .. Len(s)
  /\ \A d \in 1 .. Len(s) : d # a => s[d] = t[d] /\ s[d] > 0

(* What is behind the axis has the same strides in both.                   *)
LEMMA StridesBehind ==
  ASSUME NEW s, NEW t, NEW a, DifferAt(s, t, a)
  PROVE  \A d \in a .. Len(s) : NdStrides(s)[d] = NdStrides(t)[d] /\ NdStrides(s)[d] > 0
<1> DEFINE n == Len(s)
           u == NdStrides(s)
           v == NdStrides(t)
           S == {d \in 1 .. n : d >= a => u[d] = v[d] /\ u[d] > 0}
<1>1. n \in Nat /\ Len(t) = n /\ a \in 1 .. n
  BY DEF DifferAt
<1>2. Strides(u, s) /\ Strides(v, t)
  BY StrideProducts DEF DifferAt
<1>3. ASSUME NEW d \in 1 .. n
      PROVE  /\ u[d] = (IF d = n THEN 1 ELSE s[d + 1] * u[d + 1]) /\ u[d] \in Nat
             /\ v[d] = (IF d = n THEN 1 ELSE t[d + 1] * v[d + 1]) /\ v[d] \in Nat
  <2> HIDE DEF u, v
  <2> QED BY <1>1, <1>2 DEF Strides
<1>4. n \in S
  <2> HIDE DEF u, v, n
  <2> QED BY <1>1, <1>3
<1>5. ASSUME NEW k \in 1 .. n - 1, k + 1 \in S PROVE k \in S
  <2> SUFFICES ASSUME k >= a PROVE u[k] = v[k] /\ u[k] > 0
    BY <1>1
  <2>1. k \in 1 .. n /\ k + 1 \in 1 .. n /\ k # n /\ k + 1 >= a /\ k + 1 # a
    BY <1>1
  <2>2. u[k] = s[k + 1] * u[k + 1] /\ v[k] = t[k + 1] * v[k + 1] /\ u[k + 1] = v[k + 1]
        /\ u[k + 1] \in Nat /\ u[k + 1] > 0
    <3> HIDE DEF u, v
    <3> QED BY <2>1, <1>3, <1>5
  <2>3. s[k + 1] = t[k + 1] /\ s[k + 1] > 0 /\ s[k + 1] \in Nat
    BY <2>1, SMTT(20) DEF DifferAt
  <2>4. \A x, y \in Nat : x > 0 /\ y > 0 => x * y > 0
    OBVIOUS
  <2> HIDE DEF u, v
  <2> QED BY <2>2, <2>3, <2>4
<1>6. 1 .. n \subseteq S
  <2> HIDE DEF S, n
  <2> QED BY <1>1, <1>4, <1>5, DownwardInduction
<1>7. \A d \in a .. n : d \in 1 .. n /\ d >= a
  BY <1>1
<1> QED
  <2> HIDE DEF n, u, v
  <2>1. \A d \in a .. n : u[d] = v[d] /\ u[d] > 0
    BY <1>6, <1>7
  <2> QED BY <2>1 DEF n, u, v

(* What is before it has the same products.                                *)
LEMMA ProductsBefore ==
  ASSUME NEW s, NEW t, NEW a, DifferAt(s, t, a), NEW p, NEW q, Products(p, s), Products(q, t)
  PROVE  p[a - 1] = q[a - 1] /\ p[a - 1] > 0 /\ p[a - 1] \in Nat
<1> DEFINE n == Len(s)
           S == {d \in 0 .. n : d <= a - 1 => p[d] = q[d] /\ p[d] > 0}
<1>1. n \in Nat /\ Len(t) = n /\ a \in 1 .. n
  BY DEF DifferAt
<1>2. 0 \in S
  BY <1>1 DEF Products
<1>3. ASSUME NEW k \in 1 .. n, k - 1 \in S PROVE k \in S
  <2> SUFFICES ASSUME k <= a - 1 PROVE p[k] = q[k] /\ p[k] > 0
    BY <1>1
  <2>1. k # a /\ k - 1 \in 0 .. n
    BY <1>1
  <2>2. s[k] = t[k] /\ s[k] > 0 /\ s[k] \in Nat
    BY <2>1 DEF DifferAt
  <2>3. p[k] = p[k - 1] * s[k] /\ q[k] = q[k - 1] * t[k] /\ p[k - 1] \in Nat
    BY <1>1, <2>1 DEF Products
  <2>4. p[k - 1] = q[k - 1] /\ p[k - 1] > 0
    BY <1>1, <1>3
  <2>5. \A x, y \in Nat : x > 0 /\ y > 0 => x * y > 0
    OBVIOUS
  <2> QED BY <2>2, <2>3, <2>4, <2>5
<1>4. 0 .. n \subseteq S
  <2> HIDE DEF S, n
  <2> QED BY <1>1, <1>2, <1>3, BoundedInduction
<1>5. a - 1 \in 0 .. n /\ a - 1 <= a - 1
  BY <1>1
<1>6. p[a - 1] = q[a - 1] /\ p[a - 1] > 0
  <2>1. a - 1 \in S
    <3> HIDE DEF S, n
    <3> QED BY <1>4, <1>5
  <2> QED BY <2>1, <1>5
<1>7. p[a - 1] \in Nat
  BY <1>5 DEF Products
<1> QED BY <1>6, <1>7

(* Both sizes are the length of the axis times the same two numbers, which *)
(* are not zero; the second is the stride of the axis.                     *)
THEOREM GridSplit ==
  ASSUME NEW s, NEW t, NEW a, DifferAt(s, t, a)
  PROVE  \E before, after \in Nat \ {0} :
           /\ NdSize(s) = before * (s[a] * after) /\ NdSize(t) = before * (t[a] * after)
           /\ NdStrides(s)[a] = after /\ NdStrides(t)[a] = after
           /\ IF a = 1 THEN before = 1
              ELSE NdStrides(s)[a - 1] = s[a] * after /\ NdStrides(t)[a - 1] = t[a] * after
<1>1. s \in Seq(Nat) /\ t \in Seq(Nat) /\ Len(t) = Len(s) /\ a \in 1 .. Len(s) /\ Len(s) \in Nat
  BY DEF DifferAt
<1>2. PICK p : Products(p, s) /\ NdSize(s) = p[Len(s)]
  BY <1>1, SizeProducts
<1>3. PICK q : Products(q, t) /\ NdSize(t) = q[Len(t)]
  BY <1>1, SizeProducts
<1>4. p[a - 1] = q[a - 1] /\ p[a - 1] \in Nat \ {0}
  BY <1>2, <1>3, ProductsBefore
<1>5. NdStrides(s)[a] = NdStrides(t)[a] /\ NdStrides(s)[a] > 0
  <2>1. a \in a .. Len(s)
    BY <1>1
  <2> QED BY <2>1, StridesBehind
<1>6. Strides(NdStrides(s), s) /\ Strides(NdStrides(t), t)
  BY <1>1, StrideProducts
<1>7. NdStrides(s)[a] \in Nat \ {0}
  <2>1. NdStrides(s)[a] \in Nat
    BY <1>1, <1>6 DEF Strides
  <2> QED BY <2>1, <1>5
<1>8. NdSize(s) = p[a - 1] * (s[a] * NdStrides(s)[a])
  BY <1>1, <1>2, SizeSplit
<1>9. NdSize(t) = q[a - 1] * (t[a] * NdStrides(t)[a])
  BY <1>1, <1>3, SizeSplit
<1>10. a = 1 => p[a - 1] = 1
  BY <1>2 DEF Products
<1>11. a # 1 => /\ NdStrides(s)[a - 1] = s[a] * NdStrides(s)[a]
                /\ NdStrides(t)[a - 1] = t[a] * NdStrides(t)[a]
  <2> SUFFICES ASSUME a # 1 PROVE /\ NdStrides(s)[a - 1] = s[a] * NdStrides(s)[a]
                                  /\ NdStrides(t)[a - 1] = t[a] * NdStrides(t)[a]
    OBVIOUS
  <2>1. a - 1 \in 1 .. Len(s) /\ a - 1 # Len(s) /\ (a - 1) + 1 = a
    BY <1>1
  <2> QED BY <1>1, <1>6, <2>1 DEF Strides
<1> QED BY <1>4, <1>5, <1>7, <1>8, <1>9, <1>10, <1>11

(* The position of place i on an axis is a digit of i.                     *)
LEMMA PositionOnAxis ==
  ASSUME NEW s, NEW t, NEW a, DifferAt(s, t, a), NEW i \in 0 .. NdSize(t) - 1
  PROVE  UnidimToMultidim(t, i)[a] = (i % (t[a] * NdStrides(t)[a])) \div NdStrides(t)[a]
<1>1. PICK before, after \in Nat \ {0} :
         /\ NdSize(t) = before * (t[a] * after) /\ NdStrides(t)[a] = after
         /\ IF a = 1 THEN before = 1 ELSE NdStrides(t)[a - 1] = t[a] * after
  BY GridSplit
<1>2. a \in DOMAIN t /\ t[a] \in Nat
  BY DEF DifferAt
<1>3. UnidimToMultidim(t, i)[a] =
        IF a = 1 THEN i \div NdStrides(t)[1] ELSE (i % NdStrides(t)[a - 1]) \div NdStrides(t)[a]
  BY <1>2 DEF UnidimToMultidim
<1>4. CASE a = 1
  <2> DEFINE N == t[a] * after
  <2>1. i \in 0 .. N - 1 /\ N \in Nat
    BY <1>1, <1>2, <1>4
  <2>2. i % N = i
    <3> HIDE DEF N
    <3> QED BY <2>1
  <2> QED BY <1>1, <1>3, <1>4, <2>2
<1>5. CASE a # 1
  BY <1>1, <1>3, <1>5
<1> QED BY <1>4, <1>5

(* Growth along the first axis moves no place.                             *)
THEOREM PlaceFixed ==
  ASSUME NEW s, NEW t, DifferAt(s, t, 1), NEW i \in Nat
  PROVE  UnidimToMultidim(s, i) = UnidimToMultidim(t, i)
<1>1. s \in Seq(Nat) /\ t \in Seq(Nat) /\ Len(t) = Len(s) /\ Len(s) \in Nat \ {0}
  BY DEF DifferAt
<1>2. DOMAIN s = 1 .. Len(s) /\ DOMAIN t = 1 .. Len(s)
  BY <1>1
<1>3. \A d \in 1 .. Len(s) : NdStrides(s)[d] = NdStrides(t)[d]
  BY StridesBehind
<1>4. ASSUME NEW d \in 1 .. Len(s)
      PROVE  (IF d = 1 THEN i \div NdStrides(s)[1] ELSE (i % NdStrides(s)[d - 1]) \div NdStrides(s)[d])
             = (IF d = 1 THEN i \div NdStrides(t)[1] ELSE (i % NdStrides(t)[d - 1]) \div NdStrides(t)[d])
  <2>1. d # 1 => d - 1 \in 1 .. Len(s)
    BY <1>1
  <2>2. 1 \in 1 .. Len(s)
    BY <1>1
  <2> QED BY <1>3, <2>1, <2>2
<1> QED BY <1>2, <1>4 DEF UnidimToMultidim

-----------------------------------------------------------------------------
(* Of the first i places, those whose place in a period of p is below c.   *)
Kept(i, p, c) == (i \div p) * c + (IF i % p < c THEN i % p ELSE c)

(* Division with remainder, when the dividend grows by one.                *)
LEMMA DivStep ==
  ASSUME NEW i \in Nat, NEW p \in Nat \ {0}
  PROVE  /\ (i + 1) % p = IF (i % p) + 1 = p THEN 0 ELSE (i % p) + 1
         /\ (i + 1) \div p = IF (i % p) + 1 = p THEN (i \div p) + 1 ELSE i \div p
         /\ i % p \in 0 .. p - 1 /\ i \div p \in Nat
  OBVIOUS

(* A quotient is below m when the dividend is below m times the divisor.   *)
LEMMA DivBelow ==
  ASSUME NEW x \in Nat, NEW y \in Nat \ {0}, NEW m \in Nat
  PROVE  x \div y < m <=> x < m * y
  OBVIOUS

(* One more place is kept when its place in the period is below c.         *)
LEMMA KeptStep ==
  ASSUME NEW i \in Nat, NEW p \in Nat \ {0}, NEW c \in 0 .. p
  PROVE  /\ Kept(i + 1, p, c) = Kept(i, p, c) + (IF i % p < c THEN 1 ELSE 0)
         /\ Kept(i, p, c) \in Nat /\ Kept(i + 1, p, c) \in Nat
<1> DEFINE q == i \div p
           r == i % p
           q1 == (i + 1) \div p
           r1 == (i + 1) % p
<1>1. /\ r1 = IF r + 1 = p THEN 0 ELSE r + 1
      /\ q1 = IF r + 1 = p THEN q + 1 ELSE q
      /\ r \in 0 .. p - 1 /\ q \in Nat
  BY DivStep
<1>2. c \in Nat /\ c <= p
  OBVIOUS
<1>3. (q + 1) * c = q * c + c /\ q * c \in Nat
  <2> HIDE DEF q, r
  <2> QED BY <1>1, <1>2
<1>4. q1 * c = IF r + 1 = p THEN q * c + c ELSE q * c
  <2> HIDE DEF q, r, q1
  <2> QED BY <1>1, <1>3
<1>5. /\ q1 * c + (IF r1 < c THEN r1 ELSE c)
         = q * c + (IF r < c THEN r ELSE c) + (IF r < c THEN 1 ELSE 0)
      /\ q * c + (IF r < c THEN r ELSE c) \in Nat
      /\ q1 * c + (IF r1 < c THEN r1 ELSE c) \in Nat
  <2> DEFINE z == q * c
             z1 == q1 * c
  <2>1. z \in Nat /\ z1 = IF r + 1 = p THEN z + c ELSE z
    BY <1>3, <1>4
  <2> HIDE DEF q, r, q1, r1, z, z1
  <2>2. /\ z1 + (IF r1 < c THEN r1 ELSE c)
           = z + (IF r < c THEN r ELSE c) + (IF r < c THEN 1 ELSE 0)
        /\ z + (IF r < c THEN r ELSE c) \in Nat
        /\ z1 + (IF r1 < c THEN r1 ELSE c) \in Nat
    BY <1>1, <1>2, <2>1
  <2> QED BY <2>2 DEF z, z1
<1> QED BY <1>5 DEF Kept

(* None of no places is kept, and c of every period of p.                  *)
LEMMA KeptEnds ==
  ASSUME NEW b \in Nat, NEW p \in Nat \ {0}, NEW c \in 0 .. p
  PROVE  Kept(0, p, c) = 0 /\ Kept(b * p, p, c) = b * c
<1>1. (b * p) % p = 0 /\ (b * p) \div p = b /\ 0 % p = 0 /\ 0 \div p = 0
  OBVIOUS
<1> QED BY <1>1 DEF Kept

(* The more places, the more are kept.                                     *)
LEMMA KeptGrows ==
  ASSUME NEW n \in Nat, NEW i \in 0 .. n, NEW p \in Nat \ {0}, NEW c \in 0 .. p
  PROVE  Kept(i, p, c) <= Kept(n, p, c)
<1> DEFINE S == {j \in Nat : \A k \in 0 .. j : Kept(k, p, c) <= Kept(j, p, c)}
<1>1. 0 \in S
  <2>1. Kept(0, p, c) \in Nat
    BY KeptStep
  <2> QED BY <2>1
<1>2. ASSUME NEW j \in Nat, j \in S PROVE j + 1 \in S
  <2> SUFFICES ASSUME NEW k \in 0 .. j + 1 PROVE Kept(k, p, c) <= Kept(j + 1, p, c)
    OBVIOUS
  <2>1. /\ Kept(j + 1, p, c) = Kept(j, p, c) + (IF j % p < c THEN 1 ELSE 0)
        /\ Kept(j, p, c) \in Nat /\ Kept(j + 1, p, c) \in Nat
    BY KeptStep
  <2>2. Kept(j, p, c) <= Kept(j + 1, p, c)
    BY <2>1
  <2>3. CASE k = j + 1
    BY <2>1, <2>3
  <2>4. CASE k # j + 1
    <3>1. Kept(k, p, c) <= Kept(j, p, c)
      BY <1>2, <2>4
    <3>2. Kept(k, p, c) \in Nat
      BY KeptStep
    <3> QED BY <2>1, <2>2, <3>1, <3>2
  <2> QED BY <2>3, <2>4
<1>3. Nat \subseteq S
  <2> HIDE DEF S
  <2> QED BY <1>1, <1>2, SetInduction
<1> QED BY <1>3

(* No more places are kept than there are.                                 *)
LEMMA KeptBelow ==
  ASSUME NEW i \in Nat, NEW p \in Nat \ {0}, NEW c \in 0 .. p
  PROVE  Kept(i, p, c) <= i
<1> DEFINE S == {j \in Nat : Kept(j, p, c) <= j}
<1>1. 0 \in S
  <2>1. Kept(0, p, c) = 0
    BY KeptEnds
  <2> QED BY <2>1
<1>2. ASSUME NEW j \in Nat, j \in S PROVE j + 1 \in S
  <2>1. /\ Kept(j + 1, p, c) = Kept(j, p, c) + (IF j % p < c THEN 1 ELSE 0)
        /\ Kept(j, p, c) \in Nat /\ Kept(j, p, c) <= j
    BY <1>2, KeptStep
  <2> QED BY <2>1
<1>3. Nat \subseteq S
  <2> HIDE DEF S
  <2> QED BY <1>1, <1>2, SetInduction
<1> QED BY <1>3

-----------------------------------------------------------------------------
(* Insertion into a list and removal from it.                              *)
LEMMA Inserted ==
  ASSUME NEW S, NEW s \in Seq(S), NEW k \in 1 .. Len(s) + 1, NEW e \in S
  PROVE  /\ InsertAt(s, k, e) \in Seq(S) /\ Len(InsertAt(s, k, e)) = Len(s) + 1
         /\ \A j \in 1 .. Len(s) + 1 :
              InsertAt(s, k, e)[j] = IF j < k THEN s[j] ELSE IF j = k THEN e ELSE s[j - 1]
<1> DEFINE n == Len(s)
           a == SubSeq(s, 1, k - 1)
           b == SubSeq(s, k, n)
<1>1. n \in Nat /\ k \in Nat /\ \A i \in 1 .. n : s[i] \in S
  OBVIOUS
<1>2. a \in Seq(S) /\ Len(a) = k - 1 /\ \A i \in 1 .. k - 1 : a[i] = s[i]
  <2>1. k - 1 \in Int /\ \A i \in 1 .. k - 1 : s[i] \in S
    BY <1>1
  <2>2. a \in Seq(S) /\ Len(a) = (IF 1 <= k - 1 THEN (k - 1) - 1 + 1 ELSE 0)
        /\ \A i \in 1 .. (k - 1) - 1 + 1 : a[i] = s[1 + i - 1]
    BY <2>1, SubSeqProperties
  <2> HIDE DEF a, n
  <2> QED BY <1>1, <2>2
<1>3. b \in Seq(S) /\ Len(b) = n - k + 1 /\ \A i \in 1 .. n - k + 1 : b[i] = s[k + i - 1]
  <2>1. \A i \in k .. n : s[i] \in S
    BY <1>1
  <2>2. b \in Seq(S) /\ Len(b) = (IF k <= n THEN n - k + 1 ELSE 0)
        /\ \A i \in 1 .. n - k + 1 : b[i] = s[k + i - 1]
    BY <1>1, <2>1, SubSeqProperties
  <2> HIDE DEF b
  <2> QED BY <1>1, <2>2
<1>4. <<e>> \in Seq(S) /\ Len(<<e>>) = 1 /\ <<e>>[1] = e
  OBVIOUS
<1> DEFINE ae == a \o <<e>>
<1>5. ae \in Seq(S) /\ Len(ae) = k /\ \A i \in 1 .. k : ae[i] = IF i < k THEN s[i] ELSE e
  <2>1. ae \in Seq(S) /\ Len(ae) = Len(a) + 1
        /\ \A i \in 1 .. Len(a) + 1 : ae[i] = IF i <= Len(a) THEN a[i] ELSE <<e>>[i - Len(a)]
    <3> HIDE DEF a
    <3> QED BY <1>2, <1>4, ConcatProperties
  <2> HIDE DEF a, ae
  <2> QED BY <1>1, <1>2, <1>4, <2>1
<1> DEFINE r == ae \o b
<1>6. r \in Seq(S) /\ Len(r) = n + 1
      /\ \A i \in 1 .. n + 1 : r[i] = IF i <= k THEN ae[i] ELSE b[i - k]
  <2>1. r \in Seq(S) /\ Len(r) = Len(ae) + Len(b)
        /\ \A i \in 1 .. Len(ae) + Len(b) : r[i] = IF i <= Len(ae) THEN ae[i] ELSE b[i - Len(ae)]
    <3> HIDE DEF ae, b
    <3> QED BY <1>3, <1>5, ConcatProperties
  <2> HIDE DEF ae, b, r
  <2> QED BY <1>1, <1>3, <1>5, <2>1
<1>7. ASSUME NEW j \in 1 .. n + 1
      PROVE  r[j] = IF j < k THEN s[j] ELSE IF j = k THEN e ELSE s[j - 1]
  <2>1. CASE j <= k
    <3> HIDE DEF r, ae
    <3> QED BY <1>1, <1>5, <1>6, <2>1
  <2>2. CASE j > k
    <3>1. j - k \in 1 .. n - k + 1 /\ k + (j - k) - 1 = j - 1
      BY <1>1, <2>2
    <3> HIDE DEF r, b
    <3> QED BY <1>1, <1>3, <1>6, <2>2, <3>1, SMTT(20)
  <2> HIDE DEF r
  <2> QED BY <1>1, <2>1, <2>2
<1>8. InsertAt(s, k, e) = r
  BY DEF InsertAt
<1> HIDE DEF r
<1> QED BY <1>6, <1>7, <1>8

(* Removal shifts the entries behind by one.                               *)
LEMMA Removed ==
  ASSUME NEW S, NEW s \in Seq(S), NEW k \in 1 .. Len(s)
  PROVE  /\ RemoveAt(s, k) \in Seq(S) /\ Len(RemoveAt(s, k)) = Len(s) - 1
         /\ \A j \in 1 .. Len(s) - 1 : RemoveAt(s, k)[j] = IF j < k THEN s[j] ELSE s[j + 1]
<1> DEFINE n == Len(s)
           a == SubSeq(s, 1, k - 1)
           b == SubSeq(s, k + 1, n)
           r == a \o b
<1>1. n \in Nat /\ k \in Nat /\ \A i \in 1 .. n : s[i] \in S
  OBVIOUS
<1>2. a \in Seq(S) /\ Len(a) = k - 1 /\ \A i \in 1 .. k - 1 : a[i] = s[i]
  <2>1. k - 1 \in Int /\ \A i \in 1 .. k - 1 : s[i] \in S
    BY <1>1
  <2>2. a \in Seq(S) /\ Len(a) = (IF 1 <= k - 1 THEN (k - 1) - 1 + 1 ELSE 0)
        /\ \A i \in 1 .. (k - 1) - 1 + 1 : a[i] = s[1 + i - 1]
    BY <2>1, SubSeqProperties
  <2> HIDE DEF a, n
  <2> QED BY <1>1, <2>2
<1>3. b \in Seq(S) /\ Len(b) = n - k /\ \A i \in 1 .. n - k : b[i] = s[k + i]
  <2>1. k + 1 \in Int /\ \A i \in k + 1 .. n : s[i] \in S
    BY <1>1
  <2>2. b \in Seq(S) /\ Len(b) = (IF k + 1 <= n THEN n - (k + 1) + 1 ELSE 0)
        /\ \A i \in 1 .. n - (k + 1) + 1 : b[i] = s[(k + 1) + i - 1]
    BY <1>1, <2>1, SubSeqProperties
  <2>3. n - (k + 1) + 1 = n - k /\ \A i \in 1 .. n - k : (k + 1) + i - 1 = k + i
    BY <1>1
  <2>4. Len(b) = n - k
    <3> HIDE DEF b
    <3> QED BY <1>1, <2>2
  <2>5. ASSUME NEW i \in 1 .. n - k PROVE b[i] = s[k + i]
    <3>1. b[i] = s[(k + 1) + i - 1]
      <4> HIDE DEF b
      <4> QED BY <2>2, <2>3
    <3> HIDE DEF b
    <3> QED BY <2>3, <3>1
  <2> HIDE DEF b
  <2> QED BY <2>2, <2>4, <2>5
<1>4. r \in Seq(S) /\ Len(r) = n - 1
      /\ \A i \in 1 .. n - 1 : r[i] = IF i <= k - 1 THEN a[i] ELSE b[i - (k - 1)]
  <2>1. r \in Seq(S) /\ Len(r) = Len(a) + Len(b)
        /\ \A i \in 1 .. Len(a) + Len(b) : r[i] = IF i <= Len(a) THEN a[i] ELSE b[i - Len(a)]
    <3> HIDE DEF a, b
    <3> QED BY <1>2, <1>3, ConcatProperties
  <2> HIDE DEF a, b, r
  <2> QED BY <1>1, <1>2, <1>3, <2>1
<1>5. ASSUME NEW j \in 1 .. n - 1 PROVE r[j] = IF j < k THEN s[j] ELSE s[j + 1]
  <2>1. CASE j < k
    <3> HIDE DEF r, a
    <3> QED BY <1>1, <1>2, <1>4, <2>1
  <2>2. CASE j >= k
    <3>1. j - (k - 1) \in 1 .. n - k /\ k + (j - (k - 1)) = j + 1
      BY <1>1, <2>2
    <3> HIDE DEF r, b
    <3> QED BY <1>1, <1>3, <1>4, <2>2, <3>1
  <2> HIDE DEF r
  <2> QED BY <1>1, <2>1, <2>2
<1>6. RemoveAt(s, k) = r
  BY DEF RemoveAt
<1> HIDE DEF r
<1> QED BY <1>4, <1>5, <1>6
=============================================================================
