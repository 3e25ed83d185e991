------------------------------- MODULE NdArray -------------------------------
(***************************************************************************)
(* What b2nd.h promises of an array, without chunks, blocks or padding: a  *)
(* value at every index of a shape.  call is the last call with its        *)
(* arguments, out what it returned: a buffer, or <<>>.  A call that is     *)
(* refused changes nothing.                                                *)
(***************************************************************************)
EXTENDS Integers, Sequences, FiniteSets, Functions

CONSTANT Refused                            \* out of a call that failed
VARIABLES shape, value, call, out
vars == <<shape, value, call, out>>

Size(s) == LET size[d \in 0 .. Len(s)] == IF d = 0 THEN 1 ELSE size[d - 1] * s[d] IN size[Len(s)]
(* The place of an index in a C buffer of a shape, and the index of a place. *)
Place(i, s) == LET place[d \in 0 .. Len(s)] == IF d = 0 THEN 0 ELSE place[d - 1] * s[d] + i[d] IN place[Len(s)]
At(k, s) == [d \in DOMAIN s |-> (k \div Size(SubSeq(s, d + 1, Len(s)))) % s[d]]
Indices(s) == {At(k, s) : k \in 0 .. Size(s) - 1}
Within(i, start, stop) == \A d \in DOMAIN start : start[d] <= i[d] /\ i[d] < stop[d]
Plus(i, j) == [d \in DOMAIN i |-> i[d] + j[d]]
Minus(i, j) == [d \in DOMAIN i |-> i[d] - j[d]]
(* What a C buffer holds of an array. *)
Buffer(s, v) == [k \in 0 .. Size(s) - 1 |-> v[At(k, s)]]

Reads(result) == out' = result /\ UNCHANGED <<shape, value>>
Writes(Touched(_), F(_)) ==
  /\ LET old == value IN value' = [i \in DOMAIN old |-> IF Touched(i) THEN F(i) ELSE old[i]]
  /\ out' = <<>> /\ UNCHANGED shape

(* Along every axis a resize takes away or puts in positions at one place. *)
Moved(i, new, start) ==
  [d \in DOMAIN i |-> IF i[d] < start[d] THEN i[d] ELSE i[d] + new[d] - shape[d]]
Kept(i, new, start) ==
  \A d \in DOMAIN i : i[d] < start[d] \/ i[d] >= start[d] + (IF new[d] < shape[d] THEN shape[d] - new[d] ELSE 0)
Lesser(new) == [d \in DOMAIN new |-> IF new[d] < shape[d] THEN new[d] ELSE shape[d]]
(* The values that stay are where they belong; fresh holds at the others.  *)
ResizesTo(new, start, Fresh(_, _)) ==
  LET old == value
      now == value'
      places == [i \in {j \in DOMAIN old : Kept(j, new, start)} |-> Moved(i, new, start)]
  IN /\ shape' = new /\ DOMAIN now = Indices(new) /\ out' = <<>>
     /\ \A i \in DOMAIN places : now[places[i]] = old[i]
     /\ \A i \in DOMAIN now \ Range(places) : Fresh(i, now[i])

(* One axis grows by the rows of a buffer. *)
Inserts(buffer, axis, at) ==
  LET n == Cardinality(DOMAIN buffer) \div Size([shape EXCEPT ![axis] = 1])
      rows == [shape EXCEPT ![axis] = n]
      start == [shape EXCEPT ![axis] = at]
  IN ResizesTo([shape EXCEPT ![axis] = @ + n], start,
               LAMBDA i, item : item = buffer[Place([i EXCEPT ![axis] = @ - at], rows)])

Selected(sel, i) == \A d \in DOMAIN sel : \E j \in DOMAIN sel[d] : sel[d][j] = i[d]
LastOf(s, x) == CHOOSE j \in DOMAIN s : s[j] = x /\ \A k \in DOMAIN s : s[k] = x => k <= j

Does(c) ==
  LET v == value IN
  CASE c.name = "set_slice" ->
         Writes(LAMBDA i : Within(i, c.start, c.stop), LAMBDA i : c.buffer[Place(Minus(i, c.start), c.bufshape)])
    [] c.name = "get_slice" ->
         Reads([k \in 0 .. Size(c.bufshape) - 1 |->
                 LET i == Plus(At(k, c.bufshape), c.start) IN IF Within(i, c.start, c.stop) THEN v[i] ELSE 0])
    [] c.name = "get_sparse" ->
         Reads([k \in DOMAIN c.coords |-> v[At(c.coords[k], shape)]])
    [] c.name = "set_orthogonal" ->
         Writes(LAMBDA i : Selected(c.selection, i), LAMBDA i :
           c.buffer[Place([d \in DOMAIN i |-> LastOf(c.selection[d], i[d]) - 1], c.bufshape)])
    [] c.name = "get_orthogonal" ->
         Reads(Buffer(c.bufshape, [i \in Indices(c.bufshape) |->
                 v[[d \in DOMAIN i |-> c.selection[d][i[d] + 1]]]]))
    [] c.name = "resize" -> ResizesTo(c.shape, IF c.start = <<>> THEN Lesser(c.shape) ELSE c.start, LAMBDA i, item : TRUE)
    [] c.name = "insert" -> Inserts(c.buffer, c.axis, c.at)
    [] c.name = "append" -> Inserts(c.buffer, c.axis, shape[c.axis])
    [] c.name = "delete" ->
         ResizesTo([shape EXCEPT ![c.axis] = @ - c.n], [shape EXCEPT ![c.axis] = c.at], LAMBDA i, item : TRUE)
    [] c.name = "concatenate" -> Inserts(c.buffer, c.axis, shape[c.axis])
    [] c.name = "slice_array" -> Reads(Buffer(Minus(c.stop, c.start), [i \in Indices(Minus(c.stop, c.start)) |->
                                    v[[d \in DOMAIN i |-> i[d] + c.start[d]]]]))
    [] c.name \in {"copy", "view", "to_cbuffer"} -> Reads(Buffer(shape, v))
    [] c.name \in {"reopen", "none"} -> Reads(<<>>)

Init == DOMAIN value = Indices(shape) /\ out = <<>> /\ call = [name |-> "none"]
(* Chunks cannot be cut but at the end: a resize elsewhere may be refused. *)
Refuses(c) == c.name \in {"resize", "insert", "delete"} /\ out' = Refused /\ UNCHANGED <<shape, value>>
Next == Does(call') \/ Refuses(call')
Spec == Init /\ [][Next]_vars
=============================================================================
