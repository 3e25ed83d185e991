------------------------------ MODULE ChunkList ------------------------------
(***************************************************************************)
(* What a super-chunk promises its caller, whatever it is stored in: a     *)
(* list of chunks.  A call within range succeeds and does what its name    *)
(* says; a call out of range fails and changes nothing.  Copying, opening  *)
(* and loading keep the list.                                              *)
(***************************************************************************)
EXTENDS Naturals, Sequences, SequencesExt

VARIABLES
  list,     \* what each chunk decompresses to
  answer    \* the last call and whether it succeeded

InRange(c) == CASE c.name = "insert" -> c.n \in 1 .. Len(list) + 1
                [] c.name \in {"update", "delete"} -> c.n \in 1 .. Len(list)
                [] c.name = "fill" -> list = <<>>
                [] c.name = "reorder" -> Range(c.order) = 1 .. Len(list)
                [] OTHER -> TRUE

Done(c) == CASE c.name = "append" -> Append(list, c.content)
             [] c.name = "insert" -> InsertAt(list, c.n, c.content)
             [] c.name = "update" -> [list EXCEPT ![c.n] = c.content]
             [] c.name = "delete" -> RemoveAt(list, c.n)
             [] c.name = "reorder" -> [i \in 1 .. Len(list) |-> list[c.order[i]]]
             [] c.name = "fill" -> c.contents
             [] OTHER -> list

(* A chunk size is remembered when the last chunk goes and a new frame has *)
(* no index yet, so that an empty list may refuse what it is given.        *)
MayRefuse(c) == list = <<>> /\ c.name \in {"append", "insert", "fill", "reorder"}

Succeeds == \E c \in {answer'.call} : answer'.ok /\ InRange(c) /\ list' = Done(c)
Refused == \E c \in {answer'.call} :
             ~answer'.ok /\ (InRange(c) => MayRefuse(c)) /\ list' = list

Next == Succeeds \/ Refused
Spec == list = <<>> /\ [][Next]_<<list, answer>>
=============================================================================
