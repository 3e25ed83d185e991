----------------------------- MODULE SerialFrame -----------------------------
(***************************************************************************)
(* What a frame on disk promises to its users when every handle enables    *)
(* locking: it is a list of chunks and a set of variable-length            *)
(* metalayers, and every call that succeeds applies its own operation to   *)
(* them at one instant.  Module FrameLock says how the handles achieve it. *)
(***************************************************************************)
EXTENDS Integers, Sequences, SequencesExt

CONSTANTS
  Chunks,     \* the compressed chunks a caller may store
  Names,      \* names of variable-length metalayers
  NoCall      \* no call is returning

VARIABLES
  chunks,     \* the chunks of the frame, in order
  vlmeta,     \* the names of its variable-length metalayers
  call        \* the call that has just taken effect, until it returns

vars == <<chunks, vlmeta, call>>

Init == chunks = <<>> /\ vlmeta = {} /\ call = NoCall

(* blosc2_schunk_append_chunk, _insert_chunk, _update_chunk, _delete_chunk,
   the chunks being numbered from 1 *)
AppendChunk == call'.kind = "append" /\ chunks' = Append(chunks, call'.chunk)
InsertChunk == /\ call'.kind = "insert"
               /\ call'.nchunk \in 1 .. Len(chunks) + 1
               /\ chunks' = InsertAt(chunks, call'.nchunk, call'.chunk)
UpdateChunk == /\ call'.kind = "update"
               /\ call'.nchunk \in 1 .. Len(chunks)
               /\ chunks' = ReplaceAt(chunks, call'.nchunk, call'.chunk)
DeleteChunk == /\ call'.kind = "delete"
               /\ call'.nchunk \in 1 .. Len(chunks)
               /\ chunks' = RemoveAt(chunks, call'.nchunk)

(* blosc2_schunk_reorder_offsets, with the order that reverses the chunks *)
ReorderChunks == call'.kind = "reorder" /\ chunks' = Reverse(chunks)

(* blosc2_schunk_fill_special, with one special chunk *)
FillSpecial == /\ call'.kind = "fill_special"
               /\ chunks = <<>>
               /\ chunks' = <<call'.chunk>>

(* blosc2_vlmeta_add, blosc2_vlmeta_delete *)
AddVlmeta == /\ call'.kind = "vlmeta_add"
             /\ call'.name \notin vlmeta
             /\ vlmeta' = vlmeta \cup {call'.name}
DeleteVlmeta == /\ call'.kind = "vlmeta_delete"
                /\ call'.name \in vlmeta
                /\ vlmeta' = vlmeta \ {call'.name}

(* A call takes effect. *)
Commit ==
  /\ call = NoCall
  /\ call' # NoCall
  /\ \/ /\ \/ AppendChunk \/ InsertChunk \/ UpdateChunk \/ DeleteChunk
           \/ ReorderChunks \/ FillSpecial
        /\ UNCHANGED vlmeta
     \/ /\ AddVlmeta \/ DeleteVlmeta
        /\ UNCHANGED chunks

(* The call returns, or its process dies before it does. *)
Return == call # NoCall /\ call' = NoCall /\ UNCHANGED <<chunks, vlmeta>>

Next == Commit \/ Return

Spec == Init /\ [][Next]_vars
=============================================================================
