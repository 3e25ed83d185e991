---------------------------- MODULE MCChunkStore ----------------------------
(***************************************************************************)
(* Chunks for ChunkStore: two contents of different compressed sizes, a    *)
(* short chunk and one of special values; fill_special adds a short one of *)
(* those.                                                                  *)
(***************************************************************************)
EXTENDS ChunkStore

Chunk(data, nbytes, cbytes) == [data |-> data, nbytes |-> nbytes, cbytes |-> cbytes]

SomeChunks == {Chunk("a", 2, 2), Chunk("b", 2, 3), Chunk("b", 1, 2), Chunk("zero", 2, 1)}
SomeFills == {[data |-> "uninit", total |-> 3, chunksize |-> 2]}

(* No guard reads the last answer; every step is checked against it.       *)
View == store
=============================================================================
