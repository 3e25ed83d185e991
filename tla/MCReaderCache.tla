---------------------------- MODULE MCReaderCache ----------------------------
(* ReaderCache on small instances: the addresses that open() returns,       *)
(* the threads, and the frames are interchangeable.                                        *)
EXTENDS ReaderCache, TLC

ReaderSymmetry == Permutations(Handles) \cup Permutations(Threads) \cup Permutations(Frames)
=============================================================================
