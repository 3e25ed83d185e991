---------------------------- MODULE MCChunkCodec ----------------------------
(* Chunks of up to nine bytes, in blocks of two to four. *)
EXTENDS ChunkCodec

Pars(codec, ts, filters, blocksize) ==
  [codec |-> codec, clevel |-> 5, splitmode |-> "auto", filters |-> filters, meta |-> NoMeta, ts |-> ts,
   prefilter |-> FALSE, dict |-> FALSE, blocksize |-> blocksize, compat |-> FALSE, nthreads |-> 1]

Shuffled == <<"none", "shuffle">>

AllCParams == {
  Pars("lz4", 2, Shuffled, 4),
  [Pars("lz4", 2, Shuffled, 4) EXCEPT !.nthreads = 2],
  [Pars("zstd", 2, Shuffled, 3) EXCEPT !.meta = <<0, 1>>],
  Pars("blosclz", 2, <<"delta", "shuffle">>, 4),
  Pars("zlib", 1, <<"shuffle", "delta">>, 4),
  Pars("lz4hc", 3, <<"trunc", "user">>, 3),
  [Pars("blosclz", 2, <<"trunc", "delta">>, 4) EXCEPT !.prefilter = TRUE],
  [Pars("lz4", 2, Shuffled, 0) EXCEPT !.clevel = 0],
  [Pars("lz4", 2, Shuffled, 4) EXCEPT !.dict = TRUE],
  [Pars("zstd", 1, <<"user", "none">>, 3) EXCEPT !.dict = TRUE, !.splitmode = "never"],
  [Pars("blosclz", 2, <<"delta", "shuffle">>, 4) EXCEPT !.compat = TRUE]}

Mixed9 == <<1, 2, 0, 3, 1, 1, 2, 0, 3>>
Pairs8 == <<1, 0, 1, 0, 1, 0, 2, 0>>
AllSources == {Mixed9, Pairs8, Zeros(8), <<2, 2, 1>>}
AllSpecials == {<<"uninit", 6>>, <<"value", 6>>, <<"nan", 6>>}
AllDParams == [nthreads : {1, 2}, post : {FALSE}] \cup {[nthreads |-> 1, post |-> TRUE]}
=============================================================================
