----------------------------- MODULE MCFilters ------------------------------
EXTENDS Filters

Job(filter, ts, bs) ==
  [filter |-> filter, ts |-> ts, bs |-> bs, meta |-> 0, shape |-> <<>>, version |-> 5, first |-> FALSE]
(* n elements and rest bytes of a type size. *)
Bytes(filter, ts, ns, rests) == {Job(filter, ts, ts * n + r) : n \in ns, r \in rests}

ShuffleJobs ==
  Bytes("shuffle", 1, {5}, {0}) \cup Bytes("shuffle", 3, {5}, {1})
  \cup UNION {Bytes("shuffle", ts, {5, 8, 16, 32, 53}, {0, ts - 1}) : ts \in {2, 4, 8}}
  \cup Bytes("shuffle", 12, {16, 33}, {0, 5}) \cup Bytes("shuffle", 16, {8, 32, 33}, {0, 3})
  \cup Bytes("shuffle", 18, {33}, {1}) \cup Bytes("shuffle", 32, {16, 32}, {0})
BitshuffleJobs ==
  Bytes("bitshuffle", 1, {7, 136, 264}, {0}) \cup Bytes("bitshuffle", 2, {24, 141}, {0, 1})
  \cup Bytes("bitshuffle", 3, {24}, {2}) \cup Bytes("bitshuffle", 4, {8, 24, 264}, {0})
  \cup Bytes("bitshuffle", 8, {24}, {0}) \cup Bytes("bitshuffle", 12, {24}, {0})
  \cup Bytes("bitshuffle", 16, {24}, {0}) \cup Bytes("bitshuffle", 24, {40}, {0})
  \cup {[Job("bitshuffle", 2, n) EXCEPT !.version = 2] : n \in {32, 36}}
(* delta, trunc_prec and int_trunc: whole elements (the README says why). *)
DeltaJobs ==
  {[Job("delta", ts, 4 * ts) EXCEPT !.first = f] : ts \in {1, 2, 4, 8, 12, 16}, f \in BOOLEAN}
TruncJobs ==
  {[Job("trunc_prec", ts, 3 * ts) EXCEPT !.meta = m] : ts \in {2, 4, 8}, m \in {-52, -51, -23, -22, -1, 0, 1, 10, 23, 24, 52}}
  \cup {[Job("int_trunc", ts, 2 * ts) EXCEPT !.meta = m] :
          ts \in {1, 2, 3, 4, 8}, m \in {0, 1, 7, 8, 20, 64, 127, 128, 192, 193, 248, 249, 255}}
BytedeltaJobs ==
  UNION {{[Job("bytedelta", 0, ts * n + r) EXCEPT !.meta = ts] : n \in {5, 16, 37}, r \in {0, ts - 1}} : ts \in {1, 3}}
  \cup {Job("bytedelta", 2, 69), Job("bytedelta", 0, 8)}
  \cup {[Job("bytedelta_buggy", 0, ts * n) EXCEPT !.meta = ts] : ts \in {1, 2}, n \in {5, 37}}
Nd(filter, shape, ts, meta) ==
  [Job(filter, ts, ts * NdSize(shape)) EXCEPT !.shape = shape, !.meta = meta]
NdJobs ==
  {Nd("ndcell", s, 4, m) : s \in {<<7>>, <<4, 6>>, <<2, 10>>, <<5, 7>>, <<3, 2, 5>>}, m \in {0, 1, 2, 3, 4, 200}}
  \cup {Nd("ndmean", s, 4, m) : s \in {<<7>>, <<4, 6>>, <<5, 7>>, <<3, 4, 5>>}, m \in {0, 1, 2, 3, 128}}
  \cup {[Nd("ndcell", <<4, 6>>, 4, 2) EXCEPT !.bs = 92], [Nd("ndmean", <<4, 6>>, 2, 2) EXCEPT !.bs = 48],
        Nd("ndcell", <<2, 2, 2>>, 4, 2), Nd("ndmean", <<2, 2, 2>>, 8, 2), Nd("ndcell", <<1, 2, 1, 2>>, 4, 1)}

MCJobs == ShuffleJobs \cup BitshuffleJobs \cup DeltaJobs \cup TruncJobs \cup BytedeltaJobs \cup NdJobs
=============================================================================
