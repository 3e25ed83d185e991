----------------------------- MODULE GrowthSwmr ------------------------------
(***************************************************************************)
(* Growth-SWMR without locking: one writer resizes and fills an array on   *)
(* disk while a reader follows it through its own handle.  Every io_cb     *)
(* write and read is a step; nothing holds two of them together.           *)
(*                                                                         *)
(* The frame is its header and a body of cells: one cell a data chunk, one *)
(* an entry of the offsets index, one the trailer, so that the length of   *)
(* the frame is cbytes + nchunks + 1.  The array is a grid of chunks; the  *)
(* data of a chunk is its place in the grid, a chunk of zeros is Zeros.    *)
(***************************************************************************)
EXTENDS NdIndex, FiniteSets

CONSTANTS
  InitShape,          \* the grid of chunks at the start, all of them filled
  Axis, MaxShape,     \* the axis that grows, and the largest grid
  MaxOps,             \* operations of the writer
  MaxAttempts,        \* reloads of the metalayers: 50
  Zeros, None, Error  \* the chunk of zeros; no cached index; a read that failed

ASSUME GrowthAssumption ==
  /\ InitShape \in Seq(Nat \ {0}) /\ Zeros \notin Nat
  /\ Axis \in DOMAIN InitShape /\ MaxAttempts \in Nat \ {0} /\ MaxOps \in Nat
  /\ \A d \in DOMAIN InitShape : InitShape[d] \in 1 .. MaxShape[d]

VARIABLES file, writer, pending, ops, reader
vars == <<file, writer, pending, ops, reader>>

Places(shape) == [k \in 1 .. NdSize(shape) |-> UnidimToMultidim(shape, k - 1)]
-----------------------------------------------------------------------------
(* The frame, as its writer sees it: the entries of the index (a cell, or  *)
(* Zeros), the cells of data and the shape in the metalayer.               *)
FrameLen(w) == w.cbytes + Len(w.entries) + 1
HeaderOf(w) == [len |-> FrameLen(w), n |-> Len(w.entries), cbytes |-> w.cbytes, shape |-> w.shape]
Data(place) == [kind |-> "data", place |-> place]
Trailer == [kind |-> "trailer"]
IndexCells(entries) == [i \in DOMAIN entries |-> [kind |-> "index", i |-> i, entries |-> entries]]

Body(at, cells) == [to |-> "body", at |-> at, cells |-> cells]
(* frame_update_header and frame_update_trailer, which ends by cutting the *)
(* file and writing its length.                                            *)
UpdateHeader(w) == << [to |-> "header", header |-> HeaderOf(w)] >>
UpdateTrailer(w) == << Body(FrameLen(w), <<Trailer>>), [to |-> "len", len |-> FrameLen(w)] >>
(* What every operation on chunks writes after its data. *)
Rewrite(w) == << Body(w.cbytes + 1, IndexCells(w.entries)) >> \o UpdateHeader(w) \o UpdateTrailer(w)

(* An operation takes the frame and the writes so far to the next ones. *)
Does(s, w, writes) == [w |-> w, writes |-> s.writes \o writes]
InsertChunk(s, k) ==
  LET w == [s.w EXCEPT !.entries = InsertAt(@, k, Zeros)] IN Does(s, w, Rewrite(w))
DeleteChunk(s, k) ==
  LET w == [s.w EXCEPT !.entries = RemoveAt(@, k)] IN Does(s, w, Rewrite(w))
(* A chunk of zeros gets a new cell, another is written where it is. *)
MutUpdateChunk(s, k, place) ==
  LET fresh == s.w.entries[k] = Zeros
      w == IF fresh THEN [s.w EXCEPT !.entries[k] = s.w.cbytes] ELSE s.w
  IN Does(s, w, << Body(w.entries[k], <<Data(place)>>) >> \o Rewrite(w))
UpdateChunk(s, k, place) ==
  LET fresh == s.w.entries[k] = Zeros
      w == IF fresh THEN [s.w EXCEPT !.cbytes = @ + 1, !.entries[k] = s.w.cbytes + 1] ELSE s.w
  IN Does(s, w, << Body(w.entries[k], <<Data(place)>>) >> \o Rewrite(w))
PublishShape(s, shape) == LET w == [s.w EXCEPT !.shape = shape] IN Does(s, w, UpdateHeader(w))

(* extend_shape: the chunks first, the shape last. *)
Extended(s, new) ==
  LET places == Places(new) IN
  Folded(LAMBDA t, k : IF \E d \in DOMAIN new : places[k][d] >= s.w.shape[d] THEN InsertChunk(t, k) ELSE t,
         s, [k \in DOMAIN places |-> k])
MutExtendShape(s, new) == Extended(PublishShape(s, new), new)
ExtendShape(s, new) == PublishShape(Extended(s, new), new)
(* shrink_shape: the shape first, then the chunks from the last one. *)
ShrinkShape(s, new) ==
  LET places == Places(s.w.shape)
      n == Len(places)
  IN Folded(LAMBDA t, k : IF \E d \in DOMAIN new : places[k][d] >= new[d] THEN DeleteChunk(t, k) ELSE t,
            PublishShape(s, new), [k \in 1 .. n |-> n + 1 - k])
-----------------------------------------------------------------------------
Start == [w |-> writer, writes |-> <<>>]
Begins(s) ==
  /\ pending = <<>> /\ ops < MaxOps /\ ops' = ops + 1
  /\ writer' = s.w /\ pending' = s.writes
  /\ UNCHANGED <<file, reader>>

Extend ==
  /\ writer.shape[Axis] < MaxShape[Axis]
  /\ Begins(ExtendShape(Start, [writer.shape EXCEPT ![Axis] = @ + 1]))
(* Only rows of zeros are taken away. *)
Shrink ==
  LET new == [writer.shape EXCEPT ![Axis] = @ - 1] IN
  /\ \A k \in DOMAIN writer.entries :
       Places(writer.shape)[k][Axis] >= new[Axis] => writer.entries[k] = Zeros
  /\ Begins(ShrinkShape(Start, new))
Fill ==
  \E k \in DOMAIN writer.entries : Begins(UpdateChunk(Start, k, Places(writer.shape)[k]))

Put(cells, at, new) ==
  [p \in 1 .. IF at + Len(new) - 1 > Len(cells) THEN at + Len(new) - 1 ELSE Len(cells) |->
     IF p >= at /\ p < at + Len(new) THEN new[p - at + 1] ELSE cells[p]]
WriteNext ==
  /\ pending # <<>> /\ pending' = Tail(pending)
  /\ LET wr == Head(pending) IN
     file' = CASE wr.to = "body" -> [file EXCEPT !.cells = Put(@, wr.at, wr.cells)]
               [] wr.to = "header" -> [file EXCEPT !.header = wr.header]
               [] wr.to = "len" -> [file EXCEPT !.cells = SubSeq(@, 1, wr.len), !.header.len = wr.len]
  /\ UNCHANGED <<writer, ops, reader>>
-----------------------------------------------------------------------------
(* The reader.  pc is the next read; after says where frame_refresh_if_    *)
(* stale returns to; newer, that change_tick is ahead of last_tick.        *)
Reads(r) == reader' = r /\ UNCHANGED <<file, writer, pending, ops>>
CellAt(p) == IF p \in DOMAIN file.cells THEN file.cells[p] ELSE [kind |-> "none"]

(* get_header_info, then the test of frame_refresh_if_stale. *)
ReadHeader(after) ==
  LET hdr == file.header
      stale == reader.force \/ hdr.len # reader.len
  IN Reads([reader EXCEPT !.hdr = hdr, !.after = after, !.pc = IF stale THEN "trailer" ELSE after])

Poll == reader.pc = "idle" /\ ReadHeader("geometry")

(* The trailer is read before anything is changed. *)
ReadTrailer ==
  /\ reader.pc = "trailer"
  /\ IF CellAt(reader.hdr.len).kind = "trailer"
     THEN Reads([reader EXCEPT !.oldLen = reader.len, !.len = reader.hdr.len, !.force = FALSE,
                               !.tries = 1, !.pc = "metas"])
     ELSE Reads([reader EXCEPT !.pc = reader.after])

ReadMetalayers ==
  /\ reader.pc = "metas"
  /\ Reads([reader EXCEPT !.metas = file.header.shape, !.vlmetas = FALSE, !.pc = "vlmetas"])

Refreshed(r) == [r EXCEPT !.vlmetas = TRUE, !.newer = TRUE, !.index = None, !.n = r.hdr.n, !.pc = r.after]
MutRollBack(r) == [r EXCEPT !.pc = r.after]
RollBack(r) == [r EXCEPT !.len = r.oldLen, !.force = TRUE, !.pc = r.after]
ReadVlmetalayers ==
  /\ reader.pc = "vlmetas"
  /\ Reads(IF CellAt(reader.len).kind = "trailer" THEN Refreshed(reader)
           ELSE IF reader.tries < MaxAttempts THEN [reader EXCEPT !.tries = @ + 1, !.pc = "metas"]
           ELSE RollBack(reader))

(* b2nd's refresh_if_stale: follow the shape when the tick has moved. *)
Geometry ==
  /\ reader.pc = "geometry"
  /\ Reads([reader EXCEPT !.shape = IF reader.newer THEN reader.metas ELSE @, !.newer = FALSE, !.pc = "ready"])
Refresh == reader.pc = "ready" /\ Reads([reader EXCEPT !.pc = "idle"])

(* A read of one chunk: frame_get_chunk, which may refresh once more. *)
GetChunk ==
  /\ reader.pc = "ready"
  /\ \E k \in 1 .. NdSize(reader.shape) :
       LET hdr == file.header
           stale == reader.force \/ hdr.len # reader.len
       IN Reads([reader EXCEPT !.want = Places(reader.shape)[k], !.nchunk = k, !.hdr = hdr, !.after = "index",
                               !.pc = IF stale THEN "trailer" ELSE "index"])
Ends(got) == Reads([reader EXCEPT !.got = [place |-> reader.want, chunk |-> got], !.pc = "idle"])

(* get_coffsets: the length of the index is what the cached length of the  *)
(* frame leaves after the data, and what was read is cached as it is.      *)
(* Cells that are no index, or a part of one, hold no entry that is right: *)
(* the read is counted as failed.                                          *)
IndexRead ==
  LET first == reader.hdr.cbytes + 1
      n == reader.len - first
      cell == CellAt(first)
  IN IF n <= 0 \/ reader.len - 1 > Len(file.cells) THEN None
     ELSE IF cell.kind = "index" /\ cell.i = 1 /\ Len(cell.entries) <= n THEN cell.entries
     ELSE <<>>
GetCoffset ==
  /\ reader.pc = "index"
  /\ LET index == IF reader.index = None THEN IndexRead ELSE reader.index IN
     IF reader.nchunk > reader.hdr.n \/ index = None THEN Ends(Error)
     ELSE IF reader.nchunk \notin DOMAIN index
     THEN Reads([reader EXCEPT !.index = index, !.pc = "idle", !.got = [place |-> reader.want, chunk |-> Error]])
     ELSE IF index[reader.nchunk] = Zeros
     THEN Reads([reader EXCEPT !.index = index, !.pc = "idle", !.got = [place |-> reader.want, chunk |-> Zeros]])
     ELSE Reads([reader EXCEPT !.index = index, !.pc = "chunk"])
ReadChunk ==
  /\ reader.pc = "chunk"
  /\ LET at == reader.index[reader.nchunk] IN
     Ends(IF at <= reader.hdr.cbytes /\ CellAt(at).kind = "data" THEN CellAt(at).place ELSE Error)
-----------------------------------------------------------------------------
Init ==
  LET n == NdSize(InitShape) IN
  /\ writer = [entries |-> [k \in 1 .. n |-> k], cbytes |-> n, shape |-> InitShape]
  /\ file = [header |-> HeaderOf(writer),
             cells |-> [k \in 1 .. n |-> Data(Places(InitShape)[k])] \o IndexCells(writer.entries) \o <<Trailer>>]
  /\ pending = <<>> /\ ops = 0
  /\ reader = [pc |-> "idle", hdr |-> file.header, after |-> "geometry", force |-> FALSE, tries |-> 0,
               len |-> file.header.len, oldLen |-> 0, n |-> n, metas |-> InitShape, vlmetas |-> TRUE,
               newer |-> FALSE, shape |-> InitShape, index |-> None, want |-> Places(InitShape)[1],
               nchunk |-> 0, got |-> [place |-> Places(InitShape)[1], chunk |-> Error]]

WriterStep == Extend \/ Shrink \/ Fill \/ WriteNext
ReaderStep ==
  \/ Poll \/ ReadTrailer \/ ReadMetalayers \/ ReadVlmetalayers
  \/ Geometry \/ Refresh \/ GetChunk \/ GetCoffset \/ ReadChunk
Next == WriterStep \/ ReaderStep
(* A call of the writer ends, the reader keeps calling, and of the calls   *)
(* it makes some reach the end of a poll.                                  *)
Spec == Init /\ [][Next]_vars /\ WF_vars(WriteNext) /\ WF_vars(ReaderStep)
-----------------------------------------------------------------------------
(* The handles are of their types, and the length the reader trusts is one *)
(* the file had.                                                           *)
TypeOK ==
  /\ file.header.len = file.header.cbytes + file.header.n + 1
  /\ pending = <<>> => file.header = HeaderOf(writer) /\ Len(file.cells) = FrameLen(writer)
  /\ reader.tries \in 0 .. MaxAttempts /\ ops \in 0 .. MaxOps
  /\ reader.pc \in {"idle", "trailer", "metas", "vlmetas", "geometry", "ready", "index", "chunk"}

(* Between any two writes (and so at a crash) the shape in the metalayer   *)
(* points at no chunk that is not there: extend_shape puts the chunks      *)
(* first, shrink_shape the shape.                                          *)
FileShapeBacked == NdSize(file.header.shape) <= file.header.n

(* A chunk the reader gets, through an index that was there whole, is the  *)
(* chunk of the place it asked for; only a place that was not there at the *)
(* start may still be zeros.  ("the data-first/shape-last ordering in      *)
(* extend_shape/shrink_shape keeps readers safe", b2nd.c.)                 *)
ReadsInPlace ==
  LET got == reader.got IN
  \/ got.chunk \in {Error, got.place}
  \/ got.chunk = Zeros /\ \E d \in DOMAIN InitShape : got.place[d] >= InitShape[d]

(* When the writer rests the reader gets the length of the frame and a set *)
(* of metalayers: giving up after the retries strands no handle.           *)
NeverStranded == <>[](reader.vlmetas /\ reader.len = file.header.len)
=============================================================================
