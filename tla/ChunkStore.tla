----------------------------- MODULE ChunkStore -----------------------------
(***************************************************************************)
(* One super-chunk and where it keeps its chunks (schunk.c, frame.c,       *)
(* sframe.c): an array of pointers, a contiguous frame in memory or in a   *)
(* file, or a sparse frame (a directory with an index and a file a chunk). *)
(* A call is one step here; what other handles may do in the middle of it  *)
(* is the subject of FrameLock.                                            *)
(*                                                                         *)
(* Sizes are in units: a unit of uncompressed bytes, and a cell of         *)
(* Overhead units for a chunk header.  A chunk of special values is a bare *)
(* header; frames store it as a negative offset and nothing else.  The     *)
(* number of chunks of a frame is not stored: it follows from the sizes in *)
(* the frame header, or from the index when the chunk size is 0.           *)
(***************************************************************************)
EXTENDS Integers, Sequences, FiniteSets, SequencesExt, FiniteSetsExt, TLC

CONSTANTS
  Storages,    \* subset of {"memory", "cframe", "file", "sframe"}
  Chunks,      \* the chunks callers pass: [data, nbytes, cbytes]
  Fills,       \* the calls of fill_special: [data, total, chunksize]
  Overhead,    \* cbytes of a chunk header
  Page,        \* pointers in one more page of the pointer array
  MaxChunks, MaxPayload, MaxId,   \* bounds on nchunks, cbytes and chunk ids
  Avoid        \* what callers stay clear of, see Avoided

SpecialCode == [zero |-> -1, nan |-> -2, uninit |-> -3]
IsSpecial(c) == c.data \in DOMAIN SpecialCode

(* A chunk of special values is a bare header, any other is longer: one    *)
(* that does not compress is copied behind its header.  fill_special       *)
(* refuses a chunk size of 0 and does nothing for 0 items.  Chunks of no   *)
(* bytes are not modelled.                                                 *)
ASSUME StoreAssumption ==
  /\ Storages \subseteq {"memory", "cframe", "file", "sframe"}
  /\ {Overhead, Page, MaxChunks, MaxPayload, MaxId} \subseteq Nat /\ Overhead > 0
  /\ Chunks \subseteq [data : {c.data : c \in Chunks}, nbytes : Nat \ {0}, cbytes : Nat]
  /\ \A c \in Chunks : IF IsSpecial(c) THEN c.cbytes = Overhead ELSE c.cbytes > Overhead
  /\ Fills \subseteq [data : DOMAIN SpecialCode, total : Nat \ {0}, chunksize : Nat \ {0}]
  /\ Avoid \subseteq {"short_append", "special_uneven", "reorder_uneven",
                      "recompress_uneven", "large_id", "loaded_reorder"}

VARIABLES
  store,    \* the super-chunk handle and what it is stored in
  answer    \* the last call and whether it succeeded

vars == <<store, answer>>

Stored(c) == IF IsSpecial(c) THEN 0 ELSE c.cbytes

(* What a failed read yields, a file cut to nothing, a cell nobody wrote,  *)
(* and the index of a frame that never had one.                            *)
Unreadable == [data |-> "unreadable", nbytes |-> 0, cbytes |-> 0]
EmptyFile == [data |-> "empty", nbytes |-> 0, cbytes |-> 0]
Junk == [of |-> Unreadable, part |-> 0]
NoIndex == -1

InFrame(s) == s.where # "memory"
Sparse(s) == s.where = "sframe"
Contiguous(s) == s.where \in {"cframe", "file"}

New(where, chunksize) ==
  [where |-> where, nchunks |-> 0, nbytes |-> 0, cbytes |-> 0, chunksize |-> chunksize,
   data |-> <<>>, room |-> 0,
   head |-> [nbytes |-> 0, cbytes |-> 0, chunksize |-> -1],
   at |-> NoIndex, offs |-> <<>>, payload |-> <<>>, files |-> <<>>]

Done(s) == [st |-> s, ok |-> TRUE]
Refuse(s) == [st |-> s, ok |-> FALSE]

-----------------------------------------------------------------------------
(* Reading a frame.                                                        *)

(* The index of a contiguous frame is looked for where the header says the *)
(* chunks end; that of a sparse frame is at the start.                     *)
IndexFound(s) == s.at # NoIndex /\ (Sparse(s) \/ s.at = s.head.cbytes)

HeadNchunks(s) ==
  CASE s.head.nbytes = 0 -> 0
    [] s.head.nbytes > 0 /\ s.head.chunksize > 0 ->
         (s.head.nbytes + s.head.chunksize - 1) \div s.head.chunksize
    [] s.head.nbytes > 0 /\ s.head.chunksize = 0 /\ IndexFound(s) -> Len(s.offs)
    [] OTHER -> -1

(* The index decompresses into room for `slots' offsets; in memory its     *)
(* size must also be the one the header announces.                         *)
IndexReadable(s, n, slots) ==
  IndexFound(s) /\ Len(s.offs) \in n .. slots /\ (s.where = "cframe" => Len(s.offs) = n)

(* A chunk of special values takes its size from the header.  In a frame   *)
(* with chunks of several sizes it is empty, and the last one divides by   *)
(* zero.                                                                   *)
SpecialAt(s, i, n) ==
  LET size == s.head.chunksize IN
  IF i = n /\ size = 0 THEN Unreadable
  ELSE [data |-> CHOOSE d \in DOMAIN SpecialCode : SpecialCode[d] = s.offs[i],
        nbytes |-> IF i = n /\ s.head.nbytes % size > 0 THEN s.head.nbytes % size ELSE size,
        cbytes |-> Overhead]

PayloadAt(s, o) ==
  LET c == IF o + Overhead <= s.head.cbytes THEN s.payload[o + 1].of ELSE Unreadable
  IN IF /\ o + c.cbytes <= s.head.cbytes
        /\ \A k \in 1 .. c.cbytes : s.payload[o + k] = [of |-> c, part |-> k]
     THEN c ELSE Unreadable

FileAt(s, id) == IF id \in DOMAIN s.files /\ s.files[id] # EmptyFile
                 THEN s.files[id] ELSE Unreadable

FrameGetChunk(s, i) ==
  LET n == HeadNchunks(s) IN
  IF n < i \/ ~IndexReadable(s, n, n) THEN Unreadable
  ELSE IF s.offs[i] < 0 THEN SpecialAt(s, i, n)
  ELSE IF Sparse(s) THEN FileAt(s, s.offs[i])
  ELSE PayloadAt(s, s.offs[i])

GetChunk(s, i) == IF InFrame(s) THEN FrameGetChunk(s, i) ELSE s.data[i]

(* What a caller sees: the chunks in order, each as what it decompresses   *)
(* to.                                                                     *)
Content(c) == [data |-> c.data, nbytes |-> c.nbytes]
Seen(s) == [i \in 1 .. s.nchunks |-> Content(GetChunk(s, i))]
Sum(f) == LET sum[k \in 0 .. Len(f)] == IF k = 0 THEN 0 ELSE sum[k - 1] + f[k] IN sum[Len(f)]

-----------------------------------------------------------------------------
(* Writing a frame.                                                        *)

UpdateHeader(s) ==
  [s EXCEPT !.head = [nbytes |-> s.nbytes, cbytes |-> s.cbytes, chunksize |-> s.chunksize]]

(* Lays c down at offset o of the payload, which then ends at `total'.     *)
Lay(payload, o, c, total) ==
  [k \in 1 .. total |-> IF k \in o + 1 .. o + c.cbytes THEN [of |-> c, part |-> k - o]
                        ELSE IF k <= Len(payload) THEN payload[k] ELSE Junk]

(* Moves what follows a chunk of `old' cells at offset o to make it `new'. *)
ShiftTail(payload, o, old, new) ==
  [k \in 1 .. Len(payload) - old + new |->
     IF k <= o THEN payload[k]
     ELSE IF k <= o + new THEN Junk ELSE payload[k - new + old]]

MutNextId(offs) == Len(offs)
NextId(offs) == 1 + Max({-1} \cup Range(offs))
NewOffset(s, c, offs) ==
  IF IsSpecial(c) THEN SpecialCode[c.data]
  ELSE IF Sparse(s) THEN NextId(offs) ELSE s.head.cbytes

CreateFile(files, id, c) == [i \in DOMAIN files \cup {id} |-> IF i = id THEN c ELSE files[i]]
RemoveFile(files, id) == [i \in DOMAIN files \ {id} |-> files[i]]

(* A chunk goes to the end of the payload, or to a file of its own; the    *)
(* index follows the payload, and header and trailer are written last.     *)
StoreNew(s, c, o, offs) ==
  LET total == s.head.cbytes + Stored(c)
      placed == [s EXCEPT !.offs = offs, !.at = total]
  IN UpdateHeader(
       IF IsSpecial(c) THEN placed
       ELSE IF Sparse(s) THEN [placed EXCEPT !.files = CreateFile(@, o, c)]
       ELSE [placed EXCEPT !.payload = Lay(@, o, c, total)])

(* "Appending two consecutive chunks with a chunksize smaller than the     *)
(* frame chunksize is not allowed yet."                                    *)
TwoShort(s, n, c) ==
  /\ s.head.chunksize > 0 /\ n > 0 /\ c.nbytes < s.head.chunksize
  /\ LET last == FrameGetChunk(s, n) IN
       last = Unreadable \/ (last.nbytes < s.head.chunksize /\ s.head.nbytes < s.head.chunksize)

FrameAppend(s, c) ==
  LET n == HeadNchunks(s)
      offs == IF n > 0 THEN s.offs ELSE <<>>
      o == NewOffset(s, c, offs)
  IN IF \/ n < 0
        \/ n > 0 /\ s.head.chunksize > 0 /\ s.chunksize # 0 /\ c.nbytes > s.head.chunksize
        \/ TwoShort(s, n, c)
        \/ n > 0 /\ ~IndexReadable(s, n, n + 1)
     THEN Refuse(s)
     ELSE Done(StoreNew(s, c, o, Append(offs, o)))

FrameInsert(s, i, c) ==
  LET n == HeadNchunks(s)
      offs == IF n > 0 THEN s.offs ELSE <<>>
      o == NewOffset(s, c, offs)
  IN IF n < 0 \/ (n > 0 /\ ~IndexReadable(s, n, n + 1)) THEN Refuse(s)
     ELSE Done(StoreNew(s, c, o, InsertAt(offs, i, o)))

(* In a contiguous frame the new chunk takes the place of the old one, and *)
(* what lies behind moves up or down with its offsets; a chunk that had no *)
(* payload gets it at the end.                                             *)
MovedOffsets(offs, i, o, old, delta) ==
  [j \in DOMAIN offs |-> IF j = i THEN o
                         ELSE IF offs[j] > old THEN offs[j] + delta ELSE offs[j]]

UpdateContiguous(s, i, c) ==
  LET old == s.offs[i]
      oldCbytes == FrameGetChunk(s, i).cbytes
      regular == old >= 0
      delta == IF regular THEN Stored(c) - oldCbytes ELSE Stored(c)
      o == IF IsSpecial(c) THEN SpecialCode[c.data] ELSE IF regular THEN old ELSE s.head.cbytes
      offs == IF regular THEN MovedOffsets(s.offs, i, o, old, delta)
              ELSE [s.offs EXCEPT ![i] = o]
      total == s.head.cbytes + delta
      room == IF regular THEN ShiftTail(s.payload, old, oldCbytes, Stored(c)) ELSE s.payload
  IN [s EXCEPT !.offs = offs, !.at = total,
               !.payload = IF IsSpecial(c) THEN room ELSE Lay(room, o, c, total)]

(* In a sparse frame it keeps the file of the old one, emptied when the    *)
(* new chunk is special, or takes the next id.                             *)
UpdateSparse(s, i, c) ==
  LET old == s.offs[i]
      id == IF old >= 0 \/ IsSpecial(c) THEN old ELSE NextId(s.offs)
  IN [s EXCEPT !.offs = [@ EXCEPT ![i] = IF IsSpecial(c) THEN SpecialCode[c.data] ELSE id],
               !.files = IF id < 0 THEN @
                         ELSE CreateFile(@, id, IF IsSpecial(c) THEN EmptyFile ELSE c)]

FrameUpdate(s, i, c) ==
  LET n == HeadNchunks(s) IN
  IF \/ i > n \/ ~IndexReadable(s, n, n)
     \/ Contiguous(s) /\ FrameGetChunk(s, i) = Unreadable
  THEN Refuse(s)
  ELSE Done(UpdateHeader(IF Sparse(s) THEN UpdateSparse(s, i, c) ELSE UpdateContiguous(s, i, c)))

(* The cells of a deleted chunk stay in a contiguous frame; the file of a  *)
(* sparse one is removed.                                                  *)
FrameDelete(s, i) ==
  LET n == HeadNchunks(s) IN
  IF n < i \/ ~IndexReadable(s, n, n) \/ (Sparse(s) /\ s.offs[i] >= 0 /\ s.offs[i] \notin DOMAIN s.files)
  THEN Refuse(s)
  ELSE Done(UpdateHeader(
         [s EXCEPT !.offs = RemoveAt(@, i), !.at = s.head.cbytes,
                   !.files = IF Sparse(s) THEN RemoveFile(@, s.offs[i]) ELSE @]))

MutFrameReorder(s, order) ==
  LET n == HeadNchunks(s) IN
  IF n < 0 \/ ~IndexReadable(s, n, n) THEN Refuse(s)
  ELSE Done(UpdateHeader([s EXCEPT !.at = s.head.cbytes,
         !.offs = [i \in 1 .. n |-> @[CHOOSE j \in 1 .. n : order[j] = i]]]))

FrameReorder(s, order) ==
  LET n == HeadNchunks(s) IN
  IF n < 0 \/ ~IndexReadable(s, n, n) THEN Refuse(s)
  ELSE Done(UpdateHeader([s EXCEPT !.offs = [i \in 1 .. n |-> @[order[i]]], !.at = s.head.cbytes]))

FrameFill(s, contents) ==
  IF s.head.nbytes > 0 \/ s.head.cbytes > 0 THEN Refuse(s)
  ELSE Done(UpdateHeader(
         [s EXCEPT !.offs = [i \in DOMAIN contents |-> SpecialCode[contents[i].data]],
                   !.at = 0, !.payload = <<>>]))

-----------------------------------------------------------------------------
(* The calls of the super-chunk.  The handle's counters are changed before *)
(* the frame is, and a failure of the frame leaves them changed.           *)

MutUneven(s, i, c) ==
  /\ s.chunksize > 0 /\ s.nchunks > 0
  /\ GetChunk(s, s.nchunks).nbytes < s.chunksize \/ c.nbytes > s.chunksize

Uneven(s, i, c) ==
  /\ s.chunksize > 0 /\ s.nchunks > 0
  /\ \/ GetChunk(s, s.nchunks).nbytes < s.chunksize
     \/ c.nbytes > s.chunksize
     \/ i <= s.nchunks /\ c.nbytes # s.chunksize

NewChunksize(s, c, uneven) ==
  IF uneven THEN 0 ELSE IF s.chunksize = -1 THEN c.nbytes ELSE s.chunksize

MutCounted(s, c, chunksize) ==
  [s EXCEPT !.nchunks = @ + 1, !.nbytes = @ + Stored(c), !.chunksize = chunksize,
            !.cbytes = @ + (IF InFrame(s) THEN Stored(c) ELSE c.cbytes)]

Counted(s, c, chunksize) ==
  [s EXCEPT !.nchunks = @ + 1, !.nbytes = @ + c.nbytes, !.chunksize = chunksize,
            !.cbytes = @ + (IF InFrame(s) THEN Stored(c) ELSE c.cbytes)]

(* An append is an insert behind the last chunk, except in a frame.        *)
AddChunk(s, i, c, add(_)) ==
  LET n == s.nchunks
      size == NewChunksize(s, c, Uneven(s, i, c))
      counted == Counted(s, c, size)
  IN IF \/ n > 0 /\ GetChunk(s, 1) = Unreadable
        \/ n > 0 /\ s.chunksize # 0 /\ GetChunk(s, n) = Unreadable
        \/ size > 0 /\ c.nbytes > size
     THEN Refuse(s)
     ELSE IF InFrame(s) THEN add(counted)
     ELSE Done([counted EXCEPT !.data = InsertAt(@, i, c),
                               !.room = IF n + 1 > @ THEN @ + Page ELSE @])

AppendChunk(s, c) == AddChunk(s, s.nchunks + 1, c, LAMBDA t : FrameAppend(t, c))
InsertChunk(s, i, c) ==
  IF i > s.nchunks + 1 THEN Refuse(s)
  ELSE AddChunk(s, i, c, LAMBDA t : FrameInsert(t, i, c))

(* A bare header counts as no compressed bytes when it goes.               *)
OldCbytes(c) == IF c.cbytes = Overhead THEN 0 ELSE c.cbytes

UpdateChunk(s, i, c) ==
  IF i > s.nchunks THEN Refuse(s)
  ELSE LET old == GetChunk(s, i)
           uneven == /\ s.chunksize > 0
                     /\ c.nbytes > s.chunksize \/ (i # s.nchunks /\ c.nbytes # s.chunksize)
           sized == [s EXCEPT !.chunksize = NewChunksize(s, c, uneven)]
           counted == [sized EXCEPT !.nbytes = @ + c.nbytes - old.nbytes,
                                    !.cbytes = @ - OldCbytes(old)
                                               + (IF InFrame(s) THEN Stored(c) ELSE c.cbytes)]
       IN IF old = Unreadable THEN Refuse(sized)
          ELSE IF InFrame(s) THEN FrameUpdate(counted, i, c)
          ELSE Done([counted EXCEPT !.data[i] = c])

DeleteChunk(s, i) ==
  IF i > s.nchunks \/ GetChunk(s, i) = Unreadable THEN Refuse(s)
  ELSE LET old == GetChunk(s, i)
           counted == [s EXCEPT !.nchunks = @ - 1, !.nbytes = @ - old.nbytes,
                                !.cbytes = IF Contiguous(s) THEN @ ELSE @ - OldCbytes(old)]
       IN IF InFrame(s) THEN FrameDelete(counted, i)
          ELSE Done([counted EXCEPT !.data = RemoveAt(@, i)])

(* The pointers are copied up to the length the array was grown to.        *)
ReorderOffsets(s, order) ==
  IF Range(order) # 1 .. s.nchunks THEN Refuse(s)
  ELSE IF InFrame(s) THEN FrameReorder(s, order)
  ELSE Done([s EXCEPT !.data = [i \in 1 .. s.nchunks |->
                                  IF order[i] <= s.room THEN @[order[i]] ELSE Unreadable]])

FillContents(f) ==
  [i \in 1 .. (f.total + f.chunksize - 1) \div f.chunksize |->
     [data |-> f.data, nbytes |-> IF i * f.chunksize <= f.total THEN f.chunksize
                                  ELSE f.total % f.chunksize]]

(* One after the other, until one is refused. *)
AppendAll(s, chunks) ==
  LET done[k \in 0 .. Len(chunks)] ==
        IF k = 0 THEN Done(s)
        ELSE IF done[k - 1].ok THEN AppendChunk(done[k - 1].st, chunks[k]) ELSE done[k - 1]
  IN done[Len(chunks)]

(* In a frame the counters are put back when the frame refuses.            *)
FillSpecial(s, f) ==
  LET contents == FillContents(f)
      counted == [s EXCEPT !.nchunks = Len(contents), !.nbytes = f.total,
                           !.chunksize = f.chunksize]
  IN IF s.nbytes > 0 \/ s.cbytes > 0 THEN Refuse(s)
     ELSE IF InFrame(s)
          THEN LET r == FrameFill(counted, contents) IN IF r.ok THEN r ELSE Refuse(s)
          ELSE AppendAll(s, [i \in DOMAIN contents |->
                               [data |-> f.data, nbytes |-> contents[i].nbytes,
                                cbytes |-> Overhead]])

(* A chunk compressed again, into cb cells: a whole buffer of chunksize    *)
(* units, whatever the chunk held.                                         *)
Recompressed(c, size, cb) ==
  IF c.nbytes < size THEN [data |-> "padded", nbytes |-> size, cbytes |-> cb]
  ELSE IF IsSpecial(c) THEN c ELSE [c EXCEPT !.cbytes = cb]

(* cb = 0: with the same parameters the compressed chunks are copied.      *)
CopySchunk(s, where, cb) ==
  LET olds == [i \in 1 .. s.nchunks |-> GetChunk(s, i)]
      news == [i \in DOMAIN olds |-> IF cb = 0 THEN olds[i]
                                     ELSE Recompressed(olds[i], s.chunksize, cb)]
      r == AppendAll(New(where, s.chunksize), news)
  IN IF \/ Unreadable \in Range(olds)
        \/ cb > 0 /\ \E c \in Range(olds) : c.nbytes > s.chunksize
        \/ ~r.ok
     THEN Refuse(s) ELSE r

(* frame_to_schunk: the handle is made anew from the header.  The bound on *)
(* offsets is applied to the ids of a sparse frame too.                    *)
Opens(s) ==
  LET n == HeadNchunks(s) IN
  /\ n >= 0
  /\ n > 0 => /\ IndexReadable(s, n, n)
              /\ \A i \in 1 .. n : s.offs[i] < 0 \/ s.offs[i] <= s.head.cbytes - Overhead
              /\ FrameGetChunk(s, 1) # Unreadable

Attached(s) == [s EXCEPT !.nchunks = HeadNchunks(s), !.nbytes = s.head.nbytes,
                         !.cbytes = s.head.cbytes, !.chunksize = s.head.chunksize]

Reopened(s) == IF Opens(s) THEN Done(Attached(s)) ELSE Refuse(s)

(* The same, with the chunks of a frame in memory copied out of it.        *)
Loaded(s) ==
  LET chunks == [i \in 1 .. HeadNchunks(s) |-> FrameGetChunk(s, i)] IN
  IF \/ ~Opens(s) \/ Unreadable \in Range(chunks)
     \/ Sum([i \in DOMAIN chunks |-> chunks[i].nbytes]) # s.head.nbytes
  THEN Refuse(s)
  ELSE Done([New("memory", s.head.chunksize) EXCEPT
               !.data = chunks, !.nchunks = Len(chunks), !.nbytes = s.head.nbytes,
               !.cbytes = IF chunks = <<>> THEN s.head.cbytes
                          ELSE Sum([i \in DOMAIN chunks |-> chunks[i].cbytes])])

-----------------------------------------------------------------------------
(* Every chunk but the last has the size of the super-chunk, and the last  *)
(* is no larger, unless the size is 0.                                     *)
EvenSizes(s) ==
  s.chunksize > 0 =>
    \A i \in 1 .. s.nchunks : LET size == GetChunk(s, i).nbytes IN
      IF i = s.nchunks THEN size <= s.chunksize ELSE size = s.chunksize

HasSpecial(s) == \E i \in 1 .. s.nchunks : IsSpecial(GetChunk(s, i))

(* Sequences of calls after which the code does not keep the list; the     *)
(* README describes each one.                                              *)
Avoided(s, call, r) ==
  \/ /\ "short_append" \in Avoid /\ call.name = "append" /\ InFrame(s)
     /\ s.nchunks > 0 /\ s.nbytes < s.chunksize /\ call.chunk.nbytes < s.chunksize
  \/ /\ "special_uneven" \in Avoid /\ InFrame(r.st) /\ r.st.chunksize = 0
     /\ \E i \in DOMAIN r.st.offs : r.st.offs[i] < 0
  \/ /\ "special_uneven" \in Avoid /\ call.name = "copy" /\ call.where # "memory"
     /\ s.chunksize = 0 /\ HasSpecial(s)
  \/ /\ "reorder_uneven" \in Avoid /\ call.name = "reorder" /\ s.chunksize > 0
     /\ \E i \in 1 .. s.nchunks : GetChunk(s, call.order[i]).nbytes # GetChunk(s, i).nbytes
  \/ /\ "recompress_uneven" \in Avoid /\ call.name = "copy" /\ call.cb > 0
     /\ \E i \in 1 .. s.nchunks : GetChunk(s, i).nbytes # s.chunksize
  \/ /\ "large_id" \in Avoid /\ call.name = "reopen" /\ Sparse(s)
     /\ \E i \in DOMAIN s.offs : s.offs[i] >= 0 /\ s.offs[i] > s.cbytes - Overhead
  \/ /\ "loaded_reorder" \in Avoid /\ call.name = "reorder" /\ ~InFrame(s)
     /\ s.room < s.nchunks

WithinBounds(s) ==
  s.nchunks <= MaxChunks /\ s.cbytes <= MaxPayload /\ DOMAIN s.files \subseteq 0 .. MaxId

Answers(call, r) ==
  /\ WithinBounds(r.st) /\ ~Avoided(store, call, r)
  /\ store' = r.st
  /\ answer' = [call |-> call, ok |-> r.ok]

Positions == 1 .. MaxChunks + 1

SchunkAppend(c) ==
  Answers([name |-> "append", chunk |-> c, content |-> Content(c)], AppendChunk(store, c))
SchunkInsert(i, c) ==
  Answers([name |-> "insert", n |-> i, content |-> Content(c)], InsertChunk(store, i, c))
SchunkUpdate(i, c) ==
  Answers([name |-> "update", n |-> i, content |-> Content(c)], UpdateChunk(store, i, c))
SchunkDelete(i) == Answers([name |-> "delete", n |-> i], DeleteChunk(store, i))
SchunkReorder(order) ==
  Answers([name |-> "reorder", order |-> order], ReorderOffsets(store, order))
SchunkFill(f) ==
  Answers([name |-> "fill", contents |-> FillContents(f)], FillSpecial(store, f))
SchunkCopy(where, cb) ==
  Answers([name |-> "copy", where |-> where, cb |-> cb], CopySchunk(store, where, cb))
SchunkReopen == InFrame(store) /\ Answers([name |-> "reopen"], Reopened(store))
SchunkLoad == store.where = "cframe" /\ Answers([name |-> "load"], Loaded(store))

Init ==
  /\ \E where \in Storages : store = New(where, -1)
  /\ answer = [call |-> [name |-> "new"], ok |-> TRUE]

Next ==
  \/ \E c \in Chunks : SchunkAppend(c)
  \/ \E i \in Positions, c \in Chunks : SchunkInsert(i, c)
  \/ \E i \in Positions, c \in Chunks : SchunkUpdate(i, c)
  \/ \E i \in Positions : SchunkDelete(i)
  \/ \E order \in [1 .. store.nchunks -> 1 .. store.nchunks] : SchunkReorder(order)
  \/ \E f \in Fills : SchunkFill(f)
  \/ \E where \in Storages, cb \in {Stored(c) : c \in Chunks} : SchunkCopy(where, cb)
  \/ SchunkReopen
  \/ SchunkLoad

Spec == Init /\ [][Next]_vars

-----------------------------------------------------------------------------
(* Properties.                                                             *)

ChunkType == {c \in [data : {c.data : c \in Chunks} \cup DOMAIN SpecialCode \cup {"padded"},
                     nbytes : Nat, cbytes : Nat] : c.nbytes > 0 /\ c.cbytes >= Overhead}

(* The counters of the handle and of the header (blosc2_schunk, the frame  *)
(* header) never go below zero and the chunk size below -1, whatever the   *)
(* order in which calls add to them and take from them.                    *)
TypeOK ==
  /\ store.where \in Storages \cup {"memory"}
  /\ {store.nchunks, store.nbytes, store.cbytes, store.room} \subseteq Nat
  /\ {store.head.nbytes, store.head.cbytes} \subseteq Nat
  /\ {store.chunksize, store.head.chunksize} \subseteq Nat \cup {-1}
  /\ \A i \in DOMAIN store.data : store.data[i] \in ChunkType
  /\ \A i \in DOMAIN store.offs : store.offs[i] \in Nat \cup Range(SpecialCode)
  /\ \A id \in DOMAIN store.files : store.files[id] \in ChunkType \cup {EmptyFile}
  /\ answer.ok \in BOOLEAN

(* "Size of each chunk. 0 if not a fixed chunksize." (blosc2_schunk): no   *)
(* sequence of appends, inserts, updates, deletes and copies leaves a      *)
(* chunk of another size before the last under a fixed chunk size, on      *)
(* which frame_get_chunk and get_header_info rely.                         *)
SizesHonest == EvenSizes(store)

(* The counters of the handle and the header of its frame tell the truth:  *)
(* the number of chunks that get_header_info works out is the number of    *)
(* offsets in the index and what the handle counts, the bytes add up, and  *)
(* cbytes is where the payload ends, or what the chunk files have in them  *)
(* (each chunk is in one of its own, and the others are empty).            *)
TotalsExact ==
  /\ store.nbytes = Sum([i \in 1 .. store.nchunks |-> GetChunk(store, i).nbytes])
  /\ ~InFrame(store) => Len(store.data) = store.nchunks
  /\ InFrame(store) =>
       /\ store.head.nbytes = store.nbytes /\ store.head.cbytes = store.cbytes
       /\ store.nbytes > 0 => store.head.chunksize = store.chunksize
       /\ HeadNchunks(store) = store.nchunks /\ Len(store.offs) = store.nchunks
       /\ Contiguous(store) => Len(store.payload) = store.cbytes
       /\ Sparse(store) => store.cbytes = Sum([i \in 1 .. store.nchunks |-> Stored(GetChunk(store, i))])

(* No two chunks share a cell of the payload or a chunk file, every offset *)
(* leads to a whole chunk, and a chunk file that the index does not name   *)
(* is empty.                                                               *)
LayoutSound ==
  LET regular == {i \in DOMAIN store.offs : store.offs[i] >= 0}
      cells(i) == store.offs[i] + 1 .. store.offs[i] + GetChunk(store, i).cbytes
  IN /\ \A i \in regular : GetChunk(store, i) # Unreadable
     /\ \A i, j \in regular : i # j => store.offs[i] # store.offs[j]
     /\ Contiguous(store) => \A i, j \in regular : i # j => cells(i) \cap cells(j) = {}
     /\ Sparse(store) => \A id \in DOMAIN store.files :
          store.files[id] = EmptyFile <=> id \notin Range(store.offs)

List == INSTANCE ChunkList WITH list <- Seen(store), answer <- answer

(* Whatever it is stored in, and through every copy, load and reopening,   *)
(* a super-chunk is the list of chunks its calls describe: in-range calls  *)
(* succeed and the others change nothing that can be read.                 *)
IsChunkList == List!Spec

(* "schunks can switch to variable chunk sizes when needed" (RELEASE_NOTES *)
(* for 3.0.0): a super-chunk with chunks in it takes any chunk.            *)
AppendsTaken ==
  answer.call.name = "append" /\ store.nchunks > 1 => answer.ok
=============================================================================
