------------------------------ MODULE FrameLock ------------------------------
(***************************************************************************)
(* Handles on one contiguous frame on disk (blosc/frame.c, blosc/schunk.c) *)
(* that coordinate through the sidecar lock file: the advisory lock with   *)
(* its nesting depth, the generation counter kept in the sidecar, the      *)
(* detection of a stale cached view and its refresh, and the calls of the  *)
(* super-chunk API bracketed by them.                                      *)
(*                                                                         *)
(* A handle is a blosc2_schunk with its blosc2_frame_s, driven by one      *)
(* thread; each has its own descriptor of the sidecar, so that two handles *)
(* exclude each other wherever they live.  A call is a sequence of steps   *)
(* (take the lock, sync with the disk, write, release) and between any two *)
(* of them other handles run.  All the chunks have the chunksize of the    *)
(* super-chunk: the header's nbytes is nchunks of it.  Chunks are numbered *)
(* from 1.                                                                 *)
(***************************************************************************)
EXTENDS Integers, Sequences, FiniteSets, SequencesExt

CONSTANTS
  Handles,      \* the handles of all processes
  Chunks,       \* chunks a caller may store: [data, cbytes], 0 if special
  Names,        \* names of variable-length metalayers
  Metas,        \* values of the fixed-size metalayers
  NoMeta,       \* no metalayers (freed)
  NoIndex,      \* a NULL coffsets, or offsets that cannot be decompressed
  NoCall,       \* no call in progress
  Calls,        \* the kinds of call the program makes
  Faults,       \* what may fail: "lock", "write" (before the first write), "reload"
  MaxChunks,    \* bound on the chunks of the frame
  MaxBytes,     \* bound on the bytes of its chunks, holes included
  MaxSeq,       \* bound on the number of exclusive acquisitions
  MaxDepth      \* bound on nested brackets

ASSUME ChunksAssumption == Chunks \subseteq [data : STRING, cbytes : Nat]
ASSUME NamesAssumption == IsFiniteSet(Names)
ASSUME MetasAssumption == Metas # {} /\ NoMeta \notin Metas
ASSUME NoIndexAssumption == NoIndex \notin Seq(Chunks)
ASSUME BoundsAssumption == /\ MaxChunks \in Nat /\ MaxBytes \in Nat
                           /\ MaxSeq \in Nat /\ MaxDepth \in Nat

VARIABLES
  disk,           \* the frame file
  seq,            \* the generation counter in the sidecar
  os_lock,        \* os_lock[h]: what flock granted to the handle's descriptor
  lock_depth,     \* frame->lock_depth
  lock_seq,       \* frame->lock_seq
  force_refresh,  \* frame->force_refresh
  view,           \* view[h]: what the handle caches of the frame
  pc,             \* pc[h]: where the call in progress is
  call,           \* call[h]: the call in progress
  rc              \* rc[h]: its outcome so far

lockvars == <<seq, os_lock, lock_depth, lock_seq>>
vars == <<disk, seq, os_lock, lock_depth, lock_seq, force_refresh, view, pc, call, rc>>
-----------------------------------------------------------------------------
(* The frame file: the header (nchunks, cbytes, len, metalayers), the      *)
(* offsets index with the place it was written at, the trailer with the    *)
(* variable-length metalayers and the place where it ends.  Lengths count  *)
(* the bytes of chunks, one unit per entry of the index and one per        *)
(* variable-length metalayer, so that an update may leave them unchanged.  *)
DiskRec == [nchunks : Nat, cbytes : Int, len : Int, meta : Metas \cup {NoMeta},
            index : Seq(Chunks) \cup {NoIndex}, index_at : Int,
            vl : SUBSET Names, end : Int]

(* What a handle caches: the counters, len, trailer_len, the metalayers    *)
(* and, once they were needed, the offsets.                                *)
ViewRec == [nchunks : Nat, cbytes : Int, len : Int, trailer_len : Int,
            meta : Metas \cup {NoMeta}, vl : SUBSET Names,
            coffsets : Seq(Chunks) \cup {NoIndex}]

CallKinds == {"append", "insert", "update", "delete", "read", "refresh",
              "reorder", "fill_special", "vlmeta_add", "vlmeta_delete",
              "bracket", "open"}
(* chunk is the one to store, or the one that was read; flush says that a  *)
(* vlmeta call is past its lookup.                                         *)
CallRec == [kind : CallKinds, nchunk : Nat, chunk : Chunks \cup {NoCall},
            name : Names \cup {NoCall}, flush : BOOLEAN]

ASSUME NoCallAssumption == NoCall \notin CallRec

(* Where a call is: closed (no handle), idle, lock (about to call          *)
(* frame_lock), sync, write, unlock, refused (an argument was rejected     *)
(* before any lock).                                                       *)
Places == {"closed", "idle", "lock", "sync", "write", "unlock", "refused"}

Results == {"none", "ok", "error"}

TypeOK ==
  /\ disk \in DiskRec
  /\ seq \in Nat
  /\ os_lock \in [Handles -> {"none", "shared", "exclusive"}]
  /\ lock_depth \in [Handles -> Nat]
  /\ lock_seq \in [Handles -> Nat]
  /\ force_refresh \in [Handles -> BOOLEAN]
  /\ view \in [Handles -> ViewRec]
  /\ pc \in [Handles -> Places]
  /\ call \in [Handles -> CallRec \cup {NoCall}]
  /\ rc \in [Handles -> Results]
-----------------------------------------------------------------------------
(* The view of a handle that has just read the whole frame. *)
ViewOf(d) == [nchunks |-> d.nchunks, cbytes |-> d.cbytes, len |-> d.len,
              trailer_len |-> Cardinality(d.vl), meta |-> d.meta, vl |-> d.vl,
              coffsets |-> NoIndex]

(* get_coffsets finds the index where the header says it is. *)
IndexReadable(d) == /\ d.index # NoIndex
                    /\ d.cbytes = d.index_at
                    /\ Len(d.index) = d.nchunks

(* The trailer ends where the header says the frame ends. *)
TrailerReadable(d) == d.len = d.end

(* get_coffsets: the cached offsets, or else those on disk. *)
IndexSeen(v, d) == IF v.coffsets # NoIndex THEN v.coffsets
                   ELSE IF IndexReadable(d) THEN d.index ELSE NoIndex

(* No frame is open: frame_free has released the cached view. *)
NoView == [nchunks |-> 0, cbytes |-> 0, len |-> 0, trailer_len |-> 0,
           meta |-> NoMeta, vl |-> {}, coffsets |-> NoIndex]

EmptyDisk(m) == [nchunks |-> 0, cbytes |-> 0, len |-> 0, meta |-> m,
                 index |-> <<>>, index_at |-> 0, vl |-> {}, end |-> 0]

(* One handle, or more, is open on a new frame; nobody has written yet. *)
Init ==
  /\ \E m \in Metas : disk = EmptyDisk(m)
  /\ seq = 0
  /\ os_lock = [h \in Handles |-> "none"]
  /\ lock_depth = [h \in Handles |-> 0]
  /\ lock_seq = [h \in Handles |-> 0]
  /\ force_refresh = [h \in Handles |-> FALSE]
  /\ pc \in [Handles -> {"idle", "closed"}]
  /\ view = [h \in Handles |-> IF pc[h] = "idle" THEN ViewOf(disk) ELSE NoView]
  /\ call = [h \in Handles |-> NoCall]
  /\ rc = [h \in Handles |-> "none"]
-----------------------------------------------------------------------------
NewCall(kind) == [kind |-> kind, nchunk |-> 0, chunk |-> NoCall, name |-> NoCall,
                  flush |-> FALSE]

(* Kinds of call that take the lock exclusively, once flush is due for the *)
(* variable-length metalayers.                                             *)
Exclusive(c) == \/ c.kind \in {"append", "insert", "update", "delete",
                               "reorder", "fill_special", "bracket"}
                \/ c.kind \in {"vlmeta_add", "vlmeta_delete"} /\ c.flush

(* validate_nchunk, against the cached number of chunks. *)
InRange(v, i) == i \in 1 .. v.nchunks

(* The bounds: no call starts that could take the frame far beyond them. *)
WithinBounds(h, c) ==
  /\ c.kind \in {"append", "insert"} => /\ disk.nchunks < MaxChunks
                                         /\ view[h].nchunks <= MaxChunks
  /\ c.chunk # NoCall => /\ disk.cbytes + c.chunk.cbytes <= MaxBytes
                          /\ view[h].cbytes \in -MaxBytes .. MaxBytes
  /\ (c.kind \notin {"read", "refresh"} /\ lock_depth[h] = 0) => seq < MaxSeq

(* Neither nbytes nor cbytes is positive. *)
Empty(x) == x.nchunks <= 0 /\ x.cbytes <= 0

Start(h, c, place) ==
  /\ pc[h] = "idle"
  /\ c.kind \in Calls
  /\ WithinBounds(h, c)
  /\ call' = [call EXCEPT ![h] = c]
  /\ pc' = [pc EXCEPT ![h] = place]
  /\ UNCHANGED <<disk, lockvars, force_refresh, rc>>

(* Calls that go for the lock at once: append, insert, update, delete, and *)
(* blosc2_schunk_refresh and blosc2_schunk_lock.                           *)
BeginLocked(h) ==
  /\ \E i \in 1 .. MaxChunks, x \in Chunks :
       \E c \in {NewCall("refresh"),
                 [NewCall("append") EXCEPT !.chunk = x],
                 [NewCall("insert") EXCEPT !.nchunk = i, !.chunk = x],
                 [NewCall("update") EXCEPT !.nchunk = i, !.chunk = x],
                 [NewCall("delete") EXCEPT !.nchunk = i]} : Start(h, c, "lock")
  /\ UNCHANGED view

BeginBracket(h) ==
  /\ lock_depth[h] < MaxDepth
  /\ Start(h, NewCall("bracket"), "lock")
  /\ UNCHANGED view

(* blosc2_schunk_decompress_chunk, _get_chunk, _get_lazychunk: the chunk   *)
(* number is checked against the cached counter before the lock.           *)
BeginRead(h) ==
  /\ \E i \in 1 .. MaxChunks :
       Start(h, [NewCall("read") EXCEPT !.nchunk = i],
             IF InRange(view[h], i) THEN "lock" ELSE "refused")
  /\ UNCHANGED view

(* blosc2_schunk_reorder_offsets: the order has one entry per chunk the    *)
(* caller knows of, and there are some.                                    *)
BeginReorder(h) ==
  /\ view[h].nchunks > 0
  /\ Start(h, [NewCall("reorder") EXCEPT !.nchunk = view[h].nchunks], "lock")
  /\ UNCHANGED view

(* blosc2_schunk_fill_special on a super-chunk the handle believes empty:  *)
(* the counters are set before the lock is taken.                          *)
BeginFill(h) ==
  /\ \E x \in Chunks :
       /\ x.cbytes = 0
       /\ Start(h, [NewCall("fill_special") EXCEPT !.chunk = x],
                IF Empty(view[h]) THEN "lock" ELSE "refused")
  /\ view' = IF Empty(view[h]) THEN [view EXCEPT ![h].nchunks = 1] ELSE view

(* blosc2_vlmeta_add and _delete start with blosc2_vlmeta_exists.          *)
(* "vlmeta_bracketed" restricts them to the inside of a bracket.           *)
BeginVlmeta(h) ==
  /\ \E kind \in {"vlmeta_add", "vlmeta_delete"}, m \in Names :
       Start(h, [NewCall(kind) EXCEPT !.name = m], "lock")
  /\ "vlmeta_bracketed" \in Calls => lock_depth[h] > 0
  /\ UNCHANGED view
-----------------------------------------------------------------------------
(* Mutant: a lock that is not granted is taken for granted. *)
MutGrantableAlways(h, mode) == TRUE

(* flock: shared with shared only. *)
Grantable(h, mode) == \A g \in Handles \ {h} :
  os_lock[g] = "none" \/ (mode = "shared" /\ os_lock[g] = "shared")

(* Where a call goes with the lock in its hands. *)
AfterLock(c) == CASE c.kind = "bracket" -> "idle"
                  [] c.kind = "fill_special" \/ c.flush -> "write"
                  [] OTHER -> "sync"

Granted(h) ==
  pc' = [pc EXCEPT ![h] = AfterLock(call[h])]

(* frame_lock on a handle that holds the lock: only the depth changes, and *)
(* the lock keeps its mode.                                                *)
LockNested(h) ==
  /\ pc[h] = "lock"
  /\ lock_depth[h] > 0
  /\ lock_depth' = [lock_depth EXCEPT ![h] = @ + 1]
  /\ Granted(h)
  /\ UNCHANGED <<disk, seq, os_lock, lock_seq, force_refresh, view, call, rc>>

(* Mutant: an exclusive acquisition does not bump the counter. *)
MutLockOuterNoBump(h) ==
  /\ pc[h] = "lock"
  /\ lock_depth[h] = 0
  /\ LET mode == IF Exclusive(call[h]) THEN "exclusive" ELSE "shared"
     IN /\ Grantable(h, mode)
        /\ os_lock' = [os_lock EXCEPT ![h] = mode]
  /\ lock_seq' = [lock_seq EXCEPT ![h] = seq]
  /\ force_refresh' = [force_refresh EXCEPT ![h] = @ \/ seq # lock_seq[h]]
  /\ lock_depth' = [lock_depth EXCEPT ![h] = 1]
  /\ Granted(h)
  /\ UNCHANGED <<disk, seq, view, call, rc>>

(* Mutant: every call takes the lock in shared mode. *)
MutLockOuterShared(h) ==
  /\ pc[h] = "lock"
  /\ lock_depth[h] = 0
  /\ Grantable(h, "shared")
  /\ os_lock' = [os_lock EXCEPT ![h] = "shared"]
  /\ seq' = IF Exclusive(call[h]) THEN seq + 1 ELSE seq
  /\ lock_seq' = [lock_seq EXCEPT ![h] = seq']
  /\ force_refresh' = [force_refresh EXCEPT ![h] = @ \/ seq # lock_seq[h]]
  /\ lock_depth' = [lock_depth EXCEPT ![h] = 1]
  /\ Granted(h)
  /\ UNCHANGED <<disk, view, call, rc>>

(* frame_lock on a handle that does not: flock, then compare the           *)
(* generation counter, which an exclusive acquisition also bumps.          *)
LockOuter(h) ==
  /\ pc[h] = "lock"
  /\ lock_depth[h] = 0
  /\ LET mode == IF Exclusive(call[h]) THEN "exclusive" ELSE "shared"
         now == IF mode = "exclusive" THEN seq + 1 ELSE seq
     IN /\ Grantable(h, mode)
        /\ os_lock' = [os_lock EXCEPT ![h] = mode]
        /\ seq' = now
        /\ lock_seq' = [lock_seq EXCEPT ![h] = now]
        /\ force_refresh' = [force_refresh EXCEPT ![h] = @ \/ seq # lock_seq[h]]
        /\ lock_depth' = [lock_depth EXCEPT ![h] = 1]
  /\ Granted(h)
  /\ UNCHANGED <<disk, view, call, rc>>

(* What the caller undoes in its view when a call fails at the lock or     *)
(* before its first write: fill_special restores the counters, vlmeta_add  *)
(* drops the layer it added, and vlmeta_delete leaves it deleted.          *)
Undone(v, c) ==
  CASE c.kind = "fill_special" -> [v EXCEPT !.nchunks = 0]
    [] c.kind = "vlmeta_add" /\ c.flush -> [v EXCEPT !.vl = @ \ {c.name}]
    [] OTHER -> v

(* The struct of the handle is gone, and its descriptor of the sidecar. *)
Closed(h) ==
  /\ os_lock' = [os_lock EXCEPT ![h] = "none"]
  /\ lock_depth' = [lock_depth EXCEPT ![h] = 0]
  /\ lock_seq' = [lock_seq EXCEPT ![h] = 0]
  /\ force_refresh' = [force_refresh EXCEPT ![h] = FALSE]
  /\ view' = [view EXCEPT ![h] = NoView]
  /\ pc' = [pc EXCEPT ![h] = "closed"]
  /\ call' = [call EXCEPT ![h] = NoCall]
  /\ rc' = [rc EXCEPT ![h] = "none"]

(* frame_lock fails: the sidecar cannot be opened, locked, read or written. *)
(* A failed open frees the handle.                                         *)
LockFails(h) ==
  /\ "lock" \in Faults
  /\ pc[h] = "lock"
  /\ lock_depth[h] = 0
  /\ IF call[h].kind = "open" THEN Closed(h)
     ELSE /\ view' = [view EXCEPT ![h] = Undone(@, call[h])]
          /\ pc' = [pc EXCEPT ![h] = "idle"]
          /\ call' = [call EXCEPT ![h] = NoCall]
          /\ UNCHANGED <<os_lock, lock_depth, lock_seq, force_refresh, rc>>
  /\ UNCHANGED <<disk, seq>>

(* frame_unlock; a vlmeta call that found its layer as it needs it goes on *)
(* to change the cached set and flush it, under a lock of its own.         *)
Unlock(h) ==
  /\ pc[h] = "unlock"
  /\ lock_depth' = [lock_depth EXCEPT ![h] = @ - 1]
  /\ os_lock' = IF lock_depth[h] = 1 THEN [os_lock EXCEPT ![h] = "none"] ELSE os_lock
  /\ LET c == call[h]
     IN IF c.kind \in {"vlmeta_add", "vlmeta_delete"} /\ ~c.flush /\ rc[h] = "ok"
        THEN /\ call' = [call EXCEPT ![h].flush = TRUE]
             /\ view' = [view EXCEPT ![h].vl = IF c.kind = "vlmeta_add"
                           THEN @ \cup {c.name} ELSE @ \ {c.name}]
             /\ pc' = [pc EXCEPT ![h] = "lock"]
        ELSE /\ call' = [call EXCEPT ![h] = NoCall]
             /\ pc' = [pc EXCEPT ![h] = "idle"]
             /\ UNCHANGED view
  /\ rc' = [rc EXCEPT ![h] = "none"]
  /\ UNCHANGED <<disk, seq, lock_seq, force_refresh>>

(* A call refused before any lock returns its error. *)
ReturnRefused(h) ==
  /\ pc[h] = "refused"
  /\ pc' = [pc EXCEPT ![h] = "idle"]
  /\ call' = [call EXCEPT ![h] = NoCall]
  /\ UNCHANGED <<disk, lockvars, force_refresh, view, rc>>

(* blosc2_schunk_unlock *)
EndBracket(h) ==
  /\ pc[h] = "idle"
  /\ lock_depth[h] > 0
  /\ lock_depth' = [lock_depth EXCEPT ![h] = @ - 1]
  /\ os_lock' = IF lock_depth[h] = 1 THEN [os_lock EXCEPT ![h] = "none"] ELSE os_lock
  /\ UNCHANGED <<disk, seq, lock_seq, force_refresh, view, pc, call, rc>>
-----------------------------------------------------------------------------
(* Mutant: only a change of the length is taken for a change. *)
MutStaleByLength(h) == disk.len # view[h].len

(* frame_refresh_if_stale goes to the disk. *)
Stale(h) == force_refresh[h] \/ disk.len # view[h].len

(* frame_refresh_if_stale, header and trailer being readable: a stale view *)
(* is replaced; a torn trailer keeps the cached one, and the flag.         *)
Refreshed(h) == Stale(h) /\ TrailerReadable(disk)

(* Mutant: the refresh forgets the counters of the super-chunk. *)
MutSyncedOldCounters(h) ==
  IF Refreshed(h) THEN [ViewOf(disk) EXCEPT !.nchunks = view[h].nchunks,
                                            !.cbytes = view[h].cbytes]
  ELSE view[h]

(* Mutant: the refresh keeps the cached offsets. *)
MutSyncedOldOffsets(h) ==
  IF Refreshed(h) THEN [ViewOf(disk) EXCEPT !.coffsets = view[h].coffsets]
  ELSE view[h]

Synced(h) == IF Refreshed(h) THEN ViewOf(disk) ELSE view[h]
FlagAfterSync(h) == force_refresh[h] /\ ~Refreshed(h)

(* The end of a sync: the view it leaves, the outcome, and what is next. *)
SyncTo(h, v, outcome, place) ==
  /\ view' = [view EXCEPT ![h] = v]
  /\ rc' = [rc EXCEPT ![h] = outcome]
  /\ pc' = [pc EXCEPT ![h] = place]
  /\ UNCHANGED <<disk, lockvars>>

(* frame_check_stale, for append, insert, refresh and vlmeta_exists: the   *)
(* counters follow a refresh.                                              *)
CheckStale(h) ==
  /\ pc[h] = "sync"
  /\ force_refresh' = [force_refresh EXCEPT ![h] = FlagAfterSync(h)]
  /\ LET v == Synced(h)
         c == call[h]
     IN CASE c.kind = "append" -> SyncTo(h, v, "none", "write")
          [] c.kind = "insert" ->
               IF InRange(v, c.nchunk) \/ c.nchunk = v.nchunks + 1
               THEN SyncTo(h, v, "none", "write") ELSE SyncTo(h, v, "error", "unlock")
          [] c.kind = "refresh" -> SyncTo(h, v, "ok", "unlock")
          [] c.kind = "vlmeta_add" ->
               SyncTo(h, v, IF c.name \in v.vl THEN "error" ELSE "ok", "unlock")
          [] c.kind = "vlmeta_delete" ->
               SyncTo(h, v, IF c.name \in v.vl THEN "ok" ELSE "error", "unlock")
          [] OTHER -> FALSE
  /\ UNCHANGED call

(* The index as get_coffsets returns it decompresses to one offset per     *)
(* chunk of the header.                                                    *)
UsableIndex(v) == /\ IndexSeen(v, disk) # NoIndex
                  /\ Len(IndexSeen(v, disk)) = disk.nchunks

(* update first reads another chunk the handle knows of, to compare its    *)
(* kind with that of the new one: the second, if it updates the first.     *)
Comparable(v, c) ==
  (c.kind = "update" /\ c.nchunk = 1 /\ v.nchunks > 1) => disk.nchunks > 1

(* frame_get_chunk, for reads and, before their counters change, for       *)
(* update and delete, whose chunk number is first checked against the      *)
(* counters cached so far.                                                 *)
GetChunk(h) ==
  /\ pc[h] = "sync"
  /\ call[h].kind \in {"read", "update", "delete"}
  /\ LET i == call[h].nchunk
         read == call[h].kind = "read"
         v == Synced(h)
     IN IF ~read /\ ~InRange(view[h], i)
        THEN /\ SyncTo(h, view[h], "error", "unlock")
             /\ UNCHANGED <<force_refresh, call>>
        ELSE /\ force_refresh' = [force_refresh EXCEPT ![h] = FlagAfterSync(h)]
             /\ IF i <= disk.nchunks /\ Comparable(view[h], call[h]) /\ UsableIndex(v)
                THEN LET w == [v EXCEPT !.coffsets = IndexSeen(v, disk)]
                     IN IF read
                        THEN /\ SyncTo(h, w, "ok", "unlock")
                             /\ call' = [call EXCEPT ![h].chunk = w.coffsets[i]]
                        ELSE SyncTo(h, w, "none", "write") /\ UNCHANGED call
                ELSE SyncTo(h, v, "error", "unlock") /\ UNCHANGED call

(* frame_reorder_offsets refreshes the view but not the counters. *)
SyncReorder(h) ==
  /\ pc[h] = "sync"
  /\ call[h].kind = "reorder"
  /\ force_refresh' = [force_refresh EXCEPT ![h] = FlagAfterSync(h)]
  /\ SyncTo(h, [Synced(h) EXCEPT !.nchunks = view[h].nchunks, !.cbytes = view[h].cbytes],
            "none", "write")
  /\ UNCHANGED call

(* frame_refresh_if_stale cannot reload the metalayers.  On a locked       *)
(* handle this is an error, reported after the flag and the length were    *)
(* settled and before the cached offsets and the counters were.            *)
ReloadFails(h) ==
  /\ "reload" \in Faults
  /\ pc[h] = "sync"
  /\ call[h].kind # "open"
  /\ call[h].kind \in {"update", "delete"} => InRange(view[h], call[h].nchunk)
  /\ Refreshed(h)
  /\ force_refresh' = [force_refresh EXCEPT ![h] = FALSE]
  /\ SyncTo(h, [view[h] EXCEPT !.len = disk.len, !.trailer_len = Cardinality(disk.vl),
                               !.meta = NoMeta, !.vl = {}], "error", "unlock")
  /\ UNCHANGED call
-----------------------------------------------------------------------------
(* The counters of the schunk_*_chunk_unlocked functions, x being the chunk *)
(* to store and old the one it replaces.  A deleted chunk leaves a hole,   *)
(* so cbytes stays.                                                        *)
CountStored(v, x) == [v EXCEPT !.nchunks = @ + 1, !.cbytes = @ + x.cbytes]
CountUpdated(v, x, old) == [v EXCEPT !.cbytes = @ + x.cbytes - old.cbytes]
CountDeleted(v) == [v EXCEPT !.nchunks = @ - 1]

(* Mutant: cbytes gives up the bytes of a deleted chunk. *)
MutCountedDelete(v, c, idx) ==
  CASE c.kind \in {"append", "insert"} -> CountStored(v, c.chunk)
    [] c.kind = "update" -> CountUpdated(v, c.chunk, idx[c.nchunk])
    [] c.kind = "delete" -> [CountDeleted(v) EXCEPT !.cbytes = @ - idx[c.nchunk].cbytes]
    [] OTHER -> v

(* The counters with the call's own change, idx being the chunks it starts *)
(* from.                                                                   *)
Counted(v, c, idx) ==
  CASE c.kind \in {"append", "insert"} -> CountStored(v, c.chunk)
    [] c.kind = "update" -> CountUpdated(v, c.chunk, idx[c.nchunk])
    [] c.kind = "delete" -> CountDeleted(v)
    [] OTHER -> v

(* By how much the call moves the index from where the header puts it. *)
Moved(c, idx) ==
  CASE c.kind \in {"append", "insert"} -> c.chunk.cbytes
    [] c.kind = "update" -> c.chunk.cbytes - idx[c.nchunk].cbytes
    [] OTHER -> 0

(* The index that each of the frame_* functions writes. *)
AppendedIndex(c, idx) == Append(idx, c.chunk)
InsertedIndex(c, idx) == InsertAt(idx, c.nchunk, c.chunk)
UpdatedIndex(c, idx) == ReplaceAt(idx, c.nchunk, c.chunk)
DeletedIndex(c, idx) == RemoveAt(idx, c.nchunk)
(* An order shorter than the index is read past its end. *)
ReorderedIndex(c, idx) == IF c.nchunk = Len(idx) THEN Reverse(idx) ELSE NoIndex
SpecialIndex(c) == <<c.chunk>>

NewIndex(c, idx) ==
  CASE c.kind = "append" -> AppendedIndex(c, idx)
    [] c.kind = "insert" -> InsertedIndex(c, idx)
    [] c.kind = "update" -> UpdatedIndex(c, idx)
    [] c.kind = "delete" -> DeletedIndex(c, idx)
    [] c.kind = "reorder" -> ReorderedIndex(c, idx)
    [] c.kind = "fill_special" -> SpecialIndex(c)

(* The chunks a call starts from; a frame without chunks has no index. *)
StartIndex(v) == IF disk.nchunks = 0 THEN <<>> ELSE IndexSeen(v, disk)

(* What the call checks, under the lock, before it changes anything: it    *)
(* reads the first and the last chunk it knows of, or none if it is to     *)
(* fill an empty frame.                                                    *)
Acceptable(v, c) ==
  CASE c.kind = "fill_special" -> Empty(disk)
    [] c.kind \in {"append", "insert"} ->
         /\ v.nchunks > 0 => v.nchunks <= disk.nchunks
         /\ disk.nchunks > 0 => UsableIndex(v)
         /\ c.kind = "insert" => c.nchunk <= disk.nchunks + 1
    [] c.kind \in {"update", "delete"} -> c.nchunk <= disk.nchunks /\ UsableIndex(v)
    [] c.kind = "reorder" -> UsableIndex(v)

(* frame_append_chunk and its siblings: the chunk and the index where the  *)
(* header on disk says, then the header with the cached counters, then the *)
(* trailer with the cached variable-length metalayers, then the length.    *)
WrittenDisk(v, idx, at) ==
  LET end == (IF v.nchunks > 0 /\ idx # NoIndex THEN at + Len(idx) ELSE 0)
               + Cardinality(v.vl)
  IN [nchunks |-> v.nchunks, cbytes |-> v.cbytes, len |-> end, meta |-> v.meta,
      index |-> idx, index_at |-> at, vl |-> v.vl, end |-> end]

(* The view of the handle that wrote d: it drops its cached offsets. *)
WriterView(v, d) == [v EXCEPT !.len = d.len, !.trailer_len = Cardinality(v.vl),
                              !.coffsets = NoIndex]

WriteChunks(h) ==
  /\ pc[h] = "write"
  /\ ~call[h].flush
  /\ Acceptable(view[h], call[h])
  /\ LET c == call[h]
         idx == StartIndex(view[h])
         v == Counted(view[h], c, idx)
         d == WrittenDisk(v, NewIndex(c, idx), disk.cbytes + Moved(c, idx))
     IN /\ disk' = d
        /\ view' = [view EXCEPT ![h] = WriterView(v, d)]
  /\ rc' = [rc EXCEPT ![h] = "ok"]
  /\ pc' = [pc EXCEPT ![h] = "unlock"]
  /\ UNCHANGED <<lockvars, force_refresh, call>>

WriteRefused(h) ==
  /\ pc[h] = "write"
  /\ ~call[h].flush
  /\ ~Acceptable(view[h], call[h])
  /\ view' = [view EXCEPT ![h] = Undone(@, call[h])]
  /\ rc' = [rc EXCEPT ![h] = "error"]
  /\ pc' = [pc EXCEPT ![h] = "unlock"]
  /\ UNCHANGED <<disk, lockvars, force_refresh, call>>

(* get_trailer_offset: where the cached lengths put the trailer. *)
TrailerStart(v) == IF v.nchunks > 0 THEN v.len - v.trailer_len ELSE 0

(* The view of a handle that has flushed its variable-length metalayers. *)
FlushedView(v, end) == [v EXCEPT !.len = end, !.trailer_len = Cardinality(v.vl)]

(* The header as frame_update_header writes it, from the cached view. *)
WithHeader(d, v) == [d EXCEPT !.nchunks = v.nchunks, !.cbytes = v.cbytes,
                              !.len = v.len, !.meta = v.meta]

(* vlmetalayer_flush: the header and the trailer from the cached view; the *)
(* trailer goes where the cached lengths put it, and cuts the file there.  *)
WriteVlmeta(h) ==
  /\ pc[h] = "write"
  /\ call[h].flush
  /\ LET v == view[h]
         at == TrailerStart(v)
         end == at + Cardinality(v.vl)
         cut == disk.index # NoIndex /\ disk.index # <<>>
                  /\ at < disk.index_at + Len(disk.index)
     IN /\ disk' = [WithHeader(disk, v) EXCEPT !.len = end, !.vl = v.vl, !.end = end,
                                               !.index = IF cut THEN NoIndex ELSE @]
        /\ view' = [view EXCEPT ![h] = FlushedView(v, end)]
  /\ rc' = [rc EXCEPT ![h] = "ok"]
  /\ pc' = [pc EXCEPT ![h] = "unlock"]
  /\ UNCHANGED <<lockvars, force_refresh, call>>

(* The file cannot be opened for writing, or a buffer cannot be allocated: *)
(* nothing was written, but the counters of append, insert, update and     *)
(* delete are already changed.                                             *)
WriteFails(h) ==
  /\ "write" \in Faults
  /\ pc[h] = "write"
  /\ ~call[h].flush => Acceptable(view[h], call[h])
  /\ view' = [view EXCEPT ![h] = Undone(Counted(@, call[h], StartIndex(@)), call[h])]
  /\ rc' = [rc EXCEPT ![h] = "error"]
  /\ pc' = [pc EXCEPT ![h] = "unlock"]
  /\ UNCHANGED <<disk, lockvars, force_refresh, call>>

(* blosc2_meta_update: the header is rewritten from the cached view; the   *)
(* function takes no lock.  "meta_bracketed" restricts it to the inside of *)
(* a bracket whose holder has synced.                                      *)
MetaUpdate(h) ==
  /\ pc[h] = "idle"
  /\ view[h].meta # NoMeta
  /\ \/ "meta_update" \in Calls
     \/ "meta_bracketed" \in Calls /\ lock_depth[h] > 0 /\ ~force_refresh[h]
  /\ \E m \in Metas :
       /\ view' = [view EXCEPT ![h].meta = m]
       /\ disk' = WithHeader(disk, [view[h] EXCEPT !.meta = m])
  /\ UNCHANGED <<lockvars, force_refresh, pc, call, rc>>
-----------------------------------------------------------------------------
(* blosc2_schunk_open_offset_udio, first part: frame_from_file_offset      *)
(* reads the frame without the lock; in the middle of another handle's     *)
(* rewrite it may get anything.                                            *)
OpenBoot(h) ==
  /\ pc[h] = "closed"
  /\ "open" \in Calls
  /\ \/ view' = [view EXCEPT ![h] = ViewOf(disk)]
     \/ /\ \E g \in Handles : os_lock[g] = "exclusive"
        /\ \E n \in 0 .. MaxChunks, s \in SUBSET Names :
             view' = [view EXCEPT ![h] = [ViewOf(disk) EXCEPT !.nchunks = n, !.vl = s]]
  /\ call' = [call EXCEPT ![h] = NewCall("open")]
  /\ pc' = [pc EXCEPT ![h] = "lock"]
  /\ UNCHANGED <<disk, lockvars, force_refresh, rc>>

(* Second part, under the shared lock: if the counter has moved since the  *)
(* frame was created, read the frame again (through a fresh handle that    *)
(* takes its own shared lock before the first one lets go of it).          *)
OpenReread(h) ==
  /\ pc[h] = "sync"
  /\ call[h].kind = "open"
  /\ SyncTo(h, IF force_refresh[h] THEN ViewOf(disk) ELSE view[h], "ok", "unlock")
  /\ force_refresh' = [force_refresh EXCEPT ![h] = FALSE]
  /\ UNCHANGED call

(* frame_free, at any time: blosc2_schunk_free, a failed open, or the      *)
(* death of the process.  Closing the descriptor drops its lock.           *)
Free(h) ==
  /\ pc[h] # "closed"
  /\ Closed(h)
  /\ UNCHANGED <<disk, seq>>

Begin(h) == \/ BeginLocked(h) \/ BeginBracket(h) \/ BeginRead(h)
            \/ BeginReorder(h) \/ BeginFill(h) \/ BeginVlmeta(h)

Sync(h) == \/ CheckStale(h) \/ GetChunk(h) \/ SyncReorder(h)
           \/ ReloadFails(h) \/ OpenReread(h)

Write(h) == WriteChunks(h) \/ WriteRefused(h) \/ WriteVlmeta(h) \/ WriteFails(h)

Next == \E h \in Handles :
  \/ Begin(h) \/ LockNested(h) \/ LockOuter(h) \/ LockFails(h)
  \/ Sync(h) \/ Write(h) \/ Unlock(h) \/ ReturnRefused(h)
  \/ EndBracket(h) \/ MetaUpdate(h) \/ OpenBoot(h) \/ Free(h)

Spec == Init /\ [][Next]_vars
-----------------------------------------------------------------------------
(* The lock protocol, whatever the calls do with it.  flock keeps an       *)
(* exclusive holder alone; the nesting depth and the OS lock never         *)
(* disagree, through nested calls, errors and closed handles, so that no   *)
(* call works without the lock it believes to hold, writes under a shared  *)
(* one, or leaves a lock behind; and a holder has seen the latest          *)
(* generation, which every other handle has yet to see if it is exclusive. *)
LockDiscipline ==
  /\ \A h \in Handles : lock_depth[h] > 0 <=> os_lock[h] # "none"
  /\ \A h \in Handles : os_lock[h] # "none" => lock_seq[h] = seq
  /\ \A h \in Handles : pc[h] \in {"sync", "write", "unlock"} => os_lock[h] # "none"
  /\ \A h \in Handles : pc[h] = "write" => os_lock[h] = "exclusive"
  /\ \A h, g \in Handles : (os_lock[h] = "exclusive" /\ g # h) =>
                             os_lock[g] = "none" /\ lock_seq[g] < seq

(* The view of handle h describes the frame on disk, a vlmeta change that  *)
(* is still to be flushed apart.                                           *)
Flushing(h) == pc[h] \in {"lock", "write"} /\ call[h].flush
Describes(h) ==
  LET v == view[h]
  IN /\ v.nchunks = disk.nchunks /\ v.cbytes = disk.cbytes
     /\ v.len = disk.len /\ v.trailer_len = Cardinality(disk.vl)
     /\ v.meta = disk.meta
     /\ ~Flushing(h) => v.vl = disk.vl
     /\ v.coffsets # NoIndex => v.coffsets = disk.index

(* The generation counter detects the mutations of other handles exactly,  *)
(* even when the frame length does not change: a handle that has seen the  *)
(* latest generation and has no refresh pending holds a cached view        *)
(* (counters, lengths, metalayers, offsets) of what is on disk, whether it *)
(* holds the lock or not, and whatever the others did since.               *)
GenerationExact ==
  \A h \in Handles :
    (pc[h] # "closed" /\ lock_seq[h] = seq /\ ~force_refresh[h]) => Describes(h)

(* The header, the index and the trailer on disk belong together: counters *)
(* that a handle computed from its cached view were never persisted over   *)
(* chunks it had not seen.                                                 *)
FrameIntact == IndexReadable(disk) /\ TrailerReadable(disk)

(* The calls for which the three properties around this one are claimed:   *)
(* no call that rewrites the header or the trailer from a view it did not  *)
(* sync (an unlocked meta_update, fill_special, reorder_offsets, a vlmeta  *)
(* change outside a bracket), and no failure but that of the lock.         *)
Disciplined ==
  /\ Calls \cap {"meta_update", "fill_special", "reorder"} = {}
  /\ Calls \cap {"vlmeta_add", "vlmeta_delete"} # {} => "vlmeta_bracketed" \in Calls
  /\ Faults \subseteq {"lock"}

(* A read returns the chunk that is at that position of the frame when it  *)
(* returns, never one resolved through offsets of an earlier generation.   *)
ReadsCurrent ==
  \A h \in Handles :
    (pc[h] = "unlock" /\ call[h].kind = "read" /\ rc[h] = "ok") =>
       /\ call[h].nchunk \in 1 .. Len(disk.index)
       /\ call[h].chunk = disk.index[call[h].nchunk]

(* blosc2_schunk_refresh: "after calling it, the counters in schunk        *)
(* reflect the current on-disk state".                                     *)
RefreshSyncs ==
  \A h \in Handles :
    (pc[h] = "unlock" /\ call[h].kind = "refresh" /\ rc[h] = "ok") =>
       view[h].nchunks = disk.nchunks /\ view[h].cbytes = disk.cbytes

(* Between blosc2_schunk_lock and blosc2_schunk_unlock nobody else changes *)
(* the frame: the bracket "makes it atomic against other handles and       *)
(* processes".                                                             *)
BracketAtomic ==
  [][\A h \in Handles : os_lock[h] = "exclusive" =>
       disk' = disk \/ Write(h) \/ MetaUpdate(h)]_vars

(* The mutation that has taken effect and whose call has not returned yet. *)
Mutation(h) == /\ pc[h] = "unlock" /\ rc[h] = "ok"
               /\ \/ call[h].flush
                  \/ call[h].kind \in {"append", "insert", "update", "delete",
                                       "reorder", "fill_special"}
Committed == IF \E h \in Handles : Mutation(h)
             THEN call[CHOOSE h \in Handles : Mutation(h)] ELSE NoCall

Serial == INSTANCE SerialFrame WITH
  chunks <- IF IndexReadable(disk) THEN disk.index ELSE NoIndex,
  vlmeta <- disk.vl,
  call <- Committed

(* Locked handles are serializable: every call that succeeds applies       *)
(* exactly its operation to the chunks and the variable-length metalayers  *)
(* that all the calls before it left, and a call that fails changes none.  *)
IsSerial == Serial!Spec
=============================================================================
