--------------------------- MODULE FrameLockProofs ---------------------------
(***************************************************************************)
(* Proofs about FrameLock, for any set of handles, chunks, names and       *)
(* metalayers and any bounds.                                              *)
(***************************************************************************)
EXTENDS FrameLock, FiniteSetTheorems, SequenceTheorems, TLAPS

-----------------------------------------------------------------------------
(* Lemmas about the operators of the model. *)

(* A set of names of variable-length metalayers can be counted. *)
LEMMA CardinalityNat ==
  ASSUME NEW S, S \subseteq Names
  PROVE  Cardinality(S) \in Nat
BY NamesAssumption, FS_Subset, FS_CardinalityType

(* Sequences of chunks are closed under concatenation. *)
LEMMA Concat ==
  ASSUME NEW s \in Seq(Chunks), NEW t \in Seq(Chunks)
  PROVE  s \o t \in Seq(Chunks) /\ Len(s \o t) = Len(s) + Len(t)
BY ConcatProperties

(* Inserting an entry gives an index one longer. *)
LEMMA InsertAtType ==
  ASSUME NEW s \in Seq(Chunks), NEW x \in Chunks, NEW i \in 1 .. Len(s) + 1
  PROVE  InsertAt(s, i, x) \in Seq(Chunks) /\ Len(InsertAt(s, i, x)) = Len(s) + 1
<1> DEFINE a == SubSeq(s, 1, i - 1)
           b == SubSeq(s, i, Len(s))
           e == <<x>>
<1>1. a \in Seq(Chunks) /\ Len(a) = i - 1
  BY SubSeqProperties
<1>2. b \in Seq(Chunks) /\ Len(b) = Len(s) - i + 1
  BY SubSeqProperties
<1>3. e \in Seq(Chunks) /\ Len(e) = 1
  OBVIOUS
<1>4. InsertAt(s, i, x) = (a \o e) \o b
  BY DEF InsertAt
<1> HIDE DEF a, b, e
<1>5. a \o e \in Seq(Chunks) /\ Len(a \o e) = Len(a) + Len(e)
  BY <1>1, <1>3, Concat
<1>6. (a \o e) \o b \in Seq(Chunks) /\ Len((a \o e) \o b) = Len(a \o e) + Len(b)
  BY <1>2, <1>5, Concat
<1>. QED BY <1>1, <1>2, <1>3, <1>4, <1>5, <1>6

(* Removing an entry leaves an index one shorter. *)
LEMMA RemoveAtType ==
  ASSUME NEW s \in Seq(Chunks), NEW i \in 1 .. Len(s)
  PROVE  RemoveAt(s, i) \in Seq(Chunks) /\ Len(RemoveAt(s, i)) = Len(s) - 1
<1> DEFINE a == SubSeq(s, 1, i - 1)
           b == SubSeq(s, i + 1, Len(s))
<1>1. a \in Seq(Chunks) /\ Len(a) = i - 1
  BY SubSeqProperties
<1>2. b \in Seq(Chunks) /\ Len(b) = Len(s) - i
  BY SubSeqProperties
<1>3. RemoveAt(s, i) = a \o b
  BY DEF RemoveAt
<1> HIDE DEF a, b
<1>. QED BY <1>1, <1>2, <1>3, Concat

(* Replacing an entry keeps the length of an index. *)
LEMMA ReplaceAtType ==
  ASSUME NEW s \in Seq(Chunks), NEW x \in Chunks, NEW i \in 1 .. Len(s)
  PROVE  ReplaceAt(s, i, x) \in Seq(Chunks) /\ Len(ReplaceAt(s, i, x)) = Len(s)
BY DEF ReplaceAt

(* Reversing an index keeps its length. *)
LEMMA ReverseType ==
  ASSUME NEW s \in Seq(Chunks)
  PROVE  Reverse(s) \in Seq(Chunks) /\ Len(Reverse(s)) = Len(s)
BY DEF Reverse

(* Reading a well-formed frame gives a well-formed view. *)
LEMMA ViewOfType ==
  ASSUME NEW d \in DiskRec
  PROVE  ViewOf(d) \in ViewRec
BY CardinalityNat DEF ViewOf, ViewRec, DiskRec

-----------------------------------------------------------------------------
(* Type correctness. *)

(* The arguments a call in progress carries. *)
CallOK(c) ==
  /\ c \in CallRec
  /\ c.kind \in {"append", "insert", "update", "fill_special"} => c.chunk \in Chunks
  /\ c.kind \in {"insert", "update", "delete", "read"} => c.nchunk >= 1
  /\ c.kind \in {"vlmeta_add", "vlmeta_delete"} => c.name \in Names
  /\ c.flush => c.kind \in {"vlmeta_add", "vlmeta_delete"}

Writers == {"append", "insert", "update", "delete", "reorder", "fill_special"}

(* TypeOK is not inductive: what a write leaves on disk has its type only  *)
(* because the call carries the arguments its kind needs, and because a    *)
(* chunk to delete is one the handle counts.                               *)
TypeInv ==
  /\ TypeOK
  /\ \A h \in Handles :
       /\ pc[h] \in {"lock", "sync", "write", "unlock", "refused"} => CallOK(call[h])
       /\ pc[h] \in {"sync", "write", "unlock"} => lock_depth[h] > 0
       /\ pc[h] = "write" => call[h].flush \/ call[h].kind \in Writers
       /\ (pc[h] = "write" /\ call[h].kind = "delete") => view[h].nchunks >= 1

(* Handles just opened on a new, empty frame are well typed. *)
LEMMA TypeInit == Init => TypeInv
<1> SUFFICES ASSUME Init PROVE TypeInv
  OBVIOUS
<1>1. PICK m \in Metas : disk = EmptyDisk(m)
  BY DEF Init
<1>2. disk \in DiskRec
  BY <1>1 DEF EmptyDisk, DiskRec
<1>3. NoView \in ViewRec
  BY DEF NoView, ViewRec
<1>4. view \in [Handles -> ViewRec]
  BY <1>2, <1>3, ViewOfType DEF Init
<1>. QED BY <1>2, <1>4 DEF Init, TypeInv, TypeOK, Places, Results

(* A call begins. *)
LEMMA TypeStart ==
  ASSUME TypeInv, NEW h \in Handles, NEW c, CallOK(c), NEW place \in {"lock", "refused"},
         Start(h, c, place), view' \in [Handles -> ViewRec],
         \A g \in Handles \ {h} : view'[g] = view[g]
  PROVE  TypeInv'
BY ZenonT(30) DEF TypeInv, TypeOK, Start, lockvars, Places, CallOK

(* A call of the super-chunk API begins: arguments and counters are typed. *)
LEMMA TypeBegin ==
  ASSUME TypeInv, NEW h \in Handles, Begin(h)
  PROVE  TypeInv'
<1>1. CASE BeginLocked(h)
  <2>1. PICK i \in 1 .. MaxChunks, x \in Chunks :
          \E c \in {NewCall("refresh"),
                    [NewCall("append") EXCEPT !.chunk = x],
                    [NewCall("insert") EXCEPT !.nchunk = i, !.chunk = x],
                    [NewCall("update") EXCEPT !.nchunk = i, !.chunk = x],
                    [NewCall("delete") EXCEPT !.nchunk = i]} : Start(h, c, "lock")
    BY <1>1 DEF BeginLocked
  <2>2. i \in Nat /\ i >= 1
    BY BoundsAssumption
  <2>3. PICK c \in {NewCall("refresh"),
                   [NewCall("append") EXCEPT !.chunk = x],
                   [NewCall("insert") EXCEPT !.nchunk = i, !.chunk = x],
                   [NewCall("update") EXCEPT !.nchunk = i, !.chunk = x],
                   [NewCall("delete") EXCEPT !.nchunk = i]} : Start(h, c, "lock")
    BY <2>1
  <2>4. CallOK(c)
    <3>1. CallOK(NewCall("refresh"))
      BY DEF NewCall, CallOK, CallRec, CallKinds
    <3>2. CallOK([NewCall("append") EXCEPT !.chunk = x])
      BY DEF NewCall, CallOK, CallRec, CallKinds
    <3>3. CallOK([NewCall("insert") EXCEPT !.nchunk = i, !.chunk = x])
      BY <2>2 DEF NewCall, CallOK, CallRec, CallKinds
    <3>4. CallOK([NewCall("update") EXCEPT !.nchunk = i, !.chunk = x])
      BY <2>2 DEF NewCall, CallOK, CallRec, CallKinds
    <3>5. CallOK([NewCall("delete") EXCEPT !.nchunk = i])
      BY <2>2 DEF NewCall, CallOK, CallRec, CallKinds
    <3>. QED BY <2>3, <3>1, <3>2, <3>3, <3>4, <3>5
  <2>. QED BY <1>1, <2>3, <2>4, TypeStart DEF BeginLocked, TypeInv, TypeOK
<1>2. CASE BeginBracket(h)
  <2>1. CallOK(NewCall("bracket"))
    BY DEF NewCall, CallOK, CallRec, CallKinds
  <2>. QED BY <1>2, <2>1, TypeStart DEF BeginBracket, TypeInv, TypeOK
<1>3. CASE BeginRead(h)
  <2>1. PICK i \in 1 .. MaxChunks :
          Start(h, [NewCall("read") EXCEPT !.nchunk = i],
                IF InRange(view[h], i) THEN "lock" ELSE "refused")
    BY <1>3 DEF BeginRead
  <2>2. i \in Nat /\ i >= 1
    BY BoundsAssumption
  <2>3. CallOK([NewCall("read") EXCEPT !.nchunk = i])
    BY <2>2 DEF NewCall, CallOK, CallRec, CallKinds
  <2>. QED BY <1>3, <2>1, <2>3, TypeStart DEF BeginRead, TypeInv, TypeOK
<1>4. CASE BeginReorder(h)
  <2>1. CallOK([NewCall("reorder") EXCEPT !.nchunk = view[h].nchunks])
    BY DEF TypeInv, TypeOK, ViewRec, NewCall, CallOK, CallRec, CallKinds
  <2>. QED BY <1>4, <2>1, TypeStart DEF BeginReorder, TypeInv, TypeOK
<1>5. CASE BeginFill(h)
  <2>1. PICK x \in Chunks :
          Start(h, [NewCall("fill_special") EXCEPT !.chunk = x],
                IF Empty(view[h]) THEN "lock" ELSE "refused")
    BY <1>5 DEF BeginFill
  <2>2. CallOK([NewCall("fill_special") EXCEPT !.chunk = x])
    BY DEF NewCall, CallOK, CallRec, CallKinds
  <2>3. /\ view' \in [Handles -> ViewRec]
        /\ \A g \in Handles \ {h} : view'[g] = view[g]
    BY ZenonT(30), <1>5 DEF BeginFill, TypeInv, TypeOK, ViewRec
  <2>. QED BY <2>1, <2>2, <2>3, TypeStart
<1>6. CASE BeginVlmeta(h)
  <2>1. PICK kind \in {"vlmeta_add", "vlmeta_delete"}, m \in Names :
          Start(h, [NewCall(kind) EXCEPT !.name = m], "lock")
    BY <1>6 DEF BeginVlmeta
  <2>2. CallOK([NewCall(kind) EXCEPT !.name = m])
    BY DEF NewCall, CallOK, CallRec, CallKinds
  <2>. QED BY <1>6, <2>1, <2>2, TypeStart DEF BeginVlmeta, TypeInv, TypeOK
<1>. QED BY <1>1, <1>2, <1>3, <1>4, <1>5, <1>6 DEF Begin

(* A step of frame_lock, frame_unlock, open or free. *)
LEMMA TypeLock ==
  ASSUME TypeInv, NEW h \in Handles,
         \/ LockNested(h) \/ LockOuter(h) \/ LockFails(h) \/ Unlock(h)
         \/ ReturnRefused(h) \/ EndBracket(h) \/ OpenBoot(h) \/ Free(h)
  PROVE  TypeInv'
<1>1. CASE LockNested(h)
  BY <1>1 DEF LockNested, Granted, AfterLock, TypeInv, TypeOK, Places, CallOK, Writers
<1>2. CASE LockOuter(h)
  BY <1>2 DEF LockOuter, Granted, AfterLock, TypeInv, TypeOK, Places, CallOK, Writers
<1>3. CASE LockFails(h)
  <2>1. NoView \in ViewRec
    BY DEF NoView, ViewRec
  <2>2. Undone(view[h], call[h]) \in ViewRec
    BY ZenonT(30) DEF Undone, ViewRec, TypeInv, TypeOK
  <2>3. CASE call[h].kind = "open"
    <3>1. Closed(h) /\ UNCHANGED <<disk, seq>>
      BY <1>3, <2>3 DEF LockFails
    <3>. QED BY <2>1, <3>1 DEF Closed, TypeInv, TypeOK, Places, Results
  <2>4. CASE call[h].kind # "open"
    <3>1. /\ view' = [view EXCEPT ![h] = Undone(view[h], call[h])]
          /\ pc' = [pc EXCEPT ![h] = "idle"]
          /\ call' = [call EXCEPT ![h] = NoCall]
          /\ UNCHANGED <<disk, seq, os_lock, lock_depth, lock_seq, force_refresh, rc>>
      BY <1>3, <2>4, Zenon DEF LockFails
    <3>. QED BY <2>2, <3>1 DEF TypeInv, TypeOK, Places
  <2>. QED BY <2>3, <2>4
<1>4. CASE Unlock(h)
  <2> DEFINE c == call[h]
  <2>1. CallOK(c) /\ view[h] \in ViewRec
    BY <1>4 DEF Unlock, TypeInv, TypeOK
  <2>2. lock_depth' \in [Handles -> Nat]
    BY <1>4 DEF Unlock, TypeInv, TypeOK
  <2>3. os_lock' \in [Handles -> {"none", "shared", "exclusive"}]
    BY <1>4 DEF Unlock, TypeInv, TypeOK
  <2>4. CASE c.kind \in {"vlmeta_add", "vlmeta_delete"} /\ ~c.flush /\ rc[h] = "ok"
    <3>1. CallOK([c EXCEPT !.flush = TRUE])
      BY <2>1, <2>4 DEF CallOK, CallRec
    <3>2. [view[h] EXCEPT !.vl = IF c.kind = "vlmeta_add" THEN @ \cup {c.name}
                                 ELSE @ \ {c.name}] \in ViewRec
      BY <2>1, <2>4 DEF ViewRec, CallOK
    <3>3. call' = [call EXCEPT ![h] = [c EXCEPT !.flush = TRUE]]
      BY <1>4, <2>4 DEF Unlock, TypeInv, TypeOK
    <3>4. view' = [view EXCEPT ![h] = [view[h] EXCEPT !.vl =
                     IF c.kind = "vlmeta_add" THEN @ \cup {c.name} ELSE @ \ {c.name}]]
      BY <1>4, <2>4 DEF Unlock, TypeInv, TypeOK
    <3>5. /\ pc' = [pc EXCEPT ![h] = "lock"] /\ rc' = [rc EXCEPT ![h] = "none"]
          /\ UNCHANGED <<disk, seq, lock_seq, force_refresh>>
      BY <1>4, <2>4 DEF Unlock
    <3>6. \A g \in Handles \ {h} : lock_depth'[g] = lock_depth[g]
      BY <1>4 DEF Unlock, TypeInv, TypeOK
    <3>7. TypeOK'
      BY <2>2, <2>3, <3>1, <3>2, <3>3, <3>4, <3>5
         DEF TypeInv, TypeOK, Places, Results, CallOK
    <3>. QED BY <3>1, <3>3, <3>4, <3>5, <3>6, <3>7 DEF TypeInv, TypeOK
  <2>5. CASE ~(c.kind \in {"vlmeta_add", "vlmeta_delete"} /\ ~c.flush /\ rc[h] = "ok")
    BY <1>4, <2>2, <2>3, <2>5 DEF Unlock, TypeInv, TypeOK, Places, Results
  <2>. QED BY <2>4, <2>5
<1>5. CASE ReturnRefused(h)
  BY <1>5 DEF ReturnRefused, lockvars, TypeInv, TypeOK, Places
<1>6. CASE EndBracket(h)
  BY <1>6 DEF EndBracket, TypeInv, TypeOK
<1>7. CASE OpenBoot(h)
  <2>1. CallOK(NewCall("open"))
    BY DEF NewCall, CallOK, CallRec, CallKinds
  <2>2. ViewOf(disk) \in ViewRec
    BY ViewOfType DEF TypeInv, TypeOK
  <2>3. \A n \in 0 .. MaxChunks, s \in SUBSET Names :
          [ViewOf(disk) EXCEPT !.nchunks = n, !.vl = s] \in ViewRec
    <3> SUFFICES ASSUME NEW n \in 0 .. MaxChunks, NEW s \in SUBSET Names
                 PROVE  [ViewOf(disk) EXCEPT !.nchunks = n, !.vl = s] \in ViewRec
      OBVIOUS
    <3>1. n \in Nat
      BY BoundsAssumption
    <3>. QED BY <2>2, <3>1 DEF ViewRec
  <2>4. view' \in [Handles -> ViewRec] /\ \A g \in Handles \ {h} : view'[g] = view[g]
    <3>1. PICK v \in ViewRec : view' = [view EXCEPT ![h] = v]
      BY <1>7, <2>2, <2>3, Zenon DEF OpenBoot
    <3>. QED BY <3>1 DEF TypeInv, TypeOK
  <2>. QED
    BY ZenonT(30), <1>7, <2>1, <2>4 DEF OpenBoot, lockvars, TypeInv, TypeOK, Places, CallOK
<1>8. CASE Free(h)
  <2>1. NoView \in ViewRec
    BY DEF NoView, ViewRec
  <2>. QED BY <1>8, <2>1 DEF Free, Closed, TypeInv, TypeOK, Places, Results
<1>. QED BY <1>1, <1>2, <1>3, <1>4, <1>5, <1>6, <1>7, <1>8

(* The index a handle sees is a sequence of chunks, or none. *)
LEMMA IndexSeenType ==
  ASSUME NEW v \in ViewRec, NEW d \in DiskRec
  PROVE  IndexSeen(v, d) \in Seq(Chunks) \cup {NoIndex}
BY DEF IndexSeen, ViewRec, DiskRec

(* A handle syncs with the disk. *)
LEMMA TypeSyncTo ==
  ASSUME TypeInv, NEW h \in Handles, pc[h] = "sync",
         NEW v \in ViewRec, NEW outcome \in Results, NEW place \in {"write", "unlock"},
         SyncTo(h, v, outcome, place),
         force_refresh' \in [Handles -> BOOLEAN],
         \/ call' = call
         \/ \E x \in Chunks : call' = [call EXCEPT ![h].chunk = x],
         place = "write" => call[h].kind \in Writers,
         (place = "write" /\ call[h].kind = "delete") => v.nchunks >= 1
  PROVE  TypeInv'
<1>1. CallOK(call[h]) /\ call[h].kind \in CallKinds
  BY DEF TypeInv, CallOK, CallRec
<1>2. /\ view' = [view EXCEPT ![h] = v] /\ rc' = [rc EXCEPT ![h] = outcome]
      /\ pc' = [pc EXCEPT ![h] = place]
      /\ UNCHANGED <<disk, seq, os_lock, lock_depth, lock_seq>>
  BY DEF SyncTo, lockvars
<1>3. CASE call' = call
  BY <1>1, <1>2, <1>3 DEF TypeInv, TypeOK, Places
<1>4. ASSUME NEW x \in Chunks, call' = [call EXCEPT ![h].chunk = x]
      PROVE  TypeInv'
  <2>1. call' = [call EXCEPT ![h] = [call[h] EXCEPT !.chunk = x]]
    BY <1>4 DEF TypeInv, TypeOK
  <2>2. CallOK([call[h] EXCEPT !.chunk = x]) /\ [call[h] EXCEPT !.chunk = x].kind = call[h].kind
    BY <1>1 DEF CallOK, CallRec
  <2>3. TypeOK'
    BY <1>2, <2>1, <2>2 DEF TypeInv, TypeOK, Places, CallOK
  <2>. QED BY <1>2, <2>1, <2>2, <2>3 DEF TypeInv, TypeOK
<1>. QED BY <1>3, <1>4

(* A sync of any kind of call (frame_check_stale, frame_get_chunk, open)   *)
(* leaves a typed view, and a call that goes on to write may do so.        *)
LEMMA TypeSync ==
  ASSUME TypeInv, NEW h \in Handles, Sync(h)
  PROVE  TypeInv'
<1>1. /\ view[h] \in ViewRec /\ disk \in DiskRec /\ ViewOf(disk) \in ViewRec
      /\ Synced(h) \in ViewRec
  BY ViewOfType DEF TypeInv, TypeOK, Synced
<1>2. FlagAfterSync(h) \in BOOLEAN
  BY DEF FlagAfterSync, TypeInv, TypeOK
<1>3. CASE CheckStale(h)
  <2>1. force_refresh' \in [Handles -> BOOLEAN] /\ call' = call
    BY <1>2, <1>3 DEF CheckStale, TypeInv, TypeOK
  <2>2. PICK outcome \in Results, place \in {"write", "unlock"} :
          /\ SyncTo(h, Synced(h), outcome, place)
          /\ place = "write" => call[h].kind \in {"append", "insert"}
    BY <1>3 DEF CheckStale, Results
  <2>. QED BY <1>1, <1>3, <2>1, <2>2, TypeSyncTo DEF CheckStale, Writers
<1>4. CASE GetChunk(h)
  <2> DEFINE i == call[h].nchunk
             read == call[h].kind = "read"
             v == Synced(h)
             w == [v EXCEPT !.coffsets = IndexSeen(v, disk)]
  <2>1. CallOK(call[h]) /\ i \in Nat /\ i >= 1
    BY <1>4 DEF GetChunk, TypeInv, CallOK, CallRec
  <2>2. pc[h] = "sync" /\ call[h].kind \in {"read", "update", "delete"}
    BY <1>4 DEF GetChunk
  <2>3. CASE ~read /\ ~InRange(view[h], i)
    <3>1. SyncTo(h, view[h], "error", "unlock") /\ UNCHANGED <<force_refresh, call>>
      BY <1>4, <2>3 DEF GetChunk
    <3>. QED BY <1>1, <2>2, <3>1, TypeSyncTo DEF Results, TypeInv, TypeOK
  <2>4. CASE ~(~read /\ ~InRange(view[h], i)) /\ ~(i <= disk.nchunks /\ Comparable(view[h], call[h]) /\ UsableIndex(v))
    <3>1. /\ SyncTo(h, v, "error", "unlock") /\ UNCHANGED call
          /\ force_refresh' = [force_refresh EXCEPT ![h] = FlagAfterSync(h)]
      BY <1>4, <2>4 DEF GetChunk
    <3>. QED BY <1>1, <1>2, <2>2, <3>1, TypeSyncTo DEF Results, TypeInv, TypeOK
  <2>5. CASE ~(~read /\ ~InRange(view[h], i)) /\ i <= disk.nchunks /\ Comparable(view[h], call[h]) /\ UsableIndex(v)
    <3>1. force_refresh' = [force_refresh EXCEPT ![h] = FlagAfterSync(h)]
      BY <1>4, <2>5 DEF GetChunk
    <3>2. force_refresh' \in [Handles -> BOOLEAN]
      BY <1>2, <3>1 DEF TypeInv, TypeOK
    <3>3. IndexSeen(v, disk) \in Seq(Chunks) /\ Len(IndexSeen(v, disk)) = disk.nchunks
      BY <1>1, <2>5, IndexSeenType DEF UsableIndex
    <3>4. w \in ViewRec /\ w.coffsets = IndexSeen(v, disk) /\ w.nchunks = v.nchunks
      BY <1>1, <3>3 DEF ViewRec
    <3>5. w.coffsets[i] \in Chunks
      BY <1>1, <2>1, <2>5, <3>3, <3>4 DEF DiskRec
    <3>6. CASE read
      <4>1. SyncTo(h, w, "ok", "unlock") /\ call' = [call EXCEPT ![h].chunk = w.coffsets[i]]
        BY <1>4, <2>5, <3>6 DEF GetChunk
      <4>. HIDE DEF w, v
      <4>. QED BY <2>2, <3>2, <3>4, <3>5, <4>1, TypeSyncTo DEF Results
    <3>7. CASE ~read
      <4>1. SyncTo(h, w, "none", "write") /\ UNCHANGED call
        BY <1>4, <2>5, <3>7 DEF GetChunk
      <4>2. v.nchunks >= 1
        BY <1>1, <2>1, <2>5, <3>7 DEF Synced, ViewOf, InRange, ViewRec, DiskRec
      <4>. HIDE DEF w, v
      <4>. QED BY <2>2, <3>2, <3>4, <3>7, <4>1, <4>2, TypeSyncTo DEF Results, Writers
    <3>. QED BY <3>6, <3>7
  <2>. QED BY <2>3, <2>4, <2>5
<1>5. CASE SyncReorder(h)
  <2> DEFINE v == [Synced(h) EXCEPT !.nchunks = view[h].nchunks, !.cbytes = view[h].cbytes]
  <2>1. v \in ViewRec
    BY <1>1 DEF ViewRec
  <2>2. /\ SyncTo(h, v, "none", "write") /\ call' = call /\ pc[h] = "sync"
        /\ call[h].kind = "reorder"
        /\ force_refresh' = [force_refresh EXCEPT ![h] = FlagAfterSync(h)]
    BY <1>5 DEF SyncReorder
  <2>3. force_refresh' \in [Handles -> BOOLEAN]
    BY <1>2, <2>2 DEF TypeInv, TypeOK
  <2>. HIDE DEF v
  <2>. QED BY <2>1, <2>2, <2>3, TypeSyncTo DEF Results, Writers
<1>6. CASE ReloadFails(h)
  <2> DEFINE v == [view[h] EXCEPT !.len = disk.len, !.trailer_len = Cardinality(disk.vl),
                                  !.meta = NoMeta, !.vl = {}]
  <2>1. Cardinality(disk.vl) \in Int /\ disk.len \in Int
    BY <1>1, CardinalityNat DEF DiskRec
  <2>2. v \in ViewRec
    BY <1>1, <2>1 DEF ViewRec
  <2>3. SyncTo(h, v, "error", "unlock") /\ call' = call /\ pc[h] = "sync"
    BY <1>6 DEF ReloadFails
  <2>4. force_refresh' \in [Handles -> BOOLEAN]
    BY <1>6 DEF ReloadFails, TypeInv, TypeOK
  <2>. HIDE DEF v
  <2>. QED BY <2>2, <2>3, <2>4, TypeSyncTo DEF Results
<1>7. CASE OpenReread(h)
  <2> DEFINE v == IF force_refresh[h] THEN ViewOf(disk) ELSE view[h]
  <2>1. v \in ViewRec
    BY <1>1
  <2>2. SyncTo(h, v, "ok", "unlock") /\ call' = call /\ pc[h] = "sync"
    BY <1>7 DEF OpenReread
  <2>3. force_refresh' \in [Handles -> BOOLEAN]
    BY <1>7 DEF OpenReread, TypeInv, TypeOK
  <2>. HIDE DEF v
  <2>. QED BY <2>1, <2>2, <2>3, TypeSyncTo DEF Results
<1>. QED BY <1>3, <1>4, <1>5, <1>6, <1>7 DEF Sync

(* The counters of a call about to write, and the chunks it starts from,   *)
(* are well formed, so that the new index is.                              *)
LEMMA WriteType ==
  ASSUME TypeInv, NEW h \in Handles, pc[h] = "write", ~call[h].flush,
         Acceptable(view[h], call[h])
  PROVE  LET c == call[h]
             idx == StartIndex(view[h])
         IN /\ Counted(view[h], c, idx) \in ViewRec
            /\ NewIndex(c, idx) \in Seq(Chunks) \cup {NoIndex}
            /\ Moved(c, idx) \in Int
<1> DEFINE c == call[h]
           v == view[h]
           idx == StartIndex(v)
<1>1. /\ CallOK(c) /\ c.kind \in Writers /\ v \in ViewRec /\ disk \in DiskRec
      /\ c.kind = "delete" => v.nchunks >= 1
  BY DEF TypeInv, TypeOK
<1>2. c.nchunk \in Nat
  BY <1>1 DEF CallOK, CallRec
<1>3. \A x \in Chunks : x.cbytes \in Nat
  BY ChunksAssumption
<1>4. UsableIndex(v) => /\ IndexSeen(v, disk) \in Seq(Chunks)
                        /\ Len(IndexSeen(v, disk)) = disk.nchunks
  BY <1>1, IndexSeenType DEF UsableIndex
<1>5. disk.nchunks \in Nat
  BY <1>1 DEF DiskRec
<1>6. CASE c.kind \in {"append", "insert"}
  <2>1. idx \in Seq(Chunks) /\ Len(idx) = disk.nchunks /\ c.chunk \in Chunks
    <3>1. disk.nchunks > 0 => UsableIndex(v)
      BY <1>6 DEF Acceptable
    <3>. QED BY <1>1, <1>4, <1>5, <1>6, <3>1 DEF StartIndex, CallOK
  <2>2. c.kind = "insert" => c.nchunk \in 1 .. Len(idx) + 1
    BY <1>1, <1>2, <1>5, <2>1 DEF Acceptable, CallOK
  <2>. HIDE DEF idx
  <2>3. NewIndex(c, idx) \in Seq(Chunks)
    BY <1>6, <2>1, <2>2, InsertAtType DEF NewIndex, InsertedIndex, AppendedIndex
  <2>4. c.chunk.cbytes \in Int
    BY <1>3, <2>1
  <2>5. Counted(v, c, idx) = [v EXCEPT !.nchunks = @ + 1, !.cbytes = @ + c.chunk.cbytes]
    BY <1>6 DEF Counted, CountStored
  <2>6. v.nchunks + 1 \in Nat /\ v.cbytes + c.chunk.cbytes \in Int
    BY <1>1, <2>4 DEF ViewRec
  <2>7. Counted(v, c, idx) \in ViewRec
    BY <1>1, <2>5, <2>6 DEF ViewRec
  <2>. QED BY <1>6, <2>3, <2>4, <2>7 DEF Moved, idx
<1>7. CASE c.kind \in {"update", "delete"}
  <2>1. UsableIndex(v) /\ c.nchunk \in 1 .. disk.nchunks
    <3>1. UsableIndex(v) /\ c.nchunk <= disk.nchunks
      BY <1>7 DEF Acceptable
    <3>2. c.nchunk >= 1
      BY <1>1, <1>7 DEF CallOK
    <3>. QED BY <1>2, <1>5, <3>1, <3>2
  <2>2. idx \in Seq(Chunks) /\ c.nchunk \in 1 .. Len(idx)
    BY <1>4, <1>5, <2>1 DEF StartIndex
  <2>3. idx[c.nchunk].cbytes \in Int
    BY <1>3, <2>2
  <2>4. c.kind = "update" => c.chunk \in Chunks /\ c.chunk.cbytes \in Int
    BY <1>1, <1>3 DEF CallOK
  <2>. HIDE DEF idx
  <2>5. NewIndex(c, idx) \in Seq(Chunks)
    BY <1>7, <2>2, <2>4, ReplaceAtType, RemoveAtType DEF NewIndex, UpdatedIndex, DeletedIndex
  <2>6. Moved(c, idx) \in Int
    BY <1>7, <2>3, <2>4 DEF Moved
  <2>7. v.nchunks \in Nat /\ v.cbytes \in Int
    BY <1>1 DEF ViewRec
  <2>8. CASE c.kind = "update"
    <3>1. Counted(v, c, idx) = [v EXCEPT !.cbytes = @ + c.chunk.cbytes - idx[c.nchunk].cbytes]
      BY <2>8 DEF Counted, CountUpdated
    <3>2. v.cbytes + c.chunk.cbytes - idx[c.nchunk].cbytes \in Int
      BY <2>3, <2>4, <2>7, <2>8
    <3>3. Counted(v, c, idx) \in ViewRec
      BY <1>1, <3>1, <3>2 DEF ViewRec
    <3>. QED BY <2>5, <2>6, <3>3 DEF idx
  <2>9. CASE c.kind = "delete"
    <3>1. Counted(v, c, idx) = [v EXCEPT !.nchunks = @ - 1]
      BY <2>9 DEF Counted, CountDeleted
    <3>2. v.nchunks - 1 \in Nat
      BY <1>1, <2>7, <2>9
    <3>3. Counted(v, c, idx) \in ViewRec
      BY <1>1, <3>1, <3>2 DEF ViewRec
    <3>. QED BY <2>5, <2>6, <3>3 DEF idx
  <2>. QED BY <1>7, <2>8, <2>9
<1>8. CASE c.kind = "reorder"
  <2>1. UsableIndex(v)
    BY <1>8 DEF Acceptable
  <2>2. idx \in Seq(Chunks)
    BY <1>4, <2>1 DEF StartIndex
  <2>. HIDE DEF idx
  <2>3. NewIndex(c, idx) \in Seq(Chunks) \cup {NoIndex}
    BY <1>8, <2>2, ReverseType DEF NewIndex, ReorderedIndex
  <2>. QED BY <1>1, <1>8, <2>3 DEF Counted, Moved, idx
<1>9. CASE c.kind = "fill_special"
  <2>1. NewIndex(c, idx) \in Seq(Chunks)
    BY <1>1, <1>9 DEF NewIndex, SpecialIndex, CallOK
  <2>. QED BY <1>1, <1>9, <2>1 DEF Counted, Moved
<1>. QED BY <1>1, <1>6, <1>7, <1>8, <1>9 DEF Writers

(* A handle writes, or fails to. *)
LEMMA TypeWrite ==
  ASSUME TypeInv, NEW h \in Handles, Write(h) \/ MetaUpdate(h)
  PROVE  TypeInv'
<1> DEFINE c == call[h]
           idx == StartIndex(view[h])
<1>1. view[h] \in ViewRec /\ disk \in DiskRec
  BY DEF TypeInv, TypeOK
<1>2. CASE WriteChunks(h)
  <2> DEFINE v == Counted(view[h], c, idx)
             at == disk.cbytes + Moved(c, idx)
             d == WrittenDisk(v, NewIndex(c, idx), at)
  <2>1. /\ pc[h] = "write" /\ disk' = d /\ view' = [view EXCEPT ![h] = WriterView(v, d)]
        /\ rc' = [rc EXCEPT ![h] = "ok"] /\ pc' = [pc EXCEPT ![h] = "unlock"]
        /\ UNCHANGED <<seq, os_lock, lock_depth, lock_seq, force_refresh, call>>
    BY <1>2 DEF WriteChunks, lockvars
  <2>2. v \in ViewRec /\ NewIndex(c, idx) \in Seq(Chunks) \cup {NoIndex} /\ at \in Int
    BY <1>1, <1>2, WriteType DEF WriteChunks, DiskRec
  <2>. HIDE DEF v, at
  <2>3. Cardinality(v.vl) \in Nat
    BY <2>2, CardinalityNat DEF ViewRec
  <2>4. d \in DiskRec
    BY <2>2, <2>3 DEF WrittenDisk, DiskRec, ViewRec
  <2>. HIDE DEF d
  <2>5. WriterView(v, d) \in ViewRec
    <3>1. d.len \in Int /\ Cardinality(v.vl) \in Int
      BY <2>3, <2>4 DEF DiskRec
    <3>. QED BY <2>2, <3>1 DEF WriterView, ViewRec
  <2>. QED BY <2>1, <2>4, <2>5 DEF TypeInv, TypeOK, Places, Results
<1>3. CASE WriteRefused(h)
  <2>1. Undone(view[h], c) \in ViewRec
    BY <1>1 DEF Undone, ViewRec
  <2>2. /\ pc[h] = "write" /\ view' = [view EXCEPT ![h] = Undone(view[h], c)]
        /\ rc' = [rc EXCEPT ![h] = "error"] /\ pc' = [pc EXCEPT ![h] = "unlock"]
        /\ UNCHANGED <<disk, seq, os_lock, lock_depth, lock_seq, force_refresh, call>>
    BY <1>3 DEF WriteRefused, lockvars
  <2>. QED BY <2>1, <2>2 DEF TypeInv, TypeOK, Places, Results
<1>4. CASE WriteVlmeta(h)
  <2> DEFINE v == view[h]
             at == IF v.nchunks > 0 THEN v.len - v.trailer_len ELSE 0
             end == at + Cardinality(v.vl)
  <2>1. v.vl \in SUBSET Names /\ Cardinality(v.vl) \in Int /\ at \in Int /\ end \in Int
    BY <1>1, CardinalityNat DEF ViewRec
  <2>2. PICK cut \in BOOLEAN :
          disk' = [WithHeader(disk, v) EXCEPT !.len = end, !.vl = v.vl, !.end = end,
                                              !.index = IF cut THEN NoIndex ELSE @]
    BY <1>4 DEF WriteVlmeta, TrailerStart
  <2>3. view' = [view EXCEPT ![h] = [v EXCEPT !.len = end, !.trailer_len = Cardinality(v.vl)]]
    BY <1>4 DEF WriteVlmeta, TrailerStart, FlushedView, TypeInv, TypeOK
  <2>. HIDE DEF at, end
  <2>4. disk' \in DiskRec
    BY <1>1, <2>1, <2>2 DEF WithHeader, DiskRec, ViewRec
  <2>5. [v EXCEPT !.len = end, !.trailer_len = Cardinality(v.vl)] \in ViewRec
    BY <1>1, <2>1 DEF ViewRec
  <2>6. /\ pc[h] = "write" /\ rc' = [rc EXCEPT ![h] = "ok"] /\ pc' = [pc EXCEPT ![h] = "unlock"]
        /\ UNCHANGED <<seq, os_lock, lock_depth, lock_seq, force_refresh, call>>
    BY <1>4 DEF WriteVlmeta, lockvars
  <2>. QED BY <2>3, <2>4, <2>5, <2>6 DEF TypeInv, TypeOK, Places, Results
<1>5. CASE WriteFails(h)
  <2>1. /\ pc[h] = "write"
        /\ view' = [view EXCEPT ![h] = Undone(Counted(view[h], c, idx), c)]
        /\ rc' = [rc EXCEPT ![h] = "error"] /\ pc' = [pc EXCEPT ![h] = "unlock"]
        /\ UNCHANGED <<disk, seq, os_lock, lock_depth, lock_seq, force_refresh, call>>
    BY <1>5 DEF WriteFails, lockvars
  <2>2. Counted(view[h], c, idx) \in ViewRec
    <3>1. CASE c.flush
      <4>1. c.kind \in {"vlmeta_add", "vlmeta_delete"}
        BY <2>1, <3>1 DEF TypeInv, CallOK
      <4>. QED BY <1>1, <4>1 DEF Counted
    <3>2. CASE ~c.flush
      BY <1>5, <2>1, <3>2, WriteType DEF WriteFails
    <3>. QED BY <3>1, <3>2
  <2>3. Undone(Counted(view[h], c, idx), c) \in ViewRec
    BY <2>2 DEF Undone, ViewRec
  <2>. QED BY <2>1, <2>3 DEF TypeInv, TypeOK, Places, Results
<1>6. CASE MetaUpdate(h)
  <2>1. PICK m \in Metas : /\ view' = [view EXCEPT ![h].meta = m]
                           /\ disk' = WithHeader(disk, [view[h] EXCEPT !.meta = m])
    BY <1>6 DEF MetaUpdate
  <2>2. [view[h] EXCEPT !.meta = m] \in ViewRec
    BY <1>1 DEF ViewRec
  <2>3. disk' \in DiskRec
    BY <1>1, <2>1, <2>2 DEF WithHeader, DiskRec, ViewRec
  <2>4. view' = [view EXCEPT ![h] = [view[h] EXCEPT !.meta = m]]
    BY <2>1 DEF TypeInv, TypeOK
  <2>5. pc[h] = "idle" /\ UNCHANGED <<seq, os_lock, lock_depth, lock_seq, force_refresh, pc, call, rc>>
    BY <1>6 DEF MetaUpdate, lockvars
  <2>. QED BY <2>2, <2>3, <2>4, <2>5 DEF TypeInv, TypeOK
<1>. QED BY <1>2, <1>3, <1>4, <1>5, <1>6 DEF Write

(* The strengthened type invariant is inductive. *)
LEMMA TypeStep == TypeInv /\ [Next]_vars => TypeInv'
<1>1. ASSUME TypeInv, UNCHANGED vars PROVE TypeInv'
  BY <1>1 DEF vars, TypeInv, TypeOK
<1>2. ASSUME TypeInv, NEW h \in Handles,
             \/ Begin(h) \/ LockNested(h) \/ LockOuter(h) \/ LockFails(h)
             \/ Sync(h) \/ Write(h) \/ Unlock(h) \/ ReturnRefused(h)
             \/ EndBracket(h) \/ MetaUpdate(h) \/ OpenBoot(h) \/ Free(h)
      PROVE  TypeInv'
  BY <1>2, TypeBegin, TypeLock, TypeSync, TypeWrite
<1>. QED BY <1>1, <1>2 DEF Next

(* Every variable keeps its type, whatever the calls, the faults and the   *)
(* interleaving: in particular the nesting depth of the lock is never      *)
(* decremented below zero, and the numbers of chunks never become negative. *)
THEOREM TypeCorrect == Spec => []TypeOK
<1>1. Init => TypeInv
  BY TypeInit
<1>2. TypeInv /\ [Next]_vars => TypeInv'
  BY TypeStep
<1>3. TypeInv => TypeOK
  BY DEF TypeInv
<1>. QED BY <1>1, <1>2, <1>3, PTL DEF Spec
-----------------------------------------------------------------------------
(* The lock protocol. *)

(* What LockDiscipline needs to be inductive: only a bracket leaves a      *)
(* handle between calls with the lock in its hands, or nests it, and a     *)
(* bracket is exclusive; a call that writes asked for an exclusive lock.   *)
LockInv ==
  /\ LockDiscipline
  /\ \A h \in Handles :
       /\ lock_seq[h] <= seq
       /\ os_lock[h] = "exclusive" => seq >= 1
       /\ lock_depth[h] > 1 => os_lock[h] = "exclusive"
       /\ (pc[h] \in {"idle", "lock", "refused"} /\ lock_depth[h] > 0) =>
            os_lock[h] = "exclusive"
       /\ pc[h] = "closed" => os_lock[h] = "none"
       /\ (pc[h] \in {"sync", "write", "unlock"} /\ Exclusive(call[h])) =>
            os_lock[h] = "exclusive"
       /\ pc[h] = "write" => Exclusive(call[h])

(* No handle holds the lock before the first call. *)
LEMMA LockInit == Init => LockInv
BY DEF Init, LockInv, LockDiscipline

(* Steps that leave the lock alone and take the call of one handle on. *)
LEMMA LockKept ==
  ASSUME TypeInv, TypeInv', LockInv, NEW h \in Handles,
         UNCHANGED lockvars,
         \A g \in Handles \ {h} : pc'[g] = pc[g] /\ call'[g] = call[g],
         pc'[h] \in {"sync", "write", "unlock"} =>
           /\ pc[h] \in {"sync", "write"} /\ Exclusive(call'[h]) = Exclusive(call[h])
           /\ pc'[h] = "write" => Exclusive(call[h]),
         pc'[h] \in {"idle", "lock", "refused"} => pc[h] \in {"idle", "refused", "closed"},
         pc'[h] # "closed"
  PROVE  LockInv'
BY DEF LockInv, LockDiscipline, lockvars, TypeInv, TypeOK, Places

(* Every step of every handle keeps the lock protocol: frame_lock and      *)
(* frame_unlock by their own tests, the others because they leave it alone. *)
LEMMA LockStep == TypeInv /\ TypeInv' /\ LockInv /\ [Next]_vars => LockInv'
<1>1. ASSUME LockInv, UNCHANGED vars PROVE LockInv'
  BY <1>1 DEF vars, LockInv, LockDiscipline
<1>2. ASSUME TypeInv, TypeInv', LockInv, NEW h \in Handles,
             \/ Begin(h) \/ LockNested(h) \/ LockOuter(h) \/ LockFails(h)
             \/ Sync(h) \/ Write(h) \/ Unlock(h) \/ ReturnRefused(h)
             \/ EndBracket(h) \/ MetaUpdate(h) \/ OpenBoot(h) \/ Free(h)
      PROVE  LockInv'
  <2> USE <1>2
  <2>1. CASE Begin(h)
    <3>1. ASSUME NEW c, NEW place \in {"lock", "refused"}, Start(h, c, place)
          PROVE  LockInv'
      BY <3>1, LockKept DEF Start, TypeInv, TypeOK
    <3>. QED
      BY <2>1, <3>1, Zenon DEF Begin, BeginLocked, BeginBracket, BeginRead,
         BeginReorder, BeginFill, BeginVlmeta
  <2>2. CASE LockNested(h)
    BY <2>2 DEF LockNested, Granted, AfterLock, Exclusive, LockInv, LockDiscipline,
       TypeInv, TypeOK, CallOK
  <2>3. CASE LockOuter(h)
    <3>1. /\ pc[h] = "lock" /\ lock_depth[h] = 0 /\ os_lock[h] = "none"
          /\ pc'[h] = AfterLock(call[h]) /\ lock_depth'[h] = 1 /\ lock_seq'[h] = seq'
          /\ call' = call /\ seq \in Nat
          /\ \A g \in Handles \ {h} :
               /\ pc'[g] = pc[g] /\ lock_depth'[g] = lock_depth[g]
               /\ os_lock'[g] = os_lock[g] /\ lock_seq'[g] = lock_seq[g]
          /\ \A g \in Handles : /\ lock_seq[g] \in Nat /\ lock_seq[g] <= seq
                                /\ lock_depth[g] \in Nat
      BY <2>3 DEF LockOuter, Granted, LockInv, LockDiscipline, TypeInv, TypeOK
    <3>2. /\ AfterLock(call[h]) \in {"idle", "write", "sync"}
          /\ AfterLock(call[h]) \in {"idle", "write"} => Exclusive(call[h])
      <4>1. CASE call[h].kind = "bracket"
        BY <4>1 DEF AfterLock, Exclusive
      <4>2. CASE call[h].kind # "bracket" /\ (call[h].kind = "fill_special" \/ call[h].flush)
        <5>1. AfterLock(call[h]) = "write"
          BY <4>2 DEF AfterLock
        <5>2. call[h].flush => call[h].kind \in {"vlmeta_add", "vlmeta_delete"}
          BY <3>1 DEF TypeInv, CallOK
        <5>3. Exclusive(call[h])
          BY <4>2, <5>2 DEF Exclusive
        <5>. QED BY <5>1, <5>3
      <4>3. CASE call[h].kind # "bracket" /\ ~(call[h].kind = "fill_special" \/ call[h].flush)
        BY <4>3 DEF AfterLock
      <4>. QED BY <4>1, <4>2, <4>3
    <3>3. CASE Exclusive(call[h])
      <4>1. /\ os_lock'[h] = "exclusive" /\ seq' = seq + 1
            /\ \A g \in Handles \ {h} : os_lock[g] = "none"
        BY <2>3, <3>3 DEF LockOuter, Grantable, TypeInv, TypeOK
      <4>2. LockDiscipline'
        BY <3>1, <4>1 DEF LockInv, LockDiscipline
      <4>. QED BY <3>1, <3>2, <3>3, <4>1, <4>2 DEF LockInv
    <3>4. CASE ~Exclusive(call[h])
      <4>1. /\ os_lock'[h] = "shared" /\ seq' = seq
            /\ \A g \in Handles \ {h} : os_lock[g] \in {"none", "shared"}
        BY <2>3, <3>4 DEF LockOuter, Grantable, TypeInv, TypeOK
      <4>2. AfterLock(call[h]) = "sync"
        BY <3>2, <3>4
      <4>3. LockDiscipline'
        BY <3>1, <4>1, <4>2 DEF LockInv, LockDiscipline
      <4>. QED BY <3>1, <3>4, <4>1, <4>2, <4>3 DEF LockInv
    <3>. QED BY <3>3, <3>4
  <2>4. CASE LockFails(h)
    BY <2>4 DEF LockFails, Closed, LockInv, LockDiscipline, TypeInv, TypeOK
  <2>5. CASE Sync(h)
    <3>1. ASSUME NEW v, NEW outcome, NEW place \in {"write", "unlock"},
                 SyncTo(h, v, outcome, place), pc[h] = "sync",
                 place = "write" => Exclusive(call[h]),
                 \/ call' = call
                 \/ \E x : call' = [call EXCEPT ![h].chunk = x]
          PROVE  LockInv'
      <4>1. Exclusive(call'[h]) = Exclusive(call[h])
        BY <3>1 DEF Exclusive, TypeInv, TypeOK, CallOK, CallRec
      <4>2. \A g \in Handles \ {h} : pc'[g] = pc[g] /\ call'[g] = call[g]
        BY <3>1 DEF SyncTo, TypeInv, TypeOK
      <4>3. pc'[h] = place /\ UNCHANGED lockvars
        BY <3>1 DEF SyncTo, TypeInv, TypeOK
      <4>. QED BY <3>1, <4>1, <4>2, <4>3, LockKept
    <3>2. CASE CheckStale(h)
      BY <2>5, <3>1, <3>2 DEF CheckStale, Exclusive
    <3>3. CASE GetChunk(h)
      BY <2>5, <3>1, <3>3 DEF GetChunk, Exclusive
    <3>4. CASE SyncReorder(h)
      BY <2>5, <3>1, <3>4 DEF SyncReorder, Exclusive
    <3>5. CASE ReloadFails(h) \/ OpenReread(h)
      BY <2>5, <3>1, <3>5 DEF ReloadFails, OpenReread
    <3>. QED BY <2>5, <3>2, <3>3, <3>4, <3>5 DEF Sync
  <2>6. CASE Write(h)
    <3>1. /\ pc[h] = "write" /\ pc' = [pc EXCEPT ![h] = "unlock"]
          /\ UNCHANGED <<lockvars, call>>
      BY <2>6 DEF Write, WriteChunks, WriteRefused, WriteVlmeta, WriteFails
    <3>. QED BY <3>1, LockKept DEF TypeInv, TypeOK
  <2>7. CASE Unlock(h)
    BY <2>7 DEF Unlock, Exclusive, LockInv, LockDiscipline, TypeInv, TypeOK
  <2>8. CASE ReturnRefused(h)
    BY <2>8, LockKept DEF ReturnRefused, TypeInv, TypeOK
  <2>9. CASE EndBracket(h)
    BY <2>9 DEF EndBracket, LockInv, LockDiscipline, TypeInv, TypeOK
  <2>10. CASE MetaUpdate(h)
    BY <2>10, LockKept DEF MetaUpdate, TypeInv, TypeOK
  <2>11. CASE OpenBoot(h)
    BY <2>11, LockKept DEF OpenBoot, TypeInv, TypeOK
  <2>12. CASE Free(h)
    BY <2>12 DEF Free, Closed, LockInv, LockDiscipline, TypeInv, TypeOK
  <2>. QED
    BY <2>1, <2>2, <2>3, <2>4, <2>5, <2>6, <2>7, <2>8, <2>9, <2>10, <2>11, <2>12
<1>. QED BY <1>1, <1>2 DEF Next

(* The lock protocol holds for any number of handles and any calls and     *)
(* faults: an exclusive holder is alone and is the only one to have seen   *)
(* its generation, and depth and OS lock never come apart.                 *)
THEOREM LockProtocol == Spec => []LockDiscipline
<1>1. Init => TypeInv /\ LockInv
  BY TypeInit, LockInit
<1>2. TypeInv /\ LockInv /\ [Next]_vars => (TypeInv /\ LockInv)'
  BY TypeStep, LockStep
<1>3. LockInv => LockDiscipline
  BY DEF LockInv
<1>. QED BY <1>1, <1>2, <1>3, PTL DEF Spec
-----------------------------------------------------------------------------
(* The generation counter, under the calls of Disciplined. *)

VlmetaKinds == {"vlmeta_add", "vlmeta_delete"}
InCall(h) == pc[h] \in {"lock", "sync", "write", "unlock", "refused"}

(* The trailer follows the index, which follows the chunks: what a vlmeta  *)
(* flush relies on when it computes where to write from cached lengths.    *)
Layout == disk.nchunks > 0 =>
            disk.len = disk.index_at + Len(disk.index) + Cardinality(disk.vl)

(* What the guarantees of one handle rest on: a handle writes only with no *)
(* refresh pending, and a vlmeta call stays inside the bracket of its      *)
(* caller from its lookup to its flush.                                    *)
HandleOK(h) ==
  /\ (pc[h] # "closed" /\ lock_seq[h] = seq /\ ~force_refresh[h]) => Describes(h)
  /\ (pc[h] = "unlock" /\ call[h].kind = "read" /\ rc[h] = "ok") =>
       /\ call[h].nchunk \in 1 .. Len(disk.index)
       /\ call[h].chunk = disk.index[call[h].nchunk]
  /\ (pc[h] = "unlock" /\ call[h].kind = "refresh" /\ rc[h] = "ok") =>
       view[h].nchunks = disk.nchunks /\ view[h].cbytes = disk.cbytes
  /\ InCall(h) => call[h].kind \notin {"reorder", "fill_special"}
  /\ (pc[h] = "lock" /\ call[h].kind \in VlmetaKinds) => lock_depth[h] >= 1
  /\ (pc[h] \in {"sync", "write", "unlock"} /\ call[h].kind \in VlmetaKinds) =>
       lock_depth[h] >= 2
  /\ pc[h] = "write" => ~force_refresh[h]
  /\ (pc[h] = "lock" /\ call[h].flush) => ~force_refresh[h]
  /\ (pc[h] = "unlock" /\ call[h].kind \in VlmetaKinds /\ ~call[h].flush) =>
       ~force_refresh[h]

GenInv == FrameIntact /\ Layout /\ \A h \in Handles : HandleOK(h)

(* A step leaves everything handle g owns alone. *)
Same(g) == /\ os_lock'[g] = os_lock[g] /\ lock_depth'[g] = lock_depth[g]
           /\ lock_seq'[g] = lock_seq[g] /\ force_refresh'[g] = force_refresh[g]
           /\ view'[g] = view[g] /\ pc'[g] = pc[g] /\ call'[g] = call[g]
           /\ rc'[g] = rc[g]

(* The handles open at the start have read the frame that is on disk. *)
LEMMA GenInit == Init => GenInv
<1> SUFFICES ASSUME Init PROVE GenInv
  OBVIOUS
<1>1. PICK m \in Metas : disk = EmptyDisk(m)
  BY DEF Init
<1>2. FrameIntact /\ Layout
  <2>1. <<>> \in Seq(Chunks)
    OBVIOUS
  <2>2. NoIndex # <<>>
    BY <2>1, NoIndexAssumption
  <2>. QED BY <1>1, <2>2 DEF FrameIntact, Layout, IndexReadable, TrailerReadable, EmptyDisk
<1>3. ASSUME NEW h \in Handles PROVE HandleOK(h)
  <2>1. pc[h] \in {"idle", "closed"} /\ (pc[h] = "idle" => view[h] = ViewOf(disk))
    BY DEF Init
  <2>2. pc[h] = "idle" => Describes(h)
    BY <2>1 DEF Describes, ViewOf, Flushing
  <2>. QED BY <2>1, <2>2 DEF HandleOK, InCall
<1>. QED BY <1>2, <1>3 DEF GenInv

(* A step that leaves the disk and handle g alone. *)
LEMMA GenIdle ==
  ASSUME NEW g \in Handles, HandleOK(g), Same(g), disk' = disk, seq' = seq
  PROVE  HandleOK(g)'
BY DEF HandleOK, Same, Describes, Flushing, InCall

(* A step of another handle that holds the lock exclusively: whatever it   *)
(* writes, handle g knows that it has yet to see the generation.           *)
LEMMA GenOther ==
  ASSUME NEW g \in Handles, HandleOK(g), Same(g), seq' = seq, TypeInv, LockInv,
         NEW h \in Handles \ {g}, os_lock[h] = "exclusive"
  PROVE  HandleOK(g)'
<1>1. lock_seq[g] # seq /\ os_lock[g] = "none"
  BY DEF LockInv, LockDiscipline, TypeInv, TypeOK
<1>2. pc[g] \notin {"sync", "write", "unlock"}
  BY <1>1 DEF LockInv, LockDiscipline
<1>. QED BY <1>1, <1>2 DEF HandleOK, Same, InCall

(* The index a handle that describes the disk works with is the one on     *)
(* disk.                                                                   *)
LEMMA SeesIndex ==
  ASSUME TypeInv, NEW h \in Handles, FrameIntact, Describes(h)
  PROVE  /\ disk.index \in Seq(Chunks) /\ Len(disk.index) = disk.nchunks
         /\ disk.cbytes = disk.index_at
         /\ IndexSeen(view[h], disk) = disk.index
         /\ StartIndex(view[h]) = disk.index
<1>1. disk.index \in Seq(Chunks) /\ Len(disk.index) = disk.nchunks /\ disk.cbytes = disk.index_at
  BY DEF FrameIntact, IndexReadable, TypeInv, TypeOK, DiskRec
<1>2. IndexSeen(view[h], disk) = disk.index
  BY DEF IndexSeen, Describes, FrameIntact
<1>3. disk.nchunks = 0 => disk.index = <<>>
  BY <1>1
<1>. QED BY <1>1, <1>2, <1>3 DEF StartIndex

(* A handle that holds the lock and has no refresh pending knows the disk. *)
LEMMA HolderDescribes ==
  ASSUME LockInv, GenInv, NEW h \in Handles,
         os_lock[h] # "none", pc[h] # "closed", ~force_refresh[h]
  PROVE  Describes(h)
BY DEF LockInv, LockDiscipline, GenInv, HandleOK

(* A call begins: it is one of Disciplined, and has not flushed anything. *)
LEMMA GenStart ==
  ASSUME Disciplined, TypeInv, GenInv, NEW h \in Handles, NEW c,
         NEW place \in {"lock", "refused"}, Start(h, c, place), UNCHANGED view,
         ~c.flush, c.kind \in VlmetaKinds => lock_depth[h] >= 1
  PROVE  GenInv'
<1>1. /\ pc[h] = "idle" /\ pc' = [pc EXCEPT ![h] = place] /\ call' = [call EXCEPT ![h] = c]
      /\ c.kind \in Calls
      /\ UNCHANGED <<disk, seq, os_lock, lock_depth, lock_seq, force_refresh, view, rc>>
  BY DEF Start, lockvars
<1>2. pc'[h] = place /\ call'[h] = c
  BY <1>1 DEF TypeInv, TypeOK
<1>3. ASSUME NEW g \in Handles, g # h PROVE HandleOK(g)'
  BY <1>1, <1>3, GenIdle DEF Same, GenInv, TypeInv, TypeOK
<1>4. HandleOK(h)'
  <2>1. Describes(h) => Describes(h)'
    BY <1>1, <1>2 DEF Describes, Flushing
  <2>. QED BY <1>1, <1>2, <2>1 DEF GenInv, HandleOK, InCall, Disciplined
<1>5. FrameIntact' /\ Layout'
  BY <1>1 DEF GenInv, FrameIntact, Layout, IndexReadable, TrailerReadable
<1>. QED BY <1>3, <1>4, <1>5 DEF GenInv

(* No call of Disciplined changes its view before it holds the lock. *)
LEMMA GenBegin ==
  ASSUME Disciplined, TypeInv, GenInv, NEW h \in Handles, Begin(h)
  PROVE  GenInv'
<1>1. CASE BeginLocked(h)
  <2>1. PICK i \in 1 .. MaxChunks, x \in Chunks :
          \E c \in {NewCall("refresh"),
                    [NewCall("append") EXCEPT !.chunk = x],
                    [NewCall("insert") EXCEPT !.nchunk = i, !.chunk = x],
                    [NewCall("update") EXCEPT !.nchunk = i, !.chunk = x],
                    [NewCall("delete") EXCEPT !.nchunk = i]} : Start(h, c, "lock")
    BY <1>1 DEF BeginLocked
  <2>2. PICK c \in {NewCall("refresh"),
                   [NewCall("append") EXCEPT !.chunk = x],
                   [NewCall("insert") EXCEPT !.nchunk = i, !.chunk = x],
                   [NewCall("update") EXCEPT !.nchunk = i, !.chunk = x],
                   [NewCall("delete") EXCEPT !.nchunk = i]} : Start(h, c, "lock")
    BY <2>1
  <2>3. ~c.flush /\ c.kind \notin VlmetaKinds
    <3> DEFINE Plain(r) == ~r.flush /\ r.kind \notin VlmetaKinds
    <3>1. Plain(NewCall("refresh"))
      BY DEF NewCall, VlmetaKinds
    <3>2. Plain([NewCall("append") EXCEPT !.chunk = x])
      BY DEF NewCall, VlmetaKinds
    <3>3. Plain([NewCall("insert") EXCEPT !.nchunk = i, !.chunk = x])
      BY DEF NewCall, VlmetaKinds
    <3>4. Plain([NewCall("update") EXCEPT !.nchunk = i, !.chunk = x])
      BY DEF NewCall, VlmetaKinds
    <3>5. Plain([NewCall("delete") EXCEPT !.nchunk = i])
      BY DEF NewCall, VlmetaKinds
    <3> HIDE DEF Plain
    <3>6. Plain(c)
      BY <2>2, <3>1, <3>2, <3>3, <3>4, <3>5
    <3>. QED BY <3>6 DEF Plain
  <2>. QED BY <1>1, <2>2, <2>3, GenStart DEF BeginLocked
<1>2. CASE BeginBracket(h)
  <2>1. ~NewCall("bracket").flush /\ NewCall("bracket").kind \notin VlmetaKinds
    BY DEF NewCall, VlmetaKinds
  <2>. QED BY <1>2, <2>1, GenStart DEF BeginBracket
<1>3. CASE BeginRead(h)
  <2>1. PICK i \in 1 .. MaxChunks :
          Start(h, [NewCall("read") EXCEPT !.nchunk = i],
                IF InRange(view[h], i) THEN "lock" ELSE "refused")
    BY <1>3 DEF BeginRead
  <2>2. /\ ~[NewCall("read") EXCEPT !.nchunk = i].flush
        /\ [NewCall("read") EXCEPT !.nchunk = i].kind \notin VlmetaKinds
    BY DEF NewCall, VlmetaKinds
  <2>. QED BY <1>3, <2>1, <2>2, GenStart DEF BeginRead
<1>4. CASE BeginReorder(h) \/ BeginFill(h)
  BY <1>4 DEF BeginReorder, BeginFill, Start, NewCall, Disciplined
<1>5. CASE BeginVlmeta(h)
  <2>1. PICK kind \in VlmetaKinds, m \in Names :
          Start(h, [NewCall(kind) EXCEPT !.name = m], "lock")
    BY <1>5 DEF BeginVlmeta, VlmetaKinds
  <2>2. /\ ~[NewCall(kind) EXCEPT !.name = m].flush
        /\ [NewCall(kind) EXCEPT !.name = m].kind = kind
    BY DEF NewCall
  <2>3. kind \in Calls
    BY <2>1, <2>2 DEF Start
  <2>4. lock_depth[h] >= 1
    BY <1>5, <2>1, <2>3 DEF BeginVlmeta, Disciplined, VlmetaKinds, TypeInv, TypeOK
  <2>. QED BY <1>5, <2>1, <2>2, <2>4, GenStart DEF BeginVlmeta
<1>. QED BY <1>1, <1>2, <1>3, <1>4, <1>5 DEF Begin

(* A step of frame_lock: a handle that finds the generation moved has a    *)
(* refresh pending, and one that moves it leaves all the others behind.    *)
LEMMA GenLock ==
  ASSUME Disciplined, TypeInv, LockInv, GenInv, NEW h \in Handles,
         LockNested(h) \/ LockOuter(h)
  PROVE  GenInv'
<1> DEFINE c == call[h]
<1>1. /\ pc[h] = "lock" /\ pc' = [pc EXCEPT ![h] = AfterLock(c)]
      /\ UNCHANGED <<disk, view, call, rc>>
  BY DEF LockNested, LockOuter, Granted
<1>2. /\ CallOK(c) /\ c.kind \notin {"reorder", "fill_special"}
      /\ c.kind \in VlmetaKinds => lock_depth[h] >= 1
      /\ c.flush => c.kind \in VlmetaKinds /\ ~force_refresh[h]
      /\ HandleOK(h)
  BY <1>1 DEF TypeInv, CallOK, GenInv, HandleOK, InCall, VlmetaKinds
<1>3. /\ pc'[h] = AfterLock(c) /\ pc'[h] \in {"idle", "write", "sync"}
      /\ c.flush => pc'[h] = "write"
      /\ pc'[h] = "write" => c.flush
  BY <1>1, <1>2 DEF TypeInv, TypeOK, AfterLock, VlmetaKinds
<1>4. Describes(h) => Describes(h)'
  BY <1>1, <1>3 DEF Describes, Flushing
<1>5. FrameIntact' /\ Layout'
  BY <1>1 DEF GenInv, FrameIntact, Layout, IndexReadable, TrailerReadable
<1>6. CASE LockNested(h)
  <2>1. /\ lock_depth[h] > 0 /\ lock_depth' = [lock_depth EXCEPT ![h] = @ + 1]
        /\ UNCHANGED <<seq, os_lock, lock_seq, force_refresh>>
    BY <1>6 DEF LockNested
  <2>2. lock_depth'[h] >= 2
    BY <2>1 DEF TypeInv, TypeOK
  <2>3. HandleOK(h)'
    BY <1>1, <1>2, <1>3, <1>4, <2>1, <2>2 DEF HandleOK, InCall
  <2>4. ASSUME NEW g \in Handles, g # h PROVE HandleOK(g)'
    BY <1>1, <2>1, <2>4, GenIdle DEF Same, GenInv, TypeInv, TypeOK
  <2>. QED BY <1>5, <2>3, <2>4 DEF GenInv
<1>7. CASE LockOuter(h)
  <2>1. lock_depth[h] = 0 /\ c.kind \notin VlmetaKinds /\ ~c.flush
    BY <1>2, <1>7 DEF LockOuter
  <2>2. /\ force_refresh' = [force_refresh EXCEPT ![h] = @ \/ seq # lock_seq[h]]
        /\ lock_depth' = [lock_depth EXCEPT ![h] = 1]
        /\ seq' \in {seq, seq + 1} /\ lock_seq' = [lock_seq EXCEPT ![h] = seq']
        /\ \A g \in Handles \ {h} : os_lock'[g] = os_lock[g]
    BY <1>7 DEF LockOuter, TypeInv, TypeOK
  <2>3. ~force_refresh'[h] => ~force_refresh[h] /\ lock_seq[h] = seq
    BY <2>2 DEF TypeInv, TypeOK
  <2>4. HandleOK(h)'
    BY <1>1, <1>2, <1>3, <1>4, <2>1, <2>3 DEF HandleOK, InCall
  <2>5. ASSUME NEW g \in Handles, g # h PROVE HandleOK(g)'
    <3>1. Same(g)
      BY <1>1, <2>2, <2>5 DEF Same, TypeInv, TypeOK
    <3>2. CASE seq' = seq
      BY <1>1, <3>1, <3>2, GenIdle DEF GenInv
    <3>3. CASE seq' = seq + 1
      <4>1. lock_seq'[g] # seq'
        BY <3>1, <3>3 DEF Same, LockInv, TypeInv, TypeOK
      <4>2. HandleOK(g)
        BY DEF GenInv
      <4>. QED BY <1>1, <3>1, <4>1, <4>2 DEF HandleOK, Same, InCall
    <3>. QED BY <2>2, <3>2, <3>3
  <2>. QED BY <1>5, <2>4, <2>5 DEF GenInv
<1>. QED BY <1>6, <1>7

(* A step that releases the lock, ends a call or frees the handle. *)
LEMMA GenRelease ==
  ASSUME Disciplined, TypeInv, LockInv, GenInv, NEW h \in Handles,
         \/ LockFails(h) \/ Unlock(h) \/ ReturnRefused(h) \/ EndBracket(h)
         \/ OpenBoot(h) \/ Free(h)
  PROVE  GenInv'
<1> DEFINE c == call[h]
<1>1. UNCHANGED <<disk, seq>>
  BY DEF LockFails, Closed, Unlock, ReturnRefused, EndBracket, OpenBoot, Free, lockvars
<1>2. FrameIntact' /\ Layout'
  BY <1>1 DEF GenInv, FrameIntact, Layout, IndexReadable, TrailerReadable
<1>3. ASSUME NEW g \in Handles, g # h PROVE HandleOK(g)'
  <2>1. Same(g)
    BY ZenonT(30), <1>3 DEF LockFails, Closed, Unlock, ReturnRefused, EndBracket, OpenBoot, Free,
       lockvars, Same, TypeInv, TypeOK
  <2>. QED BY <1>1, <2>1, GenIdle DEF GenInv
<1>4. HandleOK(h)
  BY DEF GenInv
<1>5. ASSUME Closed(h) PROVE HandleOK(h)'
  BY <1>5 DEF Closed, HandleOK, InCall, TypeInv, TypeOK
<1>6. CASE LockFails(h)
  <2>1. pc[h] = "lock" /\ lock_depth[h] = 0 /\ c.kind \notin VlmetaKinds \cup {"fill_special"}
    BY <1>4, <1>6 DEF LockFails, HandleOK, InCall
  <2>2. ~c.flush
    BY <2>1 DEF TypeInv, CallOK, VlmetaKinds
  <2>3. CASE c.kind = "open"
    BY <1>2, <1>3, <1>5, <1>6, <2>3 DEF LockFails, GenInv
  <2>4. CASE c.kind # "open"
    <3>1. Undone(view[h], c) = view[h]
      BY <2>1 DEF Undone, VlmetaKinds
    <3>2. /\ view'[h] = view[h] /\ pc'[h] = "idle"
          /\ UNCHANGED <<lock_depth, lock_seq, force_refresh>>
      BY <1>6, <2>4, <3>1 DEF LockFails, TypeInv, TypeOK
    <3>3. Describes(h) => Describes(h)'
      BY <1>1, <2>2, <3>2 DEF Describes, Flushing
    <3>4. HandleOK(h)'
      BY <1>1, <1>4, <2>1, <3>2, <3>3 DEF HandleOK, InCall
    <3>. QED BY <1>2, <1>3, <3>4 DEF GenInv
  <2>. QED BY <2>3, <2>4
<1>7. CASE Unlock(h)
  <2>1. /\ pc[h] = "unlock" /\ UNCHANGED <<lock_seq, force_refresh>>
        /\ lock_depth'[h] = lock_depth[h] - 1
    BY <1>7 DEF Unlock, TypeInv, TypeOK
  <2>2. CASE c.kind \in VlmetaKinds /\ ~c.flush /\ rc[h] = "ok"
    <3>1. lock_depth[h] >= 2 /\ ~force_refresh[h]
      BY <1>4, <2>1, <2>2 DEF HandleOK
    <3>2. /\ pc'[h] = "lock" /\ call'[h] = [c EXCEPT !.flush = TRUE]
          /\ view'[h] = [view[h] EXCEPT !.vl = IF c.kind = "vlmeta_add"
                           THEN @ \cup {c.name} ELSE @ \ {c.name}]
      BY <1>7, <2>2 DEF Unlock, VlmetaKinds, TypeInv, TypeOK
    <3>3. call'[h].flush /\ call'[h].kind = c.kind
      BY <2>1, <3>2 DEF TypeInv, CallOK, CallRec
    <3>4. Describes(h) => Describes(h)'
      BY <1>1, <3>2, <3>3 DEF Describes, Flushing, TypeInv, TypeOK, ViewRec
    <3>5. lock_depth'[h] >= 1
      BY <2>1, <3>1 DEF TypeInv, TypeOK
    <3>6. HandleOK(h)'
      BY <1>1, <1>4, <2>1, <2>2, <3>1, <3>2, <3>3, <3>4, <3>5
         DEF HandleOK, InCall, VlmetaKinds
    <3>. QED BY <1>2, <1>3, <3>6 DEF GenInv
  <2>3. CASE ~(c.kind \in VlmetaKinds /\ ~c.flush /\ rc[h] = "ok")
    <3>1. pc'[h] = "idle" /\ view'[h] = view[h]
      BY <1>7, <2>3 DEF Unlock, VlmetaKinds, TypeInv, TypeOK
    <3>2. Describes(h) => Describes(h)'
      BY <1>1, <2>1, <3>1 DEF Describes, Flushing
    <3>3. HandleOK(h)'
      BY <1>1, <1>4, <2>1, <3>1, <3>2 DEF HandleOK, InCall
    <3>. QED BY <1>2, <1>3, <3>3 DEF GenInv
  <2>. QED BY <2>2, <2>3
<1>8. CASE ReturnRefused(h) \/ EndBracket(h)
  <2>1. /\ pc[h] \in {"refused", "idle"} /\ pc'[h] = "idle"
        /\ UNCHANGED <<lock_seq, force_refresh, view>>
    BY <1>8 DEF ReturnRefused, EndBracket, lockvars, TypeInv, TypeOK
  <2>2. Describes(h) => Describes(h)'
    BY <1>1, <2>1 DEF Describes, Flushing
  <2>3. HandleOK(h)'
    BY <1>1, <1>4, <2>1, <2>2 DEF HandleOK, InCall
  <2>. QED BY <1>2, <1>3, <2>3 DEF GenInv
<1>9. CASE OpenBoot(h)
  <2>1. /\ pc[h] = "closed" /\ pc'[h] = "lock" /\ call'[h] = NewCall("open")
        /\ UNCHANGED <<lock_seq, os_lock, force_refresh>>
    BY <1>9 DEF OpenBoot, lockvars, TypeInv, TypeOK
  <2>2. call'[h].kind = "open" /\ ~call'[h].flush
    BY <2>1 DEF NewCall
  <2>3. lock_seq[h] = seq => view'[h] = ViewOf(disk)
    <3>1. ASSUME NEW g \in Handles, os_lock[g] = "exclusive" PROVE lock_seq[h] # seq
      <4>1. os_lock[h] = "none"
        BY <2>1 DEF LockInv
      <4>. QED BY <3>1, <4>1 DEF LockInv, LockDiscipline, TypeInv, TypeOK
    <3>. QED BY <1>9, <3>1 DEF OpenBoot, TypeInv, TypeOK
  <2>4. view'[h] = ViewOf(disk) => Describes(h)'
    BY <1>1, <2>2 DEF Describes, Flushing, ViewOf
  <2>5. HandleOK(h)'
    BY <1>1, <2>1, <2>2, <2>3, <2>4 DEF HandleOK, InCall, VlmetaKinds
  <2>. QED BY <1>2, <1>3, <2>5 DEF GenInv
<1>10. CASE Free(h)
  BY <1>2, <1>3, <1>5, <1>10 DEF Free, GenInv
<1>. QED BY <1>6, <1>7, <1>8, <1>9, <1>10

(* A handle syncs with the disk: afterwards no refresh is pending, because *)
(* the trailer of an intact frame can be read.                             *)
LEMMA GenSync ==
  ASSUME Disciplined, TypeInv, LockInv, GenInv, NEW h \in Handles, Sync(h)
  PROVE  GenInv'
<1> DEFINE c == call[h]
<1>1. pc[h] = "sync" /\ os_lock[h] # "none" /\ lock_seq[h] = seq
  BY DEF Sync, CheckStale, GetChunk, SyncReorder, ReloadFails, OpenReread, LockInv, LockDiscipline
<1>2. /\ UNCHANGED <<disk, seq, os_lock, lock_depth, lock_seq>>
      /\ \A g \in Handles \ {h} : Same(g)
  BY DEF Sync, CheckStale, GetChunk, SyncReorder, ReloadFails, OpenReread, SyncTo,
     lockvars, Same, TypeInv, TypeOK
<1>3. FrameIntact' /\ Layout'
  BY <1>2 DEF GenInv, FrameIntact, Layout, IndexReadable, TrailerReadable
<1>4. ASSUME NEW g \in Handles, g # h PROVE HandleOK(g)'
  BY <1>2, <1>4, GenIdle DEF GenInv
<1>5. /\ HandleOK(h) /\ CallOK(c) /\ c.kind \notin {"reorder", "fill_special"}
      /\ c.kind \in VlmetaKinds => lock_depth[h] >= 2
  BY <1>1 DEF GenInv, HandleOK, InCall, TypeInv
<1>6. FlagAfterSync(h) = FALSE
  BY DEF FlagAfterSync, Refreshed, Stale, GenInv, FrameIntact, TypeInv, TypeOK
<1>7. /\ Synced(h).nchunks = disk.nchunks /\ Synced(h).cbytes = disk.cbytes
      /\ Synced(h).len = disk.len /\ Synced(h).trailer_len = Cardinality(disk.vl)
      /\ Synced(h).meta = disk.meta /\ Synced(h).vl = disk.vl
      /\ Synced(h).coffsets # NoIndex => Synced(h).coffsets = disk.index
  <2>1. CASE Refreshed(h)
    BY <2>1 DEF Synced, ViewOf
  <2>2. CASE ~Refreshed(h)
    <3>1. ~force_refresh[h]
      BY <2>2 DEF Refreshed, Stale, GenInv, FrameIntact
    <3>2. Describes(h)
      BY <1>1, <3>1, HolderDescribes
    <3>. QED BY <1>1, <2>2, <3>2 DEF Synced, Describes, Flushing
  <2>. QED BY <2>1, <2>2
(* A sync that leaves a view of the disk and no refresh pending. *)
<1>8. ASSUME NEW v, NEW outcome, NEW place \in {"write", "unlock"},
             SyncTo(h, v, outcome, place), ~force_refresh'[h],
             v.nchunks = disk.nchunks, v.cbytes = disk.cbytes, v.len = disk.len,
             v.trailer_len = Cardinality(disk.vl), v.meta = disk.meta, v.vl = disk.vl,
             v.coffsets # NoIndex => v.coffsets = disk.index,
             call'[h].kind = c.kind, call'[h].flush = c.flush,
             (c.kind = "read" /\ outcome = "ok") =>
               /\ call'[h].nchunk \in 1 .. Len(disk.index)
               /\ call'[h].chunk = disk.index[call'[h].nchunk]
      PROVE  GenInv'
  <2>1. view'[h] = v /\ pc'[h] = place /\ rc'[h] = outcome
    BY <1>8 DEF SyncTo, TypeInv, TypeOK
  <2>2. Describes(h)'
    BY <1>2, <1>8, <2>1 DEF Describes
  <2>3. HandleOK(h)'
    BY <1>2, <1>5, <1>8, <2>1, <2>2 DEF HandleOK, InCall
  <2>. QED BY <1>3, <1>4, <2>3 DEF GenInv
<1>9. CASE CheckStale(h)
  <2>1. ~force_refresh'[h] /\ call' = call /\ c.kind # "read"
    BY <1>6, <1>9 DEF CheckStale, TypeInv, TypeOK
  <2>2. PICK outcome \in Results, place \in {"write", "unlock"} :
          SyncTo(h, Synced(h), outcome, place)
    BY <1>9 DEF CheckStale, Results
  <2>. QED BY <1>7, <1>8, <2>1, <2>2
<1>10. CASE GetChunk(h)
  <2> DEFINE i == c.nchunk
             read == c.kind = "read"
             v == Synced(h)
             w == [v EXCEPT !.coffsets = IndexSeen(v, disk)]
  <2>1. c.kind \in {"read", "update", "delete"} /\ c.kind \notin VlmetaKinds
    BY <1>10 DEF GetChunk, VlmetaKinds
  <2>2. CASE ~read /\ ~InRange(view[h], i)
    <3>1. /\ view'[h] = view[h] /\ pc'[h] = "unlock" /\ UNCHANGED <<force_refresh, call>>
      BY <1>10, <2>2 DEF GetChunk, SyncTo, TypeInv, TypeOK
    <3>2. Describes(h) => Describes(h)'
      BY <1>1, <1>2, <3>1 DEF Describes, Flushing
    <3>3. HandleOK(h)'
      BY <1>1, <1>2, <1>5, <2>1, <2>2, <3>1, <3>2 DEF HandleOK, InCall
    <3>. QED BY <1>3, <1>4, <3>3 DEF GenInv
  <2>3. CASE ~(~read /\ ~InRange(view[h], i))
    <3>1. ~force_refresh'[h]
      BY <1>6, <1>10, <2>3 DEF GetChunk, TypeInv, TypeOK
    <3>2. CASE ~(i <= disk.nchunks /\ Comparable(view[h], call[h]) /\ UsableIndex(v))
      <4>1. SyncTo(h, v, "error", "unlock") /\ UNCHANGED call
        BY <1>10, <2>3, <3>2 DEF GetChunk
      <4>. QED BY <1>7, <1>8, <3>1, <4>1
    <3>3. CASE i <= disk.nchunks /\ Comparable(view[h], call[h]) /\ UsableIndex(v)
      <4>1. IndexSeen(v, disk) = disk.index /\ Len(disk.index) = disk.nchunks
        BY <1>7, <3>3 DEF IndexSeen, UsableIndex, GenInv, FrameIntact, IndexReadable
      <4>2. Synced(h) \in ViewRec
        BY ViewOfType DEF Synced, TypeInv, TypeOK
      <4>3. /\ w.nchunks = disk.nchunks /\ w.cbytes = disk.cbytes /\ w.len = disk.len
            /\ w.trailer_len = Cardinality(disk.vl) /\ w.meta = disk.meta
            /\ w.vl = disk.vl /\ w.coffsets = disk.index
        BY <1>7, <4>1, <4>2 DEF ViewRec
      <4>4. i \in 1 .. Len(disk.index)
        BY <1>5, <2>1, <3>3, <4>1 DEF CallOK, CallRec, TypeInv, TypeOK, DiskRec
      <4>5. CASE read
        <5>1. /\ SyncTo(h, w, "ok", "unlock")
              /\ call' = [call EXCEPT ![h].chunk = w.coffsets[i]]
          BY <1>10, <2>3, <3>3, <4>5 DEF GetChunk
        <5>2. call'[h] = [c EXCEPT !.chunk = disk.index[i]]
          BY <4>3, <5>1 DEF TypeInv, TypeOK
        <5>3. /\ call'[h].kind = c.kind /\ call'[h].flush = c.flush
              /\ call'[h].nchunk = i /\ call'[h].chunk = disk.index[i]
          BY <1>5, <5>2 DEF CallOK, CallRec
        <5>. HIDE DEF w
        <5>. QED BY <1>8, <3>1, <4>3, <4>4, <5>1, <5>3
      <4>6. CASE ~read
        <5>1. SyncTo(h, w, "none", "write") /\ UNCHANGED call
          BY <1>10, <2>3, <3>3, <4>6 DEF GetChunk
        <5>. HIDE DEF w
        <5>. QED BY <1>8, <3>1, <4>3, <4>6, <5>1
      <4>. QED BY <4>5, <4>6
    <3>. QED BY <3>2, <3>3
  <2>. QED BY <2>2, <2>3
<1>11. CASE OpenReread(h)
  <2> DEFINE v == IF force_refresh[h] THEN ViewOf(disk) ELSE view[h]
  <2>1. SyncTo(h, v, "ok", "unlock") /\ call' = call /\ ~force_refresh'[h] /\ c.kind = "open"
    BY <1>11 DEF OpenReread, TypeInv, TypeOK
  <2>2. /\ v.nchunks = disk.nchunks /\ v.cbytes = disk.cbytes /\ v.len = disk.len
        /\ v.trailer_len = Cardinality(disk.vl) /\ v.meta = disk.meta
        /\ v.vl = disk.vl /\ (v.coffsets # NoIndex => v.coffsets = disk.index)
    <3>1. CASE force_refresh[h]
      BY <3>1 DEF ViewOf
    <3>2. CASE ~force_refresh[h]
      BY <1>1, <3>2, HolderDescribes DEF Describes, Flushing
    <3>. QED BY <3>1, <3>2
  <2>. HIDE DEF v
  <2>. QED BY <1>8, <2>1, <2>2
<1>12. CASE SyncReorder(h) \/ ReloadFails(h)
  BY <1>5, <1>12 DEF SyncReorder, ReloadFails, Disciplined
<1>. QED BY <1>9, <1>10, <1>11, <1>12 DEF Sync

(* A handle writes: it is alone, it knows the disk, and the counters, the  *)
(* index and the trailer it writes belong together.                        *)
LEMMA GenWrite ==
  ASSUME Disciplined, TypeInv, LockInv, GenInv, NEW h \in Handles,
         Write(h) \/ MetaUpdate(h)
  PROVE  GenInv'
<1> DEFINE c == call[h]
           idx == StartIndex(view[h])
<1>1. /\ os_lock[h] = "exclusive" /\ ~force_refresh[h] /\ pc[h] \in {"write", "idle"}
      /\ Write(h) => pc[h] = "write"
      /\ MetaUpdate(h) => pc[h] = "idle"
  <2>1. CASE Write(h)
    <3>1. pc[h] = "write"
      BY <2>1 DEF Write, WriteChunks, WriteRefused, WriteVlmeta, WriteFails
    <3>. QED BY <3>1 DEF LockInv, LockDiscipline, GenInv, HandleOK, MetaUpdate
  <2>2. CASE MetaUpdate(h)
    <3>1. pc[h] = "idle" /\ lock_depth[h] > 0 /\ ~force_refresh[h]
      BY <2>2 DEF MetaUpdate, Disciplined
    <3>. QED BY <3>1 DEF LockInv, Write, WriteChunks, WriteRefused, WriteVlmeta, WriteFails
  <2>. QED BY <2>1, <2>2
<1>2. Describes(h) /\ lock_seq[h] = seq
  BY <1>1, HolderDescribes DEF LockInv, LockDiscipline
<1>3. /\ UNCHANGED <<seq, os_lock, lock_depth, lock_seq, force_refresh, call>>
      /\ \A g \in Handles \ {h} : Same(g)
  BY DEF Write, WriteChunks, WriteRefused, WriteVlmeta, WriteFails, MetaUpdate,
     lockvars, Same, TypeInv, TypeOK
<1>4. ASSUME NEW g \in Handles, g # h PROVE HandleOK(g)'
  BY <1>1, <1>3, <1>4, GenOther DEF GenInv
<1>5. /\ disk.index \in Seq(Chunks) /\ Len(disk.index) = disk.nchunks
      /\ disk.cbytes = disk.index_at /\ idx = disk.index
      /\ disk.len = disk.end /\ disk.index # NoIndex
  BY <1>2, SeesIndex DEF GenInv, FrameIntact, TrailerReadable, IndexReadable
<1>6. /\ disk \in DiskRec /\ view[h] \in ViewRec /\ HandleOK(h)
      /\ disk.nchunks \in Nat /\ disk.cbytes \in Int
  BY DEF TypeInv, TypeOK, GenInv, DiskRec
<1>7. ASSUME Write(h) PROVE CallOK(c) /\ c.kind \notin {"reorder", "fill_special"}
                           /\ (c.flush \/ c.kind \in Writers)
  BY <1>1, <1>6, <1>7 DEF TypeInv, HandleOK, InCall
(* What is left to show of a write. *)
<1>8. ASSUME FrameIntact', Layout', Describes(h)', Write(h), pc'[h] = "unlock"
      PROVE  GenInv'
  <2>1. c.kind \notin {"read", "refresh"}
    BY <1>7, <1>8 DEF CallOK, Writers
  <2>2. HandleOK(h)'
    BY <1>1, <1>3, <1>6, <1>7, <1>8, <2>1 DEF HandleOK, InCall
  <2>. QED BY <1>4, <1>8, <2>2 DEF GenInv
<1>9. CASE WriteChunks(h)
  <2> DEFINE v == Counted(view[h], c, idx)
             new == NewIndex(c, idx)
             at == disk.cbytes + Moved(c, idx)
             d == WrittenDisk(v, new, at)
  <2>1. /\ disk' = d /\ view'[h] = WriterView(v, d) /\ pc'[h] = "unlock"
        /\ ~c.flush /\ Acceptable(view[h], c) /\ Write(h)
    BY <1>9 DEF WriteChunks, Write, TypeInv, TypeOK
  <2>2. c.kind \in {"append", "insert", "update", "delete"}
    BY <1>7, <2>1 DEF Writers
  <2>3. /\ view[h].nchunks = disk.nchunks /\ view[h].cbytes = disk.cbytes
        /\ view[h].vl = disk.vl
    BY <1>2, <2>1 DEF Describes, Flushing
  <2>4. v \in ViewRec /\ new \in Seq(Chunks) \cup {NoIndex} /\ at \in Int
    BY <1>1, <1>6, <2>1, WriteType
  <2>5. new \in Seq(Chunks) /\ Len(new) = v.nchunks /\ v.cbytes = at
    <3>1. c.nchunk \in Nat /\ \A x \in Chunks : x.cbytes \in Nat
      BY <1>7, <2>1, ChunksAssumption DEF CallOK, CallRec
    <3>2. CASE c.kind = "append"
      <4>1. c.chunk \in Chunks
        BY <1>7, <2>1, <3>2 DEF CallOK
      <4>2. new = Append(disk.index, c.chunk)
        BY <1>5, <3>2 DEF NewIndex, AppendedIndex
      <4>3. v.nchunks = disk.nchunks + 1 /\ v.cbytes = disk.cbytes + c.chunk.cbytes
        BY <1>6, <2>3, <3>2 DEF Counted, CountStored, ViewRec
      <4>4. at = disk.cbytes + c.chunk.cbytes
        BY <3>2 DEF Moved
      <4>. HIDE DEF v, new, at
      <4>. QED BY <1>5, <4>1, <4>2, <4>3, <4>4
    <3>3. CASE c.kind = "insert"
      <4>1. c.chunk \in Chunks /\ c.nchunk >= 1 /\ c.nchunk <= disk.nchunks + 1
        BY <1>7, <2>1, <3>3 DEF CallOK, Acceptable
      <4>2. new = InsertAt(disk.index, c.nchunk, c.chunk)
        BY <1>5, <3>3 DEF NewIndex, InsertedIndex
      <4>3. v.nchunks = disk.nchunks + 1 /\ v.cbytes = disk.cbytes + c.chunk.cbytes
        BY <1>6, <2>3, <3>3 DEF Counted, CountStored, ViewRec
      <4>4. at = disk.cbytes + c.chunk.cbytes
        BY <3>3 DEF Moved
      <4>5. c.nchunk \in 1 .. Len(disk.index) + 1
        BY <1>5, <1>6, <3>1, <4>1
      <4>. HIDE DEF v, new, at
      <4>. QED BY <1>5, <4>1, <4>2, <4>3, <4>4, <4>5, InsertAtType
    <3>4. CASE c.kind = "update"
      <4>1. c.chunk \in Chunks /\ c.nchunk >= 1 /\ c.nchunk <= disk.nchunks
        BY <1>7, <2>1, <3>4 DEF CallOK, Acceptable
      <4>2. new = ReplaceAt(disk.index, c.nchunk, c.chunk)
        BY <1>5, <3>4 DEF NewIndex, UpdatedIndex
      <4>3. c.nchunk \in 1 .. Len(disk.index)
        BY <1>5, <1>6, <3>1, <4>1
      <4>4. disk.index[c.nchunk].cbytes \in Int /\ c.chunk.cbytes \in Int
        BY <1>5, <3>1, <4>1, <4>3
      <4>5. /\ v.nchunks = disk.nchunks
            /\ v.cbytes = disk.cbytes + c.chunk.cbytes - disk.index[c.nchunk].cbytes
        BY <1>5, <1>6, <2>3, <3>4 DEF Counted, CountUpdated, ViewRec
      <4>6. at = disk.cbytes + (c.chunk.cbytes - disk.index[c.nchunk].cbytes)
        BY <1>5, <3>4 DEF Moved
      <4>. HIDE DEF v, new, at
      <4>7. v.cbytes = at
        BY <1>6, <4>4, <4>5, <4>6
      <4>. QED BY <1>5, <4>1, <4>2, <4>3, <4>5, <4>7, ReplaceAtType
    <3>5. CASE c.kind = "delete"
      <4>1. c.nchunk >= 1 /\ c.nchunk <= disk.nchunks
        BY <1>7, <2>1, <3>5 DEF CallOK, Acceptable
      <4>2. new = RemoveAt(disk.index, c.nchunk)
        BY <1>5, <3>5 DEF NewIndex, DeletedIndex
      <4>3. v.nchunks = disk.nchunks - 1 /\ v.cbytes = disk.cbytes
        BY <1>6, <2>3, <3>5 DEF Counted, CountDeleted, ViewRec
      <4>4. at = disk.cbytes
        BY <1>6, <3>5 DEF Moved
      <4>5. c.nchunk \in 1 .. Len(disk.index)
        BY <1>5, <1>6, <3>1, <4>1
      <4>. HIDE DEF v, new, at
      <4>. QED BY <1>5, <4>2, <4>3, <4>4, <4>5, RemoveAtType
    <3>. QED BY <2>2, <3>2, <3>3, <3>4, <3>5
  <2>6. Cardinality(v.vl) \in Nat /\ v.nchunks \in Nat /\ new # NoIndex
    BY <2>4, <2>5, CardinalityNat, NoIndexAssumption DEF ViewRec
  <2>. HIDE DEF v, new, at
  <2>7. /\ d.nchunks = v.nchunks /\ d.cbytes = v.cbytes /\ d.meta = v.meta
        /\ d.index = new /\ d.index_at = at /\ d.vl = v.vl /\ d.end = d.len
        /\ v.nchunks > 0 => d.len = at + Len(new) + Cardinality(v.vl)
    BY <2>6 DEF WrittenDisk
  <2>. HIDE DEF d
  <2>8. FrameIntact'
    BY <2>1, <2>5, <2>6, <2>7 DEF FrameIntact, IndexReadable, TrailerReadable
  <2>9. Layout'
    BY <2>1, <2>7 DEF Layout
  <2>10. Describes(h)'
    <3>1. /\ view'[h].nchunks = v.nchunks /\ view'[h].cbytes = v.cbytes
          /\ view'[h].len = d.len /\ view'[h].trailer_len = Cardinality(v.vl)
          /\ view'[h].meta = v.meta /\ view'[h].vl = v.vl
          /\ view'[h].coffsets = NoIndex
      BY <2>1, <2>4 DEF WriterView, ViewRec
    <3>. QED BY <2>1, <2>7, <3>1 DEF Describes
  <2>. QED BY <1>8, <2>1, <2>8, <2>9, <2>10
<1>10. CASE WriteRefused(h)
  <2>1. /\ view'[h] = Undone(view[h], c) /\ pc'[h] = "unlock" /\ disk' = disk
        /\ ~c.flush /\ Write(h) /\ pc[h] = "write"
    BY <1>10 DEF WriteRefused, Write, TypeInv, TypeOK
  <2>2. view'[h] = view[h]
    BY <1>7, <2>1 DEF Undone
  <2>3. Describes(h)'
    BY <1>2, <2>1, <2>2 DEF Describes, Flushing
  <2>4. FrameIntact' /\ Layout'
    BY <2>1 DEF GenInv, FrameIntact, Layout, IndexReadable, TrailerReadable
  <2>. QED BY <1>8, <2>1, <2>3, <2>4
<1>11. CASE WriteVlmeta(h)
  <2> DEFINE v == view[h]
             at == IF v.nchunks > 0 THEN v.len - v.trailer_len ELSE 0
             end == at + Cardinality(v.vl)
             cut == disk.index # NoIndex /\ disk.index # <<>>
                      /\ at < disk.index_at + Len(disk.index)
  <2>1. /\ disk' = [WithHeader(disk, v) EXCEPT !.len = end, !.vl = v.vl, !.end = end,
                                                !.index = IF cut THEN NoIndex ELSE @]
        /\ view'[h] = [v EXCEPT !.len = end, !.trailer_len = Cardinality(v.vl)]
        /\ pc'[h] = "unlock" /\ Write(h)
    BY <1>11 DEF WriteVlmeta, TrailerStart, FlushedView, Write, TypeInv, TypeOK
  <2>2. /\ v.nchunks = disk.nchunks /\ v.cbytes = disk.cbytes /\ v.len = disk.len
        /\ v.trailer_len = Cardinality(disk.vl) /\ v.meta = disk.meta
        /\ v.coffsets # NoIndex => v.coffsets = disk.index
    BY <1>2 DEF Describes
  <2>3. /\ Cardinality(v.vl) \in Nat /\ Cardinality(disk.vl) \in Nat
        /\ disk.len \in Int /\ disk.index_at \in Int
    BY <1>6, CardinalityNat DEF ViewRec, DiskRec
  <2>4. disk.nchunks > 0 => at = disk.index_at + Len(disk.index)
    BY <1>5, <1>6, <2>2, <2>3 DEF GenInv, Layout
  <2>5. ~cut
    <3>1. disk.nchunks = 0 => disk.index = <<>>
      BY <1>5
    <3>. QED BY <1>5, <1>6, <2>3, <2>4, <3>1
  <2>6. at \in Int /\ end \in Int
    BY <1>5, <1>6, <2>2, <2>3, <2>4
  <2>7. disk.nchunks > 0 => end = disk.index_at + Len(disk.index) + Cardinality(v.vl)
    BY <1>5, <2>3, <2>4
  <2>. HIDE DEF at, end, cut
  <2>8. /\ disk'.nchunks = disk.nchunks /\ disk'.cbytes = disk.cbytes
        /\ disk'.meta = disk.meta /\ disk'.index = disk.index
        /\ disk'.index_at = disk.index_at /\ disk'.vl = v.vl
        /\ disk'.len = end /\ disk'.end = end
    BY <1>6, <2>1, <2>2, <2>5 DEF WithHeader, DiskRec
  <2>9. /\ view'[h].nchunks = v.nchunks /\ view'[h].cbytes = v.cbytes
        /\ view'[h].len = end /\ view'[h].trailer_len = Cardinality(v.vl)
        /\ view'[h].meta = v.meta /\ view'[h].vl = v.vl
        /\ view'[h].coffsets = v.coffsets
    BY <1>6, <2>1 DEF ViewRec
  <2>10. FrameIntact'
    BY <1>5, <2>8 DEF FrameIntact, IndexReadable, TrailerReadable
  <2>11. Layout'
    BY <2>7, <2>8 DEF Layout
  <2>12. Describes(h)'
    BY <2>2, <2>8, <2>9 DEF Describes
  <2>. QED BY <1>8, <2>1, <2>10, <2>11, <2>12
<1>12. CASE WriteFails(h)
  BY <1>12 DEF WriteFails, Disciplined
<1>13. CASE MetaUpdate(h)
  <2>1. PICK m \in Metas : /\ view' = [view EXCEPT ![h].meta = m]
                           /\ disk' = WithHeader(disk, [view[h] EXCEPT !.meta = m])
    BY <1>13 DEF MetaUpdate
  <2>2. view'[h] = [view[h] EXCEPT !.meta = m] /\ pc'[h] = "idle" /\ pc[h] = "idle"
    BY <1>13, <2>1 DEF MetaUpdate, TypeInv, TypeOK
  <2>3. /\ view'[h].nchunks = view[h].nchunks /\ view'[h].cbytes = view[h].cbytes
        /\ view'[h].len = view[h].len /\ view'[h].trailer_len = view[h].trailer_len
        /\ view'[h].meta = m /\ view'[h].vl = view[h].vl
        /\ view'[h].coffsets = view[h].coffsets
    BY <1>6, <2>2 DEF ViewRec
  <2>4. disk' = WithHeader(disk, view'[h])
    BY <2>1, <2>2
  <2>5. /\ disk'.nchunks = disk.nchunks /\ disk'.cbytes = disk.cbytes
        /\ disk'.meta = m /\ disk'.index = disk.index
        /\ disk'.index_at = disk.index_at /\ disk'.vl = disk.vl
        /\ disk'.len = disk.len /\ disk'.end = disk.end
    BY <1>2, <1>6, <2>3, <2>4 DEF WithHeader, DiskRec, Describes
  <2>6. Describes(h)'
    BY <1>2, <2>2, <2>3, <2>5 DEF Describes, Flushing
  <2>7. FrameIntact' /\ Layout'
    BY <1>5, <2>5 DEF GenInv, FrameIntact, Layout, IndexReadable, TrailerReadable
  <2>8. HandleOK(h)'
    BY <1>1, <1>3, <2>2, <2>6 DEF HandleOK, InCall
  <2>. QED BY <1>4, <2>7, <2>8 DEF GenInv
<1>. QED BY <1>9, <1>10, <1>11, <1>12, <1>13 DEF Write

(* Every step of a disciplined program keeps the views exact: the actor by *)
(* its own lock, the others because a writer leaves them a generation back. *)
LEMMA GenStep ==
  ASSUME Disciplined
  PROVE  TypeInv /\ LockInv /\ GenInv /\ [Next]_vars => GenInv'
<1>1. ASSUME GenInv, UNCHANGED vars PROVE GenInv'
  <2>1. FrameIntact' /\ Layout'
    BY <1>1 DEF vars, GenInv, FrameIntact, Layout, IndexReadable, TrailerReadable
  <2>2. ASSUME NEW g \in Handles PROVE HandleOK(g)'
    BY <1>1, GenIdle DEF vars, Same, GenInv
  <2>. QED BY <2>1, <2>2 DEF GenInv
<1>2. ASSUME TypeInv, LockInv, GenInv, NEW h \in Handles,
             \/ Begin(h) \/ LockNested(h) \/ LockOuter(h) \/ LockFails(h)
             \/ Sync(h) \/ Write(h) \/ Unlock(h) \/ ReturnRefused(h)
             \/ EndBracket(h) \/ MetaUpdate(h) \/ OpenBoot(h) \/ Free(h)
      PROVE  GenInv'
  BY <1>2, GenBegin, GenLock, GenRelease, GenSync, GenWrite
<1>. QED BY <1>1, <1>2 DEF Next

(* The inductive invariant holds throughout. *)
LEMMA AllInv ==
  ASSUME Disciplined
  PROVE  Spec => [](TypeInv /\ LockInv /\ GenInv)
<1>1. Init => TypeInv /\ LockInv /\ GenInv
  BY TypeInit, LockInit, GenInit
<1>2. TypeInv /\ LockInv /\ GenInv /\ [Next]_vars => (TypeInv /\ LockInv /\ GenInv)'
  BY TypeStep, LockStep, GenStep
<1>. QED BY <1>1, <1>2, PTL DEF Spec

(* For any number of handles, chunks, metalayers and generations: a handle *)
(* whose generation is the one in the sidecar caches what is on disk, even *)
(* though mutations of others may leave the length of the frame unchanged. *)
THEOREM GenerationCounter ==
  ASSUME Disciplined
  PROVE  Spec => []GenerationExact
<1>1. GenInv => GenerationExact
  BY DEF GenInv, HandleOK, GenerationExact
<1>. QED BY <1>1, AllInv, PTL

(* The header, the index and the trailer that interleaved handles leave on *)
(* disk always belong together.                                            *)
THEOREM FrameStaysIntact ==
  ASSUME Disciplined
  PROVE  Spec => []FrameIntact
<1>1. GenInv => FrameIntact
  BY DEF GenInv
<1>. QED BY <1>1, AllInv, PTL

(* A successful read returns the chunk at its position on disk, not one    *)
(* found through offsets of an earlier generation.                         *)
THEOREM ReadsAreCurrent ==
  ASSUME Disciplined
  PROVE  Spec => []ReadsCurrent
<1>1. GenInv => ReadsCurrent
  BY DEF GenInv, HandleOK, ReadsCurrent
<1>. QED BY <1>1, AllInv, PTL

(* blosc2_schunk_refresh leaves the counters of the disk in the handle. *)
THEOREM RefreshIsExact ==
  ASSUME Disciplined
  PROVE  Spec => []RefreshSyncs
<1>1. GenInv => RefreshSyncs
  BY DEF GenInv, HandleOK, RefreshSyncs
<1>. QED BY <1>1, AllInv, PTL

(* Nobody but the holder changes the frame while a handle holds the lock   *)
(* exclusively, in particular from blosc2_schunk_lock to _unlock.          *)
THEOREM BracketIsAtomic ==
  ASSUME Disciplined
  PROVE  Spec => BracketAtomic
<1>1. TypeInv /\ LockInv /\ GenInv /\ [Next]_vars =>
        [\A h \in Handles : os_lock[h] = "exclusive" =>
            disk' = disk \/ Write(h) \/ MetaUpdate(h)]_vars
  <2> SUFFICES ASSUME TypeInv, LockInv, Next, NEW h \in Handles,
                      os_lock[h] = "exclusive", disk' # disk
               PROVE  Write(h) \/ MetaUpdate(h)
    BY DEF vars
  <2>1. PICK g \in Handles :
          \/ Begin(g) \/ LockNested(g) \/ LockOuter(g) \/ LockFails(g)
          \/ Sync(g) \/ Write(g) \/ Unlock(g) \/ ReturnRefused(g)
          \/ EndBracket(g) \/ MetaUpdate(g) \/ OpenBoot(g) \/ Free(g)
    BY DEF Next
  <2>2. ~Begin(g) /\ ~Sync(g)
    BY DEF Begin, BeginLocked, BeginBracket, BeginRead, BeginReorder, BeginFill,
       BeginVlmeta, Start, Sync, CheckStale, GetChunk, SyncReorder, ReloadFails,
       OpenReread, SyncTo
  <2>3. Write(g) \/ MetaUpdate(g)
    BY <2>1, <2>2 DEF LockNested, LockOuter, LockFails, Unlock, ReturnRefused,
       EndBracket, OpenBoot, Free
  <2>4. os_lock[g] = "exclusive"
    <3>1. CASE Write(g)
      BY <3>1 DEF Write, WriteChunks, WriteRefused, WriteVlmeta, WriteFails,
         LockInv, LockDiscipline
    <3>2. CASE MetaUpdate(g)
      BY <3>2 DEF MetaUpdate, Disciplined, LockInv
    <3>. QED BY <2>3, <3>1, <3>2
  <2>5. g = h
    BY <2>4 DEF LockInv, LockDiscipline
  <2>. QED BY <2>3, <2>5
<1>. QED BY <1>1, AllInv, PTL DEF Spec, BracketAtomic
=============================================================================
