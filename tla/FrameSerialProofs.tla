-------------------------- MODULE FrameSerialProofs --------------------------
(***************************************************************************)
(* FrameLock implements SerialFrame: under the calls of Disciplined,       *)
(* locked handles are serializable, whatever their number and the bounds.  *)
(***************************************************************************)
EXTENDS FrameLockProofs

-----------------------------------------------------------------------------
(* What a vlmeta call has found, and what it leaves, in a set of names. *)
Wanted(c, s) == IF c.kind = "vlmeta_add" THEN c.name \notin s ELSE c.name \in s
Changed(c, s) == IF c.kind = "vlmeta_add" THEN s \cup {c.name} ELSE s \ {c.name}

(* A vlmeta call knows the set on disk from its lookup to its flush: the   *)
(* bracket of its caller keeps every other handle away.                    *)
VlmetaOK(h) ==
  /\ pc[h] = "sync" => ~call[h].flush
  /\ (pc[h] = "unlock" /\ call[h].kind \in VlmetaKinds /\ ~call[h].flush /\ rc[h] = "ok") =>
       Wanted(call[h], disk.vl)
  /\ Flushing(h) =>
       Wanted(call[h], disk.vl) /\ view[h].vl = Changed(call[h], disk.vl)

VlmetaInv == \A h \in Handles : VlmetaOK(h)

SerialInv == TypeInv /\ LockInv /\ GenInv /\ VlmetaInv

(* A step of handle h. *)
Step(h) ==
  \/ Begin(h) \/ LockNested(h) \/ LockOuter(h) \/ LockFails(h)
  \/ Sync(h) \/ Write(h) \/ Unlock(h) \/ ReturnRefused(h)
  \/ EndBracket(h) \/ MetaUpdate(h) \/ OpenBoot(h) \/ Free(h)

(* The steps of the handles are all the steps there are. *)
LEMMA NextIsStep == Next <=> \E h \in Handles : Step(h)
BY DEF Next, Step

-----------------------------------------------------------------------------
(* A step of one handle. *)

(* The calls that are over once they have synced. *)
Readers == {"read", "refresh", "open"}

(* Every end of a sync is one of SyncTo; a vlmeta call whose lookup says ok *)
(* found its name as it needs it in the view it leaves, and no other call  *)
(* that writes has succeeded yet.                                          *)
LEMMA SyncIsSyncTo ==
  ASSUME TypeInv, NEW h \in Handles, Sync(h)
  PROVE  /\ pc[h] = "sync"
         /\ \E v, outcome, place :
              /\ SyncTo(h, v, outcome, place)
              /\ place \in {"write", "unlock"}
              /\ (call[h].kind \in VlmetaKinds /\ outcome = "ok") => Wanted(call[h], v.vl)
              /\ outcome = "ok" => call[h].kind \in VlmetaKinds \cup Readers
         /\ \A g \in Handles \ {h} :
              force_refresh'[g] = force_refresh[g] /\ call'[g] = call[g]
         /\ call[h] \in CallRec => /\ call'[h].flush = call[h].flush
                                   /\ call'[h].kind = call[h].kind
                                   /\ call'[h].name = call[h].name
<1>. USE DEF TypeInv, TypeOK
<1>1. CASE CheckStale(h)
  <2>1. /\ pc[h] = "sync" /\ call' = call
        /\ force_refresh' = [force_refresh EXCEPT ![h] = FlagAfterSync(h)]
    BY <1>1 DEF CheckStale
  <2>2. \E v, outcome, place :
          /\ SyncTo(h, v, outcome, place)
          /\ place \in {"write", "unlock"}
          /\ (call[h].kind \in VlmetaKinds /\ outcome = "ok") => Wanted(call[h], v.vl)
          /\ outcome = "ok" => call[h].kind \in VlmetaKinds \cup Readers
    <3>1. CASE call[h].kind \in {"append", "refresh"}
      BY <1>1, <3>1 DEF CheckStale, VlmetaKinds, Readers
    <3>2. CASE call[h].kind = "insert"
      BY <1>1, <3>2 DEF CheckStale, VlmetaKinds
    <3>3. CASE call[h].kind = "vlmeta_add"
      <4>1. SyncTo(h, Synced(h), IF call[h].name \in Synced(h).vl THEN "error" ELSE "ok",
                   "unlock")
        BY <1>1, <3>3 DEF CheckStale
      <4>. QED BY <3>3, <4>1 DEF Wanted, VlmetaKinds
    <3>4. CASE call[h].kind = "vlmeta_delete"
      <4>1. SyncTo(h, Synced(h), IF call[h].name \in Synced(h).vl THEN "ok" ELSE "error",
                   "unlock")
        BY <1>1, <3>4 DEF CheckStale
      <4>. QED BY <3>4, <4>1 DEF Wanted, VlmetaKinds
    <3>5. call[h].kind \in {"append", "refresh", "insert", "vlmeta_add", "vlmeta_delete"}
      BY <1>1 DEF CheckStale
    <3>. QED BY <3>1, <3>2, <3>3, <3>4, <3>5
  <2>. QED BY <2>1, <2>2
<1>2. CASE GetChunk(h)
  <2>1. /\ pc[h] = "sync" /\ call[h].kind \notin VlmetaKinds
        /\ \/ call' = call
           \/ \E x : call' = [call EXCEPT ![h].chunk = x]
        /\ \/ force_refresh' = force_refresh
           \/ force_refresh' = [force_refresh EXCEPT ![h] = FlagAfterSync(h)]
    BY <1>2, Zenon DEF GetChunk, VlmetaKinds
  <2>2. \E v, outcome, place :
          /\ SyncTo(h, v, outcome, place)
          /\ place \in {"write", "unlock"}
          /\ outcome = "ok" => call[h].kind \in VlmetaKinds \cup Readers
    <3>1. CASE call[h].kind = "read"
      <4>1. "read" \in VlmetaKinds \cup Readers
        BY DEF Readers
      <4>. QED BY <1>2, <3>1, <4>1, Zenon DEF GetChunk
    <3>2. CASE call[h].kind # "read"
      <4>1. "none" # "ok" /\ "error" # "ok"
        OBVIOUS
      <4>. QED BY <1>2, <3>2, <4>1, Zenon DEF GetChunk
    <3>. QED BY <3>1, <3>2
  <2>3. \A g \in Handles \ {h} :
          force_refresh'[g] = force_refresh[g] /\ call'[g] = call[g]
    BY <2>1
  <2>4. call[h] \in CallRec => /\ call'[h].flush = call[h].flush
                               /\ call'[h].kind = call[h].kind
                               /\ call'[h].name = call[h].name
    BY <2>1 DEF CallRec
  <2>. QED BY <2>1, <2>2, <2>3, <2>4
<1>3. CASE SyncReorder(h) \/ ReloadFails(h) \/ OpenReread(h)
  <2>1. pc[h] = "sync" /\ call' = call /\ \E b : force_refresh' = [force_refresh EXCEPT ![h] = b]
    BY <1>3 DEF SyncReorder, ReloadFails, OpenReread
  <2>2. \E v, outcome, place :
          /\ SyncTo(h, v, outcome, place)
          /\ place \in {"write", "unlock"}
          /\ (call[h].kind \in VlmetaKinds /\ outcome = "ok") => Wanted(call[h], v.vl)
          /\ outcome = "ok" => call[h].kind \in VlmetaKinds \cup Readers
    <3>1. CASE SyncReorder(h)
      BY <3>1 DEF SyncReorder
    <3>2. CASE ReloadFails(h)
      BY <3>2 DEF ReloadFails
    <3>3. CASE OpenReread(h)
      BY <3>3 DEF OpenReread, VlmetaKinds, Readers
    <3>. QED BY <1>3, <3>1, <3>2, <3>3
  <2>. QED BY <2>1, <2>2
<1>. QED BY <1>1, <1>2, <1>3 DEF Sync

(* An open reads something into the view of its own handle. *)
LEMMA OpenBootView ==
  ASSUME NEW h \in Handles, OpenBoot(h)
  PROVE  \E v : view' = [view EXCEPT ![h] = v]
<1>1. CASE view' = [view EXCEPT ![h] = ViewOf(disk)]
  BY <1>1, Zenon
<1>2. CASE \E n \in 0 .. MaxChunks, s \in SUBSET Names :
             view' = [view EXCEPT ![h] = [ViewOf(disk) EXCEPT !.nchunks = n, !.vl = s]]
  BY <1>2, Zenon
<1>. QED BY <1>1, <1>2, Zenon DEF OpenBoot

(* It leaves what the other handles own alone. *)
LEMMA OthersAlone ==
  ASSUME TypeInv, NEW h \in Handles, Step(h), NEW g \in Handles \ {h}
  PROVE  Same(g)
<1>. USE DEF TypeInv, TypeOK, Same, lockvars
<1>1. ASSUME NEW c, NEW place, Start(h, c, place)
      PROVE  /\ os_lock'[g] = os_lock[g] /\ lock_depth'[g] = lock_depth[g]
             /\ lock_seq'[g] = lock_seq[g] /\ force_refresh'[g] = force_refresh[g]
             /\ pc'[g] = pc[g] /\ call'[g] = call[g] /\ rc'[g] = rc[g]
  BY <1>1 DEF Start
<1>2. CASE Begin(h)
  <2>1. \E c, place : Start(h, c, place)
    <3>1. ASSUME NEW c, NEW place, Start(h, c, place)
          PROVE  \E d, there : Start(h, d, there)
      BY <3>1
    <3>2. CASE BeginLocked(h)
      BY <3>1, <3>2, Zenon DEF BeginLocked
    <3>3. CASE BeginBracket(h) \/ BeginRead(h) \/ BeginReorder(h)
      BY <3>1, <3>3, Zenon DEF BeginBracket, BeginRead, BeginReorder
    <3>4. CASE BeginFill(h) \/ BeginVlmeta(h)
      BY <3>1, <3>4, Zenon DEF BeginFill, BeginVlmeta
    <3>. QED BY <1>2, <3>2, <3>3, <3>4 DEF Begin
  <2>2. view'[g] = view[g]
    <3>1. CASE BeginFill(h)
      <4>1. view' = IF Empty(view[h]) THEN [view EXCEPT ![h].nchunks = 1] ELSE view
        BY <3>1 DEF BeginFill
      <4>. QED BY <4>1
    <3>2. CASE ~BeginFill(h)
      <4>1. view' = view
        BY <1>2, <3>2, Zenon DEF Begin, BeginLocked, BeginBracket, BeginRead,
           BeginReorder, BeginVlmeta
      <4>. QED BY <4>1
    <3>. QED BY <3>1, <3>2
  <2>. QED BY <1>1, <2>1, <2>2
<1>3. CASE LockNested(h) \/ LockOuter(h)
  BY <1>3 DEF LockNested, LockOuter, Granted
<1>4. CASE LockFails(h)
  BY <1>4 DEF LockFails, Closed
<1>5. CASE Sync(h)
  <2>1. ASSUME NEW v, NEW outcome, NEW place, SyncTo(h, v, outcome, place)
        PROVE  /\ os_lock'[g] = os_lock[g] /\ lock_depth'[g] = lock_depth[g]
               /\ lock_seq'[g] = lock_seq[g] /\ view'[g] = view[g]
               /\ pc'[g] = pc[g] /\ rc'[g] = rc[g]
    BY <2>1 DEF SyncTo
  <2>2. \E v, outcome, place : SyncTo(h, v, outcome, place)
    BY <1>5, SyncIsSyncTo
  <2>3. force_refresh'[g] = force_refresh[g] /\ call'[g] = call[g]
    BY <1>5, SyncIsSyncTo
  <2>. QED BY <2>1, <2>2, <2>3
<1>6. CASE Write(h)
  BY <1>6 DEF Write, WriteChunks, WriteRefused, WriteVlmeta, WriteFails
<1>7. CASE Unlock(h)
  BY <1>7 DEF Unlock
<1>8. CASE ReturnRefused(h) \/ EndBracket(h)
  BY <1>8 DEF ReturnRefused, EndBracket
<1>9. CASE MetaUpdate(h)
  BY <1>9 DEF MetaUpdate
<1>10. CASE OpenBoot(h)
  <2>1. \E v : view' = [view EXCEPT ![h] = v]
    BY <1>10, OpenBootView
  <2>2. call' = [call EXCEPT ![h] = NewCall("open")] /\ pc' = [pc EXCEPT ![h] = "lock"]
        /\ UNCHANGED <<lockvars, force_refresh, rc>>
    BY <1>10, Zenon DEF OpenBoot
  <2>. QED BY <2>1, <2>2
<1>11. CASE Free(h)
  BY <1>11 DEF Free, Closed
<1>. QED BY <1>2, <1>3, <1>4, <1>5, <1>6, <1>7, <1>8, <1>9, <1>10, <1>11 DEF Step

(* A call begins on an idle handle and leaves the frame alone. *)
LEMMA BeginIdle ==
  ASSUME NEW h \in Handles, Begin(h)
  PROVE  pc[h] = "idle" /\ disk' = disk
<1>1. ASSUME NEW c, NEW place, Start(h, c, place)
      PROVE  pc[h] = "idle" /\ disk' = disk
  BY <1>1 DEF Start
<1>2. CASE BeginLocked(h)
  BY <1>1, <1>2, Zenon DEF BeginLocked
<1>3. CASE BeginBracket(h) \/ BeginRead(h) \/ BeginReorder(h)
  BY <1>1, <1>3, Zenon DEF BeginBracket, BeginRead, BeginReorder
<1>4. CASE BeginFill(h) \/ BeginVlmeta(h)
  BY <1>1, <1>4, Zenon DEF BeginFill, BeginVlmeta
<1>. QED BY <1>2, <1>3, <1>4 DEF Begin

(* Only a handle that holds the lock exclusively changes the frame. *)
LEMMA DiskStep ==
  ASSUME Disciplined, TypeInv, LockInv, NEW h \in Handles, Step(h)
  PROVE  disk' = disk \/ os_lock[h] = "exclusive"
<1>1. CASE Write(h)
  BY <1>1 DEF Write, WriteChunks, WriteRefused, WriteVlmeta, WriteFails, LockInv,
     LockDiscipline
<1>2. CASE MetaUpdate(h)
  BY <1>2 DEF MetaUpdate, Disciplined, LockInv, TypeInv, TypeOK
<1>3. CASE Begin(h)
  BY <1>3, BeginIdle
<1>4. CASE Sync(h)
  BY <1>4, SyncIsSyncTo DEF SyncTo
<1>5. CASE LockNested(h) \/ LockOuter(h) \/ LockFails(h) \/ Unlock(h)
  BY <1>5 DEF LockNested, LockOuter, LockFails, Unlock
<1>6. CASE ReturnRefused(h) \/ EndBracket(h) \/ Free(h)
  BY <1>6 DEF ReturnRefused, EndBracket, Free
<1>7. CASE OpenBoot(h)
  BY <1>7, Zenon DEF OpenBoot
<1>. QED BY <1>1, <1>2, <1>3, <1>4, <1>5, <1>6, <1>7 DEF Step

-----------------------------------------------------------------------------
(* What vlmeta calls know of the disk. *)

(* A step of another handle leaves it true: that handle cannot write while *)
(* this one is in the bracket of its caller.                               *)
LEMMA VlmetaOther ==
  ASSUME Disciplined, TypeInv, LockInv, GenInv, VlmetaInv,
         NEW h \in Handles, Step(h), NEW g \in Handles \ {h}
  PROVE  VlmetaOK(g)'
<1>1. Same(g)
  BY OthersAlone
<1>2. CASE disk' = disk
  BY <1>1, <1>2 DEF VlmetaInv, VlmetaOK, Same, Flushing
<1>3. CASE os_lock[h] = "exclusive"
  <2>1. os_lock[g] = "none"
    BY <1>3 DEF LockInv, LockDiscipline
  <2>2. pc[g] \notin {"sync", "write", "unlock"} /\ ~(lock_depth[g] > 0)
    BY <2>1 DEF LockInv, LockDiscipline
  <2>3. ~(pc[g] = "lock" /\ call[g].flush)
    <3>1. pc[g] = "lock" /\ call[g].flush => call[g].kind \in VlmetaKinds
      BY DEF TypeInv, CallOK, VlmetaKinds
    <3>2. pc[g] = "lock" /\ call[g].kind \in VlmetaKinds => lock_depth[g] >= 1
      BY DEF GenInv, HandleOK
    <3>3. lock_depth[g] \in Nat
      BY DEF TypeInv, TypeOK
    <3>. QED BY <2>2, <3>1, <3>2, <3>3
  <2>. QED BY <1>1, <2>2, <2>3 DEF VlmetaOK, Same, Flushing
<1>. QED BY <1>2, <1>3, DiskStep

(* A call begins with nothing to flush. *)
LEMMA BeginFlush ==
  ASSUME TypeInv, NEW h \in Handles, Begin(h)
  PROVE  pc'[h] \in {"lock", "refused"} /\ ~call'[h].flush
<1>1. ASSUME NEW c, NEW place \in {"lock", "refused"}, Start(h, c, place), ~c.flush
      PROVE  pc'[h] \in {"lock", "refused"} /\ ~call'[h].flush
  BY <1>1 DEF Start, TypeInv, TypeOK
<1>2. \A kind : ~NewCall(kind).flush
  BY DEF NewCall
<1>3. \A kind, i, x, m :
        /\ ~[NewCall(kind) EXCEPT !.chunk = x].flush
        /\ ~[NewCall(kind) EXCEPT !.nchunk = i].flush
        /\ ~[NewCall(kind) EXCEPT !.nchunk = i, !.chunk = x].flush
        /\ ~[NewCall(kind) EXCEPT !.name = m].flush
  BY DEF NewCall
<1>4. CASE BeginLocked(h)
  <2>1. PICK i \in 1 .. MaxChunks, x \in Chunks :
          \E c \in {NewCall("refresh"),
                    [NewCall("append") EXCEPT !.chunk = x],
                    [NewCall("insert") EXCEPT !.nchunk = i, !.chunk = x],
                    [NewCall("update") EXCEPT !.nchunk = i, !.chunk = x],
                    [NewCall("delete") EXCEPT !.nchunk = i]} : Start(h, c, "lock")
    BY <1>4, Zenon DEF BeginLocked
  <2>2. ASSUME NEW c, Start(h, c, "lock"), ~c.flush
        PROVE  pc'[h] \in {"lock", "refused"} /\ ~call'[h].flush
    BY <1>1, <2>2
  <2>3. PICK c \in {NewCall("refresh"),
                   [NewCall("append") EXCEPT !.chunk = x],
                   [NewCall("insert") EXCEPT !.nchunk = i, !.chunk = x],
                   [NewCall("update") EXCEPT !.nchunk = i, !.chunk = x],
                   [NewCall("delete") EXCEPT !.nchunk = i]} : Start(h, c, "lock")
    BY <2>1, Zenon
  <2>4. ~c.flush
    BY <1>2, <1>3, <2>3, Zenon
  <2>. QED BY <2>2, <2>3, <2>4
<1>5. CASE BeginBracket(h)
  BY <1>1, <1>2, <1>5 DEF BeginBracket
<1>6. CASE BeginRead(h)
  <2>1. PICK i : Start(h, [NewCall("read") EXCEPT !.nchunk = i],
                       IF InRange(view[h], i) THEN "lock" ELSE "refused")
    BY <1>6, Zenon DEF BeginRead
  <2>. QED BY <1>1, <1>3, <2>1
<1>7. CASE BeginReorder(h)
  BY <1>1, <1>3, <1>7 DEF BeginReorder
<1>8. CASE BeginFill(h)
  <2>1. PICK x : Start(h, [NewCall("fill_special") EXCEPT !.chunk = x],
                       IF Empty(view[h]) THEN "lock" ELSE "refused")
    BY <1>8, Zenon DEF BeginFill
  <2>. QED BY <1>1, <1>3, <2>1
<1>9. CASE BeginVlmeta(h)
  <2>1. PICK kind, m : Start(h, [NewCall(kind) EXCEPT !.name = m], "lock")
    BY <1>9, Zenon DEF BeginVlmeta
  <2>. QED BY <1>1, <1>3, <2>1
<1>. QED BY <1>4, <1>5, <1>6, <1>7, <1>8, <1>9 DEF Begin

(* The handle's own step keeps it true: the lookup establishes it, from a  *)
(* view that describes the disk, and the way to the flush leaves the disk  *)
(* and the view alone.                                                     *)
LEMMA VlmetaSelf ==
  ASSUME Disciplined, TypeInv, LockInv, GenInv, VlmetaInv,
         TypeInv', LockInv', GenInv', NEW h \in Handles, Step(h)
  PROVE  VlmetaOK(h)'
<1> DEFINE c == call[h]
<1>k. /\ VlmetaOK(h) /\ pc[h] \in Places
      /\ pc[h] \in {"lock", "sync", "write", "unlock"} => CallOK(c)
  BY DEF VlmetaInv, TypeInv, TypeOK
<1>1. CASE pc'[h] \in {"idle", "closed", "refused"}
  BY <1>1 DEF VlmetaOK, Flushing
<1>2. CASE Begin(h)
  BY <1>2, BeginFlush DEF VlmetaOK, Flushing
<1>3. CASE LockNested(h) \/ LockOuter(h)
  <2>1. /\ pc[h] = "lock" /\ pc'[h] = AfterLock(c)
        /\ call' = call /\ view' = view /\ disk' = disk
    BY <1>3 DEF LockNested, LockOuter, Granted, TypeInv, TypeOK
  <2>2. CASE c.flush
    <3>1. AfterLock(c) = "write"
      <4>1. c.kind \in VlmetaKinds
        BY <1>k, <2>1, <2>2 DEF CallOK, VlmetaKinds
      <4>. QED BY <2>2, <4>1 DEF AfterLock, VlmetaKinds
    <3>. QED BY <1>k, <2>1, <2>2, <3>1 DEF VlmetaOK, Flushing
  <2>3. CASE ~c.flush
    <3>1. AfterLock(c) # "unlock"
      BY DEF AfterLock
    <3>. QED BY <2>1, <2>3, <3>1 DEF VlmetaOK, Flushing
  <2>. QED BY <2>2, <2>3
<1>4. CASE Sync(h)
  <2>1. pc[h] = "sync" /\ disk' = disk /\ c \in CallRec
    BY <1>4, <1>k, SyncIsSyncTo DEF SyncTo, CallOK
  <2>2. PICK v, outcome, place :
          /\ SyncTo(h, v, outcome, place)
          /\ place \in {"write", "unlock"}
          /\ (c.kind \in VlmetaKinds /\ outcome = "ok") => Wanted(c, v.vl)
    BY <1>4, SyncIsSyncTo
  <2>3. view'[h] = v /\ rc'[h] = outcome /\ pc'[h] = place
    BY <2>2 DEF SyncTo, TypeInv, TypeOK
  <2>4. /\ call'[h].flush = c.flush /\ call'[h].kind = c.kind
        /\ call'[h].name = c.name /\ ~c.flush
    BY <1>4, <1>k, <2>1, SyncIsSyncTo DEF VlmetaOK
  <2>5. ASSUME place = "unlock", outcome = "ok", c.kind \in VlmetaKinds
        PROVE  Wanted(call'[h], disk'.vl)
    <3>1. Describes(h)'
      <4>1. lock_seq'[h] = seq'
        BY <2>3, <2>5 DEF LockInv, LockDiscipline
      <4>2. ~force_refresh'[h]
        BY <2>3, <2>4, <2>5 DEF GenInv, HandleOK
      <4>. QED BY <2>3, <2>5, <4>1, <4>2 DEF GenInv, HandleOK
    <3>2. v.vl = disk'.vl
      BY <2>3, <2>5, <3>1 DEF Describes, Flushing
    <3>. QED BY <2>2, <2>4, <2>5, <3>2 DEF Wanted
  <2>. QED BY <2>2, <2>3, <2>4, <2>5 DEF VlmetaOK, Flushing
<1>5. CASE Write(h)
  <2>1. pc[h] = "write" /\ pc'[h] = "unlock" /\ call' = call
    BY <1>5 DEF Write, WriteChunks, WriteRefused, WriteVlmeta, WriteFails, TypeInv, TypeOK
  <2>2. c.kind \in VlmetaKinds => c.flush
    BY <2>1 DEF TypeInv, Writers, VlmetaKinds
  <2>. QED BY <2>1, <2>2 DEF VlmetaOK, Flushing
<1>6. CASE Unlock(h) /\ pc'[h] \notin {"idle", "closed", "refused"}
  <2>1. /\ pc[h] = "unlock" /\ c.kind \in VlmetaKinds /\ ~c.flush /\ rc[h] = "ok"
        /\ call' = [call EXCEPT ![h].flush = TRUE]
        /\ view' = [view EXCEPT ![h].vl = IF c.kind = "vlmeta_add"
                      THEN @ \cup {c.name} ELSE @ \ {c.name}]
        /\ pc' = [pc EXCEPT ![h] = "lock"] /\ disk' = disk
    BY <1>6 DEF Unlock, VlmetaKinds, TypeInv, TypeOK
  <2>2. Wanted(c, disk.vl) /\ c \in CallRec
    BY <1>k, <2>1 DEF VlmetaOK, CallOK
  <2>3. view[h].vl = disk.vl /\ view[h] \in ViewRec
    <3>1. os_lock[h] # "none" /\ ~force_refresh[h]
      BY <2>1 DEF LockInv, LockDiscipline, GenInv, HandleOK
    <3>2. Describes(h)
      BY <2>1, <3>1, HolderDescribes
    <3>. QED BY <2>1, <3>2 DEF Describes, Flushing, TypeInv, TypeOK
  <2>4. call'[h].name = c.name /\ call'[h].kind = c.kind /\ pc'[h] = "lock"
    BY <2>1, <2>2 DEF CallRec, TypeInv, TypeOK
  <2>5. view'[h].vl = IF c.kind = "vlmeta_add" THEN view[h].vl \cup {c.name}
                      ELSE view[h].vl \ {c.name}
    BY <2>1, <2>3 DEF ViewRec, TypeInv, TypeOK
  <2>. QED BY <2>1, <2>2, <2>3, <2>4, <2>5 DEF VlmetaOK, Flushing, Wanted, Changed
<1>7. CASE \/ LockFails(h) \/ ReturnRefused(h) \/ EndBracket(h) \/ MetaUpdate(h) \/ Free(h)
  <2>1. pc'[h] \in {"idle", "closed"}
    BY <1>7 DEF LockFails, Closed, ReturnRefused, EndBracket, MetaUpdate, Free, TypeInv,
       TypeOK
  <2>. QED BY <1>1, <2>1
<1>8. CASE OpenBoot(h)
  <2>1. call' = [call EXCEPT ![h] = NewCall("open")] /\ pc' = [pc EXCEPT ![h] = "lock"]
    BY <1>8, Zenon DEF OpenBoot
  <2>2. ~call'[h].flush /\ pc'[h] = "lock"
    BY <2>1 DEF NewCall, TypeInv, TypeOK
  <2>. QED BY <2>2 DEF VlmetaOK, Flushing
<1>. QED BY <1>1, <1>2, <1>3, <1>4, <1>5, <1>6, <1>7, <1>8 DEF Step

(* Every step keeps it true of every handle. *)
LEMMA VlmetaStep ==
  ASSUME Disciplined, TypeInv, LockInv, GenInv, VlmetaInv, TypeInv', LockInv', GenInv',
         [Next]_vars
  PROVE  VlmetaInv'
<1>1. CASE UNCHANGED vars
  BY <1>1 DEF vars, VlmetaInv, VlmetaOK, Flushing
<1>2. CASE Next
  BY <1>2, NextIsStep, VlmetaOther, VlmetaSelf DEF VlmetaInv
<1>. QED BY <1>1, <1>2

-----------------------------------------------------------------------------
(* The mutation that has taken effect. *)

(* It holds the lock exclusively, so that there is one at most, and nobody *)
(* is at a write then.                                                     *)
LEMMA MutationAlone ==
  ASSUME TypeInv, LockInv, NEW h \in Handles, Mutation(h)
  PROVE  /\ os_lock[h] = "exclusive" /\ call[h] # NoCall
         /\ \A g \in Handles \ {h} : ~Mutation(g) /\ pc[g] # "write"
<1>1. CallOK(call[h]) /\ pc[h] = "unlock"
  BY DEF Mutation, TypeInv
<1>2. Exclusive(call[h])
  BY <1>1 DEF Mutation, CallOK, Exclusive
<1>3. os_lock[h] = "exclusive"
  BY <1>1, <1>2 DEF LockInv
<1>4. \A g \in Handles \ {h} : os_lock[g] = "none"
  BY <1>3 DEF LockInv, LockDiscipline
<1>5. \A g \in Handles \ {h} : ~Mutation(g) /\ pc[g] # "write"
  BY <1>4 DEF Mutation, LockInv, LockDiscipline
<1>. QED BY <1>1, <1>3, <1>5, NoCallAssumption DEF CallOK

(* What Committed is. *)
LEMMA CommittedIs ==
  ASSUME TypeInv, LockInv, NEW h \in Handles, Mutation(h)
  PROVE  Committed = call[h]
<1> DEFINE k == CHOOSE g \in Handles : Mutation(g)
<1>1. k \in Handles /\ Mutation(k)
  OBVIOUS
<1>2. k = h
  BY <1>1, MutationAlone
<1>3. Committed = call[k]
  BY DEF Committed
<1>. QED BY <1>2, <1>3

(* What Committed is after a step. *)
LEMMA CommittedNext ==
  ASSUME NEW h \in Handles, Mutation(h)', \A g \in Handles \ {h} : ~Mutation(g)'
  PROVE  Committed' = call'[h]
<1> DEFINE Took(g) == /\ pc'[g] = "unlock" /\ rc'[g] = "ok"
                      /\ \/ call'[g].flush
                         \/ call'[g].kind \in {"append", "insert", "update", "delete",
                                              "reorder", "fill_special"}
           k == CHOOSE g \in Handles : Took(g)
<1>1. Took(h) /\ \A g \in Handles \ {h} : ~Took(g)
  BY DEF Mutation
<1>2. Committed' = IF \E g \in Handles : Took(g) THEN call'[k] ELSE NoCall
  BY DEF Committed, Mutation
<1>. HIDE DEF Took
<1>3. k = h
  BY <1>1
<1>. QED BY <1>1, <1>2, <1>3

(* A step of another handle keeps it. *)
LEMMA MutationOther ==
  ASSUME TypeInv, NEW h \in Handles, Step(h)
  PROVE  \A g \in Handles \ {h} : /\ Mutation(g)' <=> Mutation(g)
                                  /\ call'[g] = call[g]
BY OthersAlone DEF Same, Mutation

-----------------------------------------------------------------------------
(* The refinement, step by step. *)

(* The chunks of the abstract frame are those of the index on disk. *)
MappedChunks == IF IndexReadable(disk) THEN disk.index ELSE NoIndex

(* A successful write of chunks is the operation of its call. *)
LEMMA ChunksCommit ==
  ASSUME Disciplined, TypeInv, LockInv, GenInv, GenInv', NEW h \in Handles,
         WriteChunks(h), Committed' = call[h]
  PROVE  /\ \/ Serial!AppendChunk \/ Serial!InsertChunk
            \/ Serial!UpdateChunk \/ Serial!DeleteChunk
         /\ disk'.vl = disk.vl
<1> DEFINE c == call[h]
           v == Counted(view[h], c, StartIndex(view[h]))
           at == disk.cbytes + Moved(c, StartIndex(view[h]))
<1>1. /\ pc[h] = "write" /\ ~c.flush /\ Acceptable(view[h], c)
      /\ disk' = WrittenDisk(v, NewIndex(c, StartIndex(view[h])), at)
  BY DEF WriteChunks
<1>2. Describes(h)
  BY <1>1, HolderDescribes DEF LockInv, LockDiscipline, GenInv, HandleOK
<1>3. /\ disk.index \in Seq(Chunks) /\ Len(disk.index) = disk.nchunks
      /\ StartIndex(view[h]) = disk.index
  BY <1>2, SeesIndex DEF GenInv
<1>4. /\ CallOK(c) /\ c.nchunk \in Nat
      /\ c.kind \in {"append", "insert", "update", "delete"}
  BY <1>1 DEF TypeInv, CallOK, CallRec, Writers, GenInv, HandleOK, InCall
<1>5. disk'.index = NewIndex(c, disk.index) /\ disk'.vl = v.vl
  BY <1>1, <1>3, Zenon DEF WrittenDisk
<1>6. v.vl = disk.vl
  <2>1. view[h].vl = disk.vl /\ view[h] \in ViewRec
    BY <1>1, <1>2 DEF Describes, Flushing, TypeInv, TypeOK
  <2>2. v.vl = view[h].vl
    BY <1>4, <2>1 DEF Counted, CountStored, CountUpdated, CountDeleted, ViewRec
  <2>. QED BY <2>1, <2>2
<1>7. /\ MappedChunks = disk.index
      /\ MappedChunks' = NewIndex(c, disk.index)
  BY <1>5 DEF MappedChunks, GenInv, FrameIntact
<1>8. disk'.vl = disk.vl
  BY <1>5, <1>6
<1>9. CASE c.kind = "append"
  <2>1. MappedChunks' = Append(MappedChunks, c.chunk)
    BY <1>7, <1>9 DEF NewIndex, AppendedIndex
  <2>. QED BY <1>8, <1>9, <2>1 DEF Serial!AppendChunk, MappedChunks
<1>10. CASE c.kind = "insert"
  <2>1. c.nchunk \in 1 .. Len(MappedChunks) + 1
    BY <1>1, <1>3, <1>4, <1>7, <1>10 DEF Acceptable, CallOK, TypeInv, TypeOK, DiskRec
  <2>2. MappedChunks' = Serial!InsertAt(MappedChunks, c.nchunk, c.chunk)
    <3>1. NewIndex(c, disk.index) = InsertAt(disk.index, c.nchunk, c.chunk)
      BY <1>10 DEF NewIndex, InsertedIndex
    <3>2. \A q, n, x : InsertAt(q, n, x) = Serial!InsertAt(q, n, x)
      BY Zenon DEF InsertAt, Serial!InsertAt
    <3>. QED BY <1>7, <3>1, <3>2
  <2>. QED BY <1>8, <1>10, <2>1, <2>2 DEF Serial!InsertChunk, MappedChunks
<1>11. CASE c.kind = "update"
  <2>1. c.nchunk \in 1 .. Len(MappedChunks)
    BY <1>1, <1>3, <1>4, <1>7, <1>11 DEF Acceptable, CallOK, TypeInv, TypeOK, DiskRec
  <2>2. MappedChunks' = Serial!ReplaceAt(MappedChunks, c.nchunk, c.chunk)
    BY <1>7, <1>11 DEF NewIndex, UpdatedIndex, ReplaceAt, Serial!ReplaceAt
  <2>. QED BY <1>8, <1>11, <2>1, <2>2 DEF Serial!UpdateChunk, MappedChunks
<1>12. CASE c.kind = "delete"
  <2>1. c.nchunk \in 1 .. Len(MappedChunks)
    BY <1>1, <1>3, <1>4, <1>7, <1>12 DEF Acceptable, CallOK, TypeInv, TypeOK, DiskRec
  <2>2. MappedChunks' = Serial!RemoveAt(MappedChunks, c.nchunk)
    BY <1>7, <1>12 DEF NewIndex, DeletedIndex, RemoveAt, Serial!RemoveAt
  <2>. QED BY <1>8, <1>12, <2>1, <2>2 DEF Serial!DeleteChunk, MappedChunks
<1>. QED BY <1>4, <1>9, <1>10, <1>11, <1>12

(* A successful flush is the operation of its call. *)
LEMMA VlmetaCommit ==
  ASSUME Disciplined, TypeInv, LockInv, GenInv, VlmetaInv, NEW h \in Handles,
         WriteVlmeta(h), Committed' = call[h], disk'.index = disk.index
  PROVE  Serial!AddVlmeta \/ Serial!DeleteVlmeta
<1> DEFINE c == call[h]
<1>1. pc[h] = "write" /\ c.flush /\ disk \in DiskRec
  BY DEF WriteVlmeta, TypeInv, TypeOK
<1>2. Wanted(c, disk.vl) /\ view[h].vl = Changed(c, disk.vl)
  BY <1>1 DEF VlmetaInv, VlmetaOK, Flushing
<1>3. c.kind \in VlmetaKinds
  BY <1>1 DEF TypeInv, CallOK, VlmetaKinds
<1>4. disk'.vl = view[h].vl
  <2>1. PICK end, idx : disk' = [WithHeader(disk, view[h]) EXCEPT
          !.len = end, !.vl = view[h].vl, !.end = end, !.index = idx]
    BY Zenon DEF WriteVlmeta
  <2>. QED BY <1>1, <2>1 DEF WithHeader, DiskRec
<1>. QED BY <1>2, <1>3, <1>4 DEF Wanted, Changed, VlmetaKinds, Serial!AddVlmeta,
     Serial!DeleteVlmeta

(* A step that takes no effect and returns from no mutation. *)
LEMMA SilentStep ==
  ASSUME Disciplined, TypeInv, LockInv, GenInv, GenInv', VlmetaInv,
         NEW h \in Handles, Step(h), ~Mutation(h), ~WriteChunks(h), ~WriteVlmeta(h)
  PROVE  /\ ~Mutation(h)'
         /\ disk'.index = disk.index /\ disk'.vl = disk.vl
<1>1. CASE Sync(h)
  <2>1. /\ pc[h] = "sync" /\ disk' = disk
        /\ call'[h].flush = call[h].flush /\ call'[h].kind = call[h].kind
        /\ ~call[h].flush
    BY <1>1, SyncIsSyncTo DEF SyncTo, TypeInv, CallOK, VlmetaInv, VlmetaOK
  <2>2. rc'[h] = "ok" => call[h].kind \in VlmetaKinds \cup Readers
    <3>1. PICK v, outcome, place :
            /\ SyncTo(h, v, outcome, place)
            /\ outcome = "ok" => call[h].kind \in VlmetaKinds \cup Readers
      BY <1>1, SyncIsSyncTo
    <3>2. rc'[h] = outcome
      BY <3>1 DEF SyncTo, TypeInv, TypeOK
    <3>. QED BY <3>1, <3>2
  <2>. QED BY <2>1, <2>2 DEF Mutation, VlmetaKinds, Readers
<1>2. CASE Write(h)
  <2>1. WriteRefused(h)
    BY <1>2 DEF Write, WriteFails, Disciplined
  <2>2. rc'[h] = "error" /\ disk' = disk
    BY <2>1 DEF WriteRefused, TypeInv, TypeOK
  <2>. QED BY <2>2 DEF Mutation
<1>3. CASE MetaUpdate(h)
  <2>1. pc'[h] = "idle"
    BY <1>3 DEF MetaUpdate, TypeInv, TypeOK
  <2>2. PICK v : disk' = WithHeader(disk, v)
    BY <1>3 DEF MetaUpdate
  <2>3. disk'.index = disk.index /\ disk'.vl = disk.vl
    BY <2>2 DEF WithHeader, TypeInv, TypeOK, DiskRec
  <2>. QED BY <2>1, <2>3 DEF Mutation
<1>4. CASE Begin(h)
  <2>1. pc'[h] \in {"lock", "refused"}
    BY <1>4, BeginFlush
  <2>2. disk' = disk
    BY <1>4, BeginIdle
  <2>. QED BY <2>1, <2>2 DEF Mutation
<1>5. CASE LockNested(h) \/ LockOuter(h)
  <2>1. disk' = disk /\ pc'[h] = AfterLock(call[h])
    BY <1>5 DEF LockNested, LockOuter, Granted, TypeInv, TypeOK
  <2>2. AfterLock(call[h]) # "unlock"
    BY DEF AfterLock
  <2>. QED BY <2>1, <2>2 DEF Mutation
<1>6. CASE LockFails(h) \/ ReturnRefused(h) \/ EndBracket(h) \/ Free(h)
  <2>1. disk' = disk /\ pc'[h] \in {"idle", "closed"}
    BY <1>6 DEF LockFails, Closed, ReturnRefused, EndBracket, Free, TypeInv, TypeOK
  <2>. QED BY <2>1 DEF Mutation
<1>7. CASE Unlock(h)
  <2>1. disk' = disk /\ pc'[h] \in {"idle", "lock"}
    BY <1>7 DEF Unlock, TypeInv, TypeOK
  <2>. QED BY <2>1 DEF Mutation
<1>8. CASE OpenBoot(h)
  <2>1. disk' = disk /\ pc' = [pc EXCEPT ![h] = "lock"]
    BY <1>8, Zenon DEF OpenBoot
  <2>2. pc'[h] = "lock"
    BY <2>1 DEF TypeInv, TypeOK
  <2>. QED BY <2>1, <2>2 DEF Mutation
<1>. QED BY <1>1, <1>2, <1>3, <1>4, <1>5, <1>6, <1>7, <1>8 DEF Step

(* The call that has taken effect returns, or its process dies. *)
LEMMA ReturnStep ==
  ASSUME TypeInv, NEW h \in Handles, Step(h), Mutation(h)
  PROVE  ~Mutation(h)' /\ disk' = disk
<1>1. pc[h] = "unlock"
  BY DEF Mutation
<1>2. CASE Unlock(h)
  <2>1. disk' = disk /\ pc'[h] \in {"idle", "lock"}
    BY <1>2 DEF Unlock, TypeInv, TypeOK
  <2>. QED BY <2>1 DEF Mutation
<1>3. CASE Free(h)
  <2>1. disk' = disk /\ pc'[h] = "closed"
    BY <1>3 DEF Free, Closed, TypeInv, TypeOK
  <2>. QED BY <2>1 DEF Mutation
<1>4. ~Begin(h)
  BY <1>1, BeginIdle
<1>5. ~Sync(h) /\ ~Write(h)
  BY <1>1, SyncIsSyncTo DEF Write, WriteChunks, WriteRefused, WriteVlmeta, WriteFails
<1>6. ~LockNested(h) /\ ~LockOuter(h) /\ ~LockFails(h) /\ ~ReturnRefused(h)
      /\ ~EndBracket(h) /\ ~MetaUpdate(h)
  BY <1>1 DEF LockNested, LockOuter, LockFails, ReturnRefused, EndBracket, MetaUpdate
<1>7. ~OpenBoot(h)
  BY <1>1, Zenon DEF OpenBoot
<1>. QED BY <1>2, <1>3, <1>4, <1>5, <1>6, <1>7 DEF Step

(* The step that takes effect. *)
LEMMA CommitStep ==
  ASSUME Disciplined, SerialInv, SerialInv', NEW h \in Handles, Step(h),
         WriteChunks(h) \/ WriteVlmeta(h)
  PROVE  Serial!Commit
<1>. USE DEF SerialInv
<1>1. /\ pc[h] = "write" /\ pc'[h] = "unlock" /\ rc'[h] = "ok" /\ call' = call
      /\ WriteChunks(h) => ~call[h].flush
      /\ WriteVlmeta(h) => call[h].flush
  BY DEF WriteChunks, WriteVlmeta, TypeInv, TypeOK
<1>2. CallOK(call[h]) /\ (call[h].flush \/ call[h].kind \in Writers)
  BY <1>1 DEF TypeInv
<1>3. Mutation(h)'
  BY <1>1, <1>2 DEF Mutation, Writers
<1>4. \A g \in Handles : ~Mutation(g)
  <2>1. ~Mutation(h)
    BY <1>1 DEF Mutation
  <2>2. ASSUME NEW g \in Handles \ {h}, Mutation(g) PROVE FALSE
    BY <1>1, <2>2, MutationAlone
  <2>. QED BY <2>1, <2>2
<1>5. Committed = NoCall
  BY <1>4 DEF Committed
<1>6. \A g \in Handles \ {h} : ~Mutation(g)'
  BY <1>4, MutationOther DEF Mutation
<1>7. Committed' = call[h] /\ call[h] # NoCall
  BY <1>1, <1>2, <1>3, <1>6, CommittedNext, NoCallAssumption DEF CallOK
<1>8. CASE WriteChunks(h)
  BY <1>5, <1>7, <1>8, ChunksCommit DEF Serial!Commit
<1>9. CASE WriteVlmeta(h)
  <2>1. disk'.index = disk.index
    <3>1. disk'.index \in {disk.index, NoIndex}
      <4>1. PICK end, cut : disk' = [WithHeader(disk, view[h]) EXCEPT
              !.len = end, !.vl = view[h].vl, !.end = end,
              !.index = IF cut THEN NoIndex ELSE @]
        BY <1>9, Zenon DEF WriteVlmeta
      <4>. QED BY <4>1 DEF WithHeader, TypeInv, TypeOK, DiskRec
    <3>2. disk'.index # NoIndex
      BY DEF GenInv, FrameIntact, IndexReadable
    <3>. QED BY <3>1, <3>2
  <2>2. Serial!AddVlmeta \/ Serial!DeleteVlmeta
    BY <1>7, <1>9, <2>1, VlmetaCommit
  <2>3. MappedChunks' = MappedChunks
    BY <2>1 DEF MappedChunks, GenInv, FrameIntact
  <2>. QED BY <1>5, <1>7, <2>2, <2>3 DEF Serial!Commit, MappedChunks
<1>. QED BY <1>8, <1>9

(* A new frame is an empty list of chunks, with no call taking effect. *)
LEMMA SerialInit == Init => Serial!Init
<1> SUFFICES ASSUME Init PROVE Serial!Init
  OBVIOUS
<1>1. PICK m \in Metas : disk = EmptyDisk(m)
  BY DEF Init
<1>2. MappedChunks = <<>> /\ disk.vl = {}
  <2>1. <<>> \in Seq(Chunks)
    OBVIOUS
  <2>. QED BY <1>1, <2>1, NoIndexAssumption DEF MappedChunks, IndexReadable, EmptyDisk
<1>3. Committed = NoCall
  BY DEF Init, Committed, Mutation
<1>. QED BY <1>2, <1>3 DEF Serial!Init, MappedChunks

(* Every step takes effect as one call, returns from one, or does nothing  *)
(* to the abstract frame.                                                  *)
LEMMA SerialStep ==
  ASSUME Disciplined
  PROVE  SerialInv /\ SerialInv' /\ [Next]_vars => [Serial!Next]_(Serial!vars)
<1> SUFFICES ASSUME SerialInv, SerialInv', [Next]_vars
             PROVE  [Serial!Next]_(Serial!vars)
  OBVIOUS
<1>. USE DEF SerialInv
<1>1. CASE UNCHANGED vars
  <2>1. disk' = disk /\ pc' = pc /\ call' = call /\ rc' = rc
    BY <1>1 DEF vars
  <2>2. MappedChunks' = MappedChunks /\ Committed' = Committed
    BY <2>1 DEF MappedChunks, IndexReadable, Committed, Mutation
  <2>. QED BY <2>1, <2>2 DEF Serial!vars, MappedChunks
<1>2. ASSUME NEW h \in Handles, Step(h) PROVE [Serial!Next]_(Serial!vars)
  <2>1. CASE WriteChunks(h) \/ WriteVlmeta(h)
    BY <1>2, <2>1, CommitStep DEF Serial!Next
  <2>2. CASE Mutation(h)
    <3>1. ~Mutation(h)' /\ disk' = disk
      BY <1>2, <2>2, ReturnStep
    <3>2. \A g \in Handles : ~Mutation(g)'
      BY <1>2, <2>2, <3>1, MutationOther, MutationAlone DEF Mutation
    <3>3. Committed' = NoCall
      BY <3>2 DEF Committed, Mutation
    <3>4. Committed = call[h] /\ call[h] # NoCall
      BY <2>2, CommittedIs, MutationAlone
    <3>5. MappedChunks' = MappedChunks
      BY <3>1 DEF MappedChunks, IndexReadable
    <3>. QED BY <3>1, <3>3, <3>4, <3>5 DEF Serial!Next, Serial!Return, MappedChunks
  <2>3. CASE ~Mutation(h) /\ ~WriteChunks(h) /\ ~WriteVlmeta(h)
    <3>1. ~Mutation(h)' /\ disk'.index = disk.index /\ disk'.vl = disk.vl
      BY <1>2, <2>3, SilentStep
    <3>2. MappedChunks' = MappedChunks
      BY <3>1 DEF MappedChunks, GenInv, FrameIntact
    <3>3. CASE \E g \in Handles : Mutation(g)
      <4>1. PICK g \in Handles : Mutation(g)
        BY <3>3
      <4>2. Mutation(g)' /\ call'[g] = call[g]
        BY <1>2, <2>3, <4>1, MutationOther DEF Mutation
      <4>3. \A u \in Handles \ {g} : ~Mutation(u)'
        BY <1>2, <3>1, <4>1, MutationOther, MutationAlone DEF Mutation
      <4>4. Committed' = Committed
        BY <4>1, <4>2, <4>3, CommittedIs, CommittedNext
      <4>. QED BY <3>1, <3>2, <4>4 DEF Serial!vars, MappedChunks
    <3>4. CASE ~\E g \in Handles : Mutation(g)
      <4>1. \A g \in Handles : ~Mutation(g)'
        BY <1>2, <3>1, <3>4, MutationOther DEF Mutation
      <4>2. Committed' = NoCall /\ Committed = NoCall
        BY <3>4, <4>1 DEF Committed, Mutation
      <4>. QED BY <3>1, <3>2, <4>2 DEF Serial!vars, MappedChunks
    <3>. QED BY <3>3, <3>4
  <2>. QED BY <2>1, <2>2, <2>3
<1>. QED BY <1>1, <1>2, NextIsStep

(* The inductive invariant holds throughout. *)
LEMMA SerialAll ==
  ASSUME Disciplined
  PROVE  Spec => []SerialInv
<1>1. Init => SerialInv
  <2>1. Init => VlmetaInv
    BY DEF Init, VlmetaInv, VlmetaOK, Flushing
  <2>. QED BY <2>1, TypeInit, LockInit, GenInit DEF SerialInv
<1>2. SerialInv /\ [Next]_vars => SerialInv'
  <2> SUFFICES ASSUME SerialInv, [Next]_vars PROVE SerialInv'
    OBVIOUS
  <2>1. TypeInv'
    BY TypeStep DEF SerialInv
  <2>2. LockInv'
    BY <2>1, LockStep DEF SerialInv
  <2>3. GenInv'
    BY GenStep DEF SerialInv
  <2>4. VlmetaInv'
    BY <2>1, <2>2, <2>3, VlmetaStep DEF SerialInv
  <2>. QED BY <2>1, <2>2, <2>3, <2>4 DEF SerialInv
<1>. QED BY <1>1, <1>2, PTL DEF Spec

(* For any number of handles, chunks, names and generations, the calls of  *)
(* handles that lock the frame are serializable: each successful one       *)
(* applies exactly its operation to the chunks and the variable-length     *)
(* metalayers that the calls before it left, at the instant of its write,  *)
(* and a call that fails changes neither.                                  *)
THEOREM Serializable ==
  ASSUME Disciplined
  PROVE  Spec => IsSerial
<1>. QED BY SerialInit, SerialStep, SerialAll, PTL DEF IsSerial, Serial!Spec, Spec
=============================================================================
