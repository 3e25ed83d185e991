----------------------------- MODULE ReaderCache -----------------------------
(***************************************************************************)
(* The cached read handles of on-disk frames: frame_reader_acquire,        *)
(* _release, _invalidate and _revalidate of blosc/frame.c and the          *)
(* process-wide budget behind them (POSIX build).                          *)
(*                                                                         *)
(* Threads read frames: the header (get_header_info), one block (the       *)
(* decompressor's workers) or the whole file (frame_to_schunk, which keeps *)
(* its handle over a loop that reads the header again).  Another program   *)
(* replaces the file behind a frame, or unlinks it.  A file is a version   *)
(* number, for the inode that stat() compares.  A handle is the address    *)
(* that open() returned; a closed address may be handed out again.  Each   *)
(* section under read_fp_mutex is one step (reader_cache_mutex is only     *)
(* taken inside it); opens and closes of private handles are outside.      *)
(* The force_refresh that revalidate leaves behind is FrameLock's matter.  *)
(***************************************************************************)
EXTENDS Integers, FiniteSets, Sequences, SequencesExt

CONSTANTS
  Frames,        \* frame structures
  Threads,       \* threads that read
  Handles,       \* addresses of blosc2_stdio_file
  CacheMax,      \* reader_cache_max()
  MaxVersion,    \* bound: how often a file is replaced
  Null           \* no handle, no frame

ASSUME ReaderAssumption ==
  /\ IsFiniteSet(Frames) /\ IsFiniteSet(Threads) /\ IsFiniteSet(Handles)
  /\ CacheMax \in Nat /\ MaxVersion \in Nat
  /\ Null \notin Handles \cup Frames

Closed == -1                    \* the address is not an open handle
Versions == 0 .. MaxVersion

VARIABLES
  path,       \* path[f]: the latest file put at the frame's urlpath
  there,      \* there[f]: it has not been unlinked
  frame,      \* frame[f]: alive, read_fp, read_fp_refs, read_fp_nocache
  count,      \* reader_cache_count
  file,       \* file[h]: the file that handle h has open
  thread      \* thread[t]: the call it runs and the handles it holds

vars == <<path, there, frame, count, file, thread>>

(* floor is a history variable: the oldest file that the header read in    *)
(* progress may be served from.                                            *)
Idle == [pc |-> "idle", call |-> "block", frame |-> Null, held |-> <<>>,
         floor |-> Closed]

(* frame_alloc: no handle yet.  A frame on BLOSC2_IO_FILESYSTEM may ask    *)
(* for one to cache; one on another backend never does, which is nocache   *)
(* from the start.                                                         *)
Fresh == {[alive |-> TRUE, fp |-> Null, refs |-> 0, nocache |-> other] :
            other \in BOOLEAN}

Init ==
  /\ path = [f \in Frames |-> 0]
  /\ there = [f \in Frames |-> TRUE]
  /\ frame \in [Frames -> Fresh]
  /\ count = 0
  /\ file = [h \in Handles |-> Closed]
  /\ thread = [t \in Threads |-> Idle]
-----------------------------------------------------------------------------
(* The frame's life.  Its owner frees it, and frame_from_schunk recreates  *)
(* the file, while no read of the frame is in progress.                    *)

Quiet(f) == frame[f].alive /\ \A t \in Threads : thread[t].frame # f

(* reader_cache_claim and reader_cache_return. *)
MutCacheClaim == TRUE
CacheClaim == count < CacheMax
CacheReturn == IF count > 0 THEN count - 1 ELSE count

(* frame_reader_close_locked: a handle that is checked out stays, unless   *)
(* the caller forces it.                                                   *)
MutCloses(f, force) == frame[f].fp # Null
Closes(f, force) == frame[f].fp # Null /\ (frame[f].refs = 0 \/ force)

CloseLocked(f, force, alive) ==
  IF Closes(f, force)
  THEN /\ file' = [file EXCEPT ![frame[f].fp] = Closed]
       /\ frame' = [frame EXCEPT ![f].fp = Null, ![f].refs = 0, ![f].alive = alive]
       /\ count' = CacheReturn
  ELSE /\ frame' = [frame EXCEPT ![f].alive = alive]
       /\ UNCHANGED <<file, count>>

Alloc(f) ==
  /\ ~frame[f].alive
  /\ \E new \in Fresh : frame' = [frame EXCEPT ![f] = new]
  /\ UNCHANGED <<path, there, count, file, thread>>

(* frame_reader_invalidate, as frame_from_schunk calls it. *)
Invalidate(f) ==
  /\ Quiet(f)
  /\ CloseLocked(f, TRUE, TRUE)
  /\ UNCHANGED <<path, there, thread>>

(* frame_free: invalidate, then the structure goes. *)
MutFree(f) ==
  /\ Quiet(f)
  /\ frame' = [frame EXCEPT ![f].alive = FALSE]
  /\ UNCHANGED <<path, there, count, file, thread>>
Free(f) ==
  /\ Quiet(f)
  /\ CloseLocked(f, TRUE, FALSE)
  /\ UNCHANGED <<path, there, thread>>

(* Another program renames a new file over urlpath, or unlinks the file. *)
Replace(f) ==
  /\ path[f] < MaxVersion
  /\ path' = [path EXCEPT ![f] = @ + 1]
  /\ there' = [there EXCEPT ![f] = TRUE]
  /\ UNCHANGED <<frame, count, file, thread>>

Unlink(f) ==
  /\ there[f]
  /\ there' = [there EXCEPT ![f] = FALSE]
  /\ UNCHANGED <<path, frame, count, file, thread>>
-----------------------------------------------------------------------------
(* The calls.  pc: revalidate and acquire, open (a private handle, outside *)
(* the mutex), read, release, close (a private handle, outside the mutex), *)
(* loop (frame_to_schunk between two chunks).                              *)

At(t, pc) == thread[t].pc = pc
F(t) == thread[t].frame
Fp(t) == Last(thread[t].held)

(* The first handle of frame_to_schunk is for its loop. *)
Holding(t, h) ==
  [thread[t] EXCEPT !.held = Append(@, h),
     !.pc = IF thread[t].call = "load" /\ thread[t].held = <<>>
            THEN "loop" ELSE "read"]

(* No handle: the call fails, and frame_to_schunk gives its own back. *)
Refused(t) == IF thread[t].held = <<>> THEN Idle
              ELSE [thread[t] EXCEPT !.pc = "release"]

GivenBack(t) == IF Len(thread[t].held) = 1 THEN Idle
                ELSE [thread[t] EXCEPT !.held = Front(@), !.pc = "loop",
                                       !.floor = Closed]

Start(t, call, f) ==
  /\ At(t, "idle") /\ frame[f].alive
  /\ thread' = [thread EXCEPT ![t] =
       [Idle EXCEPT !.frame = f, !.call = call,
                    !.pc = IF call = "header" THEN "revalidate" ELSE "acquire"]]
  /\ UNCHANGED <<path, there, frame, count, file>>

(* The two ways on from the top of frame_to_schunk's chunk loop: the       *)
(* chunk's offset calls for the header, or the loop is over.               *)
LoadLoop(t) ==
  /\ At(t, "loop")
  /\ \E pc \in {"revalidate", "release"} :
       thread' = [thread EXCEPT ![t].pc = pc]
  /\ UNCHANGED <<path, there, frame, count, file>>

(* frame_reader_revalidate: another file at urlpath makes the cached       *)
(* handle stale; a missing one does not.                                   *)
MutStale(f) == frame[f].fp # Null /\ there[f] /\ file[frame[f].fp] > path[f]
Stale(f) == frame[f].fp # Null /\ there[f] /\ file[frame[f].fp] # path[f]

Revalidate(t) ==
  /\ At(t, "revalidate")
  /\ IF Stale(F(t)) THEN CloseLocked(F(t), FALSE, TRUE)
     ELSE UNCHANGED <<file, frame, count>>
  /\ thread' = [thread EXCEPT ![t].pc = "acquire", ![t].floor =
       IF there[F(t)] /\ frame[F(t)].refs = 0 THEN path[F(t)] ELSE Closed]
  /\ UNCHANGED <<path, there>>

(* io_cb->open: it fails when the file is not there, and may fail anyway.  *)
(* The address is one that is free.                                        *)
Openable(f) == {h \in Handles : there[f] /\ file[h] = Closed}

(* frame_reader_acquire, its mutex section: the cached handle is shared;   *)
(* when there is none the frame claims a slot and opens one, and a frame   *)
(* refused once does not ask again.                                        *)
AcquireCached(t) ==
  /\ At(t, "acquire")
  /\ frame[F(t)].fp # Null
  /\ frame' = [frame EXCEPT ![F(t)].refs = @ + 1]
  /\ thread' = [thread EXCEPT ![t] = Holding(t, frame[F(t)].fp)]
  /\ UNCHANGED <<path, there, count, file>>

AcquireFirst(t) ==
  /\ At(t, "acquire")
  /\ frame[F(t)].fp = Null /\ ~frame[F(t)].nocache
  /\ CacheClaim
  /\ \E h \in Openable(F(t)) :
       /\ file' = [file EXCEPT ![h] = path[F(t)]]
       /\ frame' = [frame EXCEPT ![F(t)].fp = h, ![F(t)].refs = @ + 1]
       /\ thread' = [thread EXCEPT ![t] = Holding(t, h)]
  /\ count' = count + 1
  /\ UNCHANGED <<path, there>>

(* The claimed slot goes back when the open fails. *)
AcquireFails(t) ==
  /\ At(t, "acquire")
  /\ frame[F(t)].fp = Null /\ ~frame[F(t)].nocache
  /\ CacheClaim
  /\ thread' = [thread EXCEPT ![t].pc = "open"]
  /\ UNCHANGED <<path, there, frame, count, file>>

AcquireUncached(t) ==
  /\ At(t, "acquire")
  /\ frame[F(t)].fp = Null
  /\ frame[F(t)].nocache \/ ~CacheClaim
  /\ frame' = [frame EXCEPT ![F(t)].nocache = TRUE]
  /\ thread' = [thread EXCEPT ![t].pc = "open"]
  /\ UNCHANGED <<path, there, count, file>>

(* The private handle of a frame that goes uncached. *)
OpenPrivate(t) ==
  /\ At(t, "open")
  /\ \/ \E h \in Openable(F(t)) :
          /\ file' = [file EXCEPT ![h] = path[F(t)]]
          /\ thread' = [thread EXCEPT ![t] = Holding(t, h)]
     \/ /\ thread' = [thread EXCEPT ![t] = Refused(t)]
        /\ UNCHANGED file
  /\ UNCHANGED <<path, there, frame, count>>

Read(t) ==
  /\ At(t, "read")
  /\ thread' = [thread EXCEPT ![t].pc = "release"]
  /\ UNCHANGED <<path, there, frame, count, file>>

(* frame_reader_release: the cached handle is given back under the mutex,  *)
(* any other one is closed after it.                                       *)
Release(t) ==
  /\ At(t, "release")
  /\ IF Fp(t) = frame[F(t)].fp
     THEN /\ frame' = [frame EXCEPT ![F(t)].refs = @ - 1]
          /\ thread' = [thread EXCEPT ![t] = GivenBack(t)]
     ELSE /\ thread' = [thread EXCEPT ![t].pc = "close"]
          /\ UNCHANGED frame
  /\ UNCHANGED <<path, there, count, file>>

ClosePrivate(t) ==
  /\ At(t, "close")
  /\ file' = [file EXCEPT ![Fp(t)] = Closed]
  /\ thread' = [thread EXCEPT ![t] = GivenBack(t)]
  /\ UNCHANGED <<path, there, frame, count>>
-----------------------------------------------------------------------------
ThreadStep(t) ==
  \/ LoadLoop(t) \/ Revalidate(t)
  \/ AcquireCached(t) \/ AcquireFirst(t) \/ AcquireFails(t) \/ AcquireUncached(t)
  \/ OpenPrivate(t) \/ Read(t) \/ Release(t) \/ ClosePrivate(t)

Next ==
  \/ \E f \in Frames : Alloc(f) \/ Invalidate(f) \/ Free(f) \/ Replace(f) \/ Unlink(f)
  \/ \E t \in Threads : ThreadStep(t)
  \/ \E t \in Threads, f \in Frames, call \in {"header", "block", "load"} :
       Start(t, call, f)

Spec == Init /\ [][Next]_vars
-----------------------------------------------------------------------------
TypeOK ==
  /\ path \in [Frames -> Versions] /\ there \in [Frames -> BOOLEAN]
  /\ frame \in [Frames -> [alive : BOOLEAN, fp : Handles \cup {Null}, refs : Nat,
                           nocache : BOOLEAN]]
  /\ count \in Nat
  /\ file \in [Handles -> Versions \cup {Closed}]
  /\ thread \in [Threads ->
       [pc : {"idle", "loop", "revalidate", "acquire", "open", "read", "release", "close"},
        call : {"header", "block", "load"}, frame : Frames \cup {Null},
        held : Seq(Handles), floor : Versions \cup {Closed}]]

(* A slot of the process-wide budget is taken exactly by every cached      *)
(* handle: failed opens, stale handles that could not be dropped yet and   *)
(* freed frames neither leak one nor return one twice, so the budget       *)
(* bounds the descriptors that outlive a call.                             *)
SlotsExact ==
  /\ count = Cardinality({f \in Frames : frame[f].fp # Null})
  /\ count <= CacheMax

(* No thread reads through, gives back or closes a handle that somebody    *)
(* closed under it, whoever replaces the file and whatever the header      *)
(* reads nested in a load decide about the shared handle; and two frames,  *)
(* or a frame and a private reader, never share one.                       *)
HandlesLive ==
  /\ \A f \in Frames : frame[f].fp # Null => file[frame[f].fp] # Closed
  /\ \A t \in Threads : \A i \in DOMAIN thread[t].held :
       file[thread[t].held[i]] # Closed
  /\ \A f, g \in Frames : f # g /\ frame[f].fp # Null => frame[f].fp # frame[g].fp

(* Every descriptor that is open is some frame's cached handle or is held  *)
(* by a call in progress: none is leaked, by failed calls and freed frames *)
(* included.                                                               *)
NothingLeaks ==
  \A h \in Handles : file[h] # Closed =>
    \/ \E f \in Frames : frame[f].alive /\ frame[f].fp = h
    \/ \E t \in Threads : \E i \in DOMAIN thread[t].held : thread[t].held[i] = h

(* A header is read from the file that was at urlpath when the read began, *)
(* or a later one, unless another reader had the handle checked out then:  *)
(* the metadata of a replaced file is never served to a lone reader.       *)
HeaderFollowsReplacement ==
  \A t \in Threads : At(t, "read") => file[Fp(t)] >= thread[t].floor
=============================================================================
