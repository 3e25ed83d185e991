-------------------------- MODULE ReaderCacheProofs --------------------------
(***************************************************************************)
(* Proofs about ReaderCache, for any number of frames, threads, addresses  *)
(* and slots, and any number of replacements.                              *)
(***************************************************************************)
EXTENDS ReaderCache, FiniteSetTheorems, SequenceTheorems, TLAPS

(* The i-th handle that thread t holds. *)
Holds(t, i) == i \in DOMAIN thread[t].held
Held(t, i) == thread[t].held[i]

-----------------------------------------------------------------------------
(* The inductive invariant, part by part. *)

(* How many handles a call holds where: only a load ever holds two, the    *)
(* one of its loop and the one of the header read nested in it.            *)
CallShape(x) ==
  /\ x.pc = "idle" <=> x.frame = Null
  /\ x.pc = "idle" => x.held = <<>>
  /\ Len(x.held) <= 2
  /\ x.call # "load" => Len(x.held) <= 1
  /\ x.pc \in {"revalidate", "acquire", "open"} =>
       Len(x.held) = 0 \/ (Len(x.held) = 1 /\ x.call = "load")
  /\ x.pc = "loop" => Len(x.held) = 1 /\ x.call = "load"
  /\ x.pc \in {"read", "release", "close"} => Len(x.held) >= 1

TypeInv == TypeOK /\ \A t \in Threads : CallShape(thread[t])

(* A frame that a call uses is alive, and only such frames have a handle. *)
AliveInv ==
  /\ \A t \in Threads : F(t) # Null => frame[F(t)].alive
  /\ \A f \in Frames : frame[f].fp # Null => frame[f].alive

(* A handle in a call's hands is the cached one of its frame, or nobody    *)
(* else has it.                                                            *)
OwnInv ==
  \A t \in Threads : \A i \in DOMAIN thread[t].held : Held(t, i) # frame[F(t)].fp =>
    /\ \A f \in Frames : frame[f].fp # Held(t, i)
    /\ \A u \in Threads : \A j \in DOMAIN thread[u].held :
         Held(u, j) = Held(t, i) => u = t /\ j = i

(* Where a call is about to close a handle, the handle is its own. *)
CloseInv == \A t \in Threads : At(t, "close") => Fp(t) # frame[F(t)].fp

(* The references of the cached handle of f, for the first handle of a     *)
(* call and for the second.                                                *)
Sharers(f, i) == {t \in Threads : /\ F(t) = f /\ i \in DOMAIN thread[t].held
                                  /\ Held(t, i) = frame[f].fp}
RefsInv == \A f \in Frames :
  frame[f].refs = Cardinality(Sharers(f, 1)) + Cardinality(Sharers(f, 2))

(* The files that a header read may be served from are recent enough. *)
FloorOf(t) ==
  /\ F(t) # Null => thread[t].floor <= path[F(t)]
  /\ thread[t].pc \in {"acquire", "open"} /\ frame[F(t)].fp # Null =>
       file[frame[F(t)].fp] >= thread[t].floor
  /\ At(t, "read") => file[Fp(t)] >= thread[t].floor
FloorInv == \A t \in Threads : FloorOf(t)

IInv == TypeInv /\ AliveInv /\ OwnInv /\ CloseInv /\ RefsInv /\ FloorInv
        /\ SlotsExact /\ HandlesLive /\ NothingLeaks
-----------------------------------------------------------------------------
(* The records of a thread: what the calls do to them. *)

ThreadRec ==
  [pc : {"idle", "loop", "revalidate", "acquire", "open", "read", "release", "close"},
   call : {"header", "block", "load"}, frame : Frames \cup {Null},
   held : Seq(Handles), floor : Versions \cup {Closed}]
FrameRec == [alive : BOOLEAN, fp : Handles \cup {Null}, refs : Nat, nocache : BOOLEAN]

(* A thread that makes no call. *)
LEMMA IdleShape == Idle \in ThreadRec /\ CallShape(Idle) /\ Idle.held = <<>>
                   /\ Idle.frame = Null /\ Idle.pc = "idle" /\ Idle.floor = Closed
<1>1. Idle.held = <<>> /\ Idle.frame = Null /\ Idle.pc = "idle" /\ Idle.floor = Closed
      /\ Idle.call = "block"
  BY DEF Idle
<1>2. <<>> \in Seq(Handles) /\ Len(<<>>) = 0
  BY EmptySeq
<1>3. Idle \in ThreadRec
  BY <1>2 DEF Idle, ThreadRec
<1>. QED BY <1>1, <1>2, <1>3 DEF CallShape

(* What a thread holds grows by one handle. *)
Gains(t, n, h) ==
  /\ n \in {1, 2} /\ n \notin DOMAIN thread[t].held
  /\ DOMAIN thread'[t].held = DOMAIN thread[t].held \cup {n}
  /\ thread'[t].held[n] = h
  /\ \A i \in DOMAIN thread[t].held : thread'[t].held[i] = thread[t].held[i]
  /\ thread'[t].frame = thread[t].frame

(* It shrinks by the last one. *)
Drops(t, n) ==
  /\ n \in {1, 2} /\ n \in DOMAIN thread[t].held
  /\ DOMAIN thread'[t].held = DOMAIN thread[t].held \ {n}
  /\ \A i \in DOMAIN thread'[t].held :
       thread'[t].held[i] = thread[t].held[i] /\ thread'[t].frame = thread[t].frame

(* It stays. *)
Keeps(t) ==
  /\ DOMAIN thread'[t].held = DOMAIN thread[t].held
  /\ \A i \in DOMAIN thread[t].held :
       thread'[t].held[i] = thread[t].held[i] /\ thread'[t].frame = thread[t].frame

(* A call that was given a handle goes on to read, or to its loop. *)
LEMMA HoldingShape ==
  ASSUME TypeInv, NEW t \in Threads, thread[t].pc \in {"acquire", "open"},
         NEW h \in Handles, thread'[t] = Holding(t, h)
  PROVE  /\ Holding(t, h) \in ThreadRec /\ CallShape(Holding(t, h))
         /\ Gains(t, Len(thread[t].held) + 1, h)
         /\ thread'[t].floor = thread[t].floor
         /\ Last(thread'[t].held) = h
         /\ thread'[t].pc \in {"loop", "read"}
<1> DEFINE s == thread[t].held
           x == Holding(t, h)
<1>1. thread[t] \in ThreadRec /\ CallShape(thread[t]) /\ s \in Seq(Handles)
  BY DEF TypeInv, TypeOK, ThreadRec
<1>2. /\ Append(s, h) \in Seq(Handles) /\ Len(Append(s, h)) = Len(s) + 1
      /\ \A i \in 1 .. Len(s) : Append(s, h)[i] = s[i]
      /\ Append(s, h)[Len(s) + 1] = h
      /\ Len(s) \in Nat
      /\ DOMAIN s = 1 .. Len(s) /\ DOMAIN Append(s, h) = 1 .. Len(s) + 1
  BY <1>1, AppendProperties, LenProperties
<1>3. /\ x.held = Append(s, h) /\ x.frame = thread[t].frame
      /\ x.floor = thread[t].floor /\ x.call = thread[t].call
      /\ x.pc = IF thread[t].call = "load" /\ s = <<>> THEN "loop" ELSE "read"
  BY <1>1 DEF Holding, ThreadRec
<1>4. x \in ThreadRec
  BY <1>1, <1>2 DEF Holding, ThreadRec
<1>5. Len(s) = 0 \/ (Len(s) = 1 /\ thread[t].call = "load")
  BY <1>1 DEF CallShape
<1>6. Len(s) = 0 <=> s = <<>>
  BY <1>1, EmptySeq
<1>7. thread[t].frame # Null
  BY <1>1 DEF CallShape
<1> HIDE DEF x, s
<1>8. CallShape(x)
  BY <1>2, <1>3, <1>5, <1>6, <1>7 DEF CallShape
<1>9. Len(s) + 1 \in {1, 2} /\ Len(s) + 1 \notin DOMAIN s
      /\ DOMAIN Append(s, h) = DOMAIN s \cup {Len(s) + 1}
  BY <1>2, <1>5
<1>10. Gains(t, Len(s) + 1, h)
  BY <1>2, <1>3, <1>9 DEF Gains, x, s
<1>11. Last(thread'[t].held) = h
  BY <1>2, <1>3 DEF Last, x
<1>. QED BY <1>3, <1>4, <1>8, <1>10, <1>11 DEF x, s

(* A call that gives a handle back is over, or goes on with its loop. *)
LEMMA GivenBackShape ==
  ASSUME TypeInv, NEW t \in Threads, thread[t].pc \in {"release", "close"},
         thread'[t] = GivenBack(t)
  PROVE  /\ GivenBack(t) \in ThreadRec /\ CallShape(GivenBack(t))
         /\ Drops(t, Len(thread[t].held))
         /\ thread'[t].floor = Closed
         /\ thread'[t].pc \in {"idle", "loop"}
         /\ thread'[t].frame \in {Null, thread[t].frame}
<1> DEFINE s == thread[t].held
           x == GivenBack(t)
<1>1. thread[t] \in ThreadRec /\ CallShape(thread[t]) /\ s \in Seq(Handles)
      /\ DOMAIN s = 1 .. Len(s) /\ Len(s) \in Nat /\ thread[t].frame # Null
  BY DEF TypeInv, TypeOK, ThreadRec, CallShape
<1>2. Len(s) \in {1, 2}
  <2>1. Len(s) >= 1 /\ Len(s) <= 2
    BY <1>1 DEF CallShape
  <2>2. Len(s) \in Nat
    BY <1>1
  <2>3. \A k \in Nat : k >= 1 /\ k <= 2 => k \in {1, 2}
    OBVIOUS
  <2>. QED BY ONLY <2>1, <2>2, <2>3
<1>3. CASE Len(s) = 1
  <2>1. x = Idle
    BY <1>3 DEF GivenBack
  <2>2. DOMAIN thread'[t].held = {}
    BY <2>1, IdleShape
  <2>. QED BY <1>1, <1>3, <2>1, <2>2, IdleShape DEF Drops
<1>4. CASE Len(s) = 2
  <2>1. x = [thread[t] EXCEPT !.held = Front(s), !.pc = "loop", !.floor = Closed]
    BY <1>4 DEF GivenBack
  <2>2. Front(s) \in Seq(Handles) /\ Len(Front(s)) = 1 /\ Front(s)[1] = s[1]
        /\ DOMAIN Front(s) = {1}
    BY <1>1, <1>4, SubSeqProperties DEF Front
  <2>3. x.held = Front(s) /\ x.pc = "loop" /\ x.floor = Closed
        /\ x.frame = thread[t].frame /\ x.call = thread[t].call
    BY <1>1, <2>1 DEF ThreadRec
  <2>4. x \in ThreadRec
    BY <1>1, <2>1, <2>2 DEF ThreadRec
  <2>5. x.call = "load"
    <3>1. ~(Len(s) <= 1)
      BY <1>4
    <3>2. thread[t].call = "load"
      BY <1>1, <3>1 DEF CallShape
    <3>. QED BY <2>3, <3>2
  <2> HIDE DEF x
  <2>6. CallShape(x)
    BY <1>1, <2>2, <2>3, <2>5 DEF CallShape
  <2>7. DOMAIN s = {1, 2} /\ {1, 2} \ {2} = {1}
    BY <1>1, <1>4
  <2>8. Drops(t, 2)
    BY <2>2, <2>3, <2>7 DEF Drops, x
  <2>. QED BY <1>4, <2>3, <2>4, <2>6, <2>8 DEF x
<1>. QED BY <1>2, <1>3, <1>4

(* A call that was refused a handle is over, or gives the one of its loop  *)
(* back.                                                                   *)
LEMMA RefusedShape ==
  ASSUME TypeInv, NEW t \in Threads, thread[t].pc = "open", thread'[t] = Refused(t)
  PROVE  /\ Refused(t) \in ThreadRec /\ CallShape(Refused(t)) /\ Keeps(t)
         /\ thread'[t].floor \in {Closed, thread[t].floor}
         /\ thread'[t].pc \in {"idle", "release"}
         /\ thread'[t].frame \in {Null, thread[t].frame}
<1>1. thread[t] \in ThreadRec /\ CallShape(thread[t]) /\ thread[t].held \in Seq(Handles)
  BY DEF TypeInv, TypeOK, ThreadRec
<1>2. CASE thread[t].held = <<>>
  <2>1. Refused(t) = Idle
    BY <1>2 DEF Refused
  <2>2. DOMAIN thread[t].held = {} /\ DOMAIN thread'[t].held = {}
    BY <1>2, <2>1, IdleShape, EmptySeq
  <2>. QED BY <2>1, <2>2, IdleShape DEF Keeps
<1>3. CASE thread[t].held # <<>>
  <2>1. Refused(t) = [thread[t] EXCEPT !.pc = "release"]
    BY <1>3 DEF Refused
  <2>2. Len(thread[t].held) # 0
    BY <1>1, <1>3, EmptySeq
  <2>. QED BY <1>1, <2>1, <2>2 DEF ThreadRec, CallShape, Keeps
<1>. QED BY <1>2, <1>3

-----------------------------------------------------------------------------
(* Who has which handle: what is kept by calls that keep, gain and drop    *)
(* handles, and by frames that close theirs.                               *)

HoldInv == OwnInv /\ RefsInv /\ SlotsExact /\ HandlesLive /\ NothingLeaks

(* The sharers of a handle are counted one by one. *)
LEMMA SharersCounted ==
  ASSUME NEW S, S \subseteq Threads
  PROVE  /\ Cardinality(S) \in Nat
         /\ Cardinality(S) = 0 => S = {}
         /\ \A t \in S : Cardinality(S) >= 1 /\ Cardinality(S \ {t}) = Cardinality(S) - 1
         /\ \A t \in Threads \ S : Cardinality(S \cup {t}) = Cardinality(S) + 1
<1>1. IsFiniteSet(S)
  BY ReaderAssumption, FS_Subset
<1>2. Cardinality(S) \in Nat /\ (Cardinality(S) = 0 => S = {})
  BY <1>1, FS_CardinalityType, FS_EmptySet
<1>3. \A t \in S : Cardinality(S \ {t}) = Cardinality(S) - 1
  BY <1>1, FS_RemoveElement
<1>5. S # {} => Cardinality(S) >= 1
  BY <1>2
<1>4. \A t \in Threads \ S : Cardinality(S \cup {t}) = Cardinality(S) + 1
  BY <1>1, FS_AddElement
<1>. QED BY <1>2, <1>3, <1>4, <1>5

(* Frames with a cached handle are counted one by one. *)
LEMMA SlotsCounted ==
  ASSUME NEW S, S \subseteq Frames
  PROVE  /\ Cardinality(S) \in Nat
         /\ \A f \in S : Cardinality(S) >= 1 /\ Cardinality(S \ {f}) = Cardinality(S) - 1
         /\ \A f \in Frames \ S : Cardinality(S \cup {f}) = Cardinality(S) + 1
<1>1. IsFiniteSet(S)
  BY ReaderAssumption, FS_Subset
<1>2. Cardinality(S) \in Nat /\ (Cardinality(S) = 0 => S = {})
  BY <1>1, FS_CardinalityType, FS_EmptySet
<1>3. \A f \in S : Cardinality(S \ {f}) = Cardinality(S) - 1
  BY <1>1, FS_RemoveElement
<1>5. S # {} => Cardinality(S) >= 1
  BY <1>2
<1>4. \A f \in Frames \ S : Cardinality(S \cup {f}) = Cardinality(S) + 1
  BY <1>1, FS_AddElement
<1>. QED BY <1>2, <1>3, <1>4, <1>5

(* The handles a call holds: at most two, and none is Null. *)
LEMMA HeldType ==
  ASSUME TypeInv, NEW t \in Threads
  PROVE  /\ DOMAIN thread[t].held \subseteq {1, 2}
         /\ \A i \in DOMAIN thread[t].held :
              Held(t, i) \in Handles /\ Held(t, i) # Null /\ F(t) \in Frames
<1>1. thread[t] \in ThreadRec /\ CallShape(thread[t]) /\ thread[t].held \in Seq(Handles)
  BY DEF TypeInv, TypeOK, ThreadRec
<1>2. DOMAIN thread[t].held = 1 .. Len(thread[t].held) /\ Len(thread[t].held) \in Nat
      /\ Len(thread[t].held) <= 2
  BY <1>1 DEF CallShape
<1>3. \A i \in DOMAIN thread[t].held : thread[t].held[i] \in Handles
  BY <1>1, <1>2, ElementOfSeq
<1>4. \A i \in DOMAIN thread[t].held : thread[t].frame # Null
  BY <1>1, EmptySeq DEF CallShape
<1>5. \A k \in Nat : k <= 2 => 1 .. k \subseteq {1, 2}
  OBVIOUS
<1>. QED BY <1>1, <1>2, <1>3, <1>4, <1>5, ReaderAssumption DEF Held, F, ThreadRec

(* Whoever has the cached handle of f is a sharer of it. *)
LEMMA HolderIsSharer ==
  ASSUME TypeInv, OwnInv, HandlesLive, NEW f \in Frames, frame[f].fp # Null,
         NEW t \in Threads, NEW i \in DOMAIN thread[t].held, Held(t, i) = frame[f].fp
  PROVE  F(t) = f /\ t \in Sharers(f, i) /\ i \in {1, 2}
<1>1. Held(t, i) = frame[F(t)].fp
  BY DEF OwnInv
<1>2. F(t) \in Frames /\ i \in {1, 2}
  BY HeldType
<1>3. F(t) = f
  BY <1>1, <1>2 DEF HandlesLive
<1>. QED BY <1>2, <1>3 DEF Sharers

(* A handle nobody counts is in nobody's hands. *)
LEMMA NoSharers ==
  ASSUME TypeInv, RefsInv, NEW f \in Frames,
         frame[f].refs = 0 \/ \A t \in Threads : F(t) # f
  PROVE  Sharers(f, 1) = {} /\ Sharers(f, 2) = {}
<1>1. Sharers(f, 1) \subseteq Threads /\ Sharers(f, 2) \subseteq Threads
  BY DEF Sharers
<1>2. CASE frame[f].refs = 0
  <2>1. Cardinality(Sharers(f, 1)) \in Nat /\ Cardinality(Sharers(f, 2)) \in Nat
    BY <1>1, SharersCounted
  <2>2. Cardinality(Sharers(f, 1)) + Cardinality(Sharers(f, 2)) = 0
    BY <1>2 DEF RefsInv
  <2>3. Cardinality(Sharers(f, 1)) = 0 /\ Cardinality(Sharers(f, 2)) = 0
    BY <2>1, <2>2
  <2>. QED BY <1>1, <2>3, SharersCounted
<1>3. CASE \A t \in Threads : F(t) # f
  BY <1>3 DEF Sharers
<1>. QED BY <1>2, <1>3

(* A frame without a handle has no sharers. *)
LEMMA NullUnshared ==
  ASSUME TypeInv, NEW f \in Frames, frame[f].fp = Null
  PROVE  \A i : Sharers(f, i) = {}
BY HeldType DEF Sharers

(* The frames other than f stay as they are. *)
Others(f) == \A g \in Frames \ {f} : frame'[g] = frame[g]
Cached == {f \in Frames : frame[f].fp # Null}

(* Nothing is held, given back, opened or closed. *)
LEMMA HoldSame ==
  ASSUME TypeInv, HoldInv, \A u \in Threads : Keeps(u),
         \A f \in Frames : /\ frame'[f].fp = frame[f].fp /\ frame'[f].refs = frame[f].refs
                           /\ frame[f].fp # Null => frame'[f].alive = frame[f].alive,
         file' = file, count' = count
  PROVE  HoldInv'
<1>k. \A t \in Threads : /\ DOMAIN thread'[t].held = DOMAIN thread[t].held
                         /\ \A i \in DOMAIN thread[t].held :
                              Held(t, i)' = Held(t, i) /\ F(t)' = F(t) /\ F(t) \in Frames
  BY HeldType DEF Keeps, Held, F
<1>1. OwnInv'
  <2> SUFFICES ASSUME NEW t \in Threads, NEW i \in DOMAIN thread'[t].held,
                      Held(t, i)' # frame'[F(t)'].fp
               PROVE  /\ \A g \in Frames : frame'[g].fp # Held(t, i)'
                      /\ \A u \in Threads : \A j \in DOMAIN thread'[u].held :
                           Held(u, j)' = Held(t, i)' => u = t /\ j = i
    BY DEF OwnInv
  <2>1. Held(t, i)' = Held(t, i) /\ i \in DOMAIN thread[t].held
        /\ Held(t, i) # frame[F(t)].fp
    BY <1>k
  <2>2. /\ \A g \in Frames : frame[g].fp # Held(t, i)
        /\ \A u \in Threads : \A j \in DOMAIN thread[u].held :
             Held(u, j) = Held(t, i) => u = t /\ j = i
    BY <2>1 DEF HoldInv, OwnInv
  <2>. QED BY <1>k, <2>1, <2>2
<1>2. ASSUME NEW f \in Frames, NEW i PROVE Sharers(f, i)' = Sharers(f, i)
  BY DEF Sharers, Keeps, Held, F
<1>3. RefsInv'
  BY <1>2 DEF HoldInv, RefsInv
<1>4. Cached' = Cached
  BY DEF Cached
<1>5. SlotsExact'
  BY <1>4 DEF HoldInv, SlotsExact, Cached
<1>6. HandlesLive'
  BY DEF HoldInv, HandlesLive, Keeps
<1>7. NothingLeaks'
  <2> SUFFICES ASSUME NEW h \in Handles, file[h] # Closed
               PROVE  \/ \E f \in Frames : frame'[f].alive /\ frame'[f].fp = h
                      \/ \E t \in Threads : \E i \in DOMAIN thread'[t].held : thread'[t].held[i] = h
    BY DEF NothingLeaks
  <2>1. CASE \E f \in Frames : frame[f].alive /\ frame[f].fp = h
    BY <2>1, ReaderAssumption
  <2>2. CASE \E t \in Threads : \E i \in DOMAIN thread[t].held : thread[t].held[i] = h
    BY <2>2 DEF Keeps
  <2>. QED BY <2>1, <2>2 DEF HoldInv, NothingLeaks
<1>. QED BY <1>1, <1>3, <1>5, <1>6, <1>7 DEF HoldInv

(* A frame closes a cached handle that nobody has. *)
LEMMA HoldClose ==
  ASSUME TypeInv, HoldInv, \A u \in Threads : Keeps(u), NEW f \in Frames,
         frame[f].fp # Null, Sharers(f, 1) = {}, Sharers(f, 2) = {},
         file' = [file EXCEPT ![frame[f].fp] = Closed],
         frame'[f].fp = Null, frame'[f].refs = 0, Others(f), count' = CacheReturn
  PROVE  HoldInv'
<1> DEFINE h == frame[f].fp
<1>t. h \in Handles /\ file \in [Handles -> Versions \cup {Closed}]
  BY DEF TypeInv, TypeOK
<1>u. \A t \in Threads : \A i \in DOMAIN thread[t].held : Held(t, i) # h
  BY HolderIsSharer DEF HoldInv
<1>g. \A g \in Frames \ {f} : frame[g].fp # h
  BY DEF HoldInv, HandlesLive
<1>k. \A t \in Threads : /\ DOMAIN thread'[t].held = DOMAIN thread[t].held
                         /\ \A i \in DOMAIN thread[t].held :
                              Held(t, i)' = Held(t, i) /\ F(t)' = F(t) /\ F(t) \in Frames
                              /\ Held(t, i) \in Handles /\ Held(t, i) # Null
  BY HeldType DEF Keeps, Held, F
<1> HIDE DEF h
<1>f. file' = [file EXCEPT ![h] = Closed]
  BY DEF h
<1>1. OwnInv'
  <2> SUFFICES ASSUME NEW t \in Threads, NEW i \in DOMAIN thread'[t].held,
                      Held(t, i)' # frame'[F(t)'].fp
               PROVE  /\ \A g \in Frames : frame'[g].fp # Held(t, i)'
                      /\ \A u \in Threads : \A j \in DOMAIN thread'[u].held :
                           Held(u, j)' = Held(t, i)' => u = t /\ j = i
    BY DEF OwnInv
  <2>1. Held(t, i)' = Held(t, i) /\ F(t)' = F(t) /\ i \in DOMAIN thread[t].held
        /\ F(t) \in Frames /\ Held(t, i) # Null
    BY <1>k
  <2>2. Held(t, i) # frame[F(t)].fp
    BY <1>u, <2>1 DEF Others, h
  <2>3. \A g \in Frames : frame[g].fp # Held(t, i)
    BY <2>1, <2>2 DEF HoldInv, OwnInv
  <2>4. \A u \in Threads : \A j \in DOMAIN thread[u].held :
          Held(u, j) = Held(t, i) => u = t /\ j = i
    BY <2>1, <2>2 DEF HoldInv, OwnInv
  <2>5. \A g \in Frames : frame'[g].fp # Held(t, i)'
    BY <2>1, <2>3 DEF Others
  <2>. QED BY <1>k, <2>1, <2>4, <2>5
<1>2. RefsInv'
  <2>1. ASSUME NEW g \in Frames \ {f}, NEW i PROVE Sharers(g, i)' = Sharers(g, i)
    BY <1>k DEF Sharers, Others
  <2>2. ASSUME NEW i PROVE Sharers(f, i)' = {}
    BY <1>k DEF Sharers
  <2>3. Cardinality({}) = 0
    BY FS_EmptySet
  <2>4. frame'[f].refs = Cardinality(Sharers(f, 1)') + Cardinality(Sharers(f, 2)')
    BY <2>2, <2>3
  <2>5. ASSUME NEW g \in Frames \ {f}
        PROVE  frame'[g].refs = Cardinality(Sharers(g, 1)') + Cardinality(Sharers(g, 2)')
    BY <2>1 DEF Others, HoldInv, RefsInv
  <2>. QED BY <2>4, <2>5 DEF RefsInv
<1>3. SlotsExact'
  <2>1. Cached' = Cached \ {f} /\ f \in Cached /\ Cached \subseteq Frames
    BY DEF Cached, Others
  <2>2. Cardinality(Cached') = Cardinality(Cached) - 1 /\ Cardinality(Cached) >= 1
        /\ Cardinality(Cached) \in Nat
    BY <2>1, SlotsCounted
  <2>3. count = Cardinality(Cached) /\ count <= CacheMax
    BY DEF HoldInv, SlotsExact, Cached
  <2>4. count' = count - 1
    BY <2>2, <2>3 DEF CacheReturn
  <2>5. count' = Cardinality(Cached') /\ count' <= CacheMax
    BY <2>2, <2>3, <2>4, ReaderAssumption
  <2>. QED BY <2>5 DEF SlotsExact, Cached
<1>4. HandlesLive'
  <2>1. ASSUME NEW g \in Frames, frame'[g].fp # Null PROVE file'[frame'[g].fp] # Closed
    <3>1. g # f /\ frame'[g] = frame[g] /\ frame[g].fp \in Handles
      BY <2>1 DEF Others, TypeInv, TypeOK
    <3>. QED BY <1>f, <1>g, <1>t, <2>1, <3>1 DEF HoldInv, HandlesLive
  <2>2. ASSUME NEW t \in Threads, NEW i \in DOMAIN thread'[t].held
        PROVE  file'[thread'[t].held[i]] # Closed
    BY <1>f, <1>k, <1>t, <1>u DEF HoldInv, HandlesLive, Held
  <2>3. \A g, k \in Frames : g # k /\ frame'[g].fp # Null => frame'[g].fp # frame'[k].fp
    BY DEF HoldInv, HandlesLive, Others
  <2>. QED BY <2>1, <2>2, <2>3 DEF HandlesLive
<1>5. NothingLeaks'
  <2> SUFFICES ASSUME NEW d \in Handles, file'[d] # Closed
               PROVE  \/ \E g \in Frames : frame'[g].alive /\ frame'[g].fp = d
                      \/ \E t \in Threads : \E i \in DOMAIN thread'[t].held : thread'[t].held[i] = d
    BY DEF NothingLeaks
  <2>1. d # h /\ file[d] # Closed
    BY <1>f, <1>t
  <2>2. CASE \E g \in Frames : frame[g].alive /\ frame[g].fp = d
    BY <2>1, <2>2 DEF Others, h
  <2>3. CASE \E t \in Threads : \E i \in DOMAIN thread[t].held : thread[t].held[i] = d
    BY <1>k, <2>3 DEF Held
  <2>. QED BY <2>1, <2>2, <2>3 DEF HoldInv, NothingLeaks
<1>. QED BY <1>1, <1>2, <1>3, <1>4, <1>5 DEF HoldInv

(* A call takes the cached handle of its frame. *)
LEMMA HoldCached ==
  ASSUME TypeInv, HoldInv, NEW t \in Threads, NEW n, NEW f \in Frames, F(t) = f,
         frame[f].fp # Null, Gains(t, n, frame[f].fp),
         \A u \in Threads \ {t} : thread'[u] = thread[u],
         frame'[f].fp = frame[f].fp, frame'[f].refs = frame[f].refs + 1,
         frame'[f].alive = frame[f].alive, Others(f), file' = file, count' = count
  PROVE  HoldInv'
<1> DEFINE h == frame[f].fp
<1>n. n \in {1, 2} /\ n \notin DOMAIN thread[t].held
  BY DEF Gains
<1>f. \A g \in Frames : frame'[g].fp = frame[g].fp /\ frame'[g].alive = frame[g].alive
  BY DEF Others
<1>u. \A u \in Threads \ {t} : DOMAIN thread'[u].held = DOMAIN thread[u].held
        /\ F(u)' = F(u) /\ \A j : Held(u, j)' = Held(u, j)
  BY DEF F, Held
<1>t. /\ DOMAIN thread'[t].held = DOMAIN thread[t].held \cup {n} /\ F(t)' = f
      /\ Held(t, n)' = h
      /\ \A j \in DOMAIN thread[t].held : Held(t, j)' = Held(t, j)
  BY DEF Gains, F, Held
<1> HIDE DEF h
<1>1. OwnInv'
  <2> SUFFICES ASSUME NEW u \in Threads, NEW i \in DOMAIN thread'[u].held,
                      Held(u, i)' # frame'[F(u)'].fp
               PROVE  /\ \A g \in Frames : frame'[g].fp # Held(u, i)'
                      /\ \A v \in Threads : \A j \in DOMAIN thread'[v].held :
                           Held(v, j)' = Held(u, i)' => v = u /\ j = i
    BY DEF OwnInv
  <2>1. i \in DOMAIN thread[u].held /\ Held(u, i)' = Held(u, i) /\ F(u)' = F(u)
    BY <1>f, <1>u, <1>t DEF h
  <2>2. F(u) \in Frames
    BY <2>1, HeldType
  <2>3. Held(u, i) # frame[F(u)].fp
    BY <1>f, <2>1, <2>2
  <2>4. /\ \A g \in Frames : frame[g].fp # Held(u, i)
        /\ \A v \in Threads : \A j \in DOMAIN thread[v].held :
             Held(v, j) = Held(u, i) => v = u /\ j = i
    BY <2>1, <2>3 DEF HoldInv, OwnInv
  <2>5. h # Held(u, i)
    BY <2>4 DEF h
  <2>. QED BY <1>f, <1>u, <1>t, <2>1, <2>4, <2>5
<1>2. RefsInv'
  <2>1. ASSUME NEW g \in Frames \ {f}, NEW i PROVE Sharers(g, i)' = Sharers(g, i)
    BY <1>f, <1>u, <1>t DEF Sharers
  <2>2. ASSUME NEW i, i # n PROVE Sharers(f, i)' = Sharers(f, i)
    BY <1>f, <1>u, <1>t, <2>2 DEF Sharers
  <2>3. Sharers(f, n)' = Sharers(f, n) \cup {t} /\ t \notin Sharers(f, n)
    BY <1>f, <1>u, <1>t, <1>n DEF Sharers, h
  <2>4. Sharers(f, 1) \subseteq Threads /\ Sharers(f, 2) \subseteq Threads
    BY DEF Sharers
  <2>5. Cardinality(Sharers(f, 1)) \in Nat /\ Cardinality(Sharers(f, 2)) \in Nat
    BY <2>4, SharersCounted
  <2>6. Cardinality(Sharers(f, n)') = Cardinality(Sharers(f, n)) + 1
    BY <1>n, <2>3, <2>4, SharersCounted
  <2>7. frame'[f].refs = Cardinality(Sharers(f, 1)') + Cardinality(Sharers(f, 2)')
    <3>1. frame[f].refs = Cardinality(Sharers(f, 1)) + Cardinality(Sharers(f, 2))
      BY DEF HoldInv, RefsInv
    <3>2. CASE n = 1
      <4>1. Sharers(f, 2)' = Sharers(f, 2)
        BY <2>2, <3>2
      <4>. QED BY <2>5, <2>6, <3>1, <3>2, <4>1
    <3>3. CASE n = 2
      <4>1. Sharers(f, 1)' = Sharers(f, 1)
        BY <2>2, <3>3
      <4>. QED BY <2>5, <2>6, <3>1, <3>3, <4>1
    <3>. QED BY <1>n, <3>2, <3>3
  <2>8. ASSUME NEW g \in Frames \ {f}
        PROVE  frame'[g].refs = Cardinality(Sharers(g, 1)') + Cardinality(Sharers(g, 2)')
    BY <2>1 DEF Others, HoldInv, RefsInv
  <2>. QED BY <2>7, <2>8 DEF RefsInv
<1>3. SlotsExact'
  <2>1. Cached' = Cached
    BY <1>f DEF Cached
  <2>. QED BY <2>1 DEF HoldInv, SlotsExact, Cached
<1>4. HandlesLive'
  <2>1. file[h] # Closed
    BY DEF HoldInv, HandlesLive, h
  <2>2. \A u \in Threads : \A i \in DOMAIN thread'[u].held : file[Held(u, i)'] # Closed
    BY <1>u, <1>t, <2>1 DEF HoldInv, HandlesLive, Held
  <2>. QED BY <1>f, <2>2 DEF HoldInv, HandlesLive, Held
<1>5. NothingLeaks'
  BY <1>f, <1>u, <1>t DEF HoldInv, NothingLeaks, Held
<1>. QED BY <1>1, <1>2, <1>3, <1>4, <1>5 DEF HoldInv

(* A call opens a handle at a free address: for its frame to keep, which   *)
(* had none, or for itself.                                                *)
LEMMA HoldNew ==
  ASSUME TypeInv, HoldInv, NEW t \in Threads, NEW n, NEW f \in Frames, F(t) = f,
         NEW h \in Handles, file[h] = Closed, Gains(t, n, h),
         \A u \in Threads \ {t} : thread'[u] = thread[u],
         NEW v \in Versions, file' = [file EXCEPT ![h] = v],
         \/ /\ frame[f].fp = Null /\ frame'[f].fp = h
            /\ frame'[f].refs = frame[f].refs + 1
            /\ count' = count + 1 /\ count < CacheMax
         \/ /\ frame'[f].fp = frame[f].fp /\ frame'[f].refs = frame[f].refs
            /\ count' = count,
         Others(f), frame'[f].alive = frame[f].alive
  PROVE  HoldInv'
<1>n. n \in {1, 2} /\ n \notin DOMAIN thread[t].held
  BY DEF Gains
<1>o. file \in [Handles -> Versions \cup {Closed}] /\ v # Closed /\ h # Null
  BY ReaderAssumption DEF TypeInv, TypeOK, Versions, Closed
<1>f. \A g \in Frames : frame'[g].alive = frame[g].alive
  BY DEF Others
<1>u. \A u \in Threads \ {t} : DOMAIN thread'[u].held = DOMAIN thread[u].held
        /\ F(u)' = F(u) /\ \A j : Held(u, j)' = Held(u, j)
  BY DEF F, Held
<1>t. /\ DOMAIN thread'[t].held = DOMAIN thread[t].held \cup {n} /\ F(t)' = f
      /\ Held(t, n)' = h
      /\ \A j \in DOMAIN thread[t].held : Held(t, j)' = Held(t, j)
  BY DEF Gains, F, Held
<1>h. /\ \A u \in Threads : \A i \in DOMAIN thread[u].held : Held(u, i) # h
      /\ \A g \in Frames : frame[g].fp # h
  BY <1>o DEF HoldInv, HandlesLive, Held
<1>p. \A g \in Frames : frame'[g].fp # frame[g].fp => g = f /\ frame[f].fp = Null /\ frame'[f].fp = h
  BY DEF Others
<1>1. OwnInv'
  <2> SUFFICES ASSUME NEW u \in Threads, NEW i \in DOMAIN thread'[u].held,
                      Held(u, i)' # frame'[F(u)'].fp
               PROVE  /\ \A g \in Frames : frame'[g].fp # Held(u, i)'
                      /\ \A w \in Threads : \A j \in DOMAIN thread'[w].held :
                           Held(w, j)' = Held(u, i)' => w = u /\ j = i
    BY DEF OwnInv
  <2>1. CASE u = t /\ i = n
    <3>1. Held(u, i)' = h /\ frame'[f].fp # h
      BY <1>t, <2>1
    <3>2. \A g \in Frames : frame'[g].fp # h
      BY <1>h, <1>p, <3>1
    <3>3. \A w \in Threads : \A j \in DOMAIN thread'[w].held : Held(w, j)' = h => w = t /\ j = n
      BY <1>u, <1>t, <1>h
    <3>. QED BY <2>1, <3>1, <3>2, <3>3
  <2>2. CASE ~(u = t /\ i = n)
    <3>1. i \in DOMAIN thread[u].held /\ Held(u, i)' = Held(u, i) /\ F(u)' = F(u)
      BY <1>u, <1>t, <2>2
    <3>2. F(u) \in Frames /\ Held(u, i) # Null
      BY <3>1, HeldType
    <3>3. Held(u, i) # frame[F(u)].fp
      BY <1>p, <3>1, <3>2
    <3>4. /\ \A g \in Frames : frame[g].fp # Held(u, i)
          /\ \A w \in Threads : \A j \in DOMAIN thread[w].held :
               Held(w, j) = Held(u, i) => w = u /\ j = i
      BY <3>1, <3>3 DEF HoldInv, OwnInv
    <3>5. Held(u, i) # h
      BY <1>h, <3>1
    <3>6. \A g \in Frames : frame'[g].fp # Held(u, i)
      BY <1>p, <3>4, <3>5
    <3>. QED BY <1>u, <1>t, <3>1, <3>4, <3>5, <3>6
  <2>. QED BY <2>1, <2>2
<1>2. RefsInv'
  <2>1. ASSUME NEW g \in Frames \ {f}, NEW i PROVE Sharers(g, i)' = Sharers(g, i)
    BY <1>u, <1>t DEF Sharers, Others
  <2>2. ASSUME NEW g \in Frames \ {f}
        PROVE  frame'[g].refs = Cardinality(Sharers(g, 1)') + Cardinality(Sharers(g, 2)')
    BY <2>1 DEF Others, HoldInv, RefsInv
  <2>3. frame[f].refs = Cardinality(Sharers(f, 1)) + Cardinality(Sharers(f, 2))
    BY DEF HoldInv, RefsInv
  <2>4. CASE frame[f].fp = Null /\ frame'[f].fp = h /\ frame'[f].refs = frame[f].refs + 1
    <3>1. Sharers(f, 1) = {} /\ Sharers(f, 2) = {}
      BY <2>4, NullUnshared
    <3>2. Sharers(f, n)' = {t} /\ \A i : i # n => Sharers(f, i)' = {}
      BY <1>u, <1>t, <1>h, <2>4 DEF Sharers
    <3>3. Cardinality({}) = 0 /\ Cardinality({t}) = 1
      BY FS_EmptySet, FS_Singleton
    <3>4. frame[f].refs = 0 /\ frame'[f].refs = 1
      BY <2>3, <2>4, <3>1, <3>3
    <3>5. Cardinality(Sharers(f, 1)') + Cardinality(Sharers(f, 2)') = 1
      <4>1. CASE n = 1
        BY <3>2, <3>3, <4>1
      <4>2. CASE n = 2
        BY <3>2, <3>3, <4>2
      <4>. QED BY <1>n, <4>1, <4>2
    <3>. QED BY <2>2, <3>4, <3>5 DEF RefsInv
  <2>5. CASE frame'[f].fp = frame[f].fp /\ frame'[f].refs = frame[f].refs
    <3>1. ASSUME NEW i PROVE Sharers(f, i)' = Sharers(f, i)
      BY <1>u, <1>t, <1>h, <1>n, <2>5 DEF Sharers
    <3>2. frame'[f].refs = Cardinality(Sharers(f, 1)') + Cardinality(Sharers(f, 2)')
      BY <2>3, <2>5, <3>1
    <3>. QED BY <2>2, <3>2 DEF RefsInv
  <2>. QED BY <2>4, <2>5
<1>3. SlotsExact'
  <2>1. count = Cardinality(Cached) /\ count <= CacheMax /\ Cached \subseteq Frames
    BY DEF HoldInv, SlotsExact, Cached
  <2>2. CASE frame[f].fp = Null /\ frame'[f].fp = h /\ count' = count + 1 /\ count < CacheMax
    <3>1. Cached' = Cached \cup {f} /\ f \in Frames \ Cached
      BY <1>o, <2>2 DEF Cached, Others
    <3>2. Cardinality(Cached') = Cardinality(Cached) + 1 /\ Cardinality(Cached) \in Nat
      BY <2>1, <3>1, SlotsCounted
    <3>3. count' = Cardinality(Cached') /\ count' <= CacheMax
      BY <2>1, <2>2, <3>2, ReaderAssumption
    <3>. QED BY <3>3 DEF SlotsExact, Cached
  <2>3. CASE frame'[f].fp = frame[f].fp /\ count' = count
    <3>1. Cached' = Cached
      BY <2>3 DEF Cached, Others
    <3>. QED BY <2>1, <2>3, <3>1 DEF SlotsExact, Cached
  <2>. QED BY <2>2, <2>3
<1>4. HandlesLive'
  <2>0. \A d \in Handles : file[d] # Closed \/ d = h => file'[d] # Closed
    BY <1>o
  <2>1. ASSUME NEW g \in Frames, frame'[g].fp # Null PROVE file'[frame'[g].fp] # Closed
    <3>1. frame[g].fp \in Handles \cup {Null}
      BY DEF TypeInv, TypeOK
    <3>. QED BY <1>p, <2>0, <2>1, <3>1 DEF HoldInv, HandlesLive
  <2>2. ASSUME NEW u \in Threads, NEW i \in DOMAIN thread'[u].held
        PROVE  file'[Held(u, i)'] # Closed
    <3>1. CASE i \in DOMAIN thread[u].held
      <4>1. Held(u, i)' = Held(u, i) /\ Held(u, i) \in Handles
        BY <1>u, <1>t, <3>1, HeldType
      <4>. QED BY <2>0, <3>1, <4>1 DEF HoldInv, HandlesLive, Held
    <3>2. CASE i \notin DOMAIN thread[u].held
      BY <1>u, <1>t, <2>0, <3>2
    <3>. QED BY <3>1, <3>2
  <2>3. \A g, k \in Frames : g # k /\ frame'[g].fp # Null => frame'[g].fp # frame'[k].fp
    BY <1>h, <1>o, <1>p DEF HoldInv, HandlesLive
  <2>. QED BY <2>1, <2>2, <2>3 DEF HandlesLive, Held
<1>5. NothingLeaks'
  <2> SUFFICES ASSUME NEW d \in Handles, file'[d] # Closed
               PROVE  \/ \E g \in Frames : frame'[g].alive /\ frame'[g].fp = d
                      \/ \E u \in Threads : \E i \in DOMAIN thread'[u].held : Held(u, i)' = d
    BY DEF NothingLeaks, Held
  <2>1. CASE d = h
    BY <1>t, <2>1
  <2>2. CASE d # h
    <3>1. file[d] # Closed
      BY <1>o, <2>2
    <3>2. CASE \E g \in Frames : frame[g].alive /\ frame[g].fp = d
      BY <1>f, <1>p, <3>2, ReaderAssumption
    <3>3. CASE \E u \in Threads : \E i \in DOMAIN thread[u].held : Held(u, i) = d
      BY <1>u, <1>t, <3>3
    <3>. QED BY <3>1, <3>2, <3>3 DEF HoldInv, NothingLeaks, Held
  <2>. QED BY <2>1, <2>2
<1>. QED BY <1>1, <1>2, <1>3, <1>4, <1>5 DEF HoldInv

(* A call gives the cached handle of its frame back. *)
LEMMA HoldDropCached ==
  ASSUME TypeInv, HoldInv, AliveInv, NEW t \in Threads, NEW n, NEW f \in Frames, F(t) = f,
         Drops(t, n), Held(t, n) = frame[f].fp,
         \A u \in Threads \ {t} : thread'[u] = thread[u],
         frame'[f].fp = frame[f].fp, frame'[f].refs = frame[f].refs - 1,
         frame'[f].alive = frame[f].alive, Others(f), file' = file, count' = count
  PROVE  HoldInv' /\ frame[f].refs >= 1
<1>n. n \in {1, 2} /\ n \in DOMAIN thread[t].held
  BY DEF Drops
<1>o. frame[f].fp # Null /\ frame[f].alive
  BY <1>n, HeldType DEF AliveInv
<1>f. \A g \in Frames : frame'[g].fp = frame[g].fp /\ frame'[g].alive = frame[g].alive
  BY DEF Others
<1>u. \A u \in Threads \ {t} : DOMAIN thread'[u].held = DOMAIN thread[u].held
        /\ F(u)' = F(u) /\ \A j : Held(u, j)' = Held(u, j)
  BY DEF F, Held
<1>t. /\ DOMAIN thread'[t].held = DOMAIN thread[t].held \ {n}
      /\ \A j \in DOMAIN thread'[t].held : Held(t, j)' = Held(t, j) /\ F(t)' = f
  BY DEF Drops, F, Held
<1>1. OwnInv'
  <2> SUFFICES ASSUME NEW u \in Threads, NEW i \in DOMAIN thread'[u].held,
                      Held(u, i)' # frame'[F(u)'].fp
               PROVE  /\ \A g \in Frames : frame'[g].fp # Held(u, i)'
                      /\ \A v \in Threads : \A j \in DOMAIN thread'[v].held :
                           Held(v, j)' = Held(u, i)' => v = u /\ j = i
    BY DEF OwnInv
  <2>1. i \in DOMAIN thread[u].held /\ Held(u, i)' = Held(u, i) /\ F(u)' = F(u)
    BY <1>u, <1>t
  <2>2. F(u) \in Frames
    BY <2>1, HeldType
  <2>3. Held(u, i) # frame[F(u)].fp
    BY <1>f, <2>1, <2>2
  <2>4. /\ \A g \in Frames : frame[g].fp # Held(u, i)
        /\ \A v \in Threads : \A j \in DOMAIN thread[v].held :
             Held(v, j) = Held(u, i) => v = u /\ j = i
    BY <2>1, <2>3 DEF HoldInv, OwnInv
  <2>. QED BY <1>f, <1>u, <1>t, <2>1, <2>4
<1>c. /\ Sharers(f, 1) \subseteq Threads /\ Sharers(f, 2) \subseteq Threads
      /\ t \in Sharers(f, n)
  BY <1>n DEF Sharers
<1>d. /\ Cardinality(Sharers(f, 1)) \in Nat /\ Cardinality(Sharers(f, 2)) \in Nat
      /\ Cardinality(Sharers(f, n)) >= 1
      /\ Cardinality(Sharers(f, n) \ {t}) = Cardinality(Sharers(f, n)) - 1
  BY <1>n, <1>c, SharersCounted
<1>e. frame[f].refs = Cardinality(Sharers(f, 1)) + Cardinality(Sharers(f, 2))
  BY DEF HoldInv, RefsInv
<1>2. RefsInv'
  <2>1. ASSUME NEW g \in Frames \ {f}, NEW i PROVE Sharers(g, i)' = Sharers(g, i)
    BY <1>f, <1>u, <1>t DEF Sharers
  <2>2. ASSUME NEW i, i # n PROVE Sharers(f, i)' = Sharers(f, i)
    BY <1>f, <1>u, <1>t, <2>2 DEF Sharers
  <2>3. Sharers(f, n)' = Sharers(f, n) \ {t}
    BY <1>f, <1>u, <1>t, <1>n DEF Sharers
  <2>7. frame'[f].refs = Cardinality(Sharers(f, 1)') + Cardinality(Sharers(f, 2)')
    <3>2. CASE n = 1
      <4>1. Sharers(f, 2)' = Sharers(f, 2)
        BY <2>2, <3>2
      <4>. QED BY <1>d, <1>e, <2>3, <3>2, <4>1
    <3>3. CASE n = 2
      <4>1. Sharers(f, 1)' = Sharers(f, 1)
        BY <2>2, <3>3
      <4>2. Cardinality(Sharers(f, 2)') = Cardinality(Sharers(f, 2)) - 1
        BY <1>d, <2>3, <3>3
      <4>. QED BY <1>d, <1>e, <4>1, <4>2
    <3>. QED BY <1>n, <3>2, <3>3
  <2>8. ASSUME NEW g \in Frames \ {f}
        PROVE  frame'[g].refs = Cardinality(Sharers(g, 1)') + Cardinality(Sharers(g, 2)')
    BY <2>1 DEF Others, HoldInv, RefsInv
  <2>. QED BY <2>7, <2>8 DEF RefsInv
<1>3. SlotsExact'
  <2>1. Cached' = Cached
    BY <1>f DEF Cached
  <2>. QED BY <2>1 DEF HoldInv, SlotsExact, Cached
<1>4. HandlesLive'
  <2>2. \A u \in Threads : \A i \in DOMAIN thread'[u].held : file[Held(u, i)'] # Closed
    BY <1>u, <1>t DEF HoldInv, HandlesLive, Held
  <2>. QED BY <1>f, <2>2 DEF HoldInv, HandlesLive, Held
<1>5. NothingLeaks'
  <2> SUFFICES ASSUME NEW d \in Handles, file[d] # Closed
               PROVE  \/ \E g \in Frames : frame[g].alive /\ frame[g].fp = d
                      \/ \E u \in Threads : \E i \in DOMAIN thread'[u].held : Held(u, i)' = d
    BY <1>f DEF NothingLeaks, Held
  <2>1. CASE d = frame[f].fp
    BY <1>o, <2>1
  <2>2. CASE d # frame[f].fp
    BY <1>u, <1>t, <2>2 DEF HoldInv, NothingLeaks, Held
  <2>. QED BY <2>1, <2>2
<1>6. frame[f].refs >= 1
  BY <1>n, <1>d, <1>e
<1>. QED BY <1>1, <1>2, <1>3, <1>4, <1>5, <1>6 DEF HoldInv

(* A call closes a handle of its own. *)
LEMMA HoldDropPrivate ==
  ASSUME TypeInv, HoldInv, NEW t \in Threads, NEW n,
         Drops(t, n), Held(t, n) # frame[F(t)].fp,
         \A u \in Threads \ {t} : thread'[u] = thread[u],
         frame' = frame, count' = count, file' = [file EXCEPT ![Held(t, n)] = Closed]
  PROVE  HoldInv'
<1> DEFINE h == Held(t, n)
           f == F(t)
<1>n. n \in {1, 2} /\ n \in DOMAIN thread[t].held
  BY DEF Drops
<1>o. h \in Handles /\ f \in Frames /\ file \in [Handles -> Versions \cup {Closed}]
  BY <1>n, HeldType DEF TypeInv, TypeOK
<1>u. \A u \in Threads \ {t} : DOMAIN thread'[u].held = DOMAIN thread[u].held
        /\ F(u)' = F(u) /\ \A j : Held(u, j)' = Held(u, j)
  BY DEF F, Held
<1>t. /\ DOMAIN thread'[t].held = DOMAIN thread[t].held \ {n}
      /\ \A j \in DOMAIN thread'[t].held : Held(t, j)' = Held(t, j) /\ F(t)' = f
  BY DEF Drops, F, Held
<1>h. /\ \A g \in Frames : frame[g].fp # h
      /\ \A u \in Threads : \A j \in DOMAIN thread[u].held : Held(u, j) = h => u = t /\ j = n
  BY <1>n DEF HoldInv, OwnInv
<1>f. file' = [file EXCEPT ![h] = Closed] /\ h # frame[f].fp
  OBVIOUS
<1>e. f = F(t) /\ h = Held(t, n)
  OBVIOUS
<1> HIDE DEF h, f
<1>1. OwnInv'
  <2> SUFFICES ASSUME NEW u \in Threads, NEW i \in DOMAIN thread'[u].held,
                      Held(u, i)' # frame'[F(u)'].fp
               PROVE  /\ \A g \in Frames : frame'[g].fp # Held(u, i)'
                      /\ \A v \in Threads : \A j \in DOMAIN thread'[v].held :
                           Held(v, j)' = Held(u, i)' => v = u /\ j = i
    BY DEF OwnInv
  <2>1. i \in DOMAIN thread[u].held /\ Held(u, i)' = Held(u, i) /\ F(u)' = F(u)
    BY <1>u, <1>t, <1>e
  <2>3. Held(u, i) # frame[F(u)].fp
    BY <2>1
  <2>4. /\ \A g \in Frames : frame[g].fp # Held(u, i)
        /\ \A v \in Threads : \A j \in DOMAIN thread[v].held :
             Held(v, j) = Held(u, i) => v = u /\ j = i
    BY <2>1, <2>3 DEF HoldInv, OwnInv
  <2>. QED BY <1>u, <1>t, <2>1, <2>4
<1>2. RefsInv'
  <2>1. ASSUME NEW g \in Frames, NEW i PROVE Sharers(g, i)' = Sharers(g, i)
    BY <1>u, <1>t, <1>h, <1>e DEF Sharers
  <2>. QED BY <2>1 DEF HoldInv, RefsInv
<1>3. SlotsExact'
  BY DEF HoldInv, SlotsExact
<1>4. HandlesLive'
  <2>0. \A d \in Handles : file[d] # Closed /\ d # h => file'[d] # Closed
    BY <1>o, <1>f
  <2>1. ASSUME NEW g \in Frames, frame[g].fp # Null PROVE file'[frame[g].fp] # Closed
    <3>1. frame[g].fp \in Handles \cup {Null}
      BY DEF TypeInv, TypeOK
    <3>. QED BY <1>h, <2>0, <2>1, <3>1 DEF HoldInv, HandlesLive
  <2>2. ASSUME NEW u \in Threads, NEW i \in DOMAIN thread'[u].held
        PROVE  file'[Held(u, i)'] # Closed
    <3>1. i \in DOMAIN thread[u].held /\ Held(u, i)' = Held(u, i) /\ Held(u, i) # h
      BY <1>u, <1>t, <1>h
    <3>2. Held(u, i) \in Handles
      BY <3>1, HeldType
    <3>. QED BY <2>0, <3>1, <3>2 DEF HoldInv, HandlesLive, Held
  <2>. QED BY <2>1, <2>2 DEF HoldInv, HandlesLive, Held
<1>5. NothingLeaks'
  <2> SUFFICES ASSUME NEW d \in Handles, file'[d] # Closed
               PROVE  \/ \E g \in Frames : frame[g].alive /\ frame[g].fp = d
                      \/ \E u \in Threads : \E i \in DOMAIN thread'[u].held : Held(u, i)' = d
    BY DEF NothingLeaks, Held
  <2>1. d # h /\ file[d] # Closed
    BY <1>o, <1>f
  <2>2. CASE \E g \in Frames : frame[g].alive /\ frame[g].fp = d
    BY <2>2
  <2>3. CASE \E u \in Threads : \E i \in DOMAIN thread[u].held : Held(u, i) = d
    BY <1>u, <1>t, <1>e, <2>1, <2>3
  <2>. QED BY <2>1, <2>2, <2>3 DEF HoldInv, NothingLeaks, Held
<1>. QED BY <1>1, <1>2, <1>3, <1>4, <1>5 DEF HoldInv
-----------------------------------------------------------------------------
(* What the steps have in common. *)

(* A thread's record changes, the others stay. *)
LEMMA ThreadTyped ==
  ASSUME TypeInv, NEW t \in Threads, NEW x \in ThreadRec,
         thread' = [thread EXCEPT ![t] = x]
  PROVE  /\ thread' \in [Threads -> ThreadRec] /\ thread'[t] = x
         /\ \A u \in Threads \ {t} : thread'[u] = thread[u]
         /\ CallShape(x) => \A u \in Threads : CallShape(thread'[u])
<1>1. thread \in [Threads -> ThreadRec]
  BY DEF TypeInv, TypeOK, ThreadRec
<1>2. /\ thread' \in [Threads -> ThreadRec] /\ thread'[t] = x
      /\ \A u \in Threads \ {t} : thread'[u] = thread[u]
  BY <1>1
<1>. QED BY <1>2 DEF TypeInv

(* A call goes on to its next step with the handles it has. *)
Moved(t, pc, floor) == [thread[t] EXCEPT !.pc = pc, !.floor = floor]
LEMMA MoveShape ==
  ASSUME TypeInv, NEW t \in Threads, NEW pc, NEW floor \in Versions \cup {Closed},
         NEW x, x = Moved(t, pc, floor),
         \/ At(t, "loop") /\ pc \in {"revalidate", "release"}
         \/ At(t, "revalidate") /\ pc = "acquire"
         \/ At(t, "acquire") /\ pc = "open"
         \/ At(t, "read") /\ pc = "release"
         \/ At(t, "release") /\ pc = "close"
  PROVE  /\ x \in ThreadRec /\ CallShape(x)
         /\ x.pc = pc /\ x.frame = thread[t].frame /\ x.held = thread[t].held
         /\ x.floor = floor /\ thread[t].frame \in Frames
<1>1. thread[t] \in ThreadRec /\ CallShape(thread[t]) /\ thread[t].held \in Seq(Handles)
  BY DEF TypeInv, TypeOK, ThreadRec
<1>2. /\ x.pc = pc /\ x.frame = thread[t].frame /\ x.held = thread[t].held
      /\ x.floor = floor /\ x.call = thread[t].call
  BY <1>1 DEF ThreadRec, Moved
<1>3. x \in ThreadRec
  BY <1>1 DEF ThreadRec, At, Moved
<1>4. thread[t].frame \in Frames
  BY <1>1 DEF CallShape, ThreadRec, At
<1>5. Len(thread[t].held) \in Nat
  BY <1>1
<1>6. CallShape(x)
  <2>1. x.frame # Null /\ x.pc # "idle" /\ x.pc # "loop"
    BY <1>2, <1>4, ReaderAssumption DEF At
  <2>2. Len(x.held) <= 2 /\ (x.call # "load" => Len(x.held) <= 1)
    BY <1>1, <1>2 DEF CallShape
  <2>3. x.pc \in {"revalidate", "acquire", "open"} =>
          Len(x.held) = 0 \/ (Len(x.held) = 1 /\ x.call = "load")
    BY <1>1, <1>2 DEF CallShape, At
  <2>4. thread[t].pc \in {"loop", "read", "release"} => Len(x.held) >= 1
    <3>1. thread[t].pc = "loop" => Len(x.held) = 1
      BY <1>1, <1>2 DEF CallShape
    <3>2. thread[t].pc \in {"read", "release"} => Len(x.held) >= 1
      BY <1>1, <1>2 DEF CallShape
    <3>3. \A k : k = 1 => k >= 1
      OBVIOUS
    <3>. QED BY ONLY <3>1, <3>2, <3>3
  <2>5. x.pc \in {"read", "release", "close"} => Len(x.held) >= 1
    BY <1>2, <2>4 DEF At
  <2>. QED BY <2>1, <2>2, <2>3, <2>5 DEF CallShape
<1>. QED BY <1>2, <1>3, <1>4, <1>6

(* The handle that a call reads, gives back or closes. *)
LEMMA LastHeld ==
  ASSUME TypeInv, NEW t \in Threads, thread[t].pc \in {"read", "release", "close"}
  PROVE  /\ Len(thread[t].held) \in DOMAIN thread[t].held
         /\ Fp(t) = Held(t, Len(thread[t].held))
         /\ Fp(t) \in Handles /\ Fp(t) # Null /\ F(t) \in Frames
<1>1. thread[t] \in ThreadRec /\ CallShape(thread[t]) /\ thread[t].held \in Seq(Handles)
  BY DEF TypeInv, TypeOK, ThreadRec
<1>2. Len(thread[t].held) \in Nat /\ Len(thread[t].held) >= 1
      /\ DOMAIN thread[t].held = 1 .. Len(thread[t].held)
  BY <1>1 DEF CallShape
<1>3. Len(thread[t].held) \in DOMAIN thread[t].held
  BY <1>2
<1>4. Fp(t) = Held(t, Len(thread[t].held))
  BY DEF Fp, Last, Held
<1>. QED BY <1>3, <1>4, HeldType

(* No call's frame dies, and only the frames of calls get a handle. *)
LEMMA AliveKept ==
  ASSUME TypeInv, AliveInv,
         \A u \in Threads : \/ F(u)' = Null \/ F(u)' = F(u)
                            \/ F(u)' \in Frames /\ frame[F(u)'].alive,
         \A f \in Frames : frame'[f].alive = frame[f].alive,
         \A f \in Frames : frame'[f].fp # Null =>
                             frame[f].fp # Null \/ \E t \in Threads : F(t) = f
  PROVE  AliveInv'
<1>1. \A u \in Threads : F(u) \in Frames \cup {Null}
  BY DEF TypeInv, TypeOK, F
<1>2. \A u \in Threads : F(u)' # Null => frame'[F(u)'].alive
  BY <1>1 DEF AliveInv
<1>3. \A f \in Frames : frame'[f].fp # Null => frame'[f].alive
  BY ReaderAssumption DEF AliveInv
<1>. QED BY <1>2, <1>3 DEF AliveInv, F

(* A private handle stays private: what a frame caches is newly opened. *)
LEMMA CloseKept ==
  ASSUME TypeInv, HandlesLive, CloseInv,
         \A f \in Frames : \/ frame'[f].fp = frame[f].fp \/ frame'[f].fp = Null
                           \/ file[frame'[f].fp] = Closed,
         \A u \in Threads : \/ thread'[u] = thread[u]
                            \/ At(u, "close")' => Fp(u)' # frame'[F(u)'].fp
  PROVE  CloseInv'
<1> SUFFICES ASSUME NEW u \in Threads, thread'[u] = thread[u], At(u, "close")
             PROVE  Fp(u) # frame'[F(u)].fp
  BY DEF CloseInv, At, Fp, F
<1>1. Fp(u) # frame[F(u)].fp
  BY DEF CloseInv
<1>2. /\ Len(thread[u].held) \in DOMAIN thread[u].held
      /\ Fp(u) = Held(u, Len(thread[u].held)) /\ Fp(u) # Null /\ F(u) \in Frames
  BY LastHeld DEF At
<1>3. file[Fp(u)] # Closed
  BY <1>2 DEF HandlesLive, Held
<1>. QED BY <1>1, <1>2, <1>3

(* A call that this step does not move stays served by recent files: its   *)
(* frame's handle stays, goes, or is opened at the latest file.            *)
LEMMA FloorKept ==
  ASSUME TypeInv, TypeInv', FloorInv,
         \A f \in Frames : path'[f] >= path[f],
         \A f \in Frames : \/ /\ frame'[f].fp = frame[f].fp
                              /\ frame[f].fp # Null => file'[frame[f].fp] = file[frame[f].fp]
                           \/ frame'[f].fp = Null
                           \/ file'[frame'[f].fp] = path[f],
         \A u \in Threads :
           \/ /\ thread'[u] = thread[u]
              /\ \A i \in DOMAIN thread[u].held : file'[Held(u, i)] = file[Held(u, i)]
           \/ FloorOf(u)'
  PROVE  FloorInv'
<1> SUFFICES ASSUME NEW u \in Threads, thread'[u] = thread[u],
                    \A i \in DOMAIN thread[u].held : file'[Held(u, i)] = file[Held(u, i)]
             PROVE  FloorOf(u)'
  BY DEF FloorInv
<1>0. FloorOf(u)
  BY DEF FloorInv
<1>1. /\ thread[u].floor \in Int /\ F(u) \in Frames \cup {Null}
      /\ \A f \in Frames : path[f] \in Int /\ path'[f] \in Int
  BY ReaderAssumption DEF TypeInv, TypeOK, Versions, Closed, F
<1>2. F(u)' = F(u) /\ thread'[u].floor = thread[u].floor /\ thread'[u].pc = thread[u].pc
      /\ Fp(u)' = Fp(u)
  BY DEF F, Fp
<1>3. F(u) # Null => thread[u].floor <= path[F(u)] /\ thread[u].floor <= path'[F(u)]
  BY <1>0, <1>1 DEF FloorOf
<1>4. ASSUME thread[u].pc \in {"acquire", "open"}, frame'[F(u)].fp # Null
      PROVE  file'[frame'[F(u)].fp] >= thread[u].floor
  <2>1. F(u) \in Frames
    BY <1>1, <1>4 DEF TypeInv, CallShape, F
  <2>2. CASE frame'[F(u)].fp = frame[F(u)].fp
             /\ file'[frame[F(u)].fp] = file[frame[F(u)].fp]
    BY <1>0, <1>4, <2>2 DEF FloorOf
  <2>3. CASE file'[frame'[F(u)].fp] = path[F(u)]
    BY <1>1, <1>3, <2>1, <2>3, ReaderAssumption
  <2>. QED BY <1>4, <2>1, <2>2, <2>3
<1>5. ASSUME At(u, "read") PROVE file'[Fp(u)] >= thread[u].floor
  BY <1>0, <1>5, LastHeld DEF FloorOf, At
<1>. QED BY <1>2, <1>3, <1>4, <1>5 DEF FloorOf, At

(* A call that is not about to take or to read a handle. *)
LEMMA FloorMoved ==
  ASSUME TypeInv, NEW t \in Threads, path' = path, FloorOf(t),
         thread'[t].pc \notin {"read"},
         thread'[t].frame \in {thread[t].frame, Null},
         thread'[t].floor \in {thread[t].floor, Closed},
         thread'[t].pc \in {"acquire", "open"} => frame'[F(t)'].fp = Null
  PROVE  FloorOf(t)'
<1>1. /\ thread[t].floor \in Int /\ F(t) \in Frames \cup {Null}
      /\ \A f \in Frames : path[f] \in Int /\ path[f] >= -1
  BY ReaderAssumption DEF TypeInv, TypeOK, Versions, Closed, F
<1>2. F(t)' # Null => thread'[t].floor <= path'[F(t)']
  BY <1>1 DEF FloorOf, F, Closed
<1>. QED BY <1>2 DEF FloorOf, At
-----------------------------------------------------------------------------
(* The steps of the owner of a frame and of other programs. *)

(* frame_reader_close_locked closes the handle, or leaves everything. *)
LEMMA CloseLockedFacts ==
  ASSUME TypeInv, NEW f \in Frames, NEW force, NEW alive \in BOOLEAN,
         CloseLocked(f, force, alive)
  PROVE  /\ frame' \in [Frames -> FrameRec] /\ file' \in [Handles -> Versions \cup {Closed}]
         /\ count' \in Nat /\ Others(f) /\ frame'[f].alive = alive
         /\ IF Closes(f, force)
            THEN /\ frame[f].fp # Null /\ frame'[f].fp = Null /\ frame'[f].refs = 0
                 /\ file' = [file EXCEPT ![frame[f].fp] = Closed] /\ count' = CacheReturn
            ELSE /\ frame'[f].fp = frame[f].fp /\ frame'[f].refs = frame[f].refs
                 /\ file' = file /\ count' = count
<1>1. /\ frame \in [Frames -> FrameRec] /\ file \in [Handles -> Versions \cup {Closed}]
      /\ count \in Nat /\ frame[f] \in FrameRec
  BY DEF TypeInv, TypeOK, FrameRec
<1>2. CASE Closes(f, force)
  <2>1. /\ file' = [file EXCEPT ![frame[f].fp] = Closed]
        /\ frame' = [frame EXCEPT ![f].fp = Null, ![f].refs = 0, ![f].alive = alive]
        /\ count' = CacheReturn /\ frame[f].fp # Null
    BY <1>2 DEF CloseLocked, Closes
  <2>2. file' \in [Handles -> Versions \cup {Closed}]
    BY <1>1, <2>1
  <2>6. count' \in Nat
    BY <1>1, <2>1 DEF CacheReturn
  <2>3. [frame[f] EXCEPT !.fp = Null, !.refs = 0, !.alive = alive] \in FrameRec
    BY <1>1 DEF FrameRec
  <2>4. frame' \in [Frames -> FrameRec] /\ Others(f)
        /\ frame'[f] = [frame[f] EXCEPT !.fp = Null, !.refs = 0, !.alive = alive]
    BY <1>1, <2>1, <2>3 DEF Others
  <2>5. frame'[f].fp = Null /\ frame'[f].refs = 0 /\ frame'[f].alive = alive
    BY <1>1, <2>4 DEF FrameRec
  <2>. QED BY <1>2, <2>1, <2>2, <2>4, <2>5, <2>6
<1>3. CASE ~Closes(f, force)
  <2>1. frame' = [frame EXCEPT ![f].alive = alive] /\ file' = file /\ count' = count
    BY <1>3 DEF CloseLocked
  <2>3. [frame[f] EXCEPT !.alive = alive] \in FrameRec
    BY <1>1 DEF FrameRec
  <2>4. frame' \in [Frames -> FrameRec] /\ Others(f)
        /\ frame'[f] = [frame[f] EXCEPT !.alive = alive]
    BY <1>1, <2>1, <2>3 DEF Others
  <2>5. frame'[f].fp = frame[f].fp /\ frame'[f].refs = frame[f].refs /\ frame'[f].alive = alive
    BY <1>1, <2>4 DEF FrameRec
  <2>. QED BY <1>1, <1>3, <2>1, <2>4, <2>5
<1>. QED BY <1>2, <1>3

(* It closes nothing that a thread has, so that everybody's handles stay   *)
(* as they are.                                                            *)
LEMMA CloseLockedHold ==
  ASSUME TypeInv, AliveInv, HoldInv, NEW f \in Frames, NEW force, NEW alive \in BOOLEAN,
         CloseLocked(f, force, alive), \A u \in Threads : Keeps(u),
         Closes(f, force) => Sharers(f, 1) = {} /\ Sharers(f, 2) = {},
         alive \/ force
  PROVE  /\ HoldInv'
         /\ \A u \in Threads : \A i \in DOMAIN thread[u].held :
              file'[Held(u, i)] = file[Held(u, i)]
         /\ \A g \in Frames : \/ frame'[g].fp = Null
                              \/ /\ frame'[g].fp = frame[g].fp
                                 /\ frame[g].fp # Null => file'[frame[g].fp] = file[frame[g].fp]
<1>1. CASE Closes(f, force)
  <2>1. /\ Others(f) /\ frame[f].fp # Null /\ frame'[f].fp = Null /\ frame'[f].refs = 0
        /\ file' = [file EXCEPT ![frame[f].fp] = Closed] /\ count' = CacheReturn
    BY <1>1, CloseLockedFacts
  <2>2. HoldInv'
    BY <1>1, <2>1, HoldClose
  <2>3. file \in [Handles -> Versions \cup {Closed}]
    BY DEF TypeInv, TypeOK
  <2>4. ASSUME NEW u \in Threads, NEW i \in DOMAIN thread[u].held
        PROVE  file'[Held(u, i)] = file[Held(u, i)]
    <3>1. Held(u, i) # frame[f].fp
      BY <1>1, <2>1, HolderIsSharer DEF HoldInv
    <3>. QED BY <2>1, <2>3, <3>1, HeldType
  <2>5. ASSUME NEW g \in Frames \ {f}
        PROVE  /\ frame'[g].fp = frame[g].fp
               /\ frame[g].fp # Null => file'[frame[g].fp] = file[frame[g].fp]
    <3>1. frame[g].fp # frame[f].fp \/ frame[g].fp = Null
      BY DEF HoldInv, HandlesLive
    <3>2. frame[g].fp \in Handles \cup {Null}
      BY DEF TypeInv, TypeOK
    <3>. QED BY <2>1, <2>3, <3>1, <3>2 DEF Others
  <2>. QED BY <2>1, <2>2, <2>4, <2>5
<1>2. CASE ~Closes(f, force)
  <2>1. /\ Others(f) /\ frame'[f].fp = frame[f].fp /\ frame'[f].refs = frame[f].refs
        /\ file' = file /\ count' = count /\ frame'[f].alive = alive
    BY <1>2, CloseLockedFacts
  <2>2. frame[f].fp # Null => frame'[f].alive = frame[f].alive
    BY <1>2, <2>1 DEF Closes, AliveInv
  <2>3. HoldInv'
    BY <2>1, <2>2, HoldSame DEF Others
  <2>. QED BY <2>1, <2>3 DEF Others
<1>. QED BY <1>1, <1>2

(* Threads that stay as they are keep their handles. *)
LEMMA ThreadsStay ==
  ASSUME thread' = thread
  PROVE  /\ \A u \in Threads : Keeps(u) /\ thread'[u] = thread[u] /\ F(u)' = F(u)
BY DEF Keeps, F

(* frame_alloc. *)
LEMMA AllocStep ==
  ASSUME IInv, NEW f \in Frames, Alloc(f)
  PROVE  IInv'
<1>p. TypeInv /\ AliveInv /\ HoldInv /\ CloseInv /\ FloorInv /\ HandlesLive
  BY DEF IInv, HoldInv
<1>0. ~frame[f].alive /\ UNCHANGED <<path, there, count, file, thread>>
  BY DEF Alloc
<1>1. PICK new \in Fresh : frame' = [frame EXCEPT ![f] = new]
  BY DEF Alloc
<1>2. frame \in [Frames -> FrameRec]
  BY <1>p DEF TypeInv, TypeOK, FrameRec
<1>3. new \in FrameRec /\ new.alive /\ new.fp = Null /\ new.refs = 0
  <2>1. PICK other \in BOOLEAN :
          new = [alive |-> TRUE, fp |-> Null, refs |-> 0, nocache |-> other]
    BY DEF Fresh
  <2>2. new.alive = TRUE /\ new.fp = Null /\ new.refs = 0
    BY <2>1
  <2>3. TRUE \in BOOLEAN
    BY Zenon
  <2>4. new \in FrameRec
    BY <2>1, <2>3 DEF FrameRec
  <2>. QED BY <2>2, <2>4
<1>4. frame' \in [Frames -> FrameRec] /\ frame'[f] = new /\ Others(f)
  BY <1>1, <1>2, <1>3 DEF Others
<1>5. frame[f].fp = Null
  BY <1>p, <1>0 DEF AliveInv
<1>6. frame[f].refs = 0
  <2>1. Sharers(f, 1) = {} /\ Sharers(f, 2) = {}
    BY <1>p, <1>5, NullUnshared
  <2>2. frame[f].refs = Cardinality(Sharers(f, 1)) + Cardinality(Sharers(f, 2))
    BY <1>p DEF HoldInv, RefsInv
  <2>. QED BY <2>1, <2>2, FS_EmptySet
<1>7. TypeInv'
  BY <1>p, <1>0, <1>4 DEF TypeInv, TypeOK, FrameRec
<1>8. HoldInv'
  BY <1>p, <1>0, <1>3, <1>4, <1>5, <1>6, ThreadsStay, HoldSame DEF Others
<1>9. AliveInv'
  <2>1. \A u \in Threads : F(u) # Null => F(u) \in Frames
    BY <1>p DEF TypeInv, TypeOK, F
  <2>. QED BY <1>p, <1>0, <1>3, <1>4, <2>1 DEF AliveInv, F, Others
<1>10. CloseInv'
  BY <1>p, <1>0, <1>3, <1>4, ThreadsStay, CloseKept DEF Others
<1>11. FloorInv'
  <2>1. \A g \in Frames : frame'[g].fp = frame[g].fp
    BY <1>3, <1>4, <1>5 DEF Others
  <2>2. \A g \in Frames : path'[g] >= path[g]
    BY <1>p, <1>0 DEF TypeInv, TypeOK, Versions
  <2>. QED BY <1>p, <1>0, <1>7, <2>1, <2>2, ThreadsStay, FloorKept
<1>. QED BY <1>7, <1>8, <1>9, <1>10, <1>11 DEF IInv, HoldInv

(* frame_reader_invalidate and frame_free, while nobody reads the frame. *)
LEMMA InvalidateStep ==
  ASSUME IInv, NEW f \in Frames, Invalidate(f) \/ Free(f)
  PROVE  IInv'
<1>p. TypeInv /\ AliveInv /\ HoldInv /\ CloseInv /\ FloorInv /\ HandlesLive /\ RefsInv
  BY DEF IInv, HoldInv
<1>1. PICK alive \in BOOLEAN : CloseLocked(f, TRUE, alive)
  BY DEF Invalidate, Free
<1>2. Quiet(f) /\ UNCHANGED <<path, there, thread>>
  BY DEF Invalidate, Free
<1>3. \A t \in Threads : F(t) # f
  BY <1>2 DEF Quiet, F
<1>4. Sharers(f, 1) = {} /\ Sharers(f, 2) = {}
  BY <1>p, <1>3, NoSharers
<1>5. /\ frame' \in [Frames -> FrameRec] /\ file' \in [Handles -> Versions \cup {Closed}]
      /\ count' \in Nat /\ Others(f) /\ frame'[f].alive = alive
      /\ frame'[f].fp = Null
  BY <1>p, <1>1, CloseLockedFacts DEF Closes
<1>6. /\ HoldInv'
      /\ \A u \in Threads : \A i \in DOMAIN thread[u].held :
           file'[Held(u, i)] = file[Held(u, i)]
      /\ \A g \in Frames : \/ frame'[g].fp = Null
                           \/ /\ frame'[g].fp = frame[g].fp
                              /\ frame[g].fp # Null => file'[frame[g].fp] = file[frame[g].fp]
  BY <1>p, <1>1, <1>2, <1>4, ThreadsStay, CloseLockedHold
<1>7. TypeInv'
  BY <1>p, <1>2, <1>5 DEF TypeInv, TypeOK, FrameRec
<1>8. AliveInv'
  <2>1. \A u \in Threads : F(u) # Null => F(u) \in Frames
    BY <1>p DEF TypeInv, TypeOK, F
  <2>. QED BY <1>p, <1>2, <1>3, <1>5, <2>1 DEF AliveInv, F, Others
<1>9. CloseInv'
  BY <1>p, <1>2, <1>6, ThreadsStay, CloseKept
<1>10. FloorInv'
  <2>1. \A g \in Frames : path'[g] >= path[g]
    BY <1>p, <1>2 DEF TypeInv, TypeOK, Versions
  <2>. QED BY <1>p, <1>2, <1>6, <1>7, <2>1, ThreadsStay, FloorKept
<1>. QED BY <1>6, <1>7, <1>8, <1>9, <1>10 DEF IInv, HoldInv

(* Other programs replace and unlink files. *)
LEMMA ReplaceStep ==
  ASSUME IInv, NEW f \in Frames, Replace(f) \/ Unlink(f)
  PROVE  IInv'
<1>p. TypeInv /\ AliveInv /\ HoldInv /\ CloseInv /\ FloorInv /\ HandlesLive
  BY DEF IInv, HoldInv
<1>1. UNCHANGED <<frame, count, file, thread>>
  BY DEF Replace, Unlink
<1>2. /\ path' \in [Frames -> Versions] /\ there' \in [Frames -> BOOLEAN]
      /\ \A g \in Frames : path'[g] >= path[g]
  <2>0. path \in [Frames -> Versions] /\ there \in [Frames -> BOOLEAN]
    BY <1>p DEF TypeInv, TypeOK
  <2>1. CASE Replace(f)
    <3>1. /\ path[f] < MaxVersion /\ path' = [path EXCEPT ![f] = path[f] + 1]
          /\ there' = [there EXCEPT ![f] = TRUE]
      BY <2>1 DEF Replace
    <3>2. path[f] + 1 \in Versions
      BY <2>0, <3>1, ReaderAssumption DEF Versions
    <3>3. \A g \in Frames : path[g] \in Int
      BY <2>0 DEF Versions
    <3>. QED BY <2>0, <3>1, <3>2, <3>3
  <2>2. CASE Unlink(f)
    BY <2>0, <2>2 DEF Unlink, Versions
  <2>. QED BY <2>1, <2>2
<1>3. TypeInv'
  BY <1>p, <1>1, <1>2 DEF TypeInv, TypeOK
<1>4. HoldInv'
  BY <1>p, <1>1, ThreadsStay, HoldSame
<1>5. AliveInv' /\ CloseInv'
  BY <1>p, <1>1 DEF AliveInv, CloseInv, F, At, Fp
<1>6. FloorInv'
  BY <1>p, <1>1, <1>2, <1>3, ThreadsStay, FloorKept
<1>. QED BY <1>3, <1>4, <1>5, <1>6 DEF IInv, HoldInv
-----------------------------------------------------------------------------
(* The steps of a call. *)

(* A call moves on with the handles it has; no handle is opened or closed. *)
LEMMA CallMoves ==
  ASSUME IInv, NEW t \in Threads, NEW x \in ThreadRec, CallShape(x),
         thread' = [thread EXCEPT ![t] = x], x.held = thread[t].held,
         thread[t].held # <<>> => x.frame = thread[t].frame,
         x.frame = Null \/ x.frame = thread[t].frame
           \/ (x.frame \in Frames /\ frame[x.frame].alive),
         path' = path, there' = there, file' = file, count' = count,
         frame' \in [Frames -> FrameRec],
         \A f \in Frames : /\ frame'[f].fp = frame[f].fp /\ frame'[f].refs = frame[f].refs
                           /\ frame'[f].alive = frame[f].alive,
         FloorOf(t)', At(t, "close")' => Fp(t)' # frame'[F(t)'].fp
  PROVE  IInv'
<1>p. TypeInv /\ AliveInv /\ HoldInv /\ CloseInv /\ FloorInv /\ HandlesLive
  BY DEF IInv, HoldInv
<1>1. /\ thread' \in [Threads -> ThreadRec] /\ thread'[t] = x
      /\ \A u \in Threads \ {t} : thread'[u] = thread[u]
      /\ \A u \in Threads : CallShape(thread'[u])
  BY <1>p, ThreadTyped
<1>2. TypeInv'
  BY <1>p, <1>1 DEF TypeInv, TypeOK, ThreadRec, FrameRec
<1>3. \A u \in Threads : Keeps(u)
  <2>1. \A i \in DOMAIN thread[t].held : thread[t].held # <<>>
    OBVIOUS
  <2>. QED BY <1>1, <2>1 DEF Keeps
<1>4. HoldInv'
  BY <1>p, <1>3, HoldSame
<1>5. \A u \in Threads : \/ F(u)' = Null \/ F(u)' = F(u)
                         \/ F(u)' \in Frames /\ frame[F(u)'].alive
  BY <1>1 DEF F
<1>6. AliveInv'
  BY <1>p, <1>5, AliveKept
<1>7. CloseInv'
  BY <1>p, <1>1, CloseKept
<1>8. FloorInv'
  <2>1. \A g \in Frames : path'[g] >= path[g]
    BY <1>p DEF TypeInv, TypeOK, Versions
  <2>. QED BY <1>p, <1>1, <1>2, <2>1, FloorKept
<1>. QED BY <1>2, <1>4, <1>6, <1>7, <1>8 DEF IInv, HoldInv

(* Start: the frame a call begins with is alive. *)
LEMMA StartStep ==
  ASSUME IInv, NEW t \in Threads, NEW f \in Frames, NEW call \in {"header", "block", "load"},
         Start(t, call, f)
  PROVE  IInv'
<1> DEFINE x == [Idle EXCEPT !.frame = f, !.call = call,
                    !.pc = IF call = "header" THEN "revalidate" ELSE "acquire"]
<1>p. TypeInv
  BY DEF IInv
<1>0. /\ At(t, "idle") /\ frame[f].alive /\ thread' = [thread EXCEPT ![t] = x]
      /\ UNCHANGED <<path, there, frame, count, file>>
  BY DEF Start
<1>1. Idle \in ThreadRec /\ Idle.held = <<>> /\ Idle.floor = Closed
  BY IdleShape
<1>2. /\ x.frame = f /\ x.call = call /\ x.held = <<>> /\ x.floor = Closed
      /\ x.pc \in {"revalidate", "acquire"}
  BY <1>1 DEF ThreadRec
<1>3. x \in ThreadRec
  BY <1>1 DEF ThreadRec
<1> HIDE DEF x
<1>4. CallShape(x)
  <2>1. Len(x.held) = 0 /\ f # Null
    BY <1>2, EmptySeq, ReaderAssumption
  <2>. QED BY <1>2, <2>1 DEF CallShape
<1>5. thread[t].held = <<>>
  BY <1>p, <1>0 DEF TypeInv, CallShape, At
<1>6. thread'[t] = x
  BY <1>p, <1>0, <1>3, ThreadTyped
<1>7. FloorOf(t)'
  <2>1. F(t)' = f /\ thread'[t].floor = -1 /\ ~At(t, "read")' /\ path'[f] >= -1
    BY <1>p, <1>0, <1>2, <1>6 DEF F, At, Closed, TypeInv, TypeOK, Versions
  <2>2. frame'[f].fp # Null => file'[frame'[f].fp] >= -1
    <3>1. frame[f].fp # Null => file[frame[f].fp] \in Versions \cup {Closed}
      BY <1>p DEF TypeInv, TypeOK
    <3>2. \A v \in Versions \cup {Closed} : v >= -1
      BY DEF Versions, Closed
    <3>. QED BY <1>0, <3>1, <3>2
  <2>. QED BY <2>1, <2>2 DEF FloorOf
<1>8. ~At(t, "close")'
  BY <1>2, <1>6 DEF At
<1>9. frame \in [Frames -> FrameRec]
  BY <1>p DEF TypeInv, TypeOK, FrameRec
<1>. QED BY <1>0, <1>2, <1>3, <1>4, <1>5, <1>7, <1>8, <1>9, CallMoves

(* LoadLoop, Read, AcquireFails and AcquireUncached only move the call on, *)
(* and so does Release of a private handle.                                *)
LEMMA MoveStep ==
  ASSUME IInv, NEW t \in Threads,
         \/ LoadLoop(t) \/ Read(t) \/ AcquireFails(t) \/ AcquireUncached(t)
         \/ Release(t) /\ Fp(t) # frame[F(t)].fp
  PROVE  IInv'
<1>p. TypeInv /\ FloorOf(t)
  BY DEF IInv, FloorInv
<1>t. thread[t] \in ThreadRec /\ frame \in [Frames -> FrameRec]
  BY <1>p DEF TypeInv, TypeOK, ThreadRec, FrameRec
<1>1. PICK pc : /\ thread' = [thread EXCEPT ![t].pc = pc]
                /\ \/ At(t, "loop") /\ pc \in {"revalidate", "release"}
                   \/ At(t, "acquire") /\ pc = "open" /\ frame[F(t)].fp = Null
                   \/ At(t, "read") /\ pc = "release"
                   \/ At(t, "release") /\ pc = "close" /\ Fp(t) # frame[F(t)].fp
  BY DEF LoadLoop, Read, AcquireFails, AcquireUncached, Release
<1> DEFINE x == [thread[t] EXCEPT !.pc = pc]
<1>2. path' = path /\ there' = there /\ file' = file /\ count' = count
  BY DEF LoadLoop, Read, AcquireFails, AcquireUncached, Release
<1>3. x = Moved(t, pc, thread[t].floor) /\ thread[t].floor \in Versions \cup {Closed}
  BY <1>t DEF ThreadRec, Moved
<1>4. /\ x \in ThreadRec /\ CallShape(x)
      /\ x.pc = pc /\ x.frame = thread[t].frame /\ x.held = thread[t].held
      /\ x.floor = thread[t].floor /\ thread[t].frame \in Frames
  <2> HIDE DEF x
  <2>1. \/ At(t, "loop") /\ pc \in {"revalidate", "release"}
        \/ At(t, "acquire") /\ pc = "open"
        \/ At(t, "read") /\ pc = "release"
        \/ At(t, "release") /\ pc = "close"
    BY <1>1
  <2>. QED BY <1>p, <1>3, <2>1, MoveShape
<1>5. thread' = [thread EXCEPT ![t] = x]
  BY <1>1
<1> HIDE DEF x
<1>6. thread'[t] = x
  BY <1>p, <1>4, <1>5, ThreadTyped
<1>7. /\ frame' \in [Frames -> FrameRec]
      /\ \A f \in Frames : /\ frame'[f].fp = frame[f].fp /\ frame'[f].refs = frame[f].refs
                           /\ frame'[f].alive = frame[f].alive
  <2>1. CASE frame' = frame
    BY <1>t, <2>1
  <2>2. CASE frame' = [frame EXCEPT ![F(t)].nocache = TRUE]
    <3>1. F(t) \in Frames
      BY <1>4 DEF F
    <3>2. TRUE \in BOOLEAN
      BY Zenon
    <3>3. [frame[F(t)] EXCEPT !.nocache = TRUE] \in FrameRec
      BY <1>t, <3>1, <3>2 DEF FrameRec
    <3>4. frame' \in [Frames -> FrameRec]
      BY <1>t, <2>2, <3>1, <3>3
    <3>. QED BY <1>t, <2>2, <3>1, <3>4 DEF FrameRec
  <2>. QED BY <2>1, <2>2 DEF LoadLoop, Read, AcquireFails, AcquireUncached, Release
<1>8. FloorOf(t)'
  <2>1. thread'[t].pc \in {"acquire", "open"} => frame'[F(t)'].fp = Null
    BY <1>1, <1>4, <1>6, <1>7 DEF F, At
  <2>2. thread'[t].pc \notin {"read"}
    BY <1>1, <1>4, <1>6
  <2>. QED BY <1>p, <1>2, <1>4, <1>6, <2>1, <2>2, FloorMoved
<1>9. At(t, "close")' => Fp(t)' # frame'[F(t)'].fp
  <2>1. At(t, "close")' => Fp(t) # frame[F(t)].fp
    BY <1>1, <1>4, <1>6 DEF At
  <2>2. Fp(t)' = Fp(t) /\ F(t)' = F(t) /\ F(t) \in Frames
    BY <1>4, <1>6 DEF Fp, F
  <2>. QED BY <1>7, <2>1, <2>2
<1>. QED BY <1>2, <1>4, <1>5, <1>7, <1>8, <1>9, CallMoves

(* frame_reader_revalidate: a stale handle that nobody has is closed. *)
LEMMA RevalidateStep ==
  ASSUME IInv, NEW t \in Threads, Revalidate(t)
  PROVE  IInv'
<1> DEFINE f == F(t)
           floor == IF there[f] /\ frame[f].refs = 0 THEN path[f] ELSE Closed
           x == Moved(t, "acquire", floor)
<1>p. TypeInv /\ AliveInv /\ HoldInv /\ CloseInv /\ FloorInv /\ HandlesLive /\ RefsInv
  BY DEF IInv, HoldInv
<1>t. /\ thread[t] \in ThreadRec /\ frame \in [Frames -> FrameRec]
      /\ path \in [Frames -> Versions] /\ file \in [Handles -> Versions \cup {Closed}]
  BY <1>p DEF TypeInv, TypeOK, ThreadRec, FrameRec
<1>0. At(t, "revalidate") /\ path' = path /\ there' = there
  BY DEF Revalidate
<1>1. f \in Frames /\ frame[f].alive = TRUE
  <2>1. F(t) # Null
    BY <1>p, <1>0 DEF TypeInv, CallShape, At, F
  <2>. QED BY <1>p, <1>t, <2>1 DEF ThreadRec, FrameRec, F, AliveInv
<1>2. floor \in Versions \cup {Closed}
  BY <1>t, <1>1
<1>3. thread' = [thread EXCEPT ![t] = x]
  BY DEF Revalidate, Moved
<1>f. f = F(t)
  OBVIOUS
<1> HIDE DEF x, floor, f
<1>4. /\ x \in ThreadRec /\ CallShape(x)
      /\ x.pc = "acquire" /\ x.frame = thread[t].frame /\ x.held = thread[t].held
      /\ x.floor = floor
  BY <1>p, <1>0, <1>2, MoveShape DEF x
<1>5. /\ thread' \in [Threads -> ThreadRec] /\ thread'[t] = x
      /\ \A u \in Threads \ {t} : thread'[u] = thread[u]
      /\ \A u \in Threads : CallShape(thread'[u])
  BY <1>p, <1>3, <1>4, ThreadTyped
<1>6. \A u \in Threads : Keeps(u) /\ F(u)' = F(u)
  BY <1>4, <1>5 DEF Keeps, F
<1>7. /\ frame' \in [Frames -> FrameRec] /\ file' \in [Handles -> Versions \cup {Closed}]
      /\ count' \in Nat /\ HoldInv'
      /\ \A u \in Threads : \A i \in DOMAIN thread[u].held :
           file'[Held(u, i)] = file[Held(u, i)]
      /\ \A g \in Frames : /\ \/ frame'[g].fp = Null
                              \/ /\ frame'[g].fp = frame[g].fp
                                 /\ frame[g].fp # Null => file'[frame[g].fp] = file[frame[g].fp]
                           /\ frame'[g].alive = frame[g].alive
      /\ Stale(f) /\ frame[f].refs = 0 => frame'[f].fp = Null
      /\ ~Stale(f) => frame' = frame /\ file' = file
  <2>1. CASE Stale(f)
    <3>1. CloseLocked(f, FALSE, TRUE)
      BY <2>1 DEF Revalidate, f
    <3>2. Closes(f, FALSE) => Sharers(f, 1) = {} /\ Sharers(f, 2) = {}
      BY <1>p, <1>1, NoSharers DEF Closes
    <3>3. TRUE \in BOOLEAN
      BY Zenon
    <3>4. /\ frame' \in [Frames -> FrameRec] /\ file' \in [Handles -> Versions \cup {Closed}]
          /\ count' \in Nat /\ Others(f) /\ frame'[f].alive = TRUE
          /\ Closes(f, FALSE) => frame'[f].fp = Null
      BY <1>p, <1>1, <3>1, <3>3, CloseLockedFacts
    <3>5. /\ HoldInv'
          /\ \A u \in Threads : \A i \in DOMAIN thread[u].held :
               file'[Held(u, i)] = file[Held(u, i)]
          /\ \A g \in Frames : \/ frame'[g].fp = Null
                               \/ /\ frame'[g].fp = frame[g].fp
                                  /\ frame[g].fp # Null => file'[frame[g].fp] = file[frame[g].fp]
      BY <1>p, <1>1, <1>6, <3>1, <3>2, <3>3, CloseLockedHold
    <3>6. frame[f].refs = 0 => Closes(f, FALSE)
      BY <2>1 DEF Stale, Closes
    <3>7. \A g \in Frames : frame'[g].alive = frame[g].alive
      BY <1>1, <3>4 DEF Others
    <3>. QED BY <2>1, <3>4, <3>5, <3>6, <3>7
  <2>2. CASE ~Stale(f)
    <3>1. UNCHANGED <<file, frame, count>>
      BY <2>2 DEF Revalidate, f
    <3>2. HoldInv'
      BY <1>p, <1>6, <3>1, HoldSame
    <3>3. count' \in Nat
      BY <1>p, <3>1 DEF TypeInv, TypeOK
    <3>. QED BY <1>t, <2>2, <3>1, <3>2, <3>3
  <2>. QED BY <2>1, <2>2
<1>8. TypeInv'
  BY <1>p, <1>0, <1>5, <1>7 DEF TypeInv, TypeOK, ThreadRec, FrameRec
<1>9. AliveInv'
  BY <1>p, <1>6, <1>7, AliveKept
<1>10. CloseInv'
  <2>1. ~At(t, "close")'
    BY <1>4, <1>5 DEF At
  <2>. QED BY <1>p, <1>5, <1>7, <2>1, CloseKept
<1>11. FloorOf(t)'
  <2>1. F(t)' = f /\ thread'[t].floor = floor /\ thread'[t].pc = "acquire"
    BY <1>4, <1>5, <1>f DEF F
  <2>2. path[f] \in Int /\ path[f] >= 0
    BY <1>1, <1>t DEF Versions
  <2>3. floor <= path'[f]
    BY <1>0, <2>2 DEF floor, Closed
  <2>4. ASSUME frame'[f].fp # Null PROVE file'[frame'[f].fp] >= floor
    <3>1. frame'[f].fp \in Handles
      BY <1>1, <1>7, <2>4 DEF FrameRec
    <3>2. file'[frame'[f].fp] \in Versions \cup {Closed}
      BY <1>7, <3>1
    <3>3. \A v \in Versions \cup {Closed} : v >= -1
      BY DEF Versions, Closed
    <3>4. CASE there[f] /\ frame[f].refs = 0
      <4>1. ~Stale(f) /\ floor = path[f]
        BY <1>7, <2>4, <3>4 DEF floor
      <4>2. file'[frame'[f].fp] = path[f]
        BY <1>7, <2>4, <3>4, <4>1 DEF Stale
      <4>. QED BY <2>2, <4>1, <4>2
    <3>5. CASE ~(there[f] /\ frame[f].refs = 0)
      <4>1. floor = -1
        BY <3>5 DEF floor, Closed
      <4>. QED BY <3>2, <3>3, <4>1
    <3>. QED BY <3>4, <3>5
  <2>. QED BY <2>1, <2>3, <2>4 DEF FloorOf, At
<1>12. FloorInv'
  <2>1. \A g \in Frames : path'[g] >= path[g]
    BY <1>t, <1>0 DEF Versions
  <2>. QED BY <1>p, <1>5, <1>7, <1>8, <1>11, <2>1, FloorKept
<1>. QED BY <1>7, <1>8, <1>9, <1>10, <1>12 DEF IInv, HoldInv

(* A call was given handle h; frames and files are as the step left them. *)
LEMMA CallHolds ==
  ASSUME IInv, NEW t \in Threads, thread[t].pc \in {"acquire", "open"}, NEW h \in Handles,
         thread' = [thread EXCEPT ![t] = Holding(t, h)],
         path' = path, there' = there, count' \in Nat, frame' \in [Frames -> FrameRec],
         file' \in [Handles -> Versions \cup {Closed}],
         \A f \in Frames : /\ frame'[f].alive = frame[f].alive
                           /\ \/ frame'[f].fp = frame[f].fp
                              \/ f = F(t) /\ file[h] = Closed /\ frame'[f].fp = h,
         \/ file' = file /\ h = frame[F(t)].fp /\ h # Null
         \/ file[h] = Closed /\ file' = [file EXCEPT ![h] = path[F(t)]],
         Gains(t, Len(thread[t].held) + 1, h) => HoldInv'
  PROVE  IInv'
<1>p. TypeInv /\ AliveInv /\ HoldInv /\ CloseInv /\ FloorInv /\ HandlesLive /\ FloorOf(t)
  BY DEF IInv, HoldInv, FloorInv
<1>t. /\ thread \in [Threads -> ThreadRec] /\ frame \in [Frames -> FrameRec]
      /\ path \in [Frames -> Versions] /\ file \in [Handles -> Versions \cup {Closed}]
  BY <1>p DEF TypeInv, TypeOK, ThreadRec, FrameRec
<1>1. thread'[t] = Holding(t, h)
  BY <1>t
<1>2. /\ Holding(t, h) \in ThreadRec /\ CallShape(Holding(t, h))
      /\ Gains(t, Len(thread[t].held) + 1, h)
      /\ thread'[t].floor = thread[t].floor /\ Last(thread'[t].held) = h
      /\ thread'[t].pc \in {"loop", "read"}
  BY <1>p, <1>1, HoldingShape
<1>3. /\ thread' \in [Threads -> ThreadRec]
      /\ \A u \in Threads \ {t} : thread'[u] = thread[u]
      /\ \A u \in Threads : CallShape(thread'[u])
  BY <1>p, <1>2, ThreadTyped
<1>4. F(t)' = F(t) /\ F(t) \in Frames
  BY <1>p, <1>t, <1>2 DEF Gains, F, TypeInv, CallShape, ThreadRec
<1>5. TypeInv'
  BY <1>p, <1>3 DEF TypeInv, TypeOK, ThreadRec, FrameRec
<1>6. HoldInv'
  BY <1>2
<1>7. AliveInv'
  <2>1. \A u \in Threads : F(u)' = F(u)
    BY <1>3, <1>4 DEF F
  <2>. QED BY <1>p, <2>1, AliveKept
<1>8. CloseInv'
  <2>1. ~At(t, "close")'
    BY <1>2 DEF At
  <2>. QED BY <1>p, <1>3, <2>1, CloseKept
<1>9. FloorOf(t)'
  <2>0. Fp(t)' = h
    BY <1>2 DEF Fp
  <2>1. thread[t].floor <= path[F(t)] /\ thread[t].floor \in Int /\ path[F(t)] \in Int
    BY <1>p, <1>t, <1>4, ReaderAssumption DEF FloorOf, ThreadRec, Versions, Closed
  <2>2. file'[h] >= thread[t].floor
    <3>1. CASE file' = file /\ h = frame[F(t)].fp /\ h # Null
      BY <1>p, <3>1 DEF FloorOf
    <3>2. CASE file' = [file EXCEPT ![h] = path[F(t)]]
      <4>1. file'[h] = path[F(t)]
        BY <1>t, <3>2
      <4>. QED BY <2>1, <4>1
    <3>. QED BY <3>1, <3>2
  <2>. QED BY <1>2, <1>4, <2>0, <2>1, <2>2 DEF FloorOf, At
<1>10. \A d \in Handles : file[d] # Closed => file'[d] = file[d]
  BY <1>t
<1>11. FloorInv'
  <2>1. \A g \in Frames : path'[g] >= path[g]
    BY <1>t DEF Versions
  <2>2. ASSUME NEW u \in Threads, NEW i \in DOMAIN thread[u].held
        PROVE  file'[Held(u, i)] = file[Held(u, i)]
    <3>1. Held(u, i) \in Handles
      BY <1>p, HeldType
    <3>2. file[Held(u, i)] # Closed
      BY <1>p DEF HandlesLive, Held
    <3>. QED BY <1>10, <3>1, <3>2
  <2>3. ASSUME NEW g \in Frames
        PROVE  \/ /\ frame'[g].fp = frame[g].fp
                  /\ frame[g].fp # Null => file'[frame[g].fp] = file[frame[g].fp]
               \/ file'[frame'[g].fp] = path[g]
    <3>1. CASE frame'[g].fp = frame[g].fp
      <4>1. frame[g].fp \in Handles \cup {Null}
        BY <1>t DEF FrameRec
      <4>2. frame[g].fp # Null => file[frame[g].fp] # Closed
        BY <1>p DEF HandlesLive
      <4>. QED BY <1>10, <3>1, <4>1, <4>2
    <3>2. CASE g = F(t) /\ file[h] = Closed /\ frame'[g].fp = h
      <4>1. file' = [file EXCEPT ![h] = path[F(t)]]
        BY <1>p, <3>2 DEF HandlesLive
      <4>. QED BY <1>t, <3>2, <4>1
    <3>. QED BY <3>1, <3>2
  <2>. QED BY <1>p, <1>3, <1>5, <1>9, <2>1, <2>2, <2>3, FloorKept
<1>. QED BY <1>5, <1>6, <1>7, <1>8, <1>11 DEF IInv, HoldInv

(* frame_reader_acquire shares the cached handle, or opens one to cache. *)
LEMMA AcquireStep ==
  ASSUME IInv, NEW t \in Threads, AcquireCached(t) \/ AcquireFirst(t)
  PROVE  IInv'
<1> DEFINE f == F(t)
           n == Len(thread[t].held) + 1
<1>p. TypeInv /\ HoldInv
  BY DEF IInv, HoldInv
<1>t. /\ thread \in [Threads -> ThreadRec] /\ frame \in [Frames -> FrameRec]
      /\ path \in [Frames -> Versions] /\ file \in [Handles -> Versions \cup {Closed}]
      /\ count \in Nat
  BY <1>p DEF TypeInv, TypeOK, ThreadRec, FrameRec
<1>0. At(t, "acquire") /\ path' = path /\ there' = there
  BY DEF AcquireCached, AcquireFirst
<1>1. f \in Frames /\ frame[f] \in FrameRec
  BY <1>p, <1>t, <1>0 DEF TypeInv, CallShape, ThreadRec, At, F
<1>f. f = F(t) /\ thread[t].pc \in {"acquire", "open"}
  BY <1>0 DEF At
<1>2. CASE AcquireCached(t)
  <2> DEFINE h == frame[f].fp
  <2>1. /\ h # Null /\ frame' = [frame EXCEPT ![f].refs = @ + 1]
        /\ thread' = [thread EXCEPT ![t] = Holding(t, h)]
        /\ count' = count /\ file' = file
    BY <1>2 DEF AcquireCached
  <2>2. [frame[f] EXCEPT !.refs = @ + 1] \in FrameRec /\ h \in Handles
    BY <1>1, <2>1 DEF FrameRec
  <2>3. frame' \in [Frames -> FrameRec] /\ Others(f)
        /\ frame'[f] = [frame[f] EXCEPT !.refs = @ + 1]
    BY <1>t, <1>1, <2>1, <2>2 DEF Others
  <2>4. /\ frame'[f].fp = frame[f].fp /\ frame'[f].refs = frame[f].refs + 1
        /\ frame'[f].alive = frame[f].alive
    BY <1>1, <2>3 DEF FrameRec
  <2>5. \A g \in Frames : frame'[g].fp = frame[g].fp /\ frame'[g].alive = frame[g].alive
    BY <2>3, <2>4 DEF Others
  <2>6. \A u \in Threads \ {t} : thread'[u] = thread[u]
    BY <1>t, <2>1
  <2> HIDE DEF f, n
  <2>7. Gains(t, n, h) => HoldInv'
    BY <1>p, <1>1, <1>f, <2>1, <2>3, <2>4, <2>6, HoldCached
  <2>. QED BY <1>t, <1>0, <1>f, <2>1, <2>2, <2>3, <2>5, <2>7, CallHolds DEF n
<1>3. CASE AcquireFirst(t)
  <2>1. PICK h \in Openable(f) :
          /\ file' = [file EXCEPT ![h] = path[f]]
          /\ frame' = [frame EXCEPT ![f].fp = h, ![f].refs = @ + 1]
          /\ thread' = [thread EXCEPT ![t] = Holding(t, h)]
    BY <1>3 DEF AcquireFirst
  <2>2. /\ frame[f].fp = Null /\ count < CacheMax /\ count' = count + 1
        /\ h \in Handles /\ file[h] = Closed
    BY <1>3, <2>1 DEF AcquireFirst, CacheClaim, Openable
  <2>3. [frame[f] EXCEPT !.fp = h, !.refs = @ + 1] \in FrameRec
    <3>1. frame[f].refs + 1 \in Nat
      BY <1>1 DEF FrameRec
    <3>. QED BY <1>1, <2>2, <3>1 DEF FrameRec
  <2>4. frame' \in [Frames -> FrameRec] /\ Others(f)
        /\ frame'[f] = [frame[f] EXCEPT !.fp = h, !.refs = @ + 1]
    BY <1>t, <1>1, <2>1, <2>3 DEF Others
  <2>5. /\ frame'[f].fp = h /\ frame'[f].refs = frame[f].refs + 1
        /\ frame'[f].alive = frame[f].alive
    BY <1>1, <2>4 DEF FrameRec
  <2>6. \A g \in Frames : /\ frame'[g].alive = frame[g].alive
                          /\ \/ frame'[g].fp = frame[g].fp
                             \/ g = f /\ frame'[g].fp = h
    BY <2>4, <2>5 DEF Others
  <2>7. /\ path[f] \in Versions /\ file' \in [Handles -> Versions \cup {Closed}]
        /\ \A u \in Threads \ {t} : thread'[u] = thread[u]
    BY <1>t, <1>1, <2>1
  <2>8. count' \in Nat
    BY <1>t, <2>2
  <2> HIDE DEF f, n
  <2>9. Gains(t, n, h) => HoldInv'
    BY <1>p, <1>1, <1>f, <2>1, <2>2, <2>4, <2>5, <2>7, HoldNew
  <2>. QED BY ZenonT(30), <1>0, <1>f, <2>1, <2>2, <2>4, <2>6, <2>7, <2>8, <2>9, CallHolds DEF n
<1>. QED BY <1>2, <1>3

(* The private handle: opened, or refused. *)
LEMMA OpenStep ==
  ASSUME IInv, NEW t \in Threads, OpenPrivate(t)
  PROVE  IInv'
<1> DEFINE f == F(t)
           n == Len(thread[t].held) + 1
<1>p. TypeInv /\ HoldInv /\ FloorOf(t)
  BY DEF IInv, HoldInv, FloorInv
<1>t. /\ thread \in [Threads -> ThreadRec] /\ frame \in [Frames -> FrameRec]
      /\ path \in [Frames -> Versions] /\ file \in [Handles -> Versions \cup {Closed}]
      /\ count \in Nat
  BY <1>p DEF TypeInv, TypeOK, ThreadRec, FrameRec
<1>0. At(t, "open") /\ path' = path /\ there' = there /\ frame' = frame /\ count' = count
  BY DEF OpenPrivate
<1>1. f \in Frames
  BY <1>p, <1>t, <1>0 DEF TypeInv, CallShape, ThreadRec, At, F
<1>f. f = F(t) /\ thread[t].pc \in {"acquire", "open"} /\ Others(f)
  BY <1>0 DEF At, Others
<1>2. CASE \E h \in Openable(f) :
             /\ file' = [file EXCEPT ![h] = path[f]]
             /\ thread' = [thread EXCEPT ![t] = Holding(t, h)]
  <2>1. PICK h \in Openable(f) : /\ file' = [file EXCEPT ![h] = path[f]]
                                 /\ thread' = [thread EXCEPT ![t] = Holding(t, h)]
    BY <1>2
  <2>2. h \in Handles /\ file[h] = Closed
    BY <2>1 DEF Openable
  <2>3. /\ path[f] \in Versions /\ file' \in [Handles -> Versions \cup {Closed}]
        /\ \A u \in Threads \ {t} : thread'[u] = thread[u]
    BY <1>t, <1>1, <2>1
  <2> HIDE DEF f, n
  <2>4. Gains(t, n, h) => HoldInv'
    BY <1>p, <1>0, <1>1, <1>f, <2>1, <2>2, <2>3, HoldNew
  <2>. QED BY <1>t, <1>0, <1>f, <2>1, <2>2, <2>3, <2>4, CallHolds DEF n
<1>3. CASE thread' = [thread EXCEPT ![t] = Refused(t)] /\ file' = file
  <2>1. thread'[t] = Refused(t) /\ thread[t].pc = "open"
    BY <1>t, <1>0, <1>3 DEF At
  <2>2. /\ Refused(t) \in ThreadRec /\ CallShape(Refused(t)) /\ Keeps(t)
        /\ thread'[t].floor \in {Closed, thread[t].floor}
        /\ thread'[t].pc \in {"idle", "release"}
        /\ thread'[t].frame \in {Null, thread[t].frame}
    BY <1>p, <2>1, RefusedShape
  <2>3. Refused(t).held = thread[t].held
        /\ (thread[t].held # <<>> => Refused(t).frame = thread[t].frame)
    BY <1>t, IdleShape DEF Refused, ThreadRec
  <2>4. FloorOf(t)'
    BY <1>p, <1>0, <2>2, FloorMoved
  <2>5. ~At(t, "close")'
    BY <2>2 DEF At
  <2>. QED BY <1>t, <1>0, <1>3, <2>1, <2>2, <2>3, <2>4, <2>5, CallMoves
<1>. QED BY <1>2, <1>3 DEF OpenPrivate

(* A call gave its last handle back. *)
LEMMA CallDrops ==
  ASSUME IInv, NEW t \in Threads, thread[t].pc \in {"release", "close"},
         thread' = [thread EXCEPT ![t] = GivenBack(t)],
         path' = path, there' = there, count' = count, frame' \in [Frames -> FrameRec],
         file' \in [Handles -> Versions \cup {Closed}],
         \A f \in Frames : frame'[f].alive = frame[f].alive /\ frame'[f].fp = frame[f].fp,
         \/ file' = file
         \/ Fp(t) # frame[F(t)].fp /\ file' = [file EXCEPT ![Fp(t)] = Closed],
         Drops(t, Len(thread[t].held)) => HoldInv'
  PROVE  IInv'
<1>p. TypeInv /\ AliveInv /\ HoldInv /\ CloseInv /\ FloorInv /\ HandlesLive /\ FloorOf(t)
      /\ OwnInv
  BY DEF IInv, HoldInv, FloorInv
<1>t. /\ thread \in [Threads -> ThreadRec] /\ frame \in [Frames -> FrameRec]
      /\ path \in [Frames -> Versions] /\ file \in [Handles -> Versions \cup {Closed}]
  BY <1>p DEF TypeInv, TypeOK, ThreadRec, FrameRec
<1>1. thread'[t] = GivenBack(t)
  BY <1>t
<1>2. /\ GivenBack(t) \in ThreadRec /\ CallShape(GivenBack(t))
      /\ Drops(t, Len(thread[t].held)) /\ thread'[t].floor = Closed
      /\ thread'[t].pc \in {"idle", "loop"} /\ thread'[t].frame \in {Null, thread[t].frame}
  BY <1>p, <1>1, GivenBackShape
<1>3. /\ thread' \in [Threads -> ThreadRec]
      /\ \A u \in Threads \ {t} : thread'[u] = thread[u]
      /\ \A u \in Threads : CallShape(thread'[u])
  BY <1>p, <1>2, ThreadTyped
<1>5. TypeInv'
  BY <1>p, <1>3 DEF TypeInv, TypeOK, ThreadRec, FrameRec
<1>6. HoldInv'
  BY <1>2
<1>7. AliveInv'
  <2>1. \A u \in Threads : F(u)' = F(u) \/ F(u)' = Null
    BY <1>2, <1>3 DEF F
  <2>. QED BY <1>p, <2>1, AliveKept
<1>8. CloseInv'
  <2>1. ~At(t, "close")'
    BY <1>2 DEF At
  <2>. QED BY <1>p, <1>3, <2>1, CloseKept
<1>9. FloorOf(t)'
  BY <1>p, <1>2, FloorMoved
<1>10. /\ Len(thread[t].held) \in DOMAIN thread[t].held
       /\ Fp(t) = Held(t, Len(thread[t].held)) /\ Fp(t) \in Handles
  BY <1>p, LastHeld
<1>11. ASSUME NEW u \in Threads \ {t}, NEW i \in DOMAIN thread[u].held
       PROVE  file'[Held(u, i)] = file[Held(u, i)]
  <2>1. Held(u, i) \in Handles
    BY <1>p, HeldType
  <2>2. CASE file' = file
    BY <2>2
  <2>3. CASE Fp(t) # frame[F(t)].fp /\ file' = [file EXCEPT ![Fp(t)] = Closed]
    <3>1. Held(u, i) # Fp(t)
      BY <1>p, <1>10, <2>3 DEF OwnInv
    <3>. QED BY <1>t, <2>1, <2>3, <3>1
  <2>. QED BY <2>2, <2>3
<1>12. ASSUME NEW g \in Frames, frame[g].fp # Null
       PROVE  file'[frame[g].fp] = file[frame[g].fp]
  <2>1. frame[g].fp \in Handles
    BY <1>t, <1>12 DEF FrameRec
  <2>2. CASE file' = file
    BY <2>2
  <2>3. CASE Fp(t) # frame[F(t)].fp /\ file' = [file EXCEPT ![Fp(t)] = Closed]
    <3>1. frame[g].fp # Fp(t)
      BY <1>p, <1>10, <2>3 DEF OwnInv
    <3>. QED BY <1>t, <2>1, <2>3, <3>1
  <2>. QED BY <2>2, <2>3
<1>13. FloorInv'
  <2>1. \A g \in Frames : path'[g] >= path[g]
    BY <1>t DEF Versions
  <2>. QED BY <1>p, <1>3, <1>5, <1>9, <1>11, <1>12, <2>1, FloorKept
<1>. QED BY <1>5, <1>6, <1>7, <1>8, <1>13 DEF IInv, HoldInv

(* frame_reader_release: of the cached handle, and the close of another. *)
LEMMA ReleaseStep ==
  ASSUME IInv, NEW t \in Threads,
         (Release(t) /\ Fp(t) = frame[F(t)].fp) \/ ClosePrivate(t)
  PROVE  IInv'
<1> DEFINE f == F(t)
           n == Len(thread[t].held)
<1>p. TypeInv /\ HoldInv /\ AliveInv /\ CloseInv
  BY DEF IInv, HoldInv
<1>t. /\ thread \in [Threads -> ThreadRec] /\ frame \in [Frames -> FrameRec]
      /\ file \in [Handles -> Versions \cup {Closed}] /\ count \in Nat
  BY <1>p DEF TypeInv, TypeOK, ThreadRec, FrameRec
<1>0. thread[t].pc \in {"release", "close"}
  BY DEF Release, ClosePrivate, At
<1>1. /\ thread' = [thread EXCEPT ![t] = GivenBack(t)]
      /\ path' = path /\ there' = there /\ count' = count
  BY DEF Release, ClosePrivate
<1>2. /\ n \in DOMAIN thread[t].held /\ Fp(t) = Held(t, n)
      /\ Fp(t) \in Handles /\ Fp(t) # Null /\ f \in Frames
  BY <1>p, <1>0, LastHeld
<1>3. \A u \in Threads \ {t} : thread'[u] = thread[u]
  BY <1>t, <1>1
<1>f. f = F(t)
  OBVIOUS
<1>4. CASE Release(t) /\ Fp(t) = frame[F(t)].fp
  <2>1. frame' = [frame EXCEPT ![f].refs = @ - 1] /\ file' = file
    BY <1>4 DEF Release
  <2>2. frame[f] \in FrameRec
    BY <1>t, <1>2
  <2>3. Others(f) /\ frame'[f] = [frame[f] EXCEPT !.refs = @ - 1]
    BY <1>t, <1>2, <2>1 DEF Others
  <2>4. /\ frame'[f].fp = frame[f].fp /\ frame'[f].refs = frame[f].refs - 1
        /\ frame'[f].alive = frame[f].alive
    BY <2>2, <2>3 DEF FrameRec
  <2>5. thread'[t] = GivenBack(t)
    BY <1>t, <1>1
  <2>6. Drops(t, n)
    BY <1>p, <1>0, <2>5, GivenBackShape
  <2> HIDE DEF f, n
  <2>7. HoldInv' /\ frame[f].refs >= 1
    BY <1>p, <1>1, <1>2, <1>3, <1>4, <1>f, <2>1, <2>3, <2>4, <2>6, HoldDropCached
  <2>8. frame[f].refs - 1 \in Nat
    BY <2>2, <2>7 DEF FrameRec
  <2>9. [frame[f] EXCEPT !.refs = @ - 1] \in FrameRec
    BY <2>2, <2>8 DEF FrameRec
  <2>10. frame' \in [Frames -> FrameRec]
    BY <1>t, <1>2, <2>1, <2>9
  <2>11. \A g \in Frames : frame'[g].alive = frame[g].alive /\ frame'[g].fp = frame[g].fp
    BY <2>3, <2>4 DEF Others
  <2>. QED BY <1>t, <1>0, <1>1, <2>1, <2>7, <2>10, <2>11, CallDrops
<1>5. CASE ClosePrivate(t)
  <2>1. /\ file' = [file EXCEPT ![Fp(t)] = Closed] /\ frame' = frame
        /\ Fp(t) # frame[F(t)].fp
    BY <1>p, <1>5 DEF ClosePrivate, CloseInv
  <2>2. file' \in [Handles -> Versions \cup {Closed}]
    BY <1>t, <1>2, <2>1
  <2> HIDE DEF n
  <2>3. Drops(t, n) => HoldInv'
    BY <1>p, <1>1, <1>2, <1>3, <2>1, HoldDropPrivate
  <2>. QED BY <1>t, <1>0, <1>1, <2>1, <2>2, <2>3, CallDrops DEF n
<1>. QED BY <1>4, <1>5
-----------------------------------------------------------------------------
(* The theorems. *)

(* Where the program starts. *)
LEMMA IInvInit == Init => IInv
<1> SUFFICES ASSUME Init PROVE IInv
  OBVIOUS
<1>1. /\ path = [f \in Frames |-> 0] /\ there = [f \in Frames |-> TRUE]
      /\ frame \in [Frames -> Fresh] /\ count = 0
      /\ file = [h \in Handles |-> Closed] /\ thread = [t \in Threads |-> Idle]
  BY DEF Init
<1>2. \A t \in Threads : thread[t] = Idle /\ thread[t].held = <<>> /\ F(t) = Null
                         /\ thread[t].pc = "idle"
  BY <1>1, IdleShape DEF F
<1>3. \A f \in Frames : frame[f] \in FrameRec /\ frame[f].fp = Null /\ frame[f].refs = 0
  <2> SUFFICES ASSUME NEW f \in Frames
               PROVE  frame[f] \in FrameRec /\ frame[f].fp = Null /\ frame[f].refs = 0
    OBVIOUS
  <2>1. PICK other \in BOOLEAN :
          frame[f] = [alive |-> TRUE, fp |-> Null, refs |-> 0, nocache |-> other]
    BY <1>1 DEF Fresh
  <2>2. TRUE \in BOOLEAN
    BY Zenon
  <2>. QED BY <2>1, <2>2 DEF FrameRec
<1>4. TypeInv
  <2>1. 0 \in Versions
    BY ReaderAssumption DEF Versions
  <2>2. frame \in [Frames -> FrameRec] /\ thread \in [Threads -> ThreadRec]
    BY <1>1, <1>3, IdleShape
  <2>3. path \in [Frames -> Versions] /\ file \in [Handles -> Versions \cup {Closed}]
        /\ count \in Nat
    BY <1>1, <2>1
  <2>4. there \in [Frames -> BOOLEAN]
    BY <1>1
  <2>. QED BY <1>2, <2>2, <2>3, <2>4, IdleShape DEF TypeInv, TypeOK, FrameRec, ThreadRec
<1>5. \A t \in Threads : DOMAIN thread[t].held = {}
  BY <1>2
<1>6. AliveInv /\ CloseInv /\ FloorInv
  BY <1>2, <1>3 DEF AliveInv, CloseInv, FloorInv, FloorOf, At
<1>7. OwnInv /\ HandlesLive
  BY <1>3, <1>5 DEF OwnInv, HandlesLive
<1>8. RefsInv
  <2>1. \A f \in Frames : Sharers(f, 1) = {} /\ Sharers(f, 2) = {}
    BY <1>5 DEF Sharers
  <2>. QED BY <1>3, <2>1, FS_EmptySet DEF RefsInv
<1>9. SlotsExact
  <2>1. {f \in Frames : frame[f].fp # Null} = {}
    BY <1>3
  <2>2. 0 <= CacheMax
    BY ReaderAssumption
  <2>. QED BY <1>1, <2>1, <2>2, FS_EmptySet DEF SlotsExact
<1>10. NothingLeaks
  BY <1>1 DEF NothingLeaks
<1>. QED BY <1>4, <1>6, <1>7, <1>8, <1>9, <1>10 DEF IInv

(* Every step keeps the invariant. *)
LEMMA IInvNext == IInv /\ [Next]_vars => IInv'
<1> SUFFICES ASSUME IInv, [Next]_vars PROVE IInv'
  OBVIOUS
<1>1. CASE \E f \in Frames : Alloc(f) \/ Invalidate(f) \/ Free(f) \/ Replace(f) \/ Unlink(f)
  BY <1>1, AllocStep, InvalidateStep, ReplaceStep
<1>2. CASE \E t \in Threads : ThreadStep(t)
  <2>1. PICK t \in Threads : ThreadStep(t)
    BY <1>2
  <2>2. CASE LoadLoop(t) \/ Read(t) \/ AcquireFails(t) \/ AcquireUncached(t)
    BY <2>2, MoveStep
  <2>3. CASE Release(t) \/ ClosePrivate(t)
    BY <2>3, MoveStep, ReleaseStep
  <2>4. CASE Revalidate(t)
    BY <2>4, RevalidateStep
  <2>5. CASE AcquireCached(t) \/ AcquireFirst(t)
    BY <2>5, AcquireStep
  <2>6. CASE OpenPrivate(t)
    BY <2>6, OpenStep
  <2>. QED BY <2>1, <2>2, <2>3, <2>4, <2>5, <2>6 DEF ThreadStep
<1>3. CASE \E t \in Threads, f \in Frames, call \in {"header", "block", "load"} :
             Start(t, call, f)
  BY <1>3, StartStep
<1>4. CASE UNCHANGED vars
  <2>1. TypeInv' /\ AliveInv' /\ OwnInv' /\ CloseInv'
    BY <1>4 DEF IInv, vars, TypeInv, TypeOK, AliveInv, OwnInv, CloseInv, F, Held, At, Fp
  <2>2. \A f \in Frames : \A i : Sharers(f, i)' = Sharers(f, i)
    BY <1>4 DEF vars, Sharers, F, Held
  <2>3. RefsInv'
    BY <1>4, <2>2 DEF IInv, vars, RefsInv
  <2>4. FloorInv'
    BY <1>4 DEF IInv, vars, FloorInv, FloorOf, F, At, Fp
  <2>5. SlotsExact' /\ HandlesLive' /\ NothingLeaks'
    BY <1>4 DEF IInv, vars, SlotsExact, HandlesLive, NothingLeaks
  <2>. QED BY <2>1, <2>3, <2>4, <2>5 DEF IInv
<1>. QED BY <1>1, <1>2, <1>3, <1>4 DEF Next

(* The invariant always holds. *)
LEMMA AllIInv == Spec => []IInv
BY IInvInit, IInvNext, PTL DEF Spec

(* Every variable keeps its type; in particular read_fp_refs never goes    *)
(* below zero, whatever calls release.                                     *)
THEOREM ReaderTypes == Spec => []TypeOK
<1>1. IInv => TypeOK
  BY DEF IInv, TypeInv
<1>. QED BY <1>1, AllIInv, PTL

(* reader_cache_count is the number of frames with a cached handle, and    *)
(* stays within reader_cache_max().                                        *)
THEOREM SlotsAreExact == Spec => []SlotsExact
<1>1. IInv => SlotsExact
  BY DEF IInv
<1>. QED BY <1>1, AllIInv, PTL

(* frame_reader_close_locked never closes a handle that a call still has,  *)
(* and no two frames cache the same one.                                   *)
THEOREM HandlesStayLive == Spec => []HandlesLive
<1>1. IInv => HandlesLive
  BY DEF IInv
<1>. QED BY <1>1, AllIInv, PTL

(* Every open descriptor has an owner that will close it. *)
THEOREM NoHandleLeaks == Spec => []NothingLeaks
<1>1. IInv => NothingLeaks
  BY DEF IInv
<1>. QED BY <1>1, AllIInv, PTL

(* After frame_reader_revalidate a lone reader reads the header of the     *)
(* file that was at urlpath, or of a later one.                            *)
THEOREM HeadersFollow == Spec => []HeaderFollowsReplacement
<1>1. IInv => HeaderFollowsReplacement
  BY DEF IInv, FloorInv, FloorOf, HeaderFollowsReplacement
<1>. QED BY <1>1, AllIInv, PTL
=============================================================================
