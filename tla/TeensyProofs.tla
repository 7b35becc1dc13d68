---------------------------- MODULE TeensyProofs ----------------------------
(***************************************************************************)
(* Proofs about the Teensy, for any number of buffers and of segments and  *)
(* packets in a frame, and whatever the camera sends.  The firmware        *)
(* (Teensy) is shown to take the steps of TeensyFrames, and the buffers    *)
(* are followed there; then captureFrame is followed packet by packet, for *)
(* what is in a finished picture, and the pictures on their way out.       *)
(***************************************************************************)
EXTENDS Teensy, FiniteSetTheorems, SequenceTheorems, TLAPS

-----------------------------------------------------------------------------
(* Queues that hold a buffer at most once.                                 *)

Holds(q, b) == \E i \in DOMAIN q : q[i] = b
Once(q) == \A i, j \in DOMAIN q : q[i] = q[j] => i = j

\* What is taken from the front is no longer in the queue.
LEMMA TailOfOnce ==
    ASSUME NEW q \in Seq(Buffers), q # <<>>, Once(q)
    PROVE  /\ Tail(q) \in Seq(Buffers) /\ Once(Tail(q))
           /\ Head(q) \in Buffers /\ Holds(q, Head(q))
           /\ \A b : Holds(Tail(q), b) <=> Holds(q, b) /\ b # Head(q)
<1>1. /\ Tail(q) \in Seq(Buffers) /\ Head(q) \in Buffers
      /\ Len(Tail(q)) = Len(q) - 1
      /\ \A i \in 1..Len(Tail(q)) : Tail(q)[i] = q[i+1]
    BY HeadTailProperties
<1>2. /\ DOMAIN q = 1..Len(q) /\ DOMAIN Tail(q) = 1..Len(Tail(q))
      /\ Len(q) \in Nat /\ Len(q) # 0 /\ Head(q) = q[1]
    BY <1>1, EmptySeq
<1>3. Once(Tail(q))
    BY <1>1, <1>2 DEF Once
<1>4. Holds(q, Head(q))
    BY <1>2 DEF Holds
<1>5. ASSUME NEW b PROVE Holds(Tail(q), b) <=> Holds(q, b) /\ b # Head(q)
  <2>1. ASSUME Holds(Tail(q), b) PROVE Holds(q, b) /\ b # Head(q)
    <3>1. PICK i \in 1..Len(Tail(q)) : Tail(q)[i] = b
        BY <1>2, <2>1 DEF Holds
    <3>2. i+1 \in 1..Len(q) /\ i+1 # 1 /\ q[i+1] = b
        BY <1>1, <1>2, <3>1
    <3> QED
        BY <1>2, <3>2 DEF Holds, Once
  <2>2. ASSUME Holds(q, b), b # Head(q) PROVE Holds(Tail(q), b)
    <3>1. PICK i \in 1..Len(q) : q[i] = b
        BY <1>2, <2>2 DEF Holds
    <3>2. i # 1
        BY <1>2, <2>2, <3>1
    <3>3. i-1 \in 1..Len(Tail(q)) /\ Tail(q)[i-1] = q[(i-1)+1] /\ (i-1)+1 = i
        BY <1>1, <1>2, <3>1, <3>2
    <3> QED
        BY <1>2, <3>1, <3>3 DEF Holds
  <2> QED
      BY <2>1, <2>2
<1> QED
    BY <1>1, <1>3, <1>4, <1>5

\* A buffer that was not in the queue is put at its end.
LEMMA AppendToOnce ==
    ASSUME NEW q \in Seq(Buffers), NEW b \in Buffers, Once(q), ~Holds(q, b)
    PROVE  /\ Append(q, b) \in Seq(Buffers) /\ Once(Append(q, b))
           /\ \A c : Holds(Append(q, b), c) <=> Holds(q, c) \/ c = b
<1> DEFINE a == Append(q, b)
<1>1. /\ a \in Seq(Buffers) /\ Len(a) = Len(q) + 1
      /\ \A i \in 1..Len(q) : a[i] = q[i]
      /\ a[Len(q) + 1] = b
    BY AppendProperties
<1>2. DOMAIN q = 1..Len(q) /\ DOMAIN a = 1..Len(a) /\ Len(q) \in Nat
    BY <1>1
<1> HIDE DEF a
<1>3. \A i \in DOMAIN a : (i \in DOMAIN q /\ a[i] = q[i]) \/ i = Len(q) + 1
    BY <1>1, <1>2
<1>4. Once(a)
    BY <1>1, <1>2, <1>3 DEF Once, Holds
<1>5. ASSUME NEW c PROVE Holds(a, c) <=> Holds(q, c) \/ c = b
  <2>1. Holds(a, c) => Holds(q, c) \/ c = b
      BY <1>1, <1>3 DEF Holds
  <2>2. Holds(q, c) => Holds(a, c)
      BY <1>1, <1>2 DEF Holds
  <2>3. Holds(a, b)
      BY <1>1, <1>2 DEF Holds
  <2> QED
      BY <2>1, <2>2, <2>3
<1> QED
    BY <1>1, <1>4, <1>5 DEF a

\* A queue that lacks a buffer is not full.
LEMMA RoomForMissing ==
    ASSUME NEW q \in Seq(Buffers), NEW b \in Buffers, Once(q), ~Holds(q, b)
    PROVE  Len(q) < NumBuffers
<1>1. Len(q) \in Nat /\ DOMAIN q = 1..Len(q) /\ NumBuffers \in Nat \ {0}
    BY FramesAssumption
<1>2. /\ IsFiniteSet(Buffers) /\ Cardinality(Buffers) = NumBuffers
      /\ Cardinality(1..Len(q)) = Len(q)
  <2>1. /\ IsFiniteSet(0..NumBuffers-1)
        /\ Cardinality(0..NumBuffers-1) = IF 0 > NumBuffers-1 THEN 0 ELSE NumBuffers-1-0+1
      BY <1>1, FS_Interval
  <2>2. Cardinality(1..Len(q)) = IF 1 > Len(q) THEN 0 ELSE Len(q)-1+1
      BY <1>1, FS_Interval
  <2> QED
      BY <1>1, <2>1, <2>2 DEF Buffers
<1>3. IsFiniteSet(Buffers \ {b}) /\ Cardinality(Buffers \ {b}) = NumBuffers - 1
    BY <1>2, FS_RemoveElement
<1>4. q \in Injection(1..Len(q), Buffers \ {b})
  <2>1. q \in [1..Len(q) -> Buffers]
      BY <1>1
  <2>2. \A i \in 1..Len(q) : q[i] # b
      BY <1>1 DEF Holds
  <2>3. q \in [1..Len(q) -> Buffers \ {b}]
      BY <2>1, <2>2
  <2> QED
      BY <1>1, <2>3 DEF Injection, IsInjective, Once
<1>5. Cardinality(1..Len(q)) <= Cardinality(Buffers \ {b})
    BY <1>3, <1>4, FS_Injection
<1> QED
    BY <1>1, <1>2, <1>3, <1>5
-----------------------------------------------------------------------------
(* The inductive invariant.                                                *)

\* Just one place for each buffer.
Conserved ==
    /\ Once(free_frame_queue) /\ Once(ready_frame_queue)
    /\ \A b \in Buffers :
        /\ ~(Holds(free_frame_queue, b) /\ Holds(ready_frame_queue, b))
        /\ Holds(free_frame_queue, b) \/ Holds(ready_frame_queue, b)
               => b # cap.buf /\ b # snd.buf
        /\ ~(b = cap.buf /\ b = snd.buf)
        /\ \/ Holds(free_frame_queue, b) \/ Holds(ready_frame_queue, b)
           \/ b = cap.buf \/ b = snd.buf

Typed ==
    /\ free_frame_queue \in Seq(Buffers) /\ ready_frame_queue \in Seq(Buffers)
    /\ frameBuffers \in [Buffers -> Int] /\ frameIds \in [Buffers -> Int]
    /\ cap \in [pc : {"get", "capture", "put"}, buf : Buffers \cup {None}]
    /\ snd \in [pc : {"get", "send", "put"}, buf : Buffers \cup {None}, id : Int]
    /\ frame_id \in Int
    /\ cap.pc = "get" <=> cap.buf = None
    /\ snd.pc = "get" <=> snd.buf = None

\* What waits to be sent, and what is about to, is whole: the pixels are those
\* of the frame whose id the buffer has.
Whole ==
    /\ \A b \in Buffers : Holds(ready_frame_queue, b) => frameBuffers[b] = frameIds[b]
    /\ cap.pc \in {"capture", "put"} => frameIds[cap.buf] = frame_id
    /\ cap.pc = "put" => frameBuffers[cap.buf] = frameIds[cap.buf]
    /\ snd.pc = "send" => frameBuffers[snd.buf] = snd.id

FInv == Typed /\ Conserved /\ Whole

LEMMA NoneIsNoBuffer == None \notin Buffers
  BY DEF None, Buffers

LEMMA InitFInv == Init => FInv
<1> SUFFICES ASSUME Init PROVE FInv
    OBVIOUS
<1>1. NumBuffers \in Nat \ {0}
    BY FramesAssumption
<1>2. free_frame_queue \in Seq(Buffers) /\ DOMAIN free_frame_queue = 1..NumBuffers
    BY <1>1 DEF Init, Buffers
<1>3. ready_frame_queue \in Seq(Buffers) /\ DOMAIN ready_frame_queue = {}
    BY EmptySeq DEF Init
<1>4. Typed
    BY <1>2, <1>3, NoneIsNoBuffer DEF Init, Typed, Partial, None
<1>5. Once(free_frame_queue) /\ Once(ready_frame_queue)
    BY <1>1, <1>3 DEF Init, Once
<1>6. ASSUME NEW b \in Buffers
      PROVE  /\ Holds(free_frame_queue, b) /\ ~Holds(ready_frame_queue, b)
             /\ b # cap.buf /\ b # snd.buf
  <2>1. Holds(free_frame_queue, b)
    <3>1. b + 1 \in 1..NumBuffers /\ (b + 1) - 1 = b
        BY <1>1 DEF Buffers
    <3>2. free_frame_queue[b + 1] = b
        BY <1>1, <3>1 DEF Init
    <3> QED
        BY <1>2, <3>1, <3>2 DEF Holds
  <2> QED
      BY <1>3, <2>1, NoneIsNoBuffer DEF Init, Holds
<1>7. Conserved
    BY <1>5, <1>6 DEF Conserved
<1>8. Whole
    BY <1>6 DEF Init, Whole
<1> QED
    BY <1>4, <1>7, <1>8 DEF FInv

-----------------------------------------------------------------------------
(* The steps.                                                              *)

\* The main loop takes b from the front of one of the queues.
LEMMA StartCaptureStep ==
    ASSUME FInv, NEW b \in Buffers, cap.pc = "get", StartCapture(b),
           free_frame_queue' \in Seq(Buffers), ready_frame_queue' \in Seq(Buffers),
           Once(free_frame_queue'), Once(ready_frame_queue'),
           Holds(free_frame_queue, b) \/ Holds(ready_frame_queue, b),
           \A c \in Buffers : Holds(free_frame_queue', c)
                                  <=> Holds(free_frame_queue, c) /\ c # b,
           \A c \in Buffers : Holds(ready_frame_queue', c)
                                  <=> Holds(ready_frame_queue, c) /\ c # b
    PROVE  FInv'
<1> USE NoneIsNoBuffer DEF FInv
<1>1. cap' = [pc |-> "capture", buf |-> b] /\ snd' = snd /\ frame_id' = frame_id
    BY DEF StartCapture
<1>2. cap.buf = None /\ b # snd.buf
    BY DEF Typed, Conserved
<1>3. /\ frameIds' = [frameIds EXCEPT ![b] = frame_id]
      /\ frameBuffers' = [frameBuffers EXCEPT ![b] = Partial]
    BY DEF StartCapture
<1>4. Typed'
    BY <1>1, <1>3 DEF Typed, Partial
<1>5. Conserved'
    BY <1>1, <1>2 DEF Conserved
<1>6. Whole'
  <2>1. frameIds'[b] = frame_id
      BY <1>3 DEF Typed
  <2>2. \A c \in Buffers : c # b => /\ frameBuffers'[c] = frameBuffers[c]
                                    /\ frameIds'[c] = frameIds[c]
      BY <1>3 DEF Typed
  <2>3. snd.pc = "send" => snd.buf \in Buffers
      BY DEF Typed
  <2> QED
      BY <1>1, <1>2, <2>1, <2>2, <2>3 DEF Whole
<1> QED
    BY <1>4, <1>5, <1>6

LEMMA TakeFreeStep == FInv /\ TakeFree => FInv'
<1> SUFFICES ASSUME FInv, TakeFree PROVE FInv'
    OBVIOUS
<1>1. free_frame_queue \in Seq(Buffers) /\ ready_frame_queue \in Seq(Buffers)
    BY DEF FInv, Typed
<1>2. /\ Once(free_frame_queue) /\ Once(ready_frame_queue) /\ free_frame_queue # <<>>
      /\ free_frame_queue' = Tail(free_frame_queue)
      /\ ready_frame_queue' = ready_frame_queue
      /\ cap.pc = "get" /\ StartCapture(Head(free_frame_queue))
    BY DEF FInv, Conserved, TakeFree
<1>3. /\ Tail(free_frame_queue) \in Seq(Buffers) /\ Once(Tail(free_frame_queue))
      /\ Head(free_frame_queue) \in Buffers
      /\ Holds(free_frame_queue, Head(free_frame_queue))
      /\ \A c : Holds(Tail(free_frame_queue), c)
                    <=> Holds(free_frame_queue, c) /\ c # Head(free_frame_queue)
    BY <1>1, <1>2, TailOfOnce
<1>4. ~Holds(ready_frame_queue, Head(free_frame_queue))
    BY <1>3 DEF FInv, Conserved
<1>5. \A c \in Buffers : Holds(ready_frame_queue, c) <=>
                 Holds(ready_frame_queue, c) /\ c # Head(free_frame_queue)
    BY <1>4
<1> QED
    BY <1>1, <1>2, <1>3, <1>5, StartCaptureStep

LEMMA StealReadyStep == FInv /\ StealReady => FInv'
<1> SUFFICES ASSUME FInv, StealReady PROVE FInv'
    OBVIOUS
<1>1. free_frame_queue \in Seq(Buffers) /\ ready_frame_queue \in Seq(Buffers)
    BY DEF FInv, Typed
<1>2. /\ Once(free_frame_queue) /\ Once(ready_frame_queue) /\ ready_frame_queue # <<>>
      /\ ready_frame_queue' = Tail(ready_frame_queue)
      /\ free_frame_queue' = free_frame_queue
      /\ cap.pc = "get" /\ StartCapture(Head(ready_frame_queue))
    BY DEF FInv, Conserved, StealReady
<1>3. /\ Tail(ready_frame_queue) \in Seq(Buffers) /\ Once(Tail(ready_frame_queue))
      /\ Head(ready_frame_queue) \in Buffers
      /\ Holds(ready_frame_queue, Head(ready_frame_queue))
      /\ \A c : Holds(Tail(ready_frame_queue), c)
                    <=> Holds(ready_frame_queue, c) /\ c # Head(ready_frame_queue)
    BY <1>1, <1>2, TailOfOnce
<1>4. ~Holds(free_frame_queue, Head(ready_frame_queue))
    BY <1>3 DEF FInv, Conserved
<1>5. \A c \in Buffers : Holds(free_frame_queue, c) <=>
                 Holds(free_frame_queue, c) /\ c # Head(ready_frame_queue)
    BY <1>4
<1> QED
    BY <1>1, <1>2, <1>3, <1>5, StartCaptureStep

LEMMA CaptureOkStep == FInv /\ CaptureOk => FInv'
<1> SUFFICES ASSUME FInv, CaptureOk PROVE FInv'
    OBVIOUS
<1> USE DEF FInv
<1>1. /\ cap.pc = "capture" /\ cap' = [cap EXCEPT !.pc = "put"]
      /\ frameBuffers' = [frameBuffers EXCEPT ![cap.buf] = frame_id]
      /\ UNCHANGED <<free_frame_queue, ready_frame_queue, frameIds, frame_id, snd>>
    BY DEF CaptureOk
<1>2. cap.buf \in Buffers /\ cap'.buf = cap.buf /\ cap'.pc = "put"
    BY <1>1, NoneIsNoBuffer DEF Typed
<1>3. Typed'
    BY <1>1, <1>2, NoneIsNoBuffer DEF Typed
<1>4. Conserved'
    BY <1>1, <1>2 DEF Conserved
<1>5. /\ frameBuffers'[cap.buf] = frame_id
      /\ \A b \in Buffers : b # cap.buf => frameBuffers'[b] = frameBuffers[b]
    BY <1>1, <1>2 DEF Typed
<1>6. snd.pc = "send" => snd.buf \in Buffers /\ snd.buf # cap.buf
    BY <1>2, NoneIsNoBuffer DEF Typed, Conserved
<1>7. ~Holds(ready_frame_queue, cap.buf)
    BY <1>2 DEF Conserved
<1>8. Whole'
    BY <1>1, <1>2, <1>5, <1>6, <1>7 DEF Whole
<1> QED
    BY <1>3, <1>4, <1>8

LEMMA CaptureTimeoutStep == FInv /\ CaptureTimeout => FInv'
<1> SUFFICES ASSUME FInv, CaptureTimeout PROVE FInv'
    OBVIOUS
<1> USE NoneIsNoBuffer DEF FInv
<1>1. /\ cap.pc = "capture" /\ cap' = [pc |-> "get", buf |-> None]
      /\ UNCHANGED <<ready_frame_queue, frameBuffers, frameIds, frame_id, snd>>
    BY DEF CaptureTimeout
<1>2. /\ cap.buf \in Buffers /\ free_frame_queue \in Seq(Buffers)
      /\ Once(free_frame_queue) /\ ~Holds(free_frame_queue, cap.buf)
      /\ ~Holds(ready_frame_queue, cap.buf) /\ snd.buf # cap.buf
    BY <1>1 DEF Typed, Conserved
<1>3. Len(free_frame_queue) < NumBuffers
    BY <1>2, RoomForMissing
<1>4. free_frame_queue' = Append(free_frame_queue, cap.buf)
    BY <1>3 DEF CaptureTimeout
<1>5. /\ free_frame_queue' \in Seq(Buffers) /\ Once(free_frame_queue')
      /\ \A c : Holds(free_frame_queue', c) <=> Holds(free_frame_queue, c) \/ c = cap.buf
    BY <1>2, <1>4, AppendToOnce
<1>6. Typed'
    BY <1>1, <1>5 DEF Typed
<1>7. Conserved'
    BY <1>1, <1>2, <1>5 DEF Conserved
<1>8. Whole'
    BY <1>1 DEF Whole
<1> QED
    BY <1>6, <1>7, <1>8

LEMMA PutReadyStep == FInv /\ PutReady => FInv'
<1> SUFFICES ASSUME FInv, PutReady PROVE FInv'
    OBVIOUS
<1> USE NoneIsNoBuffer DEF FInv
<1>1. /\ cap.pc = "put" /\ cap' = [pc |-> "get", buf |-> None]
      /\ frame_id' = frame_id + 1
      /\ UNCHANGED <<frameBuffers, frameIds, timeouts, snd>>
    BY DEF PutReady
<1>2. /\ cap.buf \in Buffers /\ ready_frame_queue \in Seq(Buffers)
      /\ Once(ready_frame_queue) /\ ~Holds(ready_frame_queue, cap.buf)
      /\ ~Holds(free_frame_queue, cap.buf) /\ snd.buf # cap.buf
    BY <1>1 DEF Typed, Conserved
<1>3. Len(ready_frame_queue) < NumBuffers
    BY <1>2, RoomForMissing
<1>4. /\ ready_frame_queue' = Append(ready_frame_queue, cap.buf)
      /\ free_frame_queue' = free_frame_queue
    BY <1>3 DEF PutReady
<1>5. /\ ready_frame_queue' \in Seq(Buffers) /\ Once(ready_frame_queue')
      /\ \A c : Holds(ready_frame_queue', c) <=> Holds(ready_frame_queue, c) \/ c = cap.buf
    BY <1>2, <1>4, AppendToOnce
<1>6. Typed'
    BY <1>1, <1>4, <1>5 DEF Typed
<1>7. Conserved'
    BY <1>1, <1>2, <1>4, <1>5 DEF Conserved
<1>8. Whole'
  <2>1. frameBuffers[cap.buf] = frameIds[cap.buf]
      BY <1>1 DEF Whole
  <2> QED
      BY <1>1, <1>5, <2>1 DEF Whole
<1> QED
    BY <1>6, <1>7, <1>8

LEMMA SenderGetStep == FInv /\ SenderGet => FInv'
<1> SUFFICES ASSUME FInv, SenderGet PROVE FInv'
    OBVIOUS
<1> USE NoneIsNoBuffer DEF FInv
<1> DEFINE b == Head(ready_frame_queue)
<1>1. /\ snd.pc = "get" /\ ready_frame_queue # <<>>
      /\ snd' = [pc |-> "send", buf |-> b, id |-> frameIds[b]]
      /\ ready_frame_queue' = Tail(ready_frame_queue)
      /\ UNCHANGED <<free_frame_queue, frameBuffers, frameIds, frame_id, timeouts, cap>>
    BY DEF SenderGet
<1>2. ready_frame_queue \in Seq(Buffers) /\ Once(ready_frame_queue)
    BY DEF Typed, Conserved
<1>3. /\ ready_frame_queue' \in Seq(Buffers) /\ Once(ready_frame_queue')
      /\ b \in Buffers /\ Holds(ready_frame_queue, b)
      /\ \A c : Holds(ready_frame_queue', c) <=> Holds(ready_frame_queue, c) /\ c # b
    BY <1>1, <1>2, TailOfOnce
<1> HIDE DEF b
<1>4. /\ frameBuffers[b] = frameIds[b] /\ frameIds[b] \in Int
      /\ ~Holds(free_frame_queue, b) /\ b # cap.buf
    BY <1>3 DEF Typed, Conserved, Whole
<1>5. snd'.pc = "send" /\ snd'.buf = b /\ snd'.id = frameIds[b] /\ snd.buf = None
    BY <1>1 DEF Typed
<1>6. Typed'
    BY <1>1, <1>3, <1>4 DEF Typed
<1>7. Conserved'
    BY <1>1, <1>3, <1>4, <1>5 DEF Conserved
<1>8. Whole'
    BY <1>1, <1>3, <1>4, <1>5 DEF Whole
<1> QED
    BY <1>6, <1>7, <1>8

LEMMA SenderSentStep == FInv /\ SenderSent => FInv'
<1> SUFFICES ASSUME FInv, SenderSent PROVE FInv'
    OBVIOUS
<1> USE NoneIsNoBuffer DEF FInv
<1>1. /\ snd.pc = "send" /\ snd' = [snd EXCEPT !.pc = "put"]
      /\ UNCHANGED <<free_frame_queue, ready_frame_queue, frameBuffers, frameIds,
                     frame_id, timeouts, cap>>
    BY DEF SenderSent
<1>2. snd'.buf = snd.buf /\ snd'.pc = "put" /\ snd.buf # None
    BY <1>1 DEF Typed
<1>3. Typed'
    BY <1>1, <1>2 DEF Typed
<1>4. Conserved'
    BY <1>1, <1>2 DEF Conserved
<1>5. Whole'
    BY <1>1, <1>2 DEF Whole
<1> QED
    BY <1>3, <1>4, <1>5

LEMMA SenderFreeStep == FInv /\ SenderFree => FInv'
<1> SUFFICES ASSUME FInv, SenderFree PROVE FInv'
    OBVIOUS
<1> USE NoneIsNoBuffer DEF FInv
<1>1. /\ snd.pc = "put" /\ snd' = [snd EXCEPT !.pc = "get", !.buf = None]
      /\ free_frame_queue' = Append(free_frame_queue, snd.buf)
      /\ UNCHANGED <<ready_frame_queue, frameBuffers, frameIds, frame_id, timeouts, cap>>
    BY DEF SenderFree
<1>2. /\ snd.buf \in Buffers /\ free_frame_queue \in Seq(Buffers)
      /\ Once(free_frame_queue) /\ ~Holds(free_frame_queue, snd.buf)
      /\ ~Holds(ready_frame_queue, snd.buf) /\ snd.buf # cap.buf
      /\ snd'.buf = None /\ snd'.pc = "get"
    BY <1>1 DEF Typed, Conserved
<1>3. /\ free_frame_queue' \in Seq(Buffers) /\ Once(free_frame_queue')
      /\ \A c : Holds(free_frame_queue', c) <=> Holds(free_frame_queue, c) \/ c = snd.buf
    BY <1>1, <1>2, AppendToOnce
<1>4. Typed'
    BY <1>1, <1>2, <1>3 DEF Typed
<1>5. Conserved'
    BY <1>1, <1>2, <1>3 DEF Conserved
<1>6. Whole'
    BY <1>1, <1>2 DEF Whole
<1> QED
    BY <1>4, <1>5, <1>6

LEMMA NextFInv == FInv /\ [Next]_vars => FInv'
<1> SUFFICES ASSUME FInv, [Next]_vars PROVE FInv'
    OBVIOUS
<1>1. CASE TakeFree
    BY <1>1, TakeFreeStep
<1>2. CASE StealReady
    BY <1>2, StealReadyStep
<1>3. CASE CaptureOk
    BY <1>3, CaptureOkStep
<1>4. CASE CaptureTimeout
    BY <1>4, CaptureTimeoutStep
<1>5. CASE PutReady
    BY <1>5, PutReadyStep
<1>6. CASE SenderGet
    BY <1>6, SenderGetStep
<1>7. CASE SenderSent
    BY <1>7, SenderSentStep
<1>8. CASE SenderFree
    BY <1>8, SenderFreeStep
<1>9. CASE UNCHANGED vars
    BY <1>9 DEF vars, FInv, Typed, Conserved, Whole, Once, Holds
<1> QED
    BY <1>1, <1>2, <1>3, <1>4, <1>5, <1>6, <1>7, <1>8, <1>9
    DEF Next, MainStep, SenderStep

\* What the invariant says of the buffers is what the runs check.
LEMMA FInvConserves == FInv => BufferConservation
<1> SUFFICES ASSUME FInv PROVE BufferConservation
    OBVIOUS
<1> USE NoneIsNoBuffer DEF FInv
<1>1. /\ \A i \in DOMAIN free_frame_queue : /\ free_frame_queue[i] \in Buffers
                                            /\ Holds(free_frame_queue, free_frame_queue[i])
      /\ \A i \in DOMAIN ready_frame_queue : /\ ready_frame_queue[i] \in Buffers
                                             /\ Holds(ready_frame_queue, ready_frame_queue[i])
    BY DEF Typed, Holds
<1>2. /\ \A i, j \in DOMAIN free_frame_queue :
             free_frame_queue[i] = free_frame_queue[j] => i = j
      /\ \A i, j \in DOMAIN ready_frame_queue :
             ready_frame_queue[i] = ready_frame_queue[j] => i = j
    BY DEF Conserved, Once
<1>3. \A i \in DOMAIN free_frame_queue, j \in DOMAIN ready_frame_queue :
          free_frame_queue[i] # ready_frame_queue[j]
    BY <1>1 DEF Conserved
<1>4. /\ \A i \in DOMAIN free_frame_queue : free_frame_queue[i] \notin {cap.buf, snd.buf}
      /\ \A i \in DOMAIN ready_frame_queue : ready_frame_queue[i] \notin {cap.buf, snd.buf}
    BY <1>1 DEF Conserved
<1>5. cap.buf = snd.buf => cap.buf = None
    BY DEF Typed, Conserved
<1>6. \A b \in Buffers : \/ b \in {cap.buf, snd.buf}
                         \/ \E i \in DOMAIN free_frame_queue : free_frame_queue[i] = b
                         \/ \E i \in DOMAIN ready_frame_queue : ready_frame_queue[i] = b
    BY DEF Conserved, Holds
<1> QED
    BY <1>2, <1>3, <1>4, <1>5, <1>6 DEF BufferConservation

LEMMA FInvSendsWhole == FInv => SentFrameIntact
  BY DEF FInv, Whole, SentFrameIntact

-----------------------------------------------------------------------------
(* The firmware as a whole.                                                *)

\* The firmware, packet loop and all, takes the steps of TeensyFrames: reading a
\* packet is a stutter there, the end of captureFrame is CaptureOk or
\* CaptureTimeout.
THEOREM FramesImplemented == TeensySpec => Spec
<1>1. TeensyInit => Init
    BY DEF TeensyInit
<1>2. [TeensyNext]_allVars => [Next]_vars
  <2> SUFFICES ASSUME [TeensyNext]_allVars PROVE [Next]_vars
      OBVIOUS
  <2>1. CASE MainLoop
      BY <2>1 DEF MainLoop, Next, MainStep
  <2>2. CASE CaptureReads
      BY <2>2 DEF CaptureReads
  <2>3. CASE CaptureReturns
      BY <2>3 DEF CaptureReturns, Next, MainStep
  <2>4. CASE CaptureGivesUp
      BY <2>4 DEF CaptureGivesUp, Next, MainStep
  <2>5. CASE Sender
      BY <2>5 DEF Sender, Next
  <2>6. CASE UNCHANGED allVars
      BY <2>6 DEF allVars
  <2> QED
      BY <2>1, <2>2, <2>3, <2>4, <2>5, <2>6 DEF TeensyNext, Main
<1> QED
    BY <1>1, <1>2, PTL DEF TeensySpec, Spec

LEMMA FInvHolds == TeensySpec => []FInv
<1>1. Spec => []FInv
    BY InitFInv, NextFInv, PTL DEF Spec
<1> QED
    BY <1>1, FramesImplemented, PTL

\* No frame buffer of the Teensy is lost or in two places, however capture,
\* time-outs, dropped frames and sending interleave.
THEOREM BufferConservationHolds == TeensySpec => []BufferConservation
  BY FInvHolds, FInvConserves, PTL

\* The main loop never captures into the buffer frameSenderThread is sending.
THEOREM SentFrameIntactHolds == TeensySpec => []SentFrameIntact
  BY FInvHolds, FInvSendsWhole, PTL

-----------------------------------------------------------------------------
(* captureFrame: the invariant.                                            *)

\* The camera frames it numbers the segments of: all but the repeats.
NewFrames == (1..MaxCamera) \ Invalid

\* The segment in progress: its packets so far are those of the camera's segment,
\* and the stream is where the next one is.
Following ==
    segment_active =>
        /\ expected_packet # 0
        /\ stream.packet = expected_packet /\ stream.frame <= MaxCamera
        /\ \A p \in 0 .. expected_packet - 1 :
               segmentBuffer[p] = [frame |-> stream.frame, seg |-> stream.seg]
        /\ expected_packet > SegPacket =>
               stream.frame \notin Invalid /\ current_seg = stream.seg

\* The buffer holds the segments of camera frame f up to the one with that number.
HoldsUpTo(f, last) ==
    \A s \in 1..last : \A p \in Capture!PacketIds :
        frame_buffer[s][p] = [frame |-> f, seg |-> s]

\* Every picture on its way out is of an earlier frame of the camera than f.
Newest(f) ==
    /\ snd.pc = "send" => picture[snd.buf] < f
    /\ \A i \in DOMAIN ready_frame_queue : picture[ready_frame_queue[i]] < f

\* How many numbered segments the camera has sent since the one before
\* expected_seg of frame f, at least: too many when it is in a later frame.
Behind(f) ==
    \/ /\ stream.frame = f /\ stream.seg >= expected_seg
       /\ missed = stream.seg - expected_seg
    \/ /\ stream.frame > f
       /\ missed > NumSegments - expected_seg
       /\ stream.frame \notin Invalid => missed >= NumSegments - expected_seg + stream.seg

\* The frame in progress.
Collecting ==
    frame_started /\ ~captured =>
        /\ expected_seg # 1
        /\ \E f \in NewFrames : HoldsUpTo(f, expected_seg - 1) /\ Behind(f) /\ Newest(f)

Collected ==
    captured => \E f \in NewFrames :
                    HoldsUpTo(f, NumSegments) /\ stream.frame > f /\ Newest(f)

CaptureInv == Following /\ Collecting /\ Collected

\* The pictures on their way out.
Pictures ==
    /\ cap.pc # "capture" => ~frame_started /\ ~captured
    /\ cap.pc = "put" => picture[cap.buf] \in NewFrames /\ Newest(picture[cap.buf])
                         /\ picture[cap.buf] < stream.frame
    /\ Newest(stream.frame)
    /\ \A i \in DOMAIN ready_frame_queue : picture[ready_frame_queue[i]] \in NewFrames
    /\ \A i, j \in DOMAIN ready_frame_queue :
           i < j => picture[ready_frame_queue[i]] < picture[ready_frame_queue[j]]
    /\ snd.pc = "send" =>
           /\ picture[snd.buf] \in NewFrames
           /\ \A i \in DOMAIN ready_frame_queue :
                  picture[snd.buf] < picture[ready_frame_queue[i]]

-----------------------------------------------------------------------------
(* The stream of the camera.                                               *)

Positions == [frame : 1..MaxCamera + 1, seg : 1..NumSegments, packet : 0..PacketsPerSeg - 1]

SameSegment(a, b) == b.frame = a.frame /\ b.seg = a.seg

NextSegment(a, b) ==
    \/ a.seg < NumSegments /\ b.frame = a.frame /\ b.seg = a.seg + 1
    \/ a.seg = NumSegments /\ b.frame = a.frame + 1 /\ b.seg = 1

LEMMA Constants ==
    /\ NumSegments \in Nat \ {0} /\ PacketsPerSeg \in Nat \ {0}
    /\ SegPacket \in 0 .. PacketsPerSeg - 1 /\ MaxCamera \in Nat \ {0}
    /\ MaxLost \in 0 .. PacketsPerSeg - 1 /\ MaxMissed \in 0 .. NumSegments - 1
    /\ Invalid \subseteq 1..MaxCamera
  BY CaptureAssumption DEF Capture!CaptureConstants

\* Division of a number less than twice the divisor.
LEMMA DivideOnce ==
    ASSUME NEW d \in Nat \ {0}, NEW n \in Nat, n < 2 * d
    PROVE  /\ n < d => n \div d = 0 /\ n % d = n
           /\ n >= d => n \div d = 1 /\ n % d = n - d
<1> DEFINE q == n \div d
<1>1. q \in Int /\ n % d \in 0 .. d - 1 /\ n = d * q + (n % d)
    BY SMTT(30)
<1> HIDE DEF q
<1>2. d * q > -d /\ d * q < 2 * d
    BY <1>1
<1>3. q >= 0
  <2> SUFFICES ASSUME q <= -1 PROVE FALSE
      BY <1>1
  <2>1. d * (q + 1) <= 0 /\ d * q = d * (q + 1) - d
      BY <1>1
  <2> QED
      BY <1>1, <1>2, <2>1
<1>4. q < 2
  <2> SUFFICES ASSUME q >= 2 PROVE FALSE
      BY <1>1
  <2>1. d * (q - 2) >= 0 /\ d * q = d * (q - 2) + 2 * d
      BY <1>1
  <2> QED
      BY <1>1, <1>2, <2>1
<1>5. \/ q = 0 /\ d * q = 0
      \/ q = 1 /\ d * q = d
    BY <1>1, <1>3, <1>4
<1> QED
    BY <1>1, <1>5 DEF q

\* The stream moved on by up to a segment's packets is in the same segment or in
\* the next one.
LEMMA AheadPosition ==
    ASSUME NEW pos \in Positions, NEW k \in 0..PacketsPerSeg, NEW b, b = Capture!Ahead(pos, k)
    PROVE  /\ b = [frame |-> b.frame, seg |-> b.seg, packet |-> b.packet]
           /\ b.frame \in Nat /\ b.seg \in 1..NumSegments /\ b.packet \in 0 .. PacketsPerSeg - 1
           /\ \/ /\ pos.packet + k < PacketsPerSeg /\ SameSegment(pos, b)
                 /\ b.packet = pos.packet + k
              \/ /\ pos.packet + k >= PacketsPerSeg /\ NextSegment(pos, b)
                 /\ b.packet = pos.packet + k - PacketsPerSeg
<1> USE Constants
<1> DEFINE n == pos.packet + k
           s == pos.seg - 1 + n \div PacketsPerSeg
<1>1. b = [frame |-> pos.frame + s \div NumSegments, seg |-> (s % NumSegments) + 1,
           packet |-> n % PacketsPerSeg]
    BY DEF Capture!Ahead
<1>2. /\ pos.packet \in 0 .. PacketsPerSeg - 1 /\ pos.seg \in 1..NumSegments /\ pos.frame \in Nat
      /\ n \in Nat /\ n < 2 * PacketsPerSeg
    BY DEF Positions
<1>3. /\ n < PacketsPerSeg => n \div PacketsPerSeg = 0 /\ n % PacketsPerSeg = n
      /\ n >= PacketsPerSeg => n \div PacketsPerSeg = 1 /\ n % PacketsPerSeg = n - PacketsPerSeg
    BY <1>2, DivideOnce
<1>4. s \in Nat /\ s < 2 * NumSegments
    BY <1>2, <1>3
<1>5. /\ s < NumSegments => s \div NumSegments = 0 /\ s % NumSegments = s
      /\ s >= NumSegments => s \div NumSegments = 1 /\ s % NumSegments = s - NumSegments
    BY <1>4, DivideOnce
<1>6. /\ n < PacketsPerSeg => s = pos.seg - 1
      /\ n >= PacketsPerSeg => s = pos.seg
    BY <1>2, <1>3
<1>7. /\ b.frame = pos.frame + s \div NumSegments /\ b.seg = (s % NumSegments) + 1
      /\ b.packet = n % PacketsPerSeg
      /\ b = [frame |-> b.frame, seg |-> b.seg, packet |-> b.packet]
    BY <1>1
<1>8. CASE n < PacketsPerSeg
  <2>1. s < NumSegments /\ s = pos.seg - 1
      BY <1>2, <1>6, <1>8
  <2>2. b.frame = pos.frame /\ b.seg = pos.seg /\ b.packet = n
      BY <1>2, <1>3, <1>5, <1>7, <1>8, <2>1
  <2> QED
      BY <1>2, <1>7, <1>8, <2>2 DEF SameSegment
<1>9. CASE n >= PacketsPerSeg
  <2>1. s = pos.seg /\ b.packet = n - PacketsPerSeg
      BY <1>3, <1>6, <1>7, <1>9
  <2>2. CASE pos.seg < NumSegments
      BY <1>2, <1>5, <1>7, <1>9, <2>1, <2>2 DEF NextSegment
  <2>3. CASE pos.seg = NumSegments
      BY <1>2, <1>5, <1>7, <1>9, <2>1, <2>3 DEF NextSegment
  <2> QED
      BY <1>2, <2>2, <2>3
<1> QED
    BY <1>2, <1>8, <1>9

LEMMA Stream == Capture!TypeOK => stream \in Positions
  BY DEF Capture!TypeOK, Capture!Segments, Capture!PacketIds, Positions

\* The packet that is read, and where that leaves the stream.
LEMMA AdvanceStep ==
    ASSUME Capture!TypeOK, NEW lost \in 0..MaxLost, NEW completed \in BOOLEAN,
           NEW pos, pos = Capture!Ahead(stream, lost), Capture!Advance(lost, completed)
    PROVE  /\ pos.frame \in 1..MaxCamera /\ pos.seg \in 1..NumSegments
           /\ pos.packet \in 0 .. PacketsPerSeg - 1
           /\ stream.frame <= pos.frame /\ pos.frame <= stream'.frame
           /\ stream' \in Positions /\ missed' \in 0..MaxMissed
           /\ pos.packet # PacketsPerSeg - 1 =>
                  SameSegment(pos, stream') /\ stream'.packet = pos.packet + 1
           /\ pos.packet = PacketsPerSeg - 1 => NextSegment(pos, stream') /\ stream'.packet = 0
           /\ pos.packet = stream.packet \/ lost = 0 => SameSegment(stream, pos)
           /\ \/ SameSegment(stream, stream') /\ (~completed => missed' = missed)
              \/ /\ NextSegment(stream, stream')
                 /\ ~completed => missed' = IF stream.frame \in Invalid THEN missed ELSE missed + 1
           /\ completed => missed' = 0
<1> USE Constants
<1>1. /\ pos.frame <= MaxCamera /\ stream' = Capture!Ahead(stream, lost + 1)
      /\ missed' <= MaxMissed
      /\ missed' = IF completed THEN 0
                   ELSE IF /\ stream'.seg # stream.seg \/ stream'.frame # stream.frame
                           /\ Capture!SegmentBits(stream) # 0
                   THEN missed + 1 ELSE missed
    BY DEF Capture!Advance
<1>2. /\ stream \in Positions /\ missed \in 0..MaxMissed
      /\ stream.frame \in 1 .. MaxCamera + 1 /\ stream.seg \in 1..NumSegments
      /\ stream.packet \in 0 .. PacketsPerSeg - 1
    BY Stream DEF Capture!TypeOK, Positions
<1>3. lost \in Nat /\ lost < PacketsPerSeg
      /\ lost \in 0..PacketsPerSeg /\ lost + 1 \in 0..PacketsPerSeg
    OBVIOUS
<1>4. /\ pos.frame \in Nat /\ pos.seg \in 1..NumSegments /\ pos.packet \in 0 .. PacketsPerSeg - 1
      /\ \/ /\ stream.packet + lost < PacketsPerSeg /\ SameSegment(stream, pos)
            /\ pos.packet = stream.packet + lost
         \/ /\ stream.packet + lost >= PacketsPerSeg /\ NextSegment(stream, pos)
            /\ pos.packet = stream.packet + lost - PacketsPerSeg
    BY <1>2, <1>3, AheadPosition
<1>5. /\ stream' = [frame |-> stream'.frame, seg |-> stream'.seg, packet |-> stream'.packet]
      /\ stream'.frame \in Nat /\ stream'.seg \in 1..NumSegments
      /\ stream'.packet \in 0 .. PacketsPerSeg - 1
      /\ \/ /\ stream.packet + (lost + 1) < PacketsPerSeg /\ SameSegment(stream, stream')
            /\ stream'.packet = stream.packet + (lost + 1)
         \/ /\ stream.packet + (lost + 1) >= PacketsPerSeg /\ NextSegment(stream, stream')
            /\ stream'.packet = stream.packet + (lost + 1) - PacketsPerSeg
    BY <1>1, <1>2, <1>3, AheadPosition
<1>6. /\ stream.frame <= pos.frame /\ pos.frame <= stream'.frame /\ stream'.frame <= pos.frame + 1
      /\ pos.packet # PacketsPerSeg - 1 =>
             SameSegment(pos, stream') /\ stream'.packet = pos.packet + 1
      /\ pos.packet = PacketsPerSeg - 1 => NextSegment(pos, stream') /\ stream'.packet = 0
  <2>1. CASE stream.packet + (lost + 1) < PacketsPerSeg
    <3>1. SameSegment(stream, pos) /\ pos.packet = stream.packet + lost
        BY <1>2, <1>3, <1>4, <2>1
    <3>2. SameSegment(stream, stream') /\ stream'.packet = stream.packet + (lost + 1)
        BY <1>2, <1>3, <1>5, <2>1
    <3> QED
        BY <1>2, <1>3, <2>1, <3>1, <3>2 DEF SameSegment
  <2>2. CASE stream.packet + lost = PacketsPerSeg - 1
    <3>1. SameSegment(stream, pos) /\ pos.packet = stream.packet + lost
        BY <1>2, <1>3, <1>4, <2>2
    <3>2. NextSegment(stream, stream') /\ stream'.packet = 0
        BY <1>2, <1>3, <1>5, <2>2
    <3> QED
        BY <1>2, <1>3, <2>2, <3>1, <3>2 DEF SameSegment, NextSegment
  <2>3. CASE stream.packet + lost >= PacketsPerSeg
    <3>1. NextSegment(stream, pos) /\ pos.packet = stream.packet + lost - PacketsPerSeg
        BY <1>2, <1>3, <1>4, <2>3
    <3>2. NextSegment(stream, stream')
          /\ stream'.packet = stream.packet + (lost + 1) - PacketsPerSeg
        BY <1>2, <1>3, <1>5, <2>3
    <3>3. pos.packet # PacketsPerSeg - 1
        BY <1>2, <1>3, <3>1
    <3> QED
        BY <1>2, <1>3, <1>4, <1>5, <3>1, <3>2, <3>3 DEF SameSegment, NextSegment
  <2> QED
      BY <1>2, <1>3, <2>1, <2>2, <2>3
<1>7. pos.frame \in 1..MaxCamera /\ stream' \in Positions
  <2>1. pos.frame \in 1..MaxCamera /\ stream'.frame \in 1 .. MaxCamera + 1
      BY <1>1, <1>2, <1>4, <1>5, <1>6
  <2> QED
      BY <1>5, <2>1 DEF Positions
<1>8. pos.packet = stream.packet \/ lost = 0 => SameSegment(stream, pos)
    BY <1>2, <1>3, <1>4
<1>9. /\ \/ SameSegment(stream, stream') /\ (~completed => missed' = missed)
         \/ /\ NextSegment(stream, stream')
            /\ ~completed => missed' = IF stream.frame \in Invalid THEN missed ELSE missed + 1
      /\ completed => missed' = 0
      /\ missed' \in 0..MaxMissed
  <2>1. Capture!SegmentBits(stream) # 0 <=> stream.frame \notin Invalid
      BY <1>2 DEF Capture!SegmentBits
  <2>2. /\ SameSegment(stream, stream') =>
               ~(stream'.seg # stream.seg \/ stream'.frame # stream.frame)
        /\ NextSegment(stream, stream') =>
               stream'.seg # stream.seg \/ stream'.frame # stream.frame
      BY <1>2 DEF SameSegment, NextSegment
  <2>3. missed' \in 0..MaxMissed
      BY <1>1, <1>2
  <2> QED
      BY <1>1, <1>5, <2>1, <2>2, <2>3
<1> QED
    BY <1>4, <1>6, <1>7, <1>8, <1>9

\* A segment that goes by uncompleted is counted, unless it is a repeat's.
LEMMA BehindStep ==
    ASSUME Capture!TypeOK, NEW f \in NewFrames, Behind(f), expected_seg' = expected_seg,
           stream' \in Positions,
           \/ SameSegment(stream, stream') /\ missed' = missed
           \/ /\ NextSegment(stream, stream')
              /\ missed' = IF stream.frame \in Invalid THEN missed ELSE missed + 1
    PROVE  Behind(f)'
<1>1. /\ stream.frame \in Nat /\ stream.seg \in 1..NumSegments /\ missed \in Nat
      /\ expected_seg \in 1..NumSegments /\ NumSegments \in Nat
    BY Constants DEF Capture!TypeOK, Capture!Segments
<1>2. f \in Nat /\ f \notin Invalid /\ stream'.frame \in Nat
    BY DEF NewFrames, Positions
<1>3. CASE SameSegment(stream, stream') /\ missed' = missed
    BY <1>3 DEF Behind, SameSegment
<1>4. CASE /\ NextSegment(stream, stream')
           /\ missed' = IF stream.frame \in Invalid THEN missed ELSE missed + 1
  <2>1. CASE stream.frame = f
      BY <1>1, <1>2, <1>4, <2>1 DEF Behind, NextSegment
  <2>2. CASE stream.frame > f /\ stream.frame \in Invalid
      BY <1>1, <1>2, <1>4, <2>2 DEF Behind, NextSegment
  <2>3. CASE stream.frame > f /\ stream.frame \notin Invalid
      BY <1>1, <1>2, <1>4, <2>3 DEF Behind, NextSegment
  <2> QED
      BY <1>1, <1>2, <2>1, <2>2, <2>3 DEF Behind
<1> QED
    BY <1>3, <1>4

-----------------------------------------------------------------------------
(* The packets captureFrame reads.                                         *)

LEMMA NewestMonotone ==
    ASSUME Pictures, NEW f \in Int, NEW g \in Int, Newest(f), f <= g
    PROVE  Newest(g)
<1>1. /\ snd.pc = "send" => picture[snd.buf] \in Int
      /\ \A i \in DOMAIN ready_frame_queue : picture[ready_frame_queue[i]] \in Int
    BY Constants DEF Pictures, NewFrames
<1> QED
    BY <1>1 DEF Newest

\* While captureFrame reads, nothing moves outside.
LEMMA PicturesKept ==
    ASSUME Pictures, cap.pc = "capture", UNCHANGED <<vars, picture>>,
           stream.frame \in Int, stream'.frame \in Int, stream.frame <= stream'.frame
    PROVE  Pictures' /\ \A f : Newest(f)' <=> Newest(f)
<1>1. UNCHANGED <<cap, snd, ready_frame_queue, picture>>
    BY DEF vars
<1>2. \A f : Newest(f)' <=> Newest(f)
    BY <1>1 DEF Newest
<1>3. Newest(stream.frame)
    BY DEF Pictures
<1>4. Newest(stream'.frame)
    BY <1>3, NewestMonotone
<1>5. Newest(stream.frame)'
    BY <1>1, <1>4 DEF Newest
<1> QED
    BY <1>1, <1>2, <1>5 DEF Pictures

\* A packet, or none, that completes no segment.
LEMMA NoSegmentStep ==
    ASSUME Capture!TypeOK, CaptureInv, Pictures, cap.pc = "capture",
           UNCHANGED <<vars, picture>>, ~captured,
           UNCHANGED <<expected_seg, frame_started, frame_buffer, captured>>,
           stream' \in Positions, stream.frame <= stream'.frame,
           \/ SameSegment(stream, stream') /\ missed' = missed
           \/ /\ NextSegment(stream, stream')
              /\ missed' = IF stream.frame \in Invalid THEN missed ELSE missed + 1
    PROVE  Collecting' /\ Collected' /\ Pictures'
<1>1. Pictures' /\ \A f : Newest(f)' <=> Newest(f)
  <2>1. stream.frame \in Int /\ stream'.frame \in Int
      BY DEF Capture!TypeOK, Positions
  <2> QED
      BY <2>1, PicturesKept
<1>2. \A f, n : HoldsUpTo(f, n)' <=> HoldsUpTo(f, n)
    BY DEF HoldsUpTo
<1>3. ASSUME frame_started PROVE Collecting'
  <2>1. PICK f \in NewFrames : HoldsUpTo(f, expected_seg - 1) /\ Behind(f) /\ Newest(f)
      BY <1>3 DEF CaptureInv, Collecting
  <2>2. Behind(f)'
      BY <2>1, BehindStep
  <2>3. expected_seg # 1
      BY <1>3 DEF CaptureInv, Collecting
  <2> QED
      BY <1>1, <1>2, <2>1, <2>2, <2>3 DEF Collecting
<1>4. ~frame_started => Collecting'
    BY DEF Collecting
<1>5. Collected'
    BY DEF Collected
<1> QED
    BY <1>1, <1>3, <1>4, <1>5

LEMMA DiscardStep ==
    ASSUME Capture!TypeOK, CaptureInv, Pictures, cap.pc = "capture",
           UNCHANGED <<vars, picture>>, Capture!DiscardPacket
    PROVE  (Capture!TypeOK /\ CaptureInv /\ Pictures)'
<1>1. /\ ~captured /\ Capture!DropSegment /\ UNCHANGED <<current_seg, segmentBuffer>>
      /\ segment_active' = FALSE /\ expected_packet' = 0
      /\ UNCHANGED <<expected_seg, frame_started, frame_buffer, captured>>
    BY DEF Capture!DiscardPacket, Capture!DropSegment
<1>2. /\ stream' \in Positions /\ missed' \in 0..MaxMissed /\ stream.frame <= stream'.frame
      /\ \/ SameSegment(stream, stream') /\ missed' = missed
         \/ /\ NextSegment(stream, stream')
            /\ missed' = IF stream.frame \in Invalid THEN missed ELSE missed + 1
  <2>1. CASE UNCHANGED <<stream, missed>>
      BY <2>1, Stream DEF Capture!TypeOK, SameSegment
  <2>2. CASE \E lost \in 0..MaxLost : Capture!Advance(lost, FALSE)
    <3>1. PICK lost \in 0..MaxLost : Capture!Advance(lost, FALSE)
        BY <2>2
    <3>2. PICK pos : pos = Capture!Ahead(stream, lost)
        OBVIOUS
    <3>3. /\ pos.frame \in 1..MaxCamera /\ stream' \in Positions /\ missed' \in 0..MaxMissed
          /\ stream.frame <= pos.frame /\ pos.frame <= stream'.frame
          /\ \/ SameSegment(stream, stream') /\ missed' = missed
             \/ /\ NextSegment(stream, stream')
                /\ missed' = IF stream.frame \in Invalid THEN missed ELSE missed + 1
        BY <3>1, <3>2, AdvanceStep
    <3>4. stream.frame \in Int /\ stream'.frame \in Int /\ pos.frame \in Int
        BY <3>3, Constants DEF Capture!TypeOK, Positions
    <3> QED
        BY <3>3, <3>4
  <2> QED
      BY <2>1, <2>2 DEF Capture!DiscardPacket
<1>3. Capture!TypeOK'
  <2>1. 0 \in Capture!PacketIds
      BY Constants DEF Capture!PacketIds
  <2>2. stream' \in [frame : 1 .. MaxCamera + 1, seg : Capture!Segments,
                     packet : Capture!PacketIds]
      BY <1>2 DEF Positions, Capture!Segments, Capture!PacketIds
  <2> QED
      BY <1>1, <1>2, <2>1, <2>2 DEF Capture!TypeOK
<1>4. Following'
    BY <1>1 DEF Following
<1> QED
    BY <1>1, <1>2, <1>3, <1>4, NoSegmentStep DEF CaptureInv

\* What is read when the stream moves past lost packets and then the one at pos.
Reads(lost, completed, pos) ==
    /\ pos = Capture!Ahead(stream, lost)
    /\ Capture!Advance(lost, completed)
    /\ cap.pc = "capture" /\ ~captured
    /\ UNCHANGED <<vars, picture>>

\* The three ways to read a packet that drop what there is of the segment, or skip.
LEMMA DroppedStep ==
    ASSUME Capture!TypeOK, CaptureInv, Pictures, NEW lost \in 0..MaxLost, NEW pos,
           Reads(lost, FALSE, pos),
           Capture!SkipPacket(pos) \/ Capture!WrongPacket(pos) \/ Capture!UnnumberedSegment(pos)
    PROVE  (Capture!TypeOK /\ CaptureInv /\ Pictures)'
<1>1. /\ pos.frame \in 1..MaxCamera /\ pos.seg \in 1..NumSegments
      /\ pos.packet \in 0 .. PacketsPerSeg - 1
      /\ stream.frame <= pos.frame /\ pos.frame <= stream'.frame
      /\ stream' \in Positions /\ missed' \in 0..MaxMissed
      /\ \/ SameSegment(stream, stream') /\ missed' = missed
         \/ /\ NextSegment(stream, stream')
            /\ missed' = IF stream.frame \in Invalid THEN missed ELSE missed + 1
    BY AdvanceStep DEF Reads
<1>2. /\ cap.pc = "capture" /\ ~captured /\ UNCHANGED <<vars, picture>>
    BY DEF Reads
<1>3. /\ UNCHANGED <<expected_seg, frame_started, frame_buffer, captured>>
      /\ segment_active' = FALSE
      /\ current_seg' \in {current_seg, 0} /\ expected_packet' \in {expected_packet, 0}
      /\ segmentBuffer' \in {segmentBuffer,
             [segmentBuffer EXCEPT ![pos.packet] = [frame |-> pos.frame, seg |-> pos.seg]]}
  <2>1. segment_active \in BOOLEAN
      BY DEF Capture!TypeOK
  <2> QED
      BY <2>1 DEF Capture!SkipPacket, Capture!WrongPacket, Capture!UnnumberedSegment,
                  Capture!DropSegment, Capture!Store, Capture!locals
<1>4. segmentBuffer' \in [Capture!PacketIds -> Capture!Pixels]
  <2>1. [frame |-> pos.frame, seg |-> pos.seg] \in Capture!Pixels
      BY <1>1 DEF Capture!Pixels, Capture!Segments
  <2>2. segmentBuffer \in [Capture!PacketIds -> Capture!Pixels]
      BY DEF Capture!TypeOK
  <2> QED
      BY <1>3, <2>1, <2>2
<1>5. Capture!TypeOK'
  <2>1. 0 \in Capture!PacketIds /\ 0 \in 0..NumSegments
      BY Constants DEF Capture!PacketIds
  <2>2. stream' \in [frame : 1 .. MaxCamera + 1, seg : Capture!Segments,
                     packet : Capture!PacketIds]
      BY <1>1 DEF Positions, Capture!Segments, Capture!PacketIds
  <2> QED
      BY <1>1, <1>3, <1>4, <2>1, <2>2 DEF Capture!TypeOK
<1>6. Following'
    BY <1>3 DEF Following
<1>7. stream.frame <= stream'.frame
    BY <1>1 DEF Capture!TypeOK, Positions
<1> QED
    BY <1>1, <1>2, <1>3, <1>5, <1>6, <1>7, NoSegmentStep DEF CaptureInv

\* The expected packet, when a segment is followed, is the next of the stream.
LEMMA NextPacket ==
    ASSUME Capture!TypeOK, CaptureInv, NEW lost \in 0..MaxLost, NEW completed \in BOOLEAN,
           NEW pos, Reads(lost, completed, pos), Capture!Expected(pos),
           pos.packet = SegPacket => Capture!SegmentBits(pos) # 0, Capture!Store(pos)
    PROVE  /\ pos.packet # 0 => segment_active
           /\ segment_active => SameSegment(stream, pos)
           /\ \A p \in 0 .. pos.packet :
                  segmentBuffer'[p] = [frame |-> pos.frame, seg |-> pos.seg]
           /\ segmentBuffer' \in [Capture!PacketIds -> Capture!Pixels]
           /\ pos.packet >= SegPacket =>
                  pos.frame \notin Invalid /\ Capture!SegmentNumber(pos) = pos.seg
           /\ Capture!SegmentNumber(pos) \in 0..NumSegments
<1> USE Constants
<1>1. /\ pos.frame \in 1..MaxCamera /\ pos.seg \in 1..NumSegments
      /\ pos.packet \in 0 .. PacketsPerSeg - 1
      /\ pos.packet = stream.packet => SameSegment(stream, pos)
    BY AdvanceStep DEF Reads
<1>2. pos.packet = IF segment_active THEN expected_packet ELSE 0
    BY DEF Capture!Expected
<1>3. segment_active => /\ stream.packet = expected_packet /\ expected_packet # 0
                        /\ \A p \in 0 .. expected_packet - 1 :
                              segmentBuffer[p] = [frame |-> stream.frame, seg |-> stream.seg]
                        /\ expected_packet > SegPacket =>
                              stream.frame \notin Invalid /\ current_seg = stream.seg
    BY DEF CaptureInv, Following
<1>4. segment_active => SameSegment(stream, pos)
    BY <1>1, <1>2, <1>3
<1>5. segmentBuffer' = [segmentBuffer EXCEPT
                           ![pos.packet] = [frame |-> pos.frame, seg |-> pos.seg]]
      /\ segmentBuffer \in [Capture!PacketIds -> Capture!Pixels]
    BY DEF Capture!Store, Capture!TypeOK
<1>6. [frame |-> pos.frame, seg |-> pos.seg] \in Capture!Pixels
    BY <1>1 DEF Capture!Pixels, Capture!Segments
<1>7. /\ segmentBuffer' \in [Capture!PacketIds -> Capture!Pixels]
      /\ segmentBuffer'[pos.packet] = [frame |-> pos.frame, seg |-> pos.seg]
      /\ \A p \in Capture!PacketIds : p # pos.packet => segmentBuffer'[p] = segmentBuffer[p]
    BY <1>1, <1>5, <1>6 DEF Capture!PacketIds
<1>8. ASSUME NEW p \in 0 .. pos.packet
      PROVE  segmentBuffer'[p] = [frame |-> pos.frame, seg |-> pos.seg]
  <2>1. CASE p = pos.packet
      BY <1>7, <2>1
  <2>2. CASE p # pos.packet
    <3>1. segment_active /\ p \in 0 .. expected_packet - 1 /\ p \in Capture!PacketIds
        BY <1>1, <1>2, <2>2 DEF Capture!PacketIds
    <3> QED
        BY <1>3, <1>4, <1>7, <2>2, <3>1 DEF SameSegment
  <2> QED
      BY <2>1, <2>2
<1>9. CASE pos.packet = SegPacket
  <2>1. pos.frame \notin Invalid /\ Capture!SegmentNumber(pos) = pos.seg
      BY <1>1, <1>9 DEF Capture!SegmentBits, Capture!SegmentNumber
  <2> QED
      BY <1>1, <1>2, <1>4, <1>7, <1>8, <2>1
<1>10. CASE pos.packet # SegPacket
  <2>1. Capture!SegmentNumber(pos) = IF segment_active THEN current_seg ELSE 0
      BY <1>10 DEF Capture!SegmentNumber
  <2>2. Capture!SegmentNumber(pos) \in 0..NumSegments
      BY <2>1 DEF Capture!TypeOK
  <2>3. ASSUME pos.packet >= SegPacket
        PROVE  pos.frame \notin Invalid /\ Capture!SegmentNumber(pos) = pos.seg
    <3>1. segment_active /\ expected_packet > SegPacket
        BY <1>1, <1>2, <1>10, <2>3
    <3> QED
        BY <1>3, <1>4, <2>1, <3>1 DEF SameSegment
  <2> QED
      BY <1>1, <1>2, <1>4, <1>7, <1>8, <2>2, <2>3
<1> QED
    BY <1>9, <1>10

LEMMA StorePacketStep ==
    ASSUME Capture!TypeOK, CaptureInv, Pictures, NEW lost \in 0..MaxLost, NEW pos,
           Reads(lost, FALSE, pos), Capture!StorePacket(pos)
    PROVE  (Capture!TypeOK /\ CaptureInv /\ Pictures)'
<1> USE Constants
<1>1. /\ Capture!Expected(pos) /\ pos.packet # PacketsPerSeg - 1 /\ Capture!Store(pos)
      /\ pos.packet = SegPacket => Capture!SegmentBits(pos) # 0
      /\ segment_active' = TRUE /\ expected_packet' = pos.packet + 1
      /\ current_seg' = Capture!SegmentNumber(pos)
      /\ UNCHANGED <<expected_seg, frame_started, frame_buffer, captured>>
    BY DEF Capture!StorePacket
<1>2. /\ pos.frame \in 1..MaxCamera /\ pos.seg \in 1..NumSegments
      /\ pos.packet \in 0 .. PacketsPerSeg - 1
      /\ stream.frame <= pos.frame /\ pos.frame <= stream'.frame
      /\ stream' \in Positions /\ missed' \in 0..MaxMissed
      /\ SameSegment(pos, stream') /\ stream'.packet = pos.packet + 1
      /\ \/ SameSegment(stream, stream') /\ missed' = missed
         \/ /\ NextSegment(stream, stream')
            /\ missed' = IF stream.frame \in Invalid THEN missed ELSE missed + 1
    BY <1>1, AdvanceStep DEF Reads
<1>3. /\ \A p \in 0 .. pos.packet :
             segmentBuffer'[p] = [frame |-> pos.frame, seg |-> pos.seg]
      /\ segmentBuffer' \in [Capture!PacketIds -> Capture!Pixels]
      /\ pos.packet >= SegPacket =>
             pos.frame \notin Invalid /\ Capture!SegmentNumber(pos) = pos.seg
      /\ Capture!SegmentNumber(pos) \in 0..NumSegments
    BY <1>1, NextPacket
<1>4. Following'
  <2>1. \A p \in 0 .. expected_packet' - 1 :
            segmentBuffer'[p] = [frame |-> stream'.frame, seg |-> stream'.seg]
      BY <1>1, <1>2, <1>3 DEF SameSegment
  <2>2. /\ expected_packet' # 0 /\ stream'.packet = expected_packet'
        /\ stream'.frame <= MaxCamera
      BY <1>1, <1>2 DEF SameSegment
  <2>3. expected_packet' > SegPacket => stream'.frame \notin Invalid /\ current_seg' = stream'.seg
    <3>1. expected_packet' > SegPacket => pos.packet >= SegPacket
        BY <1>1, <1>2
    <3> QED
        BY <1>1, <1>2, <1>3, <3>1 DEF SameSegment
  <2> QED
      BY <2>1, <2>2, <2>3 DEF Following
<1>5. Capture!TypeOK'
  <2>1. expected_packet' \in Capture!PacketIds
      BY <1>1, <1>2 DEF Capture!PacketIds
  <2>2. stream' \in [frame : 1 .. MaxCamera + 1, seg : Capture!Segments,
                     packet : Capture!PacketIds]
      BY <1>2 DEF Positions, Capture!Segments, Capture!PacketIds
  <2> QED
      BY <1>1, <1>2, <1>3, <2>1, <2>2 DEF Capture!TypeOK
<1>6. stream.frame <= stream'.frame
    BY <1>2 DEF Capture!TypeOK, Positions
<1>7. cap.pc = "capture" /\ ~captured /\ UNCHANGED <<vars, picture>>
    BY DEF Reads
<1> QED
    BY <1>1, <1>2, <1>4, <1>5, <1>6, <1>7, NoSegmentStep DEF CaptureInv

\* The last packet of a segment, out of order.
LEMMA OutOfOrderStep ==
    ASSUME Capture!TypeOK, CaptureInv, Pictures, cap.pc = "capture", ~captured,
           UNCHANGED <<vars, picture>>, NEW seg, Capture!OutOfOrder(seg),
           segment_active' = FALSE, stream \in Positions, stream' \in Positions,
           stream.frame <= stream'.frame
    PROVE  CaptureInv' /\ Pictures'
<1>1. frame_started' = FALSE /\ captured' = FALSE
    BY DEF Capture!OutOfOrder, Capture!TypeOK
<1>2. stream.frame \in Int /\ stream'.frame \in Int
    BY DEF Positions
<1>3. Pictures'
    BY <1>2, PicturesKept
<1> QED
    BY <1>1, <1>3 DEF CaptureInv, Following, Collecting, Collected

\* The last packet of a segment that continues a frame or begins one.  A segment of
\* the expected number is of the frame in progress: were it of a later one, too many
\* numbered segments would have gone by.
LEMMA CopySegmentStep ==
    ASSUME Capture!TypeOK, CaptureInv, Pictures, cap.pc = "capture", ~captured,
           UNCHANGED <<vars, picture>>, NEW pos, NEW seg,
           Capture!CopySegment(seg), seg = pos.seg, segment_active' = FALSE,
           pos.frame \in NewFrames, pos.seg \in 1..NumSegments, SameSegment(stream, pos),
           \A p \in Capture!PacketIds :
               segmentBuffer'[p] = [frame |-> pos.frame, seg |-> pos.seg],
           stream \in Positions, stream' \in Positions, missed' = 0,
           NextSegment(pos, stream')
    PROVE  CaptureInv' /\ Pictures'
<1> USE Constants
<1>1. /\ frame_started' = TRUE /\ captured' = (seg = NumSegments)
      /\ frame_buffer' = [Capture!Base(seg) EXCEPT ![seg] = segmentBuffer']
      /\ expected_seg' = IF seg = NumSegments THEN expected_seg ELSE seg + 1
      /\ Capture!InOrder(seg) \/ seg = 1
    BY DEF Capture!CopySegment
<1>2. /\ pos.frame \in Int /\ stream.frame \in Int /\ stream'.frame \in Int
      /\ stream.frame = pos.frame /\ stream.seg = seg /\ pos.frame \notin Invalid
      /\ pos.frame <= stream'.frame
      /\ seg = NumSegments => stream'.frame = pos.frame + 1
      /\ seg # NumSegments => stream'.frame = pos.frame /\ stream'.seg = seg + 1
      /\ seg \in 1..NumSegments
    BY DEF NewFrames, Positions, SameSegment, NextSegment
<1>3. Pictures' /\ \A f : Newest(f)' <=> Newest(f)
    BY <1>2, PicturesKept
<1>4. HoldsUpTo(pos.frame, seg)' /\ Newest(pos.frame)
  <2>1. /\ Capture!Base(seg) \in [Capture!Segments -> [Capture!PacketIds -> Capture!Pixels]]
        /\ seg \in Capture!Segments
    <3>1. Capture!BlankFrame \in [Capture!Segments -> [Capture!PacketIds -> Capture!Pixels]]
        BY DEF Capture!BlankFrame, Capture!Pixels
    <3>2. frame_buffer \in [Capture!Segments -> [Capture!PacketIds -> Capture!Pixels]]
        BY DEF Capture!TypeOK
    <3> QED
        BY <1>2, <3>1, <3>2 DEF Capture!Base, Capture!Segments
  <2>2. /\ frame_buffer'[seg] = segmentBuffer'
        /\ \A s \in Capture!Segments : s # seg => frame_buffer'[s] = Capture!Base(seg)[s]
      BY <1>1, <2>1
  <2>3. CASE Capture!InOrder(seg)
    <3>1. frame_started /\ seg = expected_seg /\ Capture!Base(seg) = frame_buffer
        BY <2>3 DEF Capture!InOrder, Capture!Base
    <3>2. PICK f \in NewFrames : HoldsUpTo(f, expected_seg - 1) /\ Behind(f) /\ Newest(f)
        BY <3>1 DEF CaptureInv, Collecting
    <3>3. f = pos.frame
      <4>1. missed \in Int /\ missed < NumSegments /\ f \in Int
          BY DEF Capture!TypeOK, NewFrames
      <4>2. stream.frame > f => missed >= NumSegments - seg + seg
          BY <1>2, <3>1, <3>2 DEF Behind
      <4>3. ~(stream.frame > f)
          BY <1>2, <4>1, <4>2
      <4> QED
          BY <1>2, <3>2, <4>3 DEF Behind
    <3>4. ASSUME NEW s \in 1..seg, NEW p \in Capture!PacketIds
          PROVE  frame_buffer'[s][p] = [frame |-> f, seg |-> s]
      <4>1. CASE s = seg
          BY <2>2, <3>3, <4>1
      <4>2. CASE s # seg
        <5>1. s \in 1 .. expected_seg - 1 /\ s \in Capture!Segments
            BY <1>2, <3>1, <4>2 DEF Capture!Segments
        <5> QED
            BY <2>2, <3>1, <3>2, <4>2, <5>1 DEF HoldsUpTo
      <4> QED
          BY <4>1, <4>2
    <3> QED
        BY <3>2, <3>3, <3>4 DEF HoldsUpTo
  <2>4. CASE seg = 1
    <3>1. \A s \in 1..seg : s = seg
        BY <2>4
    <3>2. Newest(pos.frame)
        BY <1>2 DEF Pictures
    <3> QED
        BY <2>2, <3>1, <3>2 DEF HoldsUpTo
  <2> QED
      BY <1>1, <2>3, <2>4
<1>5. Newest(pos.frame)'
    BY <1>3, <1>4
<1>6. Following'
    BY DEF Following
<1>7. CASE seg = NumSegments
  <2>1. captured' = TRUE
      BY <1>1, <1>7
  <2>2. HoldsUpTo(pos.frame, NumSegments)' /\ stream'.frame > pos.frame
      BY <1>2, <1>4, <1>7
  <2> QED
      BY <1>3, <1>5, <1>6, <2>1, <2>2 DEF CaptureInv, Collecting, Collected
<1>8. CASE seg # NumSegments
  <2>1. ~captured' /\ expected_seg' = seg + 1
      BY <1>1, <1>8
  <2>2. Behind(pos.frame)'
      BY <1>2, <1>8, <2>1 DEF Behind
  <2>3. HoldsUpTo(pos.frame, expected_seg - 1)' /\ expected_seg' # 1
    <3>1. expected_seg' - 1 = seg /\ expected_seg' # 1
        BY <1>2, <2>1
    <3> QED
        BY <1>4, <3>1 DEF HoldsUpTo
  <2> QED
      BY <1>3, <1>5, <1>6, <2>1, <2>2, <2>3 DEF CaptureInv, Collecting, Collected
<1> QED
    BY <1>7, <1>8

LEMMA CompleteSegmentStep ==
    ASSUME Capture!TypeOK, CaptureInv, Pictures, NEW lost \in 0..MaxLost, NEW pos,
           Reads(lost, TRUE, pos), Capture!CompleteSegment(pos)
    PROVE  (Capture!TypeOK /\ CaptureInv /\ Pictures)'
<1> USE Constants
<1> DEFINE seg == Capture!SegmentNumber(pos)
<1>1. /\ Capture!Expected(pos) /\ pos.packet = PacketsPerSeg - 1 /\ Capture!Store(pos)
      /\ pos.packet = SegPacket => Capture!SegmentBits(pos) # 0
      /\ segment_active' = FALSE /\ expected_packet' = 0
      /\ Capture!OutOfOrder(seg) \/ Capture!CopySegment(seg)
    BY DEF Capture!CompleteSegment
<1>2. /\ pos.frame \in 1..MaxCamera /\ pos.seg \in 1..NumSegments
      /\ pos.packet \in 0 .. PacketsPerSeg - 1
      /\ stream.frame <= pos.frame /\ pos.frame <= stream'.frame
      /\ stream' \in Positions /\ missed' = 0 /\ missed' \in 0..MaxMissed
      /\ NextSegment(pos, stream')
      /\ lost = 0 => SameSegment(stream, pos)
    BY <1>1, AdvanceStep DEF Reads
<1>3. /\ pos.packet # 0 => segment_active
      /\ segment_active => SameSegment(stream, pos)
      /\ \A p \in 0 .. pos.packet :
             segmentBuffer'[p] = [frame |-> pos.frame, seg |-> pos.seg]
      /\ segmentBuffer' \in [Capture!PacketIds -> Capture!Pixels]
      /\ pos.packet >= SegPacket => pos.frame \notin Invalid /\ seg = pos.seg
    BY <1>1, NextPacket
<1> HIDE DEF seg
<1>4. pos.frame \in NewFrames /\ seg = pos.seg
    BY <1>1, <1>2, <1>3 DEF NewFrames
<1>5. SameSegment(stream, pos)
  <2>1. pos.packet = 0 => lost = 0
      BY <1>1
  <2> QED
      BY <1>2, <1>3, <2>1
<1>6. stream \in Positions /\ stream.frame <= stream'.frame
    BY <1>2, <1>5, Stream DEF Positions, SameSegment
<1>7. \A p \in Capture!PacketIds :
          segmentBuffer'[p] = [frame |-> pos.frame, seg |-> pos.seg]
    BY <1>1, <1>3 DEF Capture!PacketIds
<1>8. cap.pc = "capture" /\ ~captured /\ UNCHANGED <<vars, picture>>
    BY DEF Reads
<1>9. Capture!TypeOK'
  <2>1. /\ stream' \in [frame : 1 .. MaxCamera + 1, seg : Capture!Segments,
                        packet : Capture!PacketIds]
        /\ 0 \in Capture!PacketIds /\ 1 \in Capture!Segments /\ seg \in Capture!Segments
        /\ 0 \in 0..NumSegments
      BY <1>2, <1>4 DEF Positions, Capture!Segments, Capture!PacketIds
  <2>2. CASE Capture!OutOfOrder(seg)
    <3>1. /\ frame_started' = FALSE /\ expected_seg' = 1 /\ current_seg' = 0
          /\ UNCHANGED <<frame_buffer, captured>>
        BY <2>2 DEF Capture!OutOfOrder
    <3>2. /\ frame_started' \in BOOLEAN /\ captured' \in BOOLEAN
          /\ frame_buffer' \in [Capture!Segments -> [Capture!PacketIds -> Capture!Pixels]]
        BY <3>1 DEF Capture!TypeOK
    <3>3. segment_active' \in BOOLEAN
        BY <1>1
    <3>4. /\ expected_seg' \in Capture!Segments /\ current_seg' \in 0..NumSegments
          /\ expected_packet' \in Capture!PacketIds
        BY <1>1, <2>1, <3>1
    <3> QED
        BY <1>2, <1>3, <2>1, <3>2, <3>3, <3>4 DEF Capture!TypeOK
  <2>3. CASE Capture!CopySegment(seg)
    <3>1. frame_buffer' \in [Capture!Segments -> [Capture!PacketIds -> Capture!Pixels]]
      <4>1. Capture!BlankFrame \in [Capture!Segments -> [Capture!PacketIds -> Capture!Pixels]]
          BY DEF Capture!BlankFrame, Capture!Pixels
      <4>2. frame_buffer' = [Capture!Base(seg) EXCEPT ![seg] = segmentBuffer']
          BY <2>3 DEF Capture!CopySegment
      <4> QED
          BY <1>3, <4>1, <4>2 DEF Capture!Base, Capture!TypeOK
    <3>2. expected_seg' \in Capture!Segments
      <4>1. expected_seg' = IF seg = NumSegments THEN expected_seg ELSE seg + 1
          BY <2>3 DEF Capture!CopySegment
      <4>2. seg # NumSegments => seg + 1 \in Capture!Segments
          BY <2>1 DEF Capture!Segments
      <4> QED
          BY <4>1, <4>2 DEF Capture!TypeOK
    <3>3. /\ frame_started' = TRUE /\ captured' = (seg = NumSegments)
          /\ current_seg' = 0
        BY <2>3 DEF Capture!CopySegment
    <3>4. /\ frame_started' \in BOOLEAN /\ captured' \in BOOLEAN
          /\ segment_active' \in BOOLEAN
        BY <1>1, <3>3
    <3>5. current_seg' \in 0..NumSegments /\ expected_packet' \in Capture!PacketIds
        BY <1>1, <2>1, <3>3
    <3> QED
        BY <1>2, <1>3, <2>1, <3>1, <3>2, <3>4, <3>5 DEF Capture!TypeOK
  <2> QED
      BY <1>1, <2>2, <2>3
<1>10. CASE Capture!OutOfOrder(seg)
    BY <1>1, <1>2, <1>6, <1>8, <1>9, <1>10, OutOfOrderStep
<1>11. CASE Capture!CopySegment(seg)
    BY <1>1, <1>2, <1>4, <1>5, <1>6, <1>7, <1>8, <1>9, <1>11, CopySegmentStep
<1> QED
    BY <1>1, <1>9, <1>10, <1>11

LEMMA ReadsStep ==
    ASSUME Capture!TypeOK, CaptureInv, Pictures, CaptureReads
    PROVE  (Capture!TypeOK /\ CaptureInv /\ Pictures)'
<1>1. cap.pc = "capture" /\ UNCHANGED <<vars, picture>>
    BY DEF CaptureReads
<1>2. CASE Capture!DiscardPacket
    BY <1>1, <1>2, DiscardStep
<1>3. CASE Capture!ReadPacket
  <2>0. PICK lost \in 0..MaxLost : \E pos :
            /\ pos = Capture!Ahead(stream, lost)
            /\ \/ Capture!Advance(lost, FALSE) /\ Capture!SkipPacket(pos)
               \/ Capture!Advance(lost, FALSE) /\ Capture!WrongPacket(pos)
               \/ Capture!Advance(lost, FALSE) /\ Capture!UnnumberedSegment(pos)
               \/ Capture!Advance(lost, FALSE) /\ Capture!StorePacket(pos)
               \/ Capture!Advance(lost, TRUE) /\ Capture!CompleteSegment(pos)
      BY <1>3 DEF Capture!ReadPacket
  <2>1. PICK pos :
            /\ pos = Capture!Ahead(stream, lost)
            /\ \/ Capture!Advance(lost, FALSE) /\ Capture!SkipPacket(pos)
               \/ Capture!Advance(lost, FALSE) /\ Capture!WrongPacket(pos)
               \/ Capture!Advance(lost, FALSE) /\ Capture!UnnumberedSegment(pos)
               \/ Capture!Advance(lost, FALSE) /\ Capture!StorePacket(pos)
               \/ Capture!Advance(lost, TRUE) /\ Capture!CompleteSegment(pos)
      BY <2>0
  <2>2. ~captured
      BY <1>3 DEF Capture!ReadPacket
  <2>3. CASE Capture!Advance(lost, FALSE)
             /\ (\/ Capture!SkipPacket(pos) \/ Capture!WrongPacket(pos)
                 \/ Capture!UnnumberedSegment(pos))
    <3>1. Reads(lost, FALSE, pos)
        BY <1>1, <2>1, <2>2, <2>3 DEF Reads
    <3> QED
        BY <2>3, <3>1, DroppedStep
  <2>4. CASE Capture!Advance(lost, FALSE) /\ Capture!StorePacket(pos)
    <3>1. Reads(lost, FALSE, pos)
        BY <1>1, <2>1, <2>2, <2>4 DEF Reads
    <3> QED
        BY <2>4, <3>1, StorePacketStep
  <2>5. CASE Capture!Advance(lost, TRUE) /\ Capture!CompleteSegment(pos)
    <3>1. Reads(lost, TRUE, pos)
        BY <1>1, <2>1, <2>2, <2>5 DEF Reads
    <3> QED
        BY <2>5, <3>1, CompleteSegmentStep
  <2> QED
      BY <2>1, <2>3, <2>4, <2>5
<1> QED
    BY <1>2, <1>3 DEF CaptureReads

-----------------------------------------------------------------------------
(* captureFrame begins and returns, the buffers move.                      *)

LEMMA RestartStep ==
    ASSUME Capture!TypeOK, Capture!Restart
    PROVE  Capture!TypeOK' /\ CaptureInv' /\ stream' = stream
           /\ ~frame_started' /\ ~captured'
<1> USE Constants
<1>1. /\ current_seg' = 0 /\ expected_seg' = 1 /\ expected_packet' = 0
      /\ frame_started' = FALSE /\ segment_active' = FALSE /\ captured' = FALSE
      /\ frame_buffer' = Capture!BlankFrame
      /\ UNCHANGED <<stream, missed, segmentBuffer>>
    BY DEF Capture!Restart
<1>2. Capture!BlankFrame \in [Capture!Segments -> [Capture!PacketIds -> Capture!Pixels]]
    BY DEF Capture!BlankFrame, Capture!Pixels
<1>3. 0 \in 0..NumSegments /\ 1 \in Capture!Segments /\ 0 \in Capture!PacketIds
    BY DEF Capture!Segments, Capture!PacketIds
<1>4. Capture!TypeOK'
    BY <1>1, <1>2, <1>3 DEF Capture!TypeOK
<1> QED
    BY <1>1, <1>4 DEF CaptureInv, Following, Collecting, Collected

\* What the main loop finds in a captured buffer is the frame it holds.
LEMMA PictureOfWhole ==
    ASSUME NEW f \in NewFrames, HoldsUpTo(f, NumSegments)
    PROVE  PictureOf(frame_buffer) = f
<1> DEFINE whole == {g \in 1..MaxCamera : \A s \in Capture!Segments, p \in Capture!PacketIds :
                                 frame_buffer[s][p] = [frame |-> g, seg |-> s]}
<1>1. f \in whole
    BY DEF NewFrames, HoldsUpTo, Capture!Segments
<1>2. ASSUME NEW g \in whole PROVE g = f
  <2>1. 1 \in Capture!Segments /\ 0 \in Capture!PacketIds
      BY Constants DEF Capture!Segments, Capture!PacketIds
  <2>2. frame_buffer[1][0] = [frame |-> g, seg |-> 1] /\ frame_buffer[1][0] = [frame |-> f, seg |-> 1]
      BY <1>1, <2>1
  <2>3. [frame |-> g, seg |-> 1].frame = g /\ [frame |-> f, seg |-> 1].frame = f
      OBVIOUS
  <2> QED
      BY ONLY <2>2, <2>3
<1>3. PictureOf(frame_buffer) = IF whole = {} THEN 0 ELSE CHOOSE g \in whole : TRUE
    BY DEF PictureOf
<1> HIDE DEF whole
<1> QED
    BY <1>1, <1>2, <1>3

TInv == FInv /\ Capture!TypeOK /\ CaptureInv /\ Pictures /\ picture \in [Buffers -> Int]

LEMMA CaptureReturnsStep ==
    ASSUME TInv, CaptureReturns
    PROVE  (Capture!TypeOK /\ CaptureInv /\ Pictures)' /\ picture' \in [Buffers -> Int]
<1> USE DEF TInv
<1>1. /\ cap.pc = "capture" /\ cap' = [cap EXCEPT !.pc = "put"]
      /\ UNCHANGED <<ready_frame_queue, snd>>
      /\ captured /\ Capture!Restart
      /\ picture' = [picture EXCEPT ![cap.buf] = PictureOf(frame_buffer)]
    BY DEF CaptureReturns, CaptureOk, Capture!NextCapture
<1>2. /\ cap.buf \in Buffers /\ cap'.pc = "put" /\ cap'.buf = cap.buf
      /\ snd.buf # cap.buf /\ ~Holds(ready_frame_queue, cap.buf)
    BY <1>1, NoneIsNoBuffer DEF FInv, Typed, Conserved
<1>3. PICK f \in NewFrames : HoldsUpTo(f, NumSegments) /\ stream.frame > f /\ Newest(f)
    BY <1>1 DEF CaptureInv, Collected
<1>4. f \in Int /\ PictureOf(frame_buffer) = f
    BY <1>3, Constants, PictureOfWhole DEF NewFrames
<1>5. /\ picture' \in [Buffers -> Int] /\ picture'[cap.buf] = f
      /\ \A b \in Buffers : b # cap.buf => picture'[b] = picture[b]
    BY <1>1, <1>2, <1>4
<1>6. /\ snd.pc = "send" => picture'[snd.buf] = picture[snd.buf]
      /\ \A i \in DOMAIN ready_frame_queue :
             picture'[ready_frame_queue[i]] = picture[ready_frame_queue[i]]
  <2>1. snd.pc = "send" => snd.buf \in Buffers
      BY DEF FInv, Typed
  <2>2. \A i \in DOMAIN ready_frame_queue :
            ready_frame_queue[i] \in Buffers /\ ready_frame_queue[i] # cap.buf
      BY <1>2 DEF FInv, Typed, Holds
  <2> QED
      BY <1>2, <1>5, <2>1, <2>2
<1>7. \A g : Newest(g)' <=> Newest(g)
    BY <1>1, <1>6 DEF Newest
<1>8. /\ Capture!TypeOK' /\ CaptureInv' /\ stream' = stream
      /\ ~frame_started' /\ ~captured'
    BY <1>1, RestartStep
<1>9. Newest(stream.frame)
    BY DEF Pictures
<1>10. Newest(f)' /\ Newest(stream.frame)'
  <2>1. stream'.frame = stream.frame
      BY <1>8
  <2>2. Newest(stream.frame)'
      BY <1>1, <1>6, <1>9, <2>1 DEF Newest
  <2> QED
      BY <1>3, <1>7, <2>2
<1>11. Newest(picture[cap.buf])'
    BY <1>1, <1>2, <1>5, <1>10 DEF Newest
<1>12. f < stream'.frame
    BY <1>3, <1>4, <1>8 DEF Capture!TypeOK
<1>13. Pictures'
    BY <1>1, <1>2, <1>3, <1>5, <1>6, <1>8, <1>10, <1>11, <1>12 DEF Pictures
<1> QED
    BY <1>5, <1>8, <1>13

LEMMA CaptureGivesUpStep ==
    ASSUME TInv, CaptureGivesUp
    PROVE  (Capture!TypeOK /\ CaptureInv /\ Pictures)'
<1>1. /\ cap' = [pc |-> "get", buf |-> None] /\ UNCHANGED <<ready_frame_queue, snd, picture>>
      /\ Capture!Restart
    BY DEF CaptureGivesUp, CaptureTimeout, Capture!CaptureTimeout
<1>2. /\ Capture!TypeOK' /\ CaptureInv' /\ stream' = stream
      /\ ~frame_started' /\ ~captured'
    BY <1>1, RestartStep DEF TInv
<1>3. Pictures'
    BY <1>1, <1>2 DEF TInv, Pictures, Newest
<1> QED
    BY <1>2, <1>3

\* The oldest ready buffer leaves the queue.
LEMMA TailOfReady ==
    ASSUME TInv, ready_frame_queue # <<>>, ready_frame_queue' = Tail(ready_frame_queue),
           picture' = picture
    PROVE  /\ Head(ready_frame_queue) = ready_frame_queue[1]
           /\ 1 \in DOMAIN ready_frame_queue
           /\ \A i \in DOMAIN ready_frame_queue' :
                  /\ i \in Int /\ i + 1 \in DOMAIN ready_frame_queue /\ 1 < i + 1
                  /\ ready_frame_queue'[i] = ready_frame_queue[i + 1]
<1>1. ready_frame_queue \in Seq(Buffers)
    BY DEF TInv, FInv, Typed
<1>2. /\ Tail(ready_frame_queue) \in Seq(Buffers)
      /\ Head(ready_frame_queue) = ready_frame_queue[1]
      /\ Len(Tail(ready_frame_queue)) = Len(ready_frame_queue) - 1
      /\ \A i \in 1..Len(Tail(ready_frame_queue)) :
             Tail(ready_frame_queue)[i] = ready_frame_queue[i+1]
    BY <1>1, HeadTailProperties
<1>3. /\ Len(ready_frame_queue) \in Nat /\ Len(ready_frame_queue) # 0
      /\ DOMAIN ready_frame_queue = 1..Len(ready_frame_queue)
      /\ DOMAIN ready_frame_queue' = 1..Len(Tail(ready_frame_queue))
    BY <1>1, <1>2, EmptySeq
<1> QED
    BY <1>2, <1>3

\* A step outside of captureFrame.
LEMMA OutsideStep ==
    ASSUME TInv, UNCHANGED <<captureVars, picture>>,
           \/ \A f : Newest(f) => Newest(f)'
           \/ ~frame_started /\ ~captured
    PROVE  Capture!TypeOK' /\ CaptureInv' /\ stream' = stream
<1>1. UNCHANGED <<stream, missed, current_seg, expected_seg, expected_packet,
                  frame_started, segment_active, segmentBuffer, frame_buffer, captured>>
    BY DEF captureVars
<1>2. Capture!TypeOK'
    BY <1>1 DEF TInv, Capture!TypeOK
<1>3. Following'
    BY <1>1 DEF TInv, CaptureInv, Following
<1>4. \A f, n : HoldsUpTo(f, n)' <=> HoldsUpTo(f, n)
    BY <1>1 DEF HoldsUpTo
<1>5. \A f : Behind(f)' <=> Behind(f)
    BY <1>1 DEF Behind
<1>6. Collecting' /\ Collected'
    BY <1>1, <1>4, <1>5 DEF TInv, CaptureInv, Collecting, Collected
<1> QED
    BY <1>1, <1>2, <1>3, <1>6 DEF CaptureInv

LEMMA MainLoopStep ==
    ASSUME TInv, MainLoop PROVE (Capture!TypeOK /\ CaptureInv /\ Pictures)'
<1> USE DEF TInv
<1>1. UNCHANGED <<captureVars, picture>> /\ UNCHANGED <<stream, frame_started, captured>>
    BY DEF MainLoop, captureVars
<1>2. CASE TakeFree
  <2>1. cap'.pc = "capture" /\ UNCHANGED <<ready_frame_queue, snd>>
      BY <1>2 DEF TakeFree, StartCapture
  <2>2. \A f : Newest(f)' <=> Newest(f)
      BY <1>1, <2>1 DEF Newest
  <2>3. Newest(stream.frame)'
      BY <1>1, <2>1 DEF Newest, Pictures
  <2> QED
      BY <1>1, <2>1, <2>2, <2>3, OutsideStep DEF Pictures
<1>3. CASE StealReady
  <2>1. /\ cap'.pc = "capture" /\ UNCHANGED snd /\ ready_frame_queue # <<>>
        /\ ready_frame_queue' = Tail(ready_frame_queue)
      BY <1>3 DEF StealReady, StartCapture
  <2>2. \A i \in DOMAIN ready_frame_queue' :
            /\ i \in Int /\ i + 1 \in DOMAIN ready_frame_queue
            /\ ready_frame_queue'[i] = ready_frame_queue[i + 1]
      BY <1>1, <2>1, TailOfReady
  <2>3. \A f : Newest(f) => Newest(f)'
      BY <1>1, <2>1, <2>2 DEF Newest
  <2>4. Newest(stream.frame)'
      BY <1>1, <2>1, <2>2 DEF Newest, Pictures
  <2>5. \A i, j \in DOMAIN ready_frame_queue' : i < j =>
            picture[ready_frame_queue'[i]] < picture[ready_frame_queue'[j]]
    <3>1. \A i, j \in DOMAIN ready_frame_queue' : i < j => i + 1 < j + 1
        BY <2>2
    <3> QED
        BY <2>2, <3>1 DEF Pictures
  <2>6. Pictures'
      BY <1>1, <2>1, <2>2, <2>4, <2>5 DEF Pictures
  <2> QED
      BY <1>1, <2>3, <2>6, OutsideStep
<1>4. CASE PutReady
  <2>1. /\ cap.pc = "put" /\ cap'.pc = "get" /\ UNCHANGED snd
        /\ ready_frame_queue' \in {ready_frame_queue, Append(ready_frame_queue, cap.buf)}
      BY <1>4 DEF PutReady
  <2>2. /\ cap.buf \in Buffers /\ ready_frame_queue \in Seq(Buffers)
        /\ picture[cap.buf] \in NewFrames /\ Newest(picture[cap.buf])
        /\ picture[cap.buf] < stream.frame /\ ~frame_started /\ ~captured
      BY <2>1, NoneIsNoBuffer DEF FInv, Typed, Pictures
  <2>3. /\ Len(ready_frame_queue) \in Nat
        /\ DOMAIN ready_frame_queue = 1..Len(ready_frame_queue)
        /\ \A i \in DOMAIN ready_frame_queue' :
               \/ i \in DOMAIN ready_frame_queue /\ ready_frame_queue'[i] = ready_frame_queue[i]
               \/ i = Len(ready_frame_queue) + 1 /\ ready_frame_queue'[i] = cap.buf
    <3>1. /\ Len(Append(ready_frame_queue, cap.buf)) = Len(ready_frame_queue) + 1
          /\ Append(ready_frame_queue, cap.buf) \in Seq(Buffers)
          /\ \A i \in 1..Len(ready_frame_queue) :
                 Append(ready_frame_queue, cap.buf)[i] = ready_frame_queue[i]
          /\ Append(ready_frame_queue, cap.buf)[Len(ready_frame_queue) + 1] = cap.buf
        BY <2>2, AppendProperties
    <3>2. DOMAIN Append(ready_frame_queue, cap.buf) = 1 .. Len(ready_frame_queue) + 1
        BY <3>1
    <3>3. Len(ready_frame_queue) \in Nat
          /\ DOMAIN ready_frame_queue = 1..Len(ready_frame_queue)
        BY <2>2
    <3> QED
        BY <2>1, <3>1, <3>2, <3>3
  <2>4. Newest(stream.frame)'
      BY <1>1, <2>1, <2>2, <2>3 DEF Newest, Pictures
  <2>5. \A i, j \in DOMAIN ready_frame_queue' : i < j =>
            picture[ready_frame_queue'[i]] < picture[ready_frame_queue'[j]]
    <3> SUFFICES ASSUME NEW i \in DOMAIN ready_frame_queue', NEW j \in DOMAIN ready_frame_queue',
                        i < j
                 PROVE  picture[ready_frame_queue'[i]] < picture[ready_frame_queue'[j]]
        OBVIOUS
    <3>1. i \in DOMAIN ready_frame_queue /\ ready_frame_queue'[i] = ready_frame_queue[i]
        BY <2>3
    <3>2. CASE j \in DOMAIN ready_frame_queue /\ ready_frame_queue'[j] = ready_frame_queue[j]
        BY <3>1, <3>2 DEF Pictures
    <3>3. CASE ready_frame_queue'[j] = cap.buf
        BY <2>2, <3>1, <3>3 DEF Newest
    <3> QED
        BY <2>3, <3>2, <3>3
  <2>6. \A i \in DOMAIN ready_frame_queue' : picture[ready_frame_queue'[i]] \in NewFrames
      BY <2>2, <2>3 DEF Pictures
  <2>7. snd.pc = "send" => /\ picture[snd.buf] \in NewFrames
                           /\ \A i \in DOMAIN ready_frame_queue' :
                                 picture[snd.buf] < picture[ready_frame_queue'[i]]
      BY <2>2, <2>3 DEF Pictures, Newest
  <2>8. Pictures'
      BY <1>1, <2>1, <2>2, <2>4, <2>5, <2>6, <2>7 DEF Pictures
  <2> QED
      BY <1>1, <2>2, <2>8, OutsideStep
<1> QED
    BY <1>2, <1>3, <1>4 DEF MainLoop

LEMMA SenderPictures ==
    ASSUME TInv, Sender PROVE (Capture!TypeOK /\ CaptureInv /\ Pictures)'
<1> USE DEF TInv
<1>1. /\ UNCHANGED <<captureVars, picture>> /\ UNCHANGED <<stream, frame_started, captured>>
      /\ cap' = cap
    BY DEF Sender, captureVars, SenderStep, SenderGet, SenderSent, SenderFree
<1>2. CASE SenderGet
  <2>1. /\ ready_frame_queue # <<>> /\ ready_frame_queue' = Tail(ready_frame_queue)
        /\ snd'.pc = "send" /\ snd'.buf = Head(ready_frame_queue)
      BY <1>2 DEF SenderGet
  <2>2. /\ Head(ready_frame_queue) = ready_frame_queue[1]
        /\ 1 \in DOMAIN ready_frame_queue
        /\ \A i \in DOMAIN ready_frame_queue' :
               /\ i \in Int /\ i + 1 \in DOMAIN ready_frame_queue /\ 1 < i + 1
               /\ ready_frame_queue'[i] = ready_frame_queue[i + 1]
      BY <1>1, <2>1, TailOfReady
  <2>3. \A f : Newest(f) => Newest(f)'
      BY <1>1, <2>1, <2>2 DEF Newest
  <2>4. Newest(stream.frame)'
      BY <1>1, <2>1, <2>2 DEF Newest, Pictures
  <2>5. \A i, j \in DOMAIN ready_frame_queue' : i < j =>
            picture[ready_frame_queue'[i]] < picture[ready_frame_queue'[j]]
    <3>1. \A i, j \in DOMAIN ready_frame_queue' : i < j => i + 1 < j + 1
        BY <2>2
    <3> QED
        BY <2>2, <3>1 DEF Pictures
  <2>6. /\ picture[snd'.buf] \in NewFrames
        /\ \A i \in DOMAIN ready_frame_queue' :
              picture[snd'.buf] < picture[ready_frame_queue'[i]]
      BY <2>1, <2>2 DEF Pictures
  <2>7. cap.pc = "put" => Newest(picture[cap.buf])'
      BY <1>1, <2>1, <2>2 DEF Newest, Pictures
  <2>8. Pictures'
      BY <1>1, <2>1, <2>2, <2>4, <2>5, <2>6, <2>7 DEF Pictures
  <2> QED
      BY <1>1, <2>3, <2>8, OutsideStep
<1>3. CASE SenderSent \/ SenderFree
  <2>1. ready_frame_queue' = ready_frame_queue /\ snd'.pc # "send"
    <3>1. snd \in [pc : {"get", "send", "put"}, buf : Buffers \cup {None}, id : Int]
        BY DEF FInv, Typed
    <3> QED
        BY <1>3, <3>1 DEF SenderSent, SenderFree
  <2>2. \A f : Newest(f) => Newest(f)'
      BY <1>1, <2>1 DEF Newest
  <2>3. Newest(stream.frame)' /\ (cap.pc = "put" => Newest(picture[cap.buf])')
      BY <1>1, <2>1 DEF Newest, Pictures
  <2>4. Pictures'
      BY <1>1, <2>1, <2>3 DEF Pictures
  <2> QED
      BY <1>1, <2>2, <2>4, OutsideStep
<1> QED
    BY <1>2, <1>3 DEF Sender, SenderStep

LEMMA InitTInv == TeensyInit => TInv
<1> SUFFICES ASSUME TeensyInit PROVE TInv
    OBVIOUS
<1> USE Constants
<1>1. FInv /\ Init /\ Capture!Init /\ picture = [b \in Buffers |-> 0]
    BY InitFInv DEF TeensyInit
<1>2. Capture!TypeOK
  <2>1. Capture!BlankFrame \in [Capture!Segments -> [Capture!PacketIds -> Capture!Pixels]]
      BY DEF Capture!BlankFrame, Capture!Pixels
  <2>2. /\ 0 \in 0..NumSegments /\ 1 \in Capture!Segments /\ 0 \in Capture!PacketIds
        /\ 1 \in 1 .. MaxCamera + 1 /\ 0 \in 0..MaxMissed
      BY DEF Capture!Segments, Capture!PacketIds
  <2>3. [p \in Capture!PacketIds |-> Capture!Blank] \in [Capture!PacketIds -> Capture!Pixels]
      BY DEF Capture!Pixels
  <2> QED
      BY <1>1, <2>1, <2>2, <2>3 DEF Capture!Init, Capture!TypeOK
<1>3. ~segment_active /\ ~frame_started /\ ~captured
    BY <1>1 DEF Capture!Init
<1>4. Pictures
  <2>1. DOMAIN ready_frame_queue = {} /\ snd.pc = "get" /\ cap.pc = "get"
    <3>1. ready_frame_queue = <<>>
        BY <1>1 DEF Init
    <3> QED
        BY <1>1, <3>1, EmptySeq DEF Init
  <2> QED
      BY <1>3, <2>1 DEF Pictures, Newest
<1>5. picture \in [Buffers -> Int]
    BY <1>1
<1> QED
    BY <1>1, <1>2, <1>3, <1>4, <1>5
    DEF TInv, CaptureInv, Following, Collecting, Collected

LEMMA TInvHolds == TeensySpec => []TInv
<1>1. TInv /\ FInv' /\ [TeensyNext]_allVars => TInv'
  <2> SUFFICES ASSUME TInv, FInv', [TeensyNext]_allVars PROVE TInv'
      OBVIOUS
  <2>1. CASE MainLoop
    <3>1. picture' = picture
        BY <2>1 DEF MainLoop
    <3> QED
        BY <2>1, <3>1, MainLoopStep DEF TInv
  <2>2. CASE CaptureReads
    <3>1. picture' = picture
        BY <2>2 DEF CaptureReads
    <3> QED
        BY <2>2, <3>1, ReadsStep DEF TInv
  <2>3. CASE CaptureReturns
      BY <2>3, CaptureReturnsStep DEF TInv
  <2>4. CASE CaptureGivesUp
    <3>1. picture' = picture
        BY <2>4 DEF CaptureGivesUp
    <3> QED
        BY <2>4, <3>1, CaptureGivesUpStep DEF TInv
  <2>5. CASE Sender
    <3>1. picture' = picture
        BY <2>5 DEF Sender
    <3> QED
        BY <2>5, <3>1, SenderPictures DEF TInv
  <2>6. CASE UNCHANGED allVars
    <3>1. /\ UNCHANGED <<captureVars, picture>> /\ UNCHANGED <<ready_frame_queue, snd, cap>>
          /\ UNCHANGED <<stream, frame_started, captured>>
        BY <2>6 DEF allVars, vars, captureVars
    <3>2. \A f : Newest(f) => Newest(f)'
        BY <3>1 DEF Newest
    <3>3. Capture!TypeOK' /\ CaptureInv'
        BY <3>1, <3>2, OutsideStep
    <3>4. Pictures'
        BY <3>1 DEF TInv, Pictures, Newest
    <3> QED
        BY <3>1, <3>3, <3>4 DEF TInv
  <2> QED
      BY <2>1, <2>2, <2>3, <2>4, <2>5, <2>6 DEF TeensyNext, Main
<1> QED
    BY <1>1, InitTInv, FInvHolds, PTL DEF TeensySpec

\* What captureFrame returns as captured is one frame of the camera.
THEOREM WholeFrameHolds == TeensySpec => []WholeFrame
<1>1. TInv => WholeFrame
    BY DEF TInv, CaptureInv, Collected, WholeFrame, Capture!WholeFrame, HoldsUpTo,
           NewFrames, Capture!Segments
<1> QED
    BY <1>1, TInvHolds, PTL

\* The pictures on their way out are frames the camera numbered, in its order.
THEOREM PicturesInOrderHolds == TeensySpec => []PicturesInOrder
<1>1. TInv => PicturesInOrder
  <2> SUFFICES ASSUME TInv PROVE PicturesInOrder
      OBVIOUS
  <2>1. /\ Pictures /\ ready_frame_queue \in Seq(Buffers)
        /\ snd.pc = "send" => snd.buf \in Buffers
      BY DEF TInv, FInv, Typed
  <2>2. CASE snd.pc # "send"
    <3>1. Outgoing = ready_frame_queue
        BY <2>1, <2>2 DEF Outgoing
    <3> QED
        BY <2>1, <3>1 DEF PicturesInOrder, Pictures, NewFrames
  <2>3. CASE snd.pc = "send"
    <3>1. Outgoing = <<snd.buf>> \o ready_frame_queue
        BY <2>3 DEF Outgoing
    <3>2. /\ <<snd.buf>> \in Seq(Buffers) /\ Len(<<snd.buf>>) = 1
          /\ <<snd.buf>>[1] = snd.buf
        BY <2>1, <2>3
    <3>3. /\ Len(Outgoing) = 1 + Len(ready_frame_queue)
          /\ Outgoing \in Seq(Buffers)
          /\ \A i \in 1 .. 1 + Len(ready_frame_queue) :
                 Outgoing[i] = IF i <= 1 THEN <<snd.buf>>[i] ELSE ready_frame_queue[i - 1]
        BY <2>1, <3>1, <3>2, ConcatProperties
    <3>4. /\ Len(ready_frame_queue) \in Nat
          /\ DOMAIN ready_frame_queue = 1..Len(ready_frame_queue)
          /\ DOMAIN Outgoing = 1 .. 1 + Len(ready_frame_queue)
        BY <2>1, <3>3
    <3>5. \A i \in DOMAIN Outgoing :
              \/ i = 1 /\ Outgoing[i] = snd.buf
              \/ /\ i - 1 \in DOMAIN ready_frame_queue /\ i \in Int /\ i > 1
                 /\ Outgoing[i] = ready_frame_queue[i - 1]
        BY <3>2, <3>3, <3>4
    <3>6. \A i \in DOMAIN Outgoing : picture[Outgoing[i]] \in (1..MaxCamera) \ Invalid
        BY <2>1, <2>3, <3>5 DEF Pictures, NewFrames
    <3>7. \A i, j \in DOMAIN Outgoing :
              i < j => picture[Outgoing[i]] < picture[Outgoing[j]]
      <4> SUFFICES ASSUME NEW i \in DOMAIN Outgoing, NEW j \in DOMAIN Outgoing, i < j
                   PROVE  picture[Outgoing[i]] < picture[Outgoing[j]]
          OBVIOUS
      <4>1. /\ j - 1 \in DOMAIN ready_frame_queue
            /\ Outgoing[j] = ready_frame_queue[j - 1]
          BY <3>4, <3>5
      <4>2. CASE i = 1
          BY <2>1, <2>3, <3>5, <4>1, <4>2 DEF Pictures
      <4>3. CASE i # 1
        <5>1. /\ i - 1 \in DOMAIN ready_frame_queue /\ i - 1 < j - 1
              /\ Outgoing[i] = ready_frame_queue[i - 1]
            BY <3>4, <3>5, <4>3
        <5> QED
            BY <2>1, <4>1, <5>1 DEF Pictures
      <4> QED
          BY <4>2, <4>3
    <3> QED
        BY <3>6, <3>7 DEF PicturesInOrder
  <2> QED
      BY <2>2, <2>3
<1> QED
    BY <1>1, TInvHolds, PTL
=============================================================================
