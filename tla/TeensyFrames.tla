---------------------------- MODULE TeensyFrames ----------------------------
(***************************************************************************)
(* The two threads of the Teensy firmware and the frame buffers that go    *)
(* round between them: the main loop captures into a free buffer, or into  *)
(* the oldest ready one if none is free, and queues it; frameSenderThread  *)
(* takes the oldest ready buffer, sends it over SPI and frees it.          *)
(*                                                                         *)
(* captureFrame is a step here (TeensyCapture has its loop); a buffer's    *)
(* pixels are abstracted to the id of the frame captured into it.          *)
(***************************************************************************)
EXTENDS Integers, Sequences

CONSTANTS
    NumBuffers,     \* FRAME_BUFFER_COUNT, also the depth of the two queues
    ResetAfter,     \* CAPTURE_TIMEOUT_RESET_THRESHOLD
    MaxFrames       \* bound: frames captured

ASSUME FramesAssumption ==
    /\ NumBuffers \in Nat \ {0}
    /\ ResetAfter \in Nat \ {0}
    /\ MaxFrames \in Nat

VARIABLES
    free_frame_queue, ready_frame_queue,
    frameBuffers, frameIds,
    frame_id, timeouts,     \* frame_id and consecutive_capture_timeouts of main
    cap,                    \* the main loop: position and buffer_idx
    snd                     \* frameSenderThread: position, buffer_idx and frame_id

vars == <<free_frame_queue, ready_frame_queue, frameBuffers, frameIds, frame_id,
          timeouts, cap, snd>>

Buffers == 0 .. NumBuffers - 1
None == -1
Partial == 0            \* the pixels of a frame that is being captured
FrameIds == 1 .. MaxFrames

QueueType == UNION {[1 .. n -> Buffers] : n \in 0 .. NumBuffers}

TypeOK ==
    /\ free_frame_queue \in QueueType
    /\ ready_frame_queue \in QueueType
    /\ frameBuffers \in [Buffers -> FrameIds \cup {Partial}]
    /\ frameIds \in [Buffers -> 0 .. MaxFrames + 1]
    /\ frame_id \in 1 .. MaxFrames + 1
    /\ timeouts \in 0 .. ResetAfter - 1
    /\ cap \in [pc : {"get", "capture", "put"}, buf : Buffers \cup {None}]
    /\ snd \in [pc : {"get", "send", "put"}, buf : Buffers \cup {None},
                id : 0 .. MaxFrames + 1]

Init ==
    /\ free_frame_queue = [i \in 1 .. NumBuffers |-> i - 1]
    /\ ready_frame_queue = <<>>
    /\ frameBuffers = [b \in Buffers |-> Partial]
    /\ frameIds = [b \in Buffers |-> 0]
    /\ frame_id = 1
    /\ timeouts = 0
    /\ cap = [pc |-> "get", buf |-> None]
    /\ snd = [pc |-> "get", buf |-> None, id |-> 0]

----------------------------------------------------------------------------
(* The main loop. *)

\* The buffer is in hand: its id is set and captureFrame clears it.
StartCapture(b) ==
    /\ cap' = [pc |-> "capture", buf |-> b]
    /\ frameIds' = [frameIds EXCEPT ![b] = frame_id]
    /\ frameBuffers' = [frameBuffers EXCEPT ![b] = Partial]
    /\ UNCHANGED <<frame_id, timeouts, snd>>

TakeFree ==
    /\ cap.pc = "get"
    /\ free_frame_queue # <<>>
    /\ free_frame_queue' = Tail(free_frame_queue)
    /\ UNCHANGED ready_frame_queue
    /\ StartCapture(Head(free_frame_queue))

\* No buffer is free: the oldest frame that waits to be sent is dropped.
StealReady ==
    /\ cap.pc = "get"
    /\ free_frame_queue = <<>>
    /\ ready_frame_queue # <<>>
    /\ ready_frame_queue' = Tail(ready_frame_queue)
    /\ UNCHANGED free_frame_queue
    /\ StartCapture(Head(ready_frame_queue))

CaptureOk ==
    /\ cap.pc = "capture"
    /\ frame_id <= MaxFrames
    /\ frameBuffers' = [frameBuffers EXCEPT ![cap.buf] = frame_id]
    /\ timeouts' = 0
    /\ cap' = [cap EXCEPT !.pc = "put"]
    /\ UNCHANGED <<free_frame_queue, ready_frame_queue, frameIds, frame_id, snd>>

\* Mutant: the buffer of a failed capture is queued for sending.
CaptureTimeout_ready ==
    /\ cap.pc = "capture"
    /\ Len(ready_frame_queue) < NumBuffers
    /\ ready_frame_queue' = Append(ready_frame_queue, cap.buf)
    /\ timeouts' = (timeouts + 1) % ResetAfter
    /\ cap' = [pc |-> "get", buf |-> None]
    /\ UNCHANGED <<free_frame_queue, frameBuffers, frameIds, frame_id, snd>>

\* Mutant: the buffer of a failed capture is not given back.
CaptureTimeout_leaks ==
    /\ cap.pc = "capture"
    /\ timeouts' = (timeouts + 1) % ResetAfter
    /\ cap' = [pc |-> "get", buf |-> None]
    /\ UNCHANGED <<free_frame_queue, ready_frame_queue, frameBuffers, frameIds,
                   frame_id, snd>>

\* captureFrame gave up.  At the threshold the Lepton is reset and the count
\* starts again.  k_msgq_put with K_NO_WAIT drops the buffer if the queue is full.
CaptureTimeout ==
    /\ cap.pc = "capture"
    /\ free_frame_queue' = IF Len(free_frame_queue) < NumBuffers
                           THEN Append(free_frame_queue, cap.buf)
                           ELSE free_frame_queue
    /\ timeouts' = (timeouts + 1) % ResetAfter
    /\ cap' = [pc |-> "get", buf |-> None]
    /\ UNCHANGED <<ready_frame_queue, frameBuffers, frameIds, frame_id, snd>>

\* The captured frame is queued for sending; if that queue were full, its
\* buffer would be freed, or lost if that queue were full too.
PutReady ==
    /\ cap.pc = "put"
    /\ IF Len(ready_frame_queue) < NumBuffers
       THEN /\ ready_frame_queue' = Append(ready_frame_queue, cap.buf)
            /\ UNCHANGED free_frame_queue
       ELSE /\ free_frame_queue' = IF Len(free_frame_queue) < NumBuffers
                                   THEN Append(free_frame_queue, cap.buf)
                                   ELSE free_frame_queue
            /\ UNCHANGED ready_frame_queue
    /\ frame_id' = frame_id + 1
    /\ cap' = [pc |-> "get", buf |-> None]
    /\ UNCHANGED <<frameBuffers, frameIds, timeouts, snd>>

----------------------------------------------------------------------------
(* frameSenderThread. *)

\* Mutant: the buffer is freed before it is sent.
SenderGet_freesEarly ==
    /\ snd.pc = "get"
    /\ ready_frame_queue # <<>>
    /\ LET b == Head(ready_frame_queue)
       IN  /\ snd' = [pc |-> "send", buf |-> b, id |-> frameIds[b]]
           /\ free_frame_queue' = Append(free_frame_queue, b)
    /\ ready_frame_queue' = Tail(ready_frame_queue)
    /\ UNCHANGED <<frameBuffers, frameIds, frame_id, timeouts, cap>>

SenderGet ==
    /\ snd.pc = "get"
    /\ ready_frame_queue # <<>>
    /\ LET b == Head(ready_frame_queue)
       IN  snd' = [pc |-> "send", buf |-> b, id |-> frameIds[b]]
    /\ ready_frame_queue' = Tail(ready_frame_queue)
    /\ UNCHANGED <<free_frame_queue, frameBuffers, frameIds, frame_id, timeouts, cap>>

\* sendFrameOverSpi is done, with or without an SPI error.
SenderSent ==
    /\ snd.pc = "send"
    /\ snd' = [snd EXCEPT !.pc = "put"]
    /\ UNCHANGED <<free_frame_queue, ready_frame_queue, frameBuffers, frameIds,
                   frame_id, timeouts, cap>>

\* Mutant: the queue of free buffers has room for one.
SenderFree_depthOne ==
    /\ snd.pc = "put"
    /\ free_frame_queue = <<>>
    /\ free_frame_queue' = Append(free_frame_queue, snd.buf)
    /\ snd' = [snd EXCEPT !.pc = "get", !.buf = None]
    /\ UNCHANGED <<ready_frame_queue, frameBuffers, frameIds, frame_id, timeouts, cap>>

\* k_msgq_put with K_FOREVER blocks while the queue is full.
SenderFree ==
    /\ snd.pc = "put"
    /\ Len(free_frame_queue) < NumBuffers
    /\ free_frame_queue' = Append(free_frame_queue, snd.buf)
    /\ snd' = [snd EXCEPT !.pc = "get", !.buf = None]
    /\ UNCHANGED <<ready_frame_queue, frameBuffers, frameIds, frame_id, timeouts, cap>>

MainStep == TakeFree \/ StealReady \/ CaptureOk \/ CaptureTimeout \/ PutReady
SenderStep == SenderGet \/ SenderSent \/ SenderFree

Next == MainStep \/ SenderStep

Spec == Init /\ [][Next]_vars

\* Both threads run for ever; nothing is assumed of the camera.
FairSpec == Spec /\ WF_vars(MainStep) /\ WF_vars(SenderStep)

----------------------------------------------------------------------------
(* Properties. *)

\* No buffer is lost or in two places: each is in just one queue, once, or in
\* the hands of just one thread.  A buffer that leaked would starve the main
\* loop, one held twice would be overwritten while it is sent.
BufferConservation ==
    /\ \A i, j \in DOMAIN free_frame_queue :
           free_frame_queue[i] = free_frame_queue[j] => i = j
    /\ \A i, j \in DOMAIN ready_frame_queue :
           ready_frame_queue[i] = ready_frame_queue[j] => i = j
    /\ \A i \in DOMAIN free_frame_queue, j \in DOMAIN ready_frame_queue :
           free_frame_queue[i] # ready_frame_queue[j]
    /\ \A i \in DOMAIN free_frame_queue : free_frame_queue[i] \notin {cap.buf, snd.buf}
    /\ \A i \in DOMAIN ready_frame_queue : ready_frame_queue[i] \notin {cap.buf, snd.buf}
    /\ cap.buf = snd.buf => cap.buf = None
    /\ \A b \in Buffers : \/ b \in {cap.buf, snd.buf}
                          \/ \E i \in DOMAIN free_frame_queue : free_frame_queue[i] = b
                          \/ \E i \in DOMAIN ready_frame_queue : ready_frame_queue[i] = b

\* The frame that goes out over SPI is whole and is the one whose id goes with
\* it: the main loop does not capture into a buffer that is being sent.
SentFrameIntact == snd.pc = "send" => frameBuffers[snd.buf] = snd.id

\* A frame that waits is sent or gives its buffer to a newer one, even if the
\* camera never delivers another frame.
ReadyFrameLeaves ==
    \A f \in FrameIds :
        (ready_frame_queue # <<>> /\ frameIds[ready_frame_queue[1]] = f)
            ~> ~(ready_frame_queue # <<>> /\ frameIds[ready_frame_queue[1]] = f)
=============================================================================
