----------------------------- MODULE FrameQueue -----------------------------
(***************************************************************************)
(* What device/frame_link.h offers mqttFrameTask: a bounded queue of whole *)
(* frames.  A frame enters at the tail when its last packet arrives, the   *)
(* head is handed out by frameLinkAcquireReadyFrame and leaves the queue   *)
(* at frameLinkReleaseReadyFrame; until then it does not change.           *)
(***************************************************************************)
EXTENDS Integers, Sequences

CONSTANTS
    Capacity,       \* buffers in the ring
    MaxFrames,      \* frames are numbered 1 .. MaxFrames
    DropStale       \* whether acquiring skips to the newest frame

VARIABLES
    queue,          \* the whole frames, oldest first
    latest,         \* the frame that entered last, 0 at first
    sending         \* whether the head is handed out

vars == <<queue, latest, sending>>

Init ==
    /\ queue = <<>>
    /\ latest = 0
    /\ sending = FALSE

\* Frames that were damaged or arrived when the queue was full are skipped.
Publish ==
    \E frame \in latest + 1 .. MaxFrames :
        /\ Len(queue) < Capacity
        /\ queue' = Append(queue, frame)
        /\ latest' = frame
        /\ UNCHANGED sending

Acquire ==
    /\ ~sending
    /\ queue # <<>>
    /\ queue' = IF DropStale THEN <<queue[Len(queue)]>> ELSE queue
    /\ sending' = TRUE
    /\ UNCHANGED latest

Release ==
    /\ sending
    /\ queue' = Tail(queue)
    /\ sending' = FALSE
    /\ UNCHANGED latest

Next == Publish \/ Acquire \/ Release

Spec == Init /\ [][Next]_vars
=============================================================================
