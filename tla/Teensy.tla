------------------------------- MODULE Teensy -------------------------------
(***************************************************************************)
(* The Teensy firmware as a whole: the main loop and frameSenderThread of  *)
(* TeensyFrames with the packet loop of captureFrame (TeensyCapture) in    *)
(* place of its one-step captures.  captureFrame runs in the main loop,    *)
(* and the sender preempts it between any two packets.                     *)
(***************************************************************************)
EXTENDS TeensyFrames

CONSTANTS NumSegments, PacketsPerSeg, SegPacket, MaxCamera, Invalid, MaxLost,
          MaxMissed

VARIABLES stream, missed, current_seg, expected_seg, expected_packet,
          frame_started, segment_active, segmentBuffer, frame_buffer, captured,
          picture       \* the camera frame in each buffer, 0 if not just one

Capture == INSTANCE TeensyCapture

ASSUME CaptureAssumption == Capture!CaptureConstants

captureVars == <<stream, missed, current_seg, expected_seg, expected_packet,
                 frame_started, segment_active, segmentBuffer, frame_buffer,
                 captured>>
allVars == <<vars, captureVars, picture>>

TeensyInit ==
    /\ Init /\ Capture!Init
    /\ picture = [b \in Buffers |-> 0]

\* The camera frame all of whose segments the captured buffer holds.
PictureOf(buffer) ==
    LET whole == {f \in 1..MaxCamera : \A s \in Capture!Segments, p \in Capture!PacketIds :
                                          buffer[s][p] = [frame |-> f, seg |-> s]}
    IN IF whole = {} THEN 0 ELSE CHOOSE f \in whole : TRUE

\* The main loop takes a buffer, or queues the one it has filled.
MainLoop ==
    /\ TakeFree \/ StealReady \/ PutReady
    /\ UNCHANGED <<captureVars, picture>>

\* One turn of captureFrame's loop.
CaptureReads ==
    /\ cap.pc = "capture"
    /\ Capture!DiscardPacket \/ Capture!ReadPacket
    /\ UNCHANGED <<vars, picture>>

CaptureReturns ==
    /\ CaptureOk /\ Capture!NextCapture
    /\ picture' = [picture EXCEPT ![cap.buf] = PictureOf(frame_buffer)]

CaptureGivesUp ==
    /\ CaptureTimeout /\ Capture!CaptureTimeout
    /\ UNCHANGED picture

Sender == SenderStep /\ UNCHANGED <<captureVars, picture>>

Main == MainLoop \/ CaptureReads \/ CaptureReturns \/ CaptureGivesUp

TeensyNext == Main \/ Sender

\* Both threads run for ever; nothing is assumed of the camera.
TeensySpec == TeensyInit /\ [][TeensyNext]_allVars
              /\ WF_allVars(Main) /\ WF_allVars(Sender)

-----------------------------------------------------------------------------
\* The property of captureFrame, stated in TeensyCapture.
WholeFrame == Capture!WholeFrame

\* The buffers whose frames are on their way out, next first.
Outgoing == (IF snd.pc = "send" THEN <<snd.buf>> ELSE <<>>) \o ready_frame_queue

\* What goes out over SPI are whole pictures of the camera, none that it
\* marked as a repeat, each later than the one before: no frame is mixed from
\* two, sent twice or overtaken, however capture and sending interleave.
PicturesInOrder ==
    /\ \A i \in DOMAIN Outgoing : picture[Outgoing[i]] \in (1..MaxCamera) \ Invalid
    /\ \A i, j \in DOMAIN Outgoing :
           i < j => picture[Outgoing[i]] < picture[Outgoing[j]]
=============================================================================
