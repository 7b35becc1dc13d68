--------------------------- MODULE TeensyCapture ---------------------------
(***************************************************************************)
(* captureFrame of the Teensy firmware: it reads the packets the Lepton    *)
(* camera streams over SPI, collects them into segments and the segments   *)
(* into a frame.  The camera does not wait: packets the Teensy does not    *)
(* read in time are gone, and noise garbles others.                        *)
(*                                                                         *)
(* A packet's pixels are abstracted to the camera frame and segment they   *)
(* come from.                                                              *)
(***************************************************************************)
EXTENDS Integers

CONSTANTS
    NumSegments,    \* NUM_SEGMENTS
    PacketsPerSeg,  \* PACKETS_PER_SEG
    SegPacket,      \* the packet that carries the segment number (20)
    MaxCamera,      \* bound: camera frames in the stream
    Invalid,        \* the camera frames sent with segment number 0 (repeats)
    MaxLost,        \* bound: packets missed between two that are read
    MaxMissed       \* bound: numbered segments in a row that are not completed

\* What the constants must be; assumed where this module is used (Teensy).  The
\* two bounds on losses are the ones WholeFrame needs.
CaptureConstants ==
    /\ NumSegments \in Nat \ {0}
    /\ PacketsPerSeg \in Nat \ {0}
    /\ SegPacket \in 0 .. PacketsPerSeg - 1
    /\ MaxCamera \in Nat \ {0}
    /\ Invalid \subseteq 1 .. MaxCamera
    /\ MaxLost \in 0 .. PacketsPerSeg - 1
    /\ MaxMissed \in 0 .. NumSegments - 1

VARIABLES
    stream,             \* the packet the camera sends next
    missed,             \* numbered segments that went by since one was completed
    current_seg, expected_seg, expected_packet, frame_started, segment_active,
    segmentBuffer, frame_buffer,
    captured            \* captureFrame has returned true

locals == <<current_seg, expected_seg, expected_packet, frame_started, segment_active>>
vars   == <<stream, missed, locals, segmentBuffer, frame_buffer, captured>>

Segments == 1 .. NumSegments
PacketIds == 0 .. PacketsPerSeg - 1
Blank == [frame |-> 0, seg |-> 0]
Pixels == [frame : 1 .. MaxCamera, seg : Segments] \cup {Blank}
BlankFrame == [s \in Segments |-> [p \in PacketIds |-> Blank]]

TypeOK ==
    /\ stream \in [frame : 1 .. MaxCamera + 1, seg : Segments, packet : PacketIds]
    /\ missed \in 0 .. MaxMissed
    /\ current_seg \in 0 .. NumSegments
    /\ expected_seg \in Segments
    /\ expected_packet \in PacketIds
    /\ frame_started \in BOOLEAN
    /\ segment_active \in BOOLEAN
    /\ segmentBuffer \in [PacketIds -> Pixels]
    /\ frame_buffer \in [Segments -> [PacketIds -> Pixels]]
    /\ captured \in BOOLEAN

Init ==
    /\ stream = [frame |-> 1, seg |-> 1, packet |-> 0]
    /\ missed = 0
    /\ current_seg = 0
    /\ expected_seg = 1
    /\ expected_packet = 0
    /\ frame_started = FALSE
    /\ segment_active = FALSE
    /\ segmentBuffer = [p \in PacketIds |-> Blank]
    /\ frame_buffer = BlankFrame
    /\ captured = FALSE

----------------------------------------------------------------------------
(* The camera. *)

\* The k-th packet after the one at position pos.
Ahead(pos, k) ==
    LET n == pos.packet + k
        s == pos.seg - 1 + n \div PacketsPerSeg
    IN  [frame  |-> pos.frame + s \div NumSegments,
         seg    |-> (s % NumSegments) + 1,
         packet |-> n % PacketsPerSeg]

SegmentBits(pos) == IF pos.frame \in Invalid THEN 0 ELSE pos.seg

\* The stream moves past `lost' missed packets and the one at pos that is read
\* now.  At most one segment ends on the way, the one the stream was in.
Advance(lost, completed) ==
    LET next  == Ahead(stream, lost + 1)
        ended == next.seg # stream.seg \/ next.frame # stream.frame
    IN  /\ Ahead(stream, lost).frame <= MaxCamera
        /\ stream' = next
        /\ missed' = IF completed THEN 0
                     ELSE IF ended /\ SegmentBits(stream) # 0 THEN missed + 1
                     ELSE missed
        /\ missed' <= MaxMissed

----------------------------------------------------------------------------
(* captureFrame. *)

DropSegment ==
    /\ segment_active' = FALSE
    /\ expected_packet' = 0
    /\ UNCHANGED <<expected_seg, frame_started, frame_buffer, captured>>

\* A discard packet, sent while the camera has nothing new, changes nothing in
\* the stream; a garbled packet is one of the stream.  Both end the segment.
DiscardPacket ==
    /\ ~captured
    /\ \/ stream.packet = 0 /\ UNCHANGED <<stream, missed>>
       \/ \E lost \in 0 .. MaxLost : Advance(lost, FALSE)
    /\ DropSegment
    /\ UNCHANGED <<current_seg, segmentBuffer>>

\* Packets before the first one of a segment are skipped.
SkipPacket(pos) ==
    /\ ~segment_active
    /\ pos.packet # 0
    /\ UNCHANGED <<locals, segmentBuffer, frame_buffer, captured>>

WrongPacket(pos) ==
    /\ segment_active
    /\ pos.packet # expected_packet
    /\ DropSegment
    /\ current_seg' = 0
    /\ UNCHANGED segmentBuffer

\* The segment number that holds once the packet at pos is stored.
SegmentNumber(pos) ==
    IF pos.packet = SegPacket THEN SegmentBits(pos)
    ELSE IF segment_active THEN current_seg ELSE 0

Expected(pos) == pos.packet = IF segment_active THEN expected_packet ELSE 0

Store(pos) ==
    segmentBuffer' = [segmentBuffer EXCEPT
                        ![pos.packet] = [frame |-> pos.frame, seg |-> pos.seg]]

\* Mutant: a segment without a number is taken for the expected one.
UnnumberedSegment_assumed(pos) ==
    /\ Expected(pos)
    /\ pos.packet = SegPacket
    /\ SegmentBits(pos) = 0
    /\ Store(pos)
    /\ segment_active' = TRUE
    /\ expected_packet' = pos.packet + 1
    /\ current_seg' = expected_seg
    /\ UNCHANGED <<expected_seg, frame_started, frame_buffer, captured>>

\* The packet that carries the number of a repeated frame.
UnnumberedSegment(pos) ==
    /\ Expected(pos)
    /\ pos.packet = SegPacket
    /\ SegmentBits(pos) = 0
    /\ Store(pos)
    /\ DropSegment
    /\ current_seg' = 0

StorePacket(pos) ==
    /\ Expected(pos)
    /\ pos.packet # PacketsPerSeg - 1
    /\ pos.packet = SegPacket => SegmentBits(pos) # 0
    /\ Store(pos)
    /\ segment_active' = TRUE
    /\ expected_packet' = pos.packet + 1
    /\ current_seg' = SegmentNumber(pos)
    /\ UNCHANGED <<expected_seg, frame_started, frame_buffer, captured>>

\* Whether a complete segment continues the frame that is being collected.
InOrder(seg) == frame_started /\ seg = expected_seg

\* Mutant: a segment that is not the expected one only is skipped.
OutOfOrder_keepsFrame(seg) ==
    /\ ~InOrder(seg)
    /\ seg # 1
    /\ current_seg' = 0
    /\ UNCHANGED <<frame_started, expected_seg, frame_buffer, captured>>

\* Another segment than the expected one starts the search for segment 1 anew.
OutOfOrder(seg) ==
    /\ ~InOrder(seg)
    /\ seg # 1
    /\ frame_started' = FALSE
    /\ expected_seg' = 1
    /\ current_seg' = 0
    /\ UNCHANGED <<frame_buffer, captured>>

\* The frame a segment is copied into: segment 1 clears it.
Base(seg) == IF InOrder(seg) THEN frame_buffer ELSE BlankFrame

CopySegment(seg) ==
    /\ InOrder(seg) \/ seg = 1
    /\ frame_started' = TRUE
    /\ frame_buffer' = [Base(seg) EXCEPT ![seg] = segmentBuffer']
    /\ current_seg' = 0
    /\ captured' = (seg = NumSegments)
    /\ expected_seg' = IF seg = NumSegments THEN expected_seg ELSE seg + 1

\* The last packet of a segment.
CompleteSegment(pos) ==
    /\ Expected(pos)
    /\ pos.packet = PacketsPerSeg - 1
    /\ pos.packet = SegPacket => SegmentBits(pos) # 0
    /\ Store(pos)
    /\ segment_active' = FALSE
    /\ expected_packet' = 0
    /\ LET seg == SegmentNumber(pos)
       IN  \/ OutOfOrder(seg)
           \/ CopySegment(seg)

\* One turn of the loop of captureFrame with a video packet.
ReadPacket ==
    /\ ~captured
    /\ \E lost \in 0 .. MaxLost :
         LET pos == Ahead(stream, lost)
         IN  \/ Advance(lost, FALSE) /\ SkipPacket(pos)
             \/ Advance(lost, FALSE) /\ WrongPacket(pos)
             \/ Advance(lost, FALSE) /\ UnnumberedSegment(pos)
             \/ Advance(lost, FALSE) /\ StorePacket(pos)
             \/ Advance(lost, TRUE) /\ CompleteSegment(pos)

\* Locals of a call of captureFrame, which clears the buffer it is given.
Restart ==
    /\ current_seg' = 0
    /\ expected_seg' = 1
    /\ expected_packet' = 0
    /\ frame_started' = FALSE
    /\ segment_active' = FALSE
    /\ frame_buffer' = BlankFrame
    /\ captured' = FALSE
    /\ UNCHANGED <<stream, missed, segmentBuffer>>

\* Three seconds passed without a frame: the main loop calls again.
CaptureTimeout == ~captured /\ Restart

\* The frame was queued: the main loop captures the next one.
NextCapture == captured /\ Restart

Next ==
    \/ DiscardPacket
    \/ ReadPacket
    \/ CaptureTimeout
    \/ NextCapture

Spec == Init /\ [][Next]_vars

----------------------------------------------------------------------------
(* Properties. *)

\* A frame that captureFrame reports as captured is one camera frame: every
\* packet of every segment is in its place and of the same frame.  This is what
\* the segment numbers and the packet counter are for; it needs the camera
\* stream never to lose a whole segment at once (MaxLost) nor as many numbered
\* segments in a row as a frame has (MaxMissed).
WholeFrame ==
    captured => \E f \in 1 .. MaxCamera :
                  \A s \in Segments, p \in PacketIds :
                    frame_buffer[s][p] = [frame |-> f, seg |-> s]
=============================================================================
