----------------------------- MODULE FrameLink -----------------------------
(***************************************************************************)
(* The data plane inside the ESP32: frameLinkTask (device/frame_link.c)    *)
(* reassembles the SPI packets the Teensy clocks out into a ring of        *)
(* allocated frame buffers, and mqttFrameTask (mqtt/mqtt.c) reads the      *)
(* oldest ready buffer and sends it on.  The two tasks preempt each other; *)
(* the ring indices are only touched under s_frame_mutex, the pixels are   *)
(* not.                                                                    *)
(*                                                                         *)
(* A payload is abstracted to the id of the frame it belongs to, so that a *)
(* buffer holds, for every chunk, the frame that chunk was taken from.     *)
(* Sizes are counted in payloads: FRAME_BYTES is NumChunks of them.  The   *)
(* sender reads a buffer in the same NumChunks portions.                   *)
(***************************************************************************)
EXTENDS Integers

CONSTANTS
    NumBuffers,     \* s_allocated_buffers: NUM_BUFFERS, or fewer if malloc failed
    NumChunks,      \* SPI packets per frame
    MaxFrames,      \* bound: how many frames the Teensy sends
    DropStale,      \* drop_stale_frames: TRUE in the 8-bit UDP mode
    MutexTimeouts   \* whether a 20 ms xSemaphoreTake(s_frame_mutex) may fail

ASSUME ConstantsAssumption ==
    /\ NumBuffers \in Nat \ {0}
    /\ NumChunks \in Nat \ {0}
    /\ MaxFrames \in Nat
    /\ DropStale \in BOOLEAN
    /\ MutexTimeouts \in BOOLEAN

VARIABLES
    spi,                \* the Teensy's position: the frame and chunk it sends next
    rx_pc,              \* where frameLinkTask is within one packet
    pkt,                \* s_rx_buf
    assembly_active, expected_frame_id, expected_chunk_idx,
    assembled,          \* assembled_bytes, in payloads
    target_idx,
    s_write_idx, s_read_idx, s_frame_ready,
    s_frame_ids, s_frame_bufs,
    tx,                 \* mqttFrameTask: position and the buffer it holds
    sendable            \* the gates mqttFrameTask polls: Wi-Fi up, not congested

rxVars   == <<rx_pc, pkt, assembly_active, expected_frame_id,
              expected_chunk_idx, assembled, target_idx>>
ringVars == <<s_write_idx, s_read_idx, s_frame_ready, s_frame_ids>>
vars     == <<spi, rxVars, ringVars, s_frame_bufs, tx, sendable>>

Buffers == 0 .. NumBuffers - 1
Chunks  == 0 .. NumChunks - 1
FrameIds == 1 .. MaxFrames
NoFrame == 0

Packets == [frame : FrameIds \cup {NoFrame}, chunk : Chunks, valid : BOOLEAN]

Ranges ==
    /\ spi \in [frame : 1 .. MaxFrames + 1, chunk : Chunks]
    /\ rx_pc \in {"recv", "parse", "copy", "publish"}
    /\ pkt \in Packets
    /\ expected_frame_id \in FrameIds \cup {NoFrame}
    /\ expected_chunk_idx \in 0 .. NumChunks
    /\ assembled \in 0 .. NumChunks
    /\ target_idx \in Buffers
    /\ s_write_idx \in Buffers
    /\ s_read_idx \in Buffers \cup {-1}
    /\ s_frame_ready \in 0 .. NumBuffers
    /\ s_frame_ids \in [Buffers -> FrameIds \cup {NoFrame}]
    /\ s_frame_bufs \in [Buffers -> [Chunks -> FrameIds \cup {NoFrame}]]
    /\ tx \in [pc : {"idle", "sending", "release"}, buf : Buffers \cup {-1},
               id : FrameIds \cup {NoFrame}, chunk : 0 .. NumChunks]
    /\ tx.pc = "sending" => tx.chunk \in Chunks

Flags ==
    /\ assembly_active \in BOOLEAN
    /\ sendable \in BOOLEAN

TypeOK == Ranges /\ Flags

Init ==
    /\ spi = [frame |-> 1, chunk |-> 0]
    /\ rx_pc = "recv"
    /\ pkt = [frame |-> NoFrame, chunk |-> 0, valid |-> FALSE]
    /\ assembly_active = FALSE
    /\ expected_frame_id = NoFrame
    /\ expected_chunk_idx = 0
    /\ assembled = 0
    /\ target_idx = 0
    /\ s_write_idx = 0
    /\ s_read_idx = -1
    /\ s_frame_ready = 0
    /\ s_frame_ids = [b \in Buffers |-> NoFrame]
    /\ s_frame_bufs = [b \in Buffers |-> [c \in Chunks |-> NoFrame]]
    /\ tx = [pc |-> "idle", buf |-> -1, id |-> NoFrame, chunk |-> 0]
    /\ sendable = FALSE

----------------------------------------------------------------------------
(* The Teensy and the SPI wires. *)

NextSpiPosition ==
    IF spi.chunk + 1 = NumChunks
    THEN [frame |-> spi.frame + 1, chunk |-> 0]
    ELSE [spi EXCEPT !.chunk = @ + 1]

\* One spi_write of sendFrameOverSpi.  The ESP32 queues one slave transaction
\* at a time, so a packet clocked out while frameLinkTask is busy is lost.
\* Noise leaves a packet whose magic, length or checksum is wrong.
SpiPacket ==
    /\ spi.frame <= MaxFrames
    /\ spi' = NextSpiPosition
    /\ \/ UNCHANGED <<rx_pc, pkt>>
       \/ /\ rx_pc = "recv"
          /\ rx_pc' = "parse"
          /\ \E valid \in BOOLEAN :
               pkt' = [frame |-> spi.frame, chunk |-> spi.chunk, valid |-> valid]
    /\ UNCHANGED <<assembly_active, expected_frame_id, expected_chunk_idx,
                   assembled, target_idx, ringVars, s_frame_bufs, tx, sendable>>

\* spi_write failed: the rest of the frame is never sent.  The next frame has
\* another id, as captureFrame's caller increments frame_id.
SpiAbort ==
    /\ spi.frame <= MaxFrames
    /\ spi' = [frame |-> spi.frame + 1, chunk |-> 0]
    /\ UNCHANGED <<rxVars, ringVars, s_frame_bufs, tx, sendable>>

----------------------------------------------------------------------------
(* frameLinkTask. *)

\* Mutant: the last free buffer is not counted.
QueueFull_offByOne == s_frame_ready > NumBuffers

QueueFull == s_frame_ready >= NumBuffers

\* The common tail of every rejected packet.
AbandonAssembly ==
    /\ assembly_active' = FALSE
    /\ expected_chunk_idx' = 0
    /\ rx_pc' = "recv"

RejectInvalid ==
    /\ rx_pc = "parse"
    /\ ~pkt.valid
    /\ AbandonAssembly
    /\ UNCHANGED <<spi, pkt, expected_frame_id, assembled, target_idx, ringVars,
                   s_frame_bufs, tx, sendable>>

\* chunk_idx == 0, and queueIsFull() took the mutex and answered true.
RejectQueueFull ==
    /\ rx_pc = "parse"
    /\ pkt.valid
    /\ pkt.chunk = 0
    /\ QueueFull
    /\ AbandonAssembly
    /\ UNCHANGED <<spi, pkt, expected_frame_id, assembled, target_idx, ringVars,
                   s_frame_bufs, tx, sendable>>

\* chunk_idx == 0, and queueIsFull() answered false: there is room, or the
\* mutex was not obtained in time.  A running assembly is restarted.
BeginAssembly ==
    /\ rx_pc = "parse"
    /\ pkt.valid
    /\ pkt.chunk = 0
    /\ ~QueueFull \/ MutexTimeouts
    /\ target_idx' = s_write_idx
    /\ expected_frame_id' = pkt.frame
    /\ expected_chunk_idx' = 0
    /\ assembled' = 0
    /\ assembly_active' = TRUE
    /\ rx_pc' = "copy"
    /\ UNCHANGED <<spi, pkt, ringVars, s_frame_bufs, tx, sendable>>

InSequence ==
    /\ assembly_active
    /\ pkt.frame = expected_frame_id
    /\ pkt.chunk = expected_chunk_idx

ContinueAssembly ==
    /\ rx_pc = "parse"
    /\ pkt.valid
    /\ pkt.chunk # 0
    /\ IF InSequence
       THEN rx_pc' = "copy" /\ UNCHANGED <<assembly_active, expected_chunk_idx>>
       ELSE AbandonAssembly
    /\ UNCHANGED <<spi, pkt, expected_frame_id, assembled, target_idx, ringVars,
                   s_frame_bufs, tx, sendable>>

\* The memcpy, outside the mutex.
CopyPayload ==
    /\ rx_pc = "copy"
    /\ s_frame_bufs' = [s_frame_bufs EXCEPT ![target_idx][pkt.chunk] = pkt.frame]
    /\ assembled' = assembled + 1
    /\ expected_chunk_idx' = expected_chunk_idx + 1
    /\ rx_pc' = IF expected_chunk_idx + 1 >= NumChunks THEN "publish" ELSE "recv"
    /\ UNCHANGED <<spi, pkt, assembly_active, expected_frame_id, target_idx,
                   ringVars, tx, sendable>>

\* Mutant: every published frame becomes the one to read.
PublishFrame_newestIsHead ==
    /\ rx_pc = "publish"
    /\ assembled = NumChunks
    /\ s_frame_ids' = [s_frame_ids EXCEPT ![target_idx] = expected_frame_id]
    /\ s_read_idx' = target_idx
    /\ s_frame_ready' = IF s_frame_ready < NumBuffers
                        THEN s_frame_ready + 1 ELSE s_frame_ready
    /\ s_write_idx' = (target_idx + 1) % NumBuffers
    /\ AbandonAssembly
    /\ UNCHANGED <<spi, pkt, expected_frame_id, assembled, target_idx,
                   s_frame_bufs, tx, sendable>>

\* The last chunk is in.  A complete frame is handed over under the mutex.
PublishFrame ==
    /\ rx_pc = "publish"
    /\ assembled = NumChunks
    /\ s_frame_ids' = [s_frame_ids EXCEPT ![target_idx] = expected_frame_id]
    /\ s_read_idx' = IF s_frame_ready = 0 THEN target_idx ELSE s_read_idx
    /\ s_frame_ready' = IF s_frame_ready < NumBuffers
                        THEN s_frame_ready + 1 ELSE s_frame_ready
    /\ s_write_idx' = (target_idx + 1) % NumBuffers
    /\ AbandonAssembly
    /\ UNCHANGED <<spi, pkt, expected_frame_id, assembled, target_idx,
                   s_frame_bufs, tx, sendable>>

\* The frame is not complete, or the mutex was not obtained: it is forgotten.
ForgetFrame ==
    /\ rx_pc = "publish"
    /\ assembled # NumChunks \/ MutexTimeouts
    /\ AbandonAssembly
    /\ UNCHANGED <<spi, pkt, expected_frame_id, assembled, target_idx, ringVars,
                   s_frame_bufs, tx, sendable>>

----------------------------------------------------------------------------
(* mqttFrameTask. *)

\* Wi-Fi comes and goes, UDP congestion starts and ends.
GateChange ==
    /\ sendable' = ~sendable
    /\ UNCHANGED <<spi, rxVars, ringVars, s_frame_bufs, tx>>

\* Mutant: stale frames are uncounted but the read index is not moved.
Acquire_keepsOldest ==
    /\ tx.pc = "idle"
    /\ sendable
    /\ s_frame_ready > 0
    /\ s_read_idx >= 0
    /\ LET dropped == IF DropStale THEN s_frame_ready - 1 ELSE 0
       IN  /\ s_frame_ready' = s_frame_ready - dropped
           /\ tx' = [pc |-> "sending", buf |-> s_read_idx,
                     id |-> s_frame_ids[s_read_idx], chunk |-> 0]
    /\ UNCHANGED <<spi, rxVars, s_write_idx, s_read_idx, s_frame_ids, s_frame_bufs,
                   sendable>>

\* frameLinkAcquireReadyFrame: the frame stays in the ring while it is sent.
Acquire ==
    /\ tx.pc = "idle"
    /\ sendable
    /\ s_frame_ready > 0
    /\ s_read_idx >= 0
    /\ LET dropped == IF DropStale THEN s_frame_ready - 1 ELSE 0
           head    == (s_read_idx + dropped) % NumBuffers
       IN  /\ s_read_idx' = head
           /\ s_frame_ready' = s_frame_ready - dropped
           /\ tx' = [pc |-> "sending", buf |-> head, id |-> s_frame_ids[head],
                     chunk |-> 0]
    /\ UNCHANGED <<spi, rxVars, s_write_idx, s_frame_ids, s_frame_bufs, sendable>>

\* One network chunk is packed from the held buffer and sent.
SendChunk ==
    /\ tx.pc = "sending"
    /\ tx' = [tx EXCEPT !.chunk = @ + 1,
                        !.pc = IF tx.chunk + 1 = NumChunks THEN "release" ELSE @]
    /\ UNCHANGED <<spi, rxVars, ringVars, s_frame_bufs, sendable>>

\* Mutant: a failed send starts the frame over.
SendFails_retries ==
    /\ tx.pc = "sending"
    /\ tx' = [tx EXCEPT !.chunk = 0]
    /\ UNCHANGED <<spi, rxVars, ringVars, s_frame_bufs, sendable>>

\* Mutant: a failed send returns to the top of the loop without releasing.
SendFails_keepsFrame ==
    /\ tx.pc = "sending"
    /\ tx' = [tx EXCEPT !.pc = "idle"]
    /\ UNCHANGED <<spi, rxVars, ringVars, s_frame_bufs, sendable>>

\* A chunk could not be sent: the rest of the frame is skipped.
SendFails ==
    /\ tx.pc = "sending"
    /\ tx' = [tx EXCEPT !.pc = "release"]
    /\ UNCHANGED <<spi, rxVars, ringVars, s_frame_bufs, sendable>>

\* frameLinkReleaseReadyFrame, mutex obtained.
Release ==
    /\ tx.pc = "release"
    /\ tx' = [tx EXCEPT !.pc = "idle"]
    /\ IF s_frame_ready > 0 /\ s_read_idx = tx.buf
       THEN /\ s_frame_ready' = s_frame_ready - 1
            /\ s_read_idx' = IF s_frame_ready > 1
                             THEN (s_read_idx + 1) % NumBuffers ELSE -1
       ELSE UNCHANGED <<s_frame_ready, s_read_idx>>
    /\ UNCHANGED <<spi, rxVars, s_write_idx, s_frame_ids, s_frame_bufs, sendable>>

\* frameLinkReleaseReadyFrame gave up on the mutex: the frame stays ready.
ReleaseTimeout ==
    /\ MutexTimeouts
    /\ tx.pc = "release"
    /\ tx' = [tx EXCEPT !.pc = "idle"]
    /\ UNCHANGED <<spi, rxVars, ringVars, s_frame_bufs, sendable>>

----------------------------------------------------------------------------
RxStep ==
    \/ RejectInvalid
    \/ RejectQueueFull
    \/ BeginAssembly
    \/ ContinueAssembly
    \/ CopyPayload
    \/ PublishFrame
    \/ ForgetFrame

TxStep ==
    \/ Acquire
    \/ SendChunk
    \/ SendFails
    \/ Release
    \/ ReleaseTimeout

Next ==
    \/ SpiPacket
    \/ SpiAbort
    \/ GateChange
    \/ RxStep
    \/ TxStep

Spec == Init /\ [][Next]_vars

\* Both tasks are FreeRTOS tasks that never return and block only for bounded
\* times.  Nothing is assumed of the Teensy, the network or the gates.
FairSpec == Spec /\ WF_vars(RxStep) /\ WF_vars(TxStep)
----------------------------------------------------------------------------
(* Properties. *)

\* The i-th slot from the one read next, and the slots that hold frames.
RingSlot(i) == (s_read_idx + i) % NumBuffers
Whole(b) == \A c \in Chunks : s_frame_bufs[b][c] = s_frame_ids[b]

\* While mqttFrameTask packs chunks from a buffer, outside the mutex, every
\* payload in that buffer belongs to the frame whose id it sends: frameLinkTask
\* never writes into it, and never published a frame mixed from two.
NoTornFrame ==
    tx.pc = "sending" => \A c \in Chunks : s_frame_bufs[tx.buf][c] = tx.id

\* The three ring indices agree: the slot written next is the one after the
\* last ready frame, and the read index is -1 exactly when no frame is ready.
RingConsistent ==
    /\ s_frame_ready = 0 <=> s_read_idx = -1
    /\ s_frame_ready > 0 => s_write_idx = RingSlot(s_frame_ready)

\* Every ready buffer holds one whole frame, and the ring is in the order the
\* Teensy sent the frames.
ReadyFramesWhole ==
    /\ \A i \in 0 .. s_frame_ready - 1 : Whole(RingSlot(i))
    /\ \A i, j \in 0 .. s_frame_ready - 1 :
         i < j => s_frame_ids[RingSlot(i)] < s_frame_ids[RingSlot(j)]

\* A buffer that is being sent is still the head of the ring, so that the
\* release that follows gives back that buffer and no other; this one holds
\* even when waiting for the mutex times out.
HeldIsHead ==
    tx.pc # "idle" => s_frame_ready > 0 /\ s_read_idx = tx.buf

\* mqttFrameTask never starts to send a frame twice, nor an older frame after
\* a newer one: a send it begins has a larger id than the one before it.
SentInOrder ==
    [][tx.pc = "idle" /\ tx'.pc = "sending" => tx'.id > tx.id]_vars

\* Once the gates stay open, a full ring drains: frameLinkTask does not reject
\* first chunks for ever because a send failed or a release was missed.
FullRingDrains ==
    <>[]sendable => (QueueFull ~> ~QueueFull)

----------------------------------------------------------------------------
(* The inductive invariant behind the properties (proved in                 *)
(* FrameLinkProofs).  RxConsistent and HeldIsHead are inductive with TypeOK *)
(* whatever MutexTimeouts is; the rest needs the mutex always to be taken.  *)

\* frameLinkTask's local variables agree with its position.
RxConsistent ==
    /\ rx_pc \in {"copy", "publish"} => assembly_active /\ pkt.frame = expected_frame_id
    /\ rx_pc = "copy" => pkt.chunk = expected_chunk_idx
    /\ rx_pc = "publish" => expected_chunk_idx = NumChunks /\ pkt.chunk = NumChunks - 1
    /\ rx_pc # "publish" => expected_chunk_idx < NumChunks
    /\ rx_pc # "recv" => pkt.frame \in FrameIds
    /\ assembly_active => assembled = expected_chunk_idx /\ expected_frame_id \in FrameIds
    /\ ~assembly_active => expected_chunk_idx = 0

\* An assembly fills a slot no reader holds, from its first chunk on.
AssemblyInFreeSlot ==
    assembly_active =>
        /\ target_idx = s_write_idx
        /\ s_frame_ready < NumBuffers
        /\ \A c \in 0 .. expected_chunk_idx - 1 :
              s_frame_bufs[target_idx][c] = expected_frame_id

\* A frame on its way is newer than every frame received or sent before.
NewerThanAll(frame) ==
    /\ \A b \in Buffers : s_frame_ids[b] < frame
    /\ tx.id < frame

ArrivalOrder ==
    /\ NewerThanAll(spi.frame)
    /\ rx_pc # "recv" =>
         /\ NewerThanAll(pkt.frame)
         /\ pkt.frame <= spi.frame
         /\ pkt.chunk = NumChunks - 1 => pkt.frame < spi.frame

\* The sender holds the frame it names, or has sent only older ones.
SenderOrder ==
    IF tx.pc = "idle"
    THEN \A i \in 0 .. s_frame_ready - 1 : tx.id < s_frame_ids[RingSlot(i)]
    ELSE tx.id = s_frame_ids[s_read_idx]

\* frameLinkTask and mqttFrameTask together: the reassembly, the ring and the
\* sender agree at every interleaving of the two tasks.
IInv ==
    /\ TypeOK
    /\ RxConsistent
    /\ HeldIsHead
    /\ RingConsistent
    /\ AssemblyInFreeSlot
    /\ ReadyFramesWhole
    /\ ArrivalOrder
    /\ SenderOrder

----------------------------------------------------------------------------
(* What the ring promises: see FrameQueue. *)

\* The content of a slot: its frame, or NoFrame if payloads of another frame
\* are in it.
Content(b) == IF Whole(b) THEN s_frame_ids[b] ELSE NoFrame

FQ == INSTANCE FrameQueue WITH
        Capacity <- NumBuffers,
        queue    <- [i \in 1 .. s_frame_ready |-> Content(RingSlot(i - 1))],
        latest   <- s_frame_ids[(s_write_idx + NumBuffers - 1) % NumBuffers],
        sending  <- tx.pc # "idle"

\* The two tasks and the ring implement a bounded queue of whole frames.
ImplementsQueue == FQ!Spec
=============================================================================
