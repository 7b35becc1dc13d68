-------------------------- MODULE FrameLinkProofs --------------------------
(***************************************************************************)
(* Proofs about FrameLink for every number of buffers, chunks and frames.  *)
(***************************************************************************)
EXTENDS FrameLink, SequenceTheorems, TLAPS

\* Type correctness is inductive with the receiver's locals.
TypeInv == TypeOK /\ RxConsistent

\* The initial values of frame_link.c's statics are of their types.
LEMMA TypeInit == Init => TypeInv
<1> USE ConstantsAssumption
    DEF Init, Ranges, Flags, Packets, Buffers, Chunks, FrameIds, NoFrame
<1>1. Init => Ranges
  OBVIOUS
<1>2. Init => Flags
  OBVIOUS
<1>3. Init => RxConsistent
  BY DEF RxConsistent
<1> QED
  BY <1>1, <1>2, <1>3 DEF TypeInv, TypeOK

\* The flags stay Boolean.
LEMMA FlagsStep == Flags /\ [Next]_vars => Flags'
<1> SUFFICES ASSUME Flags, [Next]_vars PROVE Flags'
  OBVIOUS
<1> USE DEF Flags, rxVars, ringVars
<1>1. CASE SpiPacket
  BY <1>1 DEF SpiPacket, NextSpiPosition
<1>2. CASE SpiAbort
  BY <1>2 DEF SpiAbort
<1>3. CASE GateChange
  BY <1>3 DEF GateChange
<1>4. CASE RejectInvalid
  BY <1>4 DEF RejectInvalid, AbandonAssembly
<1>5. CASE RejectQueueFull
  BY <1>5 DEF RejectQueueFull, AbandonAssembly
<1>6. CASE BeginAssembly
  BY <1>6 DEF BeginAssembly
<1>7. CASE ContinueAssembly
  BY <1>7 DEF ContinueAssembly, AbandonAssembly, InSequence
<1>8. CASE CopyPayload
  BY <1>8 DEF CopyPayload
<1>9. CASE PublishFrame
  BY <1>9 DEF PublishFrame, AbandonAssembly
<1>10. CASE ForgetFrame
  BY <1>10 DEF ForgetFrame, AbandonAssembly
<1>11. CASE Acquire
  BY <1>11 DEF Acquire
<1>12. CASE SendChunk
  BY <1>12 DEF SendChunk
<1>13. CASE SendFails
  BY <1>13 DEF SendFails
<1>14. CASE Release
  BY <1>14 DEF Release
<1>15. CASE ReleaseTimeout
  BY <1>15 DEF ReleaseTimeout
<1>16. CASE UNCHANGED vars
  BY <1>16 DEF vars
<1> QED
  BY <1>1, <1>2, <1>3, <1>4, <1>5, <1>6, <1>7, <1>8, <1>9, <1>10, <1>11, <1>12, <1>13, <1>14, <1>15, <1>16
  DEF Next, RxStep, TxStep

\* Packing one more chunk of the held buffer never runs past its end.
LEMMA SendChunkRanges == ASSUME Ranges, SendChunk PROVE Ranges'
<1> USE ConstantsAssumption DEF SendChunk, Ranges
<1>1. tx.chunk + 1 \in 0 .. NumChunks
  BY DEF Chunks
<1>2. /\ tx' \in [pc : {"idle", "sending", "release"}, buf : Buffers \cup {-1},
                  id : FrameIds \cup {NoFrame}, chunk : 0 .. NumChunks]
      /\ tx'.pc = "sending" => tx'.chunk \in Chunks
  <2>1. CASE tx.chunk + 1 = NumChunks
    BY <1>1, <2>1
  <2>2. CASE tx.chunk + 1 # NumChunks
    <3>1. tx.chunk + 1 \in Chunks
      BY <1>1, <2>2 DEF Chunks
    <3> QED
      BY <1>1, <2>2, <3>1
  <2> QED
    BY <2>1, <2>2
<1> QED
  BY <1>2 DEF rxVars, ringVars

\* frameLinkReleaseReadyFrame moves the read index to a slot of the ring, or
\* to -1.
LEMMA ReleaseRanges == ASSUME Ranges, Release PROVE Ranges'
<1> USE ConstantsAssumption DEF Release, Ranges
<1>1. s_read_idx' \in Buffers \cup {-1}
  <2>1. CASE s_read_idx \in Buffers
    <3>1. (s_read_idx + 1) % NumBuffers \in Buffers
      BY <2>1 DEF Buffers
    <3> QED
      BY <3>1
  <2>2. CASE s_read_idx = -1
    BY <2>2 DEF Buffers
  <2> QED
    BY <2>1, <2>2
<1>2. s_frame_ready' \in 0 .. NumBuffers
  OBVIOUS
<1>3. /\ tx' \in [pc : {"idle", "sending", "release"}, buf : Buffers \cup {-1},
                  id : FrameIds \cup {NoFrame}, chunk : 0 .. NumChunks]
      /\ tx'.pc # "sending"
  OBVIOUS
<1> QED
  BY <1>1, <1>2, <1>3 DEF rxVars

\* Every other variable stays in its range, frameLinkTask's position bounds the
\* chunk index it counts up.
LEMMA RangesStep == TypeInv /\ [Next]_vars => Ranges'
<1> SUFFICES ASSUME Ranges, RxConsistent, [Next]_vars PROVE Ranges'
  BY DEF TypeInv, TypeOK
<1> USE ConstantsAssumption
    DEF Ranges, RxConsistent, Packets, Buffers, Chunks, FrameIds, NoFrame, rxVars, ringVars
<1>1. CASE SpiPacket
  <2>1. spi' \in [frame : 1 .. MaxFrames + 1, chunk : Chunks]
    <3>1. spi.frame + 1 \in 1 .. MaxFrames + 1
      BY <1>1 DEF SpiPacket
    <3>2. CASE spi.chunk + 1 = NumChunks
      BY <1>1, <3>1, <3>2 DEF SpiPacket, NextSpiPosition
    <3>3. CASE spi.chunk + 1 # NumChunks
      <4>1. spi.chunk + 1 \in Chunks
        BY <3>3
      <4> QED
        BY <1>1, <3>3, <4>1 DEF SpiPacket, NextSpiPosition
    <3> QED
      BY <3>2, <3>3
  <2>2. pkt' \in Packets
    BY <1>1 DEF SpiPacket
  <2> QED
    BY <1>1, <2>1, <2>2 DEF SpiPacket
<1>2. CASE SpiAbort
  BY <1>2 DEF SpiAbort
<1>3. CASE GateChange
  BY <1>3 DEF GateChange
<1>4. CASE RejectInvalid
  BY <1>4 DEF RejectInvalid, AbandonAssembly
<1>5. CASE RejectQueueFull
  BY <1>5 DEF RejectQueueFull, AbandonAssembly
<1>6. CASE BeginAssembly
  BY <1>6 DEF BeginAssembly
<1>7. CASE ContinueAssembly
  BY <1>7 DEF ContinueAssembly, AbandonAssembly, InSequence
<1>8. CASE CopyPayload
  BY <1>8 DEF CopyPayload
<1>9. CASE PublishFrame
  BY <1>9 DEF PublishFrame, AbandonAssembly
<1>10. CASE ForgetFrame
  BY <1>10 DEF ForgetFrame, AbandonAssembly
<1>11. CASE Acquire
  BY <1>11 DEF Acquire
<1>12. CASE SendChunk
  BY <1>12, SendChunkRanges
<1>13. CASE SendFails
  BY <1>13 DEF SendFails
<1>14. CASE Release
  BY <1>14, ReleaseRanges
<1>15. CASE ReleaseTimeout
  BY <1>15 DEF ReleaseTimeout
<1>16. CASE UNCHANGED vars
  BY <1>16 DEF vars
<1> QED
  BY <1>1, <1>2, <1>3, <1>4, <1>5, <1>6, <1>7, <1>8, <1>9, <1>10, <1>11, <1>12, <1>13, <1>14, <1>15, <1>16
  DEF Next, RxStep, TxStep

\* Every packet leaves frameLinkTask's locals in agreement with its position.
LEMMA RxConsistentStep == TypeInv /\ [Next]_vars => RxConsistent'
<1> SUFFICES ASSUME Ranges, RxConsistent, [Next]_vars PROVE RxConsistent'
  BY DEF TypeInv, TypeOK
<1> USE ConstantsAssumption
    DEF Ranges, RxConsistent, Packets, Chunks, FrameIds, NoFrame, rxVars, ringVars
<1>1. CASE SpiPacket
  BY <1>1 DEF SpiPacket, NextSpiPosition
<1>2. CASE SpiAbort
  BY <1>2 DEF SpiAbort
<1>3. CASE GateChange
  BY <1>3 DEF GateChange
<1>4. CASE RejectInvalid
  BY <1>4 DEF RejectInvalid, AbandonAssembly
<1>5. CASE RejectQueueFull
  BY <1>5 DEF RejectQueueFull, AbandonAssembly
<1>6. CASE BeginAssembly
  BY <1>6 DEF BeginAssembly
<1>7. CASE ContinueAssembly
  BY <1>7 DEF ContinueAssembly, AbandonAssembly, InSequence
<1>8. CASE CopyPayload
  BY <1>8 DEF CopyPayload
<1>9. CASE PublishFrame
  BY <1>9 DEF PublishFrame, AbandonAssembly
<1>10. CASE ForgetFrame
  BY <1>10 DEF ForgetFrame, AbandonAssembly
<1>11. CASE Acquire
  BY <1>11 DEF Acquire
<1>12. CASE SendChunk
  BY <1>12 DEF SendChunk
<1>13. CASE SendFails
  BY <1>13 DEF SendFails
<1>14. CASE Release
  BY <1>14 DEF Release
<1>15. CASE ReleaseTimeout
  BY <1>15 DEF ReleaseTimeout
<1>16. CASE UNCHANGED vars
  BY <1>16 DEF vars
<1> QED
  BY <1>1, <1>2, <1>3, <1>4, <1>5, <1>6, <1>7, <1>8, <1>9, <1>10, <1>11, <1>12, <1>13, <1>14, <1>15, <1>16
  DEF Next, RxStep, TxStep

\* Type correctness, and with it that no ring index leaves its array, whether
\* or not the mutex is always obtained.
THEOREM TypeCorrect == Spec => []TypeOK
<1>1. TypeInv /\ [Next]_vars => TypeInv'
  BY FlagsStep, RangesStep, RxConsistentStep DEF TypeInv, TypeOK
<1>2. TypeInv => TypeOK
  BY DEF TypeInv
<1> QED
  BY <1>1, <1>2, TypeInit, PTL DEF Spec

\* The i-th slot from the read index is a slot of the ring; the sum wraps once.
LEMMA SlotValue ==
  ASSUME Ranges, s_read_idx \in Buffers, NEW i \in 0 .. NumBuffers
  PROVE  /\ RingSlot(i) \in Buffers
         /\ s_read_idx + i < NumBuffers => RingSlot(i) = s_read_idx + i
         /\ s_read_idx + i >= NumBuffers => RingSlot(i) = s_read_idx + i - NumBuffers
BY ConstantsAssumption DEF RingSlot, Buffers

\* A slot of the ring is its own remainder.
LEMMA ModZero == \A x \in Buffers : (x + 0) % NumBuffers = x
BY ConstantsAssumption DEF Buffers

\* An offset added after the wrap lands where it would before it.
LEMMA ModAdd ==
  ASSUME NEW a \in 0 .. 2 * NumBuffers - 1, NEW i \in 0 .. NumBuffers
  PROVE  ((a % NumBuffers) + i) % NumBuffers = (a + i) % NumBuffers
<1> USE ConstantsAssumption
<1>1. \A x \in 0 .. NumBuffers - 1 : x % NumBuffers = x
  OBVIOUS
<1>2. \A x \in NumBuffers .. 2 * NumBuffers - 1 : x % NumBuffers = x - NumBuffers
  OBVIOUS
<1>3. \A x \in 2 * NumBuffers .. 3 * NumBuffers - 1 : x % NumBuffers = x - 2 * NumBuffers
  OBVIOUS
<1>4. CASE a < NumBuffers
  BY <1>1, <1>4
<1>5. CASE a >= NumBuffers
  <2>1. a % NumBuffers = a - NumBuffers
    BY <1>2, <1>5
  <2>2. CASE a + i < 2 * NumBuffers
    BY <1>1, <1>2, <1>5, <2>1, <2>2
  <2>3. CASE a + i >= 2 * NumBuffers
    BY <1>2, <1>3, <1>5, <2>1, <2>3
  <2> QED
    BY <2>2, <2>3
<1> QED
  BY <1>4, <1>5

\* Two different offsets below NumBuffers are two different buffers.
LEMMA SlotsDistinct ==
  ASSUME Ranges, s_read_idx \in Buffers,
         NEW i \in 0 .. NumBuffers - 1, NEW j \in 0 .. NumBuffers - 1, i # j
  PROVE  RingSlot(i) # RingSlot(j)
<1>1. i \in 0 .. NumBuffers /\ j \in 0 .. NumBuffers
  BY ConstantsAssumption
<1> QED
  BY <1>1, SlotValue, ConstantsAssumption DEF Buffers

\* Types and the receiver's consistency are inductive without anything else.
LEMMA TypeInvStep == TypeInv /\ [Next]_vars => TypeInv'
BY FlagsStep, RangesStep, RxConsistentStep DEF TypeInv, TypeOK

\* The strengthened invariant holds of the statics' initial values.
LEMMA RingInit == Init => IInv
<1> SUFFICES ASSUME Init PROVE IInv
  OBVIOUS
<1>1. TypeOK /\ RxConsistent
  BY TypeInit DEF TypeInv
<1>2. HeldIsHead /\ RingConsistent /\ AssemblyInFreeSlot /\ ReadyFramesWhole
  BY ConstantsAssumption DEF Init, HeldIsHead, RingConsistent, AssemblyInFreeSlot, ReadyFramesWhole
<1>3. ArrivalOrder /\ SenderOrder
  BY ConstantsAssumption DEF Init, ArrivalOrder, SenderOrder, NewerThanAll, Buffers, NoFrame
<1> QED
  BY <1>1, <1>2, <1>3 DEF IInv

\* A step that leaves the ring, its buffers and the sender alone keeps IInv when
\* it keeps the two parts that read the SPI side.
LEMMA QuietStep ==
  ASSUME IInv, TypeInv',
         UNCHANGED <<ringVars, s_frame_bufs, tx>>,
         ArrivalOrder', AssemblyInFreeSlot'
  PROVE  IInv'
<1>1. HeldIsHead' /\ RingConsistent' /\ SenderOrder'
  BY DEF IInv, HeldIsHead, RingConsistent, SenderOrder, ringVars, RingSlot
<1>2. ReadyFramesWhole'
  BY DEF IInv, ReadyFramesWhole, ringVars, RingSlot, Whole
<1> QED
  BY <1>1, <1>2 DEF IInv, TypeInv

\* The steps of the receiver that publish nothing and copy nothing.
LEMMA QuietSteps ==
  ASSUME IInv, TypeInv', MutexTimeouts = FALSE,
         SpiAbort \/ GateChange \/ RejectInvalid \/ RejectQueueFull \/ ContinueAssembly \/ ForgetFrame
  PROVE IInv'
<1> USE ConstantsAssumption DEF IInv, TypeOK, Ranges, ringVars, rxVars
<1>1. ArrivalOrder'
  <2>1. CASE SpiAbort
    <3>1. \A b \in Buffers : s_frame_ids[b] \in Int
      BY DEF FrameIds, NoFrame
    <3>2. spi.frame \in Int /\ tx.id \in Int /\ pkt.frame \in Int
      BY DEF Packets, FrameIds, NoFrame
    <3>3. spi'.frame = spi.frame + 1 /\ UNCHANGED <<pkt, rx_pc, tx, s_frame_ids>>
      BY <2>1 DEF SpiAbort
    <3> QED
      BY <3>1, <3>2, <3>3 DEF ArrivalOrder, NewerThanAll
  <2>2. CASE UNCHANGED spi /\ UNCHANGED pkt /\ (rx_pc = "recv" => rx_pc' = "recv") /\ UNCHANGED tx /\ UNCHANGED s_frame_ids
    BY <2>2 DEF ArrivalOrder, NewerThanAll
  <2> QED
    BY <2>1, <2>2 DEF GateChange, RejectInvalid, RejectQueueFull, ContinueAssembly, ForgetFrame, AbandonAssembly
<1>2. AssemblyInFreeSlot'
  BY DEF AssemblyInFreeSlot, SpiAbort, GateChange, RejectInvalid, RejectQueueFull, ContinueAssembly, ForgetFrame, AbandonAssembly
<1>3. UNCHANGED <<ringVars, s_frame_bufs, tx>>
  BY DEF SpiAbort, GateChange, RejectInvalid, RejectQueueFull, ContinueAssembly, ForgetFrame
<1> QED
  BY <1>1, <1>2, <1>3, QuietStep

\* Receiving a packet only advances the Teensy's position, past every known frame.
LEMMA SpiPacketStep == ASSUME IInv, TypeInv', SpiPacket PROVE IInv'
<1> USE ConstantsAssumption DEF IInv, TypeOK, Ranges, ringVars, rxVars, SpiPacket
<1>1. spi'.frame >= spi.frame /\ (spi.chunk = NumChunks - 1 => spi'.frame > spi.frame)
  BY DEF NextSpiPosition
<1>2. \A b \in Buffers : s_frame_ids[b] \in Int
  BY DEF FrameIds, NoFrame
<1>3. ArrivalOrder'
  <2>0. spi.frame \in Int /\ spi'.frame \in Int /\ tx.id \in Int
    BY DEF FrameIds, NoFrame, NextSpiPosition
  <2>1. NewerThanAll(spi.frame)'
    <3>1. \A b \in Buffers : s_frame_ids[b] < spi'.frame
      BY <1>1, <1>2, <2>0 DEF ArrivalOrder, NewerThanAll
    <3> QED
      BY <3>1, <1>1, <2>0 DEF ArrivalOrder, NewerThanAll
  <2>2. CASE UNCHANGED <<rx_pc, pkt>>
    <3>1. rx_pc # "recv" => pkt.frame \in Int
      BY DEF Packets, FrameIds, NoFrame
    <3> QED
      BY <1>1, <2>0, <2>1, <2>2, <3>1 DEF ArrivalOrder, NewerThanAll
  <2>3. CASE pkt'.frame = spi.frame /\ pkt'.chunk = spi.chunk
    BY <1>1, <2>1, <2>3 DEF ArrivalOrder, NewerThanAll
  <2> QED
    BY <2>2, <2>3
<1>4. AssemblyInFreeSlot'
  BY DEF AssemblyInFreeSlot
<1> QED
  BY <1>3, <1>4, QuietStep

\* frameLinkTask starts a frame in the write slot, which is free since the ring
\* is not full: this is where a timed-out queueIsFull would break the invariant.
LEMMA BeginAssemblyStep ==
  ASSUME IInv, TypeInv', BeginAssembly, MutexTimeouts = FALSE PROVE IInv'
<1> USE ConstantsAssumption DEF IInv, TypeOK, Ranges, ringVars, rxVars, BeginAssembly
<1>1. ArrivalOrder'
  BY DEF ArrivalOrder, NewerThanAll
<1>2. AssemblyInFreeSlot'
  BY DEF AssemblyInFreeSlot, QueueFull
<1> QED
  BY <1>1, <1>2, QuietStep

\* The memcpy of a chunk writes the slot under assembly, which is no ready slot,
\* and extends the prefix already received.
LEMMA CopyPayloadStep == ASSUME IInv, TypeInv', CopyPayload PROVE IInv'
<1> USE ConstantsAssumption DEF IInv, TypeOK, Ranges, ringVars, rxVars, CopyPayload
<1>1. target_idx = s_write_idx /\ s_frame_ready < NumBuffers /\ pkt.frame = expected_frame_id
      /\ pkt.chunk = expected_chunk_idx /\ assembly_active
  BY DEF RxConsistent, AssemblyInFreeSlot
<1>2. \A i \in 0 .. s_frame_ready - 1 : s_frame_bufs'[RingSlot(i)] = s_frame_bufs[RingSlot(i)]
  <2> SUFFICES ASSUME NEW i \in 0 .. s_frame_ready - 1
               PROVE  s_frame_bufs'[RingSlot(i)] = s_frame_bufs[RingSlot(i)]
    OBVIOUS
  <2>1. s_read_idx \in Buffers /\ target_idx = RingSlot(s_frame_ready)
    BY <1>1 DEF RingConsistent
  <2>2. RingSlot(i) # target_idx /\ RingSlot(i) \in Buffers
    BY <1>1, <2>1, SlotsDistinct, SlotValue
  <2> QED
    BY <2>2
<1>3. HeldIsHead' /\ RingConsistent' /\ SenderOrder'
  BY DEF HeldIsHead, RingConsistent, SenderOrder, RingSlot
<1>4. ReadyFramesWhole'
  BY <1>2 DEF ReadyFramesWhole, Whole, RingSlot
<1>5. ArrivalOrder'
  BY DEF ArrivalOrder, NewerThanAll
<1>6. AssemblyInFreeSlot'
  <2>1. \A c \in 0 .. expected_chunk_idx : s_frame_bufs'[target_idx][c] = expected_frame_id
    <3> SUFFICES ASSUME NEW c \in 0 .. expected_chunk_idx
                 PROVE  s_frame_bufs'[target_idx][c] = expected_frame_id
      OBVIOUS
    <3>1. CASE c = expected_chunk_idx
      BY <1>1, <3>1 DEF Packets
    <3>2. CASE c # expected_chunk_idx
      <4>1. s_frame_bufs[target_idx][c] = expected_frame_id
        BY <1>1, <3>2 DEF AssemblyInFreeSlot
      <4> QED
        BY <1>1, <3>2, <4>1
    <3> QED
      BY <3>1, <3>2
  <2> QED
    BY <1>1, <2>1 DEF AssemblyInFreeSlot
<1> QED
  BY <1>3, <1>4, <1>5, <1>6 DEF TypeInv

\* Where a published frame lands: in the slot behind the last ready one, which
\* no ready frame occupies.
LEMMA PublishSlots ==
  ASSUME IInv, PublishFrame
  PROVE  /\ target_idx = s_write_idx /\ s_frame_ready < NumBuffers
         /\ pkt.frame = expected_frame_id /\ pkt.chunk = NumChunks - 1
         /\ assembly_active /\ expected_chunk_idx = NumChunks
         /\ s_frame_ready' = s_frame_ready + 1
         /\ s_read_idx' \in Buffers
         /\ s_frame_ready > 0 => s_read_idx' = s_read_idx
         /\ s_read_idx' = IF s_frame_ready = 0 THEN target_idx ELSE s_read_idx
         /\ target_idx = (s_read_idx' + s_frame_ready) % NumBuffers
         /\ \A i \in 0 .. s_frame_ready - 1 :
              /\ RingSlot(i)' = RingSlot(i)
              /\ RingSlot(i) \in Buffers
              /\ RingSlot(i) # target_idx
<1> USE ConstantsAssumption DEF IInv, TypeOK, Ranges, ringVars, rxVars, PublishFrame
<1>1. /\ target_idx = s_write_idx /\ s_frame_ready < NumBuffers
      /\ pkt.frame = expected_frame_id /\ pkt.chunk = NumChunks - 1
      /\ assembly_active /\ expected_chunk_idx = NumChunks
  BY DEF RxConsistent, AssemblyInFreeSlot
<1>2. /\ s_frame_ready' = s_frame_ready + 1
      /\ s_read_idx' \in Buffers
      /\ s_frame_ready > 0 => s_read_idx' = s_read_idx
      /\ s_read_idx' = IF s_frame_ready = 0 THEN target_idx ELSE s_read_idx
  BY <1>1 DEF RingConsistent
<1>3. target_idx = (s_read_idx' + s_frame_ready) % NumBuffers
  <2>1. CASE s_frame_ready = 0
    BY <1>2, <2>1, ModZero
  <2>2. CASE s_frame_ready > 0
    BY <1>1, <1>2, <2>2 DEF RingConsistent, RingSlot
  <2> QED
    BY <2>1, <2>2
<1>4. \A i \in 0 .. s_frame_ready - 1 :
        /\ RingSlot(i)' = RingSlot(i)
        /\ RingSlot(i) \in Buffers
        /\ RingSlot(i) # target_idx
  <2> SUFFICES ASSUME NEW i \in 0 .. s_frame_ready - 1
               PROVE  /\ RingSlot(i)' = RingSlot(i)
                      /\ RingSlot(i) \in Buffers
                      /\ RingSlot(i) # target_idx
    OBVIOUS
  <2>1. s_read_idx \in Buffers /\ target_idx = RingSlot(s_frame_ready)
    BY <1>1 DEF RingConsistent
  <2>2. RingSlot(i) # target_idx /\ RingSlot(i) \in Buffers
    BY <1>1, <2>1, SlotsDistinct, SlotValue
  <2> QED
    BY <1>2, <2>2 DEF RingSlot
<1> QED
  BY <1>1, <1>2, <1>3, <1>4

\* Publishing puts the assembled frame behind the last ready one and leaves the
\* others, and the head the sender may hold, where they are.
LEMMA PublishFrameStep ==
  ASSUME IInv, TypeInv', PublishFrame PROVE IInv'
<1> USE ConstantsAssumption DEF IInv, TypeOK, Ranges, ringVars, rxVars, PublishFrame
<1>1. /\ target_idx = s_write_idx /\ s_frame_ready < NumBuffers
      /\ pkt.frame = expected_frame_id /\ pkt.chunk = NumChunks - 1
      /\ assembly_active /\ expected_chunk_idx = NumChunks
  BY PublishSlots
<1>2. /\ s_frame_ready' = s_frame_ready + 1
      /\ s_read_idx' \in Buffers
      /\ s_frame_ready > 0 => s_read_idx' = s_read_idx
      /\ s_read_idx' = IF s_frame_ready = 0 THEN target_idx ELSE s_read_idx
  BY PublishSlots
<1>3. target_idx = (s_read_idx' + s_frame_ready) % NumBuffers
  BY PublishSlots
<1>4. \A i \in 0 .. s_frame_ready - 1 :
        /\ RingSlot(i)' = RingSlot(i)
        /\ RingSlot(i) \in Buffers
        /\ RingSlot(i) # target_idx
  BY PublishSlots
<1>5. HeldIsHead'
  BY <1>2 DEF HeldIsHead
<1>6. RingConsistent'
  <2>1. (s_write_idx = RingSlot(s_frame_ready))'
    <3>1. s_read_idx' + s_frame_ready \in 0 .. 2 * NumBuffers - 1
      BY <1>1, <1>2 DEF Buffers
    <3>2. (s_read_idx' + s_frame_ready + 1) % NumBuffers = (target_idx + 1) % NumBuffers
      <4>1. 1 \in 0 .. NumBuffers
        OBVIOUS
      <4> QED
        BY <1>3, <3>1, <4>1, ModAdd
    <3>3. s_read_idx' + s_frame_ready' = s_read_idx' + s_frame_ready + 1
      BY <1>2, <3>1 DEF Buffers
    <3> QED
      BY <3>2, <3>3 DEF RingSlot
  <2> QED
    BY <1>2, <2>1 DEF RingConsistent, Buffers
<1>7. /\ s_frame_ids'[target_idx] = expected_frame_id
      /\ \A b \in Buffers : b # target_idx => s_frame_ids'[b] = s_frame_ids[b]
  BY <1>1
<1>8. \A i \in 0 .. s_frame_ready' - 1 :
         \/ i = s_frame_ready /\ RingSlot(i)' = target_idx
         \/ /\ i \in 0 .. s_frame_ready - 1 /\ RingSlot(i)' = RingSlot(i)
            /\ s_frame_ids'[RingSlot(i)] = s_frame_ids[RingSlot(i)]
  <2> SUFFICES ASSUME NEW i \in 0 .. s_frame_ready' - 1
               PROVE  \/ i = s_frame_ready /\ RingSlot(i)' = target_idx
                      \/ /\ i \in 0 .. s_frame_ready - 1 /\ RingSlot(i)' = RingSlot(i)
                         /\ s_frame_ids'[RingSlot(i)] = s_frame_ids[RingSlot(i)]
    OBVIOUS
  <2>1. CASE i = s_frame_ready
    BY <1>3, <2>1 DEF RingSlot
  <2>2. CASE i # s_frame_ready
    BY <1>2, <1>4, <1>7, <2>2
  <2> QED
    BY <2>1, <2>2
<1>9. expected_frame_id \in FrameIds /\ \A b \in Buffers : s_frame_ids[b] < expected_frame_id
  BY <1>1 DEF RxConsistent, ArrivalOrder, NewerThanAll
<1>10. ReadyFramesWhole'
  <2>1. \A i \in 0 .. s_frame_ready' - 1 : Whole(RingSlot(i))'
    <3> SUFFICES ASSUME NEW i \in 0 .. s_frame_ready' - 1 PROVE Whole(RingSlot(i))'
      OBVIOUS
    <3>1. CASE i = s_frame_ready /\ RingSlot(i)' = target_idx
      BY <1>1, <1>7, <3>1 DEF AssemblyInFreeSlot, Whole, Chunks
    <3>2. CASE /\ i \in 0 .. s_frame_ready - 1 /\ RingSlot(i)' = RingSlot(i)
               /\ s_frame_ids'[RingSlot(i)] = s_frame_ids[RingSlot(i)]
      BY <3>2 DEF ReadyFramesWhole, Whole
    <3> QED
      BY <1>8, <3>1, <3>2
  <2>2. \A i, j \in 0 .. s_frame_ready' - 1 :
          i < j => s_frame_ids'[RingSlot(i)'] < s_frame_ids'[RingSlot(j)']
    <3> SUFFICES ASSUME NEW i \in 0 .. s_frame_ready' - 1,
                        NEW j \in 0 .. s_frame_ready' - 1, i < j
                 PROVE  s_frame_ids'[RingSlot(i)'] < s_frame_ids'[RingSlot(j)']
      OBVIOUS
    <3>1. i \in 0 .. s_frame_ready - 1 /\ RingSlot(i)' = RingSlot(i)
          /\ s_frame_ids'[RingSlot(i)] = s_frame_ids[RingSlot(i)]
      BY <1>2, <1>8
    <3>2. CASE j = s_frame_ready /\ RingSlot(j)' = target_idx
      BY <1>4, <1>7, <1>9, <3>1, <3>2
    <3>3. CASE /\ j \in 0 .. s_frame_ready - 1 /\ RingSlot(j)' = RingSlot(j)
               /\ s_frame_ids'[RingSlot(j)] = s_frame_ids[RingSlot(j)]
      BY <3>1, <3>3 DEF ReadyFramesWhole
    <3> QED
      BY <1>8, <3>2, <3>3
  <2> QED
    BY <2>1, <2>2 DEF ReadyFramesWhole
<1>11. ArrivalOrder'
  <2>1. expected_frame_id < spi.frame /\ tx.id < spi.frame
    BY <1>1, <1>7 DEF ArrivalOrder, NewerThanAll
  <2>2. \A b \in Buffers : s_frame_ids'[b] < spi.frame
    BY <1>7, <2>1 DEF ArrivalOrder, NewerThanAll
  <2> QED
    BY <2>1, <2>2 DEF ArrivalOrder, NewerThanAll, AbandonAssembly
<1>12. SenderOrder'
  <2>1. CASE tx.pc = "idle"
    <3>1. tx.id < expected_frame_id
      BY <1>1 DEF ArrivalOrder, NewerThanAll
    <3> QED
      BY <1>7, <1>8, <2>1, <3>1 DEF SenderOrder
  <2>2. CASE tx.pc # "idle"
    <3>1. s_frame_ready > 0 /\ s_read_idx' = s_read_idx /\ tx.id = s_frame_ids[s_read_idx]
      BY <1>2, <2>2 DEF HeldIsHead, SenderOrder
    <3>2. s_read_idx = RingSlot(0) /\ 0 \in 0 .. s_frame_ready - 1
      BY <1>2, <3>1, ModZero DEF RingSlot
    <3>3. s_read_idx # target_idx
      BY <1>4, <3>2
    <3> QED
      BY <1>2, <1>7, <2>2, <3>1, <3>3 DEF SenderOrder
  <2> QED
    BY <2>1, <2>2
<1>13. AssemblyInFreeSlot'
  BY DEF AssemblyInFreeSlot, AbandonAssembly
<1> QED
  BY <1>5, <1>6, <1>10, <1>11, <1>12, <1>13 DEF TypeInv

\* The stale frames that frameLinkAcquireReadyFrame skips.
Dropped == IF DropStale THEN s_frame_ready - 1 ELSE 0

\* frameLinkAcquireReadyFrame moves the head forward over the frames it drops
\* and hands out the frame there.
LEMMA AcquireSlots ==
  ASSUME IInv, Acquire
  PROVE  /\ tx.pc = "idle" /\ s_frame_ready > 0 /\ s_read_idx \in Buffers
         /\ s_read_idx' = RingSlot(Dropped) /\ s_frame_ready' = s_frame_ready - Dropped
         /\ tx' = [pc |-> "sending", buf |-> RingSlot(Dropped),
                   id |-> s_frame_ids[RingSlot(Dropped)], chunk |-> 0]
         /\ UNCHANGED <<spi, rxVars, s_write_idx, s_frame_ids, s_frame_bufs, sendable>>
         /\ Dropped \in 0 .. s_frame_ready - 1 /\ s_frame_ready' \in 1 .. s_frame_ready
         /\ RingSlot(Dropped) \in Buffers
         /\ \A i \in 0 .. s_frame_ready' :
              (s_read_idx' + i) % NumBuffers = RingSlot(Dropped + i)
<1> USE ConstantsAssumption DEF IInv, TypeOK, Ranges, ringVars, rxVars
<1>1. /\ tx.pc = "idle" /\ s_frame_ready > 0 /\ s_read_idx \in Buffers
      /\ s_read_idx' = RingSlot(Dropped) /\ s_frame_ready' = s_frame_ready - Dropped
      /\ tx' = [pc |-> "sending", buf |-> RingSlot(Dropped),
                id |-> s_frame_ids[RingSlot(Dropped)], chunk |-> 0]
      /\ UNCHANGED <<spi, rxVars, s_write_idx, s_frame_ids, s_frame_bufs, sendable>>
  BY DEF Acquire, RingSlot, Buffers, Dropped
<1>2. Dropped \in 0 .. s_frame_ready - 1 /\ s_frame_ready' \in 1 .. s_frame_ready
  BY <1>1 DEF Dropped
<1>3. RingSlot(Dropped) \in Buffers
  BY <1>1, <1>2, SlotValue
<1>4. \A i \in 0 .. s_frame_ready' :
        (s_read_idx' + i) % NumBuffers = RingSlot(Dropped + i)
  <2> SUFFICES ASSUME NEW i \in 0 .. s_frame_ready'
               PROVE  (RingSlot(Dropped) + i) % NumBuffers
                        = (s_read_idx + (Dropped + i)) % NumBuffers
    BY <1>1 DEF RingSlot
  <2>1. s_read_idx + Dropped \in 0 .. 2 * NumBuffers - 1 /\ i \in 0 .. NumBuffers
    <3>1. s_read_idx \in 0 .. NumBuffers - 1
      BY <1>1 DEF Buffers
    <3>2. /\ Dropped \in 0 .. s_frame_ready - 1 /\ i \in 0 .. s_frame_ready
          /\ s_frame_ready \in 0 .. NumBuffers
      BY <1>2
    <3> QED
      BY ONLY <3>1, <3>2, ConstantsAssumption
  <2>2. (((s_read_idx + Dropped) % NumBuffers) + i) % NumBuffers
          = (s_read_idx + Dropped + i) % NumBuffers
    BY <2>1, ModAdd
  <2>3. s_read_idx + Dropped + i = s_read_idx + (Dropped + i)
    <3>1. s_read_idx \in Int /\ Dropped \in Int /\ i \in Int
      BY <1>1, <1>2, <2>1 DEF Buffers
    <3> QED
      BY ONLY <3>1
  <2> QED
    BY <2>2, <2>3 DEF RingSlot
<1> QED
  BY <1>1, <1>2, <1>3, <1>4

\* The sender takes the head, or drops all but the newest and takes that one.
LEMMA AcquireStep == ASSUME IInv, TypeInv', Acquire PROVE IInv'
<1> USE ConstantsAssumption DEF IInv, TypeOK, Ranges, ringVars, rxVars
<1> DEFINE head == RingSlot(Dropped)
<1>1. /\ tx.pc = "idle" /\ s_frame_ready > 0 /\ s_read_idx \in Buffers
      /\ s_read_idx' = head /\ s_frame_ready' = s_frame_ready - Dropped
      /\ tx' = [pc |-> "sending", buf |-> head, id |-> s_frame_ids[head], chunk |-> 0]
      /\ UNCHANGED <<spi, rxVars, s_write_idx, s_frame_ids, s_frame_bufs, sendable>>
  BY AcquireSlots
<1>2. Dropped \in 0 .. s_frame_ready - 1 /\ s_frame_ready' \in 1 .. s_frame_ready
  BY AcquireSlots
<1>3. head \in Buffers
  BY AcquireSlots
<1>4. \A i \in 0 .. s_frame_ready' : (s_read_idx' + i) % NumBuffers = RingSlot(Dropped + i)
  BY AcquireSlots
<1> HIDE DEF head
<1>5. HeldIsHead'
  BY <1>1, <1>2 DEF HeldIsHead
<1>6. RingConsistent'
  <2>1. (s_frame_ready > 0 => s_write_idx = RingSlot(s_frame_ready))'
    <3>1. s_write_idx = RingSlot(s_frame_ready) /\ Dropped + s_frame_ready' = s_frame_ready
      BY <1>1, <1>2 DEF RingConsistent
    <3>2. (s_read_idx' + s_frame_ready') % NumBuffers = RingSlot(Dropped + s_frame_ready')
      BY <1>2, <1>4 DEF RingSlot
    <3> QED
      BY <1>1, <3>1, <3>2 DEF RingSlot
  <2> QED
    BY <1>1, <1>2, <1>3, <2>1 DEF RingConsistent, Buffers
<1>7. AssemblyInFreeSlot'
  BY <1>1, <1>2 DEF AssemblyInFreeSlot
<1>8. \A i \in 0 .. s_frame_ready' - 1 :
        Dropped + i \in 0 .. s_frame_ready - 1 /\ RingSlot(i)' = RingSlot(Dropped + i)
  BY <1>1, <1>2, <1>4 DEF RingSlot
<1>9. ReadyFramesWhole'
  <2>1. \A i \in 0 .. s_frame_ready' - 1 : Whole(RingSlot(i))'
    BY <1>1, <1>8 DEF ReadyFramesWhole, Whole
  <2>2. \A i, j \in 0 .. s_frame_ready' - 1 :
          i < j => s_frame_ids'[RingSlot(i)'] < s_frame_ids'[RingSlot(j)']
    <3> SUFFICES ASSUME NEW i \in 0 .. s_frame_ready' - 1,
                        NEW j \in 0 .. s_frame_ready' - 1, i < j
                 PROVE  s_frame_ids[RingSlot(Dropped + i)] < s_frame_ids[RingSlot(Dropped + j)]
      BY <1>1, <1>8
    <3>1. Dropped + i < Dropped + j
      BY <1>2
    <3> QED
      BY <3>1, <1>8 DEF ReadyFramesWhole
  <2> QED
    BY <2>1, <2>2 DEF ReadyFramesWhole
<1>10. ArrivalOrder'
  <2>1. tx'.id = s_frame_ids[head]
    BY <1>1
  <2> QED
    BY <1>1, <1>3, <2>1 DEF ArrivalOrder, NewerThanAll
<1>11. SenderOrder'
  BY <1>1 DEF SenderOrder
<1> QED
  BY <1>5, <1>6, <1>7, <1>9, <1>10, <1>11 DEF TypeInv

\* Packing and sending chunks touches the sender's locals only.
LEMMA SendStep == ASSUME IInv, TypeInv', SendChunk \/ SendFails PROVE IInv'
<1> USE ConstantsAssumption DEF IInv, TypeOK, Ranges, ringVars, rxVars
<1>1. /\ tx.pc = "sending" /\ tx'.pc # "idle" /\ tx'.buf = tx.buf /\ tx'.id = tx.id
      /\ UNCHANGED <<spi, rxVars, ringVars, s_frame_bufs, sendable>>
  BY DEF SendChunk, SendFails
<1>2. HeldIsHead' /\ RingConsistent' /\ SenderOrder'
  BY <1>1 DEF HeldIsHead, RingConsistent, SenderOrder, RingSlot
<1>3. ReadyFramesWhole'
  BY <1>1 DEF ReadyFramesWhole, RingSlot, Whole
<1>4. ArrivalOrder' /\ AssemblyInFreeSlot'
  BY <1>1 DEF ArrivalOrder, NewerThanAll, AssemblyInFreeSlot
<1> QED
  BY <1>2, <1>3, <1>4 DEF TypeInv

\* frameLinkReleaseReadyFrame gives back the head: the frame behind it becomes
\* the head.
LEMMA ReleaseSlots ==
  ASSUME IInv, Release
  PROVE  /\ tx.pc = "release" /\ tx' = [tx EXCEPT !.pc = "idle"]
         /\ s_frame_ready > 0 /\ s_read_idx = tx.buf /\ s_read_idx \in Buffers
         /\ s_frame_ready' = s_frame_ready - 1
         /\ s_read_idx' = IF s_frame_ready > 1 THEN RingSlot(1) ELSE -1
         /\ UNCHANGED <<spi, rxVars, s_write_idx, s_frame_ids, s_frame_bufs, sendable>>
         /\ s_frame_ready > 1 =>
              /\ s_read_idx' \in Buffers
              /\ \A i \in 0 .. s_frame_ready' : (s_read_idx' + i) % NumBuffers = RingSlot(i + 1)
<1> USE ConstantsAssumption DEF IInv, TypeOK, Ranges, ringVars, rxVars
<1>1. /\ tx.pc = "release" /\ tx' = [tx EXCEPT !.pc = "idle"]
      /\ s_frame_ready > 0 /\ s_read_idx = tx.buf /\ s_read_idx \in Buffers
      /\ s_frame_ready' = s_frame_ready - 1
      /\ s_read_idx' = IF s_frame_ready > 1 THEN RingSlot(1) ELSE -1
      /\ UNCHANGED <<spi, rxVars, s_write_idx, s_frame_ids, s_frame_bufs, sendable>>
  BY DEF Release, HeldIsHead, RingConsistent, RingSlot
<1>2. s_frame_ready > 1 =>
        /\ s_read_idx' \in Buffers
        /\ \A i \in 0 .. s_frame_ready' : (s_read_idx' + i) % NumBuffers = RingSlot(i + 1)
  <2> SUFFICES ASSUME s_frame_ready > 1
               PROVE  /\ RingSlot(1) \in Buffers
                      /\ \A i \in 0 .. s_frame_ready' :
                            (RingSlot(1) + i) % NumBuffers = RingSlot(i + 1)
    BY <1>1 DEF RingSlot
  <2>1. RingSlot(1) \in Buffers
    BY <1>1, SlotValue
  <2> SUFFICES ASSUME NEW i \in 0 .. s_frame_ready'
               PROVE  (RingSlot(1) + i) % NumBuffers = RingSlot(i + 1)
    BY <2>1
  <2>2. s_read_idx + 1 \in 0 .. 2 * NumBuffers - 1 /\ i \in 0 .. NumBuffers
    <3>1. s_read_idx \in 0 .. NumBuffers - 1
      BY <1>1 DEF Buffers
    <3>2. i \in 0 .. s_frame_ready - 1 /\ s_frame_ready \in 0 .. NumBuffers
      BY <1>1
    <3> QED
      BY ONLY <3>1, <3>2, ConstantsAssumption
  <2>3. (((s_read_idx + 1) % NumBuffers) + i) % NumBuffers = (s_read_idx + 1 + i) % NumBuffers
    BY <2>2, ModAdd
  <2>4. s_read_idx + 1 + i = s_read_idx + (i + 1)
    <3>1. s_read_idx \in Int /\ i \in Int
      BY <1>1, <2>2 DEF Buffers
    <3> QED
      BY ONLY <3>1
  <2> QED
    BY <2>3, <2>4 DEF RingSlot
<1> QED
  BY <1>1, <1>2

\* The head leaves the ring and every other ready frame moves one place forward.
LEMMA ReleaseStep == ASSUME IInv, TypeInv', Release PROVE IInv'
<1> USE ConstantsAssumption DEF IInv, TypeOK, Ranges, ringVars, rxVars
<1>1. /\ tx.pc = "release" /\ tx' = [tx EXCEPT !.pc = "idle"]
      /\ s_frame_ready > 0 /\ s_read_idx = tx.buf /\ s_read_idx \in Buffers
      /\ s_frame_ready' = s_frame_ready - 1
      /\ s_read_idx' = IF s_frame_ready > 1 THEN RingSlot(1) ELSE -1
      /\ UNCHANGED <<spi, rxVars, s_write_idx, s_frame_ids, s_frame_bufs, sendable>>
  BY ReleaseSlots
<1>2. s_frame_ready > 1 =>
        /\ s_read_idx' \in Buffers
        /\ \A i \in 0 .. s_frame_ready' : (s_read_idx' + i) % NumBuffers = RingSlot(i + 1)
  BY ReleaseSlots
<1>3. HeldIsHead'
  BY <1>1 DEF HeldIsHead
<1>4. RingConsistent'
  <2>1. CASE s_frame_ready = 1
    BY <1>1, <2>1 DEF RingConsistent
  <2>2. CASE s_frame_ready > 1
    <3>1. (s_read_idx' + s_frame_ready') % NumBuffers = RingSlot(s_frame_ready)
      <4>1. s_frame_ready' \in 0 .. s_frame_ready' /\ s_frame_ready' + 1 = s_frame_ready
        BY <1>1
      <4>2. \A i \in 0 .. s_frame_ready' : (s_read_idx' + i) % NumBuffers = RingSlot(i + 1)
        BY <1>2, <2>2 DEF RingSlot
      <4>3. (s_read_idx' + s_frame_ready') % NumBuffers = RingSlot(s_frame_ready' + 1)
        BY <4>1, <4>2
      <4> QED
        BY <4>1, <4>3
    <3>2. (s_write_idx = RingSlot(s_frame_ready))'
      BY <1>1, <2>2, <3>1 DEF RingConsistent, RingSlot
    <3> QED
      BY <1>1, <1>2, <2>2, <3>2 DEF RingConsistent, Buffers
  <2> QED
    BY <1>1, <2>1, <2>2
<1>5. AssemblyInFreeSlot'
  BY <1>1 DEF AssemblyInFreeSlot
<1>6. \A i \in 0 .. s_frame_ready' - 1 :
        i + 1 \in 0 .. s_frame_ready - 1 /\ RingSlot(i)' = RingSlot(i + 1)
  BY <1>1, <1>2 DEF RingSlot
<1>7. ReadyFramesWhole'
  <2>1. \A i \in 0 .. s_frame_ready' - 1 : Whole(RingSlot(i))'
    BY <1>1, <1>6 DEF ReadyFramesWhole, Whole
  <2>2. \A i, j \in 0 .. s_frame_ready' - 1 :
          i < j => s_frame_ids'[RingSlot(i)'] < s_frame_ids'[RingSlot(j)']
    <3> SUFFICES ASSUME NEW i \in 0 .. s_frame_ready' - 1,
                        NEW j \in 0 .. s_frame_ready' - 1, i < j
                 PROVE  s_frame_ids[RingSlot(i + 1)] < s_frame_ids[RingSlot(j + 1)]
      BY <1>1, <1>6
    <3> QED
      BY <1>6 DEF ReadyFramesWhole
  <2> QED
    BY <2>1, <2>2 DEF ReadyFramesWhole
<1>8. ArrivalOrder'
  BY <1>1 DEF ArrivalOrder, NewerThanAll
<1>9. SenderOrder'
  <2>1. tx'.pc = "idle" /\ tx'.id = s_frame_ids[RingSlot(0)] /\ 0 \in 0 .. s_frame_ready - 1
    BY <1>1, ModZero DEF SenderOrder, RingSlot
  <2> SUFFICES ASSUME NEW i \in 0 .. s_frame_ready' - 1
               PROVE  s_frame_ids[RingSlot(0)] < s_frame_ids[RingSlot(i + 1)]
    BY <1>1, <1>6, <2>1 DEF SenderOrder
  <2>2. i + 1 \in 0 .. s_frame_ready - 1 /\ 0 < i + 1
    BY <1>6
  <2> QED
    BY <2>1, <2>2 DEF ReadyFramesWhole
<1> QED
  BY <1>3, <1>4, <1>5, <1>7, <1>8, <1>9 DEF TypeInv

\* Without mutex timeouts, IInv is inductive.
LEMMA RingStep ==
  ASSUME MutexTimeouts = FALSE
  PROVE  IInv /\ [Next]_vars => IInv'
<1> SUFFICES ASSUME IInv, [Next]_vars PROVE IInv'
  OBVIOUS
<1>1. TypeInv'
  BY TypeInvStep DEF TypeInv, IInv
<1>2. CASE UNCHANGED vars
  BY <1>1, <1>2, QuietStep
  DEF vars, IInv, rxVars, ringVars, ArrivalOrder, NewerThanAll, AssemblyInFreeSlot
<1> QED
  BY <1>1, <1>2, SpiPacketStep, QuietSteps, BeginAssemblyStep, CopyPayloadStep,
     PublishFrameStep, AcquireStep, SendStep, ReleaseStep
  DEF Next, RxStep, TxStep, ReleaseTimeout

\* With a mutex that is always obtained in time the ring indices, the buffer under
\* assembly and the held buffer agree in every reachable state (frame_link.c:70-140).
THEOREM IInvHolds == ASSUME MutexTimeouts = FALSE PROVE Spec => []IInv
BY RingInit, RingStep, PTL DEF Spec

\* No chunk the sender reads belongs to another frame than the one it announced:
\* frameLinkTask never writes the buffer mqttFrameTask holds.
THEOREM NoTornFrameHolds == ASSUME MutexTimeouts = FALSE PROVE Spec => []NoTornFrame
<1>1. IInv => NoTornFrame
  <2> SUFFICES ASSUME IInv, tx.pc = "sending" PROVE \A c \in Chunks : s_frame_bufs[tx.buf][c] = tx.id
    BY DEF NoTornFrame
  <2> USE DEF IInv, TypeOK, Ranges
  <2>1. s_frame_ready > 0 /\ s_read_idx = tx.buf /\ s_read_idx \in Buffers
    BY DEF HeldIsHead, RingConsistent
  <2>2. RingSlot(0) = s_read_idx /\ 0 \in 0 .. s_frame_ready - 1
    BY <2>1, ModZero DEF RingSlot
  <2> QED
    BY <2>1, <2>2 DEF ReadyFramesWhole, Whole, SenderOrder
<1> QED
  BY <1>1, IInvHolds, PTL

\* Each frame acquired is newer than the one acquired before it.
THEOREM SentInOrderHolds == ASSUME MutexTimeouts = FALSE PROVE Spec => SentInOrder
<1>1. IInv /\ [Next]_vars => [tx.pc = "idle" /\ tx'.pc = "sending" => tx'.id > tx.id]_vars
  <2> SUFFICES ASSUME IInv, Next, tx.pc = "idle", tx'.pc = "sending" PROVE tx'.id > tx.id
    BY DEF vars
  <2> USE ConstantsAssumption DEF IInv, TypeOK, Ranges, ringVars, rxVars
  <2>1. Acquire
    BY DEF Next, RxStep, TxStep, SpiPacket, SpiAbort, GateChange, RejectInvalid, RejectQueueFull,
           BeginAssembly, ContinueAssembly, CopyPayload, PublishFrame, ForgetFrame,
           SendChunk, SendFails, Release, ReleaseTimeout
  <2>2. \E d \in 0 .. s_frame_ready - 1 : tx'.id = s_frame_ids[RingSlot(d)]
    BY <2>1 DEF Acquire, RingSlot
  <2>3. \A d \in 0 .. s_frame_ready - 1 : RingSlot(d) \in Buffers
    <3> SUFFICES ASSUME NEW d \in 0 .. s_frame_ready - 1 PROVE RingSlot(d) \in Buffers
      OBVIOUS
    <3>1. s_read_idx \in Buffers /\ d \in 0 .. NumBuffers
      BY <2>1 DEF Acquire, Buffers
    <3> QED
      BY <3>1, SlotValue
  <2> QED
    BY <2>2, <2>3 DEF SenderOrder, FrameIds, NoFrame
<1> QED
  BY <1>1, IInvHolds, PTL DEF Spec, SentInOrder

\* No step makes the sender lose the head it holds.
LEMMA HeldStep == TypeInv /\ HeldIsHead /\ [Next]_vars => HeldIsHead'
<1> SUFFICES ASSUME Ranges, HeldIsHead, [Next]_vars PROVE HeldIsHead'
  BY DEF TypeInv, TypeOK
<1> USE ConstantsAssumption DEF HeldIsHead, Ranges, ringVars, rxVars
<1>1. CASE UNCHANGED <<s_frame_ready, s_read_idx, tx>>
  BY <1>1
<1>2. CASE PublishFrame
  BY <1>2 DEF PublishFrame
<1>3. CASE Acquire
  BY <1>3 DEF Acquire
<1>4. CASE SendChunk \/ SendFails
  BY <1>4 DEF SendChunk, SendFails
<1>5. CASE Release \/ ReleaseTimeout
  BY <1>5 DEF Release, ReleaseTimeout
<1> QED
  BY <1>1, <1>2, <1>3, <1>4, <1>5
  DEF Next, RxStep, TxStep, vars, SpiPacket, SpiAbort, GateChange, RejectInvalid,
      RejectQueueFull, BeginAssembly, ContinueAssembly, CopyPayload, ForgetFrame

\* A held buffer is the ring's head until it is released, mutex timeouts or not: a
\* release that times out keeps the frame, it does not free a buffer in use.
THEOREM HeldIsHeadHolds == Spec => []HeldIsHead
<1>1. Init => TypeInv /\ HeldIsHead
  BY TypeInit DEF Init, HeldIsHead
<1>2. TypeInv /\ HeldIsHead /\ [Next]_vars => (TypeInv /\ HeldIsHead)'
  BY TypeInvStep, HeldStep
<1> QED
  BY <1>1, <1>2, PTL DEF Spec

\* The abstract queue and the newest id ever published, as the refinement of
\* FrameLink.tla maps them.
Queue == [i \in 1 .. s_frame_ready |-> Content(RingSlot(i - 1))]
Latest == s_frame_ids[(s_write_idx + NumBuffers - 1) % NumBuffers]

\* What the proofs use of that sequence.
QueueOfRing ==
  /\ Queue \in Seq(Nat)
  /\ Len(Queue) = s_frame_ready
  /\ s_frame_ready \in 0 .. NumBuffers
  /\ \A i \in 1 .. s_frame_ready : Queue[i] = s_frame_ids[RingSlot(i - 1)]

\* The ready slots, read from the read index on, are a sequence of frame ids.
LEMMA QueueIsRing == IInv => QueueOfRing
<1> SUFFICES ASSUME IInv PROVE QueueOfRing
  OBVIOUS
<1> USE DEF IInv, TypeOK, Ranges
<1>1. \A i \in 1 .. s_frame_ready :
        /\ Content(RingSlot(i - 1)) = s_frame_ids[RingSlot(i - 1)]
        /\ s_frame_ids[RingSlot(i - 1)] \in Nat
  <2> SUFFICES ASSUME NEW i \in 1 .. s_frame_ready
               PROVE  /\ Content(RingSlot(i - 1)) = s_frame_ids[RingSlot(i - 1)]
                      /\ s_frame_ids[RingSlot(i - 1)] \in Nat
    OBVIOUS
  <2>1. i - 1 \in 0 .. s_frame_ready - 1 /\ i - 1 \in 0 .. NumBuffers /\ s_read_idx \in Buffers
    BY ConstantsAssumption DEF RingConsistent
  <2>2. RingSlot(i - 1) \in Buffers
    BY <2>1, SlotValue
  <2>3. Whole(RingSlot(i - 1))
    BY <2>1 DEF ReadyFramesWhole
  <2> QED
    BY <2>2, <2>3, ConstantsAssumption DEF Content, FrameIds, NoFrame
<1>2. Queue \in [1 .. s_frame_ready -> Nat]
  BY <1>1 DEF Queue, QueueOfRing
<1>3. Queue \in Seq(Nat)
  BY <1>2, SeqDef
<1>4. Len(Queue) = s_frame_ready
  BY <1>2, <1>3, LenProperties
<1> QED
  BY <1>1, <1>3, <1>4 DEF Queue, QueueOfRing

\* The slot before the next write slot is the slot just written.
LEMMA LatestOf ==
  ASSUME NEW t \in Buffers
  PROVE  (((t + 1) % NumBuffers) + NumBuffers - 1) % NumBuffers = t
<1> USE ConstantsAssumption DEF Buffers
<1>1. CASE t + 1 < NumBuffers
  <2>1. (t + 1) % NumBuffers = t + 1
    BY <1>1
  <2>2. (t + NumBuffers) % NumBuffers = t
    OBVIOUS
  <2>3. (t + 1) + NumBuffers - 1 = t + NumBuffers
    OBVIOUS
  <2> QED
    BY <2>1, <2>2, <2>3
<1>2. CASE t + 1 = NumBuffers
  BY <1>2
<1> QED
  BY <1>1, <1>2

\* The empty ring is the empty queue.
LEMMA RefineInit == Init => FQ!Init
<1> SUFFICES ASSUME Init PROVE FQ!Init
  OBVIOUS
<1>1. [i \in 1 .. s_frame_ready |-> Content(RingSlot(i - 1))] = <<>>
  BY DEF Init
<1>2. s_frame_ids[(s_write_idx + NumBuffers - 1) % NumBuffers] = 0
  <2>1. (0 + NumBuffers - 1) % NumBuffers \in Buffers
    BY ConstantsAssumption DEF Buffers
  <2> QED
    BY <2>1 DEF Init, NoFrame
<1> QED
  BY <1>1, <1>2 DEF Init, FQ!Init

\* Publishing a frame appends a newer frame to a queue that has room.
LEMMA RefinePublish ==
  ASSUME IInv, QueueOfRing, QueueOfRing', PublishFrame PROVE FQ!Publish
<1> USE ConstantsAssumption
<1>1. Ranges /\ RxConsistent
  BY DEF IInv, TypeOK
<1>2. /\ target_idx \in Buffers /\ expected_frame_id \in FrameIds
      /\ s_frame_ids' = [s_frame_ids EXCEPT ![target_idx] = expected_frame_id]
      /\ s_write_idx' = (target_idx + 1) % NumBuffers
      /\ pkt.frame = expected_frame_id
      /\ UNCHANGED tx
  BY <1>1, PublishSlots DEF RxConsistent, PublishFrame, Ranges
<1>3. Latest' = expected_frame_id
  BY <1>1, <1>2, LatestOf DEF Latest, Ranges
<1>4. expected_frame_id \in Latest + 1 .. MaxFrames
  <2>1. (s_write_idx + NumBuffers - 1) % NumBuffers \in Buffers
    BY <1>1 DEF Ranges, Buffers
  <2>2. Latest < expected_frame_id /\ Latest \in Int
    BY <1>1, <1>2, <2>1
    DEF Latest, IInv, ArrivalOrder, NewerThanAll, PublishFrame, Ranges, FrameIds, NoFrame
  <2> QED
    BY <1>2, <2>2 DEF FrameIds
<1>5. Queue' = Append(Queue, expected_frame_id)
  <2>1. /\ Queue' \in Seq(Nat) /\ Len(Queue') = s_frame_ready + 1
        /\ Queue \in Seq(Nat) /\ Len(Queue) = s_frame_ready /\ s_frame_ready \in Nat
        /\ expected_frame_id \in Nat
    BY <1>2, PublishSlots DEF QueueOfRing, FrameIds
  <2>2. /\ Append(Queue, expected_frame_id) \in Seq(Nat)
        /\ Len(Append(Queue, expected_frame_id)) = s_frame_ready + 1
        /\ \A i \in 1 .. s_frame_ready : Append(Queue, expected_frame_id)[i] = Queue[i]
        /\ Append(Queue, expected_frame_id)[s_frame_ready + 1] = expected_frame_id
    BY <2>1, AppendProperties
  <2>3. ASSUME NEW i \in 1 .. s_frame_ready + 1
        PROVE  Queue'[i] = Append(Queue, expected_frame_id)[i]
    <3>1. Queue'[i] = s_frame_ids'[RingSlot(i - 1)']
      BY PublishSlots DEF QueueOfRing
    <3>2. CASE i = s_frame_ready + 1
      <4>1. RingSlot(i - 1)' = target_idx
        BY <2>1, <3>2, PublishSlots DEF RingSlot
      <4> QED
        BY <1>1, <1>2, <2>2, <3>1, <3>2, <4>1 DEF Ranges
    <3>3. CASE i # s_frame_ready + 1
      <4>1. i \in 1 .. s_frame_ready /\ i - 1 \in 0 .. s_frame_ready - 1
        BY <2>1, <3>3
      <4>2. /\ RingSlot(i - 1)' = RingSlot(i - 1) /\ RingSlot(i - 1) \in Buffers
            /\ RingSlot(i - 1) # target_idx
        BY <4>1, PublishSlots
      <4>3. s_frame_ids'[RingSlot(i - 1)] = s_frame_ids[RingSlot(i - 1)]
        BY <1>1, <1>2, <4>2 DEF Ranges
      <4> QED
        BY <2>2, <3>1, <4>1, <4>2, <4>3 DEF QueueOfRing
    <3> QED
      BY <3>2, <3>3
  <2> QED
    BY <2>1, <2>2, <2>3, SeqEqual
<1>6. Len(Queue) < NumBuffers
  BY PublishSlots DEF QueueOfRing
<1> QED
  BY <1>2, <1>3, <1>4, <1>5, <1>6 DEF FQ!Publish, Queue, Latest

\* Acquiring takes the head of the queue, after dropping the stale ones if asked to.
LEMMA RefineAcquire ==
  ASSUME IInv, QueueOfRing, QueueOfRing', Acquire PROVE FQ!Acquire
<1> USE ConstantsAssumption
<1>1. /\ Queue' \in Seq(Nat) /\ Len(Queue') = s_frame_ready - Dropped
      /\ Queue \in Seq(Nat) /\ Len(Queue) = s_frame_ready
      /\ s_frame_ready \in Nat \ {0} /\ Dropped \in 0 .. s_frame_ready - 1
  BY AcquireSlots DEF QueueOfRing
<1>2. ASSUME NEW i \in 1 .. s_frame_ready - Dropped
      PROVE  Queue'[i] = Queue[Dropped + i]
  <2>1. s_frame_ready' = s_frame_ready - Dropped /\ i - 1 \in 0 .. s_frame_ready'
        /\ Dropped + i \in 1 .. s_frame_ready
    BY <1>1, AcquireSlots
  <2>2. (s_read_idx' + (i - 1)) % NumBuffers = RingSlot(Dropped + (i - 1))
    BY <2>1, AcquireSlots
  <2>3. Dropped + (i - 1) = (Dropped + i) - 1
    BY <1>1
  <2>4. Queue'[i] = s_frame_ids[RingSlot((Dropped + i) - 1)]
    BY <2>1, <2>2, <2>3, AcquireSlots DEF QueueOfRing, RingSlot
  <2> QED
    BY <2>1, <2>4 DEF QueueOfRing
<1>3. Queue' = IF DropStale THEN <<Queue[Len(Queue)]>> ELSE Queue
  <2>1. CASE DropStale
    <3>1. Dropped = s_frame_ready - 1
      BY <2>1 DEF Dropped
    <3>2. Len(Queue') = 1 /\ Queue'[1] = Queue[s_frame_ready]
      BY <1>1, <1>2, <3>1
    <3>3. Queue[s_frame_ready] \in Nat
      BY <1>1, ElementOfSeq
    <3>4. /\ <<Queue[s_frame_ready]>> \in Seq(Nat)
          /\ Len(<<Queue[s_frame_ready]>>) = 1
          /\ <<Queue[s_frame_ready]>>[1] = Queue[s_frame_ready]
      BY <3>3
    <3>5. Queue' = <<Queue[s_frame_ready]>>
      BY <1>1, <3>2, <3>4, SeqEqual
    <3> QED
      BY <1>1, <2>1, <3>5
  <2>2. CASE ~DropStale
    <3>1. Dropped = 0
      BY <2>2 DEF Dropped
    <3>2. \A i \in 1 .. Len(Queue) : Queue'[i] = Queue[i]
      BY <1>1, <1>2, <3>1
    <3>3. Queue' = Queue
      BY <1>1, <3>1, <3>2, SeqEqual
    <3> QED
      BY <2>2, <3>3
  <2> QED
    BY <2>1, <2>2
<1>4. Latest' = Latest
  BY AcquireSlots DEF Latest
<1>5. tx.pc = "idle" /\ tx'.pc # "idle"
  BY AcquireSlots
<1>6. Queue # <<>>
  BY <1>1
<1> QED
  BY <1>3, <1>4, <1>5, <1>6 DEF FQ!Acquire, Queue, Latest

\* Releasing removes the head of the queue.
LEMMA RefineRelease ==
  ASSUME IInv, QueueOfRing, QueueOfRing', Release PROVE FQ!Release
<1> USE ConstantsAssumption
<1>1. /\ Queue' \in Seq(Nat) /\ Len(Queue') = s_frame_ready - 1
      /\ Queue \in Seq(Nat) /\ Len(Queue) = s_frame_ready /\ s_frame_ready \in Nat \ {0}
      /\ s_frame_ready' = s_frame_ready - 1
  BY ReleaseSlots DEF QueueOfRing
<1>2. /\ Tail(Queue) \in Seq(Nat) /\ Len(Tail(Queue)) = s_frame_ready - 1
      /\ \A i \in 1 .. s_frame_ready - 1 : Tail(Queue)[i] = Queue[i + 1]
  <2>1. Queue # <<>>
    BY <1>1
  <2> QED
    BY <1>1, <2>1, HeadTailProperties
<1>3. ASSUME NEW i \in 1 .. s_frame_ready - 1
      PROVE  Queue'[i] = Tail(Queue)[i]
  <2>1. /\ s_frame_ready > 1 /\ i - 1 \in 0 .. s_frame_ready' /\ i + 1 \in 1 .. s_frame_ready
        /\ (i - 1) + 1 = (i + 1) - 1 /\ i \in 1 .. s_frame_ready'
    BY <1>1
  <2>2. (s_read_idx' + (i - 1)) % NumBuffers = RingSlot((i - 1) + 1)
    BY <2>1, ReleaseSlots
  <2>3. Queue'[i] = s_frame_ids'[RingSlot(i - 1)']
    BY <2>1 DEF QueueOfRing
  <2>4. Queue'[i] = s_frame_ids[RingSlot((i + 1) - 1)]
    BY <2>1, <2>2, <2>3, ReleaseSlots DEF RingSlot
  <2>5. Queue[i + 1] = s_frame_ids[RingSlot((i + 1) - 1)]
    BY <2>1 DEF QueueOfRing
  <2> QED
    BY <1>2, <2>4, <2>5
<1>4. Queue' = Tail(Queue)
  BY <1>1, <1>2, <1>3, SeqEqual
<1>5. Latest' = Latest
  BY ReleaseSlots DEF Latest
<1>6. tx.pc # "idle" /\ tx'.pc = "idle"
  BY ReleaseSlots DEF IInv, TypeOK, Ranges
<1> QED
  BY <1>4, <1>5, <1>6 DEF FQ!Release, Queue, Latest

\* Every step of the two tasks is a step of the abstract queue or leaves it
\* alone.
LEMMA RefineStep ==
  ASSUME MutexTimeouts = FALSE
  PROVE  IInv /\ QueueOfRing /\ QueueOfRing' /\ [Next]_vars => [FQ!Next]_(FQ!vars)
<1> SUFFICES ASSUME IInv, QueueOfRing, QueueOfRing', [Next]_vars,
                    ~PublishFrame, ~Acquire, ~Release
             PROVE  UNCHANGED FQ!vars
  BY RefinePublish, RefineAcquire, RefineRelease DEF FQ!Next
<1>1. UNCHANGED ringVars /\ (tx'.pc = "idle" <=> tx.pc = "idle")
  BY DEF IInv, TypeOK, Ranges, Next, RxStep, TxStep, vars, SpiPacket, SpiAbort, GateChange,
         RejectInvalid, RejectQueueFull, BeginAssembly, ContinueAssembly, CopyPayload,
         ForgetFrame, SendChunk, SendFails, ReleaseTimeout
<1>2. Queue' = Queue
  <2>1. \A i \in 1 .. s_frame_ready : Queue'[i] = Queue[i]
    BY <1>1 DEF QueueOfRing, RingSlot, ringVars
  <2> QED
    BY <1>1, <2>1, SeqEqual DEF QueueOfRing, ringVars
<1>3. Latest' = Latest
  BY <1>1 DEF Latest, ringVars
<1> QED
  BY <1>1, <1>2, <1>3 DEF FQ!vars, Queue, Latest

\* The ring with its two tasks implements the queue of whole frames.
THEOREM ImplementsQueueHolds ==
  ASSUME MutexTimeouts = FALSE PROVE Spec => ImplementsQueue
<1>1. Spec => []IInv
  BY IInvHolds
<1>2. IInv => QueueOfRing
  BY QueueIsRing
<1> QED
  BY <1>1, <1>2, RefineInit, RefineStep, PTL DEF Spec, ImplementsQueue, FQ!Spec
=============================================================================
