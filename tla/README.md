# A.E.G.I.S. verification development

TLA+ models of the thermal-camera and motor-control system in this repository,
TLC configurations that check them on small instances, and TLAPS proofs.
Modules are written from the code; every definition that stands for code is
listed with its lines in `PROJECT.json` (`map`).

## 1. The system

Two paths run through the system.

*Data plane.* A Lepton camera streams packets to a Teensy, which builds frames
and clocks them out over SPI. The ESP32 reassembles them in a ring of frame
buffers and sends each frame in chunks over DTLS/UDP to a gateway in the
cluster, which decrypts them for the Crow server; its thermal proxy passes the
chunks to WebSocket clients (the Qt client), which build the frame again.

*Control plane.* A REST request to the Crow server becomes an MQTT command, the
ESP32 queues it and writes it as a line on a UART, the STM32 runs it on three
servos and answers a line, which comes back as an MQTT message.

| Component | State | Operations | Interacts with | Hard behaviour |
|---|---|---|---|---|
| Teensy capture (`teensy/TeensyC/src/main.c` `captureFrame`) | packet and segment counters, segment and frame buffers | read a packet; time out | Lepton over SPI | packets are lost, garbled, repeated; segments are told apart by packet 20 only |
| Teensy buffers (same file, `main`, `frameSenderThread`) | two queues of buffer indices | take, steal, queue, send, free | capture, ESP32 | two threads, three buffers, no lock |
| ESP32 frame link (`device/frame_link.c`) | ring of frame buffers, assembly | receive packet, publish frame; acquire, release | Teensy, `mqttFrameTask` | two tasks; pixels are copied outside the mutex; the mutex may time out |
| ESP32 UDP stream (`mqtt/udp_stream.c`) | socket, reset request, time stamps | connect, send chunk, back off; reset on loss of Wi-Fi | `wifi.c`, gateway | the event handler does not wait for the mutex; retries and reconnects |
| ESP32 command bridge (`mqtt/mqtt.c`, `device/cmd_uart.c`) | command queue | receive, forward, publish reply | broker, STM32 | queue full, reply while disconnected |
| STM32 command line (`Core/Src/main.c`) | line, command queue, overflow flag | RX interrupt, `processUartCommand` | ESP32, servos | the interrupt preempts the main loop |
| STM32 servos (`Core/Src/motor.c`) | angle, target, jog, set queue | press, stop, release, move, set, `Motor_Update` | PWM chip | queued sets against manual commands |
| MotorManager (`features/motor`) | one outstanding request, last response | send and wait, emergency, centering, on message | broker | answers carry no request; time-outs; lost messages |
| DTLS gateway (`thermal_dtls_gateway`) | listening socket, sessions, frame statistics | accept, hand over, forward | ESP32, Crow | socket hand-over; sockets and threads run out; late chunks |
| Thermal proxy (`features/thermal`) | receiver thread, clients, trackers, event state | start, stop, broadcast, hotspot events | gateway, browsers | handlers on several threads start and stop one receiver; what is learned as normal; an alarm lost or repeated; stale connections |
| Authentication (`features/auth`, `app/main.cpp`) | accounts, codes, sessions | login, TOTP, recovery | MariaDB, mail | expiry, attempts |
| Event log, recordings, SUNAPI, health | database or none | REST handlers, proxies | MariaDB, camera | little state of their own |
| CCTV runtime (`CCTV/runtime`) | dispatcher, depth worker, stream threads and their buffers | start, stop, pause, stream | camera, GPU, clients | threads are stopped by flags and sockets; clients that do not read; restarts |
| CCTV manager and proxy (`features/cctv`, `CCTV/runtime/proxy_server.cpp`) | TLS link, worker process | connect, stream, command | runtime, Crow | one TLS session, several threads |
| Qt client (`Qt_Client/src`) | session, streams, frames | services behind the QML pages | Crow | asynchronous callbacks |

What makes each component correct, and where it can go wrong, is listed in
`PROJECT.json` (`hazards`) at the line it concerns.

## 2. Modules

| Module | Models | Runs |
|---|---|---|
| `FrameLink` | ESP32 frame ring and its two tasks | `frame_link`, `frame_link_timeout` |
| `FrameQueue` | what the ring promises: a bounded queue of frames, newest first to go if stale ones are dropped | (refined by `FrameLink`) |
| `TeensyCapture` | `captureFrame`, packet by packet | (in `Teensy`) |
| `TeensyFrames` | buffer circulation on the Teensy | (in `Teensy`) |
| `Teensy` | the two together: the firmware | `teensy` |
| `UdpStream` | the ESP32's UDP socket against its Wi-Fi events | (in `ThermalUplink`) |
| `DtlsGateway` | the gateway's accept loop, sockets and sessions | (in `ThermalUplink`) |
| `ThermalUplink` | the two with the network between them | `thermal_uplink` |
| `ThermalReceiver` | who starts and stops the server's UDP receiver | `thermal_reopen` (and in `ThermalProxy`) |
| `ThermalAlarm` | the hotspot alarm: baseline, tracking, publication | (in `ThermalProxy`) |
| `ThermalProxy` | the receiver thread with the alarm in it | `thermal_proxy` |
| `Stm32Uart` | the STM32's receive interrupt and command loop | `stm32_uart` |
| `MotorControl` | `motor.c` | `motor_control` |
| `ControlPlane` | MotorManager, MQTT, ESP32 queue, STM32 end to end | `control_plane`, `control_own_answer` |
| `CctvWorker` | the CCTV worker service: dispatcher, depth worker, streams | `cctv_worker`, `cctv_hang` |
| `...Proofs` | proofs about the module of that name and the modules it is built from | - |

The `MC...` modules extend a specification for model checking; the `.cfg` files
give the constants their values. Liveness is checked under the fairness the
module states; where a run has `CHECK_DEADLOCK FALSE` the system may really
stop, and the cfg says why.

### FrameLink
State: the locals of `frameLinkTask` (position within one packet, the frame and
chunk it expects), the ring's indices, the buffers (for every chunk the frame
its payload is from), and the sender's position. The Teensy appears as the
packet it sends next. One action per branch of the receive loop and per mutex
section of the sender; `memcpy` is a step outside the mutex. Frame ids are
serial numbers without the 16-bit wrap.
`frame_link` (8-bit UDP mode: the sender skips to the newest frame) checks that
no buffer is torn while it is sent, that frames go out in order, that the ring
implements `FrameQueue`, and that a full ring drains once the gates stay open.
Fairness is weak for each of the two FreeRTOS tasks, which never return and
block for bounded times; nothing is assumed of the Teensy or the network. `frame_link_timeout` (the raw modes, no
frame skipped) lets every wait for the mutex time out: the buffer being sent is
still the ring's head. The other properties are shown for `MutexTimeouts = FALSE`
only: when `queueIsFull` gives up on the mutex it answers "not full", and an
assembly can start in the buffer that is being sent.
Bounds: 3 buffers, 2 or 3 chunks, 4 or 5 frames, so that the ring fills, wraps
and drops; the proofs cover every value.

### TeensyCapture, TeensyFrames and Teensy
`TeensyCapture` follows the packet loop: the camera advances by up to `MaxLost`
missed packets between two reads, discards and garbled packets end a segment,
and frames in `Invalid` carry segment number 0. `WholeFrame` needs that fewer
packets than a segment has are missed at once and that fewer than
`NumSegments` numbered segments in a row go by uncompleted (`MaxMissed`): a
gap of a whole frame cannot be seen by code that compares segment numbers.
Both are assumptions of `Teensy` about the camera link, not of its code.
`TeensyFrames` takes a whole capture as one step and follows the buffer
indices through the two message queues. `Teensy` puts the packet loop in place
of that step, so the sender thread preempts it between any two packets;
`picture` records which camera frame is in which buffer, so that
`PicturesInOrder` can say what leaves the board: whole pictures, none marked as
a repeat, each newer than the one before. Both threads are weakly fair; the
camera may never deliver.
Bounds: the three buffers of the code; segments of 3 packets instead of 60,
which keeps the first, the numbered and the last packet apart; 4 camera frames
of which one is a repeat, 3 captured.

### UdpStream, DtlsGateway and ThermalUplink
`UdpStream` is `udpStreamInit` and `udpStreamSend`, cut where `s_udp_mutex` is
taken or given up, against the Wi-Fi event handler, which does not wait for
the mutex and leaves `s_udp_reset_requested` behind. A socket is its local
address; a time stamp is whether its time is still to come. `stale` notes
whether Wi-Fi was lost since the socket was opened, and whether the task has
taken the mutex since: a loss while it holds the mutex cannot be known to a
call of `send` that is already under way, one before it must be
(`NoStaleSend`). `EverySendEnds`: `udpStreamSend` returns whatever the network
and Wi-Fi do, so `mqttFrameTask` does not keep a frame buffer for ever.
Fairness: lwIP's calls return and times come. `RetryCount` is 2 instead of 8.
`DtlsGateway` is `run()`, one action per step that can fail, with its sockets,
their receive buffers and the sessions. The system's rules are those the code
relies on: the lowest free descriptor, and a datagram goes to a socket
connected to its sender, else to one bound to the port. `roomy`, chosen at the
start, says that descriptors and threads are always to be had; without it
binding and starting threads fail at any time, the session runs within the
accept loop, and the process may exit and be started again. `SocketsOwned`
holds either way. `DatagramHeard` needs `roomy`: during an inline session no
other peer is heard, as the code intends. The accept loop is weakly fair; the
sessions are not.
`ThermalUplink` joins them: a chunk is lost or delivered, and stragglers of
earlier sockets or other devices are delivered at any time. Bounds: two
addresses, three descriptors (one listening, two sessions, so that they run
out and are reused), one datagram per socket.

### ThermalReceiver, ThermalAlarm and ThermalProxy
`onopen`, `onclose`, the start and stop routes and `shutdownThermalProxy`, each
cut where it lets go of `receiver_mutex` or `state_mutex`, against
`thermalReceiverLoop`. Two choices are made at the start: `alwaysOn` is the server's configuration; `spaced` says that
nobody connects while a stop is being carried out and nobody stops the
receiver while a connection is being made. At any time there is one receiver
at most, an always-on receiver is not taken down, and a stop that was asked
for ends the thread. If openings and stops are `spaced`, a client that stays
gets a running receiver or an error is reported; if not, `thermal_reopen` shows
a client left without one by a stop between the two steps of its `onopen`. Fairness: the thread, whose waits are bounded by
`SO_RCVTIMEO`, and the second half of a handler that has begun.

`ThermalAlarm` is `maybePublishThermalEvent`: one locked section that learns
the baseline, follows the hot component, counts hits and misses and decides
(`Observe`), and one that notes whether the alarm was sent (`DispatchOk`,
`DispatchFails`). Of the pixels only the outcome of the analysis is left, and
any outcome may follow any other; samples grow old at any time (`Pruned`), and
the cooldown ends at any time. `calm` and `episode` are history: the frames
since one that was analysed and hit, and whether a reported hotspot is not yet
gone. `ThermalProxy` puts this in the receiver's loop: a packet completes a
frame or not, and a thread that binds its socket forgets what was learned.

The baseline does not learn a slowly rising hotspot if the guard is as wide as
the margin, as by default; an always-on server reports a hotspot once until it
was gone; and a hotspot that lasts is reported, however many attempts fail, if
the broker is reached again and again (strong fairness of `Alarms`: without it
nothing can be promised) and frames keep coming (a premise of the property, for
the camera promises nothing). Bounds: two clients in `thermal_proxy`, one that
leaves and one that arrives, three in `thermal_reopen`; four signals, below the
threshold, up to the margin above it, and beyond; a window of two samples, ready with one; one
hot frame raises the alarm and two calm ones clear it, as deployed, enough for
the two counts of misses to differ. The proofs have none of these bounds.

### CctvWorker
One dispatcher thread takes the control requests in turn; the depth worker and
the stream threads go their own ways. State: the flags of `ServiceContext`,
the position of each thread, and per stream its `std::thread` (joinable or
not), stop flag, registered socket and buffer. A frame is "new" or "old"
depending on whether the worker that runs published it. The recycling of the
process is a step back to the start. `prompt`, chosen at the start, says that a
stream thread begins before the next request is taken; with it every request
is carried out, though clients may stop reading for ever; without it
`cctv_hang` shows the dispatcher waiting for ever for a thread whose stop was
lost. `Encoded` are the kinds of stream whose frames are encoded first, which may
fail: then the buffer keeps what it had, and the worker reports its start all
the same. The depth and RGBD streams never send an earlier worker's frame; a point
cloud stream may, until a picture is encoded, and `FramesAreNew` excepts it.
`NothingLeftOver` is about what the worker service itself answers: "OK stopped"
follows `StopWorker`. In the default mode clients hear from the proxy, which
answers stop at once and finishes the teardown in the background, as
`CCTV/README.md` (lines 324-327 and 398-400) intends; the proxy is not modelled.
Bounds: one kind of stream that is encoded and one that is not; the third,
`rgbd_stream`, is published and served as `depth_stream` is.
Fairness: threads are scheduled, the worker reads its stop flag, and a send on
a socket that was shut down fails; clients and the camera may do nothing.

### Stm32Uart and MotorControl
`Stm32Uart` has the interrupt as one step and the main loop as one step per
access to what the two share. Characters are pairs of a command and a
position, so that a run text can be traced to what was sent. The commands of a
line are those between its ';', counted rather than collected one after the
other, so that they can be reasoned about. `waits` is chosen at
the start: a sender that does not wait can lose the beginning of a line (the
reset at the end of `processUartCommand`) but never splices two commands; a
sender that waits loses nothing. Lines hold 3 characters and the queue 2
commands, so that both overflow; the main loop is weakly fair, the sender may
stop.
`MotorControl` has one action per command and one for `Motor_Update`, whose
argument is the set of motors whose interval has expired. It is checked with
two motors, angles 0..2, speeds 1 and 2, and two accepted sets, one of which
waits while the other runs, each on one motor or on both, with manual commands
at any time in between. Sets ask for the middle of the range, which a step of
speed 2 from either end passes. Fairness: each motor keeps becoming due, not
necessarily together. `OutputIsReported` is checked for a bus that works, and
says of a bus that fails only that the range is kept: the firmware ignores
write errors.

### ControlPlane
Each request of several commands takes `request_mutex_`, notes the sequence
number, publishes, waits, and goes on or stops. The broker, the ESP32 queue
and the STM32 are queues. `timely` is chosen at the start. If it holds, the
network loses messages but none outlives the request that waits for it and
nobody else answers; then answers match commands, steps reported ok were run,
one message is underway and every request returns (weak fairness for each
server thread, the MQTT thread and the boards; `wait_for` ends by itself).
Otherwise (late, repeated and foreign messages) the emergency sequence still
publishes nothing after a step that was not reported ok, and no answer is
missed, but `control_own_answer` shows the late answer to one command taken
for the answer to the next. Bounds: two requests of two commands, a command
queue of one, one loss, repetition or foreign answer; delays are not bounded.

## 3. Runs

| Run | Shows |
|---|---|
| `frame_link` | `NoTornFrame`, `SentInOrder`, `ImplementsQueue`, `FullRingDrains` |
| `frame_link_timeout` | `HeldIsHead`, while waits for the mutex time out |
| `teensy` | `WholeFrame`, `BufferConservation`, `SentFrameIntact`, `PicturesInOrder`, `ReadyFrameLeaves` |
| `thermal_uplink` | `NoStaleSend`, `SocketsOwned`, `EverySendEnds`, `DatagramHeard` |
| `thermal_proxy` | `NoStopUnderClient`, `OneThread`, `KeptAlwaysOn`, `StopIsHeeded`, `ServedWhenSpaced`, `BaselineStaysNormal`, `OneAlarmPerEpisode`, `HotspotIsReported` |
| `thermal_reopen` | violated: `ClientServed` |
| `stm32_uart` | `TypeOK`, `NeverSpliced`, `NothingLostWhenPaced`, `OverflowReported` |
| `motor_control` | `ActiveNotJogged`, `OutputIsReported`, `HaltedStaysPut`, `NextSetWaits`, `EverySetEnds` |
| `control_plane` | `OwnAnswerInTime`, `OkStepsWereRun`, `StopsAtFailure`, `NoAnswerMissed`, `EveryRequestReturns` |
| `control_own_answer` | violated: `OwnAnswer` |
| `cctv_worker` | `NothingLeftOver`, `FramesAreNew`, `LaunchReplacesNothing`, `EveryRequestEnds` |
| `cctv_hang` | violated: `StartReplacesWorker` |

Each property is stated, with what it means for the code, in the module it is
about. For each there is a mutant in `PROJECT.json`, a plausible bug in one
definition that makes TLC find the property violated.

The three violations are disagreements between the code and what is said of it:

- `control_own_answer`: `handleMessage` takes any message on the response topic
  as the answer of the command that waits; the class comment promises the
  corresponding one.
- `thermal_reopen`: `onopen` ensures the receiver first and inserts its client
  afterwards, under another mutex. A stop in between sees no client, and takes
  away the receiver that the opening client has just started; the comments and
  the stop route say that the receiver stops only when no client remains.
- `cctv_hang`: a stream thread clears `streamBuf->stop` when it begins, which
  can undo the request of a dispatcher that then joins it for ever; the
  runtime's README says that a start request cleans up the old worker first. The
  worker has been told to stop by then, so no frame comes to wake the thread.

## 4. Proofs

For every value of the constants, under the assumptions the modules name
(`ConstantsAssumption`, `FramesAssumption`, `MotorConstants`, `ControlConstants`,
`KindsAssumption`, `GatewayAssumption`, `StreamAssumption`, `UplinkAssumption`,
`AlarmConstants`, `CaptureAssumption`, `UartConstants`).

- `FrameLinkProofs`. `TypeCorrect`: the type invariant, strengthened by
  `RxConsistent` (the receiver's locals agree with its position; without it the
  chunk counter is not bounded). `HeldIsHeadHolds` follows from the types.
  `IInvHolds`, under `MutexTimeouts = FALSE`: `IInv` adds that the ring's
  indices agree, that the assembly fills a free slot from its first chunk, that
  ready frames are whole and ordered, and that what is on its way is newer than
  all of that. Each part is needed for another: the publish step keeps ready
  frames whole because the assembly was in a free slot, and keeps them ordered
  because the packet is newer. `NoTornFrameHolds`, `SentInOrderHolds` and
  `ImplementsQueueHolds` (every step of the tasks is a step of `FrameQueue` or
  leaves it alone) follow.
- `TeensyProofs`. `FramesImplemented`: the firmware takes the steps of
  `TeensyFrames`. There, `Conserved` says that each buffer has just one place;
  with it a queue that lacks a buffer cannot be full (`RoomForMissing`, by
  counting), so no `k_msgq_put` drops one. `Whole` says that what waits holds
  the frame its id names. `BufferConservationHolds` and `SentFrameIntactHolds`.
  `WholeFrameHolds` and `PicturesInOrderHolds` need the packet loop. In
  `CaptureInv`, `Following` ties the segment being read to the place in the
  camera's stream; `Collecting` says that the segments kept so far are of one
  camera frame, and `Behind` counts how many numbered segments the camera has
  sent since. That count is the point: if the next segment that fits by its
  number were of a later frame, at least `NumSegments` of them would have gone by
  uncompleted, which `MaxMissed` excludes. `Pictures` carries the finished frame
  through the buffers: what is queued is older than what is being collected, and
  the sender holds the oldest. `Stream` and its lemmas do the arithmetic of a
  stream that skips up to a segment's length of packets.
- `MotorControlProofs`. `MInv`: a halted motor has no jog, no distance to go and
  no part in any set (`HaltedIsIdle`), motors of the active set are not jogged,
  and the output is the angle (`Driven`). `Motor_Update` is taken apart by the
  values of its locals (`UpdateIs`, `StartedFacts`, `SteppedFacts`). It covers
  I2C failures, which the run does not.
- `ControlPlaneProofs`. `PInv`: the mutex, the count of answers since the
  publish, and how far each request is. It gives `StopsAtFailureHolds` and
  `NoAnswerMissedHolds` for any network. `InTime` says where the one command of
  a timely network is; it gives `OwnAnswerInTimeHolds` and `OneUnderwayHolds`.
  `OkStepsWereRunHolds` needs `History` on top: what was run for a request is
  before the step it has reached, the step itself only once its command has left
  the queues, and the command of the answer that waits was run.
- `ThermalProxyProofs`. First about the receiver: its `IInv` is inductive, since
  the flag is the last thing a thread clears, and `AlwaysOnInv` and `SpacedInv`
  say when no stop can be pending. `ReceiverImplemented`: the proxy implements the receiver
  with its fairness, so all of the above holds of it, and so would its liveness.
  `LowBaseline`: what was learned lies below the configured threshold.
  `OnceInv`: no count of misses runs ahead of the calm frames (`MissesAreCalm`),
  and the thread that reported a hotspot is still the one that runs, by
  `AlwaysOnInv`. They give `BaselineStaysNormalHolds` and
  `OneAlarmPerEpisodeHolds`.
- `ThermalUplinkProofs`. `LossNoted`: a loss has left the stream unconnected or
  with a request the next one to take the mutex meets. `LoopHolds` says what the
  accept loop has in hand at each position; with it `Owned` is inductive.
- `CctvWorkerProofs`. `StopsInOrder` (what is no longer to be stopped is
  joined), `WorkerKnown` and `BuffersFresh` (once the worker has published,
  nothing older is left where nothing has to be encoded, and before that no
  stream runs).
- `Stm32UartProofs`. `LineShape` is what survives a reset in the middle of a line:
  between two ';' the characters of one command, one after the other; before a
  ';' the last one of a command that is complete; at the end the last one sent.
  `LineCommands` draws from it that whatever is cut out of a finished line is the
  end of one command, and `NeverSplicedHolds` follows, because the length of a
  command that was sent no longer changes (`EndingStays`). `PacedLine` is for
  the sender that waits: until its line ends the main loop has no step to take,
  and the commands in the line are numbered without a gap from the last line on.
  With `Ranked` (among the starts of a line every rank is taken, by counting)
  the k-th command cut out is the k-th sent: `NothingLostWhenPacedHolds`.
  `TypeCorrect`: neither array of `main.c` overflows.

Only model-checked: all liveness (`FullRingDrains`, `ReadyFrameLeaves`,
`EverySetEnds`, `OverflowReported`, `EveryRequestReturns`, `EverySendEnds`,
`DatagramHeard`, `StopIsHeeded`, `ServedWhenSpaced`, `HotspotIsReported`,
`EveryRequestEnds`), which the prover does not handle, and the three violations.
Every other property a run checks is a theorem.

## 5. Not modelled

- Thermal packet statistics in gateway and proxy, frame reassembly and the pixel
  analysis in the proxy: sequential code per packet, apart from
  `broadcastThermalChunk`, which uses connections after the mutex is released;
  whether they still exist is decided inside Crow.
- The cookie exchange (off as deployed) and the cryptography of the gateway;
  datagrams of another peer that are in a socket when it is handed over are
  read by its session as in the code, but not told apart there.
- The creation race of `udpEnsureMutex`, the chunks `mqttFrameTask` skips before
  its first connection, and the composition of `UdpStream` with `FrameLink`,
  where the stream appears as the gate `sendable`.
- UART errors on the STM32: the code has no error callback, the HAL decides.
- The 16-bit wrap of frame ids and headers garbled into valid ones.
- What a stale entry of a closed CCTV socket hits: the system's numbering.
- CCTV manager and proxy, authentication and recovery, event log, SUNAPI
  proxies: request forwarding, or state that lives in MariaDB and behind TLS.
- The Qt client, camera registers and pixel arithmetic, numerical code (depth,
  TensorRT), wording and JSON of replies, deployment manifests.

The map covers the control logic of these parts. It is a small share of the
repository's lines, most of which are board support packages, the HAL, CMSIS
headers, the single-header web framework and user interface: code that is not
the program's own logic, or has no state a model would tell apart.
