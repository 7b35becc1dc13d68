----------------------------- MODULE CctvWorker -----------------------------
(***************************************************************************)
(* The CCTV worker service (CCTV/runtime): one dispatcher thread takes the *)
(* control requests one after another (service_app.cpp,                    *)
(* command_dispatcher.cpp); at most one depth worker publishes frames      *)
(* (depth_worker.cu); and for each kind of stream at most one thread sends *)
(* the newest frame to its client (net_protocol.cpp).                      *)
(*                                                                         *)
(* A frame is "new" if the worker that runs published it and "old" if one  *)
(* before it did.  Sockets appear as what becomes of them: a thread's      *)
(* socket is registered with its buffer, and is shut down or not.          *)
(***************************************************************************)
EXTENDS Naturals, Sequences, SequencesExt, Functions

CONSTANTS Kinds,         \* the kinds of stream, in the order they are stopped
          Encoded        \* those whose frames are pictures that are encoded first

Streams == Range(Kinds)

ASSUME KindsAssumption ==
    /\ Kinds \in Seq(STRING) /\ IsInjective(Kinds)
    /\ Streams \cap {"start", "stop"} = {}
    /\ Encoded \subseteq Streams

VARIABLES prompt,        \* does a stream thread begin before the next request?
          dpc,           \* where the dispatcher is
          command,       \* what it is carrying out: "start", "stop" or a stream
          todo,          \* the streams it still has to stop, in order
          workerRunning, \* ctx.workerRunning
          workerStop,    \* ctx.workerStop
          paused,        \* controlState.paused
          worker,        \* where the depth worker thread is
          startup,       \* WorkerStartupState: "pending", "ok" or "failed"
          thread,        \* where the thread of each stream is
          joinable,      \* has the stream's thread not been joined?
          active,        \* ctx....StreamActive
          stop,          \* streamBuf.stop
          socket,        \* streamBuf.activeSocket: "none", "own" or "stale"
          hasFrame,      \* streamBuf.hasFrame: "none", "old" or "new"
          shut,          \* has the thread's socket been shut down?
          sending        \* the frame the thread has taken

dispatcher == <<dpc, command, todo>>
depth == <<worker, startup>>
flags == <<workerRunning, workerStop, paused>>
threads == <<thread, joinable, active, shut, sending>>
buffers == <<stop, socket, hasFrame>>
vars == <<prompt, dispatcher, depth, flags, threads, buffers>>

TypeOK ==
    /\ prompt \in BOOLEAN
    /\ dpc \in {"join", "accept", "signal", "joining", "startup"}
    /\ command \in Streams \union {"start", "stop"} /\ todo \in Seq(Streams)
    /\ workerRunning \in BOOLEAN /\ workerStop \in BOOLEAN /\ paused \in BOOLEAN
    /\ worker \in {"none", "loop", "frame", "ended"}
    /\ startup \in {"pending", "ok", "failed"}
    /\ thread \in [Streams -> {"none", "launched", "acking", "waiting",
                               "sending", "ending", "clearing", "refused"}]
    /\ joinable \in [Streams -> BOOLEAN] /\ active \in [Streams -> BOOLEAN]
    /\ stop \in [Streams -> BOOLEAN] /\ shut \in [Streams -> BOOLEAN]
    /\ socket \in [Streams -> {"none", "own", "stale"}]
    /\ hasFrame \in [Streams -> {"none", "old", "new"}]
    /\ sending \in [Streams -> {"none", "old", "new"}]

All(v) == [s \in Streams |-> v]

Init ==
    /\ prompt \in BOOLEAN
    /\ dpc = "join" /\ command = "stop" /\ todo = <<>>
    /\ workerRunning = FALSE /\ workerStop = FALSE /\ paused = FALSE
    /\ worker = "none" /\ startup = "pending"
    /\ thread = All("none") /\ joinable = All(FALSE) /\ active = All(FALSE)
    /\ shut = All(FALSE) /\ sending = All("none")
    /\ stop = All(FALSE) /\ socket = All("none") /\ hasFrame = All("none")

\* The process exits; the proxy spawns another for the next start request.
Recycle ==
    /\ dpc' = "join" /\ command' = "stop" /\ todo' = <<>>
    /\ workerRunning' = FALSE /\ workerStop' = FALSE /\ paused' = FALSE
    /\ worker' = "none" /\ startup' = "pending"
    /\ thread' = All("none") /\ joinable' = All(FALSE) /\ active' = All(FALSE)
    /\ shut' = All(FALSE) /\ sending' = All("none")
    /\ stop' = All(FALSE) /\ socket' = All("none") /\ hasFrame' = All("none")
    /\ UNCHANGED prompt

-----------------------------------------------------------------------------
(* The dispatcher.                                                         *)

\* JoinFinishedStreamThreads: a thread that is no longer active is joined.
JoinFinished ==
    LET finished == {s \in Streams : joinable[s] /\ ~active[s]}
    IN /\ dpc = "join"
       /\ \A s \in finished : thread[s] = "none"
       /\ joinable' = [s \in Streams |-> joinable[s] /\ s \notin finished]
       /\ dpc' = "accept"
       /\ UNCHANGED <<prompt, command, todo, depth, flags, thread, active, shut,
                      sending, buffers>>

MayAccept == /\ dpc = "accept"
             /\ prompt => \A s \in Streams : thread[s] # "launched"

\* A request that changes nothing here: it is invalid, asks for the status,
\* turns the view of the point cloud, or is refused for want of a worker.
AnswerOnly ==
    /\ MayAccept
    /\ dpc' = "join"
    /\ UNCHANGED <<prompt, command, todo, depth, flags, threads, buffers>>

\* HandlePauseRequest, for pause and for resume.
Pause(p) ==
    /\ MayAccept /\ workerRunning
    /\ dpc' = "join" /\ paused' = p
    /\ UNCHANGED <<prompt, command, todo, depth, workerRunning, workerStop,
                   threads, buffers>>

\* Mutant: the stream of this kind that may be running is left alone.
AcceptStream_keepsOld(s) ==
    /\ MayAccept /\ workerRunning
    /\ dpc' = "signal" /\ command' = s /\ todo' = <<>>
    /\ UNCHANGED <<prompt, depth, flags, threads, buffers>>

\* A stream request stops the stream of its kind first.
AcceptStream(s) ==
    /\ MayAccept /\ workerRunning
    /\ dpc' = "signal" /\ command' = s /\ todo' = <<s>>
    /\ UNCHANGED <<prompt, depth, flags, threads, buffers>>

\* A start or stop request begins with StopWorker.
AcceptStartOrStop(c) ==
    /\ MayAccept
    /\ dpc' = "signal" /\ command' = c /\ todo' = Kinds
    /\ workerStop' = (workerStop \/ workerRunning)
    /\ UNCHANGED <<prompt, depth, workerRunning, paused, threads, buffers>>

SkipStream ==
    /\ dpc = "signal" /\ todo # <<>> /\ ~joinable[Head(todo)]
    /\ todo' = Tail(todo)
    /\ UNCHANGED <<prompt, dpc, command, depth, flags, threads, buffers>>

\* Mutant: the flag alone is set, the socket is left open.
SignalStream_flagOnly ==
    /\ dpc = "signal" /\ todo # <<>> /\ joinable[Head(todo)]
    /\ dpc' = "joining" /\ stop' = [stop EXCEPT ![Head(todo)] = TRUE]
    /\ UNCHANGED <<prompt, command, todo, depth, flags, threads, socket, hasFrame>>

\* StopStreamThread up to the join.  A stale socket is closed, or by now
\* somebody else's.
SignalStream ==
    /\ dpc = "signal" /\ todo # <<>> /\ joinable[Head(todo)]
    /\ dpc' = "joining" /\ stop' = [stop EXCEPT ![Head(todo)] = TRUE]
    /\ shut' = [shut EXCEPT ![Head(todo)] = @ \/ socket[Head(todo)] = "own"]
    /\ UNCHANGED <<prompt, command, todo, depth, flags, thread, joinable, active,
                   sending, socket, hasFrame>>

JoinStream ==
    /\ dpc = "joining" /\ thread[Head(todo)] = "none"
    /\ dpc' = "signal" /\ todo' = Tail(todo)
    /\ joinable' = [joinable EXCEPT ![Head(todo)] = FALSE]
    /\ UNCHANGED <<prompt, command, depth, flags, thread, active, shut, sending,
                   buffers>>

\* LaunchStreamThreadOrReply.  The stream's thread is joined by now.
LaunchStream(s) ==
    /\ dpc = "signal" /\ todo = <<>> /\ command = s
    /\ dpc' = "join"
    /\ thread' = [thread EXCEPT ![s] = "launched"]
    /\ joinable' = [joinable EXCEPT ![s] = TRUE]
    /\ active' = [active EXCEPT ![s] = TRUE]
    /\ shut' = [shut EXCEPT ![s] = FALSE]
    /\ socket' = [socket EXCEPT ![s] = IF @ = "own" THEN "stale" ELSE @]
    /\ UNCHANGED <<prompt, command, todo, depth, flags, sending, stop, hasFrame>>

\* The thread cannot be created.
LaunchFails(s) ==
    /\ dpc = "signal" /\ todo = <<>> /\ command = s
    /\ dpc' = "join"
    /\ active' = [active EXCEPT ![s] = FALSE]
    /\ UNCHANGED <<prompt, command, todo, depth, flags, thread, joinable, shut,
                   sending, buffers>>

\* The streams are stopped; StopWorker waits for the depth worker.
WorkerJoined ==
    /\ dpc = "signal" /\ todo = <<>>
    /\ workerRunning => worker = "ended"
    /\ paused' = FALSE

\* Mutant: stopping waits for the streams only.
FinishStop_noJoin ==
    /\ dpc = "signal" /\ todo = <<>> /\ command = "stop"
    /\ dpc' = "join" /\ workerRunning' = FALSE /\ paused' = FALSE
    /\ UNCHANGED <<prompt, command, todo, depth, workerStop, threads, buffers>>

\* "OK stopped", the worker service's own answer.
FinishStop ==
    /\ command = "stop" /\ WorkerJoined
    /\ dpc' = "join" /\ workerRunning' = FALSE /\ worker' = "none"
    /\ UNCHANGED <<prompt, command, todo, startup, workerStop, threads, buffers>>

\* A new worker is started; what the buffers hold is from an earlier one.
StartWorker ==
    /\ command = "start" /\ WorkerJoined
    /\ dpc' = "startup" /\ workerRunning' = TRUE /\ workerStop' = FALSE
    /\ worker' = "loop" /\ startup' = "pending"
    /\ hasFrame' = [s \in Streams |->
                       IF hasFrame[s] = "new" THEN "old" ELSE hasFrame[s]]
    /\ UNCHANGED <<prompt, command, todo, threads, stop, socket>>

\* "OK started".
StartSucceeds ==
    /\ dpc = "startup" /\ startup = "ok"
    /\ dpc' = "join"
    /\ UNCHANGED <<prompt, command, todo, depth, flags, threads, buffers>>

\* The worker failed to start or has not reported in time.
StartFails == dpc = "startup" /\ startup # "ok" /\ Recycle

-----------------------------------------------------------------------------
(* The depth worker.                                                       *)

\* Mutant: success is reported when the loop begins.
WorkerBegins_reportsStart ==
    /\ worker = "loop" /\ ~workerStop /\ ~paused
    /\ worker' = "frame" /\ startup' = "ok"
    /\ UNCHANGED <<prompt, dispatcher, flags, threads, buffers>>

\* The top of the loop.  A paused worker goes round without reading.
WorkerBegins ==
    /\ worker = "loop" /\ ~workerStop /\ ~paused
    /\ worker' = "frame"
    /\ UNCHANGED <<prompt, dispatcher, startup, flags, threads, buffers>>

\* Reading fails or the frame is of no use.
WorkerSkips ==
    /\ worker = "frame"
    /\ worker' = "loop"
    /\ UNCHANGED <<prompt, dispatcher, startup, flags, threads, buffers>>

\* PublishWorkerOutputs.  A picture that cannot be encoded is not published,
\* and its buffer keeps what it had.
Published(lost) == [s \in Streams |-> IF s \in lost THEN hasFrame[s] ELSE "new"]

\* The frame is published, then success is reported, whether or not every
\* buffer was filled.  Each buffer has a lock of its own, and nothing reads
\* two of them.
WorkerPublishes ==
    /\ worker = "frame"
    /\ worker' = "loop" /\ \E lost \in SUBSET Encoded : hasFrame' = Published(lost)
    /\ startup' = IF startup = "pending" THEN "ok" ELSE startup
    /\ UNCHANGED <<prompt, dispatcher, flags, threads, stop, socket>>

\* Before the first frame a failure is reported to the dispatcher; after it,
\* it ends the process.
WorkerFails ==
    /\ worker \in {"loop", "frame"} /\ startup = "pending"
    /\ worker' = "ended" /\ startup' = "failed"
    /\ UNCHANGED <<prompt, dispatcher, flags, threads, buffers>>

WorkerDies == worker = "frame" /\ startup = "ok" /\ Recycle

WorkerEnds ==
    /\ worker = "loop" /\ workerStop
    /\ worker' = "ended"
    /\ UNCHANGED <<prompt, dispatcher, startup, flags, threads, buffers>>

-----------------------------------------------------------------------------
(* A stream's thread: DepthStreamWorker, RgbdStreamWorker and              *)
(* PcImageStreamWorker, which are alike.                                   *)

Goto(s, p) == thread' = [thread EXCEPT ![s] = p]
others == <<prompt, dispatcher, depth, flags, joinable>>

\* The first locked section.
Register(s) ==
    /\ thread[s] = "launched" /\ Goto(s, "acking")
    /\ active' = [active EXCEPT ![s] = TRUE]
    /\ stop' = [stop EXCEPT ![s] = FALSE]
    /\ socket' = [socket EXCEPT ![s] = "own"]
    /\ UNCHANGED <<others, shut, sending, hasFrame>>

Acknowledge(s) ==
    /\ thread[s] = "acking" /\ ~shut[s] /\ Goto(s, "waiting")
    /\ UNCHANGED <<others, active, shut, sending, buffers>>

\* The acknowledgment cannot be sent: the socket stays registered.
AcknowledgeFails(s) ==
    /\ thread[s] = "acking" /\ Goto(s, "refused")
    /\ active' = [active EXCEPT ![s] = FALSE]
    /\ UNCHANGED <<others, shut, sending, buffers>>

Refuse(s) ==
    /\ thread[s] = "refused" /\ Goto(s, "none")
    /\ UNCHANGED <<others, active, shut, sending, buffers>>

TakeFrame(s) ==
    /\ thread[s] = "waiting" /\ ~stop[s] /\ hasFrame[s] # "none"
    /\ Goto(s, "sending")
    /\ sending' = [sending EXCEPT ![s] = hasFrame[s]]
    /\ hasFrame' = [hasFrame EXCEPT ![s] = "none"]
    /\ UNCHANGED <<others, active, shut, stop, socket>>

SeeStop(s) ==
    /\ thread[s] = "waiting" /\ stop[s] /\ Goto(s, "ending")
    /\ UNCHANGED <<others, active, shut, sending, buffers>>

\* The client takes the frame; it may never do so.
Send(s) ==
    /\ thread[s] = "sending" /\ ~shut[s] /\ Goto(s, "waiting")
    /\ sending' = [sending EXCEPT ![s] = "none"]
    /\ UNCHANGED <<others, active, shut, buffers>>

SendFails(s) ==
    /\ thread[s] = "sending" /\ Goto(s, "ending")
    /\ sending' = [sending EXCEPT ![s] = "none"]
    /\ UNCHANGED <<others, active, shut, buffers>>

Deactivate(s) ==
    /\ thread[s] = "ending" /\ Goto(s, "clearing")
    /\ active' = [active EXCEPT ![s] = FALSE]
    /\ UNCHANGED <<others, shut, sending, buffers>>

\* The last locked section, then the socket is closed.
Clear(s) ==
    /\ thread[s] = "clearing" /\ Goto(s, "none")
    /\ socket' = [socket EXCEPT ![s] = "none"]
    /\ hasFrame' = [hasFrame EXCEPT ![s] = "none"]
    /\ UNCHANGED <<others, active, shut, sending, stop>>

-----------------------------------------------------------------------------
Accept == \/ AnswerOnly \/ \E p \in BOOLEAN : Pause(p)
          \/ \E s \in Streams : AcceptStream(s)
          \/ \E c \in {"start", "stop"} : AcceptStartOrStop(c)

Dispatch == \/ JoinFinished \/ SkipStream \/ SignalStream \/ JoinStream
            \/ \E s \in Streams : LaunchStream(s) \/ LaunchFails(s)
            \/ FinishStop \/ StartWorker \/ StartSucceeds \/ StartFails

Worker == WorkerBegins \/ WorkerSkips \/ WorkerPublishes \/ WorkerFails
          \/ WorkerDies \/ WorkerEnds

\* What a thread does of itself, and what waits for its client.
Step(s) == \/ Register(s) \/ Acknowledge(s) \/ AcknowledgeFails(s) \/ Refuse(s)
           \/ TakeFrame(s) \/ SeeStop(s) \/ Deactivate(s) \/ Clear(s)
Transmit(s) == Send(s) \/ SendFails(s)

Next == \/ Accept \/ Dispatch \/ Worker
        \/ \E s \in Streams : Step(s) \/ Transmit(s)

\* Threads are scheduled, the worker's loop reads its stop flag (reads of the
\* camera are interrupted by it), and sending on a socket that was shut down
\* fails.  Clients need not read, nor send requests, nor need frames come.
Fairness ==
    /\ WF_vars(Dispatch)
    /\ WF_vars(WorkerBegins \/ WorkerSkips \/ WorkerPublishes) /\ WF_vars(WorkerEnds)
    /\ \A s \in Streams : WF_vars(Step(s)) /\ WF_vars(shut[s] /\ SendFails(s))

Spec == Init /\ [][Next]_vars /\ Fairness

-----------------------------------------------------------------------------
\* Between two requests workerRunning tells the truth: set, a worker is alive
\* that has published; not set, neither a worker nor a stream is left over.
\* So the worker service's own answers are true: "OK stopped" comes after
\* StopWorker, "status" reads workerRunning.  It says nothing of what clients
\* hear from the proxy, the default mode: that answers "OK stopped" at once
\* and the teardown goes on in the background, as CCTV/README.md means it to.
NothingLeftOver ==
    /\ ~workerRunning => worker = "none" /\ \A s \in Streams : thread[s] = "none"
    /\ dpc = "accept" /\ workerRunning =>
           worker \in {"loop", "frame"} /\ startup = "ok"

\* A depth or RGBD stream never sends a frame that a worker before the one
\* running left in the buffer: a channel's first picture is not that of the
\* channel before.  A point cloud stream may, until a picture is encoded: the
\* worker reports its start although the encoder failed.
FramesAreNew == \A s \in Streams \ Encoded : sending[s] # "old"

\* A thread is launched only where the one before it has ended and is joined
\* (assigning to a joinable std::thread ends the process).
LaunchReplacesNothing ==
    [][\A s \in Streams : thread'[s] = "launched" /\ thread[s] # "launched"
                              => thread[s] = "none" /\ ~joinable[s]]_vars

Idle == dpc = "accept"

\* Every request is carried out, whatever the clients do and wherever the
\* threads are, if stream threads begin before the next request.
EveryRequestEnds == prompt => (~Idle ~> Idle)

\* "If a worker is running, it is cleaned up first and then a new one is
\* started" (CCTV/README.md): a start request gets as far as its worker.
StartReplacesWorker == command = "start" /\ ~Idle ~> dpc = "startup" \/ Idle
=============================================================================
