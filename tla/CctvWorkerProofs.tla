-------------------------- MODULE CctvWorkerProofs --------------------------
(***************************************************************************)
(* Proofs about the CCTV worker service, for any number of kinds of        *)
(* stream, whatever the clients and the cameras do and whether or not      *)
(* stream threads begin in time: what is left over between two requests,   *)
(* which frames are sent and when a thread is launched.                    *)
(***************************************************************************)
EXTENDS CctvWorker, SequenceTheorems, TLAPS

\* A queue is what is at its front and what is behind.
LEMMA RangeOfTail ==
    ASSUME NEW S, NEW q \in Seq(S), q # <<>>
    PROVE  /\ Tail(q) \in Seq(S) /\ Head(q) \in S
           /\ \A s \in Range(q) : s = Head(q) \/ s \in Range(Tail(q))
<1>1. /\ Tail(q) \in Seq(S) /\ Head(q) \in S
      /\ Len(Tail(q)) = Len(q) - 1
      /\ \A i \in 1..Len(Tail(q)) : Tail(q)[i] = q[i+1]
    BY HeadTailProperties
<1>2. /\ DOMAIN q = 1..Len(q) /\ DOMAIN Tail(q) = 1..Len(Tail(q))
      /\ Len(q) \in Nat /\ Head(q) = q[1]
    BY <1>1
<1>3. ASSUME NEW s \in Range(q), s # Head(q) PROVE s \in Range(Tail(q))
  <2>1. PICK i \in 1..Len(q) : q[i] = s
      BY <1>2 DEF Range
  <2>2. i # 1
      BY <1>2, <1>3, <2>1
  <2>3. i-1 \in 1..Len(Tail(q)) /\ Tail(q)[i-1] = q[(i-1)+1] /\ (i-1)+1 = i
      BY <1>1, <1>2, <2>1, <2>2
  <2> QED
      BY <1>2, <2>1, <2>3 DEF Range
<1> QED
    BY <1>1, <1>3

LEMMA KindsAreStreams == Kinds \in Seq(Streams)
<1>1. Kinds \in Seq(STRING) /\ DOMAIN Kinds = 1..Len(Kinds) /\ Len(Kinds) \in Nat
    BY KindsAssumption
<1>2. \A i \in 1..Len(Kinds) : Kinds[i] \in Streams
    BY <1>1 DEF Streams, Range
<1>3. Kinds \in [1..Len(Kinds) -> Streams]
    BY <1>1, <1>2
<1> QED
    BY <1>1, <1>3, IsASeq

LEMMA StreamsAreNoCommands == \A s \in Streams : s # "start" /\ s # "stop"
  BY KindsAssumption

-----------------------------------------------------------------------------
(* The inductive invariant.                                                *)

Stopping == dpc \in {"signal", "joining"}

\* The streams the request that is carried out has to stop.
Targets == IF command \in Streams THEN {command} ELSE Streams

\* A thread that runs has not been joined, and runs beside a worker.
ThreadsKnown ==
    \A s \in Streams :
        /\ ~joinable[s] => thread[s] = "none"
        /\ joinable[s] => workerRunning /\ dpc # "startup"

\* What is no longer to be stopped is stopped.
StopsInOrder ==
    /\ Stopping => \A s \in Targets : s \notin Range(todo) => ~joinable[s]
    /\ dpc = "joining" => todo # <<>>
    /\ Stopping /\ command \in Streams => workerRunning
    /\ dpc = "startup" => workerRunning

\* workerRunning tells whether there is a worker, and which one.
WorkerKnown ==
    /\ ~workerRunning => worker = "none"
    /\ workerRunning => worker # "none"
    /\ workerRunning /\ worker = "ended" => \/ dpc = "startup" /\ startup = "failed"
                                            \/ Stopping /\ command \notin Streams
    /\ workerRunning /\ workerStop => Stopping /\ command \notin Streams
    /\ workerRunning /\ dpc # "startup" => startup = "ok"

\* Once the worker has published, nothing older is left where nothing has to
\* be encoded.
BuffersFresh ==
    \A s \in Streams \ Encoded :
        /\ workerRunning /\ startup = "ok" => hasFrame[s] # "old"
        /\ sending[s] # "old"

CInv == TypeOK /\ ThreadsKnown /\ StopsInOrder /\ WorkerKnown /\ BuffersFresh

\* LaunchReplacesNothing, as a formula of a step.
LaunchSafe ==
    \A s \in Streams : thread'[s] = "launched" /\ thread[s] # "launched"
                           => thread[s] = "none" /\ ~joinable[s]

LEMMA AllType == ASSUME NEW T, NEW v \in T PROVE All(v) \in [Streams -> T]
  BY DEF All

LEMMA InitCInv == Init => CInv
<1> SUFFICES ASSUME Init PROVE CInv
    OBVIOUS
<1>1. TypeOK
  <2>1. todo \in Seq(Streams) /\ command \in Streams \union {"start", "stop"}
      BY DEF Init
  <2> QED
      BY <2>1, AllType DEF Init, TypeOK
<1>2. ThreadsKnown /\ StopsInOrder /\ WorkerKnown /\ BuffersFresh
    BY DEF Init, All, ThreadsKnown, StopsInOrder, WorkerKnown, BuffersFresh, Stopping
<1> QED
    BY <1>1, <1>2 DEF CInv

\* A new process is as the first one was.
LEMMA RecycleStep == CInv /\ Recycle => CInv' /\ LaunchSafe
<1> SUFFICES ASSUME CInv, Recycle PROVE CInv' /\ LaunchSafe
    OBVIOUS
<1>1. TypeOK'
  <2>1. todo' \in Seq(Streams) /\ command' \in Streams \union {"start", "stop"}
      BY DEF Recycle
  <2> QED
      BY <2>1, AllType DEF CInv, Recycle, TypeOK
<1>2. (ThreadsKnown /\ StopsInOrder /\ WorkerKnown /\ BuffersFresh)'
    BY DEF Recycle, All, ThreadsKnown, StopsInOrder, WorkerKnown, BuffersFresh, Stopping
<1>3. LaunchSafe
    BY DEF Recycle, All, LaunchSafe
<1> QED
    BY <1>1, <1>2, <1>3 DEF CInv

-----------------------------------------------------------------------------
(* The dispatcher.                                                         *)

LEMMA JoinFinishedStep == CInv /\ JoinFinished => CInv' /\ LaunchSafe
<1> SUFFICES ASSUME CInv, JoinFinished PROVE CInv' /\ LaunchSafe
    OBVIOUS
<1> DEFINE finished == {s \in Streams : joinable[s] /\ ~active[s]}
<1>1. /\ dpc = "join" /\ dpc' = "accept"
      /\ \A s \in finished : thread[s] = "none"
      /\ joinable' = [s \in Streams |-> joinable[s] /\ s \notin finished]
      /\ UNCHANGED <<prompt, command, todo, depth, flags, thread, active, shut,
                     sending, buffers>>
    BY DEF JoinFinished
<1> HIDE DEF finished
<1>2. \A s \in Streams : /\ joinable'[s] => joinable[s]
                         /\ ~joinable'[s] => thread[s] = "none"
    BY <1>1 DEF CInv, ThreadsKnown
<1>3. TypeOK'
    BY <1>1 DEF CInv, TypeOK, depth, flags, buffers
<1>4. (ThreadsKnown /\ StopsInOrder /\ WorkerKnown /\ BuffersFresh)'
    BY <1>1, <1>2 DEF CInv, ThreadsKnown, StopsInOrder, WorkerKnown, BuffersFresh,
                      Stopping, depth, flags, buffers
<1>5. LaunchSafe
    BY <1>1 DEF LaunchSafe
<1> QED
    BY <1>3, <1>4, <1>5 DEF CInv

LEMMA AnswerOrPauseStep ==
    ASSUME CInv, AnswerOnly \/ \E p \in BOOLEAN : Pause(p)
    PROVE  CInv' /\ LaunchSafe
<1>1. /\ dpc = "accept" /\ dpc' = "join" /\ paused' \in BOOLEAN
      /\ UNCHANGED <<prompt, command, todo, depth, workerRunning, workerStop,
                     threads, buffers>>
    BY DEF AnswerOnly, Pause, MayAccept, flags, CInv, TypeOK
<1>2. TypeOK'
    BY <1>1 DEF CInv, TypeOK, depth, threads, buffers
<1>3. (ThreadsKnown /\ StopsInOrder /\ WorkerKnown /\ BuffersFresh)'
    BY <1>1 DEF CInv, ThreadsKnown, StopsInOrder, WorkerKnown, BuffersFresh,
                Stopping, depth, threads, buffers
<1>4. LaunchSafe
    BY <1>1 DEF LaunchSafe, threads
<1> QED
    BY <1>2, <1>3, <1>4 DEF CInv

LEMMA AcceptStreamStep ==
    ASSUME CInv, NEW s \in Streams, AcceptStream(s)
    PROVE  CInv' /\ LaunchSafe
<1>1. /\ dpc = "accept" /\ workerRunning
      /\ dpc' = "signal" /\ command' = s /\ todo' = <<s>>
      /\ UNCHANGED <<prompt, depth, flags, threads, buffers>>
    BY DEF AcceptStream, MayAccept
<1>2. Range(todo') = {s} /\ todo' \in Seq(Streams)
    BY <1>1 DEF Range
<1>3. TypeOK'
    BY <1>1, <1>2 DEF CInv, TypeOK, depth, flags, threads, buffers
<1>4. StopsInOrder'
    BY <1>1, <1>2 DEF CInv, StopsInOrder, Stopping, Targets, flags, threads
<1>5. (ThreadsKnown /\ WorkerKnown /\ BuffersFresh)'
    BY <1>1 DEF CInv, ThreadsKnown, WorkerKnown, BuffersFresh, Stopping,
                depth, flags, threads, buffers
<1>6. LaunchSafe
    BY <1>1 DEF LaunchSafe, threads
<1> QED
    BY <1>3, <1>4, <1>5, <1>6 DEF CInv

LEMMA AcceptStartOrStopStep ==
    ASSUME CInv, NEW c \in {"start", "stop"}, AcceptStartOrStop(c)
    PROVE  CInv' /\ LaunchSafe
<1>1. /\ dpc = "accept" /\ dpc' = "signal" /\ command' = c /\ todo' = Kinds
      /\ workerStop' = (workerStop \/ workerRunning)
      /\ UNCHANGED <<prompt, depth, workerRunning, paused, threads, buffers>>
    BY DEF AcceptStartOrStop, MayAccept
<1>2. command' \notin Streams
    BY <1>1, StreamsAreNoCommands
<1>3. TypeOK'
  <2>1. workerStop' \in BOOLEAN
      BY <1>1
  <2> QED
      BY <1>1, <2>1, KindsAreStreams DEF CInv, TypeOK, depth, threads, buffers
<1>4. StopsInOrder'
    BY <1>1, <1>2 DEF StopsInOrder, Stopping, Targets, Streams
<1>5. (ThreadsKnown /\ BuffersFresh)'
    BY <1>1 DEF CInv, ThreadsKnown, BuffersFresh, depth, threads, buffers
<1>6. WorkerKnown'
    BY <1>1, <1>2 DEF CInv, WorkerKnown, Stopping, depth
<1>7. LaunchSafe
    BY <1>1 DEF LaunchSafe, threads
<1> QED
    BY <1>3, <1>4, <1>5, <1>6, <1>7 DEF CInv

LEMMA SkipStreamStep == CInv /\ SkipStream => CInv' /\ LaunchSafe
<1> SUFFICES ASSUME CInv, SkipStream PROVE CInv' /\ LaunchSafe
    OBVIOUS
<1>1. /\ dpc = "signal" /\ todo # <<>> /\ ~joinable[Head(todo)]
      /\ todo' = Tail(todo)
      /\ UNCHANGED <<prompt, dpc, command, depth, flags, threads, buffers>>
    BY DEF SkipStream
<1>2. /\ Tail(todo) \in Seq(Streams) /\ Head(todo) \in Streams
      /\ \A s \in Range(todo) : s = Head(todo) \/ s \in Range(Tail(todo))
    BY <1>1, RangeOfTail DEF CInv, TypeOK
<1>3. TypeOK'
    BY <1>1, <1>2 DEF CInv, TypeOK, depth, flags, threads, buffers
<1>4. StopsInOrder'
    BY <1>1, <1>2 DEF CInv, StopsInOrder, Stopping, Targets, flags, threads
<1>5. (ThreadsKnown /\ WorkerKnown /\ BuffersFresh)'
    BY <1>1 DEF CInv, ThreadsKnown, WorkerKnown, BuffersFresh, Stopping,
                depth, flags, threads, buffers
<1>6. LaunchSafe
    BY <1>1 DEF LaunchSafe, threads
<1> QED
    BY <1>3, <1>4, <1>5, <1>6 DEF CInv

LEMMA SignalStreamStep == CInv /\ SignalStream => CInv' /\ LaunchSafe
<1> SUFFICES ASSUME CInv, SignalStream PROVE CInv' /\ LaunchSafe
    OBVIOUS
<1>1. /\ dpc = "signal" /\ todo # <<>> /\ dpc' = "joining"
      /\ stop' = [stop EXCEPT ![Head(todo)] = TRUE]
      /\ shut' = [shut EXCEPT ![Head(todo)] = @ \/ socket[Head(todo)] = "own"]
      /\ UNCHANGED <<prompt, command, todo, depth, flags, thread, joinable, active,
                     sending, socket, hasFrame>>
    BY DEF SignalStream
<1>2. Head(todo) \in Streams
    BY <1>1, RangeOfTail DEF CInv, TypeOK
<1>3. stop' \in [Streams -> BOOLEAN] /\ shut' \in [Streams -> BOOLEAN]
  <2>1. (shut[Head(todo)] \/ socket[Head(todo)] = "own") \in BOOLEAN
      OBVIOUS
  <2> QED
      BY <1>1, <2>1 DEF CInv, TypeOK
<1>4. TypeOK'
    BY <1>1, <1>3 DEF CInv, TypeOK, depth, flags
<1>5. StopsInOrder'
    BY <1>1 DEF CInv, StopsInOrder, Stopping, Targets, flags
<1>6. (ThreadsKnown /\ WorkerKnown /\ BuffersFresh)'
    BY <1>1 DEF CInv, ThreadsKnown, WorkerKnown, BuffersFresh, Stopping, depth, flags
<1>7. LaunchSafe
    BY <1>1 DEF LaunchSafe
<1> QED
    BY <1>4, <1>5, <1>6, <1>7 DEF CInv

LEMMA JoinStreamStep == CInv /\ JoinStream => CInv' /\ LaunchSafe
<1> SUFFICES ASSUME CInv, JoinStream PROVE CInv' /\ LaunchSafe
    OBVIOUS
<1>1. /\ dpc = "joining" /\ thread[Head(todo)] = "none" /\ dpc' = "signal"
      /\ todo' = Tail(todo)
      /\ joinable' = [joinable EXCEPT ![Head(todo)] = FALSE]
      /\ UNCHANGED <<prompt, command, depth, flags, thread, active, shut, sending,
                     buffers>>
    BY DEF JoinStream
<1>2. /\ Tail(todo) \in Seq(Streams) /\ Head(todo) \in Streams
      /\ \A s \in Range(todo) : s = Head(todo) \/ s \in Range(Tail(todo))
  <2>1. todo \in Seq(Streams) /\ todo # <<>>
      BY <1>1 DEF CInv, TypeOK, StopsInOrder
  <2> QED
      BY <2>1, RangeOfTail
<1>3. /\ joinable' \in [Streams -> BOOLEAN] /\ ~joinable'[Head(todo)]
      /\ \A s \in Streams : joinable'[s] => joinable[s]
      /\ \A s \in Streams : s # Head(todo) => joinable'[s] = joinable[s]
  <2>1. joinable \in [Streams -> BOOLEAN]
      BY DEF CInv, TypeOK
  <2>2. /\ joinable' \in [Streams -> BOOLEAN] /\ joinable'[Head(todo)] = FALSE
        /\ \A s \in Streams : s # Head(todo) => joinable'[s] = joinable[s]
      BY <1>1, <1>2, <2>1
  <2> QED
      BY <2>2
<1>4. TypeOK'
    BY <1>1, <1>2, <1>3 DEF CInv, TypeOK, depth, flags, buffers
<1>5. StopsInOrder'
    BY <1>1, <1>2, <1>3 DEF CInv, StopsInOrder, Stopping, Targets, flags
<1>6. ThreadsKnown'
    BY <1>1, <1>3 DEF CInv, ThreadsKnown, flags
<1>7. (WorkerKnown /\ BuffersFresh)'
    BY <1>1 DEF CInv, WorkerKnown, BuffersFresh, Stopping, depth, flags, buffers
<1>8. LaunchSafe
    BY <1>1 DEF LaunchSafe
<1> QED
    BY <1>4, <1>5, <1>6, <1>7, <1>8 DEF CInv

LEMMA LaunchStreamStep ==
    ASSUME CInv, NEW c \in Streams, LaunchStream(c)
    PROVE  CInv' /\ LaunchSafe
<1>1. /\ dpc = "signal" /\ todo = <<>> /\ command = c /\ dpc' = "join"
      /\ thread' = [thread EXCEPT ![c] = "launched"]
      /\ joinable' = [joinable EXCEPT ![c] = TRUE]
      /\ active' = [active EXCEPT ![c] = TRUE]
      /\ shut' = [shut EXCEPT ![c] = FALSE]
      /\ socket' = [socket EXCEPT ![c] = IF @ = "own" THEN "stale" ELSE @]
      /\ UNCHANGED <<prompt, command, todo, depth, flags, sending, stop, hasFrame>>
    BY DEF LaunchStream
<1>2. ~joinable[c] /\ workerRunning /\ thread[c] = "none"
  <2>1. c \in Targets /\ c \notin Range(todo) /\ Stopping
      BY <1>1 DEF Targets, Range, Stopping
  <2> QED
      BY <1>1, <2>1 DEF CInv, StopsInOrder, ThreadsKnown
<1>3. socket' \in [Streams -> {"none", "own", "stale"}]
    BY <1>1 DEF CInv, TypeOK
<1>4. TypeOK'
    BY <1>1, <1>3 DEF CInv, TypeOK, depth, flags
<1>5. /\ joinable'[c] /\ thread'[c] = "launched"
      /\ \A s \in Streams : s # c => /\ joinable'[s] = joinable[s]
                                     /\ thread'[s] = thread[s]
    BY <1>1 DEF CInv, TypeOK
<1>6. ThreadsKnown'
    BY <1>1, <1>2, <1>5 DEF CInv, ThreadsKnown, flags
<1>7. (StopsInOrder /\ WorkerKnown /\ BuffersFresh)'
    BY <1>1 DEF CInv, StopsInOrder, WorkerKnown, BuffersFresh, Stopping, depth, flags
<1>8. LaunchSafe
    BY <1>2, <1>5 DEF LaunchSafe
<1> QED
    BY <1>4, <1>6, <1>7, <1>8 DEF CInv

LEMMA LaunchFailsStep ==
    ASSUME CInv, NEW c \in Streams, LaunchFails(c)
    PROVE  CInv' /\ LaunchSafe
<1>1. /\ dpc = "signal" /\ command = c /\ dpc' = "join"
      /\ active' = [active EXCEPT ![c] = FALSE]
      /\ UNCHANGED <<prompt, command, todo, depth, flags, thread, joinable, shut,
                     sending, buffers>>
    BY DEF LaunchFails
<1>2. TypeOK'
    BY <1>1 DEF CInv, TypeOK, depth, flags, buffers
<1>3. (ThreadsKnown /\ StopsInOrder /\ WorkerKnown /\ BuffersFresh)'
    BY <1>1 DEF CInv, ThreadsKnown, StopsInOrder, WorkerKnown, BuffersFresh,
                Stopping, depth, flags, buffers
<1>4. LaunchSafe
    BY <1>1 DEF LaunchSafe
<1> QED
    BY <1>2, <1>3, <1>4 DEF CInv

\* StopWorker has stopped every stream when it joins the worker.
LEMMA AllStopped ==
    ASSUME CInv, WorkerJoined, command \notin Streams
    PROVE  \A s \in Streams : ~joinable[s] /\ thread[s] = "none"
<1>1. /\ Stopping /\ Targets = Streams
      /\ \A s \in Streams : s \notin Range(todo)
    BY DEF WorkerJoined, Stopping, Targets, Range
<1> QED
    BY <1>1 DEF CInv, StopsInOrder, ThreadsKnown

LEMMA FinishStopStep == CInv /\ FinishStop => CInv' /\ LaunchSafe
<1> SUFFICES ASSUME CInv, FinishStop PROVE CInv' /\ LaunchSafe
    OBVIOUS
<1>1. /\ WorkerJoined /\ command \notin Streams /\ dpc' = "join"
      /\ workerRunning' = FALSE /\ worker' = "none" /\ paused' = FALSE
      /\ UNCHANGED <<prompt, command, todo, startup, workerStop, threads, buffers>>
    BY StreamsAreNoCommands DEF FinishStop, WorkerJoined
<1>2. \A s \in Streams : ~joinable[s] /\ thread[s] = "none"
    BY <1>1, AllStopped
<1>3. TypeOK'
    BY <1>1 DEF CInv, TypeOK, threads, buffers
<1>4. (ThreadsKnown /\ StopsInOrder /\ WorkerKnown /\ BuffersFresh)'
    BY <1>1, <1>2 DEF CInv, ThreadsKnown, StopsInOrder, WorkerKnown, BuffersFresh,
                      Stopping, threads
<1>5. LaunchSafe
    BY <1>1 DEF LaunchSafe, threads
<1> QED
    BY <1>3, <1>4, <1>5 DEF CInv

LEMMA StartWorkerStep == CInv /\ StartWorker => CInv' /\ LaunchSafe
<1> SUFFICES ASSUME CInv, StartWorker PROVE CInv' /\ LaunchSafe
    OBVIOUS
<1>1. /\ WorkerJoined /\ command \notin Streams /\ dpc' = "startup"
      /\ workerRunning' = TRUE /\ workerStop' = FALSE /\ paused' = FALSE
      /\ worker' = "loop" /\ startup' = "pending"
      /\ hasFrame' = [s \in Streams |->
                         IF hasFrame[s] = "new" THEN "old" ELSE hasFrame[s]]
      /\ UNCHANGED <<prompt, command, todo, threads, stop, socket>>
    BY StreamsAreNoCommands DEF StartWorker, WorkerJoined
<1>2. \A s \in Streams : ~joinable[s] /\ thread[s] = "none"
    BY <1>1, AllStopped
<1>3. hasFrame' \in [Streams -> {"none", "old", "new"}]
    BY <1>1 DEF CInv, TypeOK
<1>4. TypeOK'
    BY <1>1, <1>3 DEF CInv, TypeOK, threads
<1>5. (ThreadsKnown /\ StopsInOrder /\ WorkerKnown /\ BuffersFresh)'
    BY <1>1, <1>2 DEF CInv, ThreadsKnown, StopsInOrder, WorkerKnown, BuffersFresh,
                      Stopping, threads
<1>6. LaunchSafe
    BY <1>1 DEF LaunchSafe, threads
<1> QED
    BY <1>4, <1>5, <1>6 DEF CInv

LEMMA StartSucceedsStep == CInv /\ StartSucceeds => CInv' /\ LaunchSafe
<1> SUFFICES ASSUME CInv, StartSucceeds PROVE CInv' /\ LaunchSafe
    OBVIOUS
<1>1. /\ dpc = "startup" /\ startup = "ok" /\ dpc' = "join"
      /\ UNCHANGED <<prompt, command, todo, depth, flags, threads, buffers>>
    BY DEF StartSucceeds
<1>2. TypeOK'
    BY <1>1 DEF CInv, TypeOK, depth, flags, threads, buffers
<1>3. (ThreadsKnown /\ StopsInOrder /\ WorkerKnown /\ BuffersFresh)'
    BY <1>1 DEF CInv, ThreadsKnown, StopsInOrder, WorkerKnown, BuffersFresh,
                Stopping, depth, flags, threads, buffers
<1>4. LaunchSafe
    BY <1>1 DEF LaunchSafe, threads
<1> QED
    BY <1>2, <1>3, <1>4 DEF CInv

-----------------------------------------------------------------------------
(* The depth worker.                                                       *)

LEMMA WorkerStep == CInv /\ Worker => CInv' /\ LaunchSafe
<1> SUFFICES ASSUME CInv, Worker PROVE CInv' /\ LaunchSafe
    OBVIOUS
<1>1. CASE WorkerDies
    BY <1>1, RecycleStep DEF WorkerDies
<1>2. CASE Worker /\ ~WorkerDies
  <2>1. /\ worker \in {"loop", "frame"} /\ worker' \in {"loop", "frame", "ended"}
        /\ startup' \in {"pending", "ok", "failed"}
        /\ UNCHANGED <<prompt, dispatcher, flags, threads, stop, socket>>
        /\ hasFrame' = hasFrame \/ \E lost \in SUBSET Encoded : hasFrame' = Published(lost)
      BY <1>2 DEF Worker, WorkerDies, WorkerBegins, WorkerSkips, WorkerPublishes,
                  WorkerFails, WorkerEnds, depth, buffers, CInv, TypeOK
  <2>2. /\ hasFrame' \in [Streams -> {"none", "old", "new"}]
        /\ \A s \in Streams : hasFrame'[s] = "old" => hasFrame[s] = "old"
    <3>1. hasFrame \in [Streams -> {"none", "old", "new"}]
        BY DEF CInv, TypeOK
    <3> QED
        BY <2>1, <3>1 DEF Published
  <2>3. TypeOK'
      BY <2>1, <2>2 DEF CInv, TypeOK, dispatcher, flags, threads
  <2>4. (ThreadsKnown /\ StopsInOrder)'
      BY <2>1 DEF CInv, ThreadsKnown, StopsInOrder, Stopping, Targets, dispatcher,
                  flags, threads
  <2>5. workerRunning
      BY <2>1 DEF CInv, WorkerKnown
  <2>6. WorkerKnown'
    <3>1. CASE WorkerBegins \/ WorkerSkips
        BY <2>1, <2>5, <3>1 DEF WorkerBegins, WorkerSkips, CInv, WorkerKnown, Stopping,
                           dispatcher, flags
    <3>2. CASE WorkerPublishes
        BY <2>1, <2>5, <3>2 DEF WorkerPublishes, CInv, WorkerKnown, Stopping,
                           dispatcher, flags
    <3>3. CASE WorkerFails
        BY <2>1, <2>5, <3>3 DEF WorkerFails, CInv, WorkerKnown, Stopping,
                           dispatcher, flags
    <3>4. CASE WorkerEnds
        BY <2>1, <2>5, <3>4 DEF WorkerEnds, CInv, WorkerKnown, Stopping,
                           dispatcher, flags
    <3> QED
        BY <1>2, <3>1, <3>2, <3>3, <3>4 DEF Worker
  <2>7. BuffersFresh'
    <3>1. sending' = sending
        BY <2>1 DEF threads
    <3>2. startup' = "ok" => \/ startup = "ok"
                             \/ \A s \in Streams \ Encoded : hasFrame'[s] = "new"
        BY <1>2 DEF Worker, WorkerBegins, WorkerSkips, WorkerPublishes,
                    WorkerFails, WorkerEnds, Published
    <3> QED
        BY <2>2, <2>5, <3>1, <3>2 DEF CInv, BuffersFresh
  <2>8. LaunchSafe
      BY <2>1 DEF LaunchSafe, threads
  <2> QED
      BY <2>3, <2>4, <2>6, <2>7, <2>8 DEF CInv
<1> QED
    BY <1>1, <1>2

-----------------------------------------------------------------------------
(* The stream threads.                                                     *)

LEMMA ThreadStep ==
    ASSUME CInv, NEW s \in Streams, Step(s) \/ Transmit(s)
    PROVE  CInv' /\ LaunchSafe
<1> DEFINE Places == {"none", "launched", "acking", "waiting",
                      "sending", "ending", "clearing", "refused"}
<1>1. /\ thread[s] # "none" /\ UNCHANGED others
      /\ \E p \in Places \ {"launched"} : thread' = [thread EXCEPT ![s] = p]
    BY DEF Step, Transmit, Register, Acknowledge, AcknowledgeFails, Refuse, TakeFrame,
           SeeStop, Send, SendFails, Deactivate, Clear, Goto
<1>2. /\ thread' \in [Streams -> Places]
      /\ thread'[s] # "launched"
      /\ \A r \in Streams : r # s => thread'[r] = thread[r]
    BY <1>1 DEF CInv, TypeOK
<1>3. UNCHANGED <<prompt, dpc, command, todo, worker, startup, workerRunning,
                  workerStop, paused, joinable>>
    BY <1>1 DEF others, dispatcher, depth, flags
<1>4. joinable[s] /\ startup = "ok" /\ workerRunning
    BY <1>1 DEF CInv, ThreadsKnown, WorkerKnown
<1>5. s \notin Encoded => hasFrame[s] # "old"
    BY <1>4 DEF CInv, BuffersFresh
<1>6. /\ \E b \in BOOLEAN : active' = active \/ active' = [active EXCEPT ![s] = b]
      /\ shut' = shut
      /\ stop' = stop \/ stop' = [stop EXCEPT ![s] = FALSE]
      /\ \E k \in {"none", "own"} : socket' = socket \/ socket' = [socket EXCEPT ![s] = k]
      /\ hasFrame' = hasFrame \/ hasFrame' = [hasFrame EXCEPT ![s] = "none"]
      /\ \/ sending' = sending
         \/ \E f \in {"none", hasFrame[s]} : sending' = [sending EXCEPT ![s] = f]
    BY DEF Step, Transmit, Register, Acknowledge, AcknowledgeFails, Refuse, TakeFrame,
           SeeStop, Send, SendFails, Deactivate, Clear, buffers
<1>7. /\ active' \in [Streams -> BOOLEAN] /\ stop' \in [Streams -> BOOLEAN]
      /\ socket' \in [Streams -> {"none", "own", "stale"}]
      /\ shut' \in [Streams -> BOOLEAN]
  <2>1. /\ active \in [Streams -> BOOLEAN] /\ stop \in [Streams -> BOOLEAN]
        /\ socket \in [Streams -> {"none", "own", "stale"}]
        /\ shut \in [Streams -> BOOLEAN]
      BY DEF CInv, TypeOK
  <2>2. active' \in [Streams -> BOOLEAN]
      BY ONLY <1>6, <2>1
  <2>3. stop' \in [Streams -> BOOLEAN]
      BY ONLY <1>6, <2>1
  <2>4. socket' \in [Streams -> {"none", "own", "stale"}]
      BY ONLY <1>6, <2>1
  <2> QED
      BY <1>6, <2>1, <2>2, <2>3, <2>4
<1>8. /\ hasFrame' \in [Streams -> {"none", "old", "new"}]
      /\ \A r \in Streams : hasFrame'[r] = "old" => hasFrame[r] = "old"
    BY <1>6 DEF CInv, TypeOK
<1>9. /\ sending' \in [Streams -> {"none", "old", "new"}]
      /\ \A r \in Streams \ Encoded : sending'[r] = "old" => sending[r] = "old"
    BY <1>5, <1>6 DEF CInv, TypeOK
<1>10. TypeOK'
    BY <1>2, <1>3, <1>7, <1>8, <1>9 DEF CInv, TypeOK
<1>11. ThreadsKnown'
    BY <1>2, <1>3, <1>4 DEF CInv, ThreadsKnown
<1>12. (StopsInOrder /\ WorkerKnown)'
    BY <1>3 DEF CInv, StopsInOrder, WorkerKnown, Stopping, Targets
<1>13. BuffersFresh'
    BY <1>3, <1>8, <1>9 DEF CInv, BuffersFresh
<1>14. LaunchSafe
    BY <1>2 DEF LaunchSafe
<1> QED
    BY <1>10, <1>11, <1>12, <1>13, <1>14 DEF CInv

-----------------------------------------------------------------------------
LEMMA NextCInv == CInv /\ [Next]_vars => CInv' /\ (LaunchSafe \/ UNCHANGED vars)
<1> SUFFICES ASSUME CInv, [Next]_vars PROVE CInv' /\ (LaunchSafe \/ UNCHANGED vars)
    OBVIOUS
<1>1. CASE Accept
    BY <1>1, AnswerOrPauseStep, AcceptStreamStep, AcceptStartOrStopStep DEF Accept
<1>2. CASE JoinFinished \/ SkipStream \/ SignalStream \/ JoinStream
    BY <1>2, JoinFinishedStep, SkipStreamStep, SignalStreamStep, JoinStreamStep
<1>3. CASE \E s \in Streams : LaunchStream(s) \/ LaunchFails(s)
    BY <1>3, LaunchStreamStep, LaunchFailsStep
<1>4. CASE FinishStop \/ StartWorker \/ StartSucceeds \/ StartFails
    BY <1>4, FinishStopStep, StartWorkerStep, StartSucceedsStep, RecycleStep DEF StartFails
<1>5. CASE Worker
    BY <1>5, WorkerStep
<1>6. CASE \E s \in Streams : Step(s) \/ Transmit(s)
    BY <1>6, ThreadStep
<1>7. CASE UNCHANGED vars
    BY <1>7 DEF vars, dispatcher, depth, flags, threads, buffers, CInv, TypeOK,
                ThreadsKnown, StopsInOrder, WorkerKnown, BuffersFresh, Stopping, Targets
<1> QED
    BY <1>1, <1>2, <1>3, <1>4, <1>5, <1>6, <1>7 DEF Next, Dispatch

LEMMA CInvHolds == Spec => []CInv
  BY InitCInv, NextCInv, PTL DEF Spec

\* Between two requests workerRunning tells the truth: unset, neither a worker
\* nor a stream thread is left; set, a worker is alive that has published.
THEOREM NothingLeftOverHolds == Spec => []NothingLeftOver
<1>1. CInv => NothingLeftOver
    BY DEF CInv, TypeOK, ThreadsKnown, WorkerKnown, Stopping, NothingLeftOver
<1> QED
    BY <1>1, CInvHolds, PTL

\* No stream but those whose pictures are encoded sends a frame that an
\* earlier worker left in its buffer.
THEOREM FramesAreNewHolds == Spec => []FramesAreNew
<1>1. CInv => FramesAreNew
    BY DEF CInv, BuffersFresh, FramesAreNew
<1> QED
    BY <1>1, CInvHolds, PTL

\* A stream thread is launched only where the one before it has ended and has
\* been joined.
THEOREM LaunchReplacesNothingHolds == Spec => LaunchReplacesNothing
<1>1. CInv /\ [Next]_vars =>
          [\A s \in Streams : thread'[s] = "launched" /\ thread[s] # "launched"
                                => thread[s] = "none" /\ ~joinable[s]]_vars
    BY NextCInv DEF LaunchSafe
<1> QED
    BY <1>1, CInvHolds, PTL DEF Spec, LaunchReplacesNothing
=============================================================================
