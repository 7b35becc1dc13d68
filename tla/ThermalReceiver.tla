-------------------------- MODULE ThermalReceiver ---------------------------
(***************************************************************************)
(* The UDP receiver thread of the Crow server's thermal proxy              *)
(* (crow_server/src/features/thermal/ThermalProxy.cpp): it is started by   *)
(* the first WebSocket client or by POST /thermal/control/start, and asked *)
(* to stop when the last client leaves or by POST /thermal/control/stop.   *)
(* The web server runs its handlers on several threads, so a handler is    *)
(* cut wherever it lets go of receiver_mutex or state_mutex.               *)
(*                                                                         *)
(* Packets and the statistics kept of them are left out: they do not       *)
(* change when the thread runs.                                            *)
(***************************************************************************)
EXTENDS Naturals

CONSTANT Clients        \* WebSocket connections

VARIABLES alwaysOn,        \* THERMAL_MONITOR_ALWAYS_ON
          spaced,          \* does nobody come while a stop is under way?
          phase,           \* "serving", "stopping" (shutdownThermalProxy), "down"
          conn,            \* where the handlers of each connection are
          clients,         \* g_thermal.clients
          threadStarted,   \* receiver_thread_started
          stopRequested,   \* stop_requested
          thread,          \* where the receiver thread is
          running,         \* stats.receiver_running
          failed           \* is stats.last_error set?

vars == <<alwaysOn, spaced, phase, conn, clients, threadStarted,
          stopRequested, thread, running, failed>>
server == <<alwaysOn, spaced, phase>>
receiver == <<thread, running, failed>>

Alive == {"setup", "loop", "receiving", "closed", "reported"}
Ended == {"none", "ended"}

\* Opening: between onopen's two locks.  Closing: between onclose's two.
Opening == {c \in Clients : conn[c] = "opening"}
Closing == {c \in Clients : conn[c] = "closing"}

TypeOK ==
    /\ alwaysOn \in BOOLEAN /\ spaced \in BOOLEAN
    /\ phase \in {"serving", "stopping", "down"}
    /\ conn \in [Clients -> {"closed", "opening", "open", "closing"}]
    /\ clients \subseteq Clients
    /\ threadStarted \in BOOLEAN /\ stopRequested \in BOOLEAN
    /\ thread \in Alive \union Ended
    /\ running \in BOOLEAN /\ failed \in BOOLEAN

\* registerThermalProxyRoutes starts the receiver of a server that monitors
\* on its own.
Init ==
    /\ alwaysOn \in BOOLEAN /\ spaced \in BOOLEAN
    /\ phase = "serving"
    /\ conn = [c \in Clients |-> "closed"] /\ clients = {}
    /\ threadStarted = alwaysOn /\ stopRequested = FALSE
    /\ thread = IF alwaysOn THEN "setup" ELSE "none"
    /\ running = FALSE /\ failed = FALSE

-----------------------------------------------------------------------------
(* What the handlers call, each under receiver_mutex.                      *)

\* Mutant: the flag is not looked at.
Ensure_unchecked ==
    /\ stopRequested' = FALSE /\ threadStarted' = TRUE /\ thread' = "setup"

\* Mutant: a thread is started without clearing the last stop request.
Ensure_keepsStop ==
    IF threadStarted THEN UNCHANGED <<stopRequested, threadStarted, thread>>
    ELSE /\ threadStarted' = TRUE /\ thread' = "setup"
         /\ UNCHANGED stopRequested

\* ensureThermalReceiverRunning.  The join returns at once: a thread clears
\* threadStarted as the last thing it does.
Ensure ==
    \/ /\ threadStarted
       /\ UNCHANGED <<stopRequested, threadStarted, thread>>
    \/ /\ ~threadStarted
       /\ stopRequested' = FALSE /\ threadStarted' = TRUE /\ thread' = "setup"

\* Mutant: nobody asks whether the server monitors on its own.
RequestStopIfIdle_always == stopRequested' = (stopRequested \/ clients = {})

\* Mutant: the clients are not looked at.
RequestStopIfIdle_busy == stopRequested' = (stopRequested \/ ~alwaysOn)

\* requestThermalReceiverStopIfIdle.
RequestStopIfIdle ==
    stopRequested' = (stopRequested \/ (~alwaysOn /\ clients = {}))

-----------------------------------------------------------------------------
(* The handlers.  "spaced" is what a careful operator would do: nobody     *)
(* connects while a stop is carried out, and nobody stops the receiver     *)
(* while a connection is being made.                                       *)

MayStart == /\ phase = "serving"
            /\ spaced => Closing = {} /\ ~(stopRequested /\ threadStarted)
MayStop == phase = "serving" /\ (spaced => Opening = {})

\* onopen, up to the end of ensureThermalReceiverRunning.
OpenEnsures(c) ==
    /\ MayStart /\ conn[c] = "closed"
    /\ conn' = [conn EXCEPT ![c] = "opening"]
    /\ Ensure
    /\ UNCHANGED <<clients, running, failed, server>>

\* onopen, the insertion under state_mutex.
OpenInserts(c) ==
    /\ phase = "serving" /\ conn[c] = "opening"
    /\ conn' = [conn EXCEPT ![c] = "open"]
    /\ clients' = clients \union {c}
    /\ UNCHANGED <<threadStarted, stopRequested, receiver, server>>

\* onclose, the removal under state_mutex.
CloseErases(c) ==
    /\ MayStop /\ conn[c] = "open"
    /\ conn' = [conn EXCEPT ![c] = "closing"]
    /\ clients' = clients \ {c}
    /\ UNCHANGED <<threadStarted, stopRequested, receiver, server>>

\* onclose, requestThermalReceiverStopIfIdle.
CloseStops(c) ==
    /\ MayStop /\ conn[c] = "closing"
    /\ conn' = [conn EXCEPT ![c] = "closed"]
    /\ RequestStopIfIdle
    /\ UNCHANGED <<clients, threadStarted, receiver, server>>

\* POST /thermal/control/start.
StartRoute ==
    /\ MayStart
    /\ Ensure
    /\ UNCHANGED <<conn, clients, running, failed, server>>

\* POST /thermal/control/stop.
StopRoute ==
    /\ MayStop
    /\ RequestStopIfIdle
    /\ UNCHANGED <<conn, clients, threadStarted, receiver, server>>

\* shutdownThermalProxy, after the web server has returned from run().
ShutdownStops ==
    /\ phase = "serving" /\ Opening = {} /\ Closing = {}
    /\ phase' = "stopping" /\ stopRequested' = TRUE
    /\ UNCHANGED <<alwaysOn, spaced, conn, clients, threadStarted, receiver>>

ShutdownJoins ==
    /\ phase = "stopping" /\ thread \in Ended
    /\ phase' = "down" /\ threadStarted' = FALSE
    /\ UNCHANGED <<alwaysOn, spaced, conn, clients, stopRequested, receiver>>

-----------------------------------------------------------------------------
(* The thread: thermalReceiverLoop.                                        *)

handlers == <<conn, clients, stopRequested, server>>

\* socket(), inet_pton() or bind() fails.
SetupFails ==
    /\ thread = "setup"
    /\ thread' = "reported" /\ running' = FALSE /\ failed' = TRUE
    /\ UNCHANGED <<threadStarted, handlers>>

SetupBinds ==
    /\ thread = "setup"
    /\ thread' = "loop" /\ running' = TRUE /\ failed' = FALSE
    /\ UNCHANGED <<threadStarted, handlers>>

\* Mutant: the request is forgotten once it has been read.
CheckStop_never ==
    /\ thread = "loop"
    /\ thread' = "receiving"
    /\ UNCHANGED <<running, failed, threadStarted, handlers>>

\* The top of the loop reads stop_requested.
CheckStop ==
    /\ thread = "loop"
    /\ thread' = IF stopRequested THEN "closed" ELSE "receiving"
    /\ UNCHANGED <<running, failed, threadStarted, handlers>>

\* recvfrom times out or returns a packet, which is counted and broadcast.
Receive ==
    /\ thread = "receiving"
    /\ thread' = "loop"
    /\ UNCHANGED <<running, failed, threadStarted, handlers>>

\* recvfrom fails for another reason.
ReceiveFails ==
    /\ thread = "receiving"
    /\ thread' = "loop" /\ running' = TRUE /\ failed' = TRUE
    /\ UNCHANGED <<threadStarted, handlers>>

\* The socket is closed and the state reported.
Report ==
    /\ thread = "closed"
    /\ thread' = "reported" /\ running' = FALSE /\ failed' = FALSE
    /\ UNCHANGED <<threadStarted, handlers>>

Finish ==
    /\ thread = "reported"
    /\ thread' = "ended" /\ threadStarted' = FALSE
    /\ UNCHANGED <<running, failed, handlers>>

-----------------------------------------------------------------------------
Handler ==
    \/ \E c \in Clients : \/ OpenEnsures(c) \/ OpenInserts(c)
                          \/ CloseErases(c) \/ CloseStops(c)
    \/ StartRoute \/ StopRoute \/ ShutdownStops \/ ShutdownJoins

Thread == SetupFails \/ SetupBinds \/ CheckStop \/ Receive \/ ReceiveFails
          \/ Report \/ Finish

Next == Handler \/ Thread

\* The operating system keeps running the receiver thread, whose waits are
\* bounded by SO_RCVTIMEO, and a handler that has begun.
Fairness ==
    /\ WF_vars(Thread)
    /\ \A c \in Clients : WF_vars(OpenInserts(c)) /\ WF_vars(CloseStops(c))
    /\ WF_vars(ShutdownJoins)

Spec == Init /\ [][Next]_vars /\ Fairness

-----------------------------------------------------------------------------
\* What the flags say of the thread, in every state.  A handler that trusts
\* receiver_thread_started never finds it behind or ahead of the thread.
FlagIsThread ==
    /\ threadStarted <=> thread \in Alive
    /\ running => thread \in {"loop", "receiving", "closed"}

\* The type invariant and FlagIsThread together, as the proofs use them.
IInv == TypeOK /\ FlagIsThread

\* A thread is spawned only when the one before it has ended: two receivers
\* are never bound to the port, whatever handlers overlap.
OneThread == [][thread' # thread /\ thread' = "setup" => thread \in Ended]_vars

\* The receiver of a server that monitors on its own is never taken down
\* before shutdown, unless its socket could not be bound: however clients
\* come and go, no stop reaches it.
KeptAlwaysOn == [][alwaysOn /\ phase = "serving" /\ running => running']_vars

\* A receiver that was asked to stop ends: the request is cleared only by a
\* handler that found the thread ended.
StopIsHeeded == stopRequested /\ threadStarted ~> ~threadStarted

Served(c) == running \/ failed \/ conn[c] # "open" \/ phase # "serving"

\* A client that stays connected gets a running receiver, or an error is
\* reported, if openings and stops do not overlap.
ServedWhenSpaced == \A c \in Clients : spaced /\ conn[c] = "open" ~> Served(c)

\* The same, at any time: POST /thermal/control/stop answers that the
\* "receiver stops when no WebSocket clients remain".  A stop between the two
\* steps of onopen sees no client.
ClientServed == \A c \in Clients : conn[c] = "open" ~> Served(c)

\* While a client is connected and stops do not overlap with openings, no
\* stop is pending: the receiver the client found is there to stay.
NoStopUnderClient ==
    spaced /\ phase = "serving" /\ clients # {} => ~(stopRequested /\ threadStarted)
=============================================================================
