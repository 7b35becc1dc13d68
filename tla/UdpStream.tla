------------------------------ MODULE UdpStream ------------------------------
(***************************************************************************)
(* The UDP stream of the ESP32 (mqtt/udp_stream.c): mqttFrameTask sends    *)
(* chunk after chunk on a connected socket, and the Wi-Fi event handler    *)
(* (mqtt/wifi.c) asks for a reset when the network is lost.  The task      *)
(* keeps the mutex while it resolves, connects and sends; the handler does *)
(* not wait for it then and leaves a request in a flag.                    *)
(*                                                                         *)
(* A socket is its local address, by which the gateway knows the sender.   *)
(* The time stamps appear as whether their time is still to come.          *)
(***************************************************************************)
EXTENDS Naturals

CONSTANTS
    Addresses,      \* what a new socket may be bound to
    RetryCount      \* UDP_SEND_RETRY_COUNT

ASSUME StreamAssumption == RetryCount \in Nat \ {0} /\ "none" \notin Addresses

VARIABLES
    udp,            \* the s_udp_... variables, see StreamType
    pc, attempt,    \* mqttFrameTask in udpStreamSend
    stale           \* was Wi-Fi lost since the socket was opened: "no", "yes",
                    \* or "new" if only since the task took the mutex

udpVars == <<udp, pc, attempt, stale>>

\* connected stands for s_udp_enabled too: they are set and cleared together.
StreamType == [sock : Addresses \union {"none"}, connected : BOOLEAN, reset : BOOLEAN,
               ready_after : BOOLEAN, congested : BOOLEAN, retry_after : BOOLEAN]

UdpTypeOK ==
    /\ udp \in StreamType
    /\ pc \in {"idle", "opening", "connecting", "relock", "wait", "send", "retry"}
    /\ attempt \in 1 .. RetryCount
    /\ stale \in {"no", "new", "yes"}

UdpInit ==
    /\ udp = [sock |-> "none", connected |-> FALSE, reset |-> FALSE,
              ready_after |-> FALSE, congested |-> FALSE, retry_after |-> FALSE]
    /\ pc = "idle" /\ attempt = 1 /\ stale = "no"

-----------------------------------------------------------------------------
\* The task holds s_udp_mutex.
Held == pc \in {"opening", "connecting", "send"}

\* udpResetLocked.
Closed(u) == [u EXCEPT !.sock = "none", !.connected = FALSE, !.reset = FALSE,
                       !.ready_after = FALSE, !.congested = FALSE]

\* udpApplyPendingResetLocked.
Applied(u) == IF u.reset THEN Closed(u) ELSE u

Waiting(u) == u.ready_after \/ u.congested

\* The task takes the mutex: what was lost before counts from now on.
Notice == stale' = IF stale = "new" THEN "yes" ELSE stale

\* The count of attempts is a local variable of udpStreamSend.
KeepCount == attempt' = IF pc' = "idle" THEN 1 ELSE attempt

\* udpStreamSend calls udpStreamInit, up to the decision to connect.
Begin ==
    /\ pc = "idle"
    /\ udp' = Applied(udp)
    /\ pc' = IF udp'.connected THEN "relock"
             ELSE IF udp'.retry_after THEN "idle" ELSE "opening"
    /\ Notice
    /\ UNCHANGED attempt

\* What is left of an earlier socket is cleared away.
Open ==
    /\ pc = "opening" /\ pc' = "connecting"
    /\ udp' = Closed(udp) /\ stale' = "no"
    /\ UNCHANGED attempt

\* Mutant: a new connection is taken for an answer to the request.
Connect_clearsRequest(a) ==
    /\ pc = "connecting" /\ pc' = "relock"
    /\ udp' = [udp EXCEPT !.sock = a, !.connected = TRUE, !.reset = FALSE,
                          !.ready_after = TRUE, !.retry_after = FALSE]
    /\ UNCHANGED <<attempt, stale>>

\* udpConnectSocketLocked has found an address and udpStreamInit returns.
Connect(a) ==
    /\ pc = "connecting" /\ pc' = "relock"
    /\ udp' = [udp EXCEPT !.sock = a, !.connected = TRUE,
                          !.ready_after = TRUE, !.retry_after = FALSE]
    /\ UNCHANGED <<attempt, stale>>

ConnectFails ==
    /\ pc = "connecting" /\ pc' = "idle"
    /\ udp' = [Closed(udp) EXCEPT !.retry_after = TRUE]
    /\ UNCHANGED <<attempt, stale>>

\* udpStreamSend takes the mutex again.
Relock ==
    /\ pc = "relock"
    /\ udp' = Applied(udp)
    /\ pc' = IF ~udp'.connected THEN "idle"
             ELSE IF Waiting(udp') THEN "wait" ELSE "send"
    /\ Notice /\ UNCHANGED attempt

\* udpWaitUntilLocked: the mutex is free until the time has come.
WaitEnds ==
    /\ pc = "wait"
    /\ udp' = Applied(udp)
    /\ ~Waiting(udp')
    /\ pc' = IF udp'.connected THEN "send" ELSE "idle"
    /\ Notice
    /\ KeepCount

\* udpDelayAndRelock after a congested send.
RetryDelayEnds ==
    /\ pc = "retry"
    /\ udp' = Applied(udp)
    /\ pc' = IF ~udp'.connected THEN "idle"
             ELSE IF Waiting(udp') THEN "wait" ELSE "send"
    /\ Notice
    /\ KeepCount

SendOk ==
    /\ pc = "send" /\ pc' = "idle"
    /\ udp' = [udp EXCEPT !.ready_after = FALSE, !.congested = FALSE]
    /\ KeepCount /\ UNCHANGED stale

\* Mutant: the retries are not counted.
SendCongested_forEver ==
    /\ pc = "send" /\ pc' = "retry"
    /\ udp' = [udp EXCEPT !.ready_after = FALSE, !.congested = TRUE]
    /\ UNCHANGED <<attempt, stale>>

\* EAGAIN or ENOMEM: the gate of mqttFrameTask closes for a while, and after
\* the last attempt the chunk is given up.
SendCongested ==
    /\ pc = "send"
    /\ udp' = [udp EXCEPT !.ready_after = FALSE, !.congested = TRUE]
    /\ \/ attempt < RetryCount /\ attempt' = attempt + 1 /\ pc' = "retry"
       \/ attempt = RetryCount /\ pc' = "idle" /\ KeepCount
    /\ UNCHANGED stale

\* Another error, or a part of the chunk was sent.
SendFails ==
    /\ pc = "send" /\ pc' = "idle"
    /\ udp' = [Closed(udp) EXCEPT !.retry_after = TRUE]
    /\ KeepCount /\ UNCHANGED stale

TimeStamps == {"ready_after", "congested", "retry_after"}

\* The time of a time stamp comes.
TimeComes(t) ==
    /\ udp[t] /\ udp' = [udp EXCEPT ![t] = FALSE]
    /\ UNCHANGED <<pc, attempt, stale>>

-----------------------------------------------------------------------------
\* STA_DISCONNECTED: udpStreamRequestReset, with the mutex or without it.
WifiLost ==
    /\ \/ /\ Held
          /\ udp' = [udp EXCEPT !.reset = TRUE]
          /\ stale' = IF stale = "yes" THEN "yes" ELSE "new"
       \/ /\ ~Held
          /\ udp' = [udp EXCEPT !.connected = FALSE, !.reset = TRUE]
          /\ stale' = "yes"
    /\ UNCHANGED <<pc, attempt>>

\* STA_GOT_IP: udpStreamDeferInit, which waits for the mutex.
DeferInit ==
    /\ ~Held
    /\ udp' = [udp EXCEPT !.retry_after = TRUE]
    /\ UNCHANGED <<pc, attempt, stale>>

-----------------------------------------------------------------------------
\* SendOk is missing: what becomes of the datagram is said in ThermalUplink.
InSend == \/ Open \/ (\E a \in Addresses : Connect(a)) \/ ConnectFails \/ Relock
          \/ WaitEnds \/ RetryDelayEnds \/ SendCongested \/ SendFails

Handler == WifiLost \/ DeferInit

UdpNext == Begin \/ InSend \/ Handler \/ \E t \in TimeStamps : TimeComes(t)

-----------------------------------------------------------------------------
\* No chunk goes out on a socket from before a loss of Wi-Fi that was known
\* when the task last took the mutex: a request left in the flag is neither
\* overwritten by the connection being made nor missed by a retry.
NoStaleSend == pc = "send" => stale # "yes"

\* udpStreamSend returns, however congested the network is and however often
\* Wi-Fi is lost: mqttFrameTask is never stuck with a frame buffer in hand.
EverySendEnds == pc # "idle" ~> pc = "idle"
=============================================================================
