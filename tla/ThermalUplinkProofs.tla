------------------------ MODULE ThermalUplinkProofs ------------------------
(***************************************************************************)
(* Proofs about the thermal uplink, for any number of addresses and        *)
(* descriptors and whatever the network does: the ESP32 does not send on a *)
(* socket it should have given up, and the gateway neither leaks a socket  *)
(* nor closes one that is in use.                                          *)
(***************************************************************************)
EXTENDS ThermalUplink, WellFoundedInduction, TLAPS

-----------------------------------------------------------------------------
(* The ESP32: the request for a reset is not overlooked.                   *)

UdpTyped ==
    /\ udp \in StreamType /\ (udp.connected => udp.sock \in Addresses)
    /\ stale \in {"no", "new", "yes"}

\* A loss of Wi-Fi has left the stream without a connection, or with a request
\* that the next one to take the mutex meets.
LossNoted ==
    /\ pc = "send" => udp.connected
    /\ stale = "yes" => ~udp.connected /\ pc # "connecting"
    /\ stale = "new" => udp.reset \/ (~udp.connected /\ pc # "connecting")

UInv == UdpTyped /\ LossNoted

\* What is left of the stream when the mutex is taken.
LEMMA AppliedStream ==
    ASSUME UInv
    PROVE  /\ Applied(udp) \in StreamType
           /\ Applied(udp).connected => udp.connected /\ ~udp.reset
           /\ Applied(udp).connected => stale = "no" /\ Applied(udp).sock \in Addresses
           /\ ~udp.connected => ~Applied(udp).connected
<1>1. CASE udp.reset
    BY <1>1 DEF UInv, UdpTyped, StreamType, Applied, Closed
<1>2. CASE ~udp.reset
    BY <1>2 DEF UInv, UdpTyped, LossNoted, StreamType, Applied
<1> QED
    BY <1>1, <1>2

\* The steps that take the mutex.
LEMMA TakeMutex ==
    ASSUME UInv, udp' = Applied(udp), Notice, pc' # "connecting",
           pc' = "send" => udp'.connected
    PROVE  UInv'
<1>1. stale' \in {"no", "yes"} /\ (stale = "no" => stale' = "no")
    BY DEF Notice, UInv, UdpTyped
<1>2. udp' \in StreamType /\ (udp'.connected => stale = "no" /\ udp'.sock \in Addresses)
    BY AppliedStream
<1> QED
    BY <1>1, <1>2 DEF UInv, UdpTyped, LossNoted

LEMMA UdpStepUInv ==
    ASSUME UInv, UdpNext \/ SendOk PROVE UInv'
<1>0. /\ udp \in [sock : Addresses \union {"none"}, connected : BOOLEAN,
                  reset : BOOLEAN, ready_after : BOOLEAN, congested : BOOLEAN,
                  retry_after : BOOLEAN]
      /\ stale \in {"no", "new", "yes"}
    BY DEF UInv, UdpTyped, StreamType
<1>1. CASE Begin
    BY <1>1, TakeMutex DEF Begin
<1>2. CASE Open
  <2>1. udp' = Closed(udp) /\ stale' = "no" /\ pc' = "connecting"
      BY <1>2 DEF Open
  <2> QED
      BY <1>0, <2>1 DEF Closed, UInv, UdpTyped, LossNoted, StreamType
<1>3. CASE \E a \in Addresses : Connect(a)
  <2>1. PICK a \in Addresses : Connect(a)
      BY <1>3
  <2>2. /\ pc = "connecting" /\ pc' = "relock" /\ stale' = stale
        /\ udp' = [udp EXCEPT !.sock = a, !.connected = TRUE,
                              !.ready_after = TRUE, !.retry_after = FALSE]
      BY <2>1 DEF Connect
  <2>3. udp' \in StreamType /\ udp'.reset = udp.reset /\ udp'.sock = a
      BY <1>0, <2>2 DEF StreamType
  <2>4. stale # "yes" /\ (stale = "new" => udp.reset)
      BY <2>2 DEF UInv, LossNoted
  <2> QED
      BY <1>0, <2>2, <2>3, <2>4 DEF UInv, UdpTyped, LossNoted
<1>4. CASE ConnectFails \/ SendFails
  <2>1. /\ pc' = "idle" /\ stale' = stale
        /\ udp' = [Closed(udp) EXCEPT !.retry_after = TRUE]
      BY <1>4 DEF ConnectFails, SendFails
  <2>2. udp' \in StreamType /\ ~udp'.connected
      BY <1>0, <2>1 DEF Closed, StreamType
  <2> QED
      BY <1>0, <2>1, <2>2 DEF UInv, UdpTyped, LossNoted
<1>5. CASE Relock \/ WaitEnds \/ RetryDelayEnds
  <2>1. /\ udp' = Applied(udp) /\ Notice /\ pc' # "connecting"
        /\ pc' = "send" => udp'.connected
      BY <1>5 DEF Relock, WaitEnds, RetryDelayEnds
  <2> QED
      BY <2>1, TakeMutex
<1>6. CASE SendOk \/ SendCongested
  <2>1. /\ pc = "send" /\ pc' \in {"idle", "retry"} /\ stale' = stale
        /\ \E c \in BOOLEAN : udp' = [udp EXCEPT !.ready_after = FALSE, !.congested = c]
      BY <1>6 DEF SendOk, SendCongested
  <2>2. /\ udp' \in StreamType /\ udp'.connected = udp.connected
        /\ udp'.reset = udp.reset /\ udp'.sock = udp.sock
      BY <1>0, <2>1 DEF StreamType
  <2> QED
      BY <1>0, <2>1, <2>2 DEF UInv, UdpTyped, LossNoted
<1>7. CASE WifiLost
  <2>1. CASE /\ Held /\ udp' = [udp EXCEPT !.reset = TRUE]
             /\ stale' = IF stale = "yes" THEN "yes" ELSE "new"
    <3>1. /\ udp' \in StreamType /\ udp'.connected = udp.connected
          /\ udp'.reset /\ udp'.sock = udp.sock
        BY <1>0, <2>1 DEF StreamType
    <3> QED
        BY <1>0, <1>7, <2>1, <3>1 DEF WifiLost, UInv, UdpTyped, LossNoted
  <2>2. CASE /\ ~Held /\ stale' = "yes"
             /\ udp' = [udp EXCEPT !.connected = FALSE, !.reset = TRUE]
    <3>1. udp' \in StreamType /\ ~udp'.connected
        BY <1>0, <2>2 DEF StreamType
    <3>2. pc' = pc /\ pc \notin {"send", "connecting"}
        BY <1>7, <2>2 DEF WifiLost, Held
    <3> QED
        BY <2>2, <3>1, <3>2 DEF UInv, UdpTyped, LossNoted
  <2> QED
      BY <1>7, <2>1, <2>2 DEF WifiLost
<1>8. CASE DeferInit \/ \E t \in TimeStamps : TimeComes(t)
  <2>1. /\ pc' = pc /\ stale' = stale
        /\ \E t \in TimeStamps, c \in BOOLEAN : udp' = [udp EXCEPT ![t] = c]
      BY <1>8 DEF DeferInit, TimeComes, TimeStamps
  <2>2. /\ udp' \in StreamType /\ udp'.connected = udp.connected
        /\ udp'.reset = udp.reset /\ udp'.sock = udp.sock
      BY <1>0, <2>1 DEF StreamType, TimeStamps
  <2> QED
      BY <1>0, <2>1, <2>2 DEF UInv, UdpTyped, LossNoted
<1> QED
    BY <1>1, <1>2, <1>3, <1>4, <1>5, <1>6, <1>7, <1>8 DEF UdpNext, InSend, Handler

LEMMA UInvHolds == UplinkSpec => []UInv
<1>1. UplinkInit => UInv
    BY DEF UplinkInit, UdpInit, UInv, UdpTyped, LossNoted, StreamType
<1>2. UInv /\ [UplinkNext]_uplinkVars => UInv'
  <2> SUFFICES ASSUME UInv, [UplinkNext]_uplinkVars PROVE UInv'
      OBVIOUS
  <2>1. CASE UdpNext \/ SendOk
      BY <2>1, UdpStepUInv
  <2>2. CASE UNCHANGED udpVars
      BY <2>2 DEF udpVars, UInv, UdpTyped, LossNoted
  <2> QED
      BY <2>1, <2>2 DEF UplinkNext, uplinkVars, Esp32, Transmit, Straggler, Gateway
<1> QED
    BY <1>1, <1>2, PTL DEF UplinkSpec

\* No chunk goes out on a socket from before a loss of Wi-Fi that was known
\* when mqttFrameTask last took the mutex, with any number of retries.
THEOREM NoStaleSendHolds == UplinkSpec => []NoStaleSend
<1>1. UInv => NoStaleSend
    BY DEF UInv, LossNoted, NoStaleSend
<1> QED
    BY <1>1, UInvHolds, PTL

-----------------------------------------------------------------------------
(* The gateway: whose each socket is.                                      *)

\* The system's choice among the free descriptors is one of them.
LEMMA LowestIsOne ==
    ASSUME NEW S, S \subseteq Nat, S # {}
    PROVE  Lowest(S) \in S
<1> DEFINE R == {ss \in Nat \X Nat : ss[1] < ss[2]}
<1>1. IsWellFoundedOn(R, Nat)
    BY NatLessThanWellFounded DEF OpToRel
<1>2. \E x \in S : \A y \in S : ~(<<y, x>> \in R)
    BY <1>1, WFMin
<1>3. PICK x \in S : \A y \in S : ~(<<y, x>> \in R)
    BY <1>2
<1>4. ASSUME NEW y \in S PROVE x <= y
  <2>1. x \in Nat /\ y \in Nat /\ <<y, x>> \notin R
      BY <1>3
  <2>2. ~(y < x)
      BY <2>1
  <2> QED
      BY <2>1, <2>2
<1> QED
    BY <1>4 DEF Lowest

GatewayTyped ==
    /\ workerMode \in BOOLEAN
    /\ loop \in {"accept", "reopen", "connect", "start", "inline"}
    /\ listenFd \in Fds /\ sessionFd \in Fds
    /\ sock \in [Fds -> Peers \union {"closed", "bound"}]
    /\ queue \in [Fds -> Seq(Peers)]
    /\ worker \in [Fds -> BOOLEAN]

\* What the accept loop has in hand at each of its positions.
LoopHolds ==
    /\ loop \in {"accept", "reopen"} => /\ sock[listenFd] = "bound"
                                        /\ sessionFd = listenFd /\ workerMode
    /\ loop \in {"connect", "start"} =>
           IF workerMode THEN sock[listenFd] = "bound" /\ listenFd # sessionFd
                         ELSE listenFd = sessionFd
    /\ loop = "inline" => listenFd = sessionFd
    /\ loop \in {"reopen", "connect"} => queue[sessionFd] # <<>>

\* An open socket is read by a session or in the loop's hands, never both.
Owned ==
    \A fd \in Fds :
        /\ sock[fd] # "closed" <=> worker[fd] \/ fd \in InHand
        /\ worker[fd] => fd \notin InHand

GInv == GatewayTyped /\ LoopHolds /\ Owned

LEMMA InitGInv == GatewayInit => GInv
<1> SUFFICES ASSUME GatewayInit PROVE GInv
    OBVIOUS
<1>1. Lowest(Fds) \in Fds
    BY LowestIsOne, GatewayAssumption
<1>2. GatewayTyped
    BY <1>1 DEF GatewayInit, GatewayTyped
<1>3. LoopHolds
    BY <1>1 DEF GatewayInit, LoopHolds
<1>4. InHand = {listenFd}
    BY DEF GatewayInit, InHand
<1>5. Owned
    BY <1>4 DEF GatewayInit, Owned
<1> QED
    BY <1>2, <1>3, <1>5 DEF GInv

\* A new socket is one that was closed.
LEMMA BoundSocket ==
    ASSUME GInv, BindListenSocket
    PROVE  /\ listenFd' \in Fds /\ sock[listenFd'] = "closed"
           /\ sock' = [sock EXCEPT ![listenFd'] = "bound"]
<1>1. /\ Fds \ OpenSockets # {} /\ Fds \ OpenSockets \subseteq Nat
      /\ listenFd' = Lowest(Fds \ OpenSockets)
      /\ sock' = [sock EXCEPT ![listenFd'] = "bound"]
    BY GatewayAssumption DEF BindListenSocket, OpenSockets
<1>2. listenFd' \in Fds \ OpenSockets
    BY <1>1, LowestIsOne
<1> QED
    BY <1>1, <1>2 DEF OpenSockets, IsClosed

LEMMA AcceptStep == GInv /\ Accept => GInv'
<1> SUFFICES ASSUME GInv, Accept PROVE GInv'
    OBVIOUS
<1>1. /\ loop = "accept" /\ loop' = "reopen" /\ queue[listenFd] # <<>>
      /\ UNCHANGED <<listenFd, sessionFd, workerMode, sock, queue, worker>>
    BY DEF Accept, Goto
<1>2. InHand = {listenFd} /\ InHand' = {listenFd}
    BY <1>1 DEF InHand
<1> QED
    BY <1>1, <1>2 DEF GInv, GatewayTyped, LoopHolds, Owned

LEMMA ReopenStep == GInv /\ Reopen => GInv'
<1> SUFFICES ASSUME GInv, Reopen PROVE GInv'
    OBVIOUS
<1>1. /\ loop = "reopen" /\ loop' = "connect" /\ BindListenSocket
      /\ UNCHANGED <<sessionFd, workerMode, queue, worker>>
    BY DEF Reopen, Goto
<1>2. /\ listenFd' \in Fds /\ sock[listenFd'] = "closed"
      /\ sock' = [sock EXCEPT ![listenFd'] = "bound"]
    BY <1>1, BoundSocket
<1>3. InHand = {listenFd} /\ InHand' = {listenFd', sessionFd}
    BY <1>1 DEF InHand
<1>4. sock[listenFd] = "bound" /\ sessionFd = listenFd /\ workerMode
    BY <1>1 DEF GInv, LoopHolds
<1>5. GatewayTyped'
    BY <1>1, <1>2 DEF GInv, GatewayTyped
<1>6. sock'[listenFd'] = "bound" /\ \A fd \in Fds : fd # listenFd' => sock'[fd] = sock[fd]
    BY <1>2 DEF GInv, GatewayTyped
<1>7. LoopHolds'
    BY <1>1, <1>2, <1>4, <1>6 DEF GInv, LoopHolds
<1>8. Owned'
    BY <1>1, <1>2, <1>3, <1>4, <1>6 DEF GInv, Owned
<1> QED
    BY <1>5, <1>7, <1>8 DEF GInv

LEMMA ReopenFailsStep == GInv /\ ReopenFails => GInv'
<1> SUFFICES ASSUME GInv, ReopenFails PROVE GInv'
    OBVIOUS
<1>1. /\ loop = "reopen" /\ loop' = "connect" /\ workerMode' = FALSE
      /\ UNCHANGED <<listenFd, sessionFd, sock, queue, worker>>
    BY DEF ReopenFails, Goto
<1>2. sessionFd = listenFd
    BY <1>1 DEF GInv, LoopHolds
<1>3. InHand = {listenFd} /\ InHand' = {listenFd}
    BY <1>1, <1>2 DEF InHand
<1> QED
    BY <1>1, <1>2, <1>3 DEF GInv, GatewayTyped, LoopHolds, Owned

LEMMA ConnectPeerStep == GInv /\ ConnectPeer => GInv'
<1> SUFFICES ASSUME GInv, ConnectPeer PROVE GInv'
    OBVIOUS
<1> DEFINE peer == Head(queue[sessionFd])
<1>1. /\ loop = "connect" /\ loop' = "start"
      /\ sock' = [sock EXCEPT ![sessionFd] = peer]
      /\ UNCHANGED <<listenFd, sessionFd, workerMode, queue, worker>>
    BY DEF ConnectPeer, Goto
<1>2. peer \in Peers
  <2>1. queue[sessionFd] \in Seq(Peers) /\ queue[sessionFd] # <<>>
      BY <1>1 DEF GInv, GatewayTyped, LoopHolds
  <2> QED
      BY <2>1
<1>3. peer # "closed"
    BY <1>2, GatewayAssumption
<1> HIDE DEF peer
<1>4. InHand = {listenFd, sessionFd} /\ InHand' = {listenFd, sessionFd}
    BY <1>1 DEF InHand
<1>5. GatewayTyped'
    BY <1>1, <1>2 DEF GInv, GatewayTyped
<1>6. sock'[sessionFd] = peer /\ \A fd \in Fds : fd # sessionFd => sock'[fd] = sock[fd]
    BY <1>1 DEF GInv, GatewayTyped
<1>7. listenFd \in Fds /\ sessionFd \in Fds
    BY DEF GInv, GatewayTyped
<1>8. LoopHolds'
    BY <1>1, <1>6, <1>7 DEF GInv, LoopHolds
<1>9. Owned'
    BY <1>1, <1>3, <1>4, <1>6, <1>7 DEF GInv, Owned
<1> QED
    BY <1>5, <1>8, <1>9 DEF GInv

LEMMA ConnectPeerFailsStep == GInv /\ ConnectPeerFails => GInv'
<1> SUFFICES ASSUME GInv, ConnectPeerFails PROVE GInv'
    OBVIOUS
<1>1. /\ loop = "connect" /\ loop' = "accept" /\ listenFd' = listenFd
      /\ sessionFd' = listenFd /\ workerMode' = TRUE /\ worker' = worker
      /\ sock' = [sock EXCEPT ![sessionFd] = IF workerMode THEN "closed" ELSE "bound"]
      /\ queue' = [queue EXCEPT ![sessionFd] = IF workerMode THEN <<>> ELSE @]
    BY DEF ConnectPeerFails, NextPeer
<1>2. InHand = {listenFd, sessionFd} /\ InHand' = {listenFd}
    BY <1>1 DEF InHand
<1>3. /\ listenFd \in Fds /\ sessionFd \in Fds
      /\ \A fd \in Fds : fd # sessionFd => sock'[fd] = sock[fd]
      /\ sock'[sessionFd] = IF workerMode THEN "closed" ELSE "bound"
    BY <1>1 DEF GInv, GatewayTyped
<1>4. GatewayTyped'
  <2>1. \A fd \in Fds : queue'[fd] = <<>> \/ queue'[fd] = queue[fd]
      BY <1>1 DEF GInv, GatewayTyped
  <2>2. queue' \in [Fds -> Seq(Peers)]
      BY <1>1, <2>1 DEF GInv, GatewayTyped
  <2> QED
      BY <1>1, <1>3, <2>2 DEF GInv, GatewayTyped
<1>5. CASE workerMode
  <2>1. sock[listenFd] = "bound" /\ listenFd # sessionFd
      BY <1>1, <1>5 DEF GInv, LoopHolds
  <2>2. LoopHolds'
      BY <1>1, <1>3, <2>1 DEF LoopHolds
  <2>3. Owned'
      BY <1>1, <1>2, <1>3, <1>5, <2>1 DEF GInv, Owned
  <2> QED
      BY <1>4, <2>2, <2>3 DEF GInv
<1>6. CASE ~workerMode
  <2>1. listenFd = sessionFd
      BY <1>1, <1>6 DEF GInv, LoopHolds
  <2>2. LoopHolds'
      BY <1>1, <1>3, <1>6, <2>1 DEF LoopHolds
  <2>3. Owned'
      BY <1>1, <1>2, <1>3, <1>6, <2>1 DEF GInv, Owned
  <2> QED
      BY <1>4, <2>2, <2>3 DEF GInv
<1> QED
    BY <1>5, <1>6

LEMMA StartSessionStep == GInv /\ StartSession => GInv'
<1> SUFFICES ASSUME GInv, StartSession PROVE GInv'
    OBVIOUS
<1>1. /\ loop = "start" /\ listenFd' = listenFd /\ sock' = sock /\ queue' = queue
      /\ worker' = [worker EXCEPT ![sessionFd] = TRUE]
    BY DEF StartSession
<1>2. /\ listenFd \in Fds /\ sessionFd \in Fds
      /\ InHand = {listenFd, sessionFd}
      /\ \A fd \in Fds : fd # sessionFd => worker'[fd] = worker[fd]
      /\ worker'[sessionFd]
    BY <1>1 DEF GInv, GatewayTyped, InHand
<1>3. CASE workerMode /\ NextPeer
  <2>1. loop' = "accept" /\ sessionFd' = listenFd /\ workerMode' = TRUE
      BY <1>1, <1>3 DEF NextPeer
  <2>2. InHand' = {listenFd}
      BY <1>1, <2>1 DEF InHand
  <2>3. sock[listenFd] = "bound" /\ listenFd # sessionFd
      BY <1>1, <1>3 DEF GInv, LoopHolds
  <2>4. GatewayTyped'
      BY <1>1, <2>1 DEF GInv, GatewayTyped
  <2>5. LoopHolds'
      BY <1>1, <2>1, <2>3 DEF LoopHolds
  <2>6. Owned'
      BY <1>1, <1>2, <2>2, <2>3 DEF GInv, Owned
  <2> QED
      BY <2>4, <2>5, <2>6 DEF GInv
<1>4. CASE ~workerMode /\ Goto("inline") /\ UNCHANGED <<sessionFd, workerMode>>
  <2>1. loop' = "inline" /\ sessionFd' = sessionFd /\ workerMode' = workerMode
      BY <1>4 DEF Goto
  <2>2. InHand' = {}
      BY <2>1 DEF InHand
  <2>3. listenFd = sessionFd
      BY <1>1, <1>4 DEF GInv, LoopHolds
  <2>4. GatewayTyped'
      BY <1>1, <2>1 DEF GInv, GatewayTyped
  <2>5. LoopHolds'
      BY <1>1, <2>1, <2>3 DEF LoopHolds
  <2>6. Owned'
      BY <1>1, <1>2, <2>2, <2>3 DEF GInv, Owned
  <2> QED
      BY <2>4, <2>5, <2>6 DEF GInv
<1> QED
    BY <1>3, <1>4 DEF StartSession

LEMMA StartThreadFailsStep == GInv /\ StartThreadFails => GInv'
<1> SUFFICES ASSUME GInv, StartThreadFails PROVE GInv'
    OBVIOUS
<1>1. /\ loop = "start" /\ workerMode /\ loop' = "inline"
      /\ listenFd' = sessionFd /\ UNCHANGED <<sessionFd, workerMode>>
      /\ worker' = [worker EXCEPT ![sessionFd] = TRUE]
      /\ sock' = [sock EXCEPT ![listenFd] = "closed"]
      /\ queue' = [queue EXCEPT ![listenFd] = <<>>]
    BY DEF StartThreadFails, Goto
<1>2. /\ listenFd \in Fds /\ sessionFd \in Fds /\ listenFd # sessionFd
      /\ InHand = {listenFd, sessionFd} /\ InHand' = {}
      /\ \A fd \in Fds : fd # sessionFd => worker'[fd] = worker[fd]
      /\ worker'[sessionFd]
      /\ \A fd \in Fds : fd # listenFd => sock'[fd] = sock[fd]
      /\ sock'[listenFd] = "closed"
    BY <1>1 DEF GInv, GatewayTyped, LoopHolds, InHand
<1>3. GatewayTyped'
  <2>1. \A fd \in Fds : queue'[fd] = <<>> \/ queue'[fd] = queue[fd]
      BY <1>1 DEF GInv, GatewayTyped
  <2>2. queue' \in [Fds -> Seq(Peers)]
      BY <1>1, <2>1 DEF GInv, GatewayTyped
  <2> QED
      BY <1>1, <2>2 DEF GInv, GatewayTyped
<1>4. LoopHolds'
    BY <1>1 DEF LoopHolds
<1>5. Owned'
    BY <1>2 DEF GInv, Owned
<1> QED
    BY <1>3, <1>4, <1>5 DEF GInv

LEMMA InlineReturnsStep == GInv /\ InlineReturns => GInv'
<1> SUFFICES ASSUME GInv, InlineReturns PROVE GInv'
    OBVIOUS
<1>1. /\ loop = "inline" /\ BindListenSocket /\ UNCHANGED <<queue, worker>>
      /\ loop' = "accept" /\ sessionFd' = listenFd' /\ workerMode' = TRUE
    BY DEF InlineReturns, NextPeer
<1>2. /\ listenFd' \in Fds /\ sock[listenFd'] = "closed"
      /\ sock' = [sock EXCEPT ![listenFd'] = "bound"]
    BY <1>1, BoundSocket
<1>3. InHand = {} /\ InHand' = {listenFd'}
    BY <1>1 DEF InHand
<1>4. sock'[listenFd'] = "bound" /\ \A fd \in Fds : fd # listenFd' => sock'[fd] = sock[fd]
    BY <1>2 DEF GInv, GatewayTyped
<1>5. GatewayTyped'
    BY <1>1, <1>2 DEF GInv, GatewayTyped
<1>6. LoopHolds'
    BY <1>1, <1>4 DEF LoopHolds
<1>7. Owned'
    BY <1>1, <1>2, <1>3, <1>4 DEF GInv, Owned
<1> QED
    BY <1>5, <1>6, <1>7 DEF GInv

LEMMA InlineReopenFailsStep == GInv /\ InlineReopenFails => GInv'
<1> SUFFICES ASSUME GInv, InlineReopenFails PROVE GInv'
    OBVIOUS
<1>1. /\ loop' = "accept" /\ sessionFd' = listenFd' /\ workerMode' = TRUE
      /\ listenFd' = Lowest(Fds)
      /\ sock' = [fd \in Fds |-> IF fd = listenFd' THEN "bound" ELSE "closed"]
      /\ queue' = [fd \in Fds |-> <<>>] /\ worker' = [fd \in Fds |-> FALSE]
    BY DEF InlineReopenFails, NextPeer
<1>2. listenFd' \in Fds
    BY <1>1, LowestIsOne, GatewayAssumption
<1>3. InHand' = {listenFd'}
    BY <1>1 DEF InHand
<1>4. GatewayTyped'
    BY <1>1, <1>2 DEF GatewayTyped
<1>5. LoopHolds'
    BY <1>1, <1>2 DEF LoopHolds
<1>6. Owned'
    BY <1>1, <1>2, <1>3 DEF Owned
<1> QED
    BY <1>4, <1>5, <1>6 DEF GInv

\* The sessions touch the sockets they read, which the loop does not hold.
LEMMA SessionStep == ASSUME GInv, NEW fd \in Fds, Session(fd) PROVE GInv'
<1>1. /\ worker[fd] /\ fd \notin InHand
      /\ UNCHANGED <<loop, listenFd, sessionFd, workerMode>>
    BY DEF Session, Read, End, runVars, GInv, Owned
<1>2. InHand' = InHand
    BY <1>1 DEF InHand
<1>3. loop \in {"accept", "reopen", "connect"} => fd # sessionFd
    BY <1>1 DEF InHand, GInv, LoopHolds
<1>4. loop \in {"accept", "reopen", "connect", "start"} => fd # listenFd
    BY <1>1 DEF InHand
<1>5. /\ queue' = [queue EXCEPT ![fd] = queue'[fd]]
      /\ queue'[fd] \in Seq(Peers)
  <2>1. CASE Read(fd)
    <3>1. /\ queue[fd] \in Seq(Peers) /\ queue[fd] # <<>>
          /\ queue' = [queue EXCEPT ![fd] = Tail(queue[fd])]
        BY <2>1 DEF Read, GInv, GatewayTyped
    <3>2. Tail(queue[fd]) \in Seq(Peers)
        BY <3>1
    <3> QED
        BY <3>1, <3>2 DEF GInv, GatewayTyped
  <2>2. CASE End(fd)
    <3>1. queue' = [queue EXCEPT ![fd] = <<>>] /\ <<>> \in Seq(Peers)
        BY <2>2 DEF End
    <3> QED
        BY <3>1 DEF GInv, GatewayTyped
  <2> QED
      BY <2>1, <2>2 DEF Session
<1>6. /\ queue' \in [Fds -> Seq(Peers)]
      /\ \A f \in Fds : f # fd => queue'[f] = queue[f]
    BY <1>5 DEF GInv, GatewayTyped
<1>7. CASE Read(fd)
  <2>1. UNCHANGED <<sock, worker>>
      BY <1>7 DEF Read
  <2> QED
      BY <1>1, <1>2, <1>3, <1>6, <2>1 DEF GInv, GatewayTyped, LoopHolds, Owned
<1>8. CASE End(fd)
  <2>1. /\ worker' = [worker EXCEPT ![fd] = FALSE]
        /\ sock' = [sock EXCEPT ![fd] = "closed"]
      BY <1>8 DEF End
  <2>2. /\ ~worker'[fd] /\ sock'[fd] = "closed"
        /\ \A f \in Fds : f # fd => worker'[f] = worker[f] /\ sock'[f] = sock[f]
      BY <2>1 DEF GInv, GatewayTyped
  <2>3. GatewayTyped'
      BY <1>1, <1>6, <2>1 DEF GInv, GatewayTyped
  <2>4. LoopHolds'
      BY <1>1, <1>3, <1>4, <1>6, <2>2 DEF GInv, GatewayTyped, LoopHolds
  <2>5. Owned'
      BY <1>1, <1>2, <2>2 DEF GInv, Owned
  <2> QED
      BY <2>3, <2>4, <2>5 DEF GInv
<1> QED
    BY <1>7, <1>8 DEF Session

LEMMA DeliverStep == ASSUME GInv, NEW p \in Peers, Deliver(p) PROVE GInv'
<1>1. UNCHANGED <<loop, listenFd, sessionFd, workerMode, sock, worker>>
    BY DEF Deliver, runVars
<1>2. PICK fd \in Fds : queue' = [queue EXCEPT ![fd] = Append(queue[fd], p)]
    BY DEF Deliver, Receivers
<1>3. queue[fd] \in Seq(Peers)
    BY DEF GInv, GatewayTyped
<1>4. Append(queue[fd], p) \in Seq(Peers) /\ Append(queue[fd], p) # <<>>
  <2>1. Append(queue[fd], p) \in Seq(Peers) /\ Len(Append(queue[fd], p)) = Len(queue[fd]) + 1
      BY <1>3
  <2>2. Len(queue[fd]) \in Nat /\ Len(<<>>) = 0
      BY <1>3
  <2> QED
      BY <2>1, <2>2
<1>5. /\ queue' \in [Fds -> Seq(Peers)]
      /\ \A f \in Fds : queue'[f] = queue[f] \/ queue'[f] # <<>>
    BY <1>2, <1>4 DEF GInv, GatewayTyped
<1>6. InHand' = InHand
    BY <1>1 DEF InHand
<1> QED
    BY <1>1, <1>5, <1>6 DEF GInv, GatewayTyped, LoopHolds, Owned

LEMMA GInvOwns == GInv => SocketsOwned
<1> SUFFICES ASSUME GInv PROVE SocketsOwned
    OBVIOUS
<1>1. InHand \subseteq Fds
    BY DEF InHand, GInv, GatewayTyped
<1>2. OpenSockets = ReadBySessions \union InHand
    BY <1>1 DEF GInv, Owned, OpenSockets, IsClosed, ReadBySessions
<1>3. ReadBySessions \intersect InHand = {}
    BY DEF GInv, Owned, ReadBySessions
<1>4. loop = "accept" => sock[listenFd] = "bound"
    BY DEF GInv, LoopHolds
<1> QED
    BY <1>2, <1>3, <1>4 DEF SocketsOwned

\* The gateway leaks no socket and closes none that is in use: each open one is
\* read by just one session or in the hands of the accept loop, which waits on
\* a socket that hears every peer; with any number of descriptors, sessions in
\* threads or in the loop, failing calls and reused descriptors.
THEOREM SocketsOwnedHolds == UplinkSpec => []SocketsOwned
<1>1. UplinkInit => GInv
    BY InitGInv DEF UplinkInit
<1>2. GInv /\ UInv /\ [UplinkNext]_uplinkVars => GInv'
  <2> SUFFICES ASSUME GInv, UInv, [UplinkNext]_uplinkVars PROVE GInv'
      OBVIOUS
  <2>1. CASE Run
      BY <2>1, AcceptStep, ReopenStep, ReopenFailsStep, ConnectPeerStep,
         ConnectPeerFailsStep, StartSessionStep, StartThreadFailsStep,
         InlineReturnsStep, InlineReopenFailsStep DEF Run
  <2>2. CASE \E fd \in Fds : Session(fd)
      BY <2>2, SessionStep
  <2>3. CASE \E p \in Peers : Deliver(p)
      BY <2>3, DeliverStep
  <2>4. CASE SendOk /\ Deliver(udp.sock)
    <3>1. udp.sock \in Peers
        BY <2>4, UplinkAssumption DEF SendOk, UInv, UdpTyped, LossNoted
    <3> QED
        BY <2>4, <3>1, DeliverStep
  <2>5. CASE UNCHANGED gatewayVars
      BY <2>5 DEF gatewayVars, runVars, GInv, GatewayTyped, LoopHolds, Owned, InHand
  <2> QED
      BY <2>1, <2>2, <2>3, <2>4, <2>5
      DEF UplinkNext, uplinkVars, Esp32, Transmit, Straggler, Gateway, GatewayNext
<1> QED
    BY <1>1, <1>2, UInvHolds, GInvOwns, PTL DEF UplinkSpec
=============================================================================
