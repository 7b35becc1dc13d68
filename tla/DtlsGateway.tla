----------------------------- MODULE DtlsGateway -----------------------------
(***************************************************************************)
(* The thermal DTLS gateway (thermal_dtls_gateway/src/dtls_gateway.cpp):   *)
(* the socket on which a new peer was heard is connected to that peer and  *)
(* handed to a session, and another socket is bound to the port in its     *)
(* place.  A session runs in a thread of its own, or, when no socket or no *)
(* thread can be had, within the accept loop.                              *)
(*                                                                         *)
(* A datagram is the address it comes from.  Whether it holds a thermal    *)
(* chunk or a DTLS record decides which kind of session reads it, and what *)
(* a session does with it is to forward it or to drop it: both kinds treat *)
(* their socket alike and are one here.  Cookie exchange is off, as        *)
(* deployed.                                                               *)
(***************************************************************************)
EXTENDS Naturals, Sequences

CONSTANTS
    Peers,          \* addresses datagrams come from
    Fds,            \* file descriptors the process may use for its port
    MaxQueue        \* bound: datagrams a socket's receive buffer takes

ASSUME GatewayAssumption ==
    /\ "closed" \notin Peers /\ "bound" \notin Peers
    /\ Fds \subseteq Nat /\ Fds # {} /\ MaxQueue \in Nat \ {0}

VARIABLES
    roomy,          \* are there always a socket and a thread to be had?
    loop,           \* where run() is
    listenFd, sessionFd, workerMode,
    sock,           \* "closed", "bound" to the port, or connected to a peer
    queue,          \* what is in each socket's receive buffer
    worker          \* does a session read the socket?

runVars == <<loop, listenFd, sessionFd, workerMode>>
gatewayVars == <<roomy, runVars, sock, queue, worker>>

GatewayTypeOK ==
    /\ roomy \in BOOLEAN /\ workerMode \in BOOLEAN
    /\ loop \in {"accept", "reopen", "connect", "start", "inline"}
    /\ listenFd \in Fds /\ sessionFd \in Fds
    /\ sock \in [Fds -> Peers \union {"closed", "bound"}]
    /\ queue \in [Fds -> Seq(Peers)]
    /\ worker \in [Fds -> BOOLEAN]

Lowest(fds) == CHOOSE fd \in fds : \A f \in fds : fd <= f

\* init() binds the first socket.
GatewayInit ==
    /\ roomy \in BOOLEAN
    /\ loop = "accept" /\ workerMode = TRUE
    /\ listenFd = Lowest(Fds) /\ sessionFd = listenFd
    /\ sock = [fd \in Fds |-> IF fd = listenFd THEN "bound" ELSE "closed"]
    /\ queue = [fd \in Fds |-> <<>>] /\ worker = [fd \in Fds |-> FALSE]

IsClosed(fd) == sock[fd] = "closed"
OpenSockets == {fd \in Fds : ~IsClosed(fd)}

\* bindUdpSocket: the system gives the lowest free descriptor.
BindListenSocket ==
    /\ OpenSockets # Fds
    /\ listenFd' = Lowest(Fds \ OpenSockets)
    /\ sock' = [sock EXCEPT ![listenFd'] = "bound"]

-----------------------------------------------------------------------------
(* run().                                                                  *)

Goto(l) == loop' = l

\* The top of the loop takes the listening socket for the next session.
NextPeer == loop' = "accept" /\ sessionFd' = listenFd' /\ workerMode' = TRUE

\* waitForPeerDatagram sees the first datagram and leaves it where it is.
Accept ==
    /\ loop = "accept" /\ queue[listenFd] # <<>>
    /\ Goto("reopen")
    /\ UNCHANGED <<roomy, listenFd, sessionFd, workerMode, sock, queue, worker>>

\* reopenListenSocket: a socket of its own for the next peer.
Reopen ==
    /\ loop = "reopen" /\ Goto("connect")
    /\ BindListenSocket
    /\ UNCHANGED <<roomy, sessionFd, workerMode, queue, worker>>

ReopenFails ==
    /\ loop = "reopen" /\ Goto("connect")
    /\ roomy => OpenSockets = Fds
    /\ workerMode' = FALSE
    /\ UNCHANGED <<roomy, listenFd, sessionFd, sock, queue, worker>>

\* The socket takes datagrams of this peer only from now on; those it has
\* already taken stay in its buffer.
ConnectPeer ==
    /\ loop = "connect" /\ Goto("start")
    /\ sock' = [sock EXCEPT ![sessionFd] = Head(queue[sessionFd])]
    /\ UNCHANGED <<roomy, listenFd, sessionFd, workerMode, queue, worker>>

\* Mutant: the socket is left to itself.
ConnectPeerFails_leaks ==
    /\ loop = "connect"
    /\ UNCHANGED <<roomy, listenFd, sock, queue, worker>>
    /\ NextPeer

\* The socket is closed, unless it is still the one that listens.
ConnectPeerFails ==
    /\ loop = "connect"
    /\ sock' = [sock EXCEPT ![sessionFd] = IF workerMode THEN "closed" ELSE "bound"]
    /\ queue' = [queue EXCEPT ![sessionFd] = IF workerMode THEN <<>> ELSE @]
    /\ UNCHANGED <<roomy, listenFd, worker>>
    /\ NextPeer

\* inspectConnectedPeerDatagram has chosen the kind of session.
StartSession ==
    /\ loop = "start"
    /\ worker' = [worker EXCEPT ![sessionFd] = TRUE]
    /\ UNCHANGED <<roomy, listenFd, sock, queue>>
    /\ \/ workerMode /\ NextPeer
       \/ ~workerMode /\ Goto("inline") /\ UNCHANGED <<sessionFd, workerMode>>

\* Mutant: the replacement is not closed.
StartThreadFails_leaks ==
    /\ loop = "start" /\ workerMode /\ ~roomy /\ Goto("inline")
    /\ worker' = [worker EXCEPT ![sessionFd] = TRUE]
    /\ listenFd' = sessionFd
    /\ UNCHANGED <<roomy, sessionFd, workerMode, sock, queue>>

\* No thread can be had: the replacement is closed and the session runs here.
StartThreadFails ==
    /\ loop = "start" /\ workerMode /\ ~roomy /\ Goto("inline")
    /\ worker' = [worker EXCEPT ![sessionFd] = TRUE]
    /\ sock' = [sock EXCEPT ![listenFd] = "closed"]
    /\ queue' = [queue EXCEPT ![listenFd] = <<>>]
    /\ listenFd' = sessionFd
    /\ UNCHANGED <<roomy, sessionFd, workerMode>>

\* The session that ran here has closed its socket.
InlineReturns ==
    /\ loop = "inline" /\ ~worker[sessionFd]
    /\ BindListenSocket /\ NextPeer
    /\ UNCHANGED <<roomy, queue, worker>>

\* Nothing catches the exception of this reopenListenSocket but main: the
\* process exits and the cluster starts it again.
InlineReopenFails ==
    /\ loop = "inline" /\ ~worker[sessionFd] /\ ~roomy
    /\ listenFd' = Lowest(Fds) /\ NextPeer
    /\ sock' = [fd \in Fds |-> IF fd = listenFd' THEN "bound" ELSE "closed"]
    /\ queue' = [fd \in Fds |-> <<>>] /\ worker' = [fd \in Fds |-> FALSE]
    /\ UNCHANGED roomy

-----------------------------------------------------------------------------
(* The sessions: runRawSessionWorker and runSessionWorker.                 *)

\* One turn of the session's loop, or of SSL_accept.
Read(fd) ==
    /\ worker[fd] /\ queue[fd] # <<>>
    /\ queue' = [queue EXCEPT ![fd] = Tail(@)]
    /\ UNCHANGED <<roomy, runVars, sock, worker>>

\* The session ends: nothing came for its time-out, the handshake failed, the
\* peer closed it or the socket reports an error.
End(fd) ==
    /\ worker[fd]
    /\ worker' = [worker EXCEPT ![fd] = FALSE]
    /\ sock' = [sock EXCEPT ![fd] = "closed"]
    /\ queue' = [queue EXCEPT ![fd] = <<>>]
    /\ UNCHANGED <<roomy, runVars>>

-----------------------------------------------------------------------------
\* The system hands a datagram to a socket connected to its sender, else to
\* one of those bound to the port (SO_REUSEPORT), else to none.
Receivers(p) ==
    LET own == {fd \in Fds : sock[fd] = p}
    IN IF own # {} THEN own ELSE {fd \in Fds : sock[fd] = "bound"}

Deliver(p) ==
    /\ \E fd \in Receivers(p) :
           Len(queue[fd]) < MaxQueue /\ queue' = [queue EXCEPT ![fd] = Append(@, p)]
    /\ UNCHANGED <<roomy, runVars, sock, worker>>

-----------------------------------------------------------------------------
Run == \/ Accept \/ Reopen \/ ReopenFails \/ ConnectPeer \/ ConnectPeerFails
       \/ StartSession \/ StartThreadFails \/ InlineReturns \/ InlineReopenFails

Session(fd) == Read(fd) \/ End(fd)

GatewayNext == Run \/ \E fd \in Fds : Session(fd)

-----------------------------------------------------------------------------
ReadBySessions == {fd \in Fds : worker[fd]}
InHand == CASE loop = "inline" -> {}
            [] loop \in {"connect", "start"} -> {listenFd, sessionFd}
            [] OTHER -> {listenFd}

\* Every open socket is read by just one session or is in the hands of the
\* accept loop, and the loop waits on a socket that hears everyone: none is
\* leaked, none is closed under another's hands, although descriptors are
\* reused and sessions move into the loop and out of it.
SocketsOwned ==
    /\ OpenSockets = ReadBySessions \union InHand
    /\ ReadBySessions \intersect InHand = {}
    /\ loop = "accept" => sock[listenFd] = "bound"

\* A datagram of a new peer is seen: the socket it is in is soon read by a
\* session, or closed because it could not be connected, unless there is no
\* descriptor left.  A socket bound to the port that nobody reads would
\* swallow the datagrams it is given.
DatagramHeard ==
    \A fd \in Fds : roomy /\ sock[fd] = "bound" /\ queue[fd] # <<>>
                        ~> worker[fd] \/ IsClosed(fd) \/ OpenSockets = Fds
=============================================================================
