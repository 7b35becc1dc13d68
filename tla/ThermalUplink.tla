---------------------------- MODULE ThermalUplink ----------------------------
(***************************************************************************)
(* The way of the thermal chunks to the server: the ESP32's UDP stream     *)
(* (UdpStream), a network that loses, repeats and delays datagrams, and    *)
(* the gateway (DtlsGateway).  When the ESP32 opens another socket, the    *)
(* gateway meets another peer.                                             *)
(***************************************************************************)
EXTENDS UdpStream, DtlsGateway

ASSUME UplinkAssumption == Addresses \subseteq Peers

uplinkVars == <<udpVars, gatewayVars>>

UplinkInit == UdpInit /\ GatewayInit

\* A chunk is sent, and received or lost.
Transmit ==
    /\ SendOk
    /\ Deliver(udp.sock) \/ UNCHANGED gatewayVars

\* A datagram of an earlier socket or of another device is received.
Straggler ==
    /\ \E p \in Peers : Deliver(p)
    /\ UNCHANGED udpVars

Esp32 == (UdpNext /\ UNCHANGED gatewayVars) \/ Transmit

Gateway == GatewayNext /\ UNCHANGED udpVars

UplinkNext == Esp32 \/ Straggler \/ Gateway

\* lwIP's calls return and times come; the gateway's accept loop is scheduled.
\* Nothing is assumed of its sessions, nor of the network.
UplinkSpec ==
    /\ UplinkInit /\ [][UplinkNext]_uplinkVars
    /\ WF_uplinkVars((InSend /\ UNCHANGED gatewayVars) \/ Transmit)
    /\ \A t \in TimeStamps : WF_uplinkVars(TimeComes(t) /\ UNCHANGED gatewayVars)
    /\ WF_uplinkVars(Run /\ UNCHANGED udpVars)
=============================================================================
