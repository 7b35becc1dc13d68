SPECIFICATION UplinkSpec
CONSTANTS
    Peers <- MCPeers
    Addresses <- MCPeers
    Fds <- MCFds
    MaxQueue = 1
    RetryCount = 2
INVARIANTS
    NoStaleSend
    SocketsOwned
PROPERTIES
    EverySendEnds
    DatagramHeard
