SPECIFICATION FairSpec
CONSTANTS
    OutboundStreams <- MCOutboundStreams
    InboundStreams <- MCInboundStreams
    MaxInitRetrans = 1
    MaxPending = 1
    MaxFaults = 1
INVARIANTS
    StreamAgreement
    NoHalfOpenClient
    TimersArmed
PROPERTIES
    ClosedClientNeverConnects
    HandshakeEnds
CHECK_DEADLOCK FALSE
