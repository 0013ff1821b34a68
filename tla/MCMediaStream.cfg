CONSTANTS
    Half = 6
    MaxRollover = 1
    FirstNumbers = {1, 8}
    Gaps = {1, 2}
    HistorySize = 5
    TsMod = 32
    Latency = 1
    BufferSize = 2
    LostSize = 2
    RetryCount = 1
    WideMod = 12
    MaxSpan = 3
    MaxBuffered = 2
    TsStart = 16
    WideStart = 9
    MaxSends = 5
    MaxFaults = 1
    MaxDelay = 3
SPECIFICATION MediaSpec
INVARIANTS
    EncryptedAtIndex
    InStep
    PlayedRight
    ReceptionReported
PROPERTIES
    RequestsEnd
CHECK_DEADLOCK FALSE
