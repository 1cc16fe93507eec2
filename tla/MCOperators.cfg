SPECIFICATION Spec
CONSTANTS
    CHUNK_SIZE = 3
    Width = 5
    NoChunk = NoChunk
    NoValue = NoValue
    Base = 8
    MaxSize = 11
    MaxShared = 7
INVARIANTS
    AvailabilityExact
    ReadBackExact
    RangeHeaderExact
    StreamsKeepValue
    MessagesArrive
    
