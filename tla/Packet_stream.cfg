\* Packets of 2, 3, 5 and 6 bytes, a buffer of 3, and a connection that holds 5.
CONSTANTS
    p1 = p1
    p2 = p2
    p3 = p3
    p4 = p4
    Packets <- MCPackets
    Payload <- MCPayload
    Header = 2
    BufferSize = 3
    Window = 5
SPECIFICATION FairSpec
INVARIANTS TypeOK NotDropped NothingLeft
PROPERTIES ImplementsChannel
CHECK_DEADLOCK FALSE
