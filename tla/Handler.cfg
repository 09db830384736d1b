CONSTANTS
    Programs = {"server", "client"}
    LoginReads = 2
    PartialSend = TRUE
    Sizes = {1, 2}
    HeaderSize = 1
    MaxRecv = 6
    MaxWrites = 4
SPECIFICATION FairSpec
CHECK_DEADLOCK FALSE
INVARIANTS
    TypeOK
    Aligned
PROPERTIES
    ChannelSpec
    EventuallyDelivered
