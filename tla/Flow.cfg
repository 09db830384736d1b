CONSTANTS
    ann = ann
    bob = bob
    cat = cat
    Servers = {0, 1}
    Clients = {ann, bob, cat}
    Home <- HomeOf
    Capacity = 2
    Scenarios <- OneOfTwo
SPECIFICATION FairSpec
CHECK_DEADLOCK FALSE
INVARIANTS
    TypeOK
    ReadersAreFed
    OnlyWritesBlock
PROPERTIES
    EverythingArrives
