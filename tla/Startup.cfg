CONSTANTS
    N = 4
    MayFail <- AnyMayFail
    NoServer = NoServer
SPECIFICATION FairSpec
CHECK_DEADLOCK FALSE
INVARIANTS
    TypeOK
    NoLinkForgotten
    SurvivorsConnected
PROPERTIES
    Settles
