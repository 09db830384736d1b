CONSTANTS
    ann = ann
    bob = bob
    ann1 = ann1
    ann2 = ann2
    bob1 = bob1
    Servers = {0, 1}
    Users = {ann, bob}
    Sessions = {ann1, ann2, bob1}
    UserOf <- AnnTwice
    NoSession = NoSession
    Contacts <- BobToAnn
    Askers = {}
    MaxMessages = 2
    Overlap = FALSE
SPECIFICATION Spec
CHECK_DEADLOCK FALSE
SYMMETRY AnnSessions
INVARIANTS
    TypeOK
    DeliveredToAddressee
    LoginProtocol
    LoadAccounting
PROPERTIES
    RowsWrittenBeforeDeleted
    ImplementsDelivery
