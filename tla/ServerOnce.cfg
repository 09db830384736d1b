CONSTANTS
    ann = ann
    bob = bob
    ann1 = ann1
    ann2 = ann2
    bob1 = bob1
    Servers = {0, 1}
    Users = {ann, bob}
    Sessions = {ann1, bob1}
    UserOf <- OneEach
    NoSession = NoSession
    Contacts <- Both
    Askers = {ann, bob}
    MaxMessages = 2
    Overlap = FALSE
SPECIFICATION FairSpec
CHECK_DEADLOCK FALSE
INVARIANTS
    OneCopy
    OrderedForFirstLogin
    KnowsFirstLogin
PROPERTIES
    HandlersFinish
    LoginCompletes
    ClosedLinksEnd
    EndsForAReason
    MessagesComeToRest
