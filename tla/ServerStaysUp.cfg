CONSTANTS
    ann = ann
    bob = bob
    ann1 = ann1
    ann2 = ann2
    bob1 = bob1
    Servers = {0}
    Users = {ann}
    Sessions = {ann1, ann2}
    UserOf <- AnnDevices
    NoSession = NoSession
    Contacts <- NoOne
    Askers = {}
    MaxMessages = 0
    Overlap = TRUE
SPECIFICATION Spec
CHECK_DEADLOCK FALSE
INVARIANTS
    ServersStayUp
