CONSTANTS
    Users = {ann, bob, cat}
    Names = {g, h}
    NoName = NoName
    MaxGroups = 2
    MaxCommands = 5
SPECIFICATION Spec
CHECK_DEADLOCK FALSE
SYMMETRY AnyOrder
INVARIANTS
    TypeOK
    ReceiversBelong
    GroupAgrees
    AdminsAreAdmins
