CONSTANTS
    ann = ann
    Ann = Ann
    bob = bob
    Clients = {c1, c2}
    Names = {ann, Ann}
    Lower <- InLower
    Passwords = {p}
    MaxAttempts = 2
    OldKey = OldKey
    None = None
SPECIFICATION Spec
CHECK_DEADLOCK FALSE
SYMMETRY AnyOrder
PROPERTIES
    HistoryKept
