CONSTANTS
    ann = ann
    Ann = Ann
    bob = bob
    Clients = {c1, c2, c3}
    Names = {ann, Ann, bob}
    Lower <- InLower
    Passwords = {p, q}
    MaxAttempts = 3
    OldKey = OldKey
    None = None
SPECIFICATION Spec
CHECK_DEADLOCK FALSE
SYMMETRY AnyOrder
INVARIANTS
    TypeOK
    OpensOwnMail
    HistoryReadable
    AccountUsable
