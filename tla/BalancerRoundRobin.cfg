CONSTANTS
    N = 2
    Clients = {c1, c2, c3}
    Users = {ann}
    Passwords = {p, q}
    Algorithm = "round-robin"
    MaxOutstanding = 2
    Logouts = TRUE
SPECIFICATION FairSpec
CHECK_DEADLOCK FALSE
INVARIANTS
    TypeOK
    UniqueUsernames
    AddressOnlyToAccounts
    RoundRobinEven
PROPERTIES
    RequestAnswered
