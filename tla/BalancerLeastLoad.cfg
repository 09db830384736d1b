CONSTANTS
    N = 3
    Clients = {c1, c2, c3, c4}
    Users = {ann, bob}
    Passwords = {p}
    Algorithm = "least-load"
    MaxOutstanding = 2
    Logouts = FALSE
SPECIFICATION Spec
CHECK_DEADLOCK FALSE
SYMMETRY AnyOrder
INVARIANTS
    SpreadWithinOutstanding
