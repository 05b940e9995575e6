\* Two registrations at once; no file fails and nothing crashes.
SPECIFICATION Spec
CONSTANTS
    d1 = d1  d2 = d2
    Devices = {d1, d2}
    Users = {u1}
    Registrations = {g1, g2}
    MayFail = FALSE
    MaxLives <- TwoAndOne
    MaxResets <- TwoAndNone
    None = None
SYMMETRY Symmetry
INVARIANTS BlocksKept
CHECK_DEADLOCK FALSE
