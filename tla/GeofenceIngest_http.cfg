\* Every fix over HTTP; two users' geofences are edited between ingests, and rooms change under
\* the broadcasts.
SPECIFICATION Spec
CONSTANTS
    h1 = h1  h2 = h2
    u1 = u1  u2 = u2
    home = home  depot = depot
    near = near  far = far
    Handlers = {h1, h2}
    Vias = {"http"}
    Users = {u1, u2}
    Fences = {home, depot}
    Owner <- TwoOwners
    Fixes = {near, far}
    Areas <- NearOrFar
    Edits = {"create", "update", "delete"}
    RoomMayChange = TRUE
    MaxSends = 3
    NoHandler = NoHandler
SYMMETRY Symmetry
INVARIANTS
    TypeOK
    Alternates
    InStep
    BreachesAnnounced
    StoredIsPushed
CHECK_DEADLOCK FALSE
