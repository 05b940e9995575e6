\* Two ingests of one tracker in two threads.
SPECIFICATION Spec
CONSTANTS
    h1 = h1  h2 = h2
    u1 = u1  u2 = u2
    home = home  depot = depot
    near = near  far = far
    Handlers = {h1, h2}
    Vias = {"ws", "mqtt"}
    Users = {u1}
    Fences = {home}
    Owner <- OneOwner
    Fixes = {near, far}
    Areas <- OnlyNear
    Edits = {}
    RoomMayChange = FALSE
    MaxSends = 2
    NoHandler = NoHandler
SYMMETRY Symmetry
INVARIANTS
    Alternates
CHECK_DEADLOCK FALSE
