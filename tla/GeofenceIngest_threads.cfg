\* Ingests of all three kinds overlap while the geofence and the tracker are deleted.
SPECIFICATION FairSpec
CONSTANTS
    h1 = h1  h2 = h2
    u1 = u1  u2 = u2
    home = home  depot = depot
    near = near  far = far
    Handlers = {h1, h2}
    Vias = {"http", "ws", "mqtt"}
    Users = {u1}
    Fences = {home}
    Owner <- OneOwner
    Fixes = {near, far}
    Areas <- OnlyNear
    Edits = {"delete", "unlink"}
    RoomMayChange = TRUE
    MaxSends = 3
    NoHandler = NoHandler
INVARIANTS RunsBounded
PROPERTIES IngestsEnd
CHECK_DEADLOCK FALSE
