\* The WebSocket path at its worst: sends that suspend, duplicate sends, a tracker
\* that reconnects while its last socket is still in the room, an app that comes and
\* goes, acks on the socket.
SPECIFICATION Spec
CONSTANTS
    Requests = {r1}
    Ackers = {a1}
    Sockets = {s1, s2}
    Watchers = {w1}
    Broker = Broker
    Controls = {on, off}
    AckSources = {s1, s2}
    MaxAcks = 1
    MayBlock = TRUE
    DuplicateSend = TRUE
    Polling = FALSE
    MqttEnabled = FALSE
    PublishMayFail = FALSE
    NoTask = NoTask
    Accepting = Accepting
    None = None
SYMMETRY Symmetry
INVARIANTS TypeOK NoTornCommand LiveConnectionsHear  AppShowsOnlyActuated AppShowsLatest
CHECK_DEADLOCK FALSE
