\* One update while the tracker connects: its broadcast and the welcome wait for the
\* same socket.
SPECIFICATION Spec
CONSTANTS
    Requests = {r1}
    Ackers = {a1}
    Sockets = {s1}
    Watchers = {}
    Broker = Broker
    Controls = {on}
    AckSources = {"http"}
    MaxAcks = 1
    MayBlock = TRUE
    DuplicateSend = FALSE
    Polling = FALSE
    MqttEnabled = FALSE
    PublishMayFail = FALSE
    NoTask = NoTask
    Accepting = Accepting
    None = None
SYMMETRY Symmetry
INVARIANTS DeviceUpToDate
CHECK_DEADLOCK FALSE
