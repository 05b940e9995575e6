\* The broadcast of an update waits on a full buffer while its ack comes back.
SPECIFICATION Spec
CONSTANTS
    Requests = {r1}
    Ackers = {a1}
    Sockets = {s1}
    Watchers = {w1}
    Broker = Broker
    Controls = {on}
    AckSources = {s1, "http"}
    MaxAcks = 1
    MayBlock = TRUE
    DuplicateSend = FALSE
    Polling = FALSE
    MqttEnabled = FALSE
    PublishMayFail = FALSE
    NoTask = NoTask
    Accepting = Accepting
    None = None
SYMMETRY Symmetry
INVARIANTS AppDoesNotStayPend
CHECK_DEADLOCK FALSE
