\* Two updates whose publishes run in two pool threads; the broker never fails.
SPECIFICATION Spec
CONSTANTS
    Requests = {r1, r2}
    Ackers = {a1}
    Sockets = {}
    Watchers = {}
    Broker = Broker
    Controls = {on}
    AckSources = {"mqtt"}
    MaxAcks = 1
    MayBlock = FALSE
    DuplicateSend = FALSE
    Polling = FALSE
    MqttEnabled = TRUE
    PublishMayFail = FALSE
    NoTask = NoTask
    Accepting = Accepting
    None = None
SYMMETRY Symmetry
INVARIANTS RetainedIsLatest
CHECK_DEADLOCK FALSE
