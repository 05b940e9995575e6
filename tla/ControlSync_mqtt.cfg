\* The MQTT path at its worst: publishes out of order or failed, acks committed by
\* the paho thread beside others over HTTP, delivered again and overtaking one another,
\* and polls answered late.  No app watches.
SPECIFICATION Spec
CONSTANTS
    Requests = {r1, r2}
    Ackers = {a1}
    Sockets = {}
    Watchers = {}
    Broker = Broker
    Controls = {on, off}
    AckSources = {"mqtt", "http"}
    MaxAcks = 2
    MayBlock = FALSE
    DuplicateSend = FALSE
    Polling = TRUE
    MqttEnabled = TRUE
    PublishMayFail = TRUE
    NoTask = NoTask
    Accepting = Accepting
    None = None
SYMMETRY Symmetry
INVARIANTS AckedWasActuated NoTornCommand
PROPERTIES ImplementsRegister RevisionsOnlyGrow
CHECK_DEADLOCK FALSE
