\* Two commands, a tracker that polls, acks and reconnects.
SPECIFICATION FairSpec
CONSTANTS
    Requests = {r1, r2}
    Ackers = {a1}
    Sockets = {s1}
    Watchers = {}
    Broker = Broker
    Controls = {on}
    AckSources = {s1, "http"}
    MaxAcks = 1
    MayBlock = FALSE
    DuplicateSend = FALSE
    Polling = TRUE
    MqttEnabled = FALSE
    PublishMayFail = FALSE
    NoTask = NoTask
    Accepting = Accepting
    None = None
PROPERTIES EventuallyConfirmed
CHECK_DEADLOCK FALSE
