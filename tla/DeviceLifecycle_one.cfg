\* One registration at a time, two trackers, one deleted and registered again; files
\* fail, the server crashes, acks are lost, repeated and late.
SPECIFICATION FairSpec
CONSTANTS
    d1 = d1  d2 = d2
    Devices = {d1, d2}
    Users = {u1}
    Registrations = {g1}
    MayFail = TRUE
    MaxLives <- TwoAndOne
    MaxResets <- TwoAndNone
    None = None
INVARIANTS TypeOK BlocksKept AppliedWasObeyed
PROPERTIES TokensOnlyGrow ResetsEnd
CHECK_DEADLOCK FALSE
