SPECIFICATION FairSessionSpec
CONSTANTS
    SubKey = {k1}
    Creator = k1
    Request = {r1, r2}
    Command = {c1}
    Ops = {"postCommand", "pullCommands"}
    Poller = {k1}
    MaxSession = 0
    MaxBlob = 0
    Retention = 1
    Lossy = TRUE
PROPERTIES
    NextTickRetries
