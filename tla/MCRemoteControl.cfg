SPECIFICATION FairSessionSpec
CONSTANTS
    SubKey = {k1, k2}
    Creator = k1
    Request = {r1, r2}
    Command = {c1, c2}
    Ops = {"postCommand", "pullCommands"}
    Poller = {k1, k2}
    MaxSession = 0
    MaxBlob = 0
    Retention = 1
    Lossy = TRUE
INVARIANTS
    GivenInOrder
    EachInOnePlace
PROPERTIES
    CommandArrives
    ImplementsMailbox
