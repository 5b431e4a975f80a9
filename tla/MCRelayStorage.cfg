SPECIFICATION SessionSpec
CONSTANTS
    SubKey = {k1, k2}
    Creator = k1
    Request = {r1, r2}
    Command = {c1, c2}
    Ops = {"putSession", "getSession", "putState", "getState"}
    Poller = {}
    MaxSession = 2
    MaxBlob = 2
    Retention = 1
    Lossy = TRUE
SYMMETRY MCSymmetry
INVARIANTS
    SessionTypeOK
    RevokedLockedOut
    OneWriterPerVersion
    ReadsAreFresh
