SPECIFICATION RestartSpec
CONSTANTS
    SubKey = {k1, k2}
    Creator = k1
    NoKey = NoKey
    Call = {c1, c2}
    Lossy = FALSE
INVARIANTS RevokedStaysOut
