SPECIFICATION FairSpec
CONSTANTS
    SubKey = {k1, k2, k3}
    Creator = k1
    NoKey = NoKey
    Call = {c1, c2}
    Lossy = FALSE
PROPERTIES SomeUpdateWins
