SPECIFICATION ContentSpec
CONSTANTS
    d1 = d1
    d2 = d2
    e1 = e1
    trackD = trackD
    trackE = trackE
    Node = {n1, n2}
    Track = {trackD, trackE}
    Data = {d1, d2, e1}
    TrackOf <- MCTrackOf
    Size <- MCSize
    Quota = 3
    Call = {c1, c2}
    MaxCalls = 3
    MaxRestarts = 0
INVARIANT FetchedWhole
CHECK_DEADLOCK FALSE
