SPECIFICATION ContentSpec
CONSTANTS
    d1 = d1
    d2 = d2
    e1 = e1
    trackD = trackD
    trackE = trackE
    Node = {n1}
    Track = {trackD, trackE}
    Data = {d1, d2, e1}
    TrackOf <- MCTrackOf
    Size <- MCSize
    Quota = 3
    Call = {c1, c2}
    MaxCalls = 2
    MaxRestarts = 0
INVARIANT QuotaKept
CHECK_DEADLOCK FALSE
