\* Two lanes of this device, two pid numbers, two daemon lives.
SPECIFICATION Spec
CONSTANTS
    s1 = s1
    s2 = s2
    r1 = r1
    p1 = p1
    p2 = p2
    NoPid = NoPid
    Sessions = {s1, s2}
    Remote = {}
    Pids = {p1, p2}
    DiskFaults = FALSE
    MaxBoots = 2
    MaxLaunches = 2
    MaxSignals = 1
SYMMETRY LaneSymmetry
INVARIANTS TypeOK TimersMatchStore MirrorCovers
PROPERTIES PauseOnlyWhenGone ReviveComplete
