\* A session of this device and one of another, one pid number, two daemon
\* lives, two launches, two signals, a disk that may fail, fair daemon.
SPECIFICATION FairSpec
CONSTANTS
    s1 = s1
    s2 = s2
    r1 = r1
    p1 = p1
    p2 = p2
    NoPid = NoPid
    Sessions = {s1, r1}
    Remote = {r1}
    Pids = {p1}
    DiskFaults = TRUE
    MaxBoots = 2
    MaxLaunches = 2
    MaxSignals = 2
INVARIANTS OwnDeviceOnly
PROPERTIES BootEnds DeadIsDropped
