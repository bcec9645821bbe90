\* Two launchers, three pid numbers, three commands.
SPECIFICATION Spec
CONSTANTS
    l1 = l1
    l2 = l2
    p1 = p1
    p2 = p2
    p3 = p3
    NoPid = NoPid
    Launchers = {l1, l2}
    Pids = {p1, p2, p3}
    Faults = {"crash", "timeout", "uncertified"}
    MaxCommands = 3
SYMMETRY Interchangeable
INVARIANTS TypeOK QuietWorks QuietOutcome
PROPERTIES ReapSparesForeign
