\* Two starts at once, nothing else goes wrong.
SPECIFICATION Spec
CONSTANTS
    l1 = l1
    l2 = l2
    p1 = p1
    p2 = p2
    p3 = p3
    NoPid = NoPid
    Launchers = {l1, l2}
    Pids = {p1, p2, p3}
    Faults = {}
    MaxCommands = 2
SYMMETRY Interchangeable
INVARIANT SomeStartWorks
