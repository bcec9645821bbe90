\* Two launchers at once, a new version that does not come up.
SPECIFICATION Spec
CONSTANTS
    l1 = l1
    l2 = l2
    Launchers = {l1, l2}
    Bad <- BadVersion
    MaxVersion = 1
SYMMETRY LauncherSymmetry
INVARIANTS NeverTreeless
