\* One command at a time; four versions of which two do not come up.
SPECIFICATION Spec
CONSTANTS
    l1 = l1
    l2 = l2
    Launchers = {l1}
    Bad <- BadVersions
    MaxVersion = 3
INVARIANTS TypeOK Restorable MarkerMeans Coherent
PROPERTIES NeverProxyless UpdatedIsInstalled AppliesAtomically
