\* Two installers, three clients, two ports in the range, the shared port moved once.
SPECIFICATION Spec
CONSTANTS
    i1 = i1
    i2 = i2
    cursor = cursor
    antigravity = antigravity
    manual = manual
    alpha = alpha
    None = None
    Installers = {i1, i2}
    Targets = {cursor, antigravity, manual}
    Projects = {alpha}
    FirstPort = 1
    LastPort = 4
    RangeSize = 2
    MaxInstalls = 3
    MaxMoves = 1
    MaxFailures = 1
SYMMETRY Interchangeable
INVARIANTS TypeOK MapSound RightIdentity
PROPERTIES ReloadDisturbsOnlyChanged ReloadConverges
