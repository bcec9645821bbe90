CONSTANTS
    allow = allow
    mode = mode
    a = a
    b = b
    v1 = v1
    v2 = v2
    Unknown = Unknown
    Lists = {allow}
    Scalars = {mode}
    Entries = {a, b}
    Versions = {v1, v2}
    MaxCrashes = 0
SPECIFICATION Spec
INVARIANT RevokedNext
SYMMETRY Symmetry
