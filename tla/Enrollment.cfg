\* Two launchers, two tabs, two tenants, three setup daemons, two faults.
SPECIFICATION Spec
CONSTANTS
    l1 = l1
    l2 = l2
    t1 = t1
    t2 = t2
    a = a
    b = b
    Nobody = Nobody
    Launchers = {l1, l2}
    Tabs = {t1, t2}
    Tenants = {a, b}
    MaxSessions = 3
    MaxAttempts = 3
    MaxFaults = 2
SYMMETRY Interchangeable
INVARIANTS TypeOK SingleFlight CertLast GrantedOnce DoneIsWhole CleanIsWhole NoStray
