\* Four events, room for two, two attempts each; a second drain could start.
SPECIFICATION FairSpec
CONSTANTS
    d1 = d1
    d2 = d2
    Drains = {d1, d2}
    Cap = 2
    MaxAttempts = 2
    MaxEvents = 4
INVARIANTS TypeOK OneDrainer CopiesBounded
PROPERTIES Implements NoneSkipped Empties
