SPECIFICATION Spec
CONSTANTS
    s1 = s1
    s2 = s2
    l1 = l1
    c1 = c1
    Tables = {archive, ida}
    Stations = {s1, s2}
    Locs = {l1}
    Chans = {c1}
    AnyPart = AnyPart
    Bucket <- MCBucket
    Patterns <- MCPatterns
    Commanded <- MCCommanded
    MaxCommands = 3
    NoDecision = NoDecision
SYMMETRY TableSymmetry
INVARIANT ExceptionsPokeHoles
INVARIANT ConfigOtherwise
CHECK_DEADLOCK FALSE
