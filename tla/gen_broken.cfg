SPECIFICATION Spec
CONSTANTS
    Sound = {p1, p2}
    Broken = {b1}
    Hollow = {h1}
    Silent = {p2}
    Junk = junk
    Image = image
    Partial = partial
    None = none
    Faulty = {}
    MaxUpdates = 1
    MaxCrashes = 1
CHECK_DEADLOCK FALSE
INVARIANT
    BrokenNotApplied
