CONSTANTS
    d1 = d1
    d2 = d2
    here = here
    music = music
    Downloads = {d1, d2}
    Paths = {here}
    Target <- MCTarget
    Labels = {music}
    LabelOf <- MCLabelOf
    Blocks = 2
    NoFile = NoFile
    MaxCrashes = 1
    MaxSaveErrors = 1
SPECIFICATION Spec
INVARIANT Inv
PROPERTY ScannedUnlessMissed
CHECK_DEADLOCK FALSE
