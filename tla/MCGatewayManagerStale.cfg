\* Two concurrent handlers, every API call succeeding: the list shown at
\* rest is not the stored one.
CONSTANTS
    Names = {n1, n2}
    Configs = {c1}
    Tasks = {t1, t2}
    MaxClicks = 1
    ApiFaults = FALSE
    None = None
SPECIFICATION Spec
SYMMETRY TaskSymmetry
INVARIANT ListCurrent
\* The page rests once the operator has used up MaxClicks.
CHECK_DEADLOCK FALSE
