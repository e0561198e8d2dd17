\* The mount fetch and a handleSync running at once, every API call
\* succeeding: the spinner goes off while the sync is still running.
CONSTANTS
    Names = {n1}
    Configs = {c1}
    Tasks = {t1, t2}
    MaxClicks = 1
    ApiFaults = FALSE
    None = None
SPECIFICATION Spec
SYMMETRY TaskSymmetry
INVARIANT SpinnerWhileSyncing
\* The page rests once the operator has used up MaxClicks.
CHECK_DEADLOCK FALSE
