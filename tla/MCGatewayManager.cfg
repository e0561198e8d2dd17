\* The mount fetch and two operator handlers (three tasks at once) over two servers, two
\* config texts and three slots, with rejecting API calls.
CONSTANTS
    Names = {n1, n2}
    Configs = {c1, c2}
    Tasks = {t1, t2, t3}
    MaxClicks = 2
    ApiFaults = TRUE
    None = None
SPECIFICATION Spec

PROPERTY SpinnerClears
\* The page rests once the operator has used up MaxClicks.
CHECK_DEADLOCK FALSE
