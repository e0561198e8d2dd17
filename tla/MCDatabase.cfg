\* Two clients, three messages over three timestamps, pages of two, a
\* failing database; timestamps distinct; one user value, one session.
CONSTANTS
    Clients = {c1, c2}
    MsgIds = {m1, m2, m3}
    Stamps = {1, 2, 3}
    Vals = {v1}
    SessIds = {s1}
    Titles = {t1}
    PageSize = 2
    None = None
    DbFaults = TRUE
    Ties = FALSE
SPECIFICATION Spec
SYMMETRY ClientSymmetry
INVARIANT InitStateKept PagesPartition

