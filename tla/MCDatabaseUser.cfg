\* A user updated by one client while another deletes it.
CONSTANTS
    Clients = {c1, c2}
    MsgIds = {m1, m2, m3}
    Stamps = {1, 2, 3}
    Vals = {v1, v2}
    SessIds = {s1}
    Titles = {t1}
    PageSize = 2
    None = None
    DbFaults = FALSE
    Ties = FALSE
SPECIFICATION Spec
PROPERTY NoResurrection
