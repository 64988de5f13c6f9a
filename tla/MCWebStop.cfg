SPECIFICATION Spec
CONSTANTS
    p1 = p1  p2 = p2  t1 = t1  t2 = t2  t3 = t3  j1 = j1  j2 = j2  w1 = w1  w2 = w2
    Proxies = {p1, p2}  Toggles = {t1, t2, t3}  Jobs = {j1, j2}  Writers = {w1, w2}
    Workloads = {1, 2, 3}  Sessions = {1, 2}  None = None
    Setups <- StopSetups
PROPERTY StopSaves
CHECK_DEADLOCK FALSE
