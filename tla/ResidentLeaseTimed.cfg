SPECIFICATION TimedSpec
CONSTANTS
    t1 = t1
    t2 = t2
    p1 = p1
    p2 = p2
    Threads = {t1, t2}
    Processes = {p1, p2}
    ProcOf <- MCProcOf
    Servers = {t1, t2}
    Penalty = 3
    MayCrash = FALSE
PROPERTY WaiterServed
