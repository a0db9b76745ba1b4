CONSTANTS
    t1 = t1
    t2 = t2
    t3 = t3
    t4 = t4
    t5 = t5
    t6 = t6
    t7 = t7
    t8 = t8
    t9 = t9
    t10 = t10
    t11 = t11
    t12 = t12
    t13 = t13
    k1 = k1
    k2 = k2
    c1 = c1
    c2 = c2
    a1 = a1
    m1 = m1
    NumGroups = 3
    TagCols = {a1}
    MetricCols = {m1}
    HasData = {1, 3}
    TagFail = {2}
    SubFail = {3}
    RootFail = TRUE
    UndoFail = TRUE
    Threads = {t1, t2, t3, t4, t5, t6, t7, t8, t9, t10, t11, t12, t13}
    Prog <- MCProg
    Scenarios <- MCScenarios
    Tags = {k1, k2}
    Cols = {c1, c2}
    MaxEnts = 2
    MaxTagObjs = 2
    OpFailures = {t1, t4, t5, t12}
    UndoFailures = {t7, t10}
    DropFailures = {t8}
    DropTagFailures = {t8}
    NoThread = NoThread
SPECIFICATION MCSpec
INVARIANT RefsMatchHolders
CHECK_DEADLOCK FALSE
