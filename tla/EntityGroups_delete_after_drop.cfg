CONSTANTS
    t1 = t1
    t2 = t2
    t3 = t3
    t4 = t4
    t5 = t5
    t6 = t6
    t7 = t7
    t8 = t8
    t9 = t9
    t10 = t10
    t11 = t11
    t12 = t12
    t13 = t13
    t14 = t14
    t15 = t15
    Threads = {t1, t2}
    Prog <- MCProgDeleteDrop
    HasGroup = TRUE
    DropFailures = {}
    WriterPreferring = FALSE
    MaxObjs = 1
    NoThread = NoThread
    Scenarios <- MCAllThreads
SPECIFICATION Spec
INVARIANT NoUseAfterDrop
CHECK_DEADLOCK FALSE
