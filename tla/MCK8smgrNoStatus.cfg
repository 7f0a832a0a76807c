SPECIFICATION Spec
CONSTANTS
    K8SMGR = K8SMGR
    PROC_A = PROC_A
    Procs <- MCProcs
    Self = K8SMGR
    HangIntvl = 3
    ForceChecks = 5
    Statuses = {0, 1}
    CntMod = 3
    MaxBeats = 2
    MaxMiss = 2
INVARIANT NoStatusIsRefused
