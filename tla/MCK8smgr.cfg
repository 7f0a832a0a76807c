SPECIFICATION FairSpec
CONSTANTS
    K8SMGR = K8SMGR
    PROC_A = PROC_A
    Procs <- MCProcs
    Self = K8SMGR
    HangIntvl = 3
    ForceChecks = 2
    Statuses = {0, 1}
    CntMod = 2
    MaxBeats = 1
    MaxMiss = 2
INVARIANTS
    HangDetected
    NoFalseAlarm
    ForceWindow
PROPERTIES
    HungReported
    Recovered
