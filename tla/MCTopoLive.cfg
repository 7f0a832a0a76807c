SPECIFICATION FairSpec
CONSTANTS
    FEP_1 = FEP_1
    FEP_2 = FEP_2
    None = None
    Pods <- MCPods
    Ips <- MCIps
    Ports = {"0x7000", "0x7001", "0x7002"}
    Groups = {"LMF"}
    OmpInfo <- MCOmpInfo
    Reports <- MCStays
    AssocClearTm = 1
    MaxChanges = 1
    MaxOld = 1
PROPERTY Convergence
