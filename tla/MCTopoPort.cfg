SPECIFICATION Spec
CONSTANTS
    FEP_1 = FEP_1
    FEP_2 = FEP_2
    None = None
    Pods <- MCPods
    Ips <- MCIps
    Ports = {"0x7000", "0x7001", "0x7002", "0x8001"}
    Groups = {"LMF"}
    OmpInfo <- MCOmpInfo
    Reports <- MCPorts
    AssocClearTm = 1
    MaxChanges = 1
    MaxOld = 1
PROPERTY DifferingInfoReplaced
