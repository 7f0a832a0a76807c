SPECIFICATION IxpcSpec
CONSTANTS
    FEP_1 = FEP_1
    FEP_2 = FEP_2
    None = None
    Pods <- MCPods
    Ips <- MCIps
    Ports = {"0x7000", "0x7001", "0x7002", "0x8001", "0x8002"}
    Groups = {"LMF"}
    OmpInfo <- MCOmpInfo
    Reports <- MCReports
    Replies <- MCReplies
    AssocClearTm = 2
    TopoMaxList = 3
    Rank <- MCRank
    QueueMax = 2
    PodQueueMax = 2
INVARIANTS
    AssocFileCurrent
    NodeFileCurrent
    IxpcBehindOnlyOnExpelled
    PodTypeOK
    PodFileCurrent
    AddressesOfLastReply
    PodIxpcCurrent
