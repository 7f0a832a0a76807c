SPECIFICATION LayersSpec
CONSTANTS
  FEP_1 = FEP_1
  FEP_2 = FEP_2
  FEP_3 = FEP_3
  None = None
  Pods = {FEP_1, FEP_2, FEP_3}
  Me = FEP_1
  Groups = {"LMF"}
  Ips = {"node1", "node2", "pod1", "pod2", "omp", "NULL"}
  Ports = {"0x7000", "0x7001", "0x7002", "0x8001", "0x8002"}
  Reports <- MCReports
  Replies <- MCReplies
  ROOT = ROOT
  Keys <- FourKeys
  Blocks = {ROOT, b1, b2, b3, b4}
  b1 = b1
  b2 = b2
  b3 = b3
  b4 = b4
  NULL = NULL
  Clients <- TwoClients
  Locals <- Addresses
  Route <- Routes
  MaxQueue = 2
  MaxSent = 3
INVARIANTS RepliesFromAskedAddress Linked WalkVisitsAll
PROPERTIES IsKeyedSet IsClient
\* The clients of the socket stop when they have sent MaxSent requests.
CHECK_DEADLOCK FALSE
