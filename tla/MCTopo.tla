------------------------------- MODULE MCTopo -------------------------------
(* Two pods; FEP_1 can be rescheduled to another node.                      *)
EXTENDS Topo, TLC

CONSTANTS FEP_1, FEP_2

Info(group, mgnt, serv, port) ==
    [group |-> group, mgnt_pri_ip |-> mgnt, serv_pri_ip |-> serv, mgnt_port |-> port]

MCPods == {FEP_1, FEP_2}
MCIps == {"node1", "node2", "pod1", "pod2", "pod3", "omp", "NULL"}
MCOmpInfo == Info("LMF", "omp", "NULL", "0x7000")

\* FEP_1 comes back on another node.
MCMoves ==
    FEP_1 :> {Info("LMF", "node1", "pod1", "0x7001"),
              Info("LMF", "node2", "pod3", "0x7001")}
    @@ FEP_2 :> {Info("LMF", "node2", "pod2", "0x7002")}

\* Nobody moves.
MCStays ==
    FEP_1 :> {Info("LMF", "node1", "pod1", "0x7001")}
    @@ FEP_2 :> {Info("LMF", "node2", "pod2", "0x7002")}

\* FEP_1 restarts in place with another base port.
MCPorts ==
    FEP_1 :> {Info("LMF", "node1", "pod1", "0x7001"),
              Info("LMF", "node1", "pod1", "0x8001")}
    @@ FEP_2 :> {Info("LMF", "node2", "pod2", "0x7002")}
=============================================================================
