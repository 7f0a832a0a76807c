------------------------------- MODULE MCIxpc -------------------------------
(***************************************************************************)
(* topo beside IXPC: the server on the OMP (OmpIxpc) and a client in a pod  *)
(* (PodIxpc).  The two share no state here; a behaviour is about one.       *)
(***************************************************************************)
EXTENDS OmpIxpc, PodIxpc, TLC

CONSTANTS FEP_1, FEP_2

VARIABLE part

Info(group, mgnt, serv, port) ==
    [group |-> group, mgnt_pri_ip |-> mgnt, serv_pri_ip |-> serv, mgnt_port |-> port]

MCPods == {FEP_1, FEP_2}
MCIps == {"node1", "node2", "pod1", "pod2", "pod3", "omp", "NULL"}
MCRank == FEP_1 :> 1 @@ FEP_2 :> 2 @@ OMP :> 3

Omp(group) == Info(group, "omp", "NULL", "0x7000")
Own == Info("LMF", "node1", "pod1", "0x7001")
MCOmpInfo == Omp("LMF")

\* FEP_1 is rescheduled to another node, or restarted in place with a new
\* base port, or comes back with a new address; FEP_2 stays.
MCReports ==
    FEP_1 :> {Own, [Own EXCEPT !.mgnt_port = "0x8001"],
              Info("LMF", "node2", "pod1", "0x7001"),
              Info("LMF", "node1", "pod3", "0x8001")}
    @@ FEP_2 :> {Info("LMF", "node2", "pod2", "0x7002")}

\* The client of FEP_1 is answered with tables that add, move, drop and
\* relabel its neighbour, and with an OMP whose MP_LABEL is empty or a newline.
Answer(omp, other) == FEP_1 :> Own @@ FEP_2 :> other @@ OMP :> omp
MCReplies ==
    {Answer(MCOmpInfo, other) :
        other \in {None,
                   Info("LMF", "node2", "pod2", "0x7002"),
                   Info("LMF", "node2", "pod2", "0x8002"),
                   Info("LMF", "node1", "pod2", "0x7002")}}
    \cup {Answer(Omp(g), None) : g \in {Empty, Newline}}

IxpcInit ==
    /\ part \in {"server", "client"}
    /\ Init /\ PodInit

IxpcNext ==
    /\ \/ part = "server" /\ Next /\ UNCHANGED pod_vars
       \/ part = "client" /\ PodStep(FEP_1) /\ UNCHANGED vars
    /\ UNCHANGED part

IxpcSpec == IxpcInit /\ [][IxpcNext]_<<part, vars, pod_vars>>
=============================================================================
