---------------------------- MODULE MCTopoLayers ----------------------------
(***************************************************************************)
(* The three layers Topo takes for granted, each with all its detail: the   *)
(* server's socket (UdpFromTo), the linked list behind every table          *)
(* (ElemList) and the loop that merges a reply line by line (AssocSync).    *)
(* They share no state here; a behaviour is about one of them.              *)
(***************************************************************************)
EXTENDS UdpFromTo, AssocSync, ElemList, TLC

CONSTANTS FEP_1, FEP_2, FEP_3,           \* pods
          b1, b2, b3, b4         \* blocks of memory

VARIABLE layer

\* The socket: two clients behind different routes, two local addresses.
TwoClients == {"c1", "c2"}
Addresses == {"mgnt", "serv"}
Routes == [c \in Clients |-> IF c = "c1" THEN "mgnt" ELSE "serv"]

\* The list: four keys, and as many blocks, handed out again after a removal.
FourKeys == 1 .. 4

\* The merge: one pod among three.  The replies add, move, re-port and drop
\* neighbours, one or both at a time, and the OMP's group may be empty or a
\* newline.
Info(group, mgnt, serv, port) ==
    [group |-> group, mgnt_pri_ip |-> mgnt, serv_pri_ip |-> serv, mgnt_port |-> port]
Own == Info("LMF", "node1", "pod1", "0x7001")
Other == Info("LMF", "node2", "pod2", "0x7002")
MCReports == FEP_1 :> {Own, [Own EXCEPT !.mgnt_port = "0x8001"]} @@ FEP_2 :> {} @@ FEP_3 :> {}
MCReplies ==
    { FEP_1 :> Own @@ FEP_2 :> second @@ FEP_3 :> third @@ "OMP" :> Info(g, "omp", "NULL", "0x7000") :
        second \in {None, Other, [Other EXCEPT !.mgnt_pri_ip = "node1"],
                    [Other EXCEPT !.mgnt_port = "0x8002"], [Other EXCEPT !.group = "newline"]},
        third \in {None, Other}, g \in {"LMF", "", "newline"} }

ASSUME LayersAssumption == AssocSyncAssumption

LayersInit ==
    /\ layer \in {"socket", "list", "merge"}
    /\ Init /\ ElemInit /\ SyncInit

LayersNext ==
    /\ \/ layer = "socket" /\ Next /\ UNCHANGED <<elem_vars, sync_vars>>
       \/ layer = "list" /\ ElemNext /\ UNCHANGED <<vars, sync_vars>>
       \/ layer = "merge" /\ SyncNext /\ UNCHANGED <<vars, elem_vars>>
    /\ UNCHANGED layer

LayersSpec == LayersInit /\ [][LayersNext]_<<layer, vars, elem_vars, sync_vars>>
=============================================================================
