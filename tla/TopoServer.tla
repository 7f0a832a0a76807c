----------------------------- MODULE TopoServer -----------------------------
(***************************************************************************)
(* The topology server on the OMP, src/topo with role CR_SERVER.            *)
(*                                                                          *)
(* One libevent loop: udp_server_proc for every datagram, main_tick every   *)
(* second.  The server learns the pods from their heartbeats and expels     *)
(* those silent for ASSOC_CLEAR_TM seconds.  Here is its table; the files   *)
(* it writes and the notice it sends to IXPC afterwards are in OmpIxpc.     *)
(***************************************************************************)
EXTENDS NodeInfo

CONSTANTS
    OmpInfo,       \* the OMP's own entry (init_omp_server)
    AssocClearTm   \* ASSOC_CLEAR_TM

ASSUME ServerAssumption ==
    /\ OmpInfo \in node_info_t
    /\ AssocClearTm \in Nat \ {0}

VARIABLES
    omp_up,      \* the server runs
    node_list,   \* main_ctx_t.node_list
    age          \* time(NULL) - heartbeat_tm, saturated; the OMP's tm is 0

server_vars == <<omp_up, node_list, age>>

-----------------------------------------------------------------------------
\* The table with the OMP alone.
OmpOnly == [EmptyTable EXCEPT ![OMP] = OmpInfo]

\* Whether node_proc_pod_send_info answers NP_ADD or NP_REP.
IsUpdate(p, info) == node_list[p] # None => ~SameAddr(node_list[p], info)

\* The entry it leaves: a new one, the old one, or the new one with the port
\* of the old one.
NewEntryOldIp(p, info) ==
    IF node_list[p] = None THEN info
    ELSE IF IsUpdate(p, info)
         THEN [info EXCEPT !.mgnt_pri_ip = node_list[p].mgnt_pri_ip]
         ELSE node_list[p]
NewEntry(p, info) ==
    IF node_list[p] = None THEN info
    ELSE IF IsUpdate(p, info)
         THEN [info EXCEPT !.mgnt_port = node_list[p].mgnt_port]
         ELSE node_list[p]

\* assoc_info_clean_cb: whom the tick expels.  The OMP has no heartbeat_tm.
ExpiredAll == {n \in Listed(node_list) : age[n] >= AssocClearTm}
Expired == {n \in Listed(node_list) \ {OMP} : age[n] >= AssocClearTm}

-----------------------------------------------------------------------------
\* The entries that assoc_info_cleanup leaves.
assoc_info_cleanup ==
    node_list' = [n \in Names |-> IF n \in Expired THEN None ELSE node_list[n]]

\* udp_server_proc on a datagram of pod p (one that does not parse changes
\* nothing and is not answered).  The reply is the new node_list.
udp_server_proc(p, report) ==
    /\ omp_up
    /\ node_list' = [node_list EXCEPT ![p] =
                        NewEntry(p, assoc_info_get_from_pod(report))]
    /\ age' = [age EXCEPT ![p] = 0]
    /\ UNCHANGED omp_up

\* main_tick, when assoc_info_cleanup removes anybody.
main_tick ==
    /\ omp_up
    /\ Expired # {}
    /\ assoc_info_cleanup
    /\ UNCHANGED <<omp_up, age>>

\* A second passes on the OMP's clock.
Second ==
    /\ age' = [n \in Names |-> IF age[n] < AssocClearTm THEN age[n] + 1 ELSE age[n]]
    /\ UNCHANGED <<omp_up, node_list>>

\* The server dies.
ServerCrash ==
    /\ omp_up
    /\ omp_up' = FALSE
    /\ UNCHANGED <<node_list, age>>

\* init_omp_server: a new list with the OMP alone.
init_omp_server ==
    /\ ~omp_up
    /\ omp_up' = TRUE
    /\ node_list' = OmpOnly
    /\ UNCHANGED age

-----------------------------------------------------------------------------
ServerInit ==
    /\ omp_up = FALSE
    /\ node_list = EmptyTable
    /\ age = [n \in Names |-> AssocClearTm]

ServerNext ==
    \/ \E p \in Pods : \E r \in Reports[p] : udp_server_proc(p, r)
    \/ main_tick
    \/ Second
    \/ ServerCrash
    \/ init_omp_server

ServerSpec == ServerInit /\ [][ServerNext]_server_vars

-----------------------------------------------------------------------------
\* The types of the server's state.
ServerTypeOK ==
    /\ omp_up \in BOOLEAN
    /\ node_list \in Table
    /\ age \in [Names -> 0 .. AssocClearTm]
=============================================================================
