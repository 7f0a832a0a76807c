-------------------------------- MODULE Topo --------------------------------
(***************************************************************************)
(* The topology service: the server of the OMP and the clients of the pods  *)
(* over UDP.  Datagrams are lost, duplicated, overtaken and delivered late. *)
(* A client sends every heartbeat from a socket of its own and closes it    *)
(* when the round ends, so a reply reaches only the round that asked.       *)
(***************************************************************************)
EXTENDS TopoServer, TopoClient

CONSTANTS
    MaxChanges,  \* bound: pods stopped, clients restarted, server crashes
    MaxOld       \* bound: heartbeats under way whose round is over

ASSUME TopoAssumption == MaxChanges \in Nat /\ MaxOld \in Nat

VARIABLES
    reqs,      \* heartbeats under way, with whether their socket is open
    reps,      \* replies under way to the open socket of each pod
    changes,   \* how much of MaxChanges is used
    reported   \* history: everything each pod ever had to report

net_vars == <<reqs, reps>>
vars == <<server_vars, client_vars, net_vars, changes, reported>>

Request == [pod : Pods, info : node_info_t, open : BOOLEAN]
Old == {r \in reqs : ~r.open}

-----------------------------------------------------------------------------
\* The socket of p closes: replies to it are dropped, and a heartbeat sent
\* from it may still be on its way to the server, or be lost.
Close(p) ==
    LET mine   == {r \in reqs : r.pod = p /\ r.open}
        closed == {[r EXCEPT !.open = FALSE] : r \in mine}
    IN  /\ \E keep \in {{}, closed} :
              /\ Cardinality(Old \cup keep) <= MaxOld
              /\ reqs' = (reqs \ mine) \cup keep
        /\ reps' = [reps EXCEPT ![p] = {}]

Change ==
    /\ changes < MaxChanges
    /\ changes' = changes + 1

-----------------------------------------------------------------------------
\* The first half of udp_client_proc: the heartbeat leaves.
ClientSend(p) ==
    /\ udp_client_send(p)
    /\ reqs' = reqs \cup {[pod |-> p, info |-> pod_info[p], open |-> TRUE]}
    /\ UNCHANGED <<server_vars, reps, changes, reported>>

\* udp_server_proc: the table goes back to the socket the heartbeat came from,
\* if that is still open and the reply is not lost.  A duplicated datagram
\* stays under way.
ServerRecv(r, lost) ==
    /\ udp_server_proc(r.pod, r.info)
    /\ reqs' \in {reqs, reqs \ {r}}
    /\ reps' = IF r.open /\ ~lost
               THEN [reps EXCEPT ![r.pod] = @ \cup {node_list'}]
               ELSE reps
    /\ UNCHANGED <<client_vars, changes, reported>>

\* The second half of udp_client_proc, with an answer or without.
ClientRecv(p) ==
    /\ \E t \in reps[p] : udp_client_recv(p, t)
    /\ Close(p)
    /\ UNCHANGED <<server_vars, changes, reported>>

ClientTimeout(p) ==
    /\ udp_client_timeout(p)
    /\ Close(p)
    /\ UNCHANGED <<server_vars, changes, reported>>

\* The network drops an old heartbeat.  (One whose socket is open is lost if it
\* does not outlive Close.)
Lose(r) ==
    /\ r \in Old
    /\ reqs' = reqs \ {r}
    /\ UNCHANGED <<server_vars, client_vars, reps, changes, reported>>

\* Pods come and go, clients and the server restart.
Start(p, info) ==
    /\ PodStart(p, info)
    /\ reported' = [reported EXCEPT ![p] = @ \cup {info}]
    /\ UNCHANGED <<server_vars, net_vars, changes>>

Stop(p) ==
    /\ PodStop(p)
    /\ Close(p)
    /\ Change
    /\ UNCHANGED <<server_vars, reported>>

Restart(p, info) ==
    /\ init_omp_client(p, info)
    /\ reported' = [reported EXCEPT ![p] = @ \cup {info}]
    /\ Close(p)
    /\ Change
    /\ UNCHANGED server_vars

OmpCrash ==
    /\ ServerCrash
    /\ Change
    /\ UNCHANGED <<client_vars, net_vars, reported>>

OmpStart == init_omp_server /\ UNCHANGED <<client_vars, net_vars, changes, reported>>
OmpTick == main_tick /\ UNCHANGED <<client_vars, net_vars, changes, reported>>
Clock == Second /\ UNCHANGED <<client_vars, net_vars, changes, reported>>

Init ==
    /\ ServerInit
    /\ ClientInit
    /\ reqs = {}
    /\ reps = [p \in Pods |-> {}]
    /\ changes = 0
    /\ reported = [p \in Pods |-> {}]

Next ==
    \/ \E p \in Pods :
           \/ ClientSend(p) \/ ClientRecv(p) \/ ClientTimeout(p)
           \/ Stop(p)
           \/ \E info \in Reports[p] : Start(p, info) \/ Restart(p, info)
    \/ \E r \in reqs, lost \in BOOLEAN : ServerRecv(r, lost)
    \/ \E r \in reqs : Lose(r)
    \/ OmpCrash \/ OmpStart \/ OmpTick \/ Clock

Spec == Init /\ [][Next]_vars

\* The timers of running processes fire, kubernetes restarts a dead server,
\* and time passes.  Of the network: heartbeats and replies of a pod that
\* keeps sending get through again and again, and no datagram whose round is
\* over stays under way for ever.
OpenRecv(p) == \E r \in reqs : r.pod = p /\ r.open /\ ServerRecv(r, FALSE)
Fairness ==
    /\ \A p \in Pods :
           /\ WF_vars(ClientSend(p))
           /\ WF_vars(ClientTimeout(p))
           /\ SF_vars(OpenRecv(p))
           /\ SF_vars(ClientRecv(p))
           /\ \A info \in Reports[p] :
                  WF_vars(Lose([pod |-> p, info |-> info, open |-> FALSE]))
    /\ WF_vars(OmpStart)
    /\ WF_vars(OmpTick)
    /\ WF_vars(Clock)

FairSpec == Spec /\ Fairness

-----------------------------------------------------------------------------
\* The types of the whole system's state.
TypeOK ==
    /\ ServerTypeOK
    /\ ClientTypeOK
    /\ reqs \subseteq Request
    /\ reps \in [Pods -> SUBSET Table]
    /\ changes \in 0 .. MaxChanges
    /\ reported \in [Pods -> SUBSET node_info_t]

\* Entry e was made from the reports R of one pod: its group and both of its
\* addresses from one report, its port from one, possibly an earlier one (the
\* server keeps the port of a pod it knows when the pod moves); each as
\* reported, or empty because the parsing stopped before it.
MadeFrom(R, e) ==
    /\ \E r \in R : /\ e.group \in {r.group, Empty}
                    /\ e.mgnt_pri_ip \in {r.mgnt_pri_ip, Empty}
                    /\ e.serv_pri_ip \in {r.serv_pri_ip, Empty}
    /\ \E r \in R : e.mgnt_port \in {r.mgnt_port, Empty}

Genuine(t) == \A p \in Pods : t[p] # None => MadeFrom(reported[p], t[p])

\* No loss, duplication, reordering or restart makes any table mix the
\* addresses of two lives of a pod or of two pods: every entry of the server
\* and of every client was made from what that pod itself reported.
Integrity ==
    /\ Genuine(node_list)
    /\ \A q \in Pods : Genuine(pod_list[q])

\* The server runs and has every running pod at its current address.
ServerKnows ==
    /\ omp_up
    /\ \A p \in Pods :
           pod_info[p] # None
               => node_list[p] # None /\ SameAddr(node_list[p], pod_info[p])

\* The server has nobody else, and every running pod has exactly the running
\* pods, at their current addresses, and the OMP.
AllAgree ==
    /\ \A p \in Pods : pod_info[p] = None => node_list[p] = None
    /\ \A q \in Pods : pod_info[q] # None =>
           /\ pod_list[q][OMP] = assoc_info_get_from_omp(OmpInfo)
           /\ \A p \in Pods :
                  IF pod_info[p] = None
                  THEN pod_list[q][p] = None
                  ELSE /\ pod_list[q][p] # None
                       /\ SameAddr(pod_list[q][p], pod_info[p])

\* Convergence: once the running pods stay heard by the server, every pod
\* that is gone is expelled everywhere, late and duplicated heartbeats of it
\* notwithstanding, and all tables agree for ever on who runs, and where.
Convergence == <>[]ServerKnows => <>[]AllAgree

\* node_proc_omp_send_info: "if key same but info diff, replace node".  After a
\* reply is merged, the client's table is the table of the reply.
DifferingInfoReplaced ==
    [][\A p \in Pods :
          ClientRecv(p) => \E t \in reps[p] : pod_list'[p] = Parsed(t)]_vars
=============================================================================
