------------------------------- MODULE PodIxpc -------------------------------
(***************************************************************************)
(* The topology clients, answered by some OMP, with the IXPC of each pod    *)
(* (not part of the repository), which reads the pod's associate_config     *)
(* when a notice reaches it.                                                *)
(***************************************************************************)
EXTENDS TopoClient

CONSTANTS
    Replies,  \* tables the OMP may answer
    PodQueueMax  \* bound: notices of topo the queue of a pod's IXPC holds

ASSUME PodIxpcAssumption ==
    /\ Replies \subseteq {t \in Table : t[OMP] # None}
    /\ PodQueueMax \in Nat \ {0}

VARIABLES
    pod_pending, \* notices in each pod's queue
    pod_missed,  \* history: a notice was refused since the last reload
    pod_config,  \* the table each pod's IXPC works with
    last         \* history: the last reply each client merged, as parsed

pod_ixpc_vars == <<pod_pending, pod_missed, pod_config>>
pod_vars == <<client_vars, pod_ixpc_vars, last>>

-----------------------------------------------------------------------------
\* notify_to_ixpc; ok is the result of msgsnd.
PodNotify(p, ok) ==
    /\ ok => pod_pending[p] < PodQueueMax
    /\ pod_pending' = [pod_pending EXCEPT ![p] = IF ok THEN @ + 1 ELSE @]
    /\ pod_missed' = [pod_missed EXCEPT ![p] = @ \/ ~ok]
    /\ UNCHANGED pod_config

\* The whole of udp_client_proc from recvfrom on.
ClientReplyTellAdds(p, reply, ok) ==
    /\ udp_client_recv(p, reply)
    /\ last' = [last EXCEPT ![p] = Parsed(reply)]
    /\ \/ UpdatedAdd(pod_list[p], Parsed(reply)) /\ PodNotify(p, ok)
       \/ ~UpdatedAdd(pod_list[p], Parsed(reply)) /\ ok /\ UNCHANGED pod_ixpc_vars

ClientReply(p, reply, ok) ==
    /\ udp_client_recv(p, reply)
    /\ last' = [last EXCEPT ![p] = Parsed(reply)]
    /\ \/ Updated(pod_list[p], Parsed(reply)) /\ PodNotify(p, ok)
       \/ ~Updated(pod_list[p], Parsed(reply)) /\ ok /\ UNCHANGED pod_ixpc_vars

\* IXPC takes a notice and reads the file.
PodReload(p) ==
    /\ pod_info[p] # None
    /\ pod_pending[p] > 0
    /\ pod_pending' = [pod_pending EXCEPT ![p] = @ - 1]
    /\ pod_missed' = [pod_missed EXCEPT ![p] = FALSE]
    /\ pod_config' = [pod_config EXCEPT ![p] = pod_file[p]]
    /\ UNCHANGED <<client_vars, last>>

\* The queue and IXPC go with the pod; a restarted topo finds both.
PodLost(p) ==
    /\ PodStop(p)
    /\ pod_pending' = [pod_pending EXCEPT ![p] = 0]
    /\ pod_missed' = [pod_missed EXCEPT ![p] = FALSE]
    /\ pod_config' = [pod_config EXCEPT ![p] = EmptyTable]
    /\ last' = [last EXCEPT ![p] = EmptyTable]

ClientRestart(p, info) ==
    /\ init_omp_client(p, info)
    /\ last' = [last EXCEPT ![p] = EmptyTable]
    /\ UNCHANGED pod_ixpc_vars

\* topo is killed between the file and the notice (udp.c:281-282), and is
\* started again.
ClientKilled(p, reply, info) ==
    /\ pod_wait[p]
    /\ Updated(pod_list[p], Parsed(reply))
    /\ pod_file' = [pod_file EXCEPT ![p] = Merge(pod_list[p], Parsed(reply))]
    /\ SameAddr(pod_info[p], info)
    /\ pod_info' = [pod_info EXCEPT ![p] = info]
    /\ pod_list' = [pod_list EXCEPT ![p] = EmptyTable]
    /\ pod_wait' = [pod_wait EXCEPT ![p] = FALSE]
    /\ last' = [last EXCEPT ![p] = EmptyTable]
    /\ UNCHANGED pod_ixpc_vars

PodInit ==
    /\ ClientInit
    /\ pod_pending = [p \in Pods |-> 0]
    /\ pod_missed = [p \in Pods |-> FALSE]
    /\ pod_config = [p \in Pods |-> EmptyTable]
    /\ last = [p \in Pods |-> EmptyTable]

\* What a client, its pod and its IXPC do.
PodStep(p) ==
    \/ udp_client_send(p) /\ UNCHANGED <<pod_ixpc_vars, last>>
    \/ \E reply \in Replies, ok \in BOOLEAN : ClientReply(p, reply, ok)
    \/ \E reply \in Replies, info \in Reports[p] : ClientKilled(p, reply, info)
    \/ udp_client_timeout(p) /\ UNCHANGED <<pod_ixpc_vars, last>>
    \/ \E info \in Reports[p] :
           \/ PodStart(p, info) /\ UNCHANGED <<pod_ixpc_vars, last>>
           \/ ClientRestart(p, info)
    \/ PodLost(p)
    \/ PodReload(p)

PodNext == \E p \in Pods : PodStep(p)

PodSpec == PodInit /\ [][PodNext]_pod_vars

-----------------------------------------------------------------------------
\* The types of the clients' state and of their IXPCs'.
PodTypeOK ==
    /\ ClientTypeOK
    /\ pod_pending \in [Pods -> 0 .. PodQueueMax]
    /\ pod_missed \in [Pods -> BOOLEAN]
    /\ pod_config \in [Pods -> Table]
    /\ last \in [Pods -> Table]

\* The check flags, the additions, the replacements and the removals of one
\* round add up: the names and addresses in a client's table are those of the
\* last reply it merged, whatever it held before.
AddressesOfLastReply ==
    \A p \in Pods, n \in Names :
        /\ pod_list[p][n] = None <=> last[p][n] = None
        /\ pod_list[p][n] # None => SameAddr(pod_list[p][n], last[p][n])

\* A pod's IXPC works with the table of its topo client, unless a notice is
\* on its way or one was refused by the full queue.  A restarted client, whose
\* table is empty, has it again with the first reply.
PodIxpcCurrent ==
    \A p \in Pods :
        (Listed(pod_list[p]) # {} /\ pod_pending[p] = 0 /\ ~pod_missed[p])
            => pod_config[p] = pod_list[p]
=============================================================================
