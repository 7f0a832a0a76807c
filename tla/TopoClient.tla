----------------------------- MODULE TopoClient -----------------------------
(***************************************************************************)
(* The topology clients in the pods, src/topo with role CR_CLIENT.          *)
(*                                                                          *)
(* Each client is one libevent loop with one timer: udp_client_proc opens a *)
(* socket, sends the pod's own entry to the OMP, waits up to a second for   *)
(* the OMP's table, merges it into its own and closes the socket.  The loop *)
(* blocks in recvfrom, so only that wait interleaves with anything.         *)
(* The notice to IXPC that follows a changed table is added by PodIxpc.     *)
(***************************************************************************)
EXTENDS NodeInfo

VARIABLES
    pod_info,  \* what the pod reports; None while the pod is down
    pod_list,  \* main_ctx_t.node_list of each client
    pod_wait,  \* the client is in recvfrom, its socket open
    pod_file   \* associate_config in the pod

client_vars == <<pod_info, pod_list, pod_wait, pod_file>>

-----------------------------------------------------------------------------
\* The reply as the client parses it, line by line.
Parsed(reply) ==
    [n \in Names |-> IF reply[n] = None THEN None
                     ELSE assoc_info_get_from_omp(reply[n])]

\* node_proc_omp_send_info answers NP_UPTM: the old entry is kept.
KnownByName(list, reply, n) == list[n] # None /\ reply[n] # None
Known(list, reply, n) ==
    /\ list[n] # None
    /\ reply[n] # None
    /\ SameAddr(list[n], reply[n])

\* node_proc_omp_send_info for every line of the reply: a known name keeps its
\* entry, any other gets the reply's.
node_proc_omp_send_info(list, reply) ==
    [n \in Names |-> IF reply[n] = None \/ Known(list, reply, n)
                     THEN list[n] ELSE reply[n]]

\* The flags were cleared before the first line, so the names without one are
\* those the reply lacks.
assoc_info_remove_uncheck_node(list, reply) ==
    [n \in Names |-> IF reply[n] = None THEN None ELSE list[n]]

\* What a reply makes of the list.
MergeKeep(list, reply) == node_proc_omp_send_info(list, reply)
Merge(list, reply) ==
    assoc_info_remove_uncheck_node(node_proc_omp_send_info(list, reply), reply)

\* update_count > 0: a name was added, replaced or removed.
UpdatedAdd(list, reply) == \E n \in Names : list[n] = None /\ reply[n] # None
Updated(list, reply) ==
    \E n \in Names :
        /\ list[n] # None \/ reply[n] # None
        /\ ~Known(list, reply, n)

-----------------------------------------------------------------------------
\* udp_client_proc up to recvfrom.  (When gethostbyname, socket or sendto
\* fails the round ends there and changes nothing.)
udp_client_send(p) ==
    /\ pod_info[p] # None
    /\ ~pod_wait[p]
    /\ pod_wait' = [pod_wait EXCEPT ![p] = TRUE]
    /\ UNCHANGED <<pod_info, pod_list, pod_file>>

\* recvfrom returns the OMP's table.
udp_client_recv(p, reply) ==
    /\ pod_wait[p]
    /\ pod_list' = [pod_list EXCEPT ![p] = Merge(pod_list[p], Parsed(reply))]
    /\ \/ /\ Updated(pod_list[p], Parsed(reply))
          /\ pod_file' = [pod_file EXCEPT ![p] = pod_list'[p]]
       \/ /\ ~Updated(pod_list[p], Parsed(reply))
          /\ UNCHANGED pod_file
    /\ pod_wait' = [pod_wait EXCEPT ![p] = FALSE]
    /\ UNCHANGED pod_info

\* recvfrom gives up after SO_RCVTIMEO, or at once: addr_len is read before it
\* is set, and a negative value makes the call fail.
udp_client_timeout(p) ==
    /\ pod_wait[p]
    /\ pod_wait' = [pod_wait EXCEPT ![p] = FALSE]
    /\ UNCHANGED <<pod_info, pod_list, pod_file>>

\* A pod is created, with the addresses kubernetes gives it: init_omp_client
\* starts from an empty list.
PodStart(p, info) ==
    /\ pod_info[p] = None
    /\ pod_info' = [pod_info EXCEPT ![p] = info]
    /\ UNCHANGED <<pod_list, pod_wait, pod_file>>

\* A pod is deleted or its node dies; its memory and its files go with it.
PodStop(p) ==
    /\ pod_info[p] # None
    /\ pod_info' = [pod_info EXCEPT ![p] = None]
    /\ pod_list' = [pod_list EXCEPT ![p] = EmptyTable]
    /\ pod_wait' = [pod_wait EXCEPT ![p] = FALSE]
    /\ pod_file' = [pod_file EXCEPT ![p] = EmptyTable]

\* The topo process alone restarts: same addresses, the label files are read
\* again (init_omp_client), the list is empty, the file stays.
init_omp_client(p, info) ==
    /\ pod_info[p] # None
    /\ SameAddr(pod_info[p], info)
    /\ pod_info' = [pod_info EXCEPT ![p] = info]
    /\ pod_list' = [pod_list EXCEPT ![p] = EmptyTable]
    /\ pod_wait' = [pod_wait EXCEPT ![p] = FALSE]
    /\ UNCHANGED pod_file

ClientInit ==
    /\ pod_info = [p \in Pods |-> None]
    /\ pod_list = [p \in Pods |-> EmptyTable]
    /\ pod_wait = [p \in Pods |-> FALSE]
    /\ pod_file = [p \in Pods |-> EmptyTable]

-----------------------------------------------------------------------------
\* The types of the clients' state.
ClientTypeOK ==
    /\ pod_info \in [Pods -> node_info_t \cup {None}]
    /\ pod_list \in [Pods -> Table]
    /\ pod_wait \in [Pods -> BOOLEAN]
    /\ pod_file \in [Pods -> Table]

\* A client's associate_config is its table, as soon as a first reply has
\* filled the table (until then a restarted client leaves the old file).
PodFileCurrent ==
    \A p \in Pods : Listed(pod_list[p]) # {} => pod_file[p] = pod_list[p]
=============================================================================
