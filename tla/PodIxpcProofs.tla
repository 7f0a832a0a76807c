---------------------------- MODULE PodIxpcProofs ----------------------------
(***************************************************************************)
(* Proofs about the topology clients and the IXPCs they tell: any number of *)
(* pods, any replies of the OMP, any length of the queues.                  *)
(***************************************************************************)
EXTENDS PodIxpc, TLAPS

\* The inductive invariant.  That IXPC is current rests on the file being
\* current, which PodReload reads.
PodInv == PodTypeOK /\ AddressesOfLastReply /\ PodFileCurrent /\ PodIxpcCurrent

\* What PodInv says of one pod beyond the types.
PodOK(list, file, lst, pend, miss, conf) ==
    /\ \A n \in Names :
         /\ list[n] = None <=> lst[n] = None
         /\ list[n] # None => SameAddr(list[n], lst[n])
    /\ Listed(list) # {} => file = list
    /\ (Listed(list) # {} /\ pend = 0 /\ ~miss) => conf = list

\* PodInv pod by pod.
LEMMA IInvByPod ==
    PodInv <=> /\ PodTypeOK
             /\ \A q \in Pods : PodOK(pod_list[q], pod_file[q], last[q],
                                      pod_pending[q], pod_missed[q], pod_config[q])
BY DEF PodInv, AddressesOfLastReply, PodFileCurrent, PodIxpcCurrent, PodOK

-----------------------------------------------------------------------------
(* The merge of a reply *)

\* A parsed line is an entry.
LEMMA LineParsed ==
    ASSUME NEW e \in node_info_t
    PROVE  assoc_info_get_from_omp(e) \in node_info_t
BY DEF node_info_t, assoc_info_get_from_omp, Scan

\* A parsed reply is a table.
LEMMA ParsedTable ==
    ASSUME NEW reply \in Table
    PROVE  Parsed(reply) \in Table
BY LineParsed DEF Parsed, Table

\* What merging leaves has the names and addresses of the reply.
LEMMA MergeAddresses ==
    ASSUME NEW list \in Table, NEW reply \in Table
    PROVE  /\ Merge(list, reply) \in Table
           /\ \A n \in Names :
                /\ Merge(list, reply)[n] = None <=> reply[n] = None
                /\ Merge(list, reply)[n] # None
                     => SameAddr(Merge(list, reply)[n], reply[n])
<1>1. ASSUME NEW n \in Names
      PROVE  Merge(list, reply)[n] = IF reply[n] = None THEN None
                                     ELSE IF Known(list, reply, n) THEN list[n]
                                     ELSE reply[n]
      BY DEF Merge, node_proc_omp_send_info, assoc_info_remove_uncheck_node, Known
<1>2. Merge(list, reply) \in Table
      BY DEF Merge, node_proc_omp_send_info, assoc_info_remove_uncheck_node, Table
<1>3. ASSUME NEW n \in Names
      PROVE  /\ Merge(list, reply)[n] = None <=> reply[n] = None
             /\ Merge(list, reply)[n] # None
                  => SameAddr(Merge(list, reply)[n], reply[n])
      BY <1>1 DEF Known, SameAddr
<1> QED BY <1>2, <1>3

\* When update_count stays 0 the table stays as it was.
LEMMA MergeUnchanged ==
    ASSUME NEW list \in Table, NEW reply \in Table, ~Updated(list, reply)
    PROVE  Merge(list, reply) = list
<1>1. ASSUME NEW n \in Names PROVE Merge(list, reply)[n] = list[n]
      BY DEF Merge, node_proc_omp_send_info, assoc_info_remove_uncheck_node, Updated, Known
<1>2. Merge(list, reply) = [n \in Names |-> Merge(list, reply)[n]]
      BY DEF Merge, assoc_info_remove_uncheck_node
<1>3. list = [n \in Names |-> list[n]]
      BY DEF Table
<1> QED BY <1>1, <1>2, <1>3, Zenon

-----------------------------------------------------------------------------
(* The steps *)

\* An empty table asks nothing of the file and of IXPC.
LEMMA EmptyOK ==
    /\ EmptyTable \in Table
    /\ \A file, pend, miss, conf :
         PodOK(EmptyTable, file, EmptyTable, pend, miss, conf)
BY DEF EmptyTable, Table, PodOK, Listed

\* Before anything runs every table is empty.
LEMMA InitIInv == PodInit => PodInv
<1> SUFFICES ASSUME PodInit PROVE PodInv
    OBVIOUS
<1>1. ClientTypeOK
      BY EmptyOK DEF PodInit, ClientInit, ClientTypeOK
<1>2. PodTypeOK
      BY <1>1, EmptyOK, PodIxpcAssumption DEF PodInit, PodTypeOK
<1>3. \A q \in Pods : pod_list[q] = EmptyTable /\ last[q] = EmptyTable
      BY DEF PodInit, ClientInit
<1> QED BY <1>2, <1>3, EmptyOK, IInvByPod

\* A reply is merged, the file written and IXPC told if anything changed.
LEMMA ReplyIInv ==
    ASSUME PodInv, NEW p \in Pods, NEW reply \in Replies, NEW ok \in BOOLEAN,
           ClientReply(p, reply, ok)
    PROVE  PodInv'
<1> DEFINE old == pod_list[p]
           r == Parsed(reply)
           m == Merge(old, r)
<1>1. /\ PodTypeOK /\ ClientTypeOK
      /\ \A q \in Pods : PodOK(pod_list[q], pod_file[q], last[q],
                               pod_pending[q], pod_missed[q], pod_config[q])
      BY IInvByPod DEF PodTypeOK
<1>2. old \in Table /\ reply \in Table /\ r \in Table
      BY <1>1, ParsedTable, PodIxpcAssumption DEF ClientTypeOK
<1>3. m \in Table
      BY <1>2, MergeAddresses
<1>4. /\ pod_list' = [pod_list EXCEPT ![p] = m]
      /\ pod_wait' = [pod_wait EXCEPT ![p] = FALSE]
      /\ pod_info' = pod_info
      /\ last' = [last EXCEPT ![p] = r]
      BY DEF ClientReply, udp_client_recv
<1>5. CASE Updated(old, r)
  <2>1. /\ pod_file' = [pod_file EXCEPT ![p] = pod_list'[p]]
        /\ ok => pod_pending[p] < PodQueueMax
        /\ pod_pending' = [pod_pending EXCEPT ![p] = IF ok THEN @ + 1 ELSE @]
        /\ pod_missed' = [pod_missed EXCEPT ![p] = @ \/ ~ok]
        /\ pod_config' = pod_config
        BY <1>5 DEF ClientReply, udp_client_recv, PodNotify
  <2> HIDE DEF m, r, old
  <2>2. pod_list'[p] = m /\ pod_file'[p] = m /\ last'[p] = r
        BY <1>1, <1>4, <2>1 DEF ClientTypeOK, PodTypeOK
  <2>3. /\ pod_list' \in [Pods -> Table] /\ pod_file' \in [Pods -> Table]
        /\ pod_wait' \in [Pods -> BOOLEAN] /\ last' \in [Pods -> Table]
        BY <1>1, <1>2, <1>3, <1>4, <2>1, <2>2 DEF ClientTypeOK, PodTypeOK
  <2>4. pod_pending' \in [Pods -> 0 .. PodQueueMax] /\ (ok => pod_pending'[p] > 0)
        BY <1>1, <2>1, PodIxpcAssumption DEF PodTypeOK
  <2>5. pod_missed' \in [Pods -> BOOLEAN] /\ (~ok => pod_missed'[p])
        BY <1>1, <2>1 DEF PodTypeOK
  <2>6. PodTypeOK'
        BY <1>1, <1>4, <2>1, <2>3, <2>4, <2>5 DEF PodTypeOK, ClientTypeOK
  <2>7. PodOK(m, m, r, pod_pending'[p], pod_missed'[p], pod_config'[p])
    <3>1. ~(pod_pending'[p] = 0 /\ ~pod_missed'[p])
          BY <2>4, <2>5
    <3> QED BY <1>2, <3>1, MergeAddresses DEF PodOK, m
  <2>8. ASSUME NEW q \in Pods, q # p
        PROVE  PodOK(pod_list'[q], pod_file'[q], last'[q], pod_pending'[q], pod_missed'[q], pod_config'[q])
    <3>1. /\ pod_list'[q] = pod_list[q] /\ pod_file'[q] = pod_file[q]
          /\ last'[q] = last[q] /\ pod_pending'[q] = pod_pending[q]
          /\ pod_missed'[q] = pod_missed[q] /\ pod_config'[q] = pod_config[q]
          BY <1>1, <1>4, <2>1, <2>8 DEF PodTypeOK, ClientTypeOK
    <3> QED BY <1>1, <3>1
  <2>9. \A q \in Pods : PodOK(pod_list'[q], pod_file'[q], last'[q],
                              pod_pending'[q], pod_missed'[q], pod_config'[q])
        BY <2>2, <2>7, <2>8
  <2> QED BY <2>6, <2>9
          DEF PodInv, AddressesOfLastReply, PodFileCurrent, PodIxpcCurrent, PodOK
<1>6. CASE ~Updated(old, r)
  <2>1. pod_file' = pod_file /\ UNCHANGED pod_ixpc_vars
        BY <1>6 DEF ClientReply, udp_client_recv
  <2>2. m = old
        BY <1>2, <1>6, MergeUnchanged
  <2> HIDE DEF m, r, old
  <2>3. pod_list' = pod_list
        BY <1>1, <1>4, <2>2 DEF ClientTypeOK, old
  <2>4. PodTypeOK'
        BY <1>1, <1>2, <1>4, <2>1, <2>3 DEF PodTypeOK, ClientTypeOK, pod_ixpc_vars
  <2>5. PodOK(pod_list[p], pod_file[p], r, pod_pending[p], pod_missed[p], pod_config[p])
        BY <1>1, <1>2, <2>2, MergeAddresses DEF PodOK, m, old
  <2>6. ASSUME NEW q \in Pods
        PROVE  PodOK(pod_list[q], pod_file[q], last'[q], pod_pending[q], pod_missed[q], pod_config[q])
    <3>1. last'[q] = IF q = p THEN r ELSE last[q]
          BY <1>1, <1>4 DEF PodTypeOK
    <3> QED BY <1>1, <2>5, <3>1
  <2> QED BY <2>1, <2>3, <2>4, <2>6
          DEF PodInv, AddressesOfLastReply, PodFileCurrent, PodIxpcCurrent, PodOK, pod_ixpc_vars
<1> QED BY <1>5, <1>6

\* IXPC takes a notice and reads the file, which is the client's table.
LEMMA ReloadIInv ==
    ASSUME PodInv, NEW p \in Pods, PodReload(p)
    PROVE  PodInv'
<1>1. PodTypeOK /\ AddressesOfLastReply /\ PodFileCurrent /\ PodIxpcCurrent
      BY DEF PodInv
<1>2. /\ pod_pending[p] > 0
      /\ pod_pending' = [pod_pending EXCEPT ![p] = @ - 1]
      /\ pod_missed' = [pod_missed EXCEPT ![p] = FALSE]
      /\ pod_config' = [pod_config EXCEPT ![p] = pod_file[p]]
      /\ UNCHANGED <<pod_info, pod_list, pod_wait, pod_file, last>>
      BY DEF PodReload, client_vars
<1>3. pod_pending' \in [Pods -> 0 .. PodQueueMax]
      BY <1>1, <1>2, PodIxpcAssumption DEF PodTypeOK
<1>4. PodTypeOK'
      BY <1>1, <1>2, <1>3 DEF PodTypeOK, ClientTypeOK
<1>5. PodIxpcCurrent'
  <2> SUFFICES ASSUME NEW q \in Pods, Listed(pod_list[q]) # {},
                      pod_pending'[q] = 0, ~pod_missed'[q]
               PROVE  pod_config'[q] = pod_list[q]
      BY <1>2 DEF PodIxpcCurrent, Listed
  <2>1. CASE q = p
        BY <1>1, <1>2, <2>1 DEF PodTypeOK, PodFileCurrent
  <2>2. CASE q # p
        BY <1>1, <1>2, <2>2 DEF PodTypeOK, PodIxpcCurrent
  <2> QED BY <2>1, <2>2
<1> QED BY <1>1, <1>2, <1>4, <1>5 DEF PodInv, AddressesOfLastReply, PodFileCurrent, Listed

\* A client loses its table: its process restarts or its pod goes.
LEMMA TableLostIInv ==
    ASSUME PodInv, NEW p \in Pods, PodTypeOK',
           pod_list' = [pod_list EXCEPT ![p] = EmptyTable],
           last' = [last EXCEPT ![p] = EmptyTable],
           \A q \in Pods \ {p} :
             /\ pod_file'[q] = pod_file[q] /\ pod_pending'[q] = pod_pending[q]
             /\ pod_missed'[q] = pod_missed[q] /\ pod_config'[q] = pod_config[q]
    PROVE  PodInv'
<1>1. /\ PodTypeOK
      /\ \A q \in Pods : PodOK(pod_list[q], pod_file[q], last[q],
                               pod_pending[q], pod_missed[q], pod_config[q])
      BY IInvByPod
<1>2. ASSUME NEW q \in Pods
      PROVE  PodOK(pod_list'[q], pod_file'[q], last'[q], pod_pending'[q], pod_missed'[q], pod_config'[q])
  <2>1. CASE q = p
    <3>1. pod_list'[q] = EmptyTable /\ last'[q] = EmptyTable
          BY <1>1, <2>1 DEF PodTypeOK, ClientTypeOK
    <3> QED BY <3>1, EmptyOK
  <2>2. CASE q # p
    <3>1. pod_list'[q] = pod_list[q] /\ last'[q] = last[q]
          BY <1>1, <2>2 DEF PodTypeOK, ClientTypeOK
    <3> QED BY <1>1, <2>2, <3>1
  <2> QED BY <2>1, <2>2
<1> QED BY <1>2 DEF PodInv, AddressesOfLastReply, PodFileCurrent, PodIxpcCurrent, PodOK

\* The pod goes with its IXPC and its files.
LEMMA StopIInv ==
    ASSUME PodInv, NEW p \in Pods, PodLost(p)
    PROVE  PodInv'
<1>1. PodTypeOK /\ ClientTypeOK
      BY DEF PodInv, PodTypeOK
<1>2. /\ pod_info' = [pod_info EXCEPT ![p] = None]
      /\ pod_list' = [pod_list EXCEPT ![p] = EmptyTable]
      /\ pod_wait' = [pod_wait EXCEPT ![p] = FALSE]
      /\ pod_file' = [pod_file EXCEPT ![p] = EmptyTable]
      /\ pod_pending' = [pod_pending EXCEPT ![p] = 0]
      /\ pod_missed' = [pod_missed EXCEPT ![p] = FALSE]
      /\ pod_config' = [pod_config EXCEPT ![p] = EmptyTable]
      /\ last' = [last EXCEPT ![p] = EmptyTable]
      BY DEF PodLost, PodStop
<1>3. ClientTypeOK'
      BY <1>1, <1>2, EmptyOK DEF ClientTypeOK
<1>4. PodTypeOK'
      BY <1>1, <1>2, <1>3, EmptyOK, PodIxpcAssumption DEF PodTypeOK
<1>5. \A q \in Pods \ {p} :
        /\ pod_file'[q] = pod_file[q] /\ pod_pending'[q] = pod_pending[q]
        /\ pod_missed'[q] = pod_missed[q] /\ pod_config'[q] = pod_config[q]
      BY <1>1, <1>2 DEF PodTypeOK, ClientTypeOK
<1> QED BY <1>2, <1>4, <1>5, TableLostIInv

\* The topo process alone restarts and finds the file and the queue.
LEMMA RestartIInv ==
    ASSUME PodInv, NEW p \in Pods, NEW info \in Reports[p], ClientRestart(p, info)
    PROVE  PodInv'
<1>1. PodTypeOK /\ ClientTypeOK
      BY DEF PodInv, PodTypeOK
<1>2. /\ pod_info' = [pod_info EXCEPT ![p] = info]
      /\ pod_list' = [pod_list EXCEPT ![p] = EmptyTable]
      /\ pod_wait' = [pod_wait EXCEPT ![p] = FALSE]
      /\ last' = [last EXCEPT ![p] = EmptyTable]
      /\ UNCHANGED <<pod_file, pod_pending, pod_missed, pod_config>>
      BY DEF ClientRestart, init_omp_client, pod_ixpc_vars
<1>3. info \in node_info_t
      BY NodeInfoAssumption
<1>4. ClientTypeOK'
      BY <1>1, <1>2, <1>3, EmptyOK DEF ClientTypeOK
<1>5. PodTypeOK'
      BY <1>1, <1>2, <1>4, EmptyOK DEF PodTypeOK
<1> QED BY <1>2, <1>5, TableLostIInv

\* topo killed between the file and the notice loses its table likewise.
LEMMA KilledIInv ==
    ASSUME PodInv, NEW p \in Pods, NEW reply \in Replies, NEW info \in Reports[p],
           ClientKilled(p, reply, info)
    PROVE  PodInv'
<1> DEFINE m == Merge(pod_list[p], Parsed(reply))
<1>1. PodTypeOK /\ ClientTypeOK
      BY DEF PodInv, PodTypeOK
<1>2. /\ pod_file' = [pod_file EXCEPT ![p] = m]
      /\ pod_info' = [pod_info EXCEPT ![p] = info]
      /\ pod_list' = [pod_list EXCEPT ![p] = EmptyTable]
      /\ pod_wait' = [pod_wait EXCEPT ![p] = FALSE]
      /\ last' = [last EXCEPT ![p] = EmptyTable]
      /\ UNCHANGED <<pod_pending, pod_missed, pod_config>>
      BY DEF ClientKilled, pod_ixpc_vars
<1>3. m \in Table
  <2>1. pod_list[p] \in Table /\ Parsed(reply) \in Table
        BY <1>1, ParsedTable, PodIxpcAssumption DEF ClientTypeOK
  <2> QED BY <2>1, MergeAddresses
<1> HIDE DEF m
<1>4. info \in node_info_t
      BY NodeInfoAssumption
<1>5. ClientTypeOK'
      BY <1>1, <1>2, <1>3, <1>4, EmptyOK DEF ClientTypeOK
<1>6. PodTypeOK'
      BY <1>1, <1>2, <1>5, EmptyOK DEF PodTypeOK
<1>7. \A q \in Pods \ {p} :
        /\ pod_file'[q] = pod_file[q] /\ pod_pending'[q] = pod_pending[q]
        /\ pod_missed'[q] = pod_missed[q] /\ pod_config'[q] = pod_config[q]
      BY <1>1, <1>2 DEF PodTypeOK, ClientTypeOK
<1> QED BY <1>2, <1>6, <1>7, TableLostIInv

\* The other steps leave tables, files and IXPCs alone.
LEMMA OthersIInv ==
    ASSUME PodInv, ClientTypeOK',
           UNCHANGED <<pod_list, pod_file, pod_pending, pod_missed, pod_config, last>>
    PROVE  PodInv'
BY DEF PodInv, PodTypeOK, AddressesOfLastReply, PodFileCurrent, PodIxpcCurrent, Listed

\* Every step keeps the invariant.
LEMMA NextIInv == PodInv /\ [PodNext]_pod_vars => PodInv'
<1> SUFFICES ASSUME PodInv, [PodNext]_pod_vars PROVE PodInv'
    OBVIOUS
<1>1. ClientTypeOK
      BY DEF PodInv, PodTypeOK
<1>2. ASSUME NEW p \in Pods, udp_client_send(p) \/ udp_client_timeout(p),
             UNCHANGED <<pod_ixpc_vars, last>>
      PROVE  PodInv'
  <2>1. /\ pod_wait' \in [Pods -> BOOLEAN]
        /\ UNCHANGED <<pod_info, pod_list, pod_file, pod_pending, pod_missed, pod_config, last>>
        BY <1>1, <1>2 DEF udp_client_send, udp_client_timeout, ClientTypeOK, pod_ixpc_vars
  <2>2. ClientTypeOK'
        BY <1>1, <2>1 DEF ClientTypeOK
  <2> QED BY <2>1, <2>2, OthersIInv
<1>3. ASSUME NEW p \in Pods, NEW reply \in Replies, NEW ok \in BOOLEAN, ClientReply(p, reply, ok)
      PROVE  PodInv'
      BY <1>3, ReplyIInv
<1>4. ASSUME NEW p \in Pods, NEW info \in Reports[p], PodStart(p, info),
             UNCHANGED <<pod_ixpc_vars, last>>
      PROVE  PodInv'
  <2>1. info \in node_info_t
        BY NodeInfoAssumption
  <2>2. /\ pod_info' \in [Pods -> node_info_t \cup {None}]
        /\ UNCHANGED <<pod_wait, pod_list, pod_file, pod_pending, pod_missed, pod_config, last>>
        BY <1>1, <1>4, <2>1 DEF PodStart, ClientTypeOK, pod_ixpc_vars
  <2>3. ClientTypeOK'
        BY <1>1, <2>2 DEF ClientTypeOK
  <2> QED BY <2>2, <2>3, OthersIInv
<1>5. ASSUME NEW p \in Pods, NEW info \in Reports[p], ClientRestart(p, info)
      PROVE  PodInv'
      BY <1>5, RestartIInv
<1>6. ASSUME NEW p \in Pods, PodLost(p) PROVE PodInv'
      BY <1>6, StopIInv
<1>7. ASSUME NEW p \in Pods, PodReload(p) PROVE PodInv'
      BY <1>7, ReloadIInv
<1>9. ASSUME NEW p \in Pods, NEW reply \in Replies, NEW info \in Reports[p],
             ClientKilled(p, reply, info)
      PROVE  PodInv'
      BY <1>9, KilledIInv
<1>8. CASE UNCHANGED pod_vars
  <2>1. /\ UNCHANGED <<pod_info, pod_wait>>
        /\ UNCHANGED <<pod_list, pod_file, pod_pending, pod_missed, pod_config, last>>
        BY <1>8 DEF pod_vars, client_vars, pod_ixpc_vars
  <2>2. ClientTypeOK'
        BY <1>1, <2>1 DEF ClientTypeOK
  <2> QED BY <2>1, <2>2, OthersIInv
<1> QED BY <1>2, <1>3, <1>4, <1>5, <1>6, <1>7, <1>8, <1>9 DEF PodNext, PodStep

-----------------------------------------------------------------------------
\* Whatever the OMP answers and in whatever order, and whichever notice is
\* refused, the invariant holds of every client and its IXPC.
THEOREM IInvHolds == PodSpec => []PodInv
BY InitIInv, NextIInv, PTL DEF PodSpec

\* The state keeps its types; the queue of an IXPC keeps to its bound.
THEOREM TypeCorrect == PodSpec => []PodTypeOK
<1>1. PodInv => PodTypeOK
      BY DEF PodInv
<1> QED BY <1>1, IInvHolds, PTL

\* A client's table has the names and the addresses of the last reply it
\* merged, whatever it held before (udp_client_proc).
THEOREM AddressesFollowReplies == PodSpec => []AddressesOfLastReply
<1>1. PodInv => AddressesOfLastReply
      BY DEF PodInv
<1> QED BY <1>1, IInvHolds, PTL

\* A client's associate_config is its table as soon as the table is not empty
\* (assoc_info_print is called whenever update_count is not 0).
THEOREM FilesFollowTables == PodSpec => []PodFileCurrent
<1>1. PodInv => PodFileCurrent
      BY DEF PodInv
<1> QED BY <1>1, IInvHolds, PTL

\* With no notice under way and none refused, a pod's IXPC works with the
\* table of its client (PodNotify).
THEOREM IxpcsFollowTables == PodSpec => []PodIxpcCurrent
<1>1. PodInv => PodIxpcCurrent
      BY DEF PodInv
<1> QED BY <1>1, IInvHolds, PTL
=============================================================================
