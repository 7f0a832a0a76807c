----------------------------- MODULE TopoProofs -----------------------------
(***************************************************************************)
(* Proof of Integrity for the whole topology service: any number of pods,   *)
(* any reports, any number of restarts and of datagrams under way.          *)
(***************************************************************************)
EXTENDS Topo, TopoServerProofs

\* What a pod reports and what is under way from it was reported by it.
Reported ==
    /\ \A p \in Pods : pod_info[p] # None => pod_info[p] \in reported[p]
    /\ \A r \in reqs : r.info \in reported[r.pod]

\* Replies under way are genuine tables.
RepliesGenuine == \A q \in Pods : \A t \in reps[q] : Genuine(t)

\* The inductive invariant: Integrity follows what is under way.
IInv == TypeOK /\ Reported /\ RepliesGenuine /\ Integrity

-----------------------------------------------------------------------------
\* An entry stays made from the reports when more reports come.
LEMMA MadeFromMore ==
    ASSUME NEW R, NEW S, R \subseteq S, NEW e, MadeFrom(R, e)
    PROVE  MadeFrom(S, e)
BY DEF MadeFrom

\* The server's parse of a report.
LEMMA ParsedFromPod ==
    ASSUME NEW r \in node_info_t, NEW R, r \in R
    PROVE  /\ assoc_info_get_from_pod(r) \in node_info_t
           /\ MadeFrom(R, assoc_info_get_from_pod(r))
BY DEF node_info_t, assoc_info_get_from_pod, Scan, MadeFrom

\* A client's parse of an entry.
LEMMA ParsedFromOmp ==
    ASSUME NEW e \in node_info_t
    PROVE  /\ assoc_info_get_from_omp(e) \in node_info_t
           /\ \A R : MadeFrom(R, e) => MadeFrom(R, assoc_info_get_from_omp(e))
BY DEF node_info_t, assoc_info_get_from_omp, Scan, MadeFrom

\* What udp_server_proc leaves for the pod it heard.
LEMMA EntryMadeFrom ==
    ASSUME node_list \in Table, NEW p \in Pods, NEW info \in node_info_t, NEW R,
           MadeFrom(R, info), node_list[p] # None => MadeFrom(R, node_list[p])
    PROVE  /\ NewEntry(p, info) \in node_info_t
           /\ MadeFrom(R, NewEntry(p, info))
<1>1. node_list[p] \in node_info_t \cup {None}
      BY DEF Table, Names
<1>2. CASE node_list[p] = None
      BY <1>2 DEF NewEntry
<1>3. CASE node_list[p] # None
  <2>1. node_list[p] \in node_info_t
        BY <1>1, <1>3
  <2>2. MadeFrom(R, node_list[p])
        BY <1>3
  <2> DEFINE e == [info EXCEPT !.mgnt_port = node_list[p].mgnt_port]
  <2>3. e \in node_info_t
        BY <2>1 DEF node_info_t
  <2>4. /\ e.group = info.group /\ e.mgnt_pri_ip = info.mgnt_pri_ip
        /\ e.serv_pri_ip = info.serv_pri_ip
        /\ e.mgnt_port = node_list[p].mgnt_port
        BY DEF node_info_t
  <2>5. MadeFrom(R, e)
        BY <2>2, <2>4 DEF MadeFrom
  <2>6. NewEntry(p, info) \in {e, node_list[p]}
        BY <1>3 DEF NewEntry
  <2> QED BY <2>1, <2>2, <2>3, <2>5, <2>6
<1> QED BY <1>2, <1>3

\* What a client leaves of its table and a reply.
LEMMA MergedTable ==
    ASSUME NEW l \in Table, NEW t \in Table, Genuine(l), Genuine(t)
    PROVE  Merge(l, Parsed(t)) \in Table /\ Genuine(Merge(l, Parsed(t)))
<1>1. Parsed(t) \in Table
      BY ParsedFromOmp DEF Parsed, Table
<1>2. ASSUME NEW p \in Pods, Parsed(t)[p] # None
      PROVE  MadeFrom(reported[p], Parsed(t)[p])
  <2>1. p \in Names
        BY DEF Names
  <2>2. t[p] # None /\ Parsed(t)[p] = assoc_info_get_from_omp(t[p])
        BY <1>2, <2>1 DEF Parsed
  <2>3. t[p] \in node_info_t
        BY <2>1, <2>2 DEF Table
  <2>4. MadeFrom(reported[p], t[p])
        BY <2>2 DEF Genuine
  <2> QED BY <2>2, <2>3, <2>4, ParsedFromOmp
<1>3. \A n \in Names : Merge(l, Parsed(t))[n] \in {l[n], Parsed(t)[n]}
      BY DEF Merge, node_proc_omp_send_info, assoc_info_remove_uncheck_node
<1>4. Merge(l, Parsed(t)) \in Table
      BY <1>1 DEF Merge, node_proc_omp_send_info, assoc_info_remove_uncheck_node, Table
<1>5. Genuine(Merge(l, Parsed(t)))
      BY <1>2, <1>3 DEF Genuine, Names
<1> QED BY <1>4, <1>5

\* Closing a socket puts nothing new under way.
LEMMA CloseFacts ==
    ASSUME TypeOK, NEW p \in Pods, Close(p)
    PROVE  /\ reqs' \subseteq Request
           /\ \A r \in reqs' : \E s \in reqs : s.pod = r.pod /\ s.info = r.info
           /\ reps' \in [Pods -> SUBSET Table]
           /\ \A q \in Pods : reps'[q] \subseteq reps[q]
<1> DEFINE mine == {r \in reqs : r.pod = p /\ r.open}
           closed == {[r EXCEPT !.open = FALSE] : r \in mine}
<1>1. reqs' \subseteq reqs \cup closed
      BY DEF Close
<1>2. reqs \subseteq Request
      BY DEF TypeOK
<1>3. ASSUME NEW r \in closed
      PROVE  r \in Request /\ \E s \in reqs : s.pod = r.pod /\ s.info = r.info
  <2>1. PICK s \in mine : r = [s EXCEPT !.open = FALSE]
        OBVIOUS
  <2>2. s \in Request /\ s \in reqs
        BY <1>2
  <2>3. r \in Request /\ r.pod = s.pod /\ r.info = s.info
        BY <2>1, <2>2 DEF Request
  <2> QED BY <2>2, <2>3
<1>4. reps' = [reps EXCEPT ![p] = {}]
      BY DEF Close
<1>5. reps \in [Pods -> SUBSET Table]
      BY DEF TypeOK
<1>6. reps' \in [Pods -> SUBSET Table] /\ \A q \in Pods : reps'[q] \subseteq reps[q]
      BY <1>4, <1>5
<1> QED BY <1>1, <1>2, <1>3, <1>6

-----------------------------------------------------------------------------
(* The steps.                                                               *)

\* Before anything runs nothing is listed and nothing is under way.
LEMMA InitIInv == Init => IInv
<1> SUFFICES ASSUME Init PROVE IInv
    OBVIOUS
<1>1. EmptyTable \in Table /\ \A p \in Pods : EmptyTable[p] = None
      BY DEF EmptyTable, Table, Names
<1>2. age \in [Names -> 0 .. AssocClearTm] /\ changes \in 0 .. MaxChanges
      BY ServerAssumption, TopoAssumption DEF Init, ServerInit
<1>3. ServerTypeOK
      BY <1>1, <1>2, Zenon DEF Init, ServerInit, ServerTypeOK
<1>4. ClientTypeOK
      BY <1>1 DEF Init, ClientInit, ClientTypeOK
<1>5. TypeOK
      BY <1>2, <1>3, <1>4 DEF Init, TypeOK
<1>6. Genuine(node_list) /\ \A q \in Pods : Genuine(pod_list[q])
      BY <1>1 DEF Init, ServerInit, ClientInit, Genuine
<1> QED BY <1>5, <1>6 DEF Init, ClientInit, IInv, Reported, RepliesGenuine, Integrity

\* A heartbeat leaves.
LEMMA ClientSendIInv ==
    ASSUME IInv, NEW p \in Pods, ClientSend(p)
    PROVE  IInv'
<1> DEFINE r == [pod |-> p, info |-> pod_info[p], open |-> TRUE]
<1>1. TypeOK /\ Reported /\ RepliesGenuine /\ Integrity
      BY DEF IInv
<1>2. /\ pod_info[p] # None /\ pod_wait' = [pod_wait EXCEPT ![p] = TRUE]
      /\ reqs' = reqs \cup {r}
      /\ pod_info' = pod_info /\ pod_list' = pod_list /\ pod_file' = pod_file
      /\ UNCHANGED <<omp_up, node_list, age, reps, changes,
                     reported>>
      BY DEF ClientSend, udp_client_send, server_vars
<1>3. pod_info[p] \in node_info_t /\ pod_info[p] \in reported[p]
      BY <1>1, <1>2 DEF TypeOK, ClientTypeOK, Reported
<1>4. r \in Request
      BY <1>3 DEF Request
<1>5. pod_wait' \in [Pods -> BOOLEAN]
      BY <1>1, <1>2 DEF TypeOK, ClientTypeOK
<1>6. ServerTypeOK'
      BY <1>1, <1>2 DEF TypeOK, ServerTypeOK
<1>7. ClientTypeOK'
      BY <1>1, <1>2, <1>5 DEF TypeOK, ClientTypeOK
<1>8. TypeOK'
      BY <1>1, <1>2, <1>4, <1>6, <1>7 DEF TypeOK
<1>9. Reported'
      BY <1>1, <1>2, <1>3 DEF Reported
<1> QED BY <1>1, <1>2, <1>8, <1>9 DEF IInv, RepliesGenuine, Integrity, Genuine

\* The server hears a heartbeat, late or duplicated, and answers.
LEMMA ServerRecvIInv ==
    ASSUME IInv, NEW r \in reqs, NEW lost \in BOOLEAN, ServerRecv(r, lost)
    PROVE  IInv'
<1> DEFINE p == r.pod
           info == assoc_info_get_from_pod(r.info)
<1>1. TypeOK /\ Reported /\ RepliesGenuine /\ Integrity
      BY DEF IInv
<1>2. /\ udp_server_proc(p, r.info)
      /\ reqs' \subseteq reqs
      /\ reps' = reps \/ reps' = [reps EXCEPT ![p] = @ \cup {node_list'}]
      /\ UNCHANGED <<pod_info, pod_list, pod_wait, pod_file, changes, reported>>
      BY DEF ServerRecv, client_vars
<1>3. r \in Request
      BY <1>1 DEF TypeOK
<1>4. p \in Pods /\ r.info \in node_info_t /\ r.info \in reported[p]
      BY <1>1, <1>3 DEF Request, Reported
<1>5. ServerTypeOK /\ node_list \in Table
      BY <1>1 DEF TypeOK, ServerTypeOK
<1>6. ServerTypeOK'
      BY <1>2, <1>4, <1>5, HeartbeatType
<1>7. info \in node_info_t /\ MadeFrom(reported[p], info)
      BY <1>4, ParsedFromPod
<1>8. node_list[p] # None => MadeFrom(reported[p], node_list[p])
      BY <1>1, <1>4 DEF Integrity, Genuine
<1>9. MadeFrom(reported[p], NewEntry(p, info))
      BY <1>4, <1>5, <1>7, <1>8, EntryMadeFrom
<1>10. node_list' = [node_list EXCEPT ![p] = NewEntry(p, info)]
      BY <1>2 DEF udp_server_proc
<1>11. \A q \in Pods : node_list'[q] = IF q = p THEN NewEntry(p, info) ELSE node_list[q]
      BY <1>4, <1>5, <1>10 DEF Table, Names
<1>12. \A q \in Pods : node_list'[q] # None => MadeFrom(reported[q], node_list'[q])
      BY <1>1, <1>9, <1>11 DEF Integrity, Genuine
<1>13. node_list' \in Table
      BY <1>6 DEF ServerTypeOK
<1>14. /\ reps' \in [Pods -> SUBSET Table]
       /\ \A q \in Pods : reps'[q] \subseteq reps[q] \cup {node_list'}
      BY <1>1, <1>2, <1>4, <1>13 DEF TypeOK
<1>15. TypeOK'
      BY <1>1, <1>2, <1>6, <1>14 DEF TypeOK, ClientTypeOK
<1>16. Reported'
      BY <1>1, <1>2 DEF Reported
<1>17. RepliesGenuine'
  <2> SUFFICES ASSUME NEW q \in Pods, NEW t \in reps'[q], NEW s \in Pods, t[s] # None
               PROVE  MadeFrom(reported[s], t[s])
      BY <1>2 DEF RepliesGenuine, Genuine
  <2>1. CASE t = node_list'
        BY <1>12, <2>1
  <2>2. CASE t \in reps[q]
        BY <1>1, <2>2 DEF RepliesGenuine, Genuine
  <2> QED BY <1>14, <2>1, <2>2
<1>18. Integrity'
      BY <1>1, <1>2, <1>12 DEF Integrity, Genuine
<1> QED BY <1>15, <1>16, <1>17, <1>18 DEF IInv

\* A round of a client ends, with a reply or without; a client restarts; a pod
\* goes: its socket closes and its table is a genuine one.
LEMMA RoundEndsIInv ==
    ASSUME IInv, NEW p \in Pods, Close(p), ClientTypeOK',
           changes' \in 0 .. MaxChanges, reported' \in [Pods -> SUBSET node_info_t],
           \A q \in Pods : reported[q] \subseteq reported'[q],
           \A q \in Pods : pod_info'[q] # None => pod_info'[q] \in reported'[q],
           \A q \in Pods \ {p} : pod_list'[q] = pod_list[q],
           Genuine(pod_list'[p]) \/ pod_list'[p] = EmptyTable,
           UNCHANGED server_vars
    PROVE  IInv'
<1>1. TypeOK /\ Reported /\ RepliesGenuine /\ Integrity
      BY DEF IInv
<1>2. /\ reqs' \subseteq Request
      /\ \A r \in reqs' : \E s \in reqs : s.pod = r.pod /\ s.info = r.info
      /\ reps' \in [Pods -> SUBSET Table]
      /\ \A q \in Pods : reps'[q] \subseteq reps[q]
      BY <1>1, CloseFacts
<1>3. ServerTypeOK' /\ node_list' = node_list
      BY <1>1 DEF TypeOK, ServerTypeOK, server_vars
<1>4. TypeOK'
      BY <1>2, <1>3 DEF TypeOK
<1>5. ASSUME NEW t, Genuine(t)
      PROVE  \A q \in Pods : t[q] # None => MadeFrom(reported'[q], t[q])
      BY <1>5, MadeFromMore DEF Genuine
<1>6. \A q \in Pods : EmptyTable[q] = None
      BY DEF EmptyTable, Names
<1>7. Reported'
  <2>1. ASSUME NEW r \in reqs' PROVE r.info \in reported'[r.pod]
    <3>1. PICK s \in reqs : s.pod = r.pod /\ s.info = r.info
          BY <1>2
    <3>2. r.pod \in Pods
          BY <1>2 DEF Request
    <3> QED BY <1>1, <3>1, <3>2 DEF Reported
  <2> QED BY <2>1 DEF Reported
<1>8. RepliesGenuine'
  <2> SUFFICES ASSUME NEW q \in Pods, NEW t \in reps'[q]
               PROVE  \A s \in Pods : t[s] # None => MadeFrom(reported'[s], t[s])
      BY DEF RepliesGenuine, Genuine
  <2>1. Genuine(t)
        BY <1>1, <1>2 DEF RepliesGenuine
  <2> QED BY <1>5, <2>1
<1>9. Integrity'
  <2>1. Genuine(node_list)'
        BY <1>1, <1>3, <1>5 DEF Integrity, Genuine
  <2>2. ASSUME NEW q \in Pods PROVE Genuine(pod_list[q])'
    <3>1. Genuine(pod_list[q])
          BY <1>1 DEF Integrity
    <3>2. Genuine(pod_list'[q]) \/ pod_list'[q] = EmptyTable
          BY <3>1
    <3> QED BY <1>5, <1>6, <3>2 DEF Genuine
  <2> QED BY <2>1, <2>2 DEF Integrity
<1> QED BY <1>4, <1>7, <1>8, <1>9 DEF IInv

\* udp_client_recv: a client merges a reply and its round ends.
LEMMA ClientRecvIInv ==
    ASSUME IInv, NEW p \in Pods, ClientRecv(p)
    PROVE  IInv'
<1>1. TypeOK /\ Reported /\ RepliesGenuine /\ Integrity
      BY DEF IInv
<1>2. PICK t \in reps[p] : udp_client_recv(p, t)
      BY DEF ClientRecv
<1>3. Close(p) /\ UNCHANGED <<server_vars, changes, reported>>
      BY DEF ClientRecv
<1>4. t \in Table /\ Genuine(t) /\ pod_list[p] \in Table /\ Genuine(pod_list[p])
      BY <1>1 DEF TypeOK, ClientTypeOK, RepliesGenuine, Integrity
<1> DEFINE m == Merge(pod_list[p], Parsed(t))
<1>5. m \in Table /\ Genuine(m)
      BY <1>4, MergedTable
<1>6. /\ pod_list' = [pod_list EXCEPT ![p] = m]
      /\ pod_wait' = [pod_wait EXCEPT ![p] = FALSE]
      /\ pod_info' = pod_info
      /\ pod_file' = pod_file \/ pod_file' = [pod_file EXCEPT ![p] = pod_list'[p]]
      BY <1>2 DEF udp_client_recv
<1> HIDE DEF m
<1>7. pod_list' \in [Pods -> Table] /\ pod_list'[p] = m
      /\ \A q \in Pods \ {p} : pod_list'[q] = pod_list[q]
      BY <1>1, <1>5, <1>6 DEF TypeOK, ClientTypeOK
<1>8. pod_file' \in [Pods -> Table]
      BY <1>1, <1>5, <1>6, <1>7 DEF TypeOK, ClientTypeOK
<1>9. pod_wait' \in [Pods -> BOOLEAN]
      BY <1>1, <1>6 DEF TypeOK, ClientTypeOK
<1>10. ClientTypeOK'
      BY <1>1, <1>6, <1>7, <1>8, <1>9 DEF TypeOK, ClientTypeOK
<1>11. /\ changes' \in 0 .. MaxChanges /\ reported' \in [Pods -> SUBSET node_info_t]
       /\ \A q \in Pods : reported[q] \subseteq reported'[q]
       /\ \A q \in Pods : pod_info'[q] # None => pod_info'[q] \in reported'[q]
      BY <1>1, <1>3, <1>6 DEF TypeOK, Reported
<1> QED BY <1>3, <1>5, <1>7, <1>10, <1>11, RoundEndsIInv

\* udp_client_timeout: no answer; only the socket is gone.
LEMMA ClientTimeoutIInv ==
    ASSUME IInv, NEW p \in Pods, ClientTimeout(p)
    PROVE  IInv'
<1>1. TypeOK /\ Reported /\ Integrity
      BY DEF IInv
<1>2. /\ Close(p) /\ UNCHANGED <<server_vars, changes, reported>>
      /\ pod_wait' = [pod_wait EXCEPT ![p] = FALSE]
      /\ pod_info' = pod_info /\ pod_list' = pod_list /\ pod_file' = pod_file
      BY DEF ClientTimeout, udp_client_timeout
<1>3. pod_wait' \in [Pods -> BOOLEAN]
      BY <1>1, <1>2 DEF TypeOK, ClientTypeOK
<1>4. ClientTypeOK'
      BY <1>1, <1>2, <1>3 DEF TypeOK, ClientTypeOK
<1>5. /\ changes' \in 0 .. MaxChanges /\ reported' \in [Pods -> SUBSET node_info_t]
      /\ \A q \in Pods : reported[q] \subseteq reported'[q]
      /\ \A q \in Pods : pod_info'[q] # None => pod_info'[q] \in reported'[q]
      /\ Genuine(pod_list'[p])
      BY <1>1, <1>2 DEF TypeOK, Reported, Integrity
<1> QED BY <1>2, <1>4, <1>5, RoundEndsIInv

\* A bounded change stays within its bound.
LEMMA ChangeType ==
    ASSUME changes \in 0 .. MaxChanges, Change
    PROVE  changes' \in 0 .. MaxChanges
BY TopoAssumption DEF Change

\* A pod goes, with its memory and its files.
LEMMA StopIInv ==
    ASSUME IInv, NEW p \in Pods, Stop(p)
    PROVE  IInv'
<1>1. TypeOK /\ Reported /\ Integrity
      BY DEF IInv
<1>2. /\ Close(p) /\ Change /\ UNCHANGED <<server_vars, reported>>
      /\ pod_info' = [pod_info EXCEPT ![p] = None]
      /\ pod_list' = [pod_list EXCEPT ![p] = EmptyTable]
      /\ pod_wait' = [pod_wait EXCEPT ![p] = FALSE]
      /\ pod_file' = [pod_file EXCEPT ![p] = EmptyTable]
      BY DEF Stop, PodStop
<1>3. EmptyTable \in Table
      BY DEF EmptyTable, Table
<1>4. ClientTypeOK'
      BY <1>1, <1>2, <1>3 DEF TypeOK, ClientTypeOK
<1>5. changes' \in 0 .. MaxChanges
      BY <1>1, <1>2, ChangeType DEF TypeOK
<1>6. /\ reported' \in [Pods -> SUBSET node_info_t]
      /\ \A q \in Pods : reported[q] \subseteq reported'[q]
      BY <1>1, <1>2 DEF TypeOK
<1>7. \A q \in Pods : pod_info'[q] # None => pod_info'[q] \in reported'[q]
      BY <1>1, <1>2 DEF TypeOK, ClientTypeOK, Reported
<1>8. /\ \A q \in Pods \ {p} : pod_list'[q] = pod_list[q]
      /\ pod_list'[p] = EmptyTable
      BY <1>1, <1>2 DEF TypeOK, ClientTypeOK
<1> QED BY <1>2, <1>4, <1>5, <1>6, <1>7, <1>8, RoundEndsIInv

\* What a pod newly has to report joins its history.
LEMMA ReportedGrows ==
    ASSUME IInv, NEW p \in Pods, NEW info \in Reports[p],
           pod_info' = [pod_info EXCEPT ![p] = info],
           reported' = [reported EXCEPT ![p] = @ \cup {info}]
    PROVE  /\ info \in node_info_t
           /\ pod_info' \in [Pods -> node_info_t \cup {None}]
           /\ reported' \in [Pods -> SUBSET node_info_t]
           /\ \A q \in Pods : reported[q] \subseteq reported'[q]
           /\ \A q \in Pods : pod_info'[q] # None => pod_info'[q] \in reported'[q]
<1>1. TypeOK /\ Reported
      BY DEF IInv
<1>2. info \in node_info_t
      BY NodeInfoAssumption
<1>3. /\ pod_info \in [Pods -> node_info_t \cup {None}]
      /\ reported \in [Pods -> SUBSET node_info_t]
      BY <1>1 DEF TypeOK, ClientTypeOK
<1>4. \A q \in Pods : /\ reported'[q] = IF q = p THEN reported[p] \cup {info}
                                        ELSE reported[q]
                      /\ pod_info'[q] = IF q = p THEN info ELSE pod_info[q]
      BY <1>3
<1>5. /\ pod_info' \in [Pods -> node_info_t \cup {None}]
      /\ reported' \in [Pods -> SUBSET node_info_t]
      BY <1>2, <1>3
<1> QED BY <1>1, <1>2, <1>4, <1>5 DEF Reported

\* The topo process of a pod restarts and reads its labels again.
LEMMA RestartIInv ==
    ASSUME IInv, NEW p \in Pods, NEW info \in Reports[p], Restart(p, info)
    PROVE  IInv'
<1>1. TypeOK
      BY DEF IInv
<1>2. /\ Close(p) /\ Change /\ UNCHANGED server_vars
      /\ reported' = [reported EXCEPT ![p] = @ \cup {info}]
      /\ pod_info' = [pod_info EXCEPT ![p] = info]
      /\ pod_list' = [pod_list EXCEPT ![p] = EmptyTable]
      /\ pod_wait' = [pod_wait EXCEPT ![p] = FALSE]
      /\ pod_file' = pod_file
      BY DEF Restart, init_omp_client
<1>3. EmptyTable \in Table
      BY DEF EmptyTable, Table
<1>4. /\ pod_info' \in [Pods -> node_info_t \cup {None}]
      /\ reported' \in [Pods -> SUBSET node_info_t]
      /\ \A q \in Pods : reported[q] \subseteq reported'[q]
      /\ \A q \in Pods : pod_info'[q] # None => pod_info'[q] \in reported'[q]
      BY <1>2, ReportedGrows
<1>5. ClientTypeOK'
      BY <1>1, <1>2, <1>3, <1>4 DEF TypeOK, ClientTypeOK
<1>6. changes' \in 0 .. MaxChanges
      BY <1>1, <1>2, ChangeType DEF TypeOK
<1>7. /\ \A q \in Pods \ {p} : pod_list'[q] = pod_list[q]
      /\ pod_list'[p] = EmptyTable
      BY <1>1, <1>2 DEF TypeOK, ClientTypeOK
<1> QED BY <1>2, <1>4, <1>5, <1>6, <1>7, RoundEndsIInv

\* A pod is created.
LEMMA StartIInv ==
    ASSUME IInv, NEW p \in Pods, NEW info \in Reports[p], Start(p, info)
    PROVE  IInv'
<1>1. TypeOK /\ Reported /\ RepliesGenuine /\ Integrity
      BY DEF IInv
<1>2. /\ reported' = [reported EXCEPT ![p] = @ \cup {info}]
      /\ pod_info' = [pod_info EXCEPT ![p] = info]
      /\ UNCHANGED <<pod_list, pod_wait, pod_file, reqs, reps, changes, omp_up,
                     node_list, age>>
      BY DEF Start, PodStart, server_vars, net_vars
<1>3. /\ pod_info' \in [Pods -> node_info_t \cup {None}]
      /\ reported' \in [Pods -> SUBSET node_info_t]
      /\ \A q \in Pods : reported[q] \subseteq reported'[q]
      /\ \A q \in Pods : pod_info'[q] # None => pod_info'[q] \in reported'[q]
      BY <1>2, ReportedGrows
<1>4. ServerTypeOK' /\ ClientTypeOK'
      BY <1>1, <1>2, <1>3 DEF TypeOK, ServerTypeOK, ClientTypeOK
<1>5. TypeOK'
      BY <1>1, <1>2, <1>3, <1>4 DEF TypeOK
<1>6. ASSUME NEW t, Genuine(t)
      PROVE  \A q \in Pods : t[q] # None => MadeFrom(reported'[q], t[q])
      BY <1>3, <1>6, MadeFromMore DEF Genuine
<1>7. Reported'
  <2>1. ASSUME NEW r \in reqs PROVE r.info \in reported'[r.pod]
    <3>1. r.pod \in Pods
          BY <1>1 DEF TypeOK, Request
    <3> QED BY <1>1, <1>3, <3>1 DEF Reported
  <2> QED BY <1>2, <1>3, <2>1 DEF Reported
<1>8. RepliesGenuine'
  <2> SUFFICES ASSUME NEW q \in Pods, NEW t \in reps[q]
               PROVE  \A s \in Pods : t[s] # None => MadeFrom(reported'[s], t[s])
      BY <1>2 DEF RepliesGenuine, Genuine
  <2>1. Genuine(t)
        BY <1>1 DEF RepliesGenuine
  <2> QED BY <1>6, <2>1
<1>9. Integrity'
  <2>1. Genuine(node_list)'
        BY <1>1, <1>2, <1>6 DEF Integrity, Genuine
  <2>2. ASSUME NEW q \in Pods PROVE Genuine(pod_list[q])'
    <3>1. Genuine(pod_list[q])
          BY <1>1 DEF Integrity
    <3> QED BY <1>2, <1>6, <3>1 DEF Genuine
  <2> QED BY <2>1, <2>2 DEF Integrity
<1> QED BY <1>5, <1>7, <1>8, <1>9 DEF IInv

\* Any step of the server that no datagram causes: each entry of a pod stays or
\* goes.
LEMMA ServerAloneIInv ==
    ASSUME IInv, ServerTypeOK', changes' \in 0 .. MaxChanges,
           UNCHANGED <<client_vars, reps, reported>>,
           reqs' \subseteq reqs,
           \A q \in Pods : node_list'[q] = None \/ node_list'[q] = node_list[q]
    PROVE  IInv'
<1>1. TypeOK /\ Reported /\ RepliesGenuine /\ Integrity
      BY DEF IInv
<1>2. TypeOK'
      BY <1>1 DEF TypeOK, ClientTypeOK, client_vars
<1>3. Reported' /\ RepliesGenuine'
      BY <1>1 DEF Reported, RepliesGenuine, Genuine, client_vars
<1>4. Integrity'
      BY <1>1 DEF Integrity, Genuine, client_vars
<1> QED BY <1>2, <1>3, <1>4 DEF IInv

\* Every step keeps the invariant.
LEMMA NextIInv == IInv /\ [Next]_vars => IInv'
<1> SUFFICES ASSUME IInv, [Next]_vars PROVE IInv'
    OBVIOUS
<1>1. TypeOK /\ ServerTypeOK /\ changes \in 0 .. MaxChanges /\ node_list \in Table
      BY DEF IInv, TypeOK, ServerTypeOK
<1>2. ASSUME NEW p \in Pods, ClientSend(p) PROVE IInv'
      BY <1>2, ClientSendIInv
<1>3. ASSUME NEW p \in Pods, ClientRecv(p) PROVE IInv'
      BY <1>3, ClientRecvIInv
<1>4. ASSUME NEW p \in Pods, ClientTimeout(p) PROVE IInv'
      BY <1>4, ClientTimeoutIInv
<1>5. ASSUME NEW p \in Pods, Stop(p) PROVE IInv'
      BY <1>5, StopIInv
<1>6. ASSUME NEW p \in Pods, NEW info \in Reports[p], Start(p, info) PROVE IInv'
      BY <1>6, StartIInv
<1>7. ASSUME NEW p \in Pods, NEW info \in Reports[p], Restart(p, info) PROVE IInv'
      BY <1>7, RestartIInv
<1>8. ASSUME NEW r \in reqs, NEW lost \in BOOLEAN, ServerRecv(r, lost) PROVE IInv'
      BY <1>8, ServerRecvIInv
<1>9. ASSUME NEW r \in reqs, Lose(r) PROVE IInv'
  <2>1. ServerTypeOK' /\ node_list' = node_list
        BY <1>1, <1>9 DEF Lose, ServerTypeOK, server_vars
  <2>2. reqs' \subseteq reqs /\ UNCHANGED <<client_vars, reps, changes, reported>>
        BY <1>9 DEF Lose
  <2> QED BY <1>1, <2>1, <2>2, ServerAloneIInv
<1>10. CASE OmpCrash
  <2>1. ServerTypeOK' /\ node_list' = node_list
        BY <1>1, <1>10, OtherServerStepsType DEF OmpCrash, ServerCrash
  <2>2. changes' \in 0 .. MaxChanges
        BY <1>1, <1>10, ChangeType DEF OmpCrash
  <2>3. reqs' = reqs /\ UNCHANGED <<client_vars, reps, reported>>
        BY <1>10 DEF OmpCrash, net_vars
  <2> QED BY <2>1, <2>2, <2>3, ServerAloneIInv
<1>11. CASE OmpStart
  <2>1. ServerTypeOK' /\ node_list' = OmpOnly
        BY <1>1, <1>11, OtherServerStepsType DEF OmpStart, init_omp_server
  <2>2. reqs' = reqs /\ UNCHANGED <<client_vars, reps, changes, reported>>
        BY <1>11 DEF OmpStart, net_vars
  <2> QED BY <1>1, <2>1, <2>2, OmpOnlyFacts, ServerAloneIInv
<1>12. CASE OmpTick
  <2>1. ServerTypeOK'
        BY <1>1, <1>12, OtherServerStepsType DEF OmpTick
  <2>2. \A q \in Pods : node_list'[q] = None \/ node_list'[q] = node_list[q]
        BY <1>12 DEF OmpTick, main_tick, assoc_info_cleanup, Names
  <2>3. reqs' = reqs /\ UNCHANGED <<client_vars, reps, changes, reported>>
        BY <1>12 DEF OmpTick, net_vars
  <2> QED BY <1>1, <2>1, <2>2, <2>3, ServerAloneIInv
<1>13. CASE Clock
  <2>1. ServerTypeOK' /\ node_list' = node_list
        BY <1>1, <1>13, OtherServerStepsType DEF Clock, Second
  <2>2. reqs' = reqs /\ UNCHANGED <<client_vars, reps, changes, reported>>
        BY <1>13 DEF Clock, net_vars
  <2> QED BY <1>1, <2>1, <2>2, ServerAloneIInv
<1>14. CASE UNCHANGED vars
  <2>1. ServerTypeOK' /\ node_list' = node_list
        BY <1>1, <1>14 DEF vars, ServerTypeOK, server_vars
  <2>2. reqs' = reqs /\ UNCHANGED <<client_vars, reps, changes, reported>>
        BY <1>14 DEF vars, net_vars
  <2> QED BY <1>1, <2>1, <2>2, ServerAloneIInv
<1> QED BY <1>2, <1>3, <1>4, <1>5, <1>6, <1>7, <1>8, <1>9, <1>10, <1>11, <1>12,
           <1>13, <1>14 DEF Next

-----------------------------------------------------------------------------
\* Whatever the network loses, doubles and delays and whoever restarts, nothing
\* under way and nothing listed is anything but what its pod reported.
THEOREM IInvHolds == Spec => []IInv
BY InitIInv, NextIInv, PTL DEF Spec

\* The state keeps its types.
THEOREM TypeCorrect == Spec => []TypeOK
<1>1. IInv => TypeOK
      BY DEF IInv
<1> QED BY <1>1, IInvHolds, PTL

\* No table of the server or of a client ever mixes the addresses of two lives
\* of a pod, or of two pods.
THEOREM IntegrityHolds == Spec => []Integrity
<1>1. IInv => Integrity
      BY DEF IInv
<1> QED BY <1>1, IInvHolds, PTL
=============================================================================
