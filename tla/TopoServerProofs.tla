-------------------------- MODULE TopoServerProofs --------------------------
(***************************************************************************)
(* Facts about the topology server that the proofs about its compositions   *)
(* with IXPC (OmpIxpcProofs) and with the clients (TopoProofs) share.       *)
(***************************************************************************)
EXTENDS TopoServer, TLAPS

\* sscanf turns a heartbeat into an entry, empty fields included.
LEMMA FromPodType ==
    ASSUME NEW r \in node_info_t
    PROVE  assoc_info_get_from_pod(r) \in node_info_t
BY DEF node_info_t, assoc_info_get_from_pod, Scan

\* The table of a starting server lists the OMP and nobody else.
LEMMA OmpOnlyFacts ==
    /\ OmpOnly \in Table
    /\ OmpOnly[OMP] = OmpInfo
    /\ \A p \in Pods : OmpOnly[p] = None
    /\ Listed(OmpOnly) = {OMP}
BY ServerAssumption, NodeInfoAssumption
   DEF OmpOnly, EmptyTable, Table, Listed, Names

\* What a heartbeat does to the table: the entry of its pod is an entry, other
\* entries stay, and a heartbeat that is no update changes nothing.
LEMMA NewEntryFacts ==
    ASSUME node_list \in Table, NEW p \in Pods, NEW info \in node_info_t
    PROVE  /\ NewEntry(p, info) \in node_info_t
           /\ ~IsUpdate(p, info) => NewEntry(p, info) = node_list[p]
<1>1. p \in Names /\ node_list[p] \in node_info_t \cup {None}
      BY DEF Names, Table
<1>2. ASSUME NEW e \in node_info_t
      PROVE  [info EXCEPT !.mgnt_port = e.mgnt_port] \in node_info_t
      BY <1>2 DEF node_info_t
<1>3. NewEntry(p, info) \in node_info_t
      BY <1>1, <1>2 DEF NewEntry
<1>4. ~IsUpdate(p, info) => node_list[p] # None
      BY DEF IsUpdate
<1> QED BY <1>3, <1>4 DEF NewEntry

-----------------------------------------------------------------------------
\* Every operation of the server keeps its types: a heartbeat, ...
LEMMA HeartbeatType ==
    ASSUME ServerTypeOK, NEW p \in Pods, NEW r \in node_info_t, udp_server_proc(p, r)
    PROVE  ServerTypeOK'
<1> DEFINE info == assoc_info_get_from_pod(r)
<1>1. node_list \in Table
      /\ age \in [Names -> 0 .. AssocClearTm] /\ omp_up' = omp_up
      BY DEF ServerTypeOK, udp_server_proc
<1>2. NewEntry(p, info) \in node_info_t
      BY <1>1, FromPodType, NewEntryFacts
<1>3. node_list' = [node_list EXCEPT ![p] = NewEntry(p, info)]
      /\ age' = [age EXCEPT ![p] = 0]
      BY DEF udp_server_proc
<1>4. node_list' \in Table
      BY <1>1, <1>2, <1>3 DEF Table, Names
<1>5. 0 \in 0 .. AssocClearTm
      BY ServerAssumption
<1>6. age' \in [Names -> 0 .. AssocClearTm]
      BY <1>1, <1>3, <1>5
<1> QED BY <1>1, <1>4, <1>6 DEF ServerTypeOK

\* ... the tick, the clock, a crash and a start.
LEMMA OtherServerStepsType ==
    ASSUME ServerTypeOK, main_tick \/ Second \/ ServerCrash \/ init_omp_server
    PROVE  ServerTypeOK'
<1>1. CASE main_tick
  <2>1. node_list' \in Table
        BY <1>1 DEF main_tick, assoc_info_cleanup, ServerTypeOK, Table
  <2> QED BY <1>1, <2>1 DEF main_tick, ServerTypeOK
<1>2. CASE Second
  <2>1. age' \in [Names -> 0 .. AssocClearTm]
        BY <1>2, ServerAssumption DEF Second, ServerTypeOK
  <2> QED BY <1>2, <2>1 DEF Second, ServerTypeOK
<1>3. CASE ServerCrash
      BY <1>3 DEF ServerCrash, ServerTypeOK
<1>4. CASE init_omp_server
      BY <1>4, OmpOnlyFacts DEF init_omp_server, ServerTypeOK
<1> QED BY <1>1, <1>2, <1>3, <1>4
=============================================================================
