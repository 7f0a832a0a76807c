------------------------------ MODULE NodeInfo ------------------------------
(***************************************************************************)
(* The association table of src/topo/node.c and what its helpers compute.   *)
(*                                                                          *)
(* node_list is a list sorted by key with unique keys (src/libs/elem.c): a  *)
(* partial function from names to entries, here a total one with None for   *)
(* an absent name.  Of a node_info_t the fields are kept that the code      *)
(* compares, copies from one entry to another, or may find empty; type,     *)
(* info_name, vnfc_id, node_name and pod_name travel with them.             *)
(***************************************************************************)
EXTENDS Integers, FiniteSets

CONSTANTS
    Pods,     \* names of the pods (label name, "_", index + 1)
    Ips,      \* node and pod addresses
    Ports,    \* management ports
    Groups,   \* group labels
    None,     \* no entry
    Reports   \* what each pod may put into a heartbeat

OMP == "OMP"
Names == Pods \cup {OMP}

\* An empty field, and a field holding nothing but the newline that strtok
\* leaves in a one-character buffer (popen_cmd, fopen_read).
Empty == ""
Newline == "newline"

node_info_t ==
    [group       : Groups \cup {Empty, Newline},
     mgnt_pri_ip : Ips \cup {Empty},
     serv_pri_ip : Ips \cup {Empty},
     mgnt_port   : Ports \cup {Empty}]

ASSUME NodeInfoAssumption ==
    /\ OMP \notin Pods
    /\ None \notin node_info_t
    /\ Reports \in [Pods -> SUBSET node_info_t]

Table == [Names -> node_info_t \cup {None}]
EmptyTable == [n \in Names |-> None]
Listed(t) == {n \in Names : t[n] # None}

-----------------------------------------------------------------------------
\* sscanf fills a field only if the one before it was not empty.
Scan(before, field) == IF before = Empty THEN Empty ELSE field

\* A heartbeat as the server reads it: group|node ip|pod ip|port.
assoc_info_get_from_pod(r) ==
    LET m == Scan(r.group, r.mgnt_pri_ip)
        s == Scan(m, r.serv_pri_ip)
    IN  [group |-> r.group, mgnt_pri_ip |-> m, serv_pri_ip |-> s,
         mgnt_port |-> Scan(s, r.mgnt_port)]

\* A line of the reply as a client reads it: group|node ip|port|pod ip.  The
\* reply was first cut at its newlines, so a group holding one ends the line.
assoc_info_get_from_ompNoClear(e) ==
    IF e.group \in {Empty, Newline} THEN [e EXCEPT !.mgnt_port = "stack"] ELSE e
assoc_info_get_from_omp(e) ==
    LET g == IF e.group = Newline THEN Empty ELSE e.group
        m == Scan(g, e.mgnt_pri_ip)
        p == Scan(m, e.mgnt_port)
    IN  [group |-> g, mgnt_pri_ip |-> m, serv_pri_ip |-> Scan(p, e.serv_pri_ip),
         mgnt_port |-> p]

\* The comparison both sides use to tell a known node from a changed one.
SameAddr(a, b) ==
    /\ a.mgnt_pri_ip = b.mgnt_pri_ip
    /\ a.serv_pri_ip = b.serv_pri_ip
=============================================================================
