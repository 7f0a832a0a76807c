----------------------------- MODULE AssocSync -----------------------------
(***************************************************************************)
(* udp_client_proc of one pod, statement by statement: the table with its   *)
(* check flags, the lines of the reply that are still to be read, and the   *)
(* count of changes that decides whether the file is written.  TopoClient   *)
(* has the merge of a reply as one step on whole tables; this module is     *)
(* shown to implement it.  The lines come in the order of the OMP's keys;   *)
(* here any order will do.  The process may be killed between any two.      *)
(***************************************************************************)
EXTENDS NodeInfo

CONSTANTS Me,       \* the pod
          Replies   \* tables the OMP may answer

AssocSyncAssumption ==
    /\ IsFiniteSet(Pods) /\ Me \in Pods
    /\ Replies \subseteq {t \in Table : t[OMP] # None}

VARIABLES info,     \* what the pod reports; None while it is down
          list,     \* node_list
          checked,  \* the names whose chk_exist_flag is 1
          pc,       \* "idle", "recv" in recvfrom, "merge" between two lines
          lines,    \* what is left of recv_msg, cut at its newlines
          update_count,
          file,     \* associate_config
          before,   \* history: node_list when the reply came
          answer    \* history: the table the OMP sent

sync_vars == <<info, list, checked, pc, lines, update_count, file, before, answer>>

-----------------------------------------------------------------------------
\* What follows the newline of a group: it starts with '|', so sscanf reads
\* nothing of it.
Unreadable == [name |-> Empty, entry |-> None]

\* assoc_info_reply_msg: one line per entry, two if the group is a newline.
Line(table, n) == [name |-> n, entry |-> assoc_info_get_from_omp(table[n])]
assoc_info_reply_msg(table) ==
    {Line(table, n) : n \in Listed(table)}
        \cup (IF \E n \in Listed(table) : table[n].group = Newline THEN {Unreadable} ELSE {})

udp_client_send ==
    /\ info # None /\ pc = "idle"
    /\ pc' = "recv"
    /\ UNCHANGED <<info, list, checked, lines, update_count, file, before, answer>>

udp_client_timeout ==
    /\ pc = "recv"
    /\ pc' = "idle"
    /\ UNCHANGED <<info, list, checked, lines, update_count, file, before, answer>>

assoc_info_unset_chk_flagNot(reply) ==
    /\ pc = "recv"
    /\ pc' = "merge" /\ lines' = assoc_info_reply_msg(reply)
    /\ before' = list /\ answer' = reply /\ update_count' = 0
    /\ UNCHANGED <<info, list, checked, file>>

\* recvfrom returns a reply: the flags are cleared, the reading begins.
assoc_info_unset_chk_flag(reply) ==
    /\ pc = "recv"
    /\ pc' = "merge" /\ lines' = assoc_info_reply_msg(reply)
    /\ checked' = {} /\ update_count' = 0
    /\ before' = list /\ answer' = reply
    /\ UNCHANGED <<info, list, file>>

NP_NONE(l) == l = Unreadable
NP_UPTM(l) == list[l.name] # None /\ SameAddr(list[l.name], l.entry)

\* One line.  An entry that is added or replaces another has its flag set.
node_proc_omp_send_info(l) ==
    /\ pc = "merge"
    /\ lines' = lines \ {l}
    /\ \/ /\ NP_NONE(l)
          /\ UNCHANGED <<list, checked, update_count>>
       \/ /\ ~NP_NONE(l) /\ NP_UPTM(l)
          /\ checked' = checked \cup {l.name}
          /\ UNCHANGED <<list, update_count>>
       \/ /\ ~NP_NONE(l) /\ ~NP_UPTM(l)
          /\ list' = [list EXCEPT ![l.name] = l.entry]
          /\ checked' = checked \cup {l.name}
          /\ update_count' = update_count + 1
    /\ UNCHANGED <<info, pc, file, before, answer>>

\* After the last line the unchecked entries go, and the file is written if
\* anything was added, replaced or removed.
assoc_info_remove_uncheck_node ==
    LET gone == Listed(list) \ checked
        left == [n \in Names |-> IF n \in gone THEN None ELSE list[n]]
    IN  /\ pc = "merge" /\ lines = {}
        /\ list' = left
        /\ update_count' = update_count + Cardinality(gone)
        /\ file' = IF update_count' > 0 THEN left ELSE file
        /\ pc' = "idle"
        /\ UNCHANGED <<info, checked, lines, before, answer>>

\* The pod starts; the process restarts, with an empty list and the old file;
\* the pod goes with all it had.
Start(i) ==
    /\ info = None
    /\ info' = i
    /\ UNCHANGED <<list, checked, pc, lines, update_count, file, before, answer>>

Dropped ==
    /\ list' = EmptyTable /\ checked' = {} /\ pc' = "idle" /\ lines' = {}
    /\ update_count' = 0 /\ before' = EmptyTable /\ answer' = EmptyTable

init_omp_client(i) ==
    /\ info # None /\ SameAddr(info, i)
    /\ info' = i /\ Dropped
    /\ UNCHANGED file

Stop == info # None /\ info' = None /\ file' = EmptyTable /\ Dropped

SyncInit ==
    /\ info = None /\ list = EmptyTable /\ checked = {} /\ pc = "idle"
    /\ lines = {} /\ update_count = 0 /\ file = EmptyTable
    /\ before = EmptyTable /\ answer = EmptyTable

SyncNext ==
    \/ udp_client_send
    \/ udp_client_timeout
    \/ \E reply \in Replies : assoc_info_unset_chk_flag(reply)
    \/ \E l \in lines : node_proc_omp_send_info(l)
    \/ assoc_info_remove_uncheck_node
    \/ \E i \in Reports[Me] : Start(i) \/ init_omp_client(i)
    \/ Stop

SyncSpec == SyncInit /\ [][SyncNext]_sync_vars
-----------------------------------------------------------------------------
\* The client of TopoClient, which sees the old list until the merge is over.
Only(x, other) == [p \in Pods |-> IF p = Me THEN x ELSE other]

Client == INSTANCE TopoClient WITH
    pod_info <- Only(info, None),
    pod_list <- Only(IF pc = "merge" THEN before ELSE list, EmptyTable),
    pod_wait <- Only(pc # "idle", FALSE),
    pod_file <- Only(file, EmptyTable)

ClientNext ==
    \/ Client!udp_client_send(Me)
    \/ Client!udp_client_timeout(Me)
    \/ Client!udp_client_recv(Me, answer)
    \/ \E i \in Reports[Me] : Client!PodStart(Me, i) \/ Client!init_omp_client(Me, i)
    \/ Client!PodStop(Me)

\* The flags, the look-ups line by line, the replacements, the final removal
\* and the count of changes of udp_client_proc do what TopoClient does in one
\* step, whatever the list held and whenever the process is killed.
IsClient == Client!ClientInit /\ [][ClientNext]_(Client!client_vars)
=============================================================================
