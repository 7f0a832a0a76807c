------------------------------- MODULE OmpIxpc -------------------------------
(***************************************************************************)
(* The topology server with the two files it keeps for its neighbours,      *)
(* associate_config and node_info, and with IXPC, the message router of the *)
(* OMP, which is not part of the repository: it reads associate_config when *)
(* a MTYPE_RELOAD_CONFIG_DATA message reaches it.  The message queue is     *)
(* bounded and shared with other senders; msgsnd with IPC_NOWAIT fails when *)
(* it is full, and topo never sends the notice again.                       *)
(*                                                                          *)
(* A handler changes the table, then writes the files and sends the notice  *)
(* one after the other.  The server has one thread, so no other handler     *)
(* runs in between; but IXPC does, the clock does, and the server may be    *)
(* killed.  A file is written in one step.                                  *)
(***************************************************************************)
EXTENDS TopoServer, Sequences

CONSTANTS
    TopoMaxList,  \* TOPO_MAX_LIST
    Rank,         \* the position of a name in strcmp order
    QueueMax      \* bound: notices of topo the queue holds

ASSUME OmpIxpcAssumption ==
    /\ TopoMaxList \in Nat \ {0}
    /\ Rank \in [Names -> Nat]
    /\ \A n, m \in Names : Rank[n] = Rank[m] => n = m
    /\ QueueMax \in Nat \ {0}

VARIABLES
    todo,        \* what is left of the handler that runs, or was killed
    assoc_file,  \* associate_config
    node_file,   \* node_info
    pending,     \* notices in the queue
    missed,      \* history: a notice was refused since the last reload
    config       \* the table IXPC works with

file_vars == <<assoc_file, node_file>>
ixpc_vars == <<pending, missed, config>>
vars == <<server_vars, todo, file_vars, ixpc_vars>>

-----------------------------------------------------------------------------
\* What follows the change of the table: in udp_server_proc on NP_ADD and
\* NP_REP, in main_tick when somebody was expelled, in init_omp_server.
OnUpdateNoticeFirst == <<"notify", "associate_config", "node_info">>
OnUpdate == <<"associate_config", "node_info", "notify">>
OnExpel == <<"associate_config", "node_info">>
OnStart == <<"associate_config">>

\* assoc_info_make_list copies entries in key order while used + 1 < limit.
assoc_info_make_listFull(t) ==
    [n \in Names |->
        IF /\ t[n] # None
           /\ Cardinality({m \in Listed(t) : Rank[m] < Rank[n]}) < TopoMaxList
        THEN t[n] ELSE None]
assoc_info_make_list(t) ==
    [n \in Names |->
        IF /\ t[n] # None
           /\ Cardinality({m \in Listed(t) : Rank[m] < Rank[n]}) + 1 < TopoMaxList
        THEN t[n] ELSE None]

\* notify_to_ixpc; ok is the result of msgsnd.
notify_to_ixpc(ok) ==
    /\ ok => pending < QueueMax
    /\ pending' = IF ok THEN pending + 1 ELSE pending
    /\ missed' = (missed \/ ~ok)
    /\ UNCHANGED <<config, file_vars>>

assoc_info_print == assoc_file' = node_list /\ UNCHANGED <<node_file, ixpc_vars>>

node_info_print ==
    /\ node_file' = assoc_info_make_list(node_list)
    /\ UNCHANGED <<assoc_file, ixpc_vars>>

-----------------------------------------------------------------------------
\* The handlers, up to the change of the table.
Heartbeat(p, r) ==
    /\ todo = <<>>
    /\ udp_server_proc(p, r)
    /\ todo' = IF IsUpdate(p, assoc_info_get_from_pod(r)) THEN OnUpdate ELSE <<>>
    /\ UNCHANGED <<file_vars, ixpc_vars>>

Tick ==
    /\ todo = <<>>
    /\ main_tick
    /\ todo' = OnExpel
    /\ UNCHANGED <<file_vars, ixpc_vars>>

Start ==
    /\ init_omp_server
    /\ todo' = OnStart
    /\ UNCHANGED <<file_vars, ixpc_vars>>

\* Their next step.
Continue(ok) ==
    /\ omp_up
    /\ todo # <<>>
    /\ todo' = Tail(todo)
    /\ \/ Head(todo) = "associate_config" /\ ok /\ assoc_info_print
       \/ Head(todo) = "node_info" /\ ok /\ node_info_print
       \/ Head(todo) = "notify" /\ notify_to_ixpc(ok)
    /\ UNCHANGED server_vars

\* The server is killed, between two steps of a handler too; its files stay.
Crash == ServerCrash /\ UNCHANGED <<todo, file_vars, ixpc_vars>>

Clock == Second /\ UNCHANGED <<todo, file_vars, ixpc_vars>>

\* IXPC takes a notice and reads the file.
Reload ==
    /\ pending > 0
    /\ pending' = pending - 1
    /\ missed' = FALSE
    /\ config' = assoc_file
    /\ UNCHANGED <<server_vars, todo, file_vars>>

Init ==
    /\ ServerInit
    /\ todo = <<>>
    /\ assoc_file = EmptyTable
    /\ node_file = EmptyTable
    /\ pending = 0
    /\ missed = FALSE
    /\ config = EmptyTable

Next ==
    \/ \E p \in Pods : \E r \in Reports[p] : Heartbeat(p, r)
    \/ Tick
    \/ Start
    \/ \E ok \in BOOLEAN : Continue(ok)
    \/ Crash
    \/ Clock
    \/ Reload

Spec == Init /\ [][Next]_vars

-----------------------------------------------------------------------------
\* The types of the server's state, of its files and of IXPC's.
TypeOK ==
    /\ ServerTypeOK
    /\ todo \in {<<>>, OnUpdate, OnExpel, OnStart, <<"node_info", "notify">>,
                 <<"node_info">>, <<"notify">>}
    /\ assoc_file \in Table
    /\ node_file \in Table
    /\ pending \in 0 .. QueueMax
    /\ missed \in BOOLEAN
    /\ config \in Table

\* What IXPC can read in associate_config between two handlers is the table a
\* client would be answered, whichever mix of additions, moves, expulsions,
\* kills and restarts led to it; and the OMP, whose heartbeat_tm never moves,
\* is in it.
AssocFileCurrent ==
    omp_up /\ todo = <<>> => assoc_file = node_list /\ node_list[OMP] = OmpInfo

\* node_info is the listing of the table, except after a restart of the
\* server, until the first pod is heard: it then still shows the pods of the
\* previous run.
NodeFileIsListing ==
    omp_up /\ todo = <<>> /\ Listed(node_list) # {OMP}
        => node_file = assoc_info_make_list(node_list)

\* With the same exception: node_info shows entries of the table, as many as
\* there are but never more than TOPO_MAX_LIST - 1, and those it misses come
\* last in the order of the keys.
NodeFileCurrent ==
    LET shown == Listed(node_file)
        all   == Listed(node_list)
    IN  omp_up /\ todo = <<>> /\ all # {OMP} =>
            /\ \A n \in shown : node_file[n] = node_list[n]
            /\ \A n \in all \ shown, m \in shown : Rank[m] < Rank[n]
            /\ IF Cardinality(all) < TopoMaxList
               THEN shown = all
               ELSE Cardinality(shown) = TopoMaxList - 1

\* The tick that expels pods and the start of the server rewrite
\* associate_config and tell IXPC nothing, so IXPC may keep pods that are gone.
\* A server killed between the file and the notice (udp.c:326-328) leaves pods
\* in the file that IXPC never hears of, until it starts again and rewrites the
\* file.  Otherwise, of every pod in the file IXPC has the file's address, or a
\* notice is on its way, or one was refused by the full queue.
IxpcBehindOnlyOnExpelled ==
    \A p \in Pods :
        assoc_file[p] # None /\ todo = <<>> /\ pending = 0 /\ ~missed
            => config[p] = assoc_file[p]
=============================================================================
