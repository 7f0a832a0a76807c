---------------------------- MODULE OmpIxpcProofs ----------------------------
(***************************************************************************)
(* Proofs about the topology server, its files and its IXPC, for any set of *)
(* pods, any reports they send, any limits and any order of names.          *)
(***************************************************************************)
EXTENDS OmpIxpc, TopoServerProofs

\* What of a handler is left, as long as ...
ToPrint == {OnUpdate, OnExpel, OnStart}                     \* a file is old
ToList == ToPrint \cup {<<"node_info", "notify">>, <<"node_info">>}
ToTell == {OnUpdate, <<"node_info", "notify">>, <<"notify">>}

\* The entries of the file are those IXPC has.
Told == \A p \in Pods : assoc_file[p] # None => config[p] = assoc_file[p]

\* Of the pods the table still has, the file has the table's entry.
OnlyExpelled == \A p \in Pods : node_list[p] # None => node_list[p] = assoc_file[p]

\* The inductive invariant.  The properties speak of the server between two
\* handlers; this says how far a handler has brought them about.
Printed == omp_up /\ todo \notin ToPrint => assoc_file = node_list
HasOmp == omp_up => node_list[OMP] = OmpInfo
NodeListed ==
    omp_up /\ todo \notin ToList /\ Listed(node_list) # {OMP}
        => node_file = assoc_info_make_list(node_list)
Fresh == omp_up /\ todo = OnStart => Listed(node_list) = {OMP}
Expelling == omp_up /\ todo = OnExpel => OnlyExpelled
Behind ==
    (todo \notin ToTell /\ todo # OnStart /\ pending = 0 /\ ~missed) => Told

IInv ==
    /\ TypeOK
    /\ Printed
    /\ HasOmp
    /\ NodeListed
    /\ Fresh
    /\ Expelling
    /\ Behind

-----------------------------------------------------------------------------
\* The lists of steps, told apart by their first step and their length.
LEMMA Steps ==
    /\ Len(OnUpdate) = 3 /\ Head(OnUpdate) = "associate_config"
    /\ Tail(OnUpdate) = <<"node_info", "notify">>
    /\ Len(OnExpel) = 2 /\ Head(OnExpel) = "associate_config"
    /\ Tail(OnExpel) = <<"node_info">>
    /\ Len(OnStart) = 1 /\ Head(OnStart) = "associate_config" /\ Tail(OnStart) = <<>>
    /\ Len(<<"node_info", "notify">>) = 2 /\ Head(<<"node_info", "notify">>) = "node_info"
    /\ Tail(<<"node_info", "notify">>) = <<"notify">>
    /\ Len(<<"node_info">>) = 1 /\ Head(<<"node_info">>) = "node_info"
    /\ Tail(<<"node_info">>) = <<>>
    /\ Len(<<"notify">>) = 1 /\ Head(<<"notify">>) = "notify" /\ Tail(<<"notify">>) = <<>>
    /\ Len(<<>>) = 0
BY DEF OnUpdate, OnExpel, OnStart

\* Which lists are in which set.
LEMMA StepSets ==
    /\ OnUpdate \in ToPrint /\ OnUpdate \in ToList /\ OnUpdate \in ToTell
    /\ OnExpel \in ToPrint /\ OnExpel \in ToList /\ OnExpel \notin ToTell
    /\ OnStart \in ToPrint /\ OnStart \in ToList /\ OnStart \notin ToTell
    /\ <<>> \notin ToPrint /\ <<>> \notin ToList /\ <<>> \notin ToTell
    /\ <<"node_info", "notify">> \notin ToPrint
    /\ <<"node_info">> \notin ToPrint
    /\ <<"notify">> \notin ToPrint
    /\ <<"node_info", "notify">> \in ToTell /\ <<"notify">> \in ToTell
    /\ <<"node_info">> \notin ToTell
    /\ OnStart # <<>> /\ OnExpel # <<>> /\ OnUpdate # <<>>
    /\ OnStart # OnExpel /\ OnStart # OnUpdate /\ OnExpel # OnUpdate
    /\ <<"node_info", "notify">> \notin {OnStart, OnExpel}
    /\ <<"node_info">> \notin {OnStart, OnExpel}
    /\ <<"notify">> \notin {OnStart, OnExpel}
BY Steps DEF ToPrint, ToList, ToTell

\* The listing for node_info is a table.
LEMMA MakeListType ==
    ASSUME NEW t \in Table
    PROVE  assoc_info_make_list(t) \in Table
BY DEF Table, assoc_info_make_list

\* The server starts in the invariant.
LEMMA InitIInv == Init => IInv
<1>1. EmptyTable \in Table
      BY DEF EmptyTable, Table
<1>2. \A p \in Pods : EmptyTable[p] = None
      BY DEF EmptyTable, Names
<1> SUFFICES ASSUME Init PROVE IInv
    OBVIOUS
<1>3. age \in [Names -> 0 .. AssocClearTm]
      BY ServerAssumption DEF Init, ServerInit
<1>4. pending \in 0 .. QueueMax
      BY OmpIxpcAssumption DEF Init
<1>5. TypeOK
      BY <1>1, <1>3, <1>4, Zenon DEF Init, ServerInit, TypeOK, ServerTypeOK
<1> QED BY <1>2, <1>5, Zenon DEF Init, ServerInit, IInv, Printed, HasOmp, NodeListed,
        Fresh, Expelling, Behind, Told

\* A heartbeat either leaves the table as it was or has everything yet to do.
LEMMA HeartbeatIInv ==
    ASSUME IInv, NEW p \in Pods, NEW r \in Reports[p], Heartbeat(p, r)
    PROVE  IInv'
<1> DEFINE info == assoc_info_get_from_pod(r)
<1>1. TypeOK /\ ServerTypeOK /\ HasOmp
      BY DEF IInv, TypeOK
<1>2. r \in node_info_t /\ info \in node_info_t
      BY NodeInfoAssumption, FromPodType
<1>3. /\ omp_up /\ omp_up' = omp_up
      /\ node_list' = [node_list EXCEPT ![p] = NewEntry(p, info)]
      /\ todo = <<>>
      /\ todo' = IF IsUpdate(p, info) THEN OnUpdate ELSE <<>>
      /\ UNCHANGED <<assoc_file, node_file, pending, missed, config>>
      BY DEF Heartbeat, udp_server_proc, file_vars, ixpc_vars
<1>4. ServerTypeOK'
      BY <1>1, <1>2, HeartbeatType DEF Heartbeat
<1>5. TypeOK'
      BY <1>1, <1>3, <1>4 DEF TypeOK
<1>6. node_list \in Table /\ p \in Names /\ p # OMP
      BY <1>1, NodeInfoAssumption DEF ServerTypeOK, Names
<1>7. HasOmp'
      BY <1>1, <1>3, <1>6 DEF HasOmp, Table, Names
<1>8. CASE IsUpdate(p, info)
  <2>1. todo' = OnUpdate
        BY <1>3, <1>8
  <2> QED BY <1>5, <1>7, <2>1, StepSets
          DEF IInv, Printed, NodeListed, Fresh, Expelling, Behind
<1>9. CASE ~IsUpdate(p, info)
  <2>1. node_list' = node_list
    <3>1. NewEntry(p, info) = node_list[p]
          BY <1>2, <1>6, <1>9, NewEntryFacts
    <3> QED BY <1>3, <1>6, <3>1 DEF Table
  <2>2. todo' = todo
        BY <1>3, <1>9
  <2> QED BY <1>3, <1>5, <1>7, <2>1, <2>2
          DEF IInv, Printed, NodeListed, Fresh, Expelling, OnlyExpelled, Behind, Told
<1> QED BY <1>8, <1>9

\* The tick: who is left has the entry that is in the file.
LEMMA TickIInv ==
    ASSUME IInv, Tick
    PROVE  IInv'
<1>1. TypeOK /\ ServerTypeOK /\ HasOmp /\ Printed /\ Behind
      BY DEF IInv, TypeOK
<1>2. /\ omp_up /\ omp_up' = omp_up
      /\ node_list' = [n \in Names |-> IF n \in Expired THEN None ELSE node_list[n]]
      /\ todo = <<>> /\ todo' = OnExpel
      /\ UNCHANGED <<assoc_file, node_file, pending, missed, config>>
      BY DEF Tick, main_tick, assoc_info_cleanup, file_vars, ixpc_vars
<1>3. ServerTypeOK'
      BY <1>1, OtherServerStepsType DEF Tick
<1>4. TypeOK'
      BY <1>1, <1>2, <1>3 DEF TypeOK
<1>5. HasOmp'
      BY <1>1, <1>2 DEF HasOmp, Expired, Names
<1>6. assoc_file = node_list
      BY <1>1, <1>2, StepSets DEF Printed
<1>7. Expelling'
      BY <1>2, <1>6 DEF Expelling, OnlyExpelled, Names
<1>8. Behind'
      BY <1>1, <1>2, StepSets DEF Behind, Told
<1> QED BY <1>2, <1>4, <1>5, <1>7, <1>8, StepSets DEF IInv, Printed, NodeListed, Fresh

\* The start: a table with the OMP alone, yet to be printed.
LEMMA StartIInv ==
    ASSUME IInv, Start
    PROVE  IInv'
<1>1. TypeOK /\ ServerTypeOK
      BY DEF IInv, TypeOK
<1>2. /\ node_list' = OmpOnly /\ todo' = OnStart
      /\ UNCHANGED <<assoc_file, node_file, pending, missed, config>>
      BY DEF Start, init_omp_server, file_vars, ixpc_vars
<1>3. ServerTypeOK'
      BY <1>1, OtherServerStepsType DEF Start
<1>4. TypeOK'
      BY <1>1, <1>2, <1>3 DEF TypeOK
<1>5. Listed(node_list') = {OMP} /\ node_list'[OMP] = OmpInfo
      BY <1>2, OmpOnlyFacts
<1>6. HasOmp' /\ Fresh'
      BY <1>5 DEF HasOmp, Fresh, Listed
<1> QED BY <1>2, <1>4, <1>6, StepSets
        DEF IInv, Printed, NodeListed, Expelling, Behind

\* associate_config is written.
LEMMA PrintIInv ==
    ASSUME IInv, omp_up, todo \in ToPrint, todo' = Tail(todo), assoc_info_print,
           UNCHANGED server_vars
    PROVE  IInv'
<1>1. TypeOK /\ ServerTypeOK /\ HasOmp /\ Fresh /\ Expelling /\ Behind
      BY DEF IInv, TypeOK
<1>2. /\ assoc_file' = node_list
      /\ UNCHANGED <<omp_up, node_list, age, node_file, pending, missed, config>>
      BY DEF assoc_info_print, ixpc_vars, server_vars
<1>3. todo' \in {<<"node_info", "notify">>, <<"node_info">>, <<>>}
      BY Steps DEF ToPrint
<1>4. TypeOK'
      BY <1>1, <1>2, <1>3 DEF TypeOK, ServerTypeOK
<1>5. Printed' /\ HasOmp' /\ Fresh' /\ Expelling'
      BY <1>1, <1>2, <1>3, StepSets DEF Printed, HasOmp, Fresh, Expelling
<1>6. CASE todo = OnUpdate
  <2>1. todo' = <<"node_info", "notify">>
        BY <1>6, Steps
  <2> QED BY <1>4, <1>5, <2>1, StepSets DEF IInv, NodeListed, Behind, ToList
<1>7. CASE todo = OnExpel
  <2>1. todo' = <<"node_info">>
        BY <1>7, Steps
  <2>2. Behind'
    <3> SUFFICES ASSUME pending = 0, ~missed, NEW p \in Pods, node_list[p] # None
                 PROVE  config[p] = node_list[p]
        BY <1>2 DEF Behind, Told
    <3>1. node_list[p] = assoc_file[p]
          BY <1>1, <1>7 DEF Expelling, OnlyExpelled
    <3>2. Told
          BY <1>1, <1>7, StepSets DEF Behind
    <3> QED BY <3>1, <3>2 DEF Told
  <2> QED BY <1>4, <1>5, <2>1, <2>2 DEF IInv, NodeListed, ToList
<1>8. CASE todo = OnStart
  <2>1. Listed(node_list) = {OMP}
        BY <1>1, <1>8 DEF Fresh
  <2>2. \A p \in Pods : node_list[p] = None
        BY <2>1, NodeInfoAssumption DEF Listed, Names
  <2>3. Behind'
        BY <1>2, <2>2 DEF Behind, Told
  <2>4. NodeListed'
        BY <1>2, <2>1 DEF NodeListed, Listed
  <2> QED BY <1>4, <1>5, <2>3, <2>4 DEF IInv
<1> QED BY <1>6, <1>7, <1>8 DEF ToPrint

\* node_info is written.
LEMMA ListIInv ==
    ASSUME IInv, omp_up, todo \in {<<"node_info", "notify">>, <<"node_info">>},
           todo' = Tail(todo), node_info_print, UNCHANGED server_vars
    PROVE  IInv'
<1>1. TypeOK /\ ServerTypeOK /\ HasOmp /\ Printed /\ Behind
      BY DEF IInv, TypeOK
<1>2. /\ node_file' = assoc_info_make_list(node_list)
      /\ UNCHANGED <<omp_up, node_list, age, assoc_file, pending, missed, config>>
      BY DEF node_info_print, ixpc_vars, server_vars
<1>3. /\ todo' \in {<<"notify">>, <<>>}
      /\ todo' = <<>> => todo = <<"node_info">>
  <2>1. CASE todo = <<"node_info", "notify">>
    <3>1. todo' = <<"notify">>
          BY <2>1, Steps
    <3>2. <<"notify">> # <<>>
          BY Steps
    <3> QED BY <3>1, <3>2
  <2>2. CASE todo = <<"node_info">>
        BY <2>2, Steps
  <2> QED BY <2>1, <2>2
<1>4. TypeOK'
      BY <1>1, <1>2, <1>3, MakeListType DEF TypeOK, ServerTypeOK
<1>5. Printed'
      BY <1>1, <1>2, StepSets DEF Printed
<1>6. HasOmp' /\ Fresh' /\ Expelling'
      BY <1>1, <1>2, <1>3, StepSets DEF HasOmp, Fresh, Expelling
<1>7. NodeListed'
      BY <1>2 DEF NodeListed, Listed
<1>8. Behind'
      BY <1>1, <1>2, <1>3, StepSets DEF Behind, Told
<1> QED BY <1>4, <1>5, <1>6, <1>7, <1>8 DEF IInv

\* The notice: it is in the queue now, or refused.
LEMMA TellIInv ==
    ASSUME IInv, NEW ok \in BOOLEAN, omp_up, todo = <<"notify">>, todo' = Tail(todo),
           notify_to_ixpc(ok), UNCHANGED server_vars
    PROVE  IInv'
<1>1. TypeOK /\ ServerTypeOK /\ HasOmp /\ Printed /\ NodeListed
      BY DEF IInv, TypeOK
<1>2. /\ ok => pending < QueueMax /\ pending' = pending + 1
      /\ ~ok => pending' = pending
      /\ missed' = (missed \/ ~ok)
      /\ UNCHANGED <<omp_up, node_list, age, assoc_file, node_file, config>>
      BY DEF notify_to_ixpc, file_vars, server_vars
<1>3. todo' = <<>>
      BY Steps
<1>4. pending \in 0 .. QueueMax /\ QueueMax \in Nat
      BY <1>1, OmpIxpcAssumption DEF TypeOK
<1>5. pending' \in 0 .. QueueMax /\ (ok => pending' # 0)
      BY <1>2, <1>4
<1>6. missed' \in BOOLEAN /\ (~ok => missed')
      BY <1>2, Zenon
<1>7. TypeOK'
      BY <1>1, <1>2, <1>3, <1>5, <1>6 DEF TypeOK, ServerTypeOK
<1>8. Printed'
      BY <1>1, <1>2, StepSets DEF Printed
<1>9. HasOmp' /\ Fresh' /\ Expelling'
      BY <1>1, <1>2, <1>3, StepSets DEF HasOmp, Fresh, Expelling
<1>10. NodeListed'
  <2>1. todo \notin ToList
        BY Steps DEF ToList, ToPrint
  <2> QED BY <1>1, <1>2, <2>1 DEF NodeListed, Listed
<1>11. Behind'
      BY <1>5, <1>6 DEF Behind
<1> QED BY <1>7, <1>8, <1>9, <1>10, <1>11 DEF IInv

\* IXPC takes a notice and reads the file.
LEMMA ReloadIInv ==
    ASSUME IInv, Reload
    PROVE  IInv'
<1>1. TypeOK
      BY DEF IInv
<1>2. /\ pending > 0 /\ pending' = pending - 1 /\ missed' = FALSE
      /\ config' = assoc_file
      /\ UNCHANGED <<omp_up, node_list, age, todo, assoc_file, node_file>>
      BY DEF Reload, server_vars, file_vars
<1>3. pending' \in 0 .. QueueMax
      BY <1>1, <1>2, OmpIxpcAssumption DEF TypeOK
<1>4. TypeOK'
      BY <1>1, <1>2, <1>3 DEF TypeOK, ServerTypeOK
<1> QED BY <1>2, <1>4
        DEF IInv, Printed, HasOmp, NodeListed, Fresh, Expelling, OnlyExpelled, Behind,
            Told, Listed

\* A kill, the clock and a stuttering step leave all of it alone.
LEMMA OthersIInv ==
    ASSUME IInv, ServerTypeOK', omp_up' => omp_up,
           UNCHANGED <<node_list, todo, assoc_file, node_file, pending, missed, config>>
    PROVE  IInv'
BY DEF IInv, TypeOK, Printed, HasOmp, NodeListed, Fresh, Expelling, OnlyExpelled, Behind,
       Told, Listed

\* Every step keeps the invariant.
LEMMA StepIInv == IInv /\ [Next]_vars => IInv'
<1> SUFFICES ASSUME IInv, [Next]_vars PROVE IInv'
    OBVIOUS
<1>1. TypeOK /\ ServerTypeOK
      BY DEF IInv, TypeOK
<1>2. ASSUME NEW p \in Pods, NEW r \in Reports[p], Heartbeat(p, r)
      PROVE  IInv'
      BY <1>2, HeartbeatIInv
<1>3. CASE Tick
      BY <1>3, TickIInv
<1>4. CASE Start
      BY <1>4, StartIInv
<1>5. ASSUME NEW ok \in BOOLEAN, Continue(ok)
      PROVE  IInv'
  <2>1. /\ omp_up /\ todo # <<>> /\ todo' = Tail(todo) /\ UNCHANGED server_vars
        /\ \/ Head(todo) = "associate_config" /\ assoc_info_print
           \/ Head(todo) = "node_info" /\ node_info_print
           \/ Head(todo) = "notify" /\ notify_to_ixpc(ok)
        BY <1>5 DEF Continue
  <2>2. \/ Head(todo) = "associate_config" /\ todo \in ToPrint
        \/ Head(todo) = "node_info" /\ todo \in {<<"node_info", "notify">>, <<"node_info">>}
        \/ Head(todo) = "notify" /\ todo = <<"notify">>
        BY <1>1, <2>1, Steps, StepSets, Zenon DEF TypeOK
  <2>3. CASE todo \in ToPrint /\ assoc_info_print
        BY <2>1, <2>3, PrintIInv
  <2>4. CASE todo \in {<<"node_info", "notify">>, <<"node_info">>} /\ node_info_print
        BY <2>1, <2>4, ListIInv
  <2>5. CASE todo = <<"notify">> /\ notify_to_ixpc(ok)
        BY <2>1, <2>5, TellIInv
  <2> QED BY <2>1, <2>2, <2>3, <2>4, <2>5
<1>6. CASE Crash
  <2>1. ServerTypeOK'
        BY <1>1, <1>6, OtherServerStepsType DEF Crash
  <2> QED BY <1>6, <2>1, OthersIInv DEF Crash, ServerCrash, file_vars, ixpc_vars
<1>7. CASE Clock
  <2>1. ServerTypeOK'
        BY <1>1, <1>7, OtherServerStepsType DEF Clock
  <2> QED BY <1>7, <2>1, OthersIInv DEF Clock, Second, file_vars, ixpc_vars
<1>8. CASE Reload
      BY <1>8, ReloadIInv
<1>9. CASE UNCHANGED vars
  <2>1. ServerTypeOK'
        BY <1>1, <1>9 DEF vars, server_vars, ServerTypeOK
  <2> QED BY <1>9, <2>1, OthersIInv DEF vars, server_vars, file_vars, ixpc_vars
<1> QED BY <1>2, <1>3, <1>4, <1>5, <1>6, <1>7, <1>8, <1>9 DEF Next

-----------------------------------------------------------------------------
\* The inductive invariant holds in every behaviour.
THEOREM IInvHolds == Spec => []IInv
BY InitIInv, StepIInv, PTL DEF Spec

\* Type correctness of the server, its files and IXPC.
THEOREM TypeCorrect == Spec => []TypeOK
<1>1. IInv => TypeOK
      BY DEF IInv
<1> QED BY <1>1, IInvHolds, PTL

\* Between two handlers associate_config is the table clients are answered, and
\* the OMP is in it.
THEOREM AssocFileIsTable == Spec => []AssocFileCurrent
<1>1. IInv => AssocFileCurrent
      BY StepSets DEF IInv, Printed, HasOmp, AssocFileCurrent
<1> QED BY <1>1, IInvHolds, PTL

\* Between two handlers node_info is the listing of the table, once a pod is
\* listed.
THEOREM NodeFileIsHead == Spec => []NodeFileIsListing
<1>1. IInv => NodeFileIsListing
      BY StepSets DEF IInv, NodeListed, NodeFileIsListing
<1> QED BY <1>1, IInvHolds, PTL

\* Kills between any two steps of a handler included: IXPC is behind the file
\* only on expelled pods, unless a notice is under way, was refused, or was
\* never sent by a server killed before it (udp.c:326-328).
THEOREM IxpcFollows == Spec => []IxpcBehindOnlyOnExpelled
<1>1. IInv => IxpcBehindOnlyOnExpelled
      BY StepSets DEF IInv, Behind, Told, IxpcBehindOnlyOnExpelled
<1> QED BY <1>1, IInvHolds, PTL
=============================================================================
