------------------------------- MODULE K8smgr -------------------------------
(***************************************************************************)
(* The process supervisor of one pod, src/k8smgr/main.c.                    *)
(*                                                                          *)
(* Every application of the pod increases its own counter in the shared     *)
(* keepalive segment about once a second.  k8smgr runs one libevent loop:   *)
(* a check per application every three seconds (check_proc_alive), a tick   *)
(* every second (main_tick), and the HTTP handlers that kubelet probes and  *)
(* that operators PATCH.  The handlers of one loop never interleave, so     *)
(* each is one action; the applications, crashes of the manager and its     *)
(* restarts interleave with them freely.  The keepalive segment (cnt,       *)
(* oldcnt, retry) outlives the manager.                                     *)
(***************************************************************************)
EXTENDS Integers, FiniteSets

CONSTANTS
    Procs,        \* the applications of the APPLICATIONS section of sysconf
    Self,         \* k8smgr itself, which is one of them
    HangIntvl,    \* K8SMGR_HANG_INTVL
    ForceChecks,  \* the literal 5 of check_proc_alive
    Statuses,     \* what atoi makes of the status of PATCH /live/NAME?status=
    CntMod,       \* the modulus of the keepalive counters (a C int's in the code)
    MaxBeats,     \* bound: beats of one application between two of its checks
    MaxMiss       \* bound: checks a working application may pass without a beat

ASSUME ConstantsAssumption ==
    /\ Self \in Procs
    /\ HangIntvl \in Nat \ {0}
    /\ ForceChecks \in Nat \ {0}
    /\ Statuses \subseteq Int
    /\ CntMod \in Nat \ {0, 1}
    /\ MaxBeats \in 1 .. (CntMod - 1)
    /\ MaxMiss \in 1 .. (HangIntvl - 1)

VARIABLES
    up,               \* the manager runs
    working,          \* applications that beat; the others hang
    cnt,              \* keepalive->cnt
    oldcnt,           \* keepalive->oldcnt
    retry,            \* keepalive->retry, saturated (only >= HangIntvl is read)
    alive_status,     \* proc_ctx_t.alive_status
    force_status,     \* proc_ctx_t.force_status
    force_not_ready,  \* main_ctx_t.force_not_ready
    my_sys_status,    \* main_ctx_t.my_sys_status
    quiet,            \* history: checks since a beat they saw or boot, saturated
    forced,           \* history: checks since PATCH status=0, saturated
    writer,           \* history: who wrote alive_status last
    halt              \* history: what ended the manager last

shm     == <<cnt, oldcnt, retry>>
ctx     == <<alive_status, force_status>>
history == <<quiet, forced, writer, halt>>
vars    == <<up, working, shm, ctx, force_not_ready, my_sys_status, history>>

\* A capped increment of a counter whose exact value is not read past the cap.
Inc(n, cap) == IF n < cap THEN n + 1 ELSE cap

Writers == {"boot", "check", "force", "patch0", "patch1"}
Halts   == {"none", "killed", "null_status"}

-----------------------------------------------------------------------------
(* What the handlers compute.                                               *)

\* keepalive->retry[p] after a check: a counter that moved clears it.
NextRetryStuck(p) == IF cnt[p] # oldcnt[p] THEN 0 ELSE retry[p]
NextRetry(p) == IF cnt[p] # oldcnt[p] THEN 0 ELSE Inc(retry[p], HangIntvl)

\* "force_status++ < 5": the window stays open and the process counts as dead.
InForceWindowShort(p) == force_status[p] < ForceChecks - 1
InForceWindow(p) == force_status[p] < ForceChecks

\* all_pod_alive of main_tick and of GET /ready.
proc_check_all_alive == \A p \in Procs : alive_status[p] > 0

\* The status code of GET /ready.
http_reply_pod_ready ==
    IF force_not_ready > 0 \/ ~proc_check_all_alive THEN 503 ELSE 200

\* The status code of GET /live/NAME for a registered application.
http_reply_pod_live(p) == IF alive_status[p] > 0 THEN 200 ELSE 503

-----------------------------------------------------------------------------
(* The applications and the keepalive library.                              *)

\* The counters after keepalivelib_increase() of p.  At most MaxBeats beats
\* are told apart between two checks, which only compare the counter with its
\* old value: the code's counter cannot run full circle in three seconds.
keepalivelib_increase(p) ==
    IF (cnt[p] - oldcnt[p]) % CntMod < MaxBeats
    THEN [cnt EXCEPT ![p] = (@ + 1) % CntMod]
    ELSE cnt

\* One round of an application's own loop.
Beat(p) ==
    /\ p \in working \ {Self}
    /\ cnt' = keepalivelib_increase(p)
    /\ quiet' = [quiet EXCEPT ![p] = 0]
    /\ UNCHANGED <<up, working, oldcnt, retry, ctx, force_not_ready,
                   my_sys_status, forced, writer, halt>>

\* An application stops beating: it hangs, or its container dies.
Hang(p) ==
    /\ p \in working \ {Self}
    /\ working' = working \ {p}
    /\ UNCHANGED <<up, shm, ctx, force_not_ready, my_sys_status, history>>

\* It beats again.
Resume(p) ==
    /\ p \notin working
    /\ working' = working \cup {p}
    /\ UNCHANGED <<up, shm, ctx, force_not_ready, my_sys_status, history>>

-----------------------------------------------------------------------------
(* The manager's event loop.                                                *)

\* The scheduling of beats (every second) against checks (every three): a
\* working application never lets more than MaxMiss checks pass in silence.
Timely(p) == p \in working => quiet[p] < MaxMiss

\* check_proc_alive: the retry count moves in every case, the force window is
\* looked at before the hang limit, and the check that closes the window
\* leaves alive_status as it finds it.  The counter is read twice, to compare
\* it and to keep it: a late beat falls between the two and no check sees it.
check_proc_alive(p, late) ==
    /\ up
    /\ late => p \in working \ {Self}
    /\ cnt' = IF late THEN keepalivelib_increase(p) ELSE cnt
    /\ retry' = [retry EXCEPT ![p] = NextRetry(p)]
    /\ oldcnt' = [oldcnt EXCEPT ![p] = cnt'[p]]
    /\ \/ /\ force_status[p] > 0
          /\ InForceWindow(p)
          /\ force_status' = [force_status EXCEPT ![p] = @ + 1]
          /\ alive_status' = [alive_status EXCEPT ![p] = 0]
          /\ writer' = [writer EXCEPT ![p] = "force"]
       \/ /\ force_status[p] > 0
          /\ ~InForceWindow(p)
          /\ force_status' = [force_status EXCEPT ![p] = 0]
          /\ UNCHANGED <<alive_status, writer>>
       \/ /\ force_status[p] = 0
          /\ alive_status' = [alive_status EXCEPT ![p] =
                                  IF NextRetry(p) >= HangIntvl THEN 0 ELSE 1]
          /\ writer' = [writer EXCEPT ![p] = "check"]
          /\ UNCHANGED force_status
    /\ quiet' = [quiet EXCEPT ![p] = Inc(@, HangIntvl + 1)]
    /\ forced' = [forced EXCEPT ![p] = Inc(@, ForceChecks + 1)]
    /\ UNCHANGED <<up, working, force_not_ready, my_sys_status, halt>>

\* main_tick: the manager's own beat, and its summary of the others.
main_tickSticky ==
    /\ up
    /\ cnt' = keepalivelib_increase(Self)
    /\ quiet' = [quiet EXCEPT ![Self] = 0]
    /\ my_sys_status' = IF proc_check_all_alive THEN 1 ELSE my_sys_status
    /\ UNCHANGED <<up, working, oldcnt, retry, ctx, force_not_ready, forced,
                   writer, halt>>

main_tickLatched ==
    /\ up
    /\ cnt' = keepalivelib_increase(Self)
    /\ quiet' = [quiet EXCEPT ![Self] = 0]
    /\ my_sys_status' = IF proc_check_all_alive THEN my_sys_status ELSE 0
    /\ UNCHANGED <<up, working, oldcnt, retry, ctx, force_not_ready, forced,
                   writer, halt>>

main_tick ==
    /\ up
    /\ cnt' = keepalivelib_increase(Self)
    /\ quiet' = [quiet EXCEPT ![Self] = 0]
    /\ my_sys_status' = IF proc_check_all_alive THEN 1 ELSE 0
    /\ UNCHANGED <<up, working, oldcnt, retry, ctx, force_not_ready, forced,
                   writer, halt>>

\* PATCH /live/p?status=s: zero also opens the force window; any other value
\* leaves an open window open.
http_patch_pod_live(p, s) ==
    /\ up
    /\ alive_status' = [alive_status EXCEPT ![p] = s]
    /\ force_status' = [force_status EXCEPT ![p] = IF s = 0 THEN 1 ELSE @]
    /\ writer' = [writer EXCEPT ![p] = IF s = 0 THEN "patch0" ELSE "patch1"]
    /\ forced' = [forced EXCEPT ![p] = IF s = 0 THEN 0 ELSE @]
    /\ UNCHANGED <<up, working, shm, force_not_ready, my_sys_status, quiet,
                   halt>>

\* PATCH /live/p without a status: the handler answers 503, does not return,
\* and hands the null pointer to atoi: the manager dies.
http_patch_pod_live_no_status(p) ==
    /\ up
    /\ up' = FALSE
    /\ halt' = "null_status"
    /\ UNCHANGED <<working, shm, ctx, force_not_ready, my_sys_status, quiet,
                   forced, writer>>

\* PATCH /ready?status=s; without a status it returns before any change.
http_patch_pod_ready(s) ==
    /\ up
    /\ force_not_ready' = IF s = 0 THEN 1 ELSE 0
    /\ UNCHANGED <<up, working, shm, ctx, my_sys_status, history>>

\* The container of the manager is killed.
Crash ==
    /\ up
    /\ up' = FALSE
    /\ halt' = "killed"
    /\ UNCHANGED <<working, shm, ctx, force_not_ready, my_sys_status, quiet,
                   forced, writer>>

\* create_keepalive_list, with create_proc_status_check for every application:
\* the retry count starts again; cnt and oldcnt keep what the segment held.
create_keepalive_listKeepRetry ==
    /\ alive_status' = [p \in Procs |-> 0]
    /\ force_status' = [p \in Procs |-> 0]
    /\ UNCHANGED shm

create_keepalive_list ==
    /\ retry' = [p \in Procs |-> 0]
    /\ alive_status' = [p \in Procs |-> 0]
    /\ force_status' = [p \in Procs |-> 0]
    /\ UNCHANGED <<cnt, oldcnt>>

\* main_initialize: a zeroed main_ctx_t and a new list of applications.
main_initialize ==
    /\ ~up
    /\ up' = TRUE
    /\ create_keepalive_list
    /\ force_not_ready' = 0
    /\ my_sys_status' = 0
    /\ quiet' = [p \in Procs |-> 0]
    /\ forced' = [p \in Procs |-> ForceChecks + 1]
    /\ writer' = [p \in Procs |-> "boot"]
    /\ UNCHANGED <<working, halt>>

-----------------------------------------------------------------------------
\* The segment is zeroed when the pod is created and no manager runs yet.
Init ==
    /\ up = FALSE
    /\ working = Procs
    /\ cnt = [p \in Procs |-> 0]
    /\ oldcnt = [p \in Procs |-> 0]
    /\ retry = [p \in Procs |-> 0]
    /\ alive_status = [p \in Procs |-> 0]
    /\ force_status = [p \in Procs |-> 0]
    /\ force_not_ready = 0
    /\ my_sys_status = 0
    /\ quiet = [p \in Procs |-> 0]
    /\ forced = [p \in Procs |-> ForceChecks + 1]
    /\ writer = [p \in Procs |-> "boot"]
    /\ halt = "none"

Check(p) == Timely(p) /\ \E late \in BOOLEAN : check_proc_alive(p, late)

Next ==
    \/ \E p \in Procs : Beat(p) \/ Hang(p) \/ Resume(p) \/ Check(p)
    \/ main_tick
    \/ \E p \in Procs, s \in Statuses : http_patch_pod_live(p, s)
    \/ \E p \in Procs : http_patch_pod_live_no_status(p)
    \/ \E s \in Statuses : http_patch_pod_ready(s)
    \/ Crash
    \/ main_initialize

\* The periodic events of a running manager fire, kubelet restarts a dead
\* manager, and an application that works keeps beating.
Fairness ==
    /\ \A p \in Procs : WF_vars(Check(p)) /\ WF_vars(Beat(p))
    /\ WF_vars(main_tick)
    /\ WF_vars(main_initialize)

Spec == Init /\ [][Next]_vars
FairSpec == Spec /\ Fairness

-----------------------------------------------------------------------------
\* The types and ranges of the keepalive segment and of the manager's context.
TypeOK ==
    /\ up \in BOOLEAN
    /\ working \in SUBSET Procs
    /\ cnt \in [Procs -> 0 .. (CntMod - 1)]
    /\ oldcnt \in [Procs -> 0 .. (CntMod - 1)]
    /\ retry \in [Procs -> 0 .. HangIntvl]
    /\ alive_status \in [Procs -> Int]
    /\ force_status \in [Procs -> 0 .. ForceChecks]
    /\ force_not_ready \in {0, 1}
    /\ my_sys_status \in {0, 1}
    /\ quiet \in [Procs -> 0 .. (HangIntvl + 1)]
    /\ forced \in [Procs -> 0 .. (ForceChecks + 1)]
    /\ writer \in [Procs -> Writers]
    /\ halt \in Halts

\* Hang detection, across restarts of the manager, force windows and PATCHes:
\* once more than HangIntvl checks have passed without a beat between them, the
\* verdict of
\* check_proc_alive is "dead", whatever the counters held before.
HangDetected ==
    \A p \in Procs :
        up /\ writer[p] = "check" /\ quiet[p] > HangIntvl => alive_status[p] = 0

\* No false alarm: as long as fewer than HangIntvl checks have passed since
\* the last beat between two checks (or since the manager booted),
\* check_proc_alive never calls the application dead; in particular a retry
\* count left in the segment by a previous manager is not held against it.
NoFalseAlarm ==
    \A p \in Procs :
        up /\ writer[p] = "check" /\ quiet[p] \in 1 .. (HangIntvl - 1)
            => alive_status[p] = 1

\* "set force dead for while": after PATCH status=0 the application counts as
\* dead through the next ForceChecks checks however it beats, unless a later
\* PATCH revived it and no check has run since; the window is then over.
ForceWindow ==
    \A p \in Procs :
        up => /\ forced[p] <= ForceChecks /\ writer[p] # "patch1"
                   => alive_status[p] = 0
              /\ forced[p] >= ForceChecks => force_status[p] = 0

\* A process that hangs for good while the manager stays up and nobody revives
\* it by PATCH ends up reported: /live of it and /ready of the pod answer 503
\* and my_sys_status is 0, for ever.
HungReported ==
    \A p \in Procs :
        <>[](up /\ p \notin working /\ writer[p] # "patch1")
            => <>[](/\ http_reply_pod_live(p) = 503
                    /\ http_reply_pod_ready = 503
                    /\ my_sys_status = 0)

\* When every application works, the manager stays up and the PATCHes stop,
\* the pod becomes ready and stays ready: no force window or stale retry count
\* keeps it out of service.
Recovered ==
    <>[](/\ up
         /\ working = Procs
         /\ force_not_ready = 0
         /\ \A p \in Procs : writer[p] \notin {"patch0", "patch1"})
        => <>[](http_reply_pod_ready = 200 /\ my_sys_status = 1)

\* The comment at the head of http_patch_pod_live's first branch promises
\* "503 Service Unavailable" for a request without a status, as the PATCH
\* /ready handler gives: the manager refuses it and keeps running.
NoStatusIsRefused == halt # "null_status"
=============================================================================
