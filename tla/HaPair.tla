------------------------------- MODULE HaPair -------------------------------
(***************************************************************************)
(* Two pods of a StatefulSet that back each other up, src/k8smgr/main.c.    *)
(*                                                                          *)
(* Every second the manager of each pod asks its peer for /start and /ready *)
(* (main_check_peer_pod, answers in http_recv_reply), decides whether it is *)
(* active or standby (main_update_pod_label), writes the decision to the    *)
(* pod's shared memory and PATCHes it as a label through the Kubernetes API *)
(* server, where the service selector reads it.  Every request has its own  *)
(* connection: answers and PATCHes may overtake each other and get lost.    *)
(* The supervision of the pod's processes (module K8smgr) is reduced to     *)
(* whether all of them count as alive.                                      *)
(*                                                                          *)
(* What a side decides depends on the health of the other side, never on    *)
(* what the other side decided.  A behaviour therefore follows the          *)
(* decisions of one side (deciding) and lets the other just live and die.   *)
(***************************************************************************)
EXTENDS Integers, FiniteSets

CONSTANTS
    AsMode,      \* /data/AS_MODE: "A" or "S" for side 0 and for side 1
    Deciding,    \* the sides whose decisions are followed, one in each behaviour
    MaxFaults,   \* bound: failures and operator commands of any kind
    MaxAnswers,  \* bound: answers under way to a side for one uri
    MaxPatches   \* bound: label PATCHes of one side under way

Sides == 0 .. 1

ASSUME HaAssumption ==
    /\ AsMode \in [Sides -> {"A", "S"}]
    /\ Deciding \subseteq Sides
    /\ MaxFaults \in Nat
    /\ MaxAnswers \in [Sides -> Nat \ {0}]
    /\ MaxPatches \in Nat \ {0}

VARIABLES
    up,               \* the side's manager runs
    all_alive,        \* proc_check_all_alive on the side
    my_sys_status,    \* main_ctx_t.my_sys_status
    force_not_ready,  \* main_ctx_t.force_not_ready
    peer_pod_start,   \* pod_info_t.peer_pod_start
    peer_pod_ready,   \* pod_info_t.peer_pod_ready
    answers,          \* answers of the peer under way to the side
    mode,             \* the HA mode in the side's shared memory
    patches,          \* label PATCHes of the side under way
    label,            \* the pod's status label at the API server
    faults,           \* how much of MaxFaults is used
    deciding          \* the side this behaviour follows

peer_vars == <<peer_pod_start, peer_pod_ready, answers>>
out_vars == <<mode, patches, label>>
vars == <<up, all_alive, my_sys_status, force_not_ready, peer_vars, out_vars,
          faults, deciding>>

Statuses == {"active", "standby", "force_not_ready", "proc_failed"}
Answers == [uri : {"/start", "/ready"}, code : {200, 503}]
Peer(s) == 1 - s

Fault ==
    /\ faults < MaxFaults
    /\ faults' = faults + 1

-----------------------------------------------------------------------------
\* What the side answers to a GET of uri.
Code(s, uri) ==
    IF uri = "/ready" /\ (force_not_ready[s] = 1 \/ ~all_alive[s]) THEN 503 ELSE 200

\* The decision of main_update_pod_label.
StatusSwapped(s) ==
    IF force_not_ready[s] = 1 THEN "force_not_ready"
    ELSE IF my_sys_status[s] # 1 THEN "proc_failed"
    ELSE IF AsMode[Peer(s)] = "S" /\ peer_pod_start[s] > 0 /\ peer_pod_ready[s] # 0
         THEN "standby" ELSE "active"
Status(s) ==
    IF force_not_ready[s] = 1 THEN "force_not_ready"
    ELSE IF my_sys_status[s] # 1 THEN "proc_failed"
    ELSE IF AsMode[s] = "S" /\ peer_pod_start[s] > 0 /\ peer_pod_ready[s] # 0
         THEN "standby" ELSE "active"

\* k8s_api_patch_pod_status; a PATCH beyond the bound is lost.
k8s_api_patch_pod_status(s, status) ==
    patches' = IF Cardinality(patches[s] \cup {status}) <= MaxPatches
               THEN [patches EXCEPT ![s] = @ \cup {status}] ELSE patches

-----------------------------------------------------------------------------
(* The timers of a manager.                                                 *)

main_tick(s) ==
    /\ up[s]
    /\ my_sys_status' = [my_sys_status EXCEPT ![s] = IF all_alive[s] THEN 1 ELSE 0]
    /\ UNCHANGED <<up, all_alive, force_not_ready, peer_vars, out_vars, faults>>

\* main_check_peer_pod sends a GET and the peer answers it: the answer tells
\* the peer's state at that moment.
main_check_peer_pod(s, uri) ==
    LET a == [uri |-> uri, code |-> Code(Peer(s), uri)] IN
    /\ up[s]
    /\ up[Peer(s)]
    /\ Cardinality({b \in answers[s] \cup {a} : b.uri = uri}) <= MaxAnswers[s]
    /\ answers' = [answers EXCEPT ![s] = @ \cup {a}]
    /\ UNCHANGED <<up, all_alive, my_sys_status, force_not_ready, peer_pod_start,
                   peer_pod_ready, out_vars, faults>>

main_update_pod_label(s) ==
    /\ up[s]
    /\ mode' = [mode EXCEPT ![s] =
                    IF Status(s) = "active" THEN "active" ELSE "standby"]
    /\ k8s_api_patch_pod_status(s, Status(s))
    /\ UNCHANGED <<up, all_alive, my_sys_status, force_not_ready, peer_vars, label,
                   faults>>

-----------------------------------------------------------------------------
(* http_recv_reply.                                                         *)

\* A response came: the field of its uri tells whether it was 200.
http_recv_reply(s, a) ==
    /\ up[s]
    /\ a \in answers[s]
    /\ answers' = [answers EXCEPT ![s] = @ \ {a}]
    /\ \/ /\ a.uri = "/start"
          /\ peer_pod_start' = [peer_pod_start EXCEPT ![s] = IF a.code = 200 THEN 1 ELSE 0]
          /\ UNCHANGED peer_pod_ready
       \/ /\ a.uri = "/ready"
          /\ peer_pod_ready' = [peer_pod_ready EXCEPT ![s] = IF a.code = 200 THEN 1 ELSE 0]
          /\ UNCHANGED peer_pod_start
    /\ UNCHANGED <<up, all_alive, my_sys_status, force_not_ready, out_vars, faults>>

\* No response: libevent hands over no request when a connection times out or
\* breaks, and both fields are set to -1; when the name does not resolve or
\* nobody listens it hands over a request without a status code.
PeerFieldsOnFailureKeep(s, uri) ==
    UNCHANGED <<peer_pod_start, peer_pod_ready>>
PeerFieldsOnFailure(s, uri) ==
    \/ /\ peer_pod_start' = [peer_pod_start EXCEPT ![s] = -1]
       /\ peer_pod_ready' = [peer_pod_ready EXCEPT ![s] = -1]
    \/ /\ uri = "/start"
       /\ peer_pod_start' = [peer_pod_start EXCEPT ![s] = 0]
       /\ UNCHANGED peer_pod_ready
    \/ /\ uri = "/ready"
       /\ peer_pod_ready' = [peer_pod_ready EXCEPT ![s] = 0]
       /\ UNCHANGED peer_pod_start

\* The peer is down: a GET of it fails.
PeerDown(s, uri) ==
    /\ up[s]
    /\ ~up[Peer(s)]
    /\ PeerFieldsOnFailure(s, uri)
    /\ UNCHANGED <<up, all_alive, my_sys_status, force_not_ready, answers, out_vars,
                   faults>>

\* The peer is up, but the GET or its answer is lost.
CheckLost(s, uri) ==
    /\ up[s]
    /\ up[Peer(s)]
    /\ Fault
    /\ PeerFieldsOnFailure(s, uri)
    /\ answers' \in {answers, [answers EXCEPT ![s] = {a \in @ : a.uri # uri}]}
    /\ UNCHANGED <<up, all_alive, my_sys_status, force_not_ready, out_vars>>

-----------------------------------------------------------------------------
(* The API server applies the PATCHes in any order; one may be lost.        *)

ApplyPatch(s, status) ==
    /\ status \in patches[s]
    /\ label' = [label EXCEPT ![s] = status]
    /\ patches' = [patches EXCEPT ![s] = @ \ {status}]
    /\ UNCHANGED <<up, all_alive, my_sys_status, force_not_ready, peer_vars, mode,
                   faults>>

LosePatch(s, status) ==
    /\ status \in patches[s]
    /\ Fault
    /\ patches' = [patches EXCEPT ![s] = @ \ {status}]
    /\ UNCHANGED <<up, all_alive, my_sys_status, force_not_ready, peer_vars, mode,
                   label>>

-----------------------------------------------------------------------------
(* What happens to a pod.                                                   *)

\* Its processes fail (a hang, or PATCH /live/NAME?status=0) or recover.
ProcsFail(s) ==
    /\ all_alive[s]
    /\ Fault
    /\ all_alive' = [all_alive EXCEPT ![s] = FALSE]
    /\ UNCHANGED <<up, my_sys_status, force_not_ready, peer_vars, out_vars>>

ProcsRecover(s) ==
    /\ up[s]
    /\ ~all_alive[s]
    /\ all_alive' = [all_alive EXCEPT ![s] = TRUE]
    /\ UNCHANGED <<up, my_sys_status, force_not_ready, peer_vars, out_vars, faults>>

\* PATCH /ready?status=
http_patch_pod_ready(s) ==
    /\ up[s]
    /\ Fault
    /\ force_not_ready' = [force_not_ready EXCEPT ![s] = 1 - @]
    /\ UNCHANGED <<up, all_alive, my_sys_status, peer_vars, out_vars>>

\* Its manager dies; requests it made are gone with it, PATCHes are not.
Crash(s) ==
    /\ up[s]
    /\ Fault
    /\ up' = [up EXCEPT ![s] = FALSE]
    /\ answers' = [answers EXCEPT ![s] = {}]
    /\ UNCHANGED <<all_alive, my_sys_status, force_not_ready, peer_pod_start,
                   peer_pod_ready, out_vars>>

\* main_initialize: a zeroed main_ctx_t, and main_init_getenv PATCHes the
\* configured role before anything is known of the peer.  The first check of
\* every process is three seconds away: until then none counts as alive.
main_initialize(s) ==
    /\ ~up[s]
    /\ up' = [up EXCEPT ![s] = TRUE]
    /\ all_alive' = [all_alive EXCEPT ![s] = FALSE]
    /\ my_sys_status' = [my_sys_status EXCEPT ![s] = 0]
    /\ force_not_ready' = [force_not_ready EXCEPT ![s] = 0]
    /\ peer_pod_start' = [peer_pod_start EXCEPT ![s] = 0]
    /\ peer_pod_ready' = [peer_pod_ready EXCEPT ![s] = 0]
    /\ k8s_api_patch_pod_status(s, IF AsMode[s] = "A" THEN "active" ELSE "standby")
    /\ UNCHANGED <<answers, mode, label, faults>>

-----------------------------------------------------------------------------
Init ==
    /\ up = [s \in Sides |-> FALSE]
    /\ all_alive = [s \in Sides |-> FALSE]
    /\ my_sys_status = [s \in Sides |-> 0]
    /\ force_not_ready = [s \in Sides |-> 0]
    /\ peer_pod_start = [s \in Sides |-> 0]
    /\ peer_pod_ready = [s \in Sides |-> 0]
    /\ answers = [s \in Sides |-> {}]
    /\ mode = [s \in Sides |-> "standby"]
    /\ patches = [s \in Sides |-> {}]
    /\ label = [s \in Sides |-> "none"]
    /\ faults = 0
    /\ deciding \in Deciding

Uris == {"/start", "/ready"}

Decide(s) ==
    \/ main_tick(s)
    \/ \E uri \in Uris :
           main_check_peer_pod(s, uri) \/ PeerDown(s, uri) \/ CheckLost(s, uri)
    \/ \E a \in answers[s] : http_recv_reply(s, a)
    \/ main_update_pod_label(s)
    \/ \E status \in patches[s] : ApplyPatch(s, status) \/ LosePatch(s, status)

Live(s) ==
    \/ ProcsFail(s) \/ ProcsRecover(s)
    \/ http_patch_pod_ready(s)
    \/ Crash(s)
    \/ main_initialize(s)

Next ==
    /\ \/ \E s \in Deciding : s = deciding /\ Decide(s)
       \/ \E s \in Sides : Live(s)
    /\ UNCHANGED deciding

Spec == Init /\ [][Next]_vars

\* The one-second timers of a running manager fire, an answer or a PATCH that
\* is not lost arrives.  Nobody is obliged to fail, to recover or to restart.
Fairness ==
    \A s \in Deciding :
        LET Mine(A) == s = deciding /\ A /\ UNCHANGED deciding IN
        /\ WF_vars(Mine(main_tick(s)))
        /\ \A uri \in Uris :
               /\ WF_vars(Mine(main_check_peer_pod(s, uri)))
               /\ WF_vars(Mine(PeerDown(s, uri)))
        /\ \A a \in Answers : WF_vars(Mine(http_recv_reply(s, a)))
        /\ WF_vars(Mine(main_update_pod_label(s)))
        /\ \A status \in Statuses : WF_vars(Mine(ApplyPatch(s, status)))

FairSpec == Spec /\ Fairness

-----------------------------------------------------------------------------
\* The side can serve.
Healthy(s) == up[s] /\ all_alive[s] /\ force_not_ready[s] = 0

\* Both the shared memory and the service selector see the side in the role.
InRole(s, role) == mode[s] = role /\ label[s] = role

\* When both sides stay healthy, the pair settles: a side configured A is and
\* stays active, a side configured S standby, whatever answers and PATCHes of
\* earlier moments were still under way.
Settles ==
    <>[](\A s \in Sides : Healthy(s))
        => <>[](\A s \in Deciding : s = deciding =>
                   InRole(s, IF AsMode[s] = "A" THEN "active" ELSE "standby"))

\* When one side stays healthy and the other, from some time on, is not (its
\* processes failed, it was taken out by PATCH /ready, or its manager is
\* dead), the healthy side is and stays active; and the other side, if its
\* manager runs, loses the active label.
FailsOver ==
    \A s \in Deciding :
        /\ <>[](s = deciding /\ Healthy(s) /\ ~Healthy(Peer(s))) => <>[]InRole(s, "active")
        /\ <>[](s = deciding /\ up[s] /\ ~Healthy(s))
               => <>[](mode[s] = "standby" /\ label[s] # "active")
=============================================================================
