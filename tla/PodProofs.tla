----------------------------- MODULE PodProofs ------------------------------
(***************************************************************************)
(* What runs in every pod.  The manager: the safety invariants of K8smgr    *)
(* for every set of applications and every value of the limits.  The init   *)
(* container: what its script leaves on the volume, for any templates, any  *)
(* ordinal and any number of runs.                                          *)
(***************************************************************************)
EXTENDS K8smgr, ReplaceScript, SequenceTheorems, TLAPS

\* What the retry count means: it trails the number of silent checks by at
\* most one, because the check after a beat only clears it.
RetryTracksQuiet(p) ==
    /\ quiet[p] = 0 => cnt[p] # oldcnt[p] \/ retry[p] = 0
    /\ quiet[p] > 0 => cnt[p] = oldcnt[p]
    /\ quiet[p] \in 1 .. HangIntvl => retry[p] \in {quiet[p] - 1, quiet[p]}
    /\ quiet[p] > HangIntvl => retry[p] = HangIntvl

\* What a verdict of check_proc_alive records.
VerdictIsRetry(p) ==
    writer[p] = "check" /\ quiet[p] > 0
        => alive_status[p] = IF retry[p] >= HangIntvl THEN 0 ELSE 1

\* What force_status counts, and who may have written alive_status meanwhile.
ForceCounts(p) ==
    /\ force_status[p] > 0 => writer[p] # "check"
    /\ forced[p] < ForceChecks => force_status[p] = forced[p] + 1
    /\ forced[p] >= ForceChecks => force_status[p] = 0
    /\ forced[p] <= ForceChecks /\ writer[p] # "patch1" => alive_status[p] = 0

\* The inductive invariant.
IInv ==
    /\ TypeOK
    /\ \A p \in Procs : RetryTracksQuiet(p) /\ VerdictIsRetry(p) /\ ForceCounts(p)

-----------------------------------------------------------------------------
\* keepalivelib_increase always leaves p's counter off its old value, however
\* often p has beaten since its last check: the bound on the beats told apart
\* never makes a beating application look silent.
LEMMA IncreaseMoves ==
    ASSUME TypeOK, NEW p \in Procs
    PROVE  /\ keepalivelib_increase(p) \in [Procs -> 0 .. (CntMod - 1)]
           /\ keepalivelib_increase(p)[p] # oldcnt[p]
           /\ \A q \in Procs \ {p} : keepalivelib_increase(p)[q] = cnt[q]
<1> DEFINE M == CntMod
           c == cnt[p]
           o == oldcnt[p]
<1>1. M \in Nat /\ M > 1 /\ MaxBeats \in 1 .. (M - 1)
      BY ConstantsAssumption
<1>2. c \in 0 .. (M - 1) /\ o \in 0 .. (M - 1)
      BY DEF TypeOK
<1>3. \A x \in Int : x >= 0 /\ x < M => x % M = x
      BY <1>1
<1>4. \A x \in Int : x < 0 /\ x >= -M => x % M = x + M
      BY <1>1
<1>5. M % M = 0
      BY <1>1
<1>6. (c + 1) % M \in 0 .. (M - 1)
      BY <1>1, <1>2, <1>3, <1>5
<1>7. (c - o) % M < MaxBeats => (c + 1) % M # o
      BY <1>1, <1>2, <1>3, <1>4, <1>5
<1>8. (c - o) % M >= MaxBeats => c # o
      BY <1>1, <1>2, <1>3
<1>9. (c - o) % M \in Int
      BY <1>1, <1>2
<1> QED BY <1>1, <1>2, <1>6, <1>7, <1>8, <1>9 DEF keepalivelib_increase, TypeOK

\* The capped increment stays in range.
LEMMA IncType ==
    ASSUME NEW cap \in Nat, NEW n \in 0 .. cap
    PROVE  /\ Inc(n, cap) \in 0 .. cap
           /\ n < cap => Inc(n, cap) = n + 1
           /\ n = cap => Inc(n, cap) = cap
BY DEF Inc

\* The manager boots into the invariant.
LEMMA InitIInv == Init => IInv
<1> SUFFICES ASSUME Init PROVE IInv
    OBVIOUS
<1>1. /\ cnt \in [Procs -> 0 .. (CntMod - 1)]
      /\ oldcnt \in [Procs -> 0 .. (CntMod - 1)]
      /\ retry \in [Procs -> 0 .. HangIntvl]
      /\ alive_status \in [Procs -> Int]
      /\ force_status \in [Procs -> 0 .. ForceChecks]
      /\ quiet \in [Procs -> 0 .. (HangIntvl + 1)]
      /\ forced \in [Procs -> 0 .. (ForceChecks + 1)]
      BY ConstantsAssumption DEF Init
<1>2. TypeOK
      BY <1>1, Zenon DEF Init, TypeOK, Writers, Halts
<1>3. \A p \in Procs : RetryTracksQuiet(p) /\ VerdictIsRetry(p) /\ ForceCounts(p)
      BY ConstantsAssumption
      DEF Init, RetryTracksQuiet, VerdictIsRetry, ForceCounts
<1> QED BY <1>2, <1>3 DEF IInv

\* A beat, the manager's own included, keeps it: the counter leaves its old
\* value, so the next check clears the retry count.
LEMMA BeatIInv ==
    ASSUME IInv, NEW p \in Procs,
           cnt' = keepalivelib_increase(p),
           quiet' = [quiet EXCEPT ![p] = 0],
           my_sys_status' \in {0, 1},
           UNCHANGED <<up, working, oldcnt, retry, ctx, force_not_ready, forced,
                       writer, halt>>
    PROVE  IInv'
<1>1. TypeOK
      BY DEF IInv
<1>2. /\ cnt' \in [Procs -> 0 .. (CntMod - 1)]
      /\ cnt'[p] # oldcnt[p]
      /\ \A q \in Procs \ {p} : cnt'[q] = cnt[q]
      BY <1>1, IncreaseMoves
<1>3. TypeOK'
      BY <1>1, <1>2, ConstantsAssumption DEF TypeOK, ctx
<1>4. ASSUME NEW q \in Procs
      PROVE  (RetryTracksQuiet(q) /\ VerdictIsRetry(q) /\ ForceCounts(q))'
  <2>1. RetryTracksQuiet(q) /\ VerdictIsRetry(q) /\ ForceCounts(q)
        BY DEF IInv
  <2>2. quiet'[q] = IF q = p THEN 0 ELSE quiet[q]
        BY <1>1 DEF TypeOK
  <2>3. ForceCounts(q)'
        BY <2>1 DEF ForceCounts, ctx
  <2>4. RetryTracksQuiet(q)'
        BY <1>2, <2>1, <2>2, ConstantsAssumption DEF RetryTracksQuiet
  <2>5. VerdictIsRetry(q)'
        BY <2>1, <2>2 DEF VerdictIsRetry, ctx
  <2> QED BY <2>3, <2>4, <2>5
<1> QED BY <1>3, <1>4 DEF IInv

\* A check keeps it: this is where the retry count, the verdict and the force
\* window move together.
LEMMA CheckIInv ==
    ASSUME IInv, NEW p \in Procs, NEW late \in BOOLEAN, check_proc_alive(p, late)
    PROVE  IInv'
<1> DEFINE f == force_status[p]
           r == NextRetry(p)
<1>1. TypeOK /\ RetryTracksQuiet(p) /\ VerdictIsRetry(p) /\ ForceCounts(p)
      BY DEF IInv
<1>2. /\ HangIntvl \in Nat \ {0}
      /\ ForceChecks \in Nat \ {0}
      BY ConstantsAssumption
<1>3. /\ r \in 0 .. HangIntvl
      /\ cnt[p] # oldcnt[p] => r = 0
      /\ cnt[p] = oldcnt[p] => r = IF retry[p] < HangIntvl THEN retry[p] + 1
                                   ELSE HangIntvl
      BY <1>1, <1>2 DEF NextRetry, Inc, TypeOK
<1>4. /\ retry' = [retry EXCEPT ![p] = r]
      /\ oldcnt' = [oldcnt EXCEPT ![p] = cnt'[p]]
      /\ cnt' = cnt \/ cnt' = keepalivelib_increase(p)
      /\ quiet' = [quiet EXCEPT ![p] = Inc(quiet[p], HangIntvl + 1)]
      /\ forced' = [forced EXCEPT ![p] = Inc(forced[p], ForceChecks + 1)]
      /\ UNCHANGED <<up, working, force_not_ready, my_sys_status, halt>>
      BY DEF check_proc_alive
<1>5. /\ cnt' \in [Procs -> 0 .. (CntMod - 1)]
       /\ \A q \in Procs \ {p} : cnt'[q] = cnt[q]
      BY <1>1, <1>4, IncreaseMoves DEF TypeOK
<1>6. /\ retry'[p] = r /\ oldcnt'[p] = cnt'[p]
      /\ quiet'[p] = IF quiet[p] < HangIntvl + 1 THEN quiet[p] + 1
                                                 ELSE HangIntvl + 1
      /\ forced'[p] = IF forced[p] < ForceChecks + 1 THEN forced[p] + 1
                                                     ELSE ForceChecks + 1
      /\ quiet'[p] \in 0 .. (HangIntvl + 1)
      /\ forced'[p] \in 0 .. (ForceChecks + 1)
      BY <1>1, <1>2, <1>4 DEF TypeOK, Inc
<1>7. \/ /\ f > 0 /\ f < ForceChecks
         /\ force_status' = [force_status EXCEPT ![p] = f + 1]
         /\ alive_status' = [alive_status EXCEPT ![p] = 0]
         /\ writer' = [writer EXCEPT ![p] = "force"]
      \/ /\ f > 0 /\ ~(f < ForceChecks)
         /\ force_status' = [force_status EXCEPT ![p] = 0]
         /\ alive_status' = alive_status
         /\ writer' = writer
      \/ /\ f = 0
         /\ alive_status' = [alive_status EXCEPT ![p] =
                                 IF r >= HangIntvl THEN 0 ELSE 1]
         /\ writer' = [writer EXCEPT ![p] = "check"]
         /\ force_status' = force_status
      BY DEF check_proc_alive, InForceWindow
<1>8. \/ /\ f > 0 /\ f < ForceChecks
         /\ force_status'[p] = f + 1 /\ alive_status'[p] = 0
         /\ writer'[p] = "force"
      \/ /\ f > 0 /\ ~(f < ForceChecks)
         /\ force_status'[p] = 0 /\ alive_status'[p] = alive_status[p]
         /\ writer'[p] = writer[p]
      \/ /\ f = 0
         /\ alive_status'[p] = IF r >= HangIntvl THEN 0 ELSE 1
         /\ writer'[p] = "check" /\ force_status'[p] = 0
      BY <1>1, <1>7 DEF TypeOK
<1>9. TypeOK'
  <2>1. retry' \in [Procs -> 0 .. HangIntvl] /\ oldcnt' \in [Procs -> 0 .. (CntMod - 1)]
        BY <1>1, <1>3, <1>4, <1>5 DEF TypeOK
  <2>2. quiet' \in [Procs -> 0 .. (HangIntvl + 1)] /\ forced' \in [Procs -> 0 .. (ForceChecks + 1)]
    <3>1. Inc(quiet[p], HangIntvl + 1) \in 0 .. (HangIntvl + 1)
          BY <1>1, <1>2 DEF TypeOK, Inc
    <3>2. Inc(forced[p], ForceChecks + 1) \in 0 .. (ForceChecks + 1)
          BY <1>1, <1>2 DEF TypeOK, Inc
    <3> QED BY <1>1, <1>4, <3>1, <3>2 DEF TypeOK
  <2>3. force_status' \in [Procs -> 0 .. ForceChecks]
        BY <1>1, <1>2, <1>7 DEF TypeOK
  <2>4. alive_status' \in [Procs -> Int]
        BY <1>1, <1>7 DEF TypeOK
  <2>5. writer' \in [Procs -> Writers]
        BY <1>1, <1>7 DEF TypeOK, Writers
  <2> QED BY <1>1, <1>4, <1>5, <2>1, <2>2, <2>3, <2>4, <2>5 DEF TypeOK
<1>10. ASSUME NEW q \in Procs
      PROVE  (RetryTracksQuiet(q) /\ VerdictIsRetry(q) /\ ForceCounts(q))'
  <2>1. CASE q = p
    <3> DEFINE k == quiet[p]
    <3>1. /\ k \in 0 .. (HangIntvl + 1) /\ retry[p] \in 0 .. HangIntvl
          /\ f \in 0 .. ForceChecks /\ forced[p] \in 0 .. (ForceChecks + 1)
          BY <1>1 DEF TypeOK
    <3>2. RetryTracksQuiet(p)'
      <4>1. cnt'[p] = oldcnt'[p] /\ quiet'[p] > 0
            BY <1>2, <1>4, <1>6, <3>1
      <4>2. quiet'[p] \in 1 .. HangIntvl => retry'[p] \in {quiet'[p] - 1, quiet'[p]}
            BY <1>1, <1>2, <1>3, <1>6, <3>1 DEF RetryTracksQuiet
      <4>3. quiet'[p] > HangIntvl => retry'[p] = HangIntvl
            BY <1>1, <1>2, <1>3, <1>6, <3>1 DEF RetryTracksQuiet
      <4> QED BY <1>2, <1>6, <4>1, <4>2, <4>3 DEF RetryTracksQuiet
    <3>3. VerdictIsRetry(p)'
          BY <1>1, <1>6, <1>8 DEF VerdictIsRetry, ForceCounts
    <3>4. ForceCounts(p)'
          BY <1>1, <1>2, <1>6, <1>8, <3>1 DEF ForceCounts
    <3> QED BY <2>1, <3>2, <3>3, <3>4
  <2>2. CASE q # p
    <3>1. /\ retry'[q] = retry[q] /\ oldcnt'[q] = oldcnt[q] /\ cnt'[q] = cnt[q]
          /\ quiet'[q] = quiet[q] /\ forced'[q] = forced[q]
          BY <1>1, <1>4, <1>5, <2>2 DEF TypeOK
    <3>2. /\ force_status'[q] = force_status[q] /\ writer'[q] = writer[q]
          /\ alive_status'[q] = alive_status[q]
          BY <1>1, <1>7, <2>2 DEF TypeOK
    <3> QED BY <3>1, <3>2 DEF IInv, RetryTracksQuiet, VerdictIsRetry, ForceCounts
  <2> QED BY <2>1, <2>2
<1> QED BY <1>9, <1>10 DEF IInv

\* A PATCH of one application keeps it.
LEMMA PatchIInv ==
    ASSUME IInv, NEW p \in Procs, NEW s \in Statuses, http_patch_pod_live(p, s)
    PROVE  IInv'
<1>1. TypeOK /\ s \in Int /\ ForceChecks \in Nat \ {0}
      BY ConstantsAssumption DEF IInv
<1>2. /\ alive_status' \in [Procs -> Int]
      /\ force_status' \in [Procs -> 0 .. ForceChecks]
      /\ writer' \in [Procs -> Writers]
      /\ forced' \in [Procs -> 0 .. (ForceChecks + 1)]
      BY <1>1 DEF http_patch_pod_live, TypeOK, Writers
<1>3. TypeOK'
      BY <1>1, <1>2 DEF http_patch_pod_live, TypeOK, shm
<1>4. ASSUME NEW q \in Procs
      PROVE  (RetryTracksQuiet(q) /\ VerdictIsRetry(q) /\ ForceCounts(q))'
  <2>1. RetryTracksQuiet(q) /\ VerdictIsRetry(q) /\ ForceCounts(q)
        BY DEF IInv
  <2>2. RetryTracksQuiet(q)'
        BY <2>1 DEF RetryTracksQuiet, http_patch_pod_live, shm
  <2>3. /\ alive_status'[q] = IF q = p THEN s ELSE alive_status[q]
        /\ force_status'[q] = IF q = p /\ s = 0 THEN 1 ELSE force_status[q]
        /\ writer'[q] = IF q = p THEN IF s = 0 THEN "patch0" ELSE "patch1"
                                 ELSE writer[q]
        /\ forced'[q] = IF q = p /\ s = 0 THEN 0 ELSE forced[q]
        BY <1>1 DEF http_patch_pod_live, TypeOK
  <2>4. VerdictIsRetry(q)'
        BY <2>1, <2>3 DEF VerdictIsRetry, http_patch_pod_live, shm
  <2>5. ForceCounts(q)'
        BY <1>1, <2>1, <2>3 DEF ForceCounts, TypeOK
  <2> QED BY <2>2, <2>4, <2>5
<1> QED BY <1>3, <1>4 DEF IInv

\* Every step of the system keeps it.
LEMMA StepIInv == IInv /\ [Next]_vars => IInv'
<1> SUFFICES ASSUME IInv, [Next]_vars PROVE IInv'
    OBVIOUS
<1>1. ASSUME NEW p \in Procs, Beat(p) PROVE IInv'
      BY <1>1, BeatIInv DEF Beat, IInv, TypeOK
<1>2. CASE main_tick
      BY <1>2, BeatIInv, ConstantsAssumption DEF main_tick
<1>3. ASSUME NEW p \in Procs, Check(p) PROVE IInv'
      BY <1>3, CheckIInv DEF Check
<1>4. ASSUME NEW p \in Procs, NEW s \in Statuses, http_patch_pod_live(p, s)
      PROVE  IInv'
      BY <1>4, PatchIInv
<1>5. CASE main_initialize
      BY <1>5, ConstantsAssumption
      DEF main_initialize, create_keepalive_list, IInv, TypeOK, RetryTracksQuiet,
          VerdictIsRetry, ForceCounts, Writers
<1>6. ASSUME /\ up' \in BOOLEAN /\ working' \in SUBSET Procs
             /\ force_not_ready' \in {0, 1} /\ halt' \in Halts
             /\ UNCHANGED <<shm, ctx, my_sys_status, quiet, forced, writer>>
      PROVE  IInv'
      BY <1>6 DEF IInv, TypeOK, RetryTracksQuiet, VerdictIsRetry, ForceCounts,
         shm, ctx
<1>7. ASSUME NEW p \in Procs, Hang(p) \/ Resume(p) PROVE IInv'
      BY <1>6, <1>7 DEF Hang, Resume, IInv, TypeOK, history
<1>8. ASSUME NEW p \in Procs, http_patch_pod_live_no_status(p) PROVE IInv'
      BY <1>6, <1>8 DEF http_patch_pod_live_no_status, IInv, TypeOK, Halts
<1>9. ASSUME NEW s \in Statuses, http_patch_pod_ready(s) PROVE IInv'
      BY <1>6, <1>9 DEF http_patch_pod_ready, IInv, TypeOK, history
<1>10. CASE Crash
      BY <1>6, <1>10 DEF Crash, IInv, TypeOK, Halts
<1>11. CASE UNCHANGED vars
      BY <1>6, <1>11 DEF vars, IInv, TypeOK, history
<1> QED BY <1>1, <1>2, <1>3, <1>4, <1>5, <1>7, <1>8, <1>9, <1>10, <1>11 DEF Next

-----------------------------------------------------------------------------
\* The inductive invariant holds in every behaviour of the manager.
THEOREM IInvHolds == Spec => []IInv
BY InitIInv, StepIInv, PTL DEF Spec

\* Type correctness of the keepalive segment and the manager's context.
THEOREM TypeCorrect == Spec => []TypeOK
<1>1. IInv => TypeOK
      BY DEF IInv
<1> QED BY <1>1, IInvHolds, PTL

\* Every hang longer than HangIntvl checks is found, for any number of
\* applications and any limits.
THEOREM HangDetection == Spec => []HangDetected
<1>1. IInv => HangDetected
  <2> SUFFICES ASSUME IInv, NEW p \in Procs,
                      writer[p] = "check", quiet[p] > HangIntvl
               PROVE  alive_status[p] = 0
      BY DEF HangDetected
  <2>1. RetryTracksQuiet(p) /\ VerdictIsRetry(p) /\ HangIntvl \in Nat \ {0}
        /\ quiet[p] \in 0 .. (HangIntvl + 1)
        BY ConstantsAssumption DEF IInv, TypeOK
  <2> QED BY <2>1 DEF RetryTracksQuiet, VerdictIsRetry
<1> QED BY <1>1, IInvHolds, PTL

\* No application is called dead before HangIntvl checks have passed in
\* silence, whatever an earlier manager left in the keepalive segment.
THEOREM NoFalseAlarms == Spec => []NoFalseAlarm
<1>1. IInv => NoFalseAlarm
  <2> SUFFICES ASSUME IInv, NEW p \in Procs,
                      writer[p] = "check", quiet[p] \in 1 .. (HangIntvl - 1)
               PROVE  alive_status[p] = 1
      BY DEF NoFalseAlarm
  <2>1. /\ RetryTracksQuiet(p) /\ VerdictIsRetry(p) /\ HangIntvl \in Nat \ {0}
        /\ quiet[p] \in 0 .. (HangIntvl + 1)
        BY ConstantsAssumption DEF IInv, TypeOK
  <2>2. retry[p] \in {quiet[p] - 1, quiet[p]}
        BY <2>1 DEF RetryTracksQuiet
  <2> QED BY <2>1, <2>2 DEF VerdictIsRetry
<1> QED BY <1>1, IInvHolds, PTL

\* The force window opened by PATCH status=0 lasts ForceChecks checks and ends.
THEOREM ForceWindowHolds == Spec => []ForceWindow
<1>1. IInv => ForceWindow
      BY DEF IInv, ForceWindow, ForceCounts
<1> QED BY <1>1, IInvHolds, PTL

-----------------------------------------------------------------------------
(* The script of the init container *)

Lines(f) == Templates[f].lines

\* What replace_content, and then each sed, makes of a template.
Replaced(f) == [k \in DOMAIN Lines(f) |-> replace_line(Lines(f)[k])]
Named(f) == sed(Replaced(f), "pod")
Final(f) == [k \in DOMAIN Lines(f) |-> [i \in DOMAIN Lines(f)[k] |-> Meant(Lines(f)[k][i])]]

\* The file the script is at, by the next command.
Current ==
    /\ command = "rm" /\ at \in Files => files[at] = Lines(at)
    /\ command = "read" =>
         /\ at \in Files /\ files[at] = Lines(at)
         /\ \E n \in 0..Len(Lines(at)) :
              /\ rest = SubSeq(Lines(at), n + 1, Len(Lines(at)))
              /\ tmp[at] = SubSeq(Replaced(at), 1, n)
    /\ command = "sed pod" => at \in Files /\ files[at] = Replaced(at)
    /\ command = "sed set" => at \in Files /\ files[at] = Named(at)

\* The inductive invariant: the files before the current one are final, those
\* after it still their templates.  What earlier runs left on the volume counts
\* only until start copies the templates again.
Progress ==
    /\ command \in {"start", "rm", "read", "sed pod", "sed set", "done"}
    /\ DOMAIN tmp = Files
    /\ command # "start" =>
         /\ at \in Nat \ {0} /\ DOMAIN files = Files
         /\ \A f \in Files : f < at => files[f] = Final(f)
         /\ \A f \in Files : f > at => files[f] = Lines(f)
         /\ Current
    /\ command = "done" => at > Len(Templates)

-----------------------------------------------------------------------------
\* The templates, typed.
LEMMA TemplateFacts ==
    ASSUME ReplaceAssumption
    PROVE  /\ Files = 1..Len(Templates) /\ Len(Templates) \in Nat
           /\ \A f \in Files : Lines(f) \in Seq(Seq(Words))
<1> DEFINE T == [name : STRING, lines : Seq(Seq(Words))]
<1>1. Templates \in Seq(T)
      BY DEF ReplaceAssumption
<1>2. \A t \in T : t.lines \in Seq(Seq(Words))
      OBVIOUS
<1> HIDE DEF T
<1>3. Len(Templates) \in Nat /\ Templates \in [1..Len(Templates) -> T]
      BY <1>1, LenProperties
<1> QED BY <1>2, <1>3 DEF Files, Lines

\* Rewriting the index, then the pod, then the set, gives what a word should be:
\* no step rewrites what an earlier one wrote.
LEMMA WordFacts ==
    ASSUME ReplaceAssumption, NEW f \in Files
    PROVE  sed(Named(f), "set") = Final(f)
<1> DEFINE Sed(w, kind) == IF w.kind = kind THEN [kind |-> "name", of |-> kind] ELSE w
           Chain(w) == Sed(Sed(replace_elem(w), "pod"), "set")
<1>1. \A w \in Words : Chain(w) = Meant(w)
  <2> TAKE w \in Words
  <2>1. CASE w \in [kind : {"text", "pod", "set"}]
        BY <2>1 DEF replace_elem, Meant
  <2>2. CASE w \in [kind : {"index+dec", "index+hex"}, value : Nat]
    <3>1. w.value + MY_INDEX = w.value + Ordinal + 1
          BY <2>2 DEF MY_INDEX, ReplaceAssumption
    <3> QED BY <2>2, <3>1 DEF replace_elem, Meant
  <2>3. CASE w \in [kind : {"index+text"}, text : STRING]
        BY <2>3 DEF replace_elem, Meant, MY_INDEX
  <2> QED BY <2>1, <2>2, <2>3 DEF Words
<1>2. Lines(f) \in Seq(Seq(Words))
      BY TemplateFacts
<1>3. \A k \in DOMAIN Lines(f) : \A i \in DOMAIN Lines(f)[k] : Lines(f)[k][i] \in Words
      BY <1>2
<1>4. sed(Named(f), "set") = [k \in DOMAIN Lines(f) |-> [i \in DOMAIN Lines(f)[k] |-> Chain(Lines(f)[k][i])]]
      BY DEF sed, Named, Replaced, replace_line
<1> HIDE DEF Chain
<1> QED BY <1>1, <1>3, <1>4 DEF Final

\* A function on 1..n is a sequence.
LEMMA FunctionIsSeq ==
    ASSUME NEW U, NEW n \in Nat, NEW t \in [1..n -> U]
    PROVE  t \in Seq(U) /\ Len(t) = n
<1>1. t \in Seq(U)
      BY SeqDef
<1> QED BY <1>1, LenProperties

\* The loop from the first line, over the next one, to the last.
LEMMA LoopFacts ==
    ASSUME ReplaceAssumption, NEW f \in Files
    PROVE  /\ Len(Lines(f)) \in Nat
           /\ SubSeq(Lines(f), 1, Len(Lines(f))) = Lines(f)
           /\ SubSeq(Replaced(f), 1, 0) = <<>>
           /\ SubSeq(Replaced(f), 1, Len(Lines(f))) = Replaced(f)
           /\ \A n \in 0..Len(Lines(f)) :
                LET left == SubSeq(Lines(f), n + 1, Len(Lines(f)))
                IN  /\ left = <<>> <=> n = Len(Lines(f))
                    /\ n < Len(Lines(f)) =>
                         /\ Append(SubSeq(Replaced(f), 1, n), replace_line(Head(left)))
                              = SubSeq(Replaced(f), 1, n + 1)
                         /\ Tail(left) = SubSeq(Lines(f), n + 2, Len(Lines(f)))
<1>1. PICK s : s = Lines(f)
      OBVIOUS
<1>2. PICK t : t = Replaced(f)
      OBVIOUS
<1>3. s \in Seq(Seq(Words)) /\ Len(s) \in Nat /\ DOMAIN s = 1..Len(s)
      BY <1>1, TemplateFacts, LenProperties
<1>4. t = [k \in 1..Len(s) |-> replace_line(s[k])]
      BY <1>1, <1>2, <1>3 DEF Replaced
<1>5. PICK U : U = { t[k] : k \in 1..Len(s) }
      OBVIOUS
<1>6. t \in [1..Len(s) -> U]
      BY <1>4, <1>5
<1>7. t \in Seq(U) /\ Len(t) = Len(s)
      BY <1>3, <1>6, FunctionIsSeq
<1>8. SubSeq(s, 1, Len(s)) = s /\ SubSeq(t, 1, Len(s)) = t /\ SubSeq(t, 1, 0) = <<>>
      BY <1>3, <1>7, SubSeqFull, SubSeqEmpty
<1>9. ASSUME NEW n \in 0..Len(s), NEW left, left = SubSeq(s, n + 1, Len(s))
      PROVE  /\ left = <<>> <=> n = Len(s)
             /\ n < Len(s) => /\ Append(SubSeq(t, 1, n), replace_line(Head(left))) = SubSeq(t, 1, n + 1)
                              /\ Tail(left) = SubSeq(s, n + 2, Len(s))
  <2>1. n \in Nat /\ n <= Len(s) /\ n + 1 \in Int /\ Len(s) \in Int
        BY <1>3
  <2>2. CASE n = Len(s)
    <3>1. Len(s) < n + 1 /\ ~(n < Len(s))
          BY <2>1, <2>2
    <3> QED BY <1>9, <2>1, <2>2, <3>1, SubSeqEmpty
  <2>3. CASE n < Len(s)
    <3>1. n + 1 \in 1..Len(s) /\ Len(s) \in (n + 1)..Len(s) /\ (n + 1) + 1 = n + 2 /\ (n + 1) - 1 = n
          /\ 1 \in 1..Len(t) /\ n + 1 \in 1..Len(t)
          BY <1>3, <1>7, <2>1, <2>3
    <3>2. Head(left) = s[n + 1] /\ Tail(left) = SubSeq(s, n + 2, Len(s))
          BY <1>3, <1>9, <3>1, HeadTailOfSubSeq
    <3>3. Len(left) = Len(s) - (n + 1) + 1
      <4>1. \A i \in (n + 1)..Len(s) : s[i] \in Seq(Words)
            BY <1>3, <2>1, ElementOfSeq
      <4> QED BY <1>9, <2>1, <2>3, <4>1, SubSeqProperties
    <3>4. left # <<>>
      <4>1. Len(left) # 0
            BY <2>1, <2>3, <3>3
      <4> QED BY <4>1, EmptySeq
    <3>5. SubSeq(t, 1, n + 1) = SubSeq(t, 1, (n + 1) - 1) \o <<t[n + 1]>>
          BY <1>7, <3>1, SubSeqRecursiveSecond
    <3>6. SubSeq(t, 1, n) \in Seq(U) /\ t[n + 1] \in U
      <4>1. \A i \in 1..n : t[i] \in U
            BY <1>7, <2>1, ElementOfSeq
      <4> QED BY <1>7, <2>1, <3>1, <4>1, ElementOfSeq, SubSeqProperties
    <3>7. Append(SubSeq(t, 1, n), t[n + 1]) = SubSeq(t, 1, n + 1)
          BY <3>1, <3>5, <3>6, AppendIsConcat
    <3>8. t[n + 1] = replace_line(Head(left))
          BY <1>4, <3>1, <3>2
    <3> QED BY <2>3, <3>2, <3>4, <3>7, <3>8
  <2> QED BY <2>1, <2>2, <2>3
<1> QED BY <1>1, <1>2, <1>3, <1>8, <1>9

-----------------------------------------------------------------------------
\* Every command keeps the invariant.
LEMMA ProgressStep ==
    ASSUME ReplaceAssumption, Progress, [ScriptNext]_svars
    PROVE  Progress'
<1>1. Files = 1..Len(Templates) /\ Len(Templates) \in Nat
      BY TemplateFacts
<1> USE <1>1
<1>2. CASE start
      BY <1>2 DEF start, Progress, Current, Lines
<1>3. CASE replace_content
  <2>1. at \in Files
        BY <1>3 DEF replace_content, Progress
  <2>2. rest' = SubSeq(Lines(at), 0 + 1, Len(Lines(at))) /\ tmp'[at] = SubSeq(Replaced(at), 1, 0)
        /\ 0 \in 0..Len(Lines(at))
        BY <1>3, <2>1, LoopFacts DEF replace_content, Progress, Current
  <2>3. Current'
        BY <1>3, <2>1, <2>2 DEF replace_content, Progress, Current
  <2> QED BY <1>3, <2>3 DEF replace_content, Progress
<1>4. CASE read_line
  <2>1. PICK n \in 0..Len(Lines(at)) :
          /\ rest = SubSeq(Lines(at), n + 1, Len(Lines(at)))
          /\ tmp[at] = SubSeq(Replaced(at), 1, n)
        BY <1>4 DEF read_line, Progress, Current
  <2>2. at \in Files /\ files[at] = Lines(at)
        BY <1>4 DEF read_line, Progress, Current
  <2>3. n < Len(Lines(at)) /\ n + 1 \in 0..Len(Lines(at)) /\ (n + 1) + 1 = n + 2
        BY <1>4, <2>1, <2>2, LoopFacts DEF read_line
  <2>4. tmp'[at] = SubSeq(Replaced(at), 1, n + 1) /\ rest' = SubSeq(Lines(at), n + 2, Len(Lines(at)))
    <3>1. tmp'[at] = Append(tmp[at], replace_line(Head(rest))) /\ rest' = Tail(rest)
          BY <1>4, <2>2 DEF read_line, Progress
    <3> QED BY <2>1, <2>2, <2>3, <3>1, LoopFacts
  <2>5. \E m \in 0..Len(Lines(at)) : /\ rest' = SubSeq(Lines(at), m + 1, Len(Lines(at)))
                                     /\ tmp'[at] = SubSeq(Replaced(at), 1, m)
        BY <2>3, <2>4
  <2>6. Current'
        BY <1>4, <2>2, <2>5 DEF read_line, Current
  <2> QED BY <1>4, <2>6 DEF read_line, Progress
<1>5. CASE mv
  <2>1. at \in Files /\ tmp[at] = Replaced(at)
        BY <1>5, LoopFacts DEF mv, Progress, Current
  <2>2. Current' /\ at' = at /\ \A f \in Files : f # at => files'[f] = files[f]
        BY <1>5, <2>1 DEF mv, Progress, Current
  <2>3. \A f \in Files : (f < at => files'[f] = Final(f)) /\ (f > at => files'[f] = Lines(f))
    <3>1. at \in Nat /\ \A f \in Files : (f < at => files[f] = Final(f)) /\ (f > at => files[f] = Lines(f))
          BY <1>5 DEF mv, Progress
    <3> QED BY <2>2, <3>1
  <2>4. at \in Nat \ {0} /\ DOMAIN files' = Files /\ DOMAIN tmp' = Files /\ command' = "sed pod"
        BY <1>5 DEF mv, Progress
  <2> QED BY <2>2, <2>3, <2>4 DEF Progress
<1>6. CASE sed_names
  <2>1. CASE command = "sed pod"
    <3>1. at \in Files /\ files[at] = Replaced(at) /\ at' = at /\ command' = "sed set"
          /\ files' = [files EXCEPT ![at] = sed(@, "pod")]
          BY <1>6, <2>1 DEF sed_names, Progress, Current
    <3>2. files'[at] = Named(at) /\ \A f \in Files : f # at => files'[f] = files[f]
          BY <2>1, <3>1 DEF Named, Progress
    <3>3. Current'
          BY <3>1, <3>2 DEF Current
    <3>4. \A f \in Files : (f < at => files'[f] = Final(f)) /\ (f > at => files'[f] = Lines(f))
      <4>1. at \in Nat /\ \A f \in Files : (f < at => files[f] = Final(f)) /\ (f > at => files[f] = Lines(f))
            BY <2>1 DEF Progress
      <4> QED BY <3>2, <4>1
    <3>5. at \in Nat \ {0} /\ DOMAIN files' = Files /\ DOMAIN tmp' = Files
          BY <1>6, <2>1, <3>1 DEF sed_names, Progress
    <3> QED BY <3>1, <3>3, <3>4, <3>5 DEF Progress
  <2>2. CASE command = "sed set"
    <3>1. at \in Files /\ files[at] = Named(at) /\ at' = at + 1 /\ command' = "rm"
          /\ files' = [files EXCEPT ![at] = sed(@, "set")]
          BY <1>6, <2>2 DEF sed_names, Progress, Current
    <3>2. files'[at] = Final(at) /\ \A f \in Files : f # at => files'[f] = files[f]
          BY <2>2, <3>1, WordFacts DEF Progress
    <3>4. at \in Nat /\ at' \in Nat \ {0} /\ at' > at /\ DOMAIN files' = Files /\ DOMAIN tmp' = Files
      <4>1. at \in Nat
            BY <2>2 DEF Progress
      <4>2. at' \in Nat \ {0} /\ at' > at
            BY <3>1, <4>1
      <4> QED BY <1>6, <2>2, <3>1, <4>1, <4>2 DEF sed_names, Progress
    <3>5. \A f \in Files : (f < at' => files'[f] = Final(f)) /\ (f > at' => files'[f] = Lines(f))
      <4>1. at \in Nat /\ \A f \in Files : (f < at => files[f] = Final(f)) /\ (f > at => files[f] = Lines(f))
            BY <2>2 DEF Progress
      <4> QED BY <3>1, <3>2, <3>4, <4>1
    <3>3. Current'
      <4>1. at' \in Files => files[at'] = Lines(at')
            BY <2>2, <3>4 DEF Progress
      <4>2. at' \in Files => files'[at'] = Lines(at')
            BY <3>1, <3>2, <3>4, <4>1
      <4> QED BY <3>1, <4>2 DEF Current
    <3> QED BY <3>1, <3>3, <3>4, <3>5 DEF Progress
  <2> QED BY <1>6, <2>1, <2>2 DEF sed_names
<1>7. CASE finish
      BY <1>7 DEF finish, Progress, Current
<1>8. CASE RunAgain
      BY <1>8 DEF RunAgain, Progress
<1>9. CASE UNCHANGED svars
      BY <1>9 DEF svars, Progress, Current
<1> QED BY <1>2, <1>3, <1>4, <1>5, <1>6, <1>7, <1>8, <1>9 DEF ScriptNext

\* When the init container has succeeded, every file is its template for this
\* ordinal with each word replaced once, wherever earlier runs of the container
\* were killed: for any templates, any ordinal and any number of runs.
THEOREM FilesConfigured ==
    ASSUME ReplaceAssumption
    PROVE  ScriptSpec => []Configured
<1>1. ScriptInit => Progress
      BY DEF ScriptInit, Progress
<1>2. Progress /\ [ScriptNext]_svars => Progress'
      BY ProgressStep
<1>3. Progress => Configured
  <2>1. SUFFICES ASSUME Progress, command = "done", NEW f \in Files
                 PROVE  files[f] = Final(f)
        BY DEF Configured, Final, Lines
  <2>2. at \in Nat /\ at > Len(Templates) /\ (f < at => files[f] = Final(f))
        BY <2>1 DEF Progress
  <2>3. Len(Templates) \in Nat /\ f \in 1..Len(Templates)
        BY TemplateFacts
  <2> QED BY <2>2, <2>3
<1> QED BY <1>1, <1>2, <1>3, PTL DEF ScriptSpec
=============================================================================
