-------------------------- MODULE LifecycleProofs ---------------------------
(***************************************************************************)
(* Proofs about Lifecycle for every set of probes, every deadline, period  *)
(* and threshold, and any number of crashes and changes of the storage.    *)
(***************************************************************************)
EXTENDS Lifecycle, TLAPS

(* Only a serving container has a probe in a handler, and only one the     *)
(* kubelet wants: startup before it succeeded, the others after.           *)
ProbesOfServing ==
  \A k \in Probes : probe[k].at = "handler" =>
    stage = "serving" /\ (k = "startup" <=> ~ started)

StartedServes == started => stage = "serving"

(* A handler that asks nobody is not overtaken by the clock.               *)
LivenessAtOnce ==
  \A k \in Probes : probe[k].at = "handler" /\ ~ Asks(k) => age[k] = 0

(* A request is younger than the deadline, unless the storage hung.        *)
PromptIsYoung ==
  \A k \in Probes : probe[k].at = "handler" =>
    IF prompt[k] THEN age[k] < CheckDeadline ELSE hung

HangIsKnown == stage # "exited" /\ storage = "hangs" => hung

LifecycleInvariant ==
  /\ LifecycleTypeOK /\ ProbesOfServing /\ StartedServes
  /\ LivenessAtOnce /\ PromptIsYoung /\ HangIsKnown
-----------------------------------------------------------------------------
ProbeType == [at : {"idle", "handler"}, result : {<<>>} \cup {<<s>> : s \in Statuses}]

Counted ==
  failures \in [Probes -> Nat] /\ \A k \in Probes : failures[k] <= ThresholdOf(k)

(* A storage, a process, and one past that a step leaves alone.            *)
Elsewhere == UNCHANGED <<storageVars, crashes, historyVars>>

(* Idle is a probe's state.                                                *)
LEMMA IdleType == Idle \in ProbeType
BY DEF Idle, ProbeType

(* Forgetting a probe keeps the types of what the kubelet knows of it, and *)
(* the other probes as they are.                                           *)
LEMMA ForgetOne ==
  ASSUME LifecycleTypeOK, NEW k \in Probes, Forget(k)
  PROVE  /\ probe' \in [Probes -> ProbeType]
         /\ age' \in [Probes -> 0 .. ProbeTimeout] /\ prompt' \in [Probes -> BOOLEAN]
         /\ probe'[k].at = "idle"
         /\ \A j \in Probes \ {k} :
              probe'[j] = probe[j] /\ age'[j] = age[j] /\ prompt'[j] = prompt[j]
<1>1. probe \in [Probes -> ProbeType]
  BY DEF LifecycleTypeOK, ProbeType
<1>2. probe' \in [Probes -> ProbeType] /\ probe'[k] = Idle
  BY <1>1, IdleType DEF Forget
<1>3. age' \in [Probes -> 0 .. ProbeTimeout] /\ prompt' \in [Probes -> BOOLEAN]
  BY LifecycleAssumption DEF Forget, LifecycleTypeOK
<1> QED
  BY <1>1, <1>2, <1>3 DEF Forget, Idle, LifecycleTypeOK

(* The end of a container leaves no probe and establishes everything.      *)
LEMMA EndsKeep ==
  ASSUME LifecycleTypeOK, ContainerEnds, UNCHANGED <<storageVars, historyVars>>,
         crashes' \in 0 .. MaxCrashes
  PROVE  LifecycleInvariant'
<1>1. LifecycleTypeOK'
  <2>1. probe' \in [Probes -> ProbeType]
    BY IdleType DEF ContainerEnds
  <2>2. /\ age' \in [Probes -> 0 .. ProbeTimeout] /\ prompt' \in [Probes -> BOOLEAN]
        /\ since' \in [Probes -> 0 .. Period] /\ Counted'
    BY LifecycleAssumption DEF ContainerEnds, Counted, ThresholdOf
  <2>3. /\ storage' = storage /\ changes' = changes /\ away' = away /\ hung' = hung
        /\ stage' = "exited" /\ started' = FALSE /\ ready' = FALSE
    BY DEF ContainerEnds, storageVars, historyVars
  <2> QED
    BY <2>1, <2>2, <2>3 DEF LifecycleTypeOK, ProbeType, Counted
<1>2. \A k \in Probes : probe'[k].at = "idle"
  BY DEF ContainerEnds, Idle
<1> QED
  BY <1>1, <1>2 DEF LifecycleInvariant, ContainerEnds, ProbesOfServing,
     StartedServes, LivenessAtOnce, PromptIsYoung, HangIsKnown

(* A failure that is only counted keeps the invariant.                     *)
LEMMA CountFailureKeeps ==
  ASSUME LifecycleInvariant, NEW k \in Probes, CountFailure(k), Elsewhere
  PROVE  LifecycleInvariant'
<1> USE DEF LifecycleInvariant
<1>1. Forget(k) /\ UNCHANGED <<stage, started, storage, changes, crashes, away, hung>>
  BY DEF CountFailure, Elsewhere, storageVars, historyVars
<1>2. LifecycleTypeOK'
  <2>1. Counted'
    BY LifecycleAssumption
       DEF CountFailure, AtThreshold, LifecycleTypeOK, Counted, ThresholdOf
  <2>2. since' \in [Probes -> 0 .. Period]
    BY LifecycleAssumption DEF CountFailure, LifecycleTypeOK
  <2>3. ready' \in BOOLEAN
    BY DEF CountFailure, LifecycleTypeOK
  <2> QED
    BY <1>1, <2>1, <2>2, <2>3, ForgetOne DEF LifecycleTypeOK, ProbeType, Counted
<1> QED
  BY <1>1, <1>2, ForgetOne DEF ProbesOfServing, StartedServes, LivenessAtOnce,
     PromptIsYoung, HangIsKnown

(* A success keeps it: before the startup probe's there is no other probe. *)
LEMMA SucceedKeeps ==
  ASSUME LifecycleInvariant, NEW k \in Probes, probe[k].at = "handler",
         Succeed(k), Elsewhere
  PROVE  LifecycleInvariant'
<1> USE DEF LifecycleInvariant
<1>1. Forget(k) /\ UNCHANGED <<stage, since, storage, changes, crashes, away, hung>>
  BY DEF Succeed, Elsewhere, storageVars, historyVars
<1>2. LifecycleTypeOK'
  <2>1. Counted'
    BY LifecycleAssumption DEF Succeed, LifecycleTypeOK, Counted, ThresholdOf
  <2>2. started' \in BOOLEAN /\ ready' \in BOOLEAN
    BY DEF Succeed, LifecycleTypeOK
  <2> QED
    BY <1>1, <2>1, <2>2, ForgetOne DEF LifecycleTypeOK, ProbeType, Counted
<1>3. stage = "serving" /\ (k = "startup" <=> ~ started)
  BY DEF ProbesOfServing
<1>4. \A j \in Probes : probe'[j].at = "handler" =>
        j # k /\ probe[j].at = "handler" /\ started' = started
  BY <1>1, <1>3, ForgetOne DEF Succeed, ProbesOfServing, LifecycleTypeOK
<1>5. ProbesOfServing'
  BY <1>1, <1>4 DEF ProbesOfServing
<1> QED
  BY <1>1, <1>2, <1>3, <1>4, <1>5, ForgetOne DEF StartedServes, LivenessAtOnce,
     PromptIsYoung, HangIsKnown

(* So does a failure, whether it is counted or kills.                      *)
LEMMA FailKeeps ==
  ASSUME LifecycleInvariant, NEW k \in Probes, Fail(k), Elsewhere
  PROVE  LifecycleInvariant'
<1>1. CASE Kills(k)
  <2>1. ContainerEnds /\ UNCHANGED <<storageVars, historyVars>>
    BY <1>1 DEF Fail, Elsewhere
  <2>2. LifecycleTypeOK /\ crashes' \in 0 .. MaxCrashes
    BY DEF Elsewhere, LifecycleInvariant, LifecycleTypeOK
  <2> QED
    BY <2>1, <2>2, EndsKeep
<1>2. CASE ~ Kills(k)
  BY <1>2, CountFailureKeeps DEF Fail
<1> QED
  BY <1>1, <1>2
-----------------------------------------------------------------------------
(* The invariant holds at first.                                           *)
LEMMA InvariantInit == LifecycleInit => LifecycleInvariant
<1> SUFFICES ASSUME LifecycleInit PROVE LifecycleInvariant
  OBVIOUS
<1>1. probe \in [Probes -> ProbeType] /\ \A k \in Probes : probe[k].at = "idle"
  BY IdleType DEF LifecycleInit, Idle
<1>2. away \in 0 .. AwayBound + 1
  BY LifecycleAssumption DEF LifecycleInit, AwayBound
<1>3. /\ age \in [Probes -> 0 .. ProbeTimeout] /\ prompt \in [Probes -> BOOLEAN]
      /\ since \in [Probes -> 0 .. Period] /\ Counted
  BY LifecycleAssumption DEF LifecycleInit, Counted, ThresholdOf
<1>4. LifecycleTypeOK
  <2>1. /\ storage \in {"up", "refuses", "hangs"} /\ changes = 0
        /\ stage = "exited" /\ crashes = 0 /\ started = FALSE /\ ready = FALSE /\ hung = FALSE
    BY DEF LifecycleInit
  <2>2. 0 \in 0 .. MaxChanges /\ 0 \in 0 .. MaxCrashes
    BY LifecycleAssumption
  <2> QED
    BY <1>1, <1>2, <1>3, <2>1, <2>2 DEF LifecycleTypeOK, ProbeType, Counted
<1> QED
  BY <1>1, <1>4 DEF LifecycleInit, LifecycleInvariant, ProbesOfServing,
     StartedServes, LivenessAtOnce, PromptIsYoung, HangIsKnown

(* main keeps the invariant: while it starts, nothing is served.           *)
LEMMA MainKeeps == LifecycleInvariant /\ Main => LifecycleInvariant'
<1> SUFFICES ASSUME LifecycleInvariant, Main PROVE LifecycleInvariant'
  OBVIOUS
<1> USE DEF LifecycleInvariant
<1>1. CASE Start
  BY <1>1 DEF Start, storageVars, kubeletVars, LifecycleTypeOK, ProbesOfServing,
     StartedServes, LivenessAtOnce, PromptIsYoung, HangIsKnown
<1>2. CASE Connected
  BY <1>2 DEF Connected, storageVars, kubeletVars, historyVars, LifecycleTypeOK,
     ProbesOfServing, StartedServes, LivenessAtOnce, PromptIsYoung, HangIsKnown
<1>3. CASE ConnectFails
  BY <1>3, EndsKeep DEF ConnectFails, LifecycleTypeOK
<1> QED
  BY <1>1, <1>2, <1>3 DEF Main

(* A crash keeps it.                                                       *)
LEMMA CrashKeeps == LifecycleInvariant /\ Crash => LifecycleInvariant'
<1> SUFFICES ASSUME LifecycleInvariant, Crash PROVE LifecycleInvariant'
  OBVIOUS
<1>1. crashes' \in 0 .. MaxCrashes
  BY LifecycleAssumption DEF Crash, LifecycleInvariant, LifecycleTypeOK
<1> QED
  BY <1>1, EndsKeep DEF Crash, LifecycleInvariant

(* The kubelet keeps it: a new request is young, and prompt or hanging.    *)
LEMMA KubeletKeeps ==
  ASSUME LifecycleInvariant, NEW k \in Probes, Kubelet(k)
  PROVE  LifecycleInvariant'
<1> USE DEF LifecycleInvariant
<1>1. CASE SendProbe(k)
  <2>1. /\ probe' \in [Probes -> ProbeType] /\ age' \in [Probes -> 0 .. ProbeTimeout]
        /\ since' \in [Probes -> 0 .. Period] /\ prompt' \in [Probes -> BOOLEAN]
    <3>1. probe' \in [Probes -> ProbeType]
      BY <1>1 DEF SendProbe, LifecycleTypeOK, ProbeType
    <3>2. age' \in [Probes -> 0 .. ProbeTimeout] /\ since' \in [Probes -> 0 .. Period]
      BY <1>1, LifecycleAssumption DEF SendProbe, LifecycleTypeOK
    <3>3. prompt' \in [Probes -> BOOLEAN]
      BY <1>1 DEF SendProbe, LifecycleTypeOK
    <3> QED
      BY <3>1, <3>2, <3>3
  <2>2. UNCHANGED <<storage, changes, stage, crashes, failures, started, ready, away, hung>>
    BY <1>1 DEF SendProbe, storageVars, processVars, historyVars
  <2>3. LifecycleTypeOK'
    BY <2>1, <2>2 DEF LifecycleTypeOK, ProbeType
  <2>4. stage = "serving" /\ (k = "startup" <=> ~ started)
    BY <1>1 DEF SendProbe, Due, Wanted
  <2>5. age'[k] = 0 /\ prompt'[k] = (storage # "hangs")
    BY <1>1 DEF SendProbe, LifecycleTypeOK
  <2>6. \A j \in Probes \ {k} :
          probe'[j] = probe[j] /\ age'[j] = age[j] /\ prompt'[j] = prompt[j]
    BY <1>1 DEF SendProbe, LifecycleTypeOK
  <2>7. ProbesOfServing' /\ LivenessAtOnce'
    BY <2>2, <2>4, <2>5, <2>6 DEF ProbesOfServing, LivenessAtOnce, Asks
  <2>8. PromptIsYoung'
    <3> SUFFICES ASSUME NEW j \in Probes, probe'[j].at = "handler"
                 PROVE  IF prompt'[j] THEN age'[j] < CheckDeadline ELSE hung'
      BY DEF PromptIsYoung
    <3>1. CASE j = k
      <4>1. age'[k] < CheckDeadline
        BY <2>5, LifecycleAssumption
      <4>2. prompt'[k] \/ hung'
        BY <2>2, <2>4, <2>5 DEF HangIsKnown
      <4> QED
        BY <3>1, <4>1, <4>2
    <3>2. CASE j # k
      BY <2>2, <2>6, <3>2 DEF PromptIsYoung
    <3> QED
      BY <3>1, <3>2
  <2> QED
    BY <2>2, <2>3, <2>7, <2>8 DEF StartedServes, HangIsKnown
<1>2. CASE ProbeRefused(k)
  BY <1>2, FailKeeps DEF ProbeRefused, Elsewhere
<1>3. CASE ProbeTimesOut(k)
  BY <1>3, FailKeeps DEF ProbeTimesOut, Elsewhere
<1> QED
  BY <1>1, <1>2, <1>3 DEF Kubelet

(* The handlers keep it: they report one status, or answer.                *)
LEMMA HandleKeeps ==
  ASSUME LifecycleInvariant, NEW k \in Probes, Handle(k)
  PROVE  LifecycleInvariant'
<1> USE DEF LifecycleInvariant
<1>1. ASSUME NEW status \in Statuses, Examining(k), Report(k, status)
      PROVE  LifecycleInvariant'
  <2>1. UNCHANGED <<storage, changes, stage, crashes, age, prompt, since, failures,
                    started, ready, away, hung>>
    BY <1>1 DEF Report, storageVars, processVars, historyVars
  <2>2. probe[k].result = <<>> /\ Append(<<>>, status) = <<status>>
    BY <1>1 DEF Examining
  <2>3. probe' = [probe EXCEPT ![k].result = <<status>>]
    BY <1>1, <2>2 DEF Report
  <2>4. probe' \in [Probes -> ProbeType]
    BY <2>3 DEF LifecycleTypeOK, ProbeType
  <2>5. \A j \in Probes : probe'[j].at = probe[j].at
    BY <2>3 DEF LifecycleTypeOK
  <2>6. LifecycleTypeOK'
    BY <2>1, <2>4 DEF LifecycleTypeOK, ProbeType
  <2> QED
    BY <2>1, <2>5, <2>6 DEF ProbesOfServing, StartedServes, LivenessAtOnce,
       PromptIsYoung, HangIsKnown
<1>2. CASE StorageAnswers(k)
  BY <1>1, <1>2 DEF StorageAnswers, ReportError, Statuses
<1>3. CASE CheckTimesOut(k)
  BY <1>1, <1>3 DEF CheckTimesOut, ReportError, Statuses
<1>4. CASE Answer(k)
  <2>1. probe[k].at = "handler" /\ Elsewhere
    BY <1>4 DEF Answer, Examined, Elsewhere
  <2> QED
    BY <1>4, <2>1, SucceedKeeps, FailKeeps DEF Answer
<1> QED
  BY <1>2, <1>3, <1>4 DEF Handle

(* So does the storage: from a hang on, no request counts as prompt.       *)
LEMMA StorageKeeps ==
  ASSUME LifecycleInvariant, NEW state \in {"up", "refuses", "hangs"},
         StorageTurns(state)
  PROVE  LifecycleInvariant'
<1> USE DEF LifecycleInvariant
<1>1. LifecycleTypeOK'
  <2>1. changes' \in 0 .. MaxChanges /\ away' \in 0 .. AwayBound + 1
    BY LifecycleAssumption DEF StorageTurns, LifecycleTypeOK, AwayBound
  <2>2. prompt' \in [Probes -> BOOLEAN] /\ hung' \in BOOLEAN
    BY DEF StorageTurns, LifecycleTypeOK
  <2> QED
    BY <2>1, <2>2 DEF StorageTurns, processVars, LifecycleTypeOK
<1>2. PromptIsYoung'
  <2> SUFFICES ASSUME NEW k \in Probes, probe[k].at = "handler"
               PROVE  IF prompt'[k] THEN age[k] < CheckDeadline ELSE hung'
    BY DEF StorageTurns, processVars, PromptIsYoung
  <2>1. prompt'[k] = (prompt[k] /\ state # "hangs") /\ hung' = (hung \/ state = "hangs")
    BY DEF StorageTurns
  <2> QED
    BY <2>1 DEF PromptIsYoung
<1> QED
  BY <1>1, <1>2 DEF StorageTurns, processVars, ProbesOfServing, StartedServes,
     LivenessAtOnce, HangIsKnown

(* And the clock: it waits for what answers at once, and for a prompt      *)
(* storage before the deadline.                                            *)
LEMMA TickKeeps == LifecycleInvariant /\ Tick => LifecycleInvariant'
<1> SUFFICES ASSUME LifecycleInvariant, Tick PROVE LifecycleInvariant'
  OBVIOUS
<1> USE DEF LifecycleInvariant
<1>1. UNCHANGED <<storage, changes, stage, crashes, probe, prompt, failures, started,
                  ready, hung>>
  BY DEF Tick, storageVars, processVars
<1>2. \A k \in Probes : probe[k].at = "handler" =>
        /\ age[k] < ProbeTimeout /\ Examining(k) /\ age'[k] = age[k] + 1
        /\ prompt[k] => age[k] + 1 < CheckDeadline
  BY DEF Tick, InTime
<1>3. age' \in [Probes -> 0 .. ProbeTimeout]
  BY <1>2, LifecycleAssumption DEF Tick, LifecycleTypeOK
<1>4. since' \in [Probes -> 0 .. Period]
  BY LifecycleAssumption DEF Tick, UpTo, LifecycleTypeOK
<1>5. away' \in 0 .. AwayBound + 1
  BY LifecycleAssumption DEF Tick, UpTo, LifecycleTypeOK, AwayBound
<1>6. LifecycleTypeOK'
  BY <1>1, <1>3, <1>4, <1>5 DEF LifecycleTypeOK
<1>7. LivenessAtOnce'
  BY <1>1, <1>2 DEF LivenessAtOnce, Examining
<1>8. PromptIsYoung'
  BY <1>1, <1>2 DEF PromptIsYoung
<1> QED
  BY <1>1, <1>6, <1>7, <1>8 DEF ProbesOfServing, StartedServes, HangIsKnown

(* Every step keeps the invariant.                                         *)
LEMMA InvariantStep ==
  LifecycleInvariant /\ [LifecycleNext]_lifecycleVars => LifecycleInvariant'
<1> SUFFICES ASSUME LifecycleInvariant, [LifecycleNext]_lifecycleVars
             PROVE  LifecycleInvariant'
  OBVIOUS
<1>1. CASE UNCHANGED lifecycleVars
  BY <1>1 DEF lifecycleVars, storageVars, processVars, kubeletVars, historyVars,
     LifecycleInvariant, LifecycleTypeOK, ProbesOfServing, StartedServes,
     LivenessAtOnce, PromptIsYoung, HangIsKnown
<1> QED
  BY <1>1, MainKeeps, CrashKeeps, KubeletKeeps, HandleKeeps, StorageKeeps, TickKeeps
     DEF LifecycleNext, Works
(* The types hold, and with them what the kubelet, the handlers and the    *)
(* clock know of each other.                                               *)
THEOREM LifecycleInvariantHolds == LifecycleSpec => []LifecycleInvariant
<1> QED
  BY InvariantInit, InvariantStep, PTL DEF LifecycleSpec

(* The variables have their types; no request is older than its timeout,   *)
(* and no failure is counted beyond the threshold.                         *)
THEOREM LifecycleTypeCorrect == LifecycleSpec => []LifecycleTypeOK
<1>1. LifecycleInvariant => LifecycleTypeOK
  BY DEF LifecycleInvariant
<1> QED
  BY <1>1, LifecycleInvariantHolds, PTL

-----------------------------------------------------------------------------
(* What a probe of a serving container can be killed for.                  *)
LEMMA KilledByTimeout ==
  ASSUME LifecycleInvariant, stage = "serving", NEW k \in Probes,
         Kubelet(k) \/ Handle(k), stage' = "exited"
  PROVE  k = "startup" /\ ProbeTimesOut(k)
<1> USE DEF LifecycleInvariant
<1>1. ~ SendProbe(k) /\ ~ StorageAnswers(k) /\ ~ CheckTimesOut(k) /\ ~ ProbeRefused(k)
  BY DEF SendProbe, StorageAnswers, CheckTimesOut, ReportError, Report, ProbeRefused,
     processVars
<1>2. Succeed(k) => stage' = "serving"
  BY DEF Succeed
<1>3. Fail(k) /\ stage' = "exited" => k \in {"startup", "liveness"}
  BY LifecycleAssumption DEF Fail, Kills, CountFailure
<1>4. ~ Answer(k)
  <2> SUFFICES ASSUME Answer(k) PROVE FALSE
    OBVIOUS
  <2>1. PICK status \in Answers(k, probe[k].result) :
          IF IsOk(k, status) THEN Succeed(k) ELSE Fail(k)
    BY DEF Answer
  <2>2. ~ IsOk(k, status) /\ k \in {"startup", "liveness"}
    BY <1>2, <1>3, <2>1
  <2>3. CASE k = "liveness"
    BY <2>1, <2>2, <2>3 DEF Answers, IsOk, ProbeOk
  <2>4. CASE k = "startup"
    BY <2>1, <2>2, <2>4 DEF Answers, HealthStatuses, OverallStatuses, Contribution,
       IsOk, HealthOk
  <2> QED
    BY <2>2, <2>3, <2>4
<1>5. ProbeTimesOut(k)
  BY <1>1, <1>4 DEF Kubelet, Handle
<1>6. k # "liveness"
  BY <1>5, LifecycleAssumption DEF ProbeTimesOut, LivenessAtOnce, Asks
<1> QED
  BY <1>3, <1>5, <1>6 DEF ProbeTimesOut

(* A serving container ends by a crash, or because its startup probe got   *)
(* no answer in time.                                                      *)
LEMMA WhatEndsServing ==
  ASSUME LifecycleInvariant, [LifecycleNext]_lifecycleVars,
         stage = "serving", stage' = "exited"
  PROVE  \/ crashes' = crashes + 1
         \/ \E k \in Probes : k = "startup" /\ ProbeTimesOut(k)
<1>1. ~ UNCHANGED lifecycleVars
  BY DEF lifecycleVars, processVars
<1>2. ~ Main
  BY DEF Main, Start, Connected, ConnectFails
<1>3. ~ Tick /\ \A state : ~ StorageTurns(state)
  BY DEF Tick, StorageTurns, processVars
<1>4. CASE Crash
  BY <1>4 DEF Crash
<1>5. CASE \E k \in Probes : Kubelet(k) \/ Handle(k)
  BY <1>5, KilledByTimeout
<1> QED
  BY <1>1, <1>2, <1>3, <1>4, <1>5 DEF LifecycleNext, Works

(* Whatever the storage does and however the deadlines relate, a container *)
(* whose startup probe has succeeded ends only by a crash.                 *)
THEOREM StartedContainersLive == LifecycleSpec => StartedIsNeverKilled
<1>1. LifecycleInvariant /\ [LifecycleNext]_lifecycleVars
        => [started /\ stage' = "exited" => crashes' = crashes + 1]_lifecycleVars
  <2> SUFFICES ASSUME LifecycleInvariant, [LifecycleNext]_lifecycleVars, started,
                      stage' = "exited"
               PROVE  crashes' = crashes + 1
    OBVIOUS
  <2>1. stage = "serving"
    BY DEF LifecycleInvariant, StartedServes
  <2>2. \A k \in Probes : ~ (k = "startup" /\ ProbeTimesOut(k))
    BY DEF LifecycleInvariant, ProbesOfServing, ProbeTimesOut
  <2> QED
    BY <2>1, <2>2, WhatEndsServing
<1> QED
  BY <1>1, LifecycleInvariantHolds, PTL DEF LifecycleSpec, StartedIsNeverKilled

(* If the deadline of the check is not above the timeout of the probe, as  *)
(* in the chart, only a storage that hangs gets a serving container killed. *)
THEOREM RefusalsKillNothing ==
  ASSUME CheckDeadline <= ProbeTimeout
  PROVE  LifecycleSpec => OnlyAHangKills
<1>1. LifecycleInvariant /\ [LifecycleNext]_lifecycleVars
        => [stage = "serving" /\ stage' = "exited"
              => crashes' = crashes + 1 \/ hung]_lifecycleVars
  <2> SUFFICES ASSUME LifecycleInvariant, [LifecycleNext]_lifecycleVars,
                      stage = "serving", stage' = "exited", crashes' # crashes + 1
               PROVE  hung
    OBVIOUS
  <2>1. PICK k \in Probes : probe[k].at = "handler" /\ age[k] >= ProbeTimeout
    BY WhatEndsServing DEF ProbeTimesOut
  <2>2. age[k] \in Nat
    BY DEF LifecycleInvariant, LifecycleTypeOK
  <2>3. ~ (age[k] < CheckDeadline)
    BY <2>1, <2>2, LifecycleAssumption
  <2> QED
    BY <2>1, <2>3 DEF LifecycleInvariant, PromptIsYoung
<1> QED
  BY <1>1, LifecycleInvariantHolds, PTL DEF LifecycleSpec, OnlyAHangKills
-----------------------------------------------------------------------------
(* How long the storage may have been away while the replica gets traffic: *)
(* one period for each failure of the readiness probe that was counted, one *)
(* more if there is a request, and the time since the last one was sent.   *)
Noticed ==
  (failures["readiness"] + (IF probe["readiness"].at = "idle" THEN 0 ELSE 1)) * Period
    + since["readiness"]

(* What the readiness probe has found: a storage that answered did so just *)
(* now, since the clock waits for the handler's own answer.                *)
FindingIsFresh ==
  /\ probe["readiness"].result \in {<<>>, <<"UP">>, <<"DOWN">>}
  /\ probe["readiness"].at = "idle" => probe["readiness"].result = <<>>
  /\ probe["readiness"].result = <<"UP">> => away = 0

(* While the replica gets traffic, each period without storage is counted. *)
AbsenceIsNoticed ==
  /\ probe["readiness"].at = "handler" => since["readiness"] = age["readiness"]
  /\ ready => failures["readiness"] < Threshold /\ away <= Noticed

ReadinessFacts ==
  /\ storage = "up" => away = 0
  /\ ready => started /\ "readiness" \in Probes
  /\ "readiness" \in Probes => FindingIsFresh /\ AbsenceIsNoticed

ReadinessInvariant == LifecycleInvariant /\ ReadinessFacts
-----------------------------------------------------------------------------
(* What the kubelet knows of the readiness probe is left alone.            *)
ReadinessKept ==
  /\ probe'["readiness"] = probe["readiness"] /\ age'["readiness"] = age["readiness"]
  /\ since'["readiness"] = since["readiness"]
  /\ failures'["readiness"] = failures["readiness"]

LEMMA ReadinessTypes ==
  ASSUME LifecycleTypeOK, "readiness" \in Probes
  PROVE  /\ probe["readiness"].at \in {"idle", "handler"}
         /\ age["readiness"] \in 0 .. ProbeTimeout
         /\ since["readiness"] \in 0 .. Period
         /\ failures["readiness"] \in 0 .. Threshold
BY DEF LifecycleTypeOK, ThresholdOf

(* One more failure is worth one more period.                              *)
LEMMA PeriodsAdd ==
  \A n \in Nat : /\ n * Period \in Nat
                 /\ (n + 0) * Period = n * Period
                 /\ (n + 1) * Period = n * Period + Period
BY LifecycleAssumption

LEMMA KeptIsFresh ==
  ASSUME ReadinessInvariant, "readiness" \in Probes => ReadinessKept,
         ready' => ready, started => started', storage' = storage, away' = away
  PROVE  ReadinessFacts'
BY DEF ReadinessInvariant, ReadinessFacts, ReadinessKept, FindingIsFresh, AbsenceIsNoticed,
   Noticed

(* A container that ends has no traffic, and no probe.                     *)
LEMMA EndIsFresh ==
  ASSUME ReadinessFacts, ContainerEnds, UNCHANGED <<storageVars, historyVars>>
  PROVE  ReadinessFacts'
<1>1. "readiness" \in Probes => probe'["readiness"] = Idle
  BY DEF ContainerEnds
<1>2. ready' = FALSE /\ storage' = storage /\ away' = away
  BY DEF ContainerEnds, storageVars, historyVars
<1> QED
  BY <1>1, <1>2 DEF ReadinessFacts, FindingIsFresh, AbsenceIsNoticed, Idle

(* A failure that is counted stands for the period of its request.         *)
LEMMA CountedIsFresh ==
  ASSUME ReadinessInvariant, NEW k \in Probes, CountFailure(k), Elsewhere,
         ready => probe[k].at = "handler"
  PROVE  ReadinessFacts'
<1> USE DEF ReadinessInvariant, LifecycleInvariant
<1>1. /\ UNCHANGED <<storage, away, started>> /\ (ready' => ready)
      /\ \A j \in Probes \ {k} :
           /\ probe'[j] = probe[j] /\ age'[j] = age[j]
           /\ since'[j] = since[j] /\ failures'[j] = failures[j]
  BY ForgetOne DEF CountFailure, Elsewhere, storageVars, historyVars, LifecycleTypeOK
<1>2. CASE k # "readiness"
  BY <1>1, <1>2, KeptIsFresh DEF ReadinessKept
<1>3. CASE k = "readiness"
  <2>1. probe'["readiness"] = Idle
    BY <1>3 DEF CountFailure, Forget, LifecycleTypeOK
  <2>2. ASSUME ready'
        PROVE  /\ failures'["readiness"] = failures["readiness"] + 1
               /\ failures'["readiness"] < Threshold
               /\ since'["readiness"] = since["readiness"]
    <3>1. ~ AtThreshold("readiness") /\ probe["readiness"].at = "handler"
      BY <1>3, <2>2 DEF CountFailure
    <3>2. failures["readiness"] + 1 < Threshold
      BY <1>3, <3>1, ReadinessTypes, LifecycleAssumption DEF AtThreshold, ThresholdOf
    <3> QED
      BY <1>3, <3>1, <3>2 DEF CountFailure, LifecycleTypeOK
  <2>3. ASSUME ready' PROVE away' <= Noticed'
    <3>1. probe["readiness"].at = "handler" /\ away <= Noticed
      BY <1>1, <1>3, <2>3 DEF ReadinessFacts, AbsenceIsNoticed
    <3>2. Noticed' = Noticed
      <4> DEFINE n == failures["readiness"]
      <4>1. /\ Noticed = (n + 1) * Period + since["readiness"]
            /\ Noticed' = ((n + 1) + 0) * Period + since["readiness"]
        BY <2>1, <2>2, <2>3, <3>1 DEF Noticed, Idle
      <4>2. n \in Nat
        BY <1>3, ReadinessTypes
      <4>3. n + 1 \in Nat
        BY <4>2
      <4> HIDE DEF n
      <4> QED
        BY <4>1, <4>3, PeriodsAdd
    <3> QED
      BY <1>1, <3>1, <3>2
  <2> QED
    BY <1>1, <2>1, <2>2, <2>3
       DEF ReadinessFacts, FindingIsFresh, AbsenceIsNoticed, Idle
<1> QED
  BY <1>2, <1>3

LEMMA FailIsFresh ==
  ASSUME ReadinessInvariant, NEW k \in Probes, Fail(k), Elsewhere,
         ready => probe[k].at = "handler"
  PROVE  ReadinessFacts'
<1>1. CASE Kills(k)
  BY <1>1, EndIsFresh DEF Fail, Elsewhere, ReadinessInvariant
<1>2. CASE ~ Kills(k)
  BY <1>2, CountedIsFresh DEF Fail
<1> QED
  BY <1>1, <1>2

(* A probe that succeeds has found the storage just now.                   *)
LEMMA SuccessIsFresh ==
  ASSUME ReadinessInvariant, NEW k \in Probes, Examined(k), Succeed(k), Elsewhere,
         NEW status \in Answers(k, probe[k].result), IsOk(k, status)
  PROVE  ReadinessFacts'
<1> USE DEF ReadinessInvariant, LifecycleInvariant
<1>1. /\ UNCHANGED <<storage, away, since>> /\ probe[k].at = "handler"
      /\ \A j \in Probes \ {k} :
           /\ probe'[j] = probe[j] /\ age'[j] = age[j] /\ failures'[j] = failures[j]
  BY ForgetOne DEF Succeed, Elsewhere, Examined, storageVars, historyVars, LifecycleTypeOK
<1>2. CASE k # "readiness"
  BY <1>1, <1>2, KeptIsFresh DEF ReadinessKept, Succeed
<1>3. CASE k = "readiness"
  <2>1. probe'["readiness"] = Idle /\ failures'["readiness"] = 0 /\ started /\ started'
    BY <1>1, <1>3 DEF Succeed, Forget, LifecycleTypeOK, ProbesOfServing
  <2>2. probe["readiness"].result = <<"UP">>
    <3>1. probe["readiness"].result \in {<<"UP">>, <<"DOWN">>}
      BY <1>1, <1>3 DEF ReadinessFacts, FindingIsFresh, Examined, Examining, Asks
    <3>2. probe["readiness"].result # <<"DOWN">>
      <4> SUFFICES ASSUME probe["readiness"].result = <<"DOWN">> PROVE FALSE
        OBVIOUS
      <4>1. status = ReadinessStatus(<<"DOWN">>)
        BY <1>3 DEF Answers
      <4>2. Len(<<"DOWN">>) = 1 /\ <<"DOWN">>[1] = "DOWN"
        OBVIOUS
      <4>3. 1 \in 1 .. Len(<<"DOWN">>)
        BY <4>2
      <4>4. status = "OUT_OF_SERVICE"
        BY <4>1, <4>2, <4>3 DEF ReadinessStatus
      <4> QED
        BY <1>3, <4>4 DEF IsOk, ProbeOk
    <3> QED
      BY <3>1, <3>2
  <2>3. away = 0
    BY <1>3, <2>2 DEF ReadinessFacts, FindingIsFresh
  <2>4. away' <= Noticed'
    <3>1. Noticed' = (0 + 0) * Period + since["readiness"]
      BY <1>1, <2>1 DEF Noticed, Idle
    <3> QED
      BY <1>1, <1>3, <2>3, <3>1, PeriodsAdd, ReadinessTypes
  <2> QED
    BY <1>1, <1>3, <2>1, <2>3, <2>4, LifecycleAssumption
       DEF ReadinessFacts, FindingIsFresh, AbsenceIsNoticed, Idle
<1> QED
  BY <1>2, <1>3
-----------------------------------------------------------------------------
LEMMA FreshInit == LifecycleInit => ReadinessFacts
BY DEF LifecycleInit, ReadinessFacts, FindingIsFresh, AbsenceIsNoticed, Idle

LEMMA MainIsFresh == ReadinessInvariant /\ (Main \/ Crash) => ReadinessFacts'
<1> SUFFICES ASSUME ReadinessInvariant, Main \/ Crash PROVE ReadinessFacts'
  OBVIOUS
<1>1. CASE Start \/ Connected
  BY <1>1, KeptIsFresh DEF Start, Connected, storageVars, kubeletVars, historyVars, ReadinessKept
<1>2. CASE ConnectFails \/ Crash
  BY <1>2, EndIsFresh DEF ConnectFails, Crash, ReadinessInvariant
<1> QED
  BY <1>1, <1>2 DEF Main

(* A request that is sent takes over the period it was due after; nobody   *)
(* has traffic whose requests are refused.                                 *)
LEMMA KubeletIsFresh ==
  ASSUME ReadinessInvariant, NEW k \in Probes, Kubelet(k)
  PROVE  ReadinessFacts'
<1> USE DEF ReadinessInvariant, LifecycleInvariant
<1>1. CASE SendProbe(k)
  <2>1. /\ UNCHANGED <<storage, away, failures, started, ready>>
        /\ \A j \in Probes \ {k} :
             probe'[j] = probe[j] /\ age'[j] = age[j] /\ since'[j] = since[j]
    BY <1>1 DEF SendProbe, storageVars, historyVars, LifecycleTypeOK
  <2>2. CASE k # "readiness"
    BY <2>1, <2>2, KeptIsFresh DEF ReadinessKept
  <2>3. CASE k = "readiness"
    <3>1. /\ probe["readiness"].at = "idle" /\ probe'["readiness"].at = "handler"
          /\ probe'["readiness"].result = probe["readiness"].result
          /\ age'["readiness"] = 0 /\ since'["readiness"] = 0
      BY <1>1, <2>3 DEF SendProbe, Due, LifecycleTypeOK
    <3>2. ready => away <= Noticed
      BY <2>3 DEF ReadinessFacts, AbsenceIsNoticed
    <3>3. ready' => away' <= Noticed'
      <4>1. away \in Nat
        BY LifecycleAssumption DEF LifecycleTypeOK, AwayBound
      <4> DEFINE n == failures["readiness"]
      <4>2. Noticed = (n + 0) * Period + since["readiness"] /\ Noticed' = (n + 1) * Period + 0
        BY <2>1, <3>1 DEF Noticed
      <4>3. n \in Nat /\ since["readiness"] \in 0 .. Period
        BY <2>3, ReadinessTypes
      <4> HIDE DEF n
      <4> QED
        BY <2>1, <3>2, <4>1, <4>2, <4>3, PeriodsAdd, LifecycleAssumption
    <3> QED
      BY <2>1, <2>3, <3>1, <3>3 DEF ReadinessFacts, FindingIsFresh, AbsenceIsNoticed
  <2> QED
    BY <2>2, <2>3
<1>2. CASE ProbeRefused(k)
  <2>1. ~ ready
    BY <1>2 DEF ProbeRefused, ReadinessFacts, StartedServes
  <2> QED
    BY <1>2, <2>1, FailIsFresh DEF ProbeRefused, Elsewhere
<1>3. CASE ProbeTimesOut(k)
  BY <1>3, FailIsFresh DEF ProbeTimesOut, Elsewhere
<1> QED
  BY <1>1, <1>2, <1>3 DEF Kubelet

LEMMA HandleIsFresh ==
  ASSUME ReadinessInvariant, NEW k \in Probes, Handle(k)
  PROVE  ReadinessFacts'
<1> USE DEF ReadinessInvariant, LifecycleInvariant
<1>1. ASSUME NEW status \in {"UP", "DOWN"}, status = "UP" => storage = "up",
             Examining(k), Report(k, status)
      PROVE  ReadinessFacts'
  <2>1. /\ UNCHANGED <<storage, away, age, since, failures, started, ready>>
        /\ \A j \in Probes \ {k} : probe'[j] = probe[j]
    BY <1>1 DEF Report, storageVars, processVars, historyVars, LifecycleTypeOK
  <2>2. CASE k # "readiness"
    BY <2>1, <2>2, KeptIsFresh DEF ReadinessKept
  <2>3. CASE k = "readiness"
    <3>1. Append(<<>>, status) = <<status>>
      OBVIOUS
    <3>2. /\ probe'["readiness"].result = <<status>> /\ probe["readiness"].at = "handler"
          /\ probe'["readiness"].at = "handler"
      BY <1>1, <2>3, <3>1 DEF Report, Examining, LifecycleTypeOK
    <3>3. <<status>> = <<"UP">> => storage = "up"
      BY <1>1
    <3>4. <<status>> \in {<<"UP">>, <<"DOWN">>}
      BY <1>1
    <3>5. Noticed' = Noticed
      BY <2>1, <3>2 DEF Noticed
    <3> QED
      BY <2>1, <2>3, <3>2, <3>3, <3>4, <3>5 DEF ReadinessFacts, FindingIsFresh, AbsenceIsNoticed
  <2> QED
    BY <2>2, <2>3
<1>2. CASE StorageAnswers(k)
  BY <1>1, <1>2 DEF StorageAnswers, ReportError
<1>3. CASE CheckTimesOut(k)
  BY <1>1, <1>3 DEF CheckTimesOut, ReportError
<1>4. CASE Answer(k)
  <2>1. PICK status \in Answers(k, probe[k].result) :
          IF IsOk(k, status) THEN Succeed(k) ELSE Fail(k)
    BY <1>4 DEF Answer
  <2>2. Examined(k) /\ probe[k].at = "handler" /\ Elsewhere
    BY <1>4 DEF Answer, Examined, Elsewhere
  <2> QED
    BY <2>1, <2>2, SuccessIsFresh, FailIsFresh
<1> QED
  BY <1>2, <1>3, <1>4 DEF Handle

LEMMA StorageIsFresh ==
  ASSUME ReadinessInvariant, NEW state \in {"up", "refuses", "hangs"}, StorageTurns(state)
  PROVE  ReadinessFacts'
<1> USE DEF ReadinessInvariant, LifecycleInvariant
<1>1. /\ UNCHANGED <<probe, age, since, failures, started, ready>>
      /\ storage' = state /\ away' = IF state = "up" THEN 0 ELSE away
      /\ storage' = "up" \/ away' = away
  BY DEF StorageTurns
<1>2. away \in Nat
  BY LifecycleAssumption DEF LifecycleTypeOK, AwayBound
<1>3. "readiness" \in Probes => Noticed \in Nat /\ Noticed' = Noticed
  <2> SUFFICES ASSUME "readiness" \in Probes PROVE Noticed \in Nat /\ Noticed' = Noticed
    OBVIOUS
  <2> QED
    BY <1>1, ReadinessTypes, PeriodsAdd, LifecycleAssumption DEF Noticed
<1>4. ready => away' <= Noticed'
  BY <1>1, <1>2, <1>3 DEF ReadinessFacts, AbsenceIsNoticed
<1> QED
  BY <1>1, <1>2, <1>4 DEF ReadinessFacts, FindingIsFresh, AbsenceIsNoticed

(* Time that passes without storage passes for the readiness probe too: it *)
(* is not yet due, or younger than its timeout and thus than a period.     *)
LEMMA TickIsFresh ==
  ASSUME ProbeTimeout <= Period, ReadinessInvariant, Tick
  PROVE  ReadinessFacts'
<1> USE DEF ReadinessInvariant, LifecycleInvariant
<1>1. UNCHANGED <<storage, probe, failures, started, ready>>
  BY DEF Tick, storageVars
<1>2. storage = "up" => away' = 0
  BY DEF Tick
<1>3. away \in Nat /\ away' \in Nat /\ away' <= away + 1
  <2>1. away \in Nat /\ AwayBound \in Nat
    BY LifecycleAssumption DEF LifecycleTypeOK, AwayBound
  <2> QED
    BY <2>1 DEF Tick, UpTo
<1>4. ASSUME "readiness" \in Probes
      PROVE  /\ FindingIsFresh'
             /\ probe["readiness"].at = "handler" => since'["readiness"] = age'["readiness"]
             /\ ready => since'["readiness"] = since["readiness"] + 1
  <2> DEFINE k == "readiness"
  <2>1. ~ Due(k) /\ InTime(k) /\ age'[k] = (IF probe[k].at = "handler" THEN age[k] + 1 ELSE 0)
        /\ since'[k] = (IF Wanted(k) THEN UpTo(Period, since[k] + 1) ELSE 0)
    BY <1>4 DEF Tick
  <2>2. /\ age[k] \in 0 .. ProbeTimeout /\ since[k] \in 0 .. Period
        /\ probe[k].at \in {"idle", "handler"}
    BY <1>4, ReadinessTypes
  <2>3. ready \/ probe[k].at = "handler" => Wanted(k)
    BY <1>4 DEF Wanted, ProbesOfServing, StartedServes, ReadinessFacts
  <2>4. probe[k].at = "handler" => age[k] < ProbeTimeout /\ since[k] = age[k]
    BY <1>4, <2>1 DEF InTime, ReadinessFacts, AbsenceIsNoticed
  <2>5. ready \/ probe[k].at = "handler" => since[k] < Period
    BY <2>1, <2>2, <2>3, <2>4, LifecycleAssumption DEF Due
  <2>6. ready \/ probe[k].at = "handler" => since'[k] = since[k] + 1
    BY <2>1, <2>2, <2>3, <2>5, LifecycleAssumption DEF UpTo
  <2>7. probe[k].result # <<"UP">>
    <3>1. probe[k].at = "handler" => probe[k].result = <<>>
      BY <2>1 DEF InTime, Examining
    <3>2. probe[k].result = <<>>
      BY <1>4, <2>2, <3>1 DEF ReadinessFacts, FindingIsFresh
    <3>3. <<>> # <<"UP">>
      OBVIOUS
    <3> QED
      BY <3>2, <3>3
  <2>8. FindingIsFresh'
    BY <1>1, <1>4, <2>7 DEF ReadinessFacts, FindingIsFresh
  <2> QED
    BY <2>1, <2>4, <2>6, <2>8
<1>5. ASSUME ready PROVE away' <= Noticed'
  <2>1. "readiness" \in Probes /\ away <= Noticed
    BY <1>5 DEF ReadinessFacts, AbsenceIsNoticed
  <2>2. Noticed \in Nat /\ Noticed' = Noticed + 1
    BY <1>1, <1>4, <1>5, <2>1, ReadinessTypes, PeriodsAdd DEF Noticed
  <2> QED
    BY <1>3, <2>1, <2>2
<1> QED
  BY <1>1, <1>2, <1>4, <1>5 DEF ReadinessFacts, AbsenceIsNoticed

LEMMA FreshStep ==
  ASSUME ProbeTimeout <= Period, ReadinessInvariant, [LifecycleNext]_lifecycleVars
  PROVE  ReadinessFacts'
<1>1. CASE UNCHANGED lifecycleVars
  BY <1>1, KeptIsFresh DEF lifecycleVars, storageVars, kubeletVars, historyVars, ReadinessKept
<1> QED
  BY <1>1, MainIsFresh, KubeletIsFresh, HandleIsFresh, StorageIsFresh, TickIsFresh
     DEF LifecycleNext, Works

(* If a probe times out within its period, as in the chart, a replica gets *)
(* traffic without storage for at most as many periods as failures are     *)
(* tolerated and one timeout more, whatever the storage does meanwhile.    *)
THEOREM TrafficEndsInTime ==
  ASSUME ProbeTimeout <= Period
  PROVE  LifecycleSpec => []ReadyIsFresh
<1>1. LifecycleInit => ReadinessFacts
  BY FreshInit
<1>2. LifecycleInvariant /\ ReadinessFacts /\ [LifecycleNext]_lifecycleVars => ReadinessFacts'
  BY FreshStep DEF ReadinessInvariant
<1>3. LifecycleInvariant /\ ReadinessFacts => ReadyIsFresh
  <2> SUFFICES ASSUME LifecycleInvariant, ReadinessFacts, ready
               PROVE  stage = "serving" /\ away <= AwayBound
    BY DEF ReadyIsFresh
  <2>1. started /\ "readiness" \in Probes
    BY DEF ReadinessFacts
  <2>2. away <= AwayBound
    <3> DEFINE n == failures["readiness"]  s == since["readiness"]
    <3>1. /\ probe["readiness"].at \in {"idle", "handler"}
          /\ n \in Nat /\ n < Threshold /\ s \in 0 .. Period
          /\ probe["readiness"].at = "handler" => s <= ProbeTimeout
      BY <2>1, ReadinessTypes
         DEF LifecycleInvariant, ReadinessFacts, AbsenceIsNoticed
    <3>2. \/ away <= (n + 0) * Period + Period
          \/ away <= (n + 1) * Period + ProbeTimeout
      <4>1. away <= Noticed /\ away \in Nat
        BY <2>1, LifecycleAssumption
           DEF ReadinessFacts, AbsenceIsNoticed, LifecycleInvariant, LifecycleTypeOK, AwayBound
      <4>2. \/ Noticed = (n + 0) * Period + s /\ probe["readiness"].at = "idle"
            \/ Noticed = (n + 1) * Period + s /\ probe["readiness"].at = "handler"
        BY <3>1 DEF Noticed
      <4>3. n * Period \in Nat /\ (n + 0) * Period \in Nat /\ (n + 1) * Period \in Nat
        BY <3>1, PeriodsAdd, LifecycleAssumption
      <4> HIDE DEF n, s
      <4> QED
        BY <3>1, <4>1, <4>2, <4>3, LifecycleAssumption
    <3>3. away <= (n + 1) * Period + ProbeTimeout /\ away \in Nat
      <4>1. away \in Nat
        BY LifecycleAssumption DEF LifecycleInvariant, LifecycleTypeOK, AwayBound
      <4> HIDE DEF n
      <4> QED
        BY <3>1, <3>2, <4>1, PeriodsAdd, LifecycleAssumption
    <3>4. (n + 1) * Period <= Threshold * Period
      <4>1. Threshold - (n + 1) \in Nat
        BY <3>1, LifecycleAssumption
      <4>2. (Threshold - (n + 1)) * Period \in Nat
        BY <4>1, LifecycleAssumption
      <4> HIDE DEF n
      <4>3. (Threshold - (n + 1)) * Period = Threshold * Period - (n + 1) * Period
        BY <3>1, LifecycleAssumption
      <4>4. Threshold * Period \in Nat /\ (n + 1) * Period \in Nat
        BY <3>1, LifecycleAssumption
      <4> QED
        BY <4>2, <4>3, <4>4
    <3> HIDE DEF n
    <3>5. Threshold * Period \in Nat /\ (n + 1) * Period \in Nat
      BY <3>1, LifecycleAssumption
    <3> QED
      BY <3>3, <3>4, <3>5, LifecycleAssumption DEF AwayBound
  <2> QED
    BY <2>1, <2>2 DEF LifecycleInvariant, StartedServes
<1> QED
  BY <1>1, <1>2, <1>3, LifecycleInvariantHolds, PTL DEF LifecycleSpec
=============================================================================
