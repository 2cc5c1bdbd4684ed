----------------------------- MODULE Lifecycle ------------------------------
(***************************************************************************)
(* One replica from start to end: main connects to the storage before it   *)
(* listens, the health handlers ask the storage under a deadline, and the  *)
(* kubelet probes them (as the Helm chart has it), restarts the container  *)
(* and takes it out of service.  The storage answers, refuses or hangs.    *)
(* A tick is a fraction of the deadline.                                   *)
(***************************************************************************)
EXTENDS Health

CONSTANTS
  Probes,            \* the probes the chart enables
  CheckDeadline,     \* of the storage check, in ticks
  ProbeTimeout,      \* timeoutSeconds, in ticks
  Period,            \* periodSeconds, in ticks
  StartupThreshold,  \* failureThreshold of the startup probe
  Threshold,         \* failureThreshold of the other probes
  MaxChanges,        \* bound on the changes of the storage
  MaxCrashes         \* bound on the crashes

ASSUME LifecycleAssumption ==
  /\ Probes \subseteq {"startup", "readiness", "liveness"}
  /\ CheckDeadline \in Nat \ {0} /\ ProbeTimeout \in Nat \ {0}
  /\ Period \in Nat \ {0}
  /\ StartupThreshold \in Nat \ {0} /\ Threshold \in Nat \ {0}
  /\ MaxChanges \in Nat /\ MaxCrashes \in Nat

VARIABLES
  storage,   \* what the storage does: "up", "refuses" or "hangs"
  changes,   \* how often that changed
  stage,     \* where main is: "exited", "connecting" or "serving"
  crashes,   \* how often the process crashed
  probe,     \* a probe's request: where its handler is, what it has found
  age,       \* the time since it was sent
  prompt,    \* whether the storage has not hung since it was sent
  since,     \* the time since the last probe of a kind was sent
  failures,  \* consecutive failures of a probe
  started,   \* the startup probe has succeeded
  ready,     \* the replica gets traffic
  away,      \* history: the time since the storage was last up
  hung       \* history: the storage hung at some time in this container

storageVars   == <<storage, changes>>
processVars   == <<stage, crashes>>
kubeletVars   == <<probe, age, prompt, since, failures, started, ready>>
historyVars   == <<away, hung>>
lifecycleVars == <<storageVars, processVars, kubeletVars, historyVars>>

Idle      == [at |-> "idle", result |-> <<>>]
AwayBound == Threshold * Period + ProbeTimeout

LifecycleInit ==
  /\ storage \in {"up", "refuses", "hangs"} /\ changes = 0
  /\ stage = "exited" /\ crashes = 0
  /\ probe = [k \in Probes |-> Idle] /\ age = [k \in Probes |-> 0]
  /\ prompt = [k \in Probes |-> FALSE] /\ since = [k \in Probes |-> 0]
  /\ failures = [k \in Probes |-> 0] /\ started = FALSE /\ ready = FALSE
  /\ away = 0 /\ hung = FALSE

-----------------------------------------------------------------------------
(* main: configuration, ConnectS3 with its HeadBucket, the service, and    *)
(* only then the listener.  The HeadBucket has no deadline: if the storage *)
(* hung meanwhile, it may wait for good.                                   *)
Start ==
  /\ stage = "exited" /\ stage' = "connecting"
  /\ hung' = (storage = "hangs")
  /\ UNCHANGED <<storageVars, crashes, kubeletVars, away>>

Connected ==
  /\ stage = "connecting" /\ storage = "up" /\ stage' = "serving"
  /\ UNCHANGED <<storageVars, crashes, kubeletVars, historyVars>>

(* However a container ends, the kubelet begins anew with the next one.    *)
ContainerEnds ==
  /\ stage' = "exited"
  /\ probe' = [k \in Probes |-> Idle] /\ age' = [k \in Probes |-> 0]
  /\ prompt' = [k \in Probes |-> FALSE] /\ since' = [k \in Probes |-> 0]
  /\ failures' = [k \in Probes |-> 0] /\ started' = FALSE /\ ready' = FALSE

ConnectFails ==
  /\ stage = "connecting" /\ storage = "refuses"
  /\ ContainerEnds
  /\ UNCHANGED <<storageVars, crashes, historyVars>>

Crash ==
  /\ stage = "serving" /\ crashes < MaxCrashes
  /\ crashes' = crashes + 1
  /\ ContainerEnds
  /\ UNCHANGED <<storageVars, historyVars>>

Main == Start \/ Connected \/ ConnectFails

-----------------------------------------------------------------------------
(* The kubelet.  Until the startup probe has succeeded there is no other.  *)
Wanted(k) == stage # "exited" /\ (k = "startup" <=> ~ started)

Due(k) == Wanted(k) /\ probe[k].at = "idle" /\ since[k] >= Period

ForgetKeepsResult(k) ==
  /\ probe' = [probe EXCEPT ![k].at = "idle"] /\ age' = [age EXCEPT ![k] = 0]
  /\ prompt' = [prompt EXCEPT ![k] = FALSE]

Forget(k) ==
  /\ probe' = [probe EXCEPT ![k] = Idle] /\ age' = [age EXCEPT ![k] = 0]
  /\ prompt' = [prompt EXCEPT ![k] = FALSE]

Succeed(k) ==
  /\ failures' = [failures EXCEPT ![k] = 0]
  /\ started' = (started \/ k = "startup")
  /\ ready' = (ready \/ k = "readiness")
  /\ Forget(k) /\ UNCHANGED <<stage, since>>

(* The threshold of the startup and the liveness probe kills the container, *)
(* that of the readiness probe takes it out of service.                    *)
ThresholdOf(k) == IF k = "startup" THEN StartupThreshold ELSE Threshold

AtThreshold(k) == failures[k] + 1 >= ThresholdOf(k)

Kills(k) == k # "readiness" /\ AtThreshold(k)

CountFailure(k) ==
  /\ failures' = [failures EXCEPT ![k] = IF AtThreshold(k) THEN ThresholdOf(k) ELSE @ + 1]
  /\ ready' = (ready /\ ~ (k = "readiness" /\ AtThreshold(k)))
  /\ since' = [since EXCEPT ![k] = IF probe[k].at = "idle" THEN 0 ELSE @]
  /\ Forget(k) /\ UNCHANGED <<stage, started>>

Fail(k) == IF Kills(k) THEN ContainerEnds ELSE CountFailure(k)

(* A probe finds a listener, or fails at once.                             *)
SendProbe(k) ==
  /\ Due(k) /\ stage = "serving"
  /\ probe' = [probe EXCEPT ![k].at = "handler"]
  /\ age' = [age EXCEPT ![k] = 0] /\ since' = [since EXCEPT ![k] = 0]
  /\ prompt' = [prompt EXCEPT ![k] = storage # "hangs"]
  /\ UNCHANGED <<storageVars, processVars, failures, started, ready, historyVars>>

ProbeRefused(k) ==
  /\ Due(k) /\ stage = "connecting" /\ Fail(k)
  /\ UNCHANGED <<storageVars, crashes, historyVars>>

(* The answer did not come in time; the request is cancelled.              *)
ProbeTimesOut(k) ==
  /\ probe[k].at = "handler" /\ age[k] >= ProbeTimeout /\ Fail(k)
  /\ UNCHANGED <<storageVars, crashes, historyVars>>

-----------------------------------------------------------------------------
(* The handlers, one goroutine for each probe.  Health and readiness ask   *)
(* the one registered checker, that of the storage; liveness asks none.    *)
AsksForLivenessToo(k) == k \in Probes

Asks(k) == k # "liveness"

Examining(k) == probe[k].at = "handler" /\ Asks(k) /\ probe[k].result = <<>>

Examined(k) == probe[k].at = "handler" /\ ~ Examining(k)

Report(k, status) ==
  /\ probe' = [probe EXCEPT ![k].result = Append(@, status)]
  /\ UNCHANGED <<storageVars, processVars, age, prompt, since, failures, started,
                 ready, historyVars>>

(* StorageChecker.Check: an error, the deadline included, is DOWN.         *)
ReportErrorText(k) == Report(k, "connection refused")

ReportError(k) == Report(k, "DOWN")

StorageAnswers(k) ==
  /\ Examining(k)
  /\ \/ storage = "up" /\ Report(k, "UP")
     \/ storage = "refuses" /\ ReportError(k)

CheckTimesOut(k) ==
  /\ Examining(k) /\ age[k] >= CheckDeadline
  /\ ReportError(k)

(* What HealthHandler, ReadinessHandler and LivenessHandler may answer.    *)
Answers(k, result) ==
  CASE k = "startup"   -> HealthStatuses(result)
    [] k = "readiness" -> {ReadinessStatus(result)}
    [] k = "liveness"  -> {"UP"}

IsOk(k, status) == IF k = "startup" THEN HealthOk(status) ELSE ProbeOk(status)

Answer(k) ==
  /\ Examined(k)
  /\ \E status \in Answers(k, probe[k].result) :
       IF IsOk(k, status) THEN Succeed(k) ELSE Fail(k)
  /\ UNCHANGED <<storageVars, crashes, historyVars>>

Handle(k) == StorageAnswers(k) \/ CheckTimesOut(k) \/ Answer(k)

Kubelet(k) == SendProbe(k) \/ ProbeRefused(k) \/ ProbeTimesOut(k)

-----------------------------------------------------------------------------
(* The storage, and time.                                                  *)
StorageTurns(state) ==
  /\ changes < MaxChanges /\ state # storage
  /\ storage' = state /\ changes' = changes + 1
  /\ prompt' = [k \in Probes |-> prompt[k] /\ state # "hangs"]
  /\ away' = IF state = "up" THEN 0 ELSE away
  /\ hung' = (hung \/ state = "hangs")
  /\ UNCHANGED <<processVars, probe, age, since, failures, started, ready>>

(* A storage that does not hang answers or refuses main within a tick, and *)
(* a check before its deadline.                                            *)
InTime(k) ==
  probe[k].at = "handler" =>
    /\ age[k] < ProbeTimeout /\ Examining(k)
    /\ age[k] + (IF prompt[k] THEN 1 ELSE 0) < CheckDeadline

UpTo(bound, n) == IF n > bound THEN bound ELSE n

Tick ==
  /\ \A k \in Probes : ~ Due(k) /\ InTime(k)
  /\ stage = "connecting" => hung
  /\ age' = [k \in Probes |-> IF probe[k].at = "handler" THEN age[k] + 1 ELSE 0]
  /\ since' = [k \in Probes |-> IF Wanted(k) THEN UpTo(Period, since[k] + 1) ELSE 0]
  /\ away' = IF storage = "up" THEN 0 ELSE UpTo(AwayBound + 1, away + 1)
  /\ UNCHANGED <<storageVars, processVars, probe, prompt, failures, started, ready, hung>>

Works == Main \/ Tick \/ \E k \in Probes : Kubelet(k) \/ Handle(k)

LifecycleNext ==
  \/ Works \/ Crash
  \/ \E state \in {"up", "refuses", "hangs"} : StorageTurns(state)

LifecycleSpec == LifecycleInit /\ [][LifecycleNext]_lifecycleVars

(* The process, the kubelet and the clock go on.                           *)
FairLifecycleSpec == LifecycleSpec /\ WF_lifecycleVars(Works)

-----------------------------------------------------------------------------
(* The variables have their types, and no failure is counted beyond the    *)
(* threshold.                                                              *)
LifecycleTypeOK ==
  /\ storage \in {"up", "refuses", "hangs"} /\ changes \in 0 .. MaxChanges
  /\ stage \in {"exited", "connecting", "serving"} /\ crashes \in 0 .. MaxCrashes
  /\ probe \in [Probes -> [at : {"idle", "handler"}, result : {<<>>} \cup {<<s>> : s \in Statuses}]]
  /\ age \in [Probes -> 0 .. ProbeTimeout] /\ prompt \in [Probes -> BOOLEAN]
  /\ since \in [Probes -> 0 .. Period] /\ failures \in [Probes -> Nat]
  /\ \A k \in Probes : failures[k] <= ThresholdOf(k)
  /\ started \in BOOLEAN /\ ready \in BOOLEAN
  /\ away \in 0 .. AwayBound + 1 /\ hung \in BOOLEAN

(* Once the startup probe has succeeded, nothing the storage does makes    *)
(* the kubelet kill the container: liveness depends on no checker.         *)
StartedIsNeverKilled ==
  [][started /\ stage' = "exited" => crashes' = crashes + 1]_lifecycleVars

(* A serving container is killed only if the storage hung in its time: a   *)
(* storage that refuses makes the service DEGRADED, which is a 200.        *)
OnlyAHangKills ==
  [][stage = "serving" /\ stage' = "exited" => crashes' = crashes + 1 \/ hung]_lifecycleVars

(* A replica gets traffic only if it serves and its storage has not been   *)
(* away for longer than the probes may take to notice.                     *)
ReadyIsFresh == ready => stage = "serving" /\ away <= AwayBound

(* A storage that stays up makes the replica ready in the end, whatever    *)
(* it did before: neither main nor a probe waits for good.                 *)
ReadyAgain == <>[](storage = "up") => <>[]ready
=============================================================================
