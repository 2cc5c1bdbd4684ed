------------------------------- MODULE Health -------------------------------
(***************************************************************************)
(* The health service (internal/health) and the status codes its handlers  *)
(* answer with.  A result is the sequence of the statuses the registered   *)
(* checkers reported, in the order in which they were registered.          *)
(***************************************************************************)
EXTENDS Integers, Sequences

Statuses == {"UP", "DEGRADED", "UNKNOWN", "OUT_OF_SERVICE", "DOWN"}

(* What a status counts for in the overall status.                         *)
Contribution(status) ==
  CASE status = "UP"      -> "UP"
    [] status = "UNKNOWN" -> "UNKNOWN"
    [] OTHER              -> "DEGRADED"

NotUp(result) == {i \in 1 .. Len(result) : result[i] # "UP"}

(* calculateOverallStatus keeps the first status that is not UP, and Go    *)
(* ranges over the map of components in any order.                         *)
OverallStatuses(liveness, readiness, result) ==
  IF liveness # "UP" \/ readiness # "UP" THEN {"DOWN"}
  ELSE IF NotUp(result) = {} THEN {"UP"}
  ELSE {Contribution(result[i]) : i \in NotUp(result)}

(* CheckHealth reports liveness and readiness as UP, always; CheckReadiness *)
(* is where storage counts, CheckLiveness asks no checker.                 *)
HealthStatuses(result) == OverallStatuses("UP", "UP", result)

ReadinessOfDown(result) ==
  IF \E i \in 1 .. Len(result) : result[i] = "OUT_OF_SERVICE"
    THEN "OUT_OF_SERVICE" ELSE "UP"

ReadinessStatus(result) ==
  IF \E i \in 1 .. Len(result) : result[i] \in {"DOWN", "OUT_OF_SERVICE"}
    THEN "OUT_OF_SERVICE" ELSE "UP"

(* The handlers' status codes, as: is it a 200?                            *)
HealthOkOnlyUp(status) == status = "UP"

HealthOk(status) == status \notin {"DOWN", "OUT_OF_SERVICE"}

ProbeOk(status) == status = "UP"
=============================================================================
