------------------------------ MODULE Registry ------------------------------
(***************************************************************************)
(* What UploadBOM promises its callers: a registry that is written once    *)
(* per serial number and version.  An upload is entered in one atomic step *)
(* together with the choice of its version, and answered afterwards.       *)
(***************************************************************************)
EXTENDS Integers

CONSTANTS Requests, Urns, NoSerial, MaxInt, Nobody

VARIABLES
  registry,  \* who is entered under a serial number and version
  entry,     \* the serial number and version of a request once entered
  branch,    \* whether its serial number was generated, version assigned, ...
  answer

vars == <<registry, entry, branch, answer>>

Positive == 1 .. MaxInt
NoEntry  == [serialNumber |-> NoSerial, version |-> 0]

Init ==
  /\ registry = [k \in Urns \X Positive |-> Nobody]
  /\ entry = [r \in Requests |-> NoEntry]
  /\ branch = [r \in Requests |-> "none"]
  /\ answer = [r \in Requests |-> "none"]

Entered(urn) == {v \in Positive : registry[<<urn, v>>] # Nobody}

IsNext(v, urn) ==
  \/ Entered(urn) = {} /\ v = 1
  \/ v - 1 \in Entered(urn) /\ \A w \in Entered(urn) : w < v

(* A generated serial number starts at version 1, an assigned version      *)
(* follows the latest, a version of the client's own only has to be free.  *)
MayEnter(b, urn, v) ==
  \/ b = "generate" /\ v = 1
  \/ b = "assign" /\ IsNext(v, urn)
  \/ b = "keep"

Start(r, b) ==
  /\ branch[r] = "none" /\ answer[r] = "none"
  /\ branch' = [branch EXCEPT ![r] = b]
  /\ UNCHANGED <<registry, entry, answer>>

Enter(r, urn, v) ==
  /\ entry[r] = NoEntry /\ answer[r] = "none"
  /\ registry[<<urn, v>>] = Nobody
  /\ MayEnter(branch[r], urn, v)
  /\ registry' = [registry EXCEPT ![<<urn, v>>] = r]
  /\ entry' = [entry EXCEPT ![r] = [serialNumber |-> urn, version |-> v]]
  /\ UNCHANGED <<branch, answer>>

(* Only a request that is entered is acknowledged, and only one that is    *)
(* not is refused or told of a conflict.  An error says nothing.           *)
Answer(r, a) ==
  /\ answer[r] = "none"
  /\ CASE a = "created"                -> entry[r] # NoEntry
       [] a \in {"conflict", "refused"} -> entry[r] = NoEntry
       [] a = "error"                  -> TRUE
  /\ a = "conflict" => branch[r] = "keep"
  /\ answer' = [answer EXCEPT ![r] = a]
  /\ UNCHANGED <<registry, entry, branch>>

Next == \E r \in Requests :
  \/ \E b \in {"generate", "assign", "keep"} : Start(r, b)
  \/ \E urn \in Urns, v \in Positive : Enter(r, urn, v)
  \/ \E a \in {"created", "conflict", "refused", "error"} : Answer(r, a)

Spec == Init /\ [][Next]_vars
=============================================================================
