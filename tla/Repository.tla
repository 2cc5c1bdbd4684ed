----------------------------- MODULE Repository -----------------------------
(***************************************************************************)
(* Uploads and reads on one bucket: what a client that saw an upload       *)
(* acknowledged can count on when it reads.  The service keeps nothing     *)
(* between requests, so everything here goes through the store.            *)
(***************************************************************************)
EXTENDS Upload

CONSTANTS Readers

VARIABLES
  at, wanted, seen, todo, reply, stable, earlier,  \* see Fetch
  acked  \* history: the uploads acknowledged when a read arrived

readVars == <<at, wanted, seen, todo, reply, stable, earlier>>
allVars  == <<vars, readVars, acked>>

(* Uploads always store their statistics with the object, and JSON.        *)
F == INSTANCE Fetch WITH
  WithoutStats <- {}, BadStats <- {}, Malformed <- {},
  CheckOnFetch <- TRUE, ExternalKeys <- {}

RepositoryInit ==
  /\ Init
  /\ F!ReadersInit
  /\ acked = [g \in Readers |-> {}]

UploadStep(r) == Step(r) /\ UNCHANGED <<readVars, acked>>

(* Reads change nothing, so one at a time says as much as many at once.    *)
NoReadInProgress == \A h \in Readers : at[h] \in {"idle", "done"}

ReadArrives(g) ==
  /\ NoReadInProgress
  /\ F!Arrival(g)
  /\ acked' = [acked EXCEPT ![g] = {r \in Requests : Created(r)}]
  /\ UNCHANGED vars

ReadStep(g) ==
  /\ F!Handle(g) \/ F!ReadFails(g)
  /\ UNCHANGED <<vars, acked>>

RepositoryNext ==
  \/ \E r \in Requests : UploadStep(r)
  \/ \E g \in Readers : ReadArrives(g) \/ ReadStep(g)

RepositorySpec == RepositoryInit /\ [][RepositoryNext]_allVars

-----------------------------------------------------------------------------
OfSerial(g, r) == bom[r].serialNumber = wanted[g].urn

(* Read your writes: after an upload was acknowledged, a GET of its        *)
(* version finds a document, a GET of the latest version is answered with  *)
(* a version at least as high, and the version list contains it.           *)
AckedIsServed ==
  \A g \in Readers, r \in Requests :
    r \in acked[g] /\ OfSerial(g, r) /\ bom[r].version >= 1 =>
      CASE reply[g].outcome = "ok" /\ wanted[g].kind = "latest" ->
             \E v \in reply[g].versions : bom[r].version <= v
        [] reply[g].outcome = "ok" /\ wanted[g].kind = "versions" ->
             bom[r].version \in reply[g].versions
        [] reply[g].outcome \in {"notFound", "panic"} ->
             wanted[g].kind = "exact" /\ wanted[g].suffix # bom[r].version
        [] OTHER -> TRUE

(* A GET of an acknowledged version is answered with the acknowledged      *)
(* document or with that of an upload that raced it, never with one of a   *)
(* request that arrived after the acknowledgement.                         *)
ServedIsNotLater ==
  \A g \in Readers, r \in Requests :
    /\ r \in acked[g] /\ OfSerial(g, r)
    /\ wanted[g].kind = "exact" /\ wanted[g].suffix = bom[r].version
    /\ reply[g].outcome = "ok" /\ bom[r].version >= 1
    => reply[g].doc \in Requests /\ r \notin before[reply[g].doc]

(* The latest version never goes backwards from one read to a later one.   *)
MonotonicLatest ==
  \A g \in Readers : \A h \in earlier[g] :
    /\ wanted[g].kind = "latest" /\ wanted[h].kind = "latest"
    /\ wanted[g].urn = wanted[h].urn
    /\ reply[h].outcome = "ok"
    => /\ reply[g].outcome # "notFound"
       /\ reply[g].outcome = "ok" =>
            \A v \in reply[h].versions, w \in reply[g].versions : v <= w

(* GetBOMByUrn returns a document or an error: the handler does not panic  *)
(* when only the "original" of a serial number is stored.                  *)
ReadsDoNotPanic == \A g \in Readers : reply[g].outcome # "panic"
=============================================================================
