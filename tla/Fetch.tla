-------------------------------- MODULE Fetch --------------------------------
(***************************************************************************)
(* GET /v1/bom/{urn} and GET /v1/bom/{urn}/versions: GetBOMByUrn and       *)
(* UrnVersions.  Both list first and then ask for the objects one by one,  *)
(* so what they answer is put together from several moments.  On its own   *)
(* the module runs beside an environment that writes, overwrites and       *)
(* deletes objects; Repository.tla runs it beside Upload.                  *)
(***************************************************************************)
EXTENDS BomStore

CONSTANTS
  Readers,       \* the read requests of a behaviour, each sent once
  Docs,          \* documents
  WithoutStats,  \* documents stored without crypto statistics metadata
  BadStats,      \* documents whose statistics metadata is not JSON
  Malformed,     \* documents that are not JSON
  CheckOnFetch,  \* the configuration switch of that name
  ExternalKeys   \* the keys the environment of FetchSpec uses

ASSUME FetchAssumption ==
  /\ Absent \notin Docs
  /\ WithoutStats \cup BadStats \cup Malformed \subseteq Docs
  /\ WithoutStats \cap BadStats = {}
  /\ CheckOnFetch \in BOOLEAN /\ ExternalKeys \subseteq Keys

VARIABLES
  bucket,
  at,       \* where the handler of a read is
  wanted,   \* what it reads: kind, serial number and key suffix
  seen,     \* the suffixes on the first page of its LIST
  todo,     \* toProcess: the suffixes UrnVersions has not asked for yet
  reply,    \* what it answered: outcome, document, versions
  stable,   \* history: the suffixes of its serial number under which a
            \* document with statistics has been stored since it arrived
  earlier   \* history: the reads answered when this one arrived

readerVars == <<at, wanted, seen, todo, reply, stable, earlier>>
fetchVars  == <<bucket, readerVars>>

Kinds    == {"latest", "exact", "versions"}
Outcomes == {"none", "ok", "notFound", "error", "panic"}
Handling == {"list", "listing", "get", "heads"}

(* Versions a client may name (ValidVersion).                              *)
ValidVersion == 1 .. MaxInt \cup {Original}

NoReply == [outcome |-> "none", doc |-> Absent, versions |-> {}]

ReadersInit ==
  /\ at = [g \in Readers |-> "idle"]
  /\ wanted = [g \in Readers |-> [kind |-> "latest", urn |-> Absent, suffix |-> 0]]
  /\ seen = [g \in Readers |-> {}]
  /\ todo = [g \in Readers |-> {}]
  /\ reply = [g \in Readers |-> NoReply]
  /\ stable = [g \in Readers |-> {}]
  /\ earlier = [g \in Readers |-> {}]

GoOn(g, label) == at' = [at EXCEPT ![g] = label]

Respond(g, outcome, doc, versions) ==
  /\ reply' = [reply EXCEPT ![g] =
                 [outcome |-> outcome, doc |-> doc, versions |-> versions]]
  /\ GoOn(g, "done")

(* UrnVersions leaves out an object without statistics.                    *)
ShownInVersions(doc) == doc \in Docs \ WithoutStats

Answered(g) == reply[g].outcome # "none"

-----------------------------------------------------------------------------
(* A read arrives.  Without a version (or for the list of versions) the    *)
(* handler lists, with one it goes straight for the object.                *)
Request(g, kind, urn, suffix) ==
  /\ at[g] = "idle"
  /\ wanted' = [wanted EXCEPT ![g] = [kind |-> kind, urn |-> urn, suffix |-> suffix]]
  /\ stable' = [stable EXCEPT ![g] =
                  {s \in Suffixes : ShownInVersions(bucket[UploadKey(urn, s)])}]
  /\ earlier' = [earlier EXCEPT ![g] = {h \in Readers : Answered(h)}]
  /\ GoOn(g, IF kind = "exact" THEN "get" ELSE "list")
  /\ UNCHANGED <<seen, todo, reply>>

Arrival(g) ==
  \E urn \in Urns :
    \/ Request(g, "latest", urn, 0)
    \/ Request(g, "versions", urn, 0)
    \/ \E suffix \in ValidVersion : Request(g, "exact", urn, suffix)

ListFirst(g) ==
  /\ at[g] = "list"
  /\ seen' = [seen EXCEPT ![g] = Listing(bucket, wanted[g].urn)]
  /\ GoOn(g, "listing")
  /\ UNCHANGED <<wanted, todo, reply, stable, earlier>>

(* What is stored from the first page to the last is listed; an object     *)
(* that comes or goes meanwhile may be listed or not.                      *)
Listings(g) ==
  LET now    == Listing(bucket, wanted[g].urn)
      always == seen[g] \cap now
  IN  {always \cup some : some \in SUBSET ((seen[g] \cup now) \ always)}

(* versions[len(versions)-1], which panics when only "original" is listed. *)
SelectLatest(g, listing) ==
  \/ /\ Numbers(listing) = {}
     /\ Respond(g, "panic", Absent, {})
     /\ UNCHANGED wanted
  \/ /\ \E v \in Numbers(listing) :
          IsLast(v, Numbers(listing)) /\ wanted' = [wanted EXCEPT ![g].suffix = v]
     /\ GoOn(g, "get")
     /\ UNCHANGED reply

ListLast(g) ==
  /\ at[g] = "listing"
  /\ \E listing \in Listings(g) :
       \/ /\ ListingNotFound(listing)
          /\ Respond(g, "notFound", Absent, {})
          /\ UNCHANGED <<wanted, todo>>
       \/ /\ ListingInvalid(listing)
          /\ Respond(g, "error", Absent, {})
          /\ UNCHANGED <<wanted, todo>>
       \/ /\ ~ ListingNotFound(listing) /\ ~ ListingInvalid(listing)
          /\ wanted[g].kind = "latest" /\ SelectLatest(g, listing)
          /\ UNCHANGED todo
       \/ /\ ~ ListingNotFound(listing) /\ ~ ListingInvalid(listing)
          /\ wanted[g].kind = "versions" /\ GoOn(g, "heads")
          /\ todo' = [todo EXCEPT ![g] = listing]
          /\ UNCHANGED <<wanted, reply>>
  /\ seen' = [seen EXCEPT ![g] = {}]
  /\ UNCHANGED <<stable, earlier>>

(* GetObject, and the check of the contents when it is configured.         *)
Get(g) ==
  /\ at[g] = "get"
  /\ LET doc == bucket[UploadKey(wanted[g].urn, wanted[g].suffix)]
     IN  CASE doc = Absent -> Respond(g, "notFound", Absent, {})
           [] CheckOnFetch /\ doc \in Malformed -> Respond(g, "error", Absent, {})
           [] OTHER -> Respond(g, "ok", doc, {wanted[g].suffix})
  /\ UNCHANGED <<wanted, seen, todo, stable, earlier>>

(* UrnVersions asks in ascending order, "original" last.                   *)
IsNextHead(s, pending) ==
  \/ s \in Versions /\ \A w \in Numbers(pending) : s <= w
  \/ s = Original /\ Numbers(pending) = {}

(* A missing object is skipped, and so is one without statistics; one      *)
(* whose statistics cannot be read fails the call.                         *)
RetryMissing(doc, s, pending) == IF doc = Absent THEN pending ELSE pending \ {s}

BreakOnMissing(doc, s, pending) == IF doc = Absent THEN {} ELSE pending \ {s}

AfterHead(doc, s, pending) == pending \ {s}

Head(g) ==
  /\ at[g] = "heads"
  /\ \E s \in todo[g] :
       LET doc == bucket[UploadKey(wanted[g].urn, s)]
       IN  /\ IsNextHead(s, todo[g])
           /\ IF doc \in BadStats
                THEN /\ Respond(g, "error", Absent, {})
                     /\ todo' = [todo EXCEPT ![g] = {}]
                ELSE /\ todo' = [todo EXCEPT ![g] = AfterHead(doc, s, @)]
                     /\ reply' = [reply EXCEPT ![g].versions =
                                    @ \cup {x \in {s} : ShownInVersions(doc)}]
                     /\ UNCHANGED at
  /\ UNCHANGED <<wanted, seen, stable, earlier>>

HeadsDone(g) ==
  /\ at[g] = "heads" /\ todo[g] = {}
  /\ Respond(g, "ok", Absent, reply[g].versions)
  /\ UNCHANGED <<wanted, seen, todo, stable, earlier>>

(* A store call fails or the client goes away.                             *)
ReadFails(g) ==
  /\ at[g] \in Handling
  /\ Respond(g, "error", Absent, {})
  /\ seen' = [seen EXCEPT ![g] = {}] /\ todo' = [todo EXCEPT ![g] = {}]
  /\ UNCHANGED <<wanted, stable, earlier>>

Handle(g) == ListFirst(g) \/ ListLast(g) \/ Get(g) \/ Head(g) \/ HeadsDone(g)

ReaderStep(g) == Arrival(g) \/ Handle(g) \/ ReadFails(g)

-----------------------------------------------------------------------------
(* The environment of the standalone specification: whoever else has the   *)
(* bucket writes and deletes objects under ExternalKeys.                   *)
Disturb(key) ==
  stable' = [g \in Readers |->
              IF wanted[g].urn = key[1] THEN stable[g] \ {key[2]} ELSE stable[g]]

PutObject(key, doc) ==
  /\ bucket' = [bucket EXCEPT ![key] = doc]
  /\ IF ShownInVersions(doc) THEN UNCHANGED stable ELSE Disturb(key)
  /\ UNCHANGED <<at, wanted, seen, todo, reply, earlier>>

DeleteObject(key) ==
  /\ bucket[key] # Absent
  /\ bucket' = [bucket EXCEPT ![key] = Absent]
  /\ Disturb(key)
  /\ UNCHANGED <<at, wanted, seen, todo, reply, earlier>>

Environment == \E key \in ExternalKeys :
  DeleteObject(key) \/ \E doc \in Docs : PutObject(key, doc)

FetchInit == ReadersInit /\ bucket = [k \in Keys |-> Absent]

FetchNext == Environment \/ \E g \in Readers : ReaderStep(g) /\ UNCHANGED bucket

(* Store calls return.                                                     *)
FetchFairness == \A g \in Readers : WF_fetchVars(Handle(g) /\ UNCHANGED bucket)

FetchSpec == FetchInit /\ [][FetchNext]_fetchVars /\ FetchFairness

-----------------------------------------------------------------------------
(* The variables have their types: above all, a foreign key never gets     *)
(* beyond the LIST.                                                        *)
FetchTypeOK ==
  /\ bucket \in [Keys -> Docs \cup {Absent}]
  /\ at \in [Readers -> Handling \cup {"idle", "done"}]
  /\ wanted \in [Readers -> [kind : Kinds, urn : Urns \cup {Absent}, suffix : Suffixes]]
  /\ seen \in [Readers -> SUBSET Suffixes]
  /\ todo \in [Readers -> SUBSET (Suffixes \ {Foreign})]
  /\ reply \in [Readers -> [outcome : Outcomes, doc : Docs \cup {Absent},
                             versions : SUBSET (Suffixes \ {Foreign})]]
  /\ stable \in [Readers -> SUBSET Suffixes]
  /\ earlier \in [Readers -> SUBSET Readers]

(* GET without a version never answers with a version below one that was   *)
(* stored from the arrival of the request to its answer, however many      *)
(* pages the listing had and whatever was written or deleted meanwhile.    *)
LatestAboveStable ==
  \A g \in Readers :
    wanted[g].kind = "latest" /\ reply[g].outcome = "ok" =>
      \A v \in reply[g].versions, w \in Numbers(stable[g]) : w <= v

(* The version list misses no version that was stored, with statistics,    *)
(* all along: one that is deleted between the LIST and its HEAD is skipped *)
(* without cutting the rest short.                                         *)
VersionsCoverStable ==
  \A g \in Readers :
    wanted[g].kind = "versions" /\ reply[g].outcome = "ok"
      => stable[g] \subseteq reply[g].versions

(* A read is answered although objects come and go while it runs.          *)
EveryReadAnswered ==
  \A g \in Readers : at[g] \in Handling ~> Answered(g)
=============================================================================
