-------------------------- MODULE RepositoryProofs --------------------------
(***************************************************************************)
(* Proofs about Repository: what acknowledged uploads and earlier reads    *)
(* mean for a later read, for any number of uploads and reads.             *)
(***************************************************************************)
EXTENDS Repository, UploadProofs

(* The part of FetchTypeOK that is about the readers.                      *)
Places     == F!Handling \cup {"idle", "done"}
WantedType == [kind : F!Kinds, urn : Urns \cup {Absent}, suffix : Suffixes]
AnswerType  == [outcome : F!Outcomes, doc : Docs \cup {Absent}, versions : SUBSET Suffixes]

ReadTypeOK ==
  /\ at \in [Readers -> Places] /\ wanted \in [Readers -> WantedType]
  /\ seen \in [Readers -> SUBSET Suffixes] /\ todo \in [Readers -> SUBSET Suffixes]
  /\ reply \in [Readers -> AnswerType] /\ stable \in [Readers -> SUBSET Suffixes]
  /\ earlier \in [Readers -> SUBSET Readers] /\ acked \in [Readers -> SUBSET Requests]

Wants(g, suffix) == UploadKey(wanted[g].urn, suffix)

Holds(g, suffixes) == \A s \in suffixes : bucket[Wants(g, s)] # Absent

(* Which kind of read may be where, and that it is not answered there.     *)
Placed(g) ==
  /\ at[g] # "done" => reply[g].outcome = "none"
  /\ at[g] # "idle" => wanted[g].urn \in Urns
  /\ at[g] \in {"list", "listing"} => wanted[g].kind \in {"latest", "versions"}
  /\ at[g] = "get" => wanted[g].kind \in {"latest", "exact"}
  /\ at[g] = "heads" => wanted[g].kind = "versions"

(* What was stored when a read arrived is still there, and passes from its *)
(* LIST to its answer.                                                     *)
StoredPassedOn(g) ==
  /\ at[g] # "idle" => Holds(g, stable[g])
  /\ at[g] = "listing" => stable[g] \subseteq seen[g]
  /\ at[g] = "listing" => Holds(g, seen[g])
  /\ at[g] = "get" /\ wanted[g].kind = "latest" =>
       /\ wanted[g].suffix \in Versions /\ bucket[Wants(g, wanted[g].suffix)] # Absent
       /\ \A w \in Numbers(stable[g]) : w <= wanted[g].suffix
  /\ at[g] = "heads" => stable[g] \subseteq todo[g] \cup reply[g].versions

(* What an answer says of what was stored when the read arrived.           *)
AnsweredRightly(g) ==
  /\ wanted[g].kind = "latest" /\ reply[g].outcome = "ok" =>
       /\ \E v \in Versions : reply[g].versions = {v} /\ bucket[Wants(g, v)] # Absent
       /\ \A v \in reply[g].versions, w \in Numbers(stable[g]) : w <= v
  /\ wanted[g].kind = "versions" /\ reply[g].outcome = "ok"
       => stable[g] \subseteq reply[g].versions
  /\ reply[g].outcome \in {"notFound", "panic"} =>
       \/ wanted[g].kind = "exact" /\ wanted[g].suffix \notin stable[g]
       \/ wanted[g].kind # "exact" /\ Numbers(stable[g]) = {}

(* Acknowledged uploads and the answers of earlier reads were stored when  *)
(* a read arrived.                                                         *)
Remembered(g) ==
  at[g] # "idle" =>
    /\ \A r \in acked[g] : Created(r)
    /\ \A r \in acked[g] :
         OfSerial(g, r) /\ bom[r].version >= 1 => bom[r].version \in stable[g]
    /\ \A h \in earlier[g] :
         /\ h # g /\ at[h] = "done" /\ reply[h].outcome # "none"
         /\ wanted[h].kind = "latest" /\ wanted[h].urn = wanted[g].urn /\ reply[h].outcome = "ok"
              => reply[h].versions \subseteq stable[g]

(* A document served under a key was not written after an acknowledgement  *)
(* of that key.                                                            *)
ServedRightly(g) ==
  wanted[g].kind = "exact" /\ reply[g].outcome = "ok" =>
    \A r \in acked[g] :
      OfSerial(g, r) /\ wanted[g].suffix = bom[r].version /\ bom[r].version >= 1 =>
        /\ reply[g].doc \in Requests /\ pc[reply[g].doc] # "waiting"
        /\ r \notin before[reply[g].doc]

ReadInvariant(g) ==
  Placed(g) /\ StoredPassedOn(g) /\ AnsweredRightly(g) /\ Remembered(g) /\ ServedRightly(g)

RepositoryInvariant ==
  UploadInvariant /\ ReadTypeOK /\ \A g \in Readers : ReadInvariant(g)
-----------------------------------------------------------------------------
(* What a read wants has a key.                                            *)
LEMMA WantedKeys ==
  ASSUME ReadTypeOK, NEW g \in Readers, wanted[g].urn \in Urns
  PROVE  \A s \in Suffixes : Wants(g, s) \in Keys
BY DEF Wants, UploadKey, Keys

(* The versions are numbers, and suffixes.                                 *)
LEMMA VersionFacts == Versions \subseteq Int /\ Versions \subseteq Suffixes
BY StoreAssumption DEF Versions, MinInt, Suffixes

(* An upload takes no object away.                                         *)
LEMMA ObjectsStay ==
  ASSUME UploadInvariant, NEW r \in Requests, Step(r)
  PROVE  \A k \in Keys : bucket[k] # Absent => bucket'[k] # Absent
BY BucketStep, UploadAssumption

(* A step of an upload keeps what is known of every read.                  *)
LEMMA UploadStepKeeps ==
  ASSUME UploadInvariant, ReadTypeOK, NEW r \in Requests, UploadStep(r),
         NEW g \in Readers, ReadInvariant(g)
  PROVE  ReadInvariant(g)'
<1> USE DEF ReadInvariant
<1>1. Step(r) /\ UNCHANGED <<at, wanted, seen, todo, reply, stable, earlier, acked>>
  BY DEF UploadStep, readVars
<1>2. ASSUME NEW s \in Suffixes, wanted[g].urn \in Urns, bucket[Wants(g, s)] # Absent
      PROVE  bucket'[Wants(g, s)] # Absent
  BY <1>1, <1>2, WantedKeys, ObjectsStay
<1>3. Placed(g)'
  BY <1>1 DEF Placed
<1>4. StoredPassedOn(g)'
  <2>1. seen[g] \subseteq Suffixes /\ stable[g] \subseteq Suffixes
    BY DEF ReadTypeOK
  <2>2. at[g] # "idle" => wanted[g].urn \in Urns
    BY DEF Placed
  <2>3. at[g] # "idle" => Holds(g, stable[g])'
    BY <1>1, <1>2, <2>1, <2>2 DEF StoredPassedOn, Holds, Wants
  <2>4. at[g] = "listing" => Holds(g, seen[g])'
    BY <1>1, <1>2, <2>1, <2>2 DEF StoredPassedOn, Holds, Wants
  <2>5. at[g] = "get" /\ wanted[g].kind = "latest" =>
          bucket'[Wants(g, wanted[g].suffix)] # Absent
    BY <1>1, <1>2, <2>2, VersionFacts DEF StoredPassedOn
  <2> QED
    BY <1>1, <2>3, <2>4, <2>5 DEF StoredPassedOn, Wants
<1>5. AnsweredRightly(g)'
  <2>1. reply[g].outcome = "ok" => wanted[g].urn \in Urns
    BY DEF Placed
  <2> QED
    BY <1>1, <1>2, <2>1, VersionFacts DEF AnsweredRightly, Wants
<1>6. ASSUME NEW a \in Requests, Created(a)
      PROVE  Created(a)' /\ bom'[a] = bom[a]
  BY <1>1, <1>6, AnswersStand DEF Created, Unmoved
<1>7. acked[g] \subseteq Requests
  BY DEF ReadTypeOK
<1>8. Remembered(g)'
  BY <1>1, <1>6, <1>7 DEF Remembered, OfSerial
<1>9. ServedRightly(g)'
  <2> SUFFICES ASSUME wanted[g].kind = "exact", reply[g].outcome = "ok", NEW a \in acked[g],
                      bom'[a].serialNumber = wanted[g].urn,
                      wanted[g].suffix = bom'[a].version, bom'[a].version >= 1
               PROVE  /\ reply[g].doc \in Requests /\ pc'[reply[g].doc] # "waiting"
                      /\ a \notin before'[reply[g].doc]
    BY <1>1 DEF ServedRightly, OfSerial
  <2>1. at[g] # "idle" /\ Created(a) /\ bom'[a] = bom[a]
    BY <1>6, <1>7 DEF Placed, Remembered
  <2>2. /\ reply[g].doc \in Requests /\ pc[reply[g].doc] # "waiting"
        /\ a \notin before[reply[g].doc]
    BY <2>1 DEF ServedRightly, OfSerial
  <2>3. before'[reply[g].doc] = before[reply[g].doc]
    BY <1>1, <2>2, HistoryFixed, OthersStand DEF Unmoved, UploadInvariant
  <2>4. pc'[reply[g].doc] # "waiting"
    BY <1>1, <2>2, NeverWaitsAgain DEF UploadInvariant
  <2> QED
    BY <2>2, <2>3, <2>4
<1> QED
  BY <1>3, <1>4, <1>5, <1>8, <1>9
-----------------------------------------------------------------------------
(* A read that a step is not about.                                        *)
Rests(h) ==
  /\ at'[h] = at[h] /\ wanted'[h] = wanted[h] /\ seen'[h] = seen[h]
  /\ todo'[h] = todo[h] /\ reply'[h] = reply[h] /\ stable'[h] = stable[h]
  /\ earlier'[h] = earlier[h] /\ acked'[h] = acked[h]

(* It keeps what is known of it, as long as the answers it remembers stay. *)
LEMMA RestingKeeps ==
  ASSUME ReadTypeOK, NEW h \in Readers, ReadInvariant(h), Rests(h), UNCHANGED vars,
         \A g \in Readers : at[g] = "done" => Rests(g)
  PROVE  ReadInvariant(h)'
<1> USE DEF ReadInvariant, Rests
<1>1. UNCHANGED <<bucket, pc, bom, answer, before>>
  BY DEF vars
<1>2. Placed(h)' /\ AnsweredRightly(h)' /\ ServedRightly(h)'
  BY <1>1 DEF Placed, AnsweredRightly, Wants, ServedRightly, OfSerial
<1>3. StoredPassedOn(h)'
  BY <1>1 DEF StoredPassedOn, Holds, Wants
<1>4. earlier[h] \subseteq Readers
  BY DEF ReadTypeOK
<1>5. Remembered(h)'
  BY <1>1, <1>4 DEF Remembered, OfSerial, Created
<1> QED
  BY <1>2, <1>3, <1>5

(* The suffixes of the bucket, in both modules.                            *)
LEMMA SameSuffixes ==
  /\ F!Suffixes = Suffixes /\ F!Versions = Versions
  /\ \A urn : F!Listing(bucket, urn) = Listing(bucket, urn)
  /\ \A set : F!Numbers(set) = Numbers(set)
BY DEF F!Suffixes, F!Versions, F!MinInt, F!Listing, F!Numbers, F!UploadKey,
       Suffixes, Versions, MinInt, Listing, Numbers, UploadKey

(* What an arriving read is told of the bucket, of the uploads and of      *)
(* earlier reads.                                                          *)
LEMMA ArrivalFacts ==
  ASSUME ReadTypeOK, NEW g \in Readers, ReadArrives(g)
  PROVE  /\ at[g] = "idle" /\ UNCHANGED <<seen, todo, reply>> /\ UNCHANGED vars
         /\ \E kind \in F!Kinds, urn \in Urns, suffix \in Suffixes :
              /\ wanted' = [wanted EXCEPT ![g] =
                              [kind |-> kind, urn |-> urn, suffix |-> suffix]]
              /\ stable' = [stable EXCEPT ![g] =
                   {s \in Suffixes : bucket[UploadKey(urn, s)] \in Docs}]
              /\ at' = [at EXCEPT ![g] = IF kind = "exact" THEN "get" ELSE "list"]
         /\ earlier' = [earlier EXCEPT ![g] = {h \in Readers : reply[h].outcome # "none"}]
         /\ acked' = [acked EXCEPT ![g] = {r \in Requests : Created(r)}]
<1>1. 0 \in Suffixes /\ F!ValidVersion \subseteq Suffixes
  BY StoreAssumption DEF Suffixes, Versions, MinInt, F!ValidVersion
<1>2. PICK kind \in F!Kinds, urn \in Urns, suffix \in Suffixes :
        F!Request(g, kind, urn, suffix)
  BY <1>1 DEF ReadArrives, F!Arrival, F!Kinds
<1>3. stable' = [stable EXCEPT ![g] = {s \in Suffixes : bucket[UploadKey(urn, s)] \in Docs}]
  BY <1>2, SameSuffixes DEF F!Request, F!ShownInVersions, F!UploadKey, UploadKey
<1> QED
  BY <1>2, <1>3 DEF ReadArrives, F!Request, F!GoOn, F!Answered

(* Its arrival keeps the types, and leaves the other reads alone.          *)
LEMMA ArrivalType ==
  ASSUME ReadTypeOK, NEW g \in Readers, ReadArrives(g)
  PROVE  ReadTypeOK' /\ \A h \in Readers \ {g} : Rests(h)
<1>1. PICK kind \in F!Kinds, urn \in Urns, suffix \in Suffixes :
        /\ wanted' = [wanted EXCEPT ![g] = [kind |-> kind, urn |-> urn, suffix |-> suffix]]
        /\ stable' = [stable EXCEPT ![g] =
             {s \in Suffixes : bucket[UploadKey(urn, s)] \in Docs}]
        /\ at' = [at EXCEPT ![g] = IF kind = "exact" THEN "get" ELSE "list"]
  BY ArrivalFacts
<1>2. wanted' \in [Readers -> WantedType] /\ at' \in [Readers -> Places]
  BY <1>1 DEF ReadTypeOK, WantedType, Places, F!Handling
<1>3. stable' \in [Readers -> SUBSET Suffixes]
  BY <1>1 DEF ReadTypeOK
<1>4. earlier' \in [Readers -> SUBSET Readers] /\ acked' \in [Readers -> SUBSET Requests]
  BY ArrivalFacts DEF ReadTypeOK
<1>5. UNCHANGED <<seen, todo, reply>>
  BY ArrivalFacts
<1>6. ReadTypeOK'
  BY <1>2, <1>3, <1>4, <1>5 DEF ReadTypeOK, WantedType, Places, AnswerType
<1> QED
  BY <1>1, <1>5, <1>6, ArrivalFacts DEF ReadTypeOK, Rests

(* What was acknowledged or answered before is stored at the arrival.      *)
LEMMA ArrivalKeeps ==
  ASSUME UploadInvariant, ReadTypeOK, NEW g \in Readers, ReadArrives(g),
         \A h \in Readers : ReadInvariant(h)
  PROVE  ReadInvariant(g)'
<1> USE DEF ReadInvariant
<1>1. PICK kind \in F!Kinds, urn \in Urns, suffix \in Suffixes :
        /\ wanted' = [wanted EXCEPT ![g] = [kind |-> kind, urn |-> urn, suffix |-> suffix]]
        /\ stable' = [stable EXCEPT ![g] =
             {s \in Suffixes : bucket[UploadKey(urn, s)] \in Docs}]
        /\ at' = [at EXCEPT ![g] = IF kind = "exact" THEN "get" ELSE "list"]
  BY ArrivalFacts
<1>2. /\ wanted'[g].kind = kind /\ wanted'[g].urn = urn /\ at'[g] \in {"get", "list"}
      /\ at'[g] = "get" <=> kind = "exact"
      /\ stable'[g] = {s \in Suffixes : bucket[UploadKey(urn, s)] # Absent}
  <2>1. \A s \in Suffixes : bucket[UploadKey(urn, s)] \in Docs \cup {Absent}
    BY DEF UploadInvariant, TypeOK, UploadKey, Keys
  <2>2. Absent \notin Docs
    BY UploadAssumption DEF Docs
  <2> QED
    BY <1>1, <2>1, <2>2 DEF ReadTypeOK
<1>3. /\ UNCHANGED <<bucket, pc, bom, answer, before, reply>> /\ at[g] = "idle"
      /\ reply[g].outcome = "none"
  BY ArrivalFacts DEF vars, Placed
<1>4. Placed(g)' /\ AnsweredRightly(g)' /\ ServedRightly(g)'
  BY <1>2, <1>3 DEF Placed, F!Kinds, AnsweredRightly, ServedRightly
<1>5. StoredPassedOn(g)'
  BY <1>2, <1>3 DEF StoredPassedOn, Holds, Wants
<1>6. acked'[g] = {r \in Requests : Created(r)}
      /\ earlier'[g] = {h \in Readers : reply[h].outcome # "none"}
  BY ArrivalFacts DEF ReadTypeOK
<1>7. ASSUME NEW r \in Requests, Created(r), bom[r].serialNumber = urn, bom[r].version >= 1
      PROVE  bom[r].version \in stable'[g]
  BY <1>2, <1>7, AckedListed DEF Listing
<1>8. ASSUME NEW h \in Readers, reply[h].outcome # "none"
      PROVE  /\ h # g /\ at'[h] = "done"
             /\ wanted'[h].kind = "latest" /\ wanted'[h].urn = urn /\ reply[h].outcome = "ok"
                  => reply[h].versions \subseteq stable'[g]
  <2>1. h # g /\ at[h] = "done" /\ at'[h] = at[h] /\ wanted'[h] = wanted[h]
    BY <1>3, <1>8, ArrivalType DEF Placed, Rests
  <2> QED
    BY <1>2, <2>1, VersionFacts DEF AnsweredRightly, Wants
<1>9. Remembered(g)'
  BY <1>2, <1>3, <1>6, <1>7, <1>8 DEF Remembered, OfSerial, Created
<1> QED
  BY <1>4, <1>5, <1>9
-----------------------------------------------------------------------------
(* What a step of a read leaves alone.                                     *)
Handles(g) == F!Handle(g) \/ F!ReadFails(g)

LEMMA HandleFacts ==
  ASSUME ReadTypeOK, NEW g \in Readers, ReadStep(g)
  PROVE  /\ Handles(g) /\ UNCHANGED <<vars, stable, earlier, acked>> /\ at[g] \in F!Handling
         /\ wanted'[g].kind = wanted[g].kind /\ wanted'[g].urn = wanted[g].urn
<1>1. Handles(g) /\ UNCHANGED <<vars, acked>>
  BY DEF ReadStep, Handles
<1>2. CASE F!ListFirst(g) \/ F!Get(g) \/ F!Head(g) \/ F!HeadsDone(g) \/ F!ReadFails(g)
  BY <1>1, <1>2 DEF F!ListFirst, F!Get, F!Head, F!HeadsDone, F!ReadFails, F!Handling
<1>3. CASE F!ListLast(g)
  BY <1>1, <1>3 DEF F!ListLast, F!SelectLatest, F!Handling, ReadTypeOK, WantedType
<1> QED
  BY <1>1, <1>2, <1>3 DEF Handles, F!Handle

(* An answer ends a read and keeps the types.                              *)
LEMMA RespondFacts ==
  ASSUME ReadTypeOK, NEW g \in Readers, NEW outcome \in F!Outcomes,
         NEW doc \in Docs \cup {Absent}, NEW versions \in SUBSET Suffixes,
         F!Respond(g, outcome, doc, versions)
  PROVE  /\ at' \in [Readers -> Places] /\ reply' \in [Readers -> AnswerType]
         /\ at'[g] = "done"
         /\ reply'[g] = [outcome |-> outcome, doc |-> doc, versions |-> versions]
         /\ \A h \in Readers \ {g} : at'[h] = at[h] /\ reply'[h] = reply[h]
BY DEF F!Respond, F!GoOn, ReadTypeOK, AnswerType, Places

(* The listing a read goes on with contains what was listed and is stored, *)
(* and nothing that was never there.                                       *)
LEMMA ListingFacts ==
  ASSUME ReadTypeOK, NEW g \in Readers, NEW listing \in F!Listings(g)
  PROVE  /\ listing \subseteq Suffixes
         /\ seen[g] \cap Listing(bucket, wanted[g].urn) \subseteq listing
         /\ listing \subseteq seen[g] \cup Listing(bucket, wanted[g].urn)
BY SameSuffixes DEF F!Listings, Listing, ReadTypeOK

(* The ways out of a LIST.                                                 *)
LEMMA ListLastCases ==
  ASSUME ReadTypeOK, NEW g \in Readers, F!ListLast(g)
  PROVE  /\ at[g] = "listing" /\ seen' = [seen EXCEPT ![g] = {}]
         /\ \E listing \in F!Listings(g) :
              \/ /\ listing = {} /\ F!Respond(g, "notFound", Absent, {})
                 /\ UNCHANGED <<wanted, todo>>
              \/ F!Respond(g, "error", Absent, {}) /\ UNCHANGED <<wanted, todo>>
              \/ /\ wanted[g].kind = "latest" /\ Numbers(listing) = {}
                 /\ F!Respond(g, "panic", Absent, {}) /\ UNCHANGED <<wanted, todo>>
              \/ /\ wanted[g].kind = "latest" /\ F!GoOn(g, "get") /\ UNCHANGED <<todo, reply>>
                 /\ \E v \in Numbers(listing) :
                      /\ \A w \in Numbers(listing) : w <= v
                      /\ wanted' = [wanted EXCEPT ![g].suffix = v]
              \/ /\ wanted[g].kind = "versions" /\ F!GoOn(g, "heads")
                 /\ todo' = [todo EXCEPT ![g] = listing] /\ UNCHANGED <<wanted, reply>>
<1>1. /\ at[g] = "listing" /\ seen' = [seen EXCEPT ![g] = {}]
      /\ \E listing \in F!Listings(g) :
           \/ /\ listing = {} /\ F!Respond(g, "notFound", Absent, {})
              /\ UNCHANGED <<wanted, todo>>
           \/ F!Respond(g, "error", Absent, {}) /\ UNCHANGED <<wanted, todo>>
           \/ wanted[g].kind = "latest" /\ F!SelectLatest(g, listing) /\ UNCHANGED todo
           \/ /\ wanted[g].kind = "versions" /\ F!GoOn(g, "heads")
              /\ todo' = [todo EXCEPT ![g] = listing] /\ UNCHANGED <<wanted, reply>>
  BY DEF F!ListLast, F!ListingNotFound
<1>2. ASSUME NEW listing, F!SelectLatest(g, listing)
      PROVE  \/ /\ Numbers(listing) = {} /\ F!Respond(g, "panic", Absent, {})
                /\ UNCHANGED wanted
             \/ /\ F!GoOn(g, "get") /\ UNCHANGED reply
                /\ \E v \in Numbers(listing) :
                     /\ \A w \in Numbers(listing) : w <= v
                     /\ wanted' = [wanted EXCEPT ![g].suffix = v]
  BY <1>2, SameSuffixes DEF F!SelectLatest, F!IsLast
<1> QED
  BY <1>1, <1>2

(* One GET, of what is stored under the suffix.                            *)
LEMMA GetCases ==
  ASSUME ReadTypeOK, NEW g \in Readers, F!Get(g), UNCHANGED bucket
  PROVE  /\ at[g] = "get" /\ UNCHANGED <<wanted, seen, todo>>
         /\ \/ /\ bucket[Wants(g, wanted[g].suffix)] = Absent
               /\ F!Respond(g, "notFound", Absent, {})
            \/ /\ bucket[Wants(g, wanted[g].suffix)] # Absent
               /\ F!Respond(g, "ok", bucket[Wants(g, wanted[g].suffix)], {wanted[g].suffix})
<1> DEFINE doc == bucket[Wants(g, wanted[g].suffix)]
<1>1. \/ doc = Absent /\ F!Respond(g, "notFound", Absent, {})
      \/ doc # Absent /\ F!Respond(g, "ok", doc, {wanted[g].suffix})
  BY DEF F!Get, F!UploadKey, Wants, UploadKey
<1> HIDE DEF doc
<1>2. at[g] = "get" /\ UNCHANGED <<wanted, seen, todo>>
  BY DEF F!Get
<1> QED
  BY <1>1, <1>2 DEF doc

(* One HEAD, of an object that has statistics.                             *)
LEMMA HeadCases ==
  ASSUME ReadTypeOK, NEW g \in Readers, F!Head(g), UNCHANGED bucket
  PROVE  /\ at[g] = "heads" /\ UNCHANGED <<at, wanted, seen>>
         /\ \E s \in todo[g] : \E shown \in SUBSET {s} :
              /\ bucket[Wants(g, s)] \in Docs => shown = {s}
              /\ todo' = [todo EXCEPT ![g] = @ \ {s}]
              /\ reply' = [reply EXCEPT ![g].versions = @ \cup shown]
<1>1. PICK s \in todo[g] :
        /\ todo' = [todo EXCEPT ![g] = @ \ {s}]
        /\ reply' = [reply EXCEPT ![g].versions =
                @ \cup {x \in {s} : F!ShownInVersions(bucket[F!UploadKey(wanted[g].urn, s)])}]
        /\ UNCHANGED at
  BY DEF F!Head, F!AfterHead
<1> DEFINE shown == {x \in {s} : F!ShownInVersions(bucket[F!UploadKey(wanted[g].urn, s)])}
<1>2. bucket[Wants(g, s)] \in Docs => shown = {s}
  BY DEF F!ShownInVersions, F!UploadKey, Wants, UploadKey
<1>3. at[g] = "heads" /\ UNCHANGED <<wanted, seen>>
  BY DEF F!Head
<1>4. shown \in SUBSET {s} /\ reply' = [reply EXCEPT ![g].versions = @ \cup shown]
  BY <1>1
<1> QED
  BY <1>1, <1>2, <1>3, <1>4
-----------------------------------------------------------------------------
(* Types that a step of one read keeps, put together.                      *)
LEMMA TypesTogether ==
  ASSUME ReadTypeOK, NEW g \in Readers, UNCHANGED <<stable, earlier, acked>>,
         at' \in [Readers -> Places], wanted' \in [Readers -> WantedType],
         seen' \in [Readers -> SUBSET Suffixes], todo' \in [Readers -> SUBSET Suffixes],
         reply' \in [Readers -> AnswerType],
         \A h \in Readers \ {g} :
           /\ at'[h] = at[h] /\ wanted'[h] = wanted[h] /\ seen'[h] = seen[h]
           /\ todo'[h] = todo[h] /\ reply'[h] = reply[h]
  PROVE  ReadTypeOK' /\ \A h \in Readers \ {g} : Rests(h)
BY DEF ReadTypeOK, Rests, Places, WantedType, AnswerType

(* A LIST that ends keeps the types and leaves the other reads alone.      *)
LEMMA ListLastType ==
  ASSUME ReadTypeOK, NEW g \in Readers, F!ListLast(g), UNCHANGED <<stable, earlier, acked>>
  PROVE  ReadTypeOK' /\ \A h \in Readers \ {g} : Rests(h)
<1>1. seen' \in [Readers -> SUBSET Suffixes] /\ \A h \in Readers \ {g} : seen'[h] = seen[h]
  BY ListLastCases DEF ReadTypeOK
<1>2. ASSUME NEW outcome \in {"notFound", "error", "panic"},
             F!Respond(g, outcome, Absent, {}), UNCHANGED <<wanted, todo>>
      PROVE  ReadTypeOK' /\ \A h \in Readers \ {g} : Rests(h)
  <2>1. outcome \in F!Outcomes
    BY DEF F!Outcomes
  <2>2. wanted' \in [Readers -> WantedType] /\ todo' \in [Readers -> SUBSET Suffixes]
    BY <1>2 DEF ReadTypeOK
  <2>3. Absent \in Docs \cup {Absent} /\ {} \in SUBSET Suffixes
    OBVIOUS
  <2>4. /\ at' \in [Readers -> Places] /\ reply' \in [Readers -> AnswerType]
        /\ \A h \in Readers \ {g} : at'[h] = at[h] /\ reply'[h] = reply[h]
    BY <1>2, <2>1, <2>3, RespondFacts
  <2> QED
    BY <1>1, <1>2, <2>2, <2>4, TypesTogether
<1>3. ASSUME NEW v \in Suffixes, wanted' = [wanted EXCEPT ![g].suffix = v],
             F!GoOn(g, "get"), UNCHANGED <<todo, reply>>
      PROVE  ReadTypeOK' /\ \A h \in Readers \ {g} : Rests(h)
  <2>1. wanted' \in [Readers -> WantedType] /\ \A h \in Readers \ {g} : wanted'[h] = wanted[h]
    BY <1>3 DEF ReadTypeOK, WantedType
  <2>2. at' \in [Readers -> Places] /\ \A h \in Readers \ {g} : at'[h] = at[h]
    BY <1>3 DEF F!GoOn, ReadTypeOK, Places, F!Handling
  <2>3. todo' \in [Readers -> SUBSET Suffixes] /\ reply' \in [Readers -> AnswerType]
    BY <1>3 DEF ReadTypeOK
  <2> QED
    BY <1>1, <1>3, <2>1, <2>2, <2>3, TypesTogether
<1>4. ASSUME NEW listing \in SUBSET Suffixes, F!GoOn(g, "heads"),
             todo' = [todo EXCEPT ![g] = listing], UNCHANGED <<wanted, reply>>
      PROVE  ReadTypeOK' /\ \A h \in Readers \ {g} : Rests(h)
  <2>1. todo' \in [Readers -> SUBSET Suffixes] /\ \A h \in Readers \ {g} : todo'[h] = todo[h]
    BY <1>4 DEF ReadTypeOK
  <2>2. at' \in [Readers -> Places] /\ \A h \in Readers \ {g} : at'[h] = at[h]
    BY <1>4 DEF F!GoOn, ReadTypeOK, Places, F!Handling
  <2>3. wanted' \in [Readers -> WantedType] /\ reply' \in [Readers -> AnswerType]
    BY <1>4 DEF ReadTypeOK
  <2> QED
    BY <1>1, <1>4, <2>1, <2>2, <2>3, TypesTogether
<1>5. PICK listing \in SUBSET Suffixes :
        \/ /\ \E outcome \in {"notFound", "error", "panic"} : F!Respond(g, outcome, Absent, {})
           /\ UNCHANGED <<wanted, todo>>
        \/ /\ F!GoOn(g, "get") /\ UNCHANGED <<todo, reply>>
           /\ \E v \in Numbers(listing) : wanted' = [wanted EXCEPT ![g].suffix = v]
        \/ /\ F!GoOn(g, "heads") /\ todo' = [todo EXCEPT ![g] = listing]
           /\ UNCHANGED <<wanted, reply>>
  BY ListLastCases, ListingFacts
<1>6. Numbers(listing) \subseteq Suffixes
  BY DEF Numbers, Suffixes
<1> QED
  BY <1>2, <1>3, <1>4, <1>5, <1>6

(* So does a HEAD.                                                         *)
LEMMA HeadType ==
  ASSUME ReadTypeOK, NEW g \in Readers, F!Head(g), UNCHANGED <<bucket, stable, earlier, acked>>
  PROVE  ReadTypeOK' /\ \A h \in Readers \ {g} : Rests(h)
<1>1. PICK s \in todo[g] : \E shown \in SUBSET {s} :
        /\ bucket[Wants(g, s)] \in Docs => shown = {s}
        /\ todo' = [todo EXCEPT ![g] = @ \ {s}]
        /\ reply' = [reply EXCEPT ![g].versions = @ \cup shown]
  BY HeadCases
<1>a. PICK shown \in SUBSET {s} : reply' = [reply EXCEPT ![g].versions = @ \cup shown]
  BY <1>1
<1>2. UNCHANGED <<at, wanted, seen>>
  BY HeadCases
<1> DEFINE V == reply[g].versions \cup shown
<1>3. todo' \in [Readers -> SUBSET Suffixes] /\ V \in SUBSET Suffixes
      /\ \A h \in Readers \ {g} : todo'[h] = todo[h]
  BY <1>1, <1>a DEF ReadTypeOK, AnswerType
<1>4. reply' = [reply EXCEPT ![g].versions = V]
  BY <1>a
<1> HIDE DEF V
<1>5. reply' \in [Readers -> AnswerType] /\ \A h \in Readers \ {g} : reply'[h] = reply[h]
  BY <1>3, <1>4 DEF ReadTypeOK, AnswerType
<1>6. /\ at' \in [Readers -> Places] /\ wanted' \in [Readers -> WantedType]
      /\ seen' \in [Readers -> SUBSET Suffixes]
  BY <1>2 DEF ReadTypeOK
<1> QED
  BY <1>2, <1>3, <1>5, <1>6, TypesTogether

(* And every other step of a read.                                         *)
LEMMA HandleType ==
  ASSUME UploadInvariant, ReadTypeOK, NEW g \in Readers, Placed(g), ReadStep(g)
  PROVE  ReadTypeOK' /\ \A h \in Readers \ {g} : Rests(h)
<1>1. UNCHANGED <<stable, earlier, acked, bucket>>
  BY HandleFacts DEF vars
<1>2. CASE F!ListFirst(g)
  <2>1. /\ seen' = [seen EXCEPT ![g] = Listing(bucket, wanted[g].urn)]
        /\ at' = [at EXCEPT ![g] = "listing"] /\ UNCHANGED <<wanted, todo, reply>>
    BY <1>2, SameSuffixes DEF F!ListFirst, F!GoOn
  <2>2. seen' \in [Readers -> SUBSET Suffixes] /\ at' \in [Readers -> Places]
    BY <2>1 DEF ReadTypeOK, Listing, Places, F!Handling
  <2>3. /\ wanted' \in [Readers -> WantedType] /\ reply' \in [Readers -> AnswerType]
        /\ todo' \in [Readers -> SUBSET Suffixes]
    BY <2>1 DEF ReadTypeOK
  <2> QED
    BY <1>1, <2>1, <2>2, <2>3, TypesTogether
<1>3. ASSUME NEW outcome \in {"ok", "notFound", "error"}, NEW doc \in Docs \cup {Absent},
             NEW versions \in SUBSET Suffixes, F!Respond(g, outcome, doc, versions),
             UNCHANGED wanted,
             seen' \in [Readers -> SUBSET Suffixes], todo' \in [Readers -> SUBSET Suffixes],
             \A h \in Readers \ {g} : seen'[h] = seen[h] /\ todo'[h] = todo[h]
      PROVE  ReadTypeOK' /\ \A h \in Readers \ {g} : Rests(h)
  <2>1. outcome \in F!Outcomes
    BY DEF F!Outcomes
  <2>2. /\ at' \in [Readers -> Places] /\ reply' \in [Readers -> AnswerType]
        /\ \A h \in Readers \ {g} : at'[h] = at[h] /\ reply'[h] = reply[h]
    BY <1>3, <2>1, RespondFacts
  <2>3. wanted' \in [Readers -> WantedType]
    BY <1>3 DEF ReadTypeOK
  <2> QED
    BY <1>1, <1>3, <2>2, <2>3, TypesTogether
<1>4. seen \in [Readers -> SUBSET Suffixes] /\ todo \in [Readers -> SUBSET Suffixes]
  BY DEF ReadTypeOK
<1>5. CASE F!Get(g)
  <2> DEFINE doc == bucket[Wants(g, wanted[g].suffix)]
  <2>1. UNCHANGED <<wanted, seen, todo>> /\ at[g] = "get"
        /\ \/ F!Respond(g, "notFound", Absent, {})
           \/ F!Respond(g, "ok", doc, {wanted[g].suffix})
    BY <1>1, <1>5, GetCases
  <2>2. wanted[g].suffix \in Suffixes
    BY DEF ReadTypeOK, WantedType
  <2>3. wanted[g].urn \in Urns
    BY <2>1 DEF Placed
  <2>4. doc \in Docs \cup {Absent} /\ {wanted[g].suffix} \in SUBSET Suffixes
    BY <2>2, <2>3, WantedKeys DEF UploadInvariant, TypeOK
  <2> HIDE DEF doc
  <2> QED
    BY <1>3, <1>4, <2>1, <2>4
<1>6. CASE F!HeadsDone(g)
  <2>1. reply[g].versions \in SUBSET Suffixes
    BY DEF ReadTypeOK, AnswerType
  <2> QED
    BY <1>3, <1>4, <1>6, <2>1 DEF F!HeadsDone
<1>7. CASE F!ReadFails(g)
  <2>1. /\ F!Respond(g, "error", Absent, {}) /\ UNCHANGED wanted
        /\ seen' = [seen EXCEPT ![g] = {}] /\ todo' = [todo EXCEPT ![g] = {}]
    BY <1>7 DEF F!ReadFails
  <2>2. /\ seen' \in [Readers -> SUBSET Suffixes] /\ todo' \in [Readers -> SUBSET Suffixes]
        /\ \A h \in Readers \ {g} : seen'[h] = seen[h] /\ todo'[h] = todo[h]
    BY <1>4, <2>1
  <2> QED
    BY <1>3, <2>1, <2>2
<1> QED
  BY <1>1, <1>2, <1>5, <1>6, <1>7, ListLastType, HeadType, HandleFacts DEF Handles, F!Handle
-----------------------------------------------------------------------------
(* What a step of a read keeps whichever it is.                            *)
LEMMA HandleContext ==
  ASSUME UploadInvariant, ReadTypeOK, NEW g \in Readers, ReadInvariant(g), ReadStep(g)
  PROVE  /\ UNCHANGED <<bucket, pc, bom, answer, before, stable, earlier, acked>>
         /\ wanted'[g].kind = wanted[g].kind /\ wanted'[g].urn = wanted[g].urn
         /\ wanted[g].urn \in Urns /\ reply[g].outcome = "none" /\ at[g] # "idle"
         /\ Holds(g, stable[g]) /\ Holds(g, stable[g])' /\ Remembered(g)'
<1>1. /\ UNCHANGED <<bucket, pc, bom, answer, before, stable, earlier, acked>>
      /\ wanted'[g].kind = wanted[g].kind /\ wanted'[g].urn = wanted[g].urn
      /\ at[g] \notin {"idle", "done"}
  BY HandleFacts DEF vars, F!Handling
<1>2. /\ wanted[g].urn \in Urns /\ reply[g].outcome = "none"
      /\ Holds(g, stable[g]) /\ Remembered(g)
  BY <1>1 DEF ReadInvariant, Placed, StoredPassedOn
<1>3. Holds(g, stable[g])'
  BY <1>1, <1>2 DEF Holds, Wants
<1>4. \A h \in earlier[g] : /\ at'[h] = at[h] /\ wanted'[h] = wanted[h] /\ reply'[h] = reply[h]
                           /\ h # g /\ at[h] = "done" /\ reply[h].outcome # "none"
  <2>1. earlier[g] \subseteq Readers
    BY DEF ReadTypeOK
  <2> QED
    BY <1>1, <1>2, <2>1, HandleType DEF ReadInvariant, Remembered, Rests
<1>5. Remembered(g)'
  BY <1>1, <1>2, <1>4 DEF Remembered, OfSerial, Created
<1> QED
  BY <1>1, <1>2, <1>3, <1>5

(* A read that goes on, and has not answered.                              *)
LEMMA GoingOnKeeps ==
  ASSUME UploadInvariant, ReadTypeOK, NEW g \in Readers, ReadInvariant(g), ReadStep(g),
         reply'[g].outcome = "none", Placed(g)', StoredPassedOn(g)'
  PROVE  ReadInvariant(g)'
BY HandleContext DEF ReadInvariant, AnsweredRightly, ServedRightly

(* A read that answers.                                                    *)
LEMMA AnsweringKeeps ==
  ASSUME UploadInvariant, ReadTypeOK, NEW g \in Readers, ReadInvariant(g), ReadStep(g),
         at'[g] = "done", AnsweredRightly(g)', ServedRightly(g)'
  PROVE  ReadInvariant(g)'
<1>1. Placed(g)'
  BY HandleContext DEF Placed
<1>2. StoredPassedOn(g)'
  BY HandleContext DEF StoredPassedOn
<1> QED
  BY <1>1, <1>2, HandleContext DEF ReadInvariant

(* An error says nothing of what is stored.                                *)
LEMMA FailingKeeps ==
  ASSUME UploadInvariant, ReadTypeOK, NEW g \in Readers, ReadInvariant(g), ReadStep(g),
         F!Respond(g, "error", Absent, {})
  PROVE  ReadInvariant(g)'
<1>1. "error" \in F!Outcomes /\ Absent \in Docs \cup {Absent} /\ {} \in SUBSET Suffixes
  BY DEF F!Outcomes
<1>2. at'[g] = "done" /\ reply'[g] = [outcome |-> "error", doc |-> Absent, versions |-> {}]
  BY <1>1, RespondFacts
<1> QED
  BY <1>2, AnsweringKeeps DEF AnsweredRightly, ServedRightly

(* A read that finds nothing, or no number, had nothing to find.           *)
LEMMA RefusingKeeps ==
  ASSUME UploadInvariant, ReadTypeOK, NEW g \in Readers, ReadInvariant(g), ReadStep(g),
         NEW outcome \in {"notFound", "panic"}, F!Respond(g, outcome, Absent, {}),
         wanted' = wanted,
         \/ wanted[g].kind = "exact" /\ wanted[g].suffix \notin stable[g]
         \/ wanted[g].kind # "exact" /\ Numbers(stable[g]) = {}
  PROVE  ReadInvariant(g)'
<1>1. outcome \in F!Outcomes /\ Absent \in Docs \cup {Absent} /\ {} \in SUBSET Suffixes
  BY DEF F!Outcomes
<1>2. at'[g] = "done" /\ reply'[g] = [outcome |-> outcome, doc |-> Absent, versions |-> {}]
  BY <1>1, RespondFacts
<1>3. AnsweredRightly(g)' /\ ServedRightly(g)'
  BY <1>2, HandleContext DEF AnsweredRightly, ServedRightly
<1> QED
  BY <1>2, <1>3, AnsweringKeeps

(* The first page of a LIST has what was stored at the arrival.            *)
LEMMA ListFirstKeeps ==
  ASSUME UploadInvariant, ReadTypeOK, NEW g \in Readers, ReadInvariant(g), ReadStep(g),
         F!ListFirst(g)
  PROVE  ReadInvariant(g)'
<1>1. /\ at[g] = "list" /\ at'[g] = "listing" /\ UNCHANGED <<wanted, reply>>
      /\ seen'[g] = Listing(bucket, wanted[g].urn)
  BY SameSuffixes DEF F!ListFirst, F!GoOn, ReadTypeOK
<1>2. stable[g] \subseteq Suffixes
  BY DEF ReadTypeOK
<1>3. Holds(g, stable[g]) /\ Holds(g, stable[g])' /\ UNCHANGED <<bucket, stable>>
  BY HandleContext
<1>4. stable'[g] \subseteq seen'[g] /\ Holds(g, seen[g])'
  BY <1>1, <1>2, <1>3 DEF Listing, Holds, Wants
<1>5. Placed(g)'
  BY <1>1, HandleContext DEF ReadInvariant, Placed
<1>6. StoredPassedOn(g)'
  BY <1>1, <1>3, <1>4 DEF StoredPassedOn
<1> QED
  BY <1>1, <1>5, <1>6, HandleContext, GoingOnKeeps

(* And so has the whole LIST, of which nothing went away meanwhile.        *)
LEMMA WholeListing ==
  ASSUME UploadInvariant, ReadTypeOK, NEW g \in Readers, ReadInvariant(g), at[g] = "listing",
         NEW listing \in F!Listings(g)
  PROVE  /\ listing \subseteq Suffixes /\ stable[g] \subseteq listing
         /\ Holds(g, listing) /\ Numbers(stable[g]) \subseteq Numbers(listing)
<1>1. stable[g] \subseteq seen[g] /\ Holds(g, seen[g]) /\ Holds(g, stable[g])
  BY DEF ReadInvariant, StoredPassedOn
<1>2. stable[g] \subseteq Suffixes
  BY DEF ReadTypeOK
<1>3. stable[g] \subseteq Listing(bucket, wanted[g].urn)
  BY <1>1, <1>2 DEF Listing, Holds, Wants
<1>4. stable[g] \subseteq listing /\ listing \subseteq Suffixes
  BY <1>1, <1>3, ListingFacts
<1>5. Holds(g, listing)
  BY <1>1, ListingFacts DEF Listing, Holds, Wants
<1> QED
  BY <1>4, <1>5 DEF Numbers

LEMMA ListLastKeeps ==
  ASSUME UploadInvariant, ReadTypeOK, NEW g \in Readers, ReadInvariant(g), ReadStep(g),
         F!ListLast(g)
  PROVE  ReadInvariant(g)'
<1>1. at[g] = "listing" /\ wanted[g].kind \in {"latest", "versions"}
  BY ListLastCases DEF ReadInvariant, Placed
<1>2. PICK listing \in F!Listings(g) :
        \/ /\ listing = {} /\ F!Respond(g, "notFound", Absent, {})
           /\ UNCHANGED <<wanted, todo>>
        \/ F!Respond(g, "error", Absent, {}) /\ UNCHANGED <<wanted, todo>>
        \/ /\ wanted[g].kind = "latest" /\ Numbers(listing) = {}
           /\ F!Respond(g, "panic", Absent, {}) /\ UNCHANGED <<wanted, todo>>
        \/ /\ wanted[g].kind = "latest" /\ F!GoOn(g, "get") /\ UNCHANGED <<todo, reply>>
           /\ \E v \in Numbers(listing) :
                /\ \A w \in Numbers(listing) : w <= v
                /\ wanted' = [wanted EXCEPT ![g].suffix = v]
        \/ /\ wanted[g].kind = "versions" /\ F!GoOn(g, "heads")
           /\ todo' = [todo EXCEPT ![g] = listing] /\ UNCHANGED <<wanted, reply>>
  BY ListLastCases
<1>3. /\ listing \subseteq Suffixes /\ stable[g] \subseteq listing
      /\ Holds(g, listing) /\ Numbers(stable[g]) \subseteq Numbers(listing)
  BY <1>1, WholeListing
<1>4. CASE listing = {} /\ F!Respond(g, "notFound", Absent, {}) /\ wanted' = wanted
  <2>1. Numbers(stable[g]) = {}
    BY <1>3, <1>4 DEF Numbers
  <2> QED
    BY <1>1, <1>4, <2>1, RefusingKeeps
<1>5. CASE F!Respond(g, "error", Absent, {})
  BY <1>5, FailingKeeps
<1>6. CASE Numbers(listing) = {} /\ F!Respond(g, "panic", Absent, {}) /\ wanted' = wanted
  <2>1. Numbers(stable[g]) = {}
    BY <1>3, <1>6
  <2> QED
    BY <1>1, <1>6, <2>1, RefusingKeeps
<1>7. ASSUME wanted[g].kind = "latest", F!GoOn(g, "get"), reply' = reply,
             NEW v \in Numbers(listing), \A w \in Numbers(listing) : w <= v,
             wanted' = [wanted EXCEPT ![g].suffix = v]
      PROVE  ReadInvariant(g)'
  <2>1. at'[g] = "get" /\ wanted'[g].suffix = v /\ wanted'[g].kind = "latest"
    BY <1>7, HandleContext DEF F!GoOn, ReadTypeOK, WantedType
  <2>2. v \in Versions /\ bucket[Wants(g, v)] # Absent
    BY <1>3, <1>7 DEF Numbers, Holds
  <2>3. Placed(g)'
    BY <1>7, <2>1, HandleContext DEF Placed
  <2>4. \A w \in Numbers(stable[g]) : w <= v
    BY <1>3, <1>7
  <2>5. bucket'[Wants(g, v)'] # Absent
    BY <2>2, HandleContext DEF Wants
  <2>6. StoredPassedOn(g)'
    BY <2>1, <2>2, <2>4, <2>5, HandleContext DEF StoredPassedOn, Wants
  <2> QED
    BY <1>7, <2>3, <2>6, HandleContext, GoingOnKeeps
<1>8. CASE wanted[g].kind = "versions" /\ F!GoOn(g, "heads")
           /\ todo' = [todo EXCEPT ![g] = listing] /\ UNCHANGED <<wanted, reply>>
  <2>1. at'[g] = "heads" /\ todo'[g] = listing
    BY <1>8 DEF F!GoOn, ReadTypeOK
  <2>2. Placed(g)'
    BY <1>8, <2>1, HandleContext DEF Placed
  <2>3. StoredPassedOn(g)'
    BY <1>3, <2>1, HandleContext DEF StoredPassedOn
  <2> QED
    BY <1>8, <2>2, <2>3, HandleContext, GoingOnKeeps
<1> QED
  BY <1>2, <1>4, <1>5, <1>6, <1>7, <1>8

(* A GET of the latest version finds it; one of a version named by the     *)
(* client finds what was stored, and nothing written after an              *)
(* acknowledgement the read knows of.                                      *)
LEMMA GetKeeps ==
  ASSUME UploadInvariant, ReadTypeOK, NEW g \in Readers, ReadInvariant(g), ReadStep(g), F!Get(g)
  PROVE  ReadInvariant(g)'
<1> DEFINE doc == bucket[Wants(g, wanted[g].suffix)]
<1>1. /\ at[g] = "get" /\ wanted' = wanted
      /\ \/ doc = Absent /\ F!Respond(g, "notFound", Absent, {})
         \/ doc # Absent /\ F!Respond(g, "ok", doc, {wanted[g].suffix})
  BY HandleContext, GetCases
<1>2. wanted[g].kind \in {"latest", "exact"} /\ wanted[g].suffix \in Suffixes
  BY <1>1 DEF ReadInvariant, Placed, ReadTypeOK, WantedType
<1>3. Wants(g, wanted[g].suffix) \in Keys /\ doc \in Docs \cup {Absent}
  BY <1>2, HandleContext, WantedKeys DEF UploadInvariant, TypeOK
<1>4. wanted[g].kind = "latest" =>
        /\ wanted[g].suffix \in Versions /\ doc # Absent
        /\ \A w \in Numbers(stable[g]) : w <= wanted[g].suffix
  BY <1>1 DEF ReadInvariant, StoredPassedOn
<1>5. CASE doc = Absent /\ F!Respond(g, "notFound", Absent, {})
  <2>1. wanted[g].kind = "exact" /\ wanted[g].suffix \notin stable[g]
    BY <1>2, <1>4, <1>5, HandleContext DEF Holds
  <2> QED
    BY <1>1, <1>5, <2>1, RefusingKeeps
<1>6. ASSUME doc # Absent, F!Respond(g, "ok", doc, {wanted[g].suffix}) PROVE ReadInvariant(g)'
  <2>1. "ok" \in F!Outcomes /\ {wanted[g].suffix} \in SUBSET Suffixes
    BY <1>2 DEF F!Outcomes
  <2>2. /\ at'[g] = "done"
        /\ reply'[g] = [outcome |-> "ok", doc |-> doc, versions |-> {wanted[g].suffix}]
    <3> HIDE DEF doc
    <3> QED
      BY <1>3, <1>6, <2>1, RespondFacts
  <2>3. UNCHANGED <<bucket, bom, pc, before, stable, acked>>
    BY HandleContext
  <2>4. AnsweredRightly(g)'
    BY <1>1, <1>2, <1>4, <2>2, <2>3 DEF AnsweredRightly, Wants
  <2>5. ServedRightly(g)'
    <3> SUFFICES ASSUME wanted[g].kind = "exact", NEW r \in acked[g],
                        bom[r].serialNumber = wanted[g].urn,
                        wanted[g].suffix = bom[r].version, bom[r].version >= 1
                 PROVE  doc \in Requests /\ pc[doc] # "waiting" /\ r \notin before[doc]
      BY <1>1, <2>2, <2>3 DEF ServedRightly, OfSerial
    <3>1. r \in Requests /\ Created(r)
      BY HandleContext DEF ReadTypeOK, ReadInvariant, Remembered
    <3>2. doc = bucket[NumberedKey(r)]
      BY DEF Wants, NumberedKey
    <3>3. doc \in Requests /\ r \notin before[doc]
      BY <3>1, <3>2 DEF UploadInvariant, AckedNeverReplacedLater
    <3> QED
      BY <1>3, <3>3 DEF UploadInvariant, HoldersArrived
  <2> QED
    BY <2>2, <2>4, <2>5, AnsweringKeeps
<1> QED
  BY <1>1, <1>5, <1>6

(* A HEAD of what was stored at the arrival adds it to the answer.         *)
LEMMA HeadKeeps ==
  ASSUME UploadInvariant, ReadTypeOK, NEW g \in Readers, ReadInvariant(g), ReadStep(g), F!Head(g)
  PROVE  ReadInvariant(g)'
<1>1. at[g] = "heads" /\ UNCHANGED <<at, wanted, bucket, stable>>
  BY HandleContext, HeadCases
<1>2. PICK s \in todo[g] : \E shown \in SUBSET {s} :
        /\ bucket[Wants(g, s)] \in Docs => shown = {s}
        /\ todo' = [todo EXCEPT ![g] = @ \ {s}]
        /\ reply' = [reply EXCEPT ![g].versions = @ \cup shown]
  BY <1>1, HeadCases
<1>3. PICK shown \in SUBSET {s} :
        /\ bucket[Wants(g, s)] \in Docs => shown = {s}
        /\ todo' = [todo EXCEPT ![g] = @ \ {s}]
        /\ reply' = [reply EXCEPT ![g].versions = @ \cup shown]
  BY <1>2
<1>4. /\ todo'[g] = todo[g] \ {s}
      /\ reply'[g].versions = reply[g].versions \cup shown
      /\ reply'[g].outcome = reply[g].outcome
  BY <1>3 DEF ReadTypeOK, AnswerType
<1>5. stable[g] \subseteq todo[g] \cup reply[g].versions
  BY <1>1 DEF ReadInvariant, StoredPassedOn
<1>6. s \in stable[g] => s \in shown
  <2>1. s \in Suffixes
    BY DEF ReadTypeOK
  <2>2. bucket[Wants(g, s)] \in Docs \cup {Absent}
    BY <2>1, HandleContext, WantedKeys DEF UploadInvariant, TypeOK
  <2> QED
    BY <1>3, <2>2, HandleContext DEF Holds
<1>7. stable'[g] \subseteq todo'[g] \cup reply'[g].versions
  BY <1>1, <1>4, <1>5, <1>6
<1>8. Placed(g)'
  BY <1>1, <1>4 DEF ReadInvariant, Placed
<1>9. StoredPassedOn(g)'
  BY <1>1, <1>7, HandleContext DEF StoredPassedOn
<1> QED
  BY <1>4, <1>8, <1>9, HandleContext, GoingOnKeeps

(* The list of versions is complete once nothing is left to ask for.       *)
LEMMA HeadsDoneKeeps ==
  ASSUME UploadInvariant, ReadTypeOK, NEW g \in Readers, ReadInvariant(g), ReadStep(g),
         F!HeadsDone(g)
  PROVE  ReadInvariant(g)'
<1>1. /\ at[g] = "heads" /\ todo[g] = {} /\ wanted' = wanted
      /\ F!Respond(g, "ok", Absent, reply[g].versions)
  BY DEF F!HeadsDone
<1>2. /\ "ok" \in F!Outcomes /\ Absent \in Docs \cup {Absent}
      /\ reply[g].versions \in SUBSET Suffixes
  BY DEF F!Outcomes, ReadTypeOK, AnswerType
<1>3. /\ at'[g] = "done"
      /\ reply'[g] = [outcome |-> "ok", doc |-> Absent, versions |-> reply[g].versions]
  BY <1>1, <1>2, RespondFacts
<1>4. wanted[g].kind = "versions" /\ stable[g] \subseteq reply[g].versions
  BY <1>1 DEF ReadInvariant, Placed, StoredPassedOn
<1>5. AnsweredRightly(g)' /\ ServedRightly(g)'
  BY <1>1, <1>3, <1>4, HandleContext DEF AnsweredRightly, ServedRightly
<1> QED
  BY <1>3, <1>5, AnsweringKeeps

LEMMA HandleKeeps ==
  ASSUME UploadInvariant, ReadTypeOK, NEW g \in Readers, ReadInvariant(g), ReadStep(g)
  PROVE  ReadInvariant(g)'
<1>1. CASE F!ReadFails(g)
  BY <1>1, FailingKeeps DEF F!ReadFails
<1> QED
  BY <1>1, HandleFacts, ListFirstKeeps, ListLastKeeps, GetKeeps, HeadKeeps, HeadsDoneKeeps
     DEF Handles, F!Handle
-----------------------------------------------------------------------------
(* The invariant holds at first and is kept by every step.                 *)
LEMMA RepositoryInvariantInit == RepositoryInit => RepositoryInvariant
<1> SUFFICES ASSUME RepositoryInit PROVE RepositoryInvariant
  OBVIOUS
<1>1. UploadInvariant
  BY InvariantInit DEF RepositoryInit
<1>2. ReadTypeOK
  BY StoreAssumption
     DEF RepositoryInit, F!ReadersInit, F!NoReply, F!Kinds, F!Outcomes,
         ReadTypeOK, Places, WantedType, AnswerType, Suffixes, Versions, MinInt
<1>3. ASSUME NEW g \in Readers PROVE ReadInvariant(g)
  BY DEF RepositoryInit, F!ReadersInit, F!NoReply, ReadInvariant, Placed, StoredPassedOn,
         AnsweredRightly, Remembered, ServedRightly
<1> QED
  BY <1>1, <1>2, <1>3 DEF RepositoryInvariant

LEMMA RepositoryInvariantStep ==
  RepositoryInvariant /\ [RepositoryNext]_allVars => RepositoryInvariant'
<1> SUFFICES ASSUME RepositoryInvariant, [RepositoryNext]_allVars PROVE RepositoryInvariant'
  OBVIOUS
<1> USE DEF RepositoryInvariant
<1>1. CASE UNCHANGED allVars
  <2>1. UNCHANGED vars /\ UNCHANGED <<at, wanted, seen, todo, reply, stable, earlier, acked>>
    BY <1>1 DEF allVars, readVars
  <2>2. UploadInvariant'
    BY <2>1, InvariantStep
  <2>3. ReadTypeOK'
    BY <2>1 DEF ReadTypeOK, Places, WantedType, AnswerType
  <2>4. \A g \in Readers : ReadInvariant(g)'
    BY <2>1, RestingKeeps DEF Rests
  <2> QED
    BY <2>2, <2>3, <2>4
<1>2. ASSUME NEW r \in Requests, UploadStep(r) PROVE RepositoryInvariant'
  <2>1. UploadInvariant'
    BY <1>2, InvariantStep DEF UploadStep, Next
  <2>2. ReadTypeOK'
    BY <1>2 DEF UploadStep, readVars, ReadTypeOK, Places, WantedType, AnswerType
  <2>3. \A g \in Readers : ReadInvariant(g)'
    BY <1>2, UploadStepKeeps
  <2> QED
    BY <2>1, <2>2, <2>3
<1>3. ASSUME NEW g \in Readers, ReadArrives(g) \/ ReadStep(g) PROVE RepositoryInvariant'
  <2>1. UNCHANGED vars /\ at[g] # "done"
    BY <1>3, ArrivalFacts, HandleFacts DEF F!Handling
  <2>2. UploadInvariant'
    BY <2>1, InvariantStep
  <2>3. ReadTypeOK' /\ \A h \in Readers \ {g} : Rests(h)
    BY <1>3, ArrivalType, HandleType DEF ReadInvariant
  <2>4. ReadInvariant(g)'
    BY <1>3, ArrivalKeeps, HandleKeeps
  <2>5. \A h \in Readers \ {g} : ReadInvariant(h)'
    BY <2>1, <2>3, RestingKeeps
  <2> QED
    BY <2>2, <2>3, <2>4, <2>5
<1> QED
  BY <1>1, <1>2, <1>3 DEF RepositoryNext

(* What holds between the uploads of a bucket and the reads beside them,   *)
(* from which the three results below follow.                              *)
THEOREM RepositoryInvariantHolds == RepositorySpec => []RepositoryInvariant
BY RepositoryInvariantInit, RepositoryInvariantStep, PTL DEF RepositorySpec

(* Read your writes, for any number of uploads and reads: what was         *)
(* acknowledged before a read arrived is found by a GET of its version, is *)
(* in the version list, and is not above the latest version served.        *)
THEOREM ReadYourWrites == RepositorySpec => []AckedIsServed
<1>1. RepositoryInvariant => AckedIsServed
  <2> SUFFICES ASSUME RepositoryInvariant, NEW g \in Readers, NEW r \in Requests,
                      r \in acked[g], OfSerial(g, r), bom[r].version >= 1
               PROVE  CASE reply[g].outcome = "ok" /\ wanted[g].kind = "latest" ->
                             \E v \in reply[g].versions : bom[r].version <= v
                        [] reply[g].outcome = "ok" /\ wanted[g].kind = "versions" ->
                             bom[r].version \in reply[g].versions
                        [] reply[g].outcome \in {"notFound", "panic"} ->
                             wanted[g].kind = "exact" /\ wanted[g].suffix # bom[r].version
                        [] OTHER -> TRUE
    BY DEF AckedIsServed
  <2>1. ReadInvariant(g) /\ bom[r].version \in Versions
    BY DEF RepositoryInvariant, UploadInvariant, TypeOK
  <2>2. reply[g].outcome # "none" => at[g] # "idle"
    BY <2>1 DEF RepositoryInvariant, ReadInvariant, Placed
  <2>3. reply[g].outcome # "none" => bom[r].version \in Numbers(stable[g])
    BY <2>1, <2>2 DEF ReadInvariant, Remembered, Numbers
  <2>4. CASE reply[g].outcome = "ok"
    BY <2>1, <2>3, <2>4 DEF ReadInvariant, AnsweredRightly, Numbers
  <2>5. CASE reply[g].outcome \in {"notFound", "panic"}
    BY <2>1, <2>3, <2>5 DEF ReadInvariant, AnsweredRightly, Numbers
  <2> QED
    BY <2>4, <2>5
<1> QED
  BY <1>1, RepositoryInvariantHolds, PTL

(* A GET of an acknowledged version serves the acknowledged document or    *)
(* one that raced it, for any number of uploads and reads.                 *)
THEOREM NothingLaterIsServed == RepositorySpec => []ServedIsNotLater
<1>1. RepositoryInvariant => ServedIsNotLater
  BY DEF RepositoryInvariant, ReadInvariant, ServedRightly, ServedIsNotLater
<1> QED
  BY <1>1, RepositoryInvariantHolds, PTL

(* The latest version never goes backwards between two reads, one after    *)
(* the other, for any number of uploads beside them.                       *)
THEOREM LatestNeverGoesBack == RepositorySpec => []MonotonicLatest
<1>1. RepositoryInvariant => MonotonicLatest
  <2> SUFFICES ASSUME RepositoryInvariant, NEW g \in Readers, NEW h \in earlier[g],
                      wanted[g].kind = "latest", wanted[h].kind = "latest",
                      wanted[g].urn = wanted[h].urn, reply[h].outcome = "ok"
               PROVE  /\ reply[g].outcome # "notFound"
                      /\ reply[g].outcome = "ok" =>
                           \A v \in reply[h].versions, w \in reply[g].versions : v <= w
    BY DEF MonotonicLatest
  <2>1. ReadInvariant(g) /\ ReadInvariant(h) /\ h \in Readers
    BY DEF RepositoryInvariant, ReadTypeOK
  <2>2. reply[g].outcome # "none" => reply[h].versions \subseteq stable[g]
    BY <2>1 DEF ReadInvariant, Placed, Remembered
  <2>3. PICK v \in Versions : reply[h].versions = {v}
    BY <2>1 DEF ReadInvariant, AnsweredRightly
  <2>4. reply[g].outcome # "none" => v \in Numbers(stable[g])
    BY <2>2, <2>3 DEF Numbers
  <2> QED
    BY <2>1, <2>3, <2>4 DEF ReadInvariant, AnsweredRightly
<1> QED
  BY <1>1, RepositoryInvariantHolds, PTL
=============================================================================
