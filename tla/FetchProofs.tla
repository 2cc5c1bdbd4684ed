---------------------------- MODULE FetchProofs -----------------------------
(***************************************************************************)
(* Proofs about Fetch: what a read answers while an environment writes and *)
(* deletes, for any set of readers, documents and keys.                    *)
(***************************************************************************)
EXTENDS Fetch, TLAPS

(* What is counted as stable is stored, with statistics.                   *)
StableStored(g) ==
  \A s \in stable[g] : ShownInVersions(bucket[UploadKey(wanted[g].urn, s)])

(* Which kind of read may be where, and that it is not answered there.     *)
Placed(g) ==
  /\ at[g] # "done" => ~ Answered(g)
  /\ at[g] \in {"list", "listing"} => wanted[g].kind \in {"latest", "versions"}
  /\ at[g] = "get" => wanted[g].kind \in {"latest", "exact"}
  /\ at[g] = "heads" => wanted[g].kind = "versions"
  /\ at[g] # "idle" => wanted[g].urn \in Urns
  /\ wanted[g].suffix # Foreign

(* What is stable passes from the LIST to the answer.                      *)
StablePassedOn(g) ==
  /\ at[g] = "listing" => stable[g] \subseteq seen[g]
  /\ at[g] = "get" /\ wanted[g].kind = "latest"
       => \A w \in Numbers(stable[g]) : w <= wanted[g].suffix
  /\ at[g] = "heads" => stable[g] \subseteq todo[g] \cup reply[g].versions

(* LatestAboveStable and VersionsCoverStable for one read.                 *)
AnsweredRightly(g) ==
  reply[g].outcome = "ok" =>
    /\ wanted[g].kind = "latest" =>
         \A v \in reply[g].versions, w \in Numbers(stable[g]) : w <= v
    /\ wanted[g].kind = "versions" => stable[g] \subseteq reply[g].versions

ReadInvariant(g) ==
  StableStored(g) /\ Placed(g) /\ StablePassedOn(g) /\ AnsweredRightly(g)

FetchInvariant == FetchTypeOK /\ \A g \in Readers : ReadInvariant(g)

-----------------------------------------------------------------------------
WantedType == [kind : Kinds, urn : Urns \cup {Absent}, suffix : Suffixes]
ReplyType  == [outcome : Outcomes, doc : Docs \cup {Absent},
               versions : SUBSET (Suffixes \ {Foreign})]

(* The versions are suffixes, and so is "original"; none of them is foreign. *)
LEMMA SuffixFacts ==
  /\ Versions \subseteq Int /\ 0 \in Versions /\ Versions \subseteq Suffixes \ {Foreign}
  /\ Original \in Suffixes /\ ValidVersion \subseteq Suffixes
BY StoreAssumption DEF Versions, MinInt, Suffixes, ValidVersion

(* A read that no step is about.                                           *)
Rests(h) ==
  /\ at'[h] = at[h] /\ wanted'[h] = wanted[h] /\ seen'[h] = seen[h]
  /\ todo'[h] = todo[h] /\ reply'[h] = reply[h] /\ stable'[h] = stable[h]

(* Answering keeps the types.                                              *)
LEMMA RespondType ==
  ASSUME FetchTypeOK, NEW g \in Readers, NEW outcome \in Outcomes,
         NEW doc \in Docs \cup {Absent}, NEW versions \in SUBSET (Suffixes \ {Foreign}),
         Respond(g, outcome, doc, versions)
  PROVE  /\ at' \in [Readers -> Handling \cup {"idle", "done"}]
         /\ reply' \in [Readers -> ReplyType]
         /\ at'[g] = "done"
         /\ reply'[g] = [outcome |-> outcome, doc |-> doc, versions |-> versions]
         /\ \A h \in Readers \ {g} : at'[h] = at[h] /\ reply'[h] = reply[h]
BY DEF Respond, GoOn, FetchTypeOK, ReplyType

(* What a step of a reader does: to others nothing, and of itself it       *)
(* leaves the types intact.                                                *)
LEMMA ArrivalType ==
  ASSUME FetchTypeOK, NEW g \in Readers, Arrival(g), UNCHANGED bucket
  PROVE  FetchTypeOK' /\ \A h \in Readers \ {g} : Rests(h)
<1>1. PICK kind \in Kinds, urn \in Urns, suffix \in Suffixes : Request(g, kind, urn, suffix)
  BY SuffixFacts DEF Arrival, Kinds
<1>2. wanted' \in [Readers -> WantedType] /\ at' \in [Readers -> Handling \cup {"idle", "done"}]
  BY <1>1 DEF Request, GoOn, FetchTypeOK, WantedType, Handling
<1>3. stable' \in [Readers -> SUBSET Suffixes] /\ earlier' \in [Readers -> SUBSET Readers]
  BY <1>1 DEF Request, FetchTypeOK
<1>4. FetchTypeOK'
  BY <1>1, <1>2, <1>3 DEF Request, FetchTypeOK, WantedType
<1> QED
  BY <1>1, <1>4 DEF Request, GoOn, Rests, FetchTypeOK

(* The listing a read goes on with has suffixes only.                      *)
LEMMA ListingsType ==
  ASSUME FetchTypeOK, NEW g \in Readers, NEW listing \in Listings(g)
  PROVE  listing \subseteq Suffixes /\ (stable[g] \subseteq seen[g] /\
           stable[g] \subseteq Listing(bucket, wanted[g].urn) => stable[g] \subseteq listing)
BY DEF Listings, Listing, FetchTypeOK

LEMMA ListLastType ==
  ASSUME FetchTypeOK, NEW g \in Readers, ListLast(g), UNCHANGED bucket
  PROVE  FetchTypeOK' /\ \A h \in Readers \ {g} : Rests(h)
<1>1. /\ seen' \in [Readers -> SUBSET Suffixes] /\ UNCHANGED <<stable, earlier, bucket>>
      /\ \A h \in Readers \ {g} : seen'[h] = seen[h]
  BY DEF ListLast, FetchTypeOK
<1>2. PICK listing \in Listings(g) :
        \/ /\ \E outcome \in {"notFound", "error"} : Respond(g, outcome, Absent, {})
           /\ UNCHANGED <<wanted, todo>>
        \/ SelectLatest(g, listing) /\ UNCHANGED todo
        \/ /\ GoOn(g, "heads") /\ Foreign \notin listing
           /\ todo' = [todo EXCEPT ![g] = listing] /\ UNCHANGED <<wanted, reply>>
  BY DEF ListLast, ListingInvalid
<1>3. listing \subseteq Suffixes
  BY ListingsType
<1>4. ASSUME NEW outcome \in {"notFound", "error", "panic"}, Respond(g, outcome, Absent, {}),
             UNCHANGED <<wanted, todo>>
      PROVE  FetchTypeOK' /\ \A h \in Readers \ {g} : Rests(h)
  <2>1. outcome \in Outcomes
    BY DEF Outcomes
  <2> QED
    BY <1>1, <1>4, <2>1, RespondType DEF FetchTypeOK, ReplyType, Rests
<1>5. CASE SelectLatest(g, listing) /\ UNCHANGED todo
  <2>1. CASE Respond(g, "panic", Absent, {}) /\ UNCHANGED wanted
    BY <1>4, <1>5, <2>1
  <2>2. CASE \E v \in Numbers(listing) :
               wanted' = [wanted EXCEPT ![g].suffix = v] /\ GoOn(g, "get") /\ UNCHANGED reply
    <3>1. PICK v \in Suffixes :
            wanted' = [wanted EXCEPT ![g].suffix = v] /\ GoOn(g, "get") /\ UNCHANGED reply
      BY <2>2 DEF Numbers, Suffixes
    <3>2. wanted' \in [Readers -> WantedType]
          /\ at' \in [Readers -> Handling \cup {"idle", "done"}]
      BY <3>1 DEF GoOn, FetchTypeOK, WantedType, Handling
    <3> QED
      BY <1>1, <1>5, <3>1, <3>2 DEF FetchTypeOK, WantedType, Rests, GoOn
  <2> QED
    BY <1>5, <2>1, <2>2 DEF SelectLatest
<1>6. CASE /\ GoOn(g, "heads") /\ Foreign \notin listing
           /\ todo' = [todo EXCEPT ![g] = listing] /\ UNCHANGED <<wanted, reply>>
  <2>1. at' \in [Readers -> Handling \cup {"idle", "done"}]
        /\ todo' \in [Readers -> SUBSET (Suffixes \ {Foreign})]
    BY <1>3, <1>6 DEF GoOn, FetchTypeOK, Handling
  <2> QED
    BY <1>1, <1>6, <2>1 DEF FetchTypeOK, Rests, GoOn
<1> QED
  BY <1>2, <1>4, <1>5, <1>6
(* One HEAD: the call fails, or it goes on with one suffix less.           *)
LEMMA HeadCases ==
  ASSUME FetchTypeOK, NEW g \in Readers, Head(g)
  PROVE  /\ at[g] = "heads"
         /\ UNCHANGED <<wanted, seen, stable, earlier>>
         /\ \E s \in todo[g] :
              \/ /\ Respond(g, "error", Absent, {})
                 /\ todo' = [todo EXCEPT ![g] = {}]
              \/ /\ bucket[UploadKey(wanted[g].urn, s)] \notin BadStats
                 /\ todo' = [todo EXCEPT ![g] = @ \ {s}]
                 /\ reply' = [reply EXCEPT ![g].versions = @ \cup
                       {x \in {s} : ShownInVersions(bucket[UploadKey(wanted[g].urn, s)])}]
                 /\ UNCHANGED at
BY DEF Head, AfterHead

LEMMA HeadType ==
  ASSUME FetchTypeOK, NEW g \in Readers, Head(g), UNCHANGED bucket
  PROVE  FetchTypeOK' /\ \A h \in Readers \ {g} : Rests(h)
<1>1. UNCHANGED <<wanted, seen, stable, earlier>>
  BY HeadCases
<1>2. CASE Respond(g, "error", Absent, {}) /\ todo' = [todo EXCEPT ![g] = {}]
  <2>1. "error" \in Outcomes
    BY DEF Outcomes
  <2> QED
    BY <1>1, <1>2, <2>1, RespondType DEF FetchTypeOK, ReplyType, Rests
<1>3. ASSUME NEW s \in todo[g], NEW shown \in SUBSET {s},
             todo' = [todo EXCEPT ![g] = @ \ {s}],
             reply' = [reply EXCEPT ![g].versions = @ \cup shown], UNCHANGED at
      PROVE  FetchTypeOK' /\ \A h \in Readers \ {g} : Rests(h)
  <2>1. todo' \in [Readers -> SUBSET (Suffixes \ {Foreign})] /\ s \in Suffixes \ {Foreign}
    BY <1>3 DEF FetchTypeOK
  <2> DEFINE V == reply[g].versions \cup shown
  <2>2. V \in SUBSET (Suffixes \ {Foreign}) /\ reply \in [Readers -> ReplyType]
    BY <1>3, <2>1 DEF FetchTypeOK, ReplyType
  <2>3. reply' = [reply EXCEPT ![g].versions = V]
    BY <1>3
  <2> HIDE DEF V
  <2>4. reply' \in [Readers -> ReplyType] /\ \A h \in Readers \ {g} : reply'[h] = reply[h]
    BY <2>2, <2>3 DEF ReplyType
  <2>5. \A h \in Readers \ {g} : todo'[h] = todo[h]
    BY <1>3 DEF FetchTypeOK
  <2>6. FetchTypeOK'
    BY <1>1, <1>3, <2>1, <2>4 DEF FetchTypeOK, ReplyType
  <2> QED
    BY <1>1, <1>3, <2>4, <2>5, <2>6 DEF Rests
<1>4. PICK s \in todo[g] :
        \/ Respond(g, "error", Absent, {}) /\ todo' = [todo EXCEPT ![g] = {}]
        \/ /\ todo' = [todo EXCEPT ![g] = @ \ {s}] /\ UNCHANGED at
           /\ \E shown \in SUBSET {s} : reply' = [reply EXCEPT ![g].versions = @ \cup shown]
  BY HeadCases
<1> QED
  BY <1>2, <1>3, <1>4

(* A GET answers with the suffix that was asked for.                       *)
LEMMA GetType ==
  ASSUME FetchTypeOK, NEW g \in Readers, Placed(g), Get(g), UNCHANGED bucket
  PROVE  FetchTypeOK' /\ \A h \in Readers \ {g} : Rests(h)
<1>1. UploadKey(wanted[g].urn, wanted[g].suffix) \in Keys
  BY DEF Get, Placed, FetchTypeOK, UploadKey, Keys
<1>2. PICK outcome \in Outcomes, doc \in Docs \cup {Absent},
           versions \in SUBSET (Suffixes \ {Foreign}) : Respond(g, outcome, doc, versions)
  <2> DEFINE doc == bucket[UploadKey(wanted[g].urn, wanted[g].suffix)]
  <2>1. doc \in Docs \cup {Absent} /\ {wanted[g].suffix} \in SUBSET (Suffixes \ {Foreign})
    BY <1>1 DEF FetchTypeOK, Placed
  <2>2. {} \in SUBSET (Suffixes \ {Foreign})
    OBVIOUS
  <2>3. \/ Respond(g, "notFound", Absent, {}) \/ Respond(g, "error", Absent, {})
        \/ Respond(g, "ok", doc, {wanted[g].suffix})
    BY DEF Get
  <2> HIDE DEF doc
  <2> QED
    BY <2>1, <2>2, <2>3 DEF Outcomes
<1> QED
  BY <1>2, RespondType DEF Get, FetchTypeOK, ReplyType, Rests

(* The other steps of a reader.                                            *)
LEMMA OtherTypes ==
  ASSUME FetchTypeOK, NEW g \in Readers, UNCHANGED bucket,
         ListFirst(g) \/ HeadsDone(g) \/ ReadFails(g)
  PROVE  FetchTypeOK' /\ \A h \in Readers \ {g} : Rests(h)
<1>1. CASE ListFirst(g)
  BY <1>1 DEF ListFirst, GoOn, Listing, Handling, FetchTypeOK, Rests
<1>2. CASE HeadsDone(g)
  <2>1. reply[g].versions \in SUBSET (Suffixes \ {Foreign}) /\ "ok" \in Outcomes
    BY DEF FetchTypeOK, Outcomes
  <2> QED
    BY <1>2, <2>1, RespondType DEF HeadsDone, FetchTypeOK, ReplyType, Rests
<1>3. CASE ReadFails(g)
  <2>1. "error" \in Outcomes
    BY DEF Outcomes
  <2> QED
    BY <1>3, <2>1, RespondType DEF ReadFails, FetchTypeOK, ReplyType, Rests
<1> QED
  BY <1>1, <1>2, <1>3

(* All of them together.                                                   *)
LEMMA ReaderType ==
  ASSUME FetchTypeOK, NEW g \in Readers, Placed(g), ReaderStep(g), UNCHANGED bucket
  PROVE  FetchTypeOK' /\ \A h \in Readers \ {g} : Rests(h)
BY ArrivalType, ListLastType, HeadType, GetType, OtherTypes DEF ReaderStep, Handle
-----------------------------------------------------------------------------
(* An arriving read is placed, and stable is what is stored just then.     *)
LEMMA ArrivalKeeps ==
  ASSUME FetchTypeOK, NEW g \in Readers, ReadInvariant(g), Arrival(g), UNCHANGED bucket
  PROVE  ReadInvariant(g)'
<1>1. PICK kind \in Kinds, urn \in Urns, suffix \in Suffixes \ {Foreign} :
        Request(g, kind, urn, suffix)
  BY SuffixFacts, StoreAssumption DEF Arrival, Kinds, ValidVersion
<1>2. /\ wanted'[g] = [kind |-> kind, urn |-> urn, suffix |-> suffix]
      /\ stable'[g] = {s \in Suffixes : ShownInVersions(bucket[UploadKey(urn, s)])}
      /\ at'[g] = IF kind = "exact" THEN "get" ELSE "list"
      /\ reply'[g] = reply[g] /\ at[g] = "idle"
  BY <1>1 DEF Request, GoOn, FetchTypeOK
<1>3. reply'[g].outcome = "none"
  BY <1>2 DEF ReadInvariant, Placed, Answered
<1>4. StableStored(g)'
  BY <1>2 DEF StableStored, ShownInVersions
<1>5. Placed(g)'
  BY <1>2, <1>3 DEF Placed, Answered, Kinds
<1> QED
  BY <1>2, <1>3, <1>4, <1>5 DEF ReadInvariant, StablePassedOn, AnsweredRightly

(* Past its arrival a read keeps its kind, its serial number and what is   *)
(* stable of it, unless the environment acts.                              *)
LEMMA ReadKept ==
  ASSUME FetchTypeOK, NEW g \in Readers, Handle(g) \/ ReadFails(g)
  PROVE  /\ wanted'[g].kind = wanted[g].kind /\ wanted'[g].urn = wanted[g].urn
         /\ stable'[g] = stable[g]
         /\ at[g] \in Handling
<1>1. CASE ListFirst(g) \/ Get(g) \/ Head(g) \/ HeadsDone(g) \/ ReadFails(g)
  BY <1>1 DEF ListFirst, Get, Head, HeadsDone, ReadFails, Handling
<1>2. CASE ListLast(g)
  BY <1>2 DEF ListLast, SelectLatest, FetchTypeOK, Handling
<1> QED
  BY <1>1, <1>2 DEF Handle

(* So what is stable stays stored.                                         *)
LEMMA StoredKept ==
  ASSUME FetchTypeOK, NEW g \in Readers, ReadInvariant(g),
         Handle(g) \/ ReadFails(g), UNCHANGED bucket
  PROVE  StableStored(g)'
BY ReadKept DEF ReadInvariant, StableStored, ShownInVersions

(* An answer that is not "ok" says nothing about versions.                 *)
LEMMA BadAnswerKeeps ==
  ASSUME FetchTypeOK, NEW g \in Readers, ReadInvariant(g), Handle(g) \/ ReadFails(g),
         NEW outcome \in {"notFound", "error", "panic"}, Respond(g, outcome, Absent, {}),
         wanted'[g].suffix = wanted[g].suffix, UNCHANGED bucket
  PROVE  ReadInvariant(g)'
<1>1. at'[g] = "done" /\ reply'[g].outcome = outcome
  BY DEF Respond, GoOn, FetchTypeOK
<1>2. Placed(g)'
  BY <1>1, ReadKept DEF ReadInvariant, Placed, Handling
<1> QED
  BY <1>1, <1>2, StoredKept DEF ReadInvariant, StablePassedOn, AnsweredRightly

(* The first page of the LIST shows what is stable.                        *)
LEMMA ListFirstKeeps ==
  ASSUME FetchTypeOK, NEW g \in Readers, ReadInvariant(g), ListFirst(g), UNCHANGED bucket
  PROVE  ReadInvariant(g)'
<1>1. at'[g] = "listing" /\ seen'[g] = Listing(bucket, wanted[g].urn) /\ at[g] = "list"
      /\ UNCHANGED <<wanted, reply, stable>>
  BY DEF ListFirst, GoOn, FetchTypeOK
<1>2. stable[g] \subseteq Listing(bucket, wanted[g].urn)
  BY FetchAssumption DEF ReadInvariant, StableStored, ShownInVersions, Listing, FetchTypeOK
<1>3. Placed(g)'
  BY <1>1 DEF ReadInvariant, Placed, Answered
<1>4. StableStored(g)'
  BY StoredKept DEF Handle
<1> QED
  BY <1>1, <1>2, <1>3, <1>4 DEF ReadInvariant, StablePassedOn, AnsweredRightly

(* The last page, too: the version selected is not below a stable one, and *)
(* all of them are asked for.                                              *)
LEMMA ListLastKeeps ==
  ASSUME FetchTypeOK, NEW g \in Readers, ReadInvariant(g), ListLast(g), UNCHANGED bucket
  PROVE  ReadInvariant(g)'
<1> USE DEF ReadInvariant
<1>1. at[g] = "listing" /\ UNCHANGED stable /\ StableStored(g)' /\ ~ Answered(g)
  BY StoredKept DEF ListLast, Handle, Placed
<1>2. PICK listing \in Listings(g) :
        \/ /\ \E outcome \in {"notFound", "error"} : Respond(g, outcome, Absent, {})
           /\ UNCHANGED wanted
        \/ wanted[g].kind = "latest" /\ SelectLatest(g, listing)
        \/ /\ wanted[g].kind = "versions" /\ GoOn(g, "heads")
           /\ todo' = [todo EXCEPT ![g] = listing] /\ UNCHANGED <<wanted, reply>>
  BY DEF ListLast
<1>3. stable[g] \subseteq listing
  <2>1. stable[g] \subseteq Listing(bucket, wanted[g].urn)
    BY FetchAssumption DEF StableStored, ShownInVersions, Listing, FetchTypeOK
  <2> QED
    BY <1>1, <2>1, ListingsType DEF StablePassedOn
<1>4. ASSUME NEW outcome \in {"notFound", "error", "panic"}, Respond(g, outcome, Absent, {}),
             UNCHANGED wanted
      PROVE  ReadInvariant(g)'
  BY <1>4, BadAnswerKeeps DEF Handle
<1>5. ASSUME wanted[g].kind = "latest", NEW v \in Numbers(listing),
             IsLast(v, Numbers(listing)), wanted' = [wanted EXCEPT ![g].suffix = v],
             GoOn(g, "get"), UNCHANGED reply
      PROVE  ReadInvariant(g)'
  <2>1. /\ at'[g] = "get" /\ wanted'[g].suffix = v /\ wanted'[g].kind = wanted[g].kind
        /\ wanted'[g].urn = wanted[g].urn
    BY <1>5 DEF GoOn, FetchTypeOK
  <2>2. \A w \in Numbers(stable[g]) : w <= v
    BY <1>3, <1>5 DEF IsLast, Numbers
  <2>3. Placed(g)'
    BY <1>1, <1>5, <2>1, SuffixFacts DEF Placed, Answered, Numbers
  <2> QED
    BY <1>1, <1>5, <2>1, <2>2, <2>3 DEF StablePassedOn, AnsweredRightly, Answered
<1>6. ASSUME wanted[g].kind = "versions", GoOn(g, "heads"),
             todo' = [todo EXCEPT ![g] = listing], UNCHANGED <<wanted, reply>>
      PROVE  ReadInvariant(g)'
  <2>1. at'[g] = "heads" /\ todo'[g] = listing
    BY <1>6 DEF GoOn, FetchTypeOK
  <2>2. Placed(g)'
    BY <1>1, <1>6, <2>1 DEF Placed, Answered
  <2> QED
    BY <1>1, <1>3, <1>6, <2>1, <2>2 DEF StablePassedOn, AnsweredRightly, Answered
<1> QED
  BY <1>2, <1>4, <1>5, <1>6 DEF SelectLatest
(* A document is served under the suffix that was asked for.               *)
LEMMA GetKeeps ==
  ASSUME FetchTypeOK, NEW g \in Readers, ReadInvariant(g), Get(g), UNCHANGED bucket
  PROVE  ReadInvariant(g)'
<1> USE DEF ReadInvariant
<1>1. at[g] = "get" /\ UNCHANGED <<wanted, stable>> /\ StableStored(g)'
  BY StoredKept DEF Get, Handle
<1>2. CASE \E outcome \in {"notFound", "error"} : Respond(g, outcome, Absent, {})
  BY <1>1, <1>2, BadAnswerKeeps DEF Handle
<1>3. CASE \E doc : Respond(g, "ok", doc, {wanted[g].suffix})
  <2>1. at'[g] = "done" /\ reply'[g].versions = {wanted[g].suffix}
    BY <1>3 DEF Respond, GoOn, FetchTypeOK
  <2>2. Placed(g)'
    BY <1>1, <2>1 DEF Placed
  <2>3. AnsweredRightly(g)'
    BY <1>1, <2>1 DEF Placed, StablePassedOn, AnsweredRightly
  <2> QED
    BY <1>1, <2>1, <2>2, <2>3 DEF StablePassedOn
<1>4. \/ \E outcome \in {"notFound", "error"} : Respond(g, outcome, Absent, {})
      \/ \E doc : Respond(g, "ok", doc, {wanted[g].suffix})
  <2> DEFINE doc == bucket[UploadKey(wanted[g].urn, wanted[g].suffix)]
  <2>1. \/ Respond(g, "notFound", Absent, {}) \/ Respond(g, "error", Absent, {})
        \/ Respond(g, "ok", doc, {wanted[g].suffix})
    BY DEF Get
  <2> HIDE DEF doc
  <2> QED
    BY <2>1
<1> QED
  BY <1>2, <1>3, <1>4

(* A HEAD moves a stable suffix from what is to be asked to the answer.    *)
LEMMA HeadKeeps ==
  ASSUME FetchTypeOK, NEW g \in Readers, ReadInvariant(g), Head(g), UNCHANGED bucket
  PROVE  ReadInvariant(g)'
<1> USE DEF ReadInvariant
<1>1. at[g] = "heads" /\ UNCHANGED <<wanted, stable>> /\ StableStored(g)' /\ ~ Answered(g)
  BY HeadCases, StoredKept DEF Handle, Placed
<1>2. CASE Respond(g, "error", Absent, {})
  BY <1>1, <1>2, BadAnswerKeeps DEF Handle
<1>3. ASSUME NEW s \in todo[g], todo' = [todo EXCEPT ![g] = @ \ {s}],
             reply' = [reply EXCEPT ![g].versions = @ \cup
                   {x \in {s} : ShownInVersions(bucket[UploadKey(wanted[g].urn, s)])}],
             UNCHANGED at
      PROVE  ReadInvariant(g)'
  <2> DEFINE shown == {x \in {s} : ShownInVersions(bucket[UploadKey(wanted[g].urn, s)])}
  <2>1. todo'[g] = todo[g] \ {s}
    BY <1>3 DEF FetchTypeOK
  <2>2. reply'[g].versions = reply[g].versions \cup shown /\ reply'[g].outcome = reply[g].outcome
    BY <1>3 DEF FetchTypeOK
  <2>3. s \in stable[g] => s \in shown
    BY DEF StableStored
  <2> HIDE DEF shown
  <2>4. stable[g] \subseteq todo'[g] \cup reply'[g].versions
    BY <1>1, <2>1, <2>2, <2>3 DEF StablePassedOn
  <2>5. Placed(g)' /\ AnsweredRightly(g)'
    BY <1>1, <1>3, <2>2 DEF Placed, Answered, AnsweredRightly
  <2> QED
    BY <1>1, <1>3, <2>4, <2>5 DEF StablePassedOn
<1> QED
  BY <1>2, <1>3, HeadCases

(* The list of versions is answered when nothing is left to ask for.       *)
LEMMA HeadsDoneKeeps ==
  ASSUME FetchTypeOK, NEW g \in Readers, ReadInvariant(g), HeadsDone(g), UNCHANGED bucket
  PROVE  ReadInvariant(g)'
<1> USE DEF ReadInvariant
<1>1. at[g] = "heads" /\ todo[g] = {} /\ UNCHANGED <<wanted, stable>> /\ StableStored(g)'
  BY StoredKept DEF HeadsDone, Handle
<1>2. at'[g] = "done" /\ reply'[g].versions = reply[g].versions
  BY DEF HeadsDone, Respond, GoOn, FetchTypeOK
<1>3. Placed(g)'
  BY <1>1, <1>2 DEF Placed
<1> QED
  BY <1>1, <1>2, <1>3 DEF Placed, StablePassedOn, AnsweredRightly

(* Every step of a reader keeps what is known of it.                       *)
LEMMA ReaderKeeps ==
  ASSUME FetchTypeOK, NEW g \in Readers, ReadInvariant(g), ReaderStep(g), UNCHANGED bucket
  PROVE  ReadInvariant(g)'
<1>1. CASE ReadFails(g)
  BY <1>1, BadAnswerKeeps DEF ReadFails
<1> QED
  BY <1>1, ArrivalKeeps, ListFirstKeeps, ListLastKeeps, GetKeeps, HeadKeeps, HeadsDoneKeeps
     DEF ReaderStep, Handle

(* A resting read is not affected by another's step.                       *)
LEMMA RestingKeeps ==
  ASSUME NEW h \in Readers, ReadInvariant(h), Rests(h), UNCHANGED bucket
  PROVE  ReadInvariant(h)'
BY DEF Rests, ReadInvariant, StableStored, ShownInVersions, Placed, Answered,
   StablePassedOn, AnsweredRightly

(* The environment: what it overwrites or deletes is no longer stable.     *)
LEMMA EnvironmentKeeps ==
  ASSUME FetchInvariant, Environment
  PROVE  FetchInvariant'
<1> USE DEF FetchInvariant
<1>1. PICK key \in Keys, doc \in Docs \cup {Absent} :
        /\ bucket' = [bucket EXCEPT ![key] = doc]
        /\ IF ShownInVersions(doc) THEN UNCHANGED stable ELSE Disturb(key)
        /\ UNCHANGED <<at, wanted, seen, todo, reply, earlier>>
  BY FetchAssumption DEF Environment, PutObject, DeleteObject, ShownInVersions
<1>2. bucket' \in [Keys -> Docs \cup {Absent}]
  BY <1>1 DEF FetchTypeOK
<1>3. /\ stable' \in [Readers -> SUBSET Suffixes]
      /\ \A g \in Readers : stable'[g] \subseteq stable[g]
  <2>1. CASE UNCHANGED stable
    BY <2>1 DEF FetchTypeOK
  <2>2. CASE Disturb(key)
    BY <2>2 DEF Disturb, FetchTypeOK
  <2> QED
    BY <1>1, <2>1, <2>2
<1>4. FetchTypeOK'
  BY <1>1, <1>2, <1>3 DEF FetchTypeOK
<1>5. ASSUME NEW g \in Readers, NEW s \in stable'[g]
      PROVE  ShownInVersions(bucket[UploadKey(wanted[g].urn, s)])'
  <2> DEFINE k == UploadKey(wanted[g].urn, s)
  <2>1. ShownInVersions(bucket[k])
    BY <1>3, <1>5 DEF ReadInvariant, StableStored
  <2>2. CASE k = key
    <3>1. ShownInVersions(doc)
      BY <1>1, <1>5, <2>2 DEF Disturb, UploadKey
    <3> QED
      BY <1>1, <2>2, <3>1 DEF FetchTypeOK, ShownInVersions
  <2>3. CASE k # key
    <3>1. bucket'[k] = bucket[k]
      BY <1>1, <2>3 DEF FetchTypeOK
    <3> QED
      BY <1>1, <2>1, <3>1 DEF ShownInVersions
  <2> QED
    BY <2>2, <2>3
<1>6. ASSUME NEW g \in Readers PROVE ReadInvariant(g)'
  <2>1. StableStored(g)'
    BY <1>5 DEF StableStored
  <2>2. Placed(g)'
    BY <1>1 DEF ReadInvariant, Placed, Answered
  <2>3. StablePassedOn(g)' /\ AnsweredRightly(g)'
    BY <1>1, <1>3 DEF ReadInvariant, StablePassedOn, AnsweredRightly, Numbers
  <2> QED
    BY <2>1, <2>2, <2>3 DEF ReadInvariant
<1> QED
  BY <1>4, <1>6

-----------------------------------------------------------------------------
(* The invariant holds at first.                                           *)
LEMMA FetchInvariantInit == FetchInit => FetchInvariant
<1> SUFFICES ASSUME FetchInit PROVE FetchInvariant
  OBVIOUS
<1>1. FetchTypeOK
  BY SuffixFacts DEF FetchInit, ReadersInit, FetchTypeOK, NoReply, Kinds, Outcomes
<1>2. ASSUME NEW g \in Readers PROVE ReadInvariant(g)
  BY SuffixFacts
     DEF FetchInit, ReadersInit, NoReply, ReadInvariant, StableStored, Placed, Answered,
         StablePassedOn, AnsweredRightly
<1> QED
  BY <1>1, <1>2 DEF FetchInvariant

(* Every step of a reader and of the environment keeps it.                 *)
LEMMA FetchInvariantStep == FetchInvariant /\ [FetchNext]_fetchVars => FetchInvariant'
<1> SUFFICES ASSUME FetchInvariant, [FetchNext]_fetchVars PROVE FetchInvariant'
  OBVIOUS
<1>1. CASE UNCHANGED fetchVars
  <2>1. FetchTypeOK'
    BY <1>1 DEF fetchVars, readerVars, FetchInvariant, FetchTypeOK
  <2>2. \A g \in Readers : ReadInvariant(g)'
    BY <1>1, RestingKeeps DEF fetchVars, readerVars, FetchInvariant, Rests
  <2> QED
    BY <2>1, <2>2 DEF FetchInvariant
<1>2. CASE Environment
  BY <1>2, EnvironmentKeeps
<1>3. ASSUME NEW g \in Readers, ReaderStep(g), UNCHANGED bucket PROVE FetchInvariant'
  <2>1. FetchTypeOK' /\ \A h \in Readers \ {g} : Rests(h)
    BY <1>3, ReaderType DEF FetchInvariant, ReadInvariant
  <2>2. \A h \in Readers : ReadInvariant(h)'
    BY <1>3, <2>1, ReaderKeeps, RestingKeeps DEF FetchInvariant
  <2> QED
    BY <2>1, <2>2 DEF FetchInvariant
<1> QED
  BY <1>1, <1>2, <1>3 DEF FetchNext

(* The invariant holds of every read, whatever the environment does.       *)
THEOREM FetchInvariantHolds == FetchSpec => []FetchInvariant
BY FetchInvariantInit, FetchInvariantStep, PTL DEF FetchSpec

(* A foreign key never gets beyond the LIST.                               *)
THEOREM FetchTypeCorrect == FetchSpec => []FetchTypeOK
<1>1. FetchInvariant => FetchTypeOK
  BY DEF FetchInvariant
<1> QED
  BY <1>1, FetchInvariantHolds, PTL

(* The latest version is not below one that was stored all along.          *)
THEOREM LatestIsAboveStable == FetchSpec => []LatestAboveStable
<1>1. FetchInvariant => LatestAboveStable
  BY DEF FetchInvariant, ReadInvariant, AnsweredRightly, LatestAboveStable
<1> QED
  BY <1>1, FetchInvariantHolds, PTL

(* The list of versions misses none that was stored all along.             *)
THEOREM VersionListCoversStable == FetchSpec => []VersionsCoverStable
<1>1. FetchInvariant => VersionsCoverStable
  BY DEF FetchInvariant, ReadInvariant, AnsweredRightly, VersionsCoverStable
<1> QED
  BY <1>1, FetchInvariantHolds, PTL
=============================================================================
