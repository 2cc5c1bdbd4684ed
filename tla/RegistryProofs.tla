--------------------------- MODULE RegistryProofs ---------------------------
(***************************************************************************)
(* Proofs about clients that wait for each answer before they send the     *)
(* next upload, of any finite number.  The promise of the README that a    *)
(* serial number and version are accepted once holds for them, even if     *)
(* PUTs the service gave up on land late.  And they find in UploadBOM the  *)
(* registry of Registry.tla, the refinement of UploadRefinement, as long   *)
(* as no version overflows.                                                *)
(***************************************************************************)
EXTENDS UploadRefinement, UploadProofs, FiniteSetTheorems

OneAtATime ==
  \A q, r \in Requests : pc[q] \in Working /\ pc[r] \in Working => q = r

(* Whatever is acknowledged was when the upload under way arrived.         *)
AckedBefore ==
  \A q, r \in Requests : pc[q] \in Working /\ Created(r) => r \in before[q]

SerialInvariant ==
  UploadInvariant /\ OneAtATime /\ AckedBefore /\ OneUploadPerVersion
-----------------------------------------------------------------------------
(* An upload begins when none is under way.                                *)
LEMMA BeginsAlone ==
  ASSUME IsFiniteSet(Requests), MaxInFlight <= 1, NEW r \in Requests, Begin(r)
  PROVE  \A q \in Requests : pc[q] \notin Working
<1>1. IsFiniteSet(InFlight)
  BY FS_Subset DEF InFlight
<1>2. Cardinality(InFlight) \in Nat /\ Cardinality(InFlight) < MaxInFlight
  BY <1>1, FS_CardinalityType DEF Begin, BeginGenerate, BeginAssign, BeginKeep
<1>3. InFlight = {}
  BY <1>1, <1>2, FS_EmptySet, UploadAssumption
<1> QED
  BY <1>3 DEF InFlight

(* Only the return of the numbered PUT acknowledges an upload.             *)
LEMMA AckedByReturn ==
  ASSUME UploadInvariant, NEW r \in Requests, Step(r), Created(r)', ~ Created(r)
  PROVE  UploadReturned(r)
<1>1. MayPutNumbered(r) /\ answer'[r] = "created" /\ answer[r] # "created"
  BY LookupStarted DEF Created
<1> QED
  BY <1>1, StepCases, PutCases
     DEF MayPutNumbered, Refuse, Arrive, BeginGenerate, BeginAssign, BeginKeep,
         GenerateSerial, CheckExists, ListFirstPage, ListLastPage,
         OriginalReturned, Fail, UploadInvariant, TypeOK

(* Only an upload that begins comes to be under way.                       *)
LEMMA UnderWayByBegin ==
  ASSUME UploadInvariant, NEW r \in Requests, Step(r), pc'[r] \in Working,
         pc[r] \notin Working
  PROVE  Begin(r) /\ UNCHANGED answer
         /\ before'[r] = {q \in Requests : answer[q] # "none"}
<1> USE DEF UploadInvariant, TypeOK
<1>1. ~ Puts(r) /\ ~ Refuse(r)
  BY PutCases DEF Refuse, Reply, Goto, Working
<1>2. Begin(r)
  BY <1>1, StepCases
     DEF Begin, GenerateSerial, CheckExists, ListFirstPage, ListLastPage,
         OriginalReturned, UploadReturned, Fail, Working
<1> QED
  BY <1>2 DEF Begin, BeginGenerate, BeginAssign, BeginKeep, Arrive

LEMMA SerialStep ==
  ASSUME IsFiniteSet(Requests), MaxInFlight <= 1, SerialInvariant,
         NEW r \in Requests, Step(r)
  PROVE  SerialInvariant'
<1> USE DEF SerialInvariant
<1>1. UploadInvariant'
  BY InvariantStep DEF Next
<1>2. \A q \in Requests \ {r} :
        pc'[q] = pc[q] /\ bom'[q] = bom[q] /\ answer'[q] = answer[q] /\ before'[q] = before[q]
  BY OthersStand DEF Unmoved, UploadInvariant
<1>3. OneAtATime'
  <2>1. CASE pc'[r] \in Working /\ pc[r] \notin Working
    BY <1>2, <2>1, UnderWayByBegin, BeginsAlone DEF OneAtATime
  <2>2. CASE pc'[r] \in Working => pc[r] \in Working
    BY <1>2, <2>2 DEF OneAtATime
  <2> QED
    BY <2>1, <2>2
<1>4. ASSUME NEW q \in Requests, NEW a \in Requests, pc'[q] \in Working, Created(a)'
      PROVE  a \in before'[q]
  <2>1. a # q
    BY <1>1, <1>4 DEF UploadInvariant, HistoryAnswered, Created
  <2>2. CASE q = r /\ pc[r] \notin Working
    BY <1>4, <2>2, UnderWayByBegin DEF Created
  <2>3. CASE q = r /\ pc[r] \in Working
    <3>1. Created(a)
      BY <1>2, <1>4, <2>1, <2>3 DEF Created
    <3>2. before'[r] = before[r]
      BY <2>3, HistoryFixed DEF Working
    <3> QED
      BY <2>3, <3>1, <3>2 DEF AckedBefore
  <2>4. CASE q # r
    <3>1. pc[q] \in Working /\ before'[q] = before[q]
      BY <1>2, <1>4, <2>4
    <3>2. Created(a)
      <4>1. CASE a # r
        BY <1>2, <1>4, <4>1 DEF Created
      <4>2. CASE a = r /\ ~ Created(a)
        BY <1>4, <2>4, <3>1, <4>2, AckedByReturn DEF UploadReturned, Working, OneAtATime
      <4> QED
        BY <4>1, <4>2
    <3> QED
      BY <3>1, <3>2 DEF AckedBefore
  <2> QED
    BY <2>2, <2>3, <2>4
<1>5. \A a \in Requests : Created(a) => bom'[a] = bom[a] /\ Created(a)'
  BY AnswersStand DEF Unmoved, Created
<1>6. ASSUME NEW a \in Requests, NEW q \in Requests, a # q, Created(a)', Created(q)',
             ~ Created(q), bom'[q].version >= 1
      PROVE  bom'[a] # bom'[q]
  <2>1. q = r /\ Created(a)
    BY <1>2, <1>6 DEF Created
  <2>2. pc[r] = "sent" /\ UNCHANGED bom
    BY <1>6, <2>1, AckedByReturn DEF UploadReturned
  <2>3. a \in before[r]
    BY <2>1, <2>2 DEF AckedBefore, Working
  <2> QED
    BY <1>6, <2>1, <2>2, <2>3 DEF UploadInvariant, KeysDiffer, MayPutNumbered
<1>7. OneUploadPerVersion'
  BY <1>5, <1>6 DEF OneUploadPerVersion, Created
<1> QED
  BY <1>1, <1>3, <1>4, <1>7 DEF AckedBefore, Created

(* For clients that send one upload after the other, no serial number and  *)
(* version is acknowledged twice, however uploads fail and land late.      *)
THEOREM SerialUploadsAreUnique ==
  ASSUME IsFiniteSet(Requests), MaxInFlight <= 1
  PROVE  Spec => []OneUploadPerVersion
<1>1. Init => SerialInvariant
  BY InvariantInit
     DEF Init, SerialInvariant, OneAtATime, AckedBefore, OneUploadPerVersion, Created, Working
<1>2. SerialInvariant /\ [Next]_vars => SerialInvariant'
  <2> SUFFICES ASSUME SerialInvariant, [Next]_vars PROVE SerialInvariant'
    OBVIOUS
  <2>1. CASE UNCHANGED vars
    BY <2>1, InvariantStep
       DEF vars, SerialInvariant, OneAtATime, AckedBefore, OneUploadPerVersion, Created
  <2>2. ASSUME NEW r \in Requests, Step(r) PROVE SerialInvariant'
    BY <2>2, SerialStep
  <2> QED
    BY <2>1, <2>2 DEF Next
<1>3. SerialInvariant => OneUploadPerVersion
  BY DEF SerialInvariant
<1> QED
  BY <1>1, <1>2, <1>3, PTL DEF Spec
-----------------------------------------------------------------------------
(* No assignment has wrapped around at the largest int.                    *)
NoVersionWraps == \A r \in Requests : bom[r].version >= 0

StoredVersions(urn) == {v \in Versions : bucket[UploadKey(urn, v)] # Absent}

Follows(v, urn) ==
  \/ StoredVersions(urn) = {} /\ v = 1
  \/ v - 1 \in StoredVersions(urn) /\ \A w \in StoredVersions(urn) : w < v

(* What a request that is about to PUT knows of the bucket.                *)
FreeToPut(q) ==
  /\ bom[q].version >= 1 /\ bucket[NumberedKey(q)] = Absent
  /\ \/ branch[q] = "generate" /\ bom[q].version = 1
     \/ branch[q] = "assign" /\ Follows(bom[q].version, bom[q].serialNumber)
     \/ branch[q] = "keep"

HoldsNothing(q) == \A u \in Urns, v \in Versions : bucket[UploadKey(u, v)] # q

(* What the position of a request says of its branch and of the bucket.    *)
Alone(q) ==
  /\ pc[q] \notin {"lateOriginal", "latePut"}
  /\ pc[q] = "waiting" => branch[q] = "none"
  /\ pc[q] \notin {"sent", "done"} => HoldsNothing(q)
  /\ pc[q] = "check" => bom[q].version >= 1
  /\ pc[q] \in {"list", "listing"} => branch[q] = "assign"
  /\ pc[q] = "listing" => listed[q] = Listing(bucket, bom[q].serialNumber)
  /\ pc[q] \in {"putOriginal", "originalSent"} => branch[q] = "generate"
  /\ pc[q] \in {"putOriginal", "originalSent", "put"} => FreeToPut(q)
  /\ pc[q] = "sent" => bucket[NumberedKey(q)] = q

OnlyUploads ==
  \A u \in Urns, v \in Versions :
    /\ bucket[UploadKey(u, v)] \in Requests \cup {Absent}
    /\ bucket[UploadKey(u, v)] # Absent => v >= 1

RegistryInvariant ==
  SerialInvariant /\ OnlyUploads /\ \A q \in Requests : Alone(q)
-----------------------------------------------------------------------------
(* While an upload is under way, no other changes the bucket.              *)
LEMMA NobodyElsePuts ==
  ASSUME RegistryInvariant, NEW r \in Requests, Step(r),
         NEW q \in Requests, q # r, pc[q] \in Working
  PROVE  UNCHANGED bucket
<1>1. pc[r] \notin Working /\ pc[r] \notin {"lateOriginal", "latePut"}
  BY DEF RegistryInvariant, SerialInvariant, OneAtATime, Alone
<1>2. ~ Puts(r)
  BY <1>1, PutCases
<1> QED
  BY <1>2, StepCases
     DEF Refuse, BeginGenerate, BeginAssign, BeginKeep, GenerateSerial,
         CheckExists, ListFirstPage, ListLastPage, OriginalReturned,
         UploadReturned, Fail

(* A numbered object only ever appears: where nothing was, or where the    *)
(* same upload's was.                                                      *)
LEMMA NumberedStep ==
  ASSUME RegistryInvariant, NEW r \in Requests, Step(r),
         NEW u \in Urns, NEW v \in Versions
  PROVE  \/ bucket'[UploadKey(u, v)] = bucket[UploadKey(u, v)]
         \/ /\ SendNumbered(r) /\ UploadKey(u, v) = NumberedKey(r)
            /\ bucket[UploadKey(u, v)] = Absent /\ bucket'[UploadKey(u, v)] = r
<1> USE DEF RegistryInvariant, SerialInvariant, UploadInvariant
<1>1. UploadKey(u, v) \in Keys
  BY DEF UploadKey, Keys, Suffixes
<1>2. UploadKey(u, v) # OriginalKey(r)
  BY StoreAssumption DEF UploadKey, OriginalKey, Versions, MinInt
<1>3. CASE SendOriginal(r) \/ ResendOriginal(r)
  BY <1>1, <1>2, <1>3 DEF SendOriginal, ResendOriginal, PutEffect, TypeOK
<1>4. CASE SendNumbered(r)
  <2>1. bucket[NumberedKey(r)] = Absent /\ bucket' = [bucket EXCEPT ![NumberedKey(r)] = r]
    BY <1>4 DEF SendNumbered, PutEffect, Alone, FreeToPut
  <2> QED
    BY <1>1, <1>4, <2>1 DEF TypeOK
<1>5. CASE ResendNumbered(r)
  <2>1. bucket[NumberedKey(r)] = r /\ bucket' = [bucket EXCEPT ![NumberedKey(r)] = r]
    BY <1>5 DEF ResendNumbered, PutEffect, Alone
  <2> QED
    BY <1>1, <2>1 DEF TypeOK
<1>6. CASE ~ Puts(r)
  BY <1>1, <1>6, BucketStep
<1>7. ~ Landing(r)
  BY DEF Landing, OriginalLands, NumberedLands, PutEffect, Alone
<1> QED
  BY <1>3, <1>4, <1>5, <1>6, <1>7 DEF Puts, Repeat

(* A request holds a numbered object only if it PUTs one.                  *)
LEMMA HoldsNothingKept ==
  ASSUME RegistryInvariant, NEW r \in Requests, Step(r), NEW q, HoldsNothing(q),
         q # r \/ ~ SendNumbered(r)
  PROVE  HoldsNothing(q)'
<1>1. ASSUME NEW u \in Urns, NEW v \in Versions PROVE bucket'[UploadKey(u, v)] # q
  <2>1. bucket[UploadKey(u, v)] # q
    BY DEF HoldsNothing
  <2> QED
    BY <2>1, NumberedStep
<1> QED
  BY <1>1 DEF HoldsNothing, UploadKey

LEMMA OnlyUploadsStep ==
  ASSUME RegistryInvariant, NEW r \in Requests, Step(r)
  PROVE  OnlyUploads'
<1> SUFFICES ASSUME NEW u \in Urns, NEW v \in Versions
             PROVE  /\ bucket'[UploadKey(u, v)] \in Requests \cup {Absent}
                    /\ bucket'[UploadKey(u, v)] # Absent => v >= 1
  BY DEF OnlyUploads, UploadKey
<1>1. CASE bucket'[UploadKey(u, v)] = bucket[UploadKey(u, v)]
  BY <1>1 DEF RegistryInvariant, OnlyUploads
<1>2. CASE /\ SendNumbered(r) /\ UploadKey(u, v) = NumberedKey(r)
           /\ bucket[UploadKey(u, v)] = Absent /\ bucket'[UploadKey(u, v)] = r
  BY <1>2 DEF SendNumbered, PutEffect, RegistryInvariant, Alone, FreeToPut,
              NumberedKey, UploadKey
<1> QED
  BY <1>1, <1>2, NumberedStep

(* What is known of another request still holds.                           *)
LEMMA OthersAlone ==
  ASSUME RegistryInvariant, NEW r \in Requests, Step(r), NEW q \in Requests, q # r
  PROVE  Alone(q)'
<1>1. Unmoved(q) /\ Alone(q)
  BY OthersStand DEF RegistryInvariant, SerialInvariant, UploadInvariant
<1>2. CASE pc[q] \in Working
  <2>1. UNCHANGED bucket
    BY <1>2, NobodyElsePuts
  <2> QED
    BY <1>1, <2>1 DEF Alone, Unmoved, HoldsNothing, FreeToPut, Follows, StoredVersions,
                      Listing, NumberedKey, UploadKey
<1>3. CASE pc[q] = "waiting"
  <2>1. HoldsNothing(q)'
    BY <1>1, <1>3, HoldsNothingKept DEF Alone
  <2> QED
    BY <1>1, <1>3, <2>1 DEF Alone, Unmoved
<1>4. CASE pc[q] = "done"
  BY <1>1, <1>4 DEF Alone, Unmoved
<1> QED
  BY <1>1, <1>2, <1>3, <1>4
     DEF RegistryInvariant, SerialInvariant, UploadInvariant, TypeOK, Labels, Alone
-----------------------------------------------------------------------------
(* A LIST that nobody disturbs gives the versions that are stored, and the *)
(* next one follows them.                                                  *)
LEMMA AssignedFollows ==
  ASSUME RegistryInvariant, NEW r \in Requests, ListLastPage(r), pc'[r] = "put",
         bom'[r].version >= 0
  PROVE  /\ Follows(bom'[r].version, bom[r].serialNumber)
         /\ bom'[r].version >= 1 /\ bom'[r].version \in Versions
         /\ bom'[r].serialNumber = bom[r].serialNumber
         /\ bucket[UploadKey(bom[r].serialNumber, bom'[r].version)] = Absent
<1> USE DEF RegistryInvariant, SerialInvariant, UploadInvariant, TypeOK
<1> DEFINE urn == bom[r].serialNumber
           numbers == StoredVersions(urn)
<1>1. pc[r] = "listing" /\ urn \in Urns /\ listed[r] = Listing(bucket, urn)
  BY DEF ListLastPage, SerialKnown, Alone
<1>2. AssignFrom(r, Listing(bucket, urn))
  <2>1. PICK new \in SUBSET (Listing(bucket, urn) \ listed[r]) : AssignFrom(r, listed[r] \cup new)
    BY DEF ListLastPage
  <2>2. listed[r] \cup new = Listing(bucket, urn)
    BY <1>1, <2>1
  <2> QED
    BY <2>1, <2>2
<1>3. Numbers(Listing(bucket, urn)) = numbers
  BY DEF Numbers, Listing, StoredVersions, Suffixes
<1>4. \A v \in numbers : v \in Versions /\ v >= 1 /\ v \in Int
  BY <1>1, StoreAssumption DEF StoredVersions, OnlyUploads, Versions, MinInt
<1>5. CASE ListingNotFound(Listing(bucket, urn)) /\ bom' = [bom EXCEPT ![r].version = 1]
  <2>1. numbers = {}
    BY <1>3, <1>5 DEF ListingNotFound, Numbers
  <2>2. 1 \in Versions
    BY SmallVersions
  <2> QED
    BY <1>5, <2>1, <2>2 DEF Follows, StoredVersions
<1>6. ASSUME NEW v \in NextVersions(Listing(bucket, urn)), bom' = [bom EXCEPT ![r].version = v]
      PROVE  /\ Follows(bom'[r].version, urn)
             /\ bom'[r].version >= 1 /\ bom'[r].version \in Versions
             /\ bom'[r].serialNumber = urn
             /\ bucket[UploadKey(urn, bom'[r].version)] = Absent
  <2>1. PICK w \in numbers : (\A x \in numbers : x <= w) /\ v = PlusOne(w)
    BY <1>3, <1>6 DEF NextVersions, IsLast
  <2>2. v \in Versions /\ v >= 0 /\ bom'[r].version = v /\ bom'[r].serialNumber = urn
    BY <1>6, NextVersionsType
  <2>3. v = w + 1
    BY <2>1, <2>2, StoreAssumption DEF PlusOne, MinInt
  <2>4. \A x \in numbers : x < v
    BY <1>4, <2>1, <2>3
  <2>5. v - 1 = w /\ v >= 1
    <3>1. w \in Int /\ w >= 1
      BY <1>4, <2>1
    <3> HIDE DEF RegistryInvariant
    <3> QED
      BY <2>3, <3>1
  <2>6. v \notin numbers
    BY <1>4, <2>4
  <2> QED
    BY <2>1, <2>2, <2>4, <2>5, <2>6 DEF Follows, StoredVersions
<1> HIDE DEF urn, numbers
<1>7. pc' # [pc EXCEPT ![r] = "done"]
  BY DEF TypeOK
<1> QED
  BY <1>2, <1>5, <1>6, <1>7 DEF AssignFrom, Reply, Goto, urn

(* What is known of the request that moves holds where it arrives.         *)
LEMMA ActorAlone ==
  ASSUME RegistryInvariant, NoVersionWraps', LateEffects = FALSE,
         NEW r \in Requests, Step(r)
  PROVE  Alone(r)'
<1> USE DEF RegistryInvariant, SerialInvariant, UploadInvariant, TypeOK
<1>1. CASE Refuse(r) \/ UploadReturned(r)
  BY <1>1 DEF Refuse, UploadReturned, Reply, Goto, Alone
<1>2. CASE Fail(r)
  BY <1>2 DEF Fail, AfterFailure, Goto, Alone
<1>3. CASE BeginGenerate(r) \/ BeginAssign(r) \/ BeginKeep(r)
  <2>1. pc'[r] \in {"generate", "list", "check"} /\ HoldsNothing(r)'
    <3>1. HoldsNothing(r) /\ ~ SendNumbered(r)
      BY <1>3 DEF BeginGenerate, BeginAssign, BeginKeep, Arrive, Alone, SendNumbered, PutEffect
    <3> QED
      BY <1>3, <3>1, HoldsNothingKept DEF BeginGenerate, BeginAssign, BeginKeep, Enter, Goto
  <2>2. pc'[r] = "list" => branch'[r] = "assign"
    BY <1>3 DEF BeginGenerate, BeginAssign, BeginKeep, Enter, Goto
  <2>3. pc'[r] = "check" => bom'[r].version >= 1
    BY <1>3, UploadAssumption DEF BeginGenerate, BeginAssign, BeginKeep, Enter, Goto
  <2> QED
    BY <2>1, <2>2, <2>3 DEF Alone
<1>4. CASE GenerateSerial(r)
  <2>1. /\ pc[r] = "generate" /\ UNCHANGED <<bucket, branch>>
        /\ bom'[r].version = 1 /\ branch[r] = "generate"
    BY <1>4 DEF GenerateSerial, SerialKnown, BranchKept
  <2>2. HoldsNothing(r)'
    BY <2>1 DEF Alone, HoldsNothing, UploadKey
  <2>3. \/ pc'[r] = "generate"
        \/ pc'[r] = "putOriginal" /\ bucket'[NumberedKey(r)'] = Absent
    <3>1. PICK u \in Draws(r) : /\ bom' = [bom EXCEPT ![r].serialNumber = u]
                                /\ Goto(r, IF Taken(u) THEN "generate" ELSE "putOriginal")
      BY <1>4 DEF GenerateSerial
    <3>2. bom'[r].serialNumber = u /\ NumberedKey(r)' = UploadKey(u, 1)
      BY <2>1, <3>1 DEF NumberedKey, UploadKey
    <3> QED
      BY <2>1, <3>1, <3>2 DEF Goto, Taken, KeyExists
  <2> QED
    BY <2>1, <2>2, <2>3 DEF Alone, FreeToPut
<1>5. CASE CheckExists(r)
  <2>1. CASE pc'[r] = "done"
    BY <2>1 DEF Alone
  <2>2. CASE pc'[r] # "done"
    <3>1. /\ pc'[r] = "put" /\ bucket[NumberedKey(r)] = Absent /\ bom[r].version >= 1
          /\ branch[r] = "keep" /\ HoldsNothing(r) /\ UNCHANGED <<bucket, bom, branch>>
      BY <1>5, <2>2 DEF CheckExists, Reply, Goto, KeyExists, BranchKept, Alone
    <3> QED
      BY <3>1 DEF Alone, FreeToPut, HoldsNothing, NumberedKey, UploadKey
  <2> QED
    BY <2>1, <2>2
<1>6. CASE ListFirstPage(r)
  <2>1. /\ pc'[r] = "listing" /\ branch[r] = "assign" /\ HoldsNothing(r)
        /\ listed'[r] = Listing(bucket, bom[r].serialNumber)
        /\ UNCHANGED <<bucket, bom, branch>>
    BY <1>6 DEF ListFirstPage, Goto, Alone
  <2> QED
    BY <2>1 DEF Alone, HoldsNothing, UploadKey, Listing
<1>7. CASE ListLastPage(r)
  <2>1. /\ pc'[r] \in {"put", "done"} /\ branch[r] = "assign" /\ HoldsNothing(r)
        /\ UNCHANGED <<bucket, branch>>
    BY <1>7 DEF ListLastPage, AssignFrom, Reply, Goto, Alone
  <2>2. CASE pc'[r] = "put"
    <3>1. /\ Follows(bom'[r].version, bom[r].serialNumber)
          /\ bom'[r].version >= 1 /\ bom'[r].serialNumber = bom[r].serialNumber
          /\ bucket[UploadKey(bom[r].serialNumber, bom'[r].version)] = Absent
      BY <1>7, <2>2, AssignedFollows DEF NoVersionWraps
    <3>2. FreeToPut(r)'
      BY <2>1, <3>1 DEF FreeToPut, Follows, StoredVersions, NumberedKey, UploadKey
    <3> QED
      BY <2>1, <2>2, <3>2 DEF Alone, HoldsNothing, UploadKey
  <2> QED
    BY <2>1, <2>2 DEF Alone
<1>8. CASE OriginalReturned(r)
  <2>1. /\ pc'[r] = "put" /\ FreeToPut(r) /\ HoldsNothing(r) /\ UNCHANGED <<bucket, bom, branch>>
    BY <1>8 DEF OriginalReturned, Goto, Alone
  <2> QED
    BY <2>1 DEF Alone, FreeToPut, Follows, StoredVersions, HoldsNothing, NumberedKey, UploadKey
<1>9. CASE SendOriginal(r) \/ ResendOriginal(r)
  <2>1. /\ pc[r] \in {"putOriginal", "originalSent"} /\ pc'[r] = "originalSent"
        /\ UNCHANGED <<bom, branch>> /\ branch[r] = "generate" /\ bom[r].version = 1
        /\ bom[r].serialNumber \in Urns /\ FreeToPut(r) /\ HoldsNothing(r) /\ ~ SendNumbered(r)
    BY <1>9 DEF SendOriginal, ResendOriginal, SendNumbered, PutEffect, Goto, Alone, SerialKnown
  <2>2. HoldsNothing(r)'
    BY <2>1, HoldsNothingKept
  <2>3. bucket'[NumberedKey(r)] = bucket[NumberedKey(r)]
    BY <2>1, NumberedStep, SmallVersions DEF NumberedKey
  <2> QED
    BY <2>1, <2>2, <2>3 DEF Alone, FreeToPut, NumberedKey, UploadKey
<1>10. CASE SendNumbered(r) \/ ResendNumbered(r)
  <2>1. /\ pc'[r] = "sent" /\ UNCHANGED bom /\ bom[r].serialNumber \in Urns
        /\ bucket' = [bucket EXCEPT ![NumberedKey(r)] = r]
    BY <1>10 DEF SendNumbered, ResendNumbered, PutEffect, Goto, SerialKnown
  <2>2. NumberedKey(r) \in Keys /\ NumberedKey(r)' = NumberedKey(r)
    BY <2>1 DEF NumberedKey, UploadKey, Keys, Suffixes
  <2> QED
    BY <2>1, <2>2 DEF Alone
<1>11. ~ Landing(r)
  BY DEF Landing, OriginalLands, NumberedLands, PutEffect, Alone
<1> QED
  BY StepCases, <1>1, <1>2, <1>3, <1>4, <1>5, <1>6, <1>7, <1>8, <1>9, <1>10, <1>11
     DEF Puts, Repeat

LEMMA RegistryInvariantInit ==
  ASSUME Stored \cap (Urns \X Versions) = {}, Init
  PROVE  RegistryInvariant
<1>1. SerialInvariant
  BY InvariantInit
     DEF Init, SerialInvariant, OneAtATime, AckedBefore, OneUploadPerVersion, Created, Working
<1>2. ASSUME NEW u \in Urns, NEW v \in Versions PROVE bucket[UploadKey(u, v)] = Absent
  BY <1>2 DEF Init, UploadKey, Keys, Suffixes
<1>3. OnlyUploads
  BY <1>2 DEF OnlyUploads
<1>4. \A q \in Requests : HoldsNothing(q)
  BY <1>2, UploadAssumption DEF HoldsNothing
<1> QED
  BY <1>1, <1>3, <1>4 DEF RegistryInvariant, Alone, Init

LEMMA RegistryInvariantStep ==
  ASSUME IsFiniteSet(Requests), MaxInFlight <= 1, LateEffects = FALSE,
         RegistryInvariant, NoVersionWraps', [Next]_vars
  PROVE  RegistryInvariant'
<1>1. CASE UNCHANGED vars
  <2>1. SerialInvariant'
    BY <1>1, InvariantStep
       DEF vars, RegistryInvariant, SerialInvariant, OneAtATime, AckedBefore,
           OneUploadPerVersion, Created
  <2>2. OnlyUploads'
    BY <1>1 DEF vars, RegistryInvariant, OnlyUploads, UploadKey
  <2>3. ASSUME NEW q \in Requests PROVE Alone(q)'
    <3>1. Alone(q)
      BY DEF RegistryInvariant
    <3> QED
      BY <1>1, <3>1
         DEF vars, Alone, HoldsNothing, FreeToPut, Follows, StoredVersions, Listing,
             NumberedKey, UploadKey
  <2> QED
    BY <2>1, <2>2, <2>3 DEF RegistryInvariant
<1>2. ASSUME NEW r \in Requests, Step(r) PROVE RegistryInvariant'
  <2>1. SerialInvariant'
    BY <1>2, SerialStep DEF RegistryInvariant
  <2>2. \A q \in Requests : Alone(q)'
    BY <1>2, OthersAlone, ActorAlone
  <2> QED
    BY <1>2, <2>1, <2>2, OnlyUploadsStep DEF RegistryInvariant
<1> QED
  BY <1>1, <1>2 DEF Next
-----------------------------------------------------------------------------
(* The abstract state.                                                     *)
Entry(q) ==
  IF bom[q].serialNumber = NoSerial
    THEN [serialNumber |-> NoSerial, version |-> 0] ELSE Abstract(q)

Registered == [k \in Urns \X (1 .. MaxInt) |-> HolderOf(k)]
Entries    == [q \in Requests |-> Entry(q)]
Replies    == [q \in Requests |-> IF answer[q] = "panic" THEN "error" ELSE answer[q]]

(* A request that holds nothing is not entered.                            *)
LEMMA NotEntered ==
  ASSUME TypeOK, NEW q \in Requests, HoldsNothing(q)
  PROVE  Entry(q) = R!NoEntry
BY DEF Entry, Abstract, HoldsNothing, NumberedKey, TypeOK, R!NoEntry

(* Only a PUT to a free numbered key shows.                                *)
LEMMA RegisteredStays ==
  ASSUME RegistryInvariant, NEW r \in Requests, Step(r), ~ SendNumbered(r)
  PROVE  /\ \A u \in Urns, v \in Versions : bucket'[UploadKey(u, v)] = bucket[UploadKey(u, v)]
         /\ Registered' = Registered
<1>1. \A u \in Urns, v \in Versions : bucket'[UploadKey(u, v)] = bucket[UploadKey(u, v)]
  BY NumberedStep
<1>2. \A k \in Urns \X (1 .. MaxInt) : bucket'[k] = bucket[k]
  BY <1>1, SmallVersions DEF UploadKey
<1> QED
  BY <1>1, <1>2 DEF Registered, HolderOf

LEMMA OthersEntry ==
  ASSUME RegistryInvariant, NEW r \in Requests, Step(r), NEW q \in Requests, q # r
  PROVE  Entry(q)' = Entry(q)
<1>1. bom'[q] = bom[q] /\ bom[q].version \in Versions
  BY OthersStand DEF Unmoved, RegistryInvariant, SerialInvariant, UploadInvariant, TypeOK
<1>2. CASE bom[q].serialNumber = NoSerial
  BY <1>1, <1>2 DEF Entry
<1>3. CASE bom[q].serialNumber # NoSerial
  <2>1. bom[q].serialNumber \in Urns
    BY <1>3 DEF RegistryInvariant, SerialInvariant, UploadInvariant, TypeOK
  <2>2. bucket'[NumberedKey(q)] = q <=> bucket[NumberedKey(q)] = q
    BY <1>1, <2>1, NumberedStep, UploadAssumption DEF NumberedKey
  <2> QED
    BY <1>1, <1>3, <2>2 DEF Entry, Abstract, NumberedKey, UploadKey
<1> QED
  BY <1>2, <1>3

(* Unless the request that moves PUTs a numbered object, its entry stays.  *)
LEMMA EntriesStay ==
  ASSUME RegistryInvariant, RegistryInvariant', NEW r \in Requests, Step(r), ~ SendNumbered(r)
  PROVE  Entries' = Entries
<1>1. Entry(r)' = Entry(r)
  <2>1. CASE HoldsNothing(r)
    <3>1. HoldsNothing(r)'
      BY <2>1, HoldsNothingKept
    <3>2. Entry(r) = R!NoEntry
      BY <2>1, NotEntered DEF RegistryInvariant, SerialInvariant, UploadInvariant
    <3>3. Entry(r)' = R!NoEntry
      BY <3>1 DEF Entry, Abstract, HoldsNothing, NumberedKey, R!NoEntry,
                  RegistryInvariant, SerialInvariant, UploadInvariant, TypeOK
    <3> QED
      BY <3>2, <3>3
  <2>2. CASE ~ HoldsNothing(r)
    <3>1. pc[r] = "sent"
      <4>1. pc[r] # "done"
        BY StepCases, PutCases
           DEF Refuse, Arrive, BeginGenerate, BeginAssign, BeginKeep, GenerateSerial,
               CheckExists, ListFirstPage, ListLastPage, OriginalReturned,
               UploadReturned, Fail, Working
      <4> QED
        BY <2>2, <4>1 DEF RegistryInvariant, Alone
    <3>2. UNCHANGED bom
      BY <3>1, StepCases, PutCases
         DEF Refuse, Arrive, BeginGenerate, BeginAssign, BeginKeep, GenerateSerial,
             CheckExists, ListFirstPage, ListLastPage, OriginalReturned,
             UploadReturned, Fail
    <3>3. bom[r].serialNumber \in Urns /\ bom[r].version \in Versions
      BY <3>1 DEF RegistryInvariant, SerialInvariant, UploadInvariant, TypeOK, SerialKnown
    <3>4. bucket'[NumberedKey(r)] = bucket[NumberedKey(r)]
      BY <3>3, NumberedStep DEF NumberedKey
    <3> QED
      BY <3>2, <3>4 DEF Entry, Abstract, NumberedKey, UploadKey
  <2> QED
    BY <2>1, <2>2
<1> QED
  BY <1>1, OthersEntry DEF Entries
-----------------------------------------------------------------------------
(* The steps of the registry.                                              *)
LEMMA InitMaps ==
  ASSUME Stored \cap (Urns \X Versions) = {}, Init
  PROVE  R!Init
<1>1. \A k \in Urns \X (1 .. MaxInt) : bucket[k] = Absent
  BY SmallVersions DEF Init, Keys, Suffixes
<1>2. Registered = [k \in Urns \X (1 .. MaxInt) |-> Absent]
  BY <1>1 DEF Registered, HolderOf
<1> QED
  BY <1>2 DEF Init, R!Init, R!NoEntry, R!Positive, Registered

(* An upload begins in its branch.                                         *)
LEMMA BeginMaps ==
  ASSUME RegistryInvariant, RegistryInvariant', NEW r \in Requests, Step(r), Begin(r)
  PROVE  \E b \in {"generate", "assign", "keep"} : R!Start(r, b)
<1>1. PICK b \in {"generate", "assign", "keep"} :
        pc[r] = "waiting" /\ branch' = [branch EXCEPT ![r] = b] /\ UNCHANGED answer
  BY DEF Begin, BeginGenerate, BeginAssign, BeginKeep, Arrive, Enter
<1>2. branch[r] = "none" /\ answer[r] = "none"
  BY <1>1 DEF RegistryInvariant, Alone, SerialInvariant, UploadInvariant, HistoryAnswered
<1>3. ~ SendNumbered(r)
  BY <1>1 DEF SendNumbered, PutEffect
<1>4. Registered' = Registered /\ Entries' = Entries /\ Replies' = Replies
  BY <1>1, <1>3, RegisteredStays, EntriesStay DEF Replies
<1>5. Replies[r] = "none"
  BY <1>2 DEF Replies
<1>6. R!Start(r, b)
  BY <1>1, <1>2, <1>4, <1>5 DEF R!Start, Registered, Entries, Entry, Replies
<1> QED
  BY <1>6

(* The PUT of the numbered object enters the upload.                       *)
LEMMA PutMaps ==
  ASSUME RegistryInvariant, RegistryInvariant', NEW r \in Requests, Step(r), SendNumbered(r)
  PROVE  \E urn \in Urns, v \in R!Positive : R!Enter(r, urn, v)
<1>1. PICK urn \in Urns, v \in 1 .. MaxInt :
        /\ urn = bom[r].serialNumber /\ v = bom[r].version
        /\ TypeOK /\ v \in Versions /\ bucket[<<urn, v>>] = Absent
        /\ FreeToPut(r) /\ HoldsNothing(r) /\ answer[r] = "none"
  <2>1. pc[r] = "put"
    BY DEF SendNumbered, PutEffect
  <2>2. /\ TypeOK /\ bom[r].serialNumber \in Urns /\ bom[r].version \in Versions
        /\ answer[r] = "none"
    BY <2>1 DEF RegistryInvariant, SerialInvariant, UploadInvariant, TypeOK, SerialKnown,
                HistoryAnswered, Working
  <2>3. FreeToPut(r) /\ HoldsNothing(r)
    BY <2>1 DEF RegistryInvariant, Alone
  <2>4. bom[r].version >= 1 /\ bucket[<<bom[r].serialNumber, bom[r].version>>] = Absent
    BY <2>3 DEF FreeToPut, NumberedKey, UploadKey
  <2>5. bom[r].version \in 1 .. MaxInt
    BY <2>2, <2>4, StoreAssumption DEF Versions, MinInt
  <2> QED
    BY <2>2, <2>3, <2>4, <2>5
<1>2. bucket' = [bucket EXCEPT ![<<urn, v>>] = r] /\ UNCHANGED <<bom, branch, answer>>
  BY <1>1 DEF SendNumbered, PutEffect, NumberedKey, UploadKey
<1>3. bom[r] = [serialNumber |-> urn, version |-> v] /\ urn # NoSerial /\ NumberedKey(r) = <<urn, v>>
  BY <1>1, UploadAssumption DEF TypeOK, NumberedKey, UploadKey
<1>4. Entries[r] = R!NoEntry /\ Replies[r] = "none" /\ Replies' = Replies
  BY <1>1, <1>2, NotEntered DEF Entries, Replies
<1>5. Registered[<<urn, v>>] = Absent
  BY <1>1, UploadAssumption DEF Registered, HolderOf
<1>6. Registered' = [Registered EXCEPT ![<<urn, v>>] = r]
  <2>1. \A k \in Urns \X (1 .. MaxInt) : k \in Keys
    BY SmallVersions DEF Keys, Suffixes
  <2>2. \A k \in Urns \X (1 .. MaxInt) :
          HolderOf(k)' = IF k = <<urn, v>> THEN r ELSE HolderOf(k)
    BY <1>1, <1>2, <2>1 DEF HolderOf, TypeOK
  <2> QED
    BY <1>1, <2>2 DEF Registered
<1>7. Entries' = [Entries EXCEPT ![r] = [serialNumber |-> urn, version |-> v]]
  <2>1. <<urn, v>> \in Keys
    BY <1>1 DEF Keys, Suffixes
  <2>2. Entry(r)' = [serialNumber |-> urn, version |-> v]
    BY <1>1, <1>2, <1>3, <2>1 DEF Entry, Abstract, NumberedKey, UploadKey, TypeOK
  <2> QED
    BY <2>2, OthersEntry DEF Entries
<1>8. R!MayEnter(branch[r], urn, v)
  <2>1. \A w \in 1 .. MaxInt : w \in Versions /\ w \in Int
    BY SmallVersions
  <2>2. \A w \in 1 .. MaxInt : Registered[<<urn, w>>] # Absent <=> w \in StoredVersions(urn)
    BY <1>1, <2>1, UploadAssumption
       DEF Registered, HolderOf, StoredVersions, UploadKey, RegistryInvariant, OnlyUploads
  <2>3. StoredVersions(urn) \subseteq 1 .. MaxInt
    BY <1>1, StoreAssumption
       DEF StoredVersions, RegistryInvariant, OnlyUploads, Versions, MinInt
  <2>4. R!Entered(urn) = StoredVersions(urn)
    BY <2>2, <2>3 DEF R!Entered, R!Positive, Registered
  <2> QED
    BY <1>1, <2>4 DEF FreeToPut, Follows, R!MayEnter, R!IsNext
<1>9. R!Enter(r, urn, v)
  BY <1>2, <1>4, <1>5, <1>6, <1>7, <1>8
     DEF R!Enter, R!NoEntry, Registered, Entries, Entry, Replies
<1>10. urn \in Urns /\ v \in R!Positive
  BY DEF R!Positive
<1> QED
  BY <1>9, <1>10

(* An answer is given to an upload that is entered if it is a 201, and to  *)
(* one that is not if it is a refusal or a conflict.                       *)
LEMMA AnswerMaps ==
  ASSUME RegistryInvariant, RegistryInvariant', NEW r \in Requests, Step(r),
         NEW a \in {"created", "conflict", "refused", "error"},
         UNCHANGED branch, ~ SendNumbered(r), answer[r] = "none",
         Replies' = [Replies EXCEPT ![r] = a],
         a = "created" => Entry(r) # R!NoEntry,
         a \in {"conflict", "refused"} => Entry(r) = R!NoEntry,
         a = "conflict" => branch[r] = "keep"
  PROVE  R!Answer(r, a)
<1>1. Registered' = Registered /\ Entries' = Entries
  BY RegisteredStays, EntriesStay
<1>2. Replies[r] = "none" /\ Entries[r] = Entry(r)
  BY DEF Replies, Entries
<1> QED
  BY <1>1, <1>2 DEF R!Answer, R!NoEntry, Registered, Entries, Entry, Replies

(* Whatever else the handler does is not visible.                          *)
LEMMA SilentMaps ==
  ASSUME RegistryInvariant, RegistryInvariant', NEW r \in Requests, Step(r),
         UNCHANGED <<branch, answer>>, ~ SendNumbered(r)
  PROVE  UNCHANGED R!vars
<1>1. Registered' = Registered /\ Entries' = Entries /\ Replies' = Replies
  BY RegisteredStays, EntriesStay DEF Replies
<1> QED
  BY <1>1 DEF R!vars, Registered, Entries, Entry, Replies

LEMMA StepMaps ==
  ASSUME RegistryInvariant, RegistryInvariant', NEW r \in Requests, Step(r)
  PROVE  [R!Next]_(R!vars)
<1> SUFFICES \/ \E b \in {"generate", "assign", "keep"} : R!Start(r, b)
             \/ \E urn \in Urns, v \in R!Positive : R!Enter(r, urn, v)
             \/ \E a \in {"created", "conflict", "refused", "error"} : R!Answer(r, a)
             \/ UNCHANGED R!vars
  BY DEF R!Next
<1>1. TypeOK
  BY DEF RegistryInvariant, SerialInvariant, UploadInvariant
<1>2. CASE Begin(r)
  BY <1>2, BeginMaps
<1>3. CASE SendNumbered(r)
  BY <1>3, PutMaps
<1>4. CASE Refuse(r)
  <2>1. /\ pc[r] = "waiting" /\ UNCHANGED branch /\ ~ SendNumbered(r)
        /\ answer' = [answer EXCEPT ![r] = "refused"]
    BY <1>4 DEF Refuse, Arrive, Reply, SendNumbered, PutEffect
  <2>2. answer[r] = "none" /\ HoldsNothing(r)
    BY <2>1 DEF RegistryInvariant, Alone, SerialInvariant, UploadInvariant, HistoryAnswered
  <2>3. Replies' = [Replies EXCEPT ![r] = "refused"]
    BY <1>1, <2>1 DEF Replies, TypeOK
  <2> QED
    BY <1>1, <2>1, <2>2, <2>3, NotEntered, AnswerMaps
<1>5. CASE CheckExists(r)
  <2>1. pc[r] = "check" /\ UNCHANGED branch /\ ~ SendNumbered(r)
    BY <1>5 DEF CheckExists, SendNumbered, PutEffect
  <2>2. answer[r] = "none" /\ HoldsNothing(r) /\ branch[r] = "keep"
    BY <2>1 DEF RegistryInvariant, Alone, SerialInvariant, UploadInvariant, HistoryAnswered,
                BranchKept, Working
  <2>3. CASE answer' = [answer EXCEPT ![r] = "conflict"]
    <3>1. Replies' = [Replies EXCEPT ![r] = "conflict"]
      BY <1>1, <2>3 DEF Replies, TypeOK
    <3> QED
      BY <1>1, <2>1, <2>2, <3>1, NotEntered, AnswerMaps
  <2> QED
    BY <1>5, <2>1, <2>3, SilentMaps DEF CheckExists, Reply
<1>6. CASE ListLastPage(r)
  <2>1. pc[r] = "listing" /\ UNCHANGED branch /\ ~ SendNumbered(r)
    BY <1>6 DEF ListLastPage, SendNumbered, PutEffect
  <2>2. answer[r] = "none"
    BY <2>1 DEF RegistryInvariant, SerialInvariant, UploadInvariant, HistoryAnswered, Working
  <2>3. CASE \/ answer' = [answer EXCEPT ![r] = "error"]
             \/ answer' = [answer EXCEPT ![r] = "panic"]
    <3>1. Replies' = [Replies EXCEPT ![r] = "error"]
      BY <1>1, <2>3 DEF Replies, TypeOK
    <3> QED
      BY <2>1, <2>2, <3>1, AnswerMaps
  <2> QED
    BY <1>6, <2>1, <2>3, SilentMaps DEF ListLastPage, AssignFrom, Reply
<1>7. CASE UploadReturned(r)
  <2>1. /\ pc[r] = "sent" /\ UNCHANGED branch /\ ~ SendNumbered(r)
        /\ answer' = [answer EXCEPT ![r] = "created"]
    BY <1>7 DEF UploadReturned, Reply, SendNumbered, PutEffect
  <2>2. answer[r] = "none" /\ bucket[NumberedKey(r)] = r /\ bom[r].serialNumber \in Urns
    BY <2>1 DEF RegistryInvariant, Alone, SerialInvariant, UploadInvariant, HistoryAnswered,
                SerialKnown, Working
  <2>3. Replies' = [Replies EXCEPT ![r] = "created"]
    BY <1>1, <2>1 DEF Replies, TypeOK
  <2>4. Entry(r) # R!NoEntry
    BY <2>2, UploadAssumption DEF Entry, Abstract, R!NoEntry
  <2> QED
    BY <2>1, <2>2, <2>3, <2>4, AnswerMaps
<1>8. CASE Fail(r) /\ ~ SendNumbered(r)
  <2>1. UNCHANGED branch /\ answer' = [answer EXCEPT ![r] = "error"] /\ answer[r] = "none"
    BY <1>8 DEF Fail, RegistryInvariant, SerialInvariant, UploadInvariant, HistoryAnswered
  <2>2. Replies' = [Replies EXCEPT ![r] = "error"]
    BY <1>1, <2>1 DEF Replies, TypeOK
  <2> QED
    BY <1>8, <2>1, <2>2, AnswerMaps
<1>9. CASE \/ GenerateSerial(r) \/ ListFirstPage(r) \/ OriginalReturned(r)
           \/ Puts(r) /\ ~ SendNumbered(r)
  <2>1. UNCHANGED <<branch, answer>>
    BY <1>9, PutCases DEF GenerateSerial, ListFirstPage, OriginalReturned
  <2>2. ~ SendNumbered(r)
    BY <1>9 DEF GenerateSerial, ListFirstPage, OriginalReturned, SendNumbered, PutEffect
  <2> QED
    BY <2>1, <2>2, SilentMaps
<1> QED
  BY StepCases, <1>2, <1>3, <1>4, <1>5, <1>6, <1>7, <1>8, <1>9 DEF Begin

(* Clients that wait for each answer find a registry that is written once  *)
(* per serial number and version: uploads never overwrite one another,     *)
(* assign exactly the version after the latest, and acknowledge what is    *)
(* stored, however they fail, as long as a failed PUT does not land later, *)
(* the bucket had no versions at first and none overflows.                 *)
THEOREM SerialUploadsImplementRegistry ==
  ASSUME IsFiniteSet(Requests), MaxInFlight <= 1, LateEffects = FALSE,
         Stored \cap (Urns \X Versions) = {}
  PROVE  Spec /\ []NoVersionWraps => ImplementsRegistry
<1>1. Init => RegistryInvariant /\ R!Init
  BY RegistryInvariantInit, InitMaps
<1>2. RegistryInvariant /\ NoVersionWraps' /\ [Next]_vars => RegistryInvariant'
  BY RegistryInvariantStep
<1>3. RegistryInvariant /\ RegistryInvariant' /\ [Next]_vars => [R!Next]_(R!vars)
  <2> SUFFICES ASSUME RegistryInvariant, RegistryInvariant', [Next]_vars
               PROVE  [R!Next]_(R!vars)
    OBVIOUS
  <2>1. CASE UNCHANGED vars
    <3>1. UNCHANGED R!vars
      BY <2>1 DEF vars, R!vars, HolderOf, Abstract, NumberedKey, UploadKey
    <3> QED
      BY <3>1
  <2>2. ASSUME NEW r \in Requests, Step(r) PROVE [R!Next]_(R!vars)
    BY <2>2, StepMaps
  <2> QED
    BY <2>1, <2>2 DEF Next
<1> QED
  BY <1>1, <1>2, <1>3, PTL DEF Spec, ImplementsRegistry, R!Spec
=============================================================================
