---------------------------- MODULE UploadProofs ----------------------------
(***************************************************************************)
(* Proofs about Upload for any number of requests, serial numbers, width   *)
(* of int, overlap and late effects.                                       *)
(***************************************************************************)
EXTENDS Upload, TLAPS

BomType == [serialNumber : Urns \cup {NoSerial}, version : Versions]

(* Go's int addition stays in the width of an int.                         *)
LEMMA PlusOneType ==
  ASSUME NEW v \in Versions PROVE PlusOne(v) \in Versions
BY StoreAssumption DEF PlusOne, Versions, MinInt

(* The versions the code writes as constants are ints.                     *)
LEMMA SmallVersions == 0 \in Versions /\ 1 \in Versions /\ 1 .. MaxInt \subseteq Versions
BY StoreAssumption DEF Versions, MinInt

(* Every version a listing can be followed by is an int.                   *)
LEMMA NextVersionsType ==
  ASSUME NEW listing, NEW v \in NextVersions(listing)
  PROVE  v \in Versions
BY PlusOneType DEF NextVersions, IsLast, Numbers

(* A client only names serial numbers of the model.                        *)
LEMMA UrnsKnown ==
  ASSUME TypeOK PROVE KnownSerials \subseteq Urns
BY UploadAssumption DEF TypeOK, KnownSerials

(* The handler's position and its answer keep their types when it moves.   *)
LEMMA GotoType ==
  ASSUME pc \in [Requests -> Labels], NEW r \in Requests,
         NEW label \in Labels, Goto(r, label)
  PROVE  pc' \in [Requests -> Labels]
BY DEF Goto

(* Answering keeps the types of positions and answers.                     *)
LEMMA ReplyType ==
  ASSUME TypeOK, NEW r \in Requests, NEW a \in Answers, Reply(r, a)
  PROVE  pc' \in [Requests -> Labels] /\ answer' \in [Requests -> Answers]
BY DEF Reply, Goto, TypeOK, Labels

(* A PUT keeps every type: it stores the document of a request.            *)
LEMMA PutEffectType ==
  ASSUME TypeOK, NEW r \in Requests, NEW key, NEW from, NEW to \in Labels,
         PutEffect(r, key, from, to)
  PROVE  TypeOK'
BY DEF PutEffect, Goto, TypeOK, Docs

(* Setting the version of a bom keeps its type.                            *)
LEMMA SetVersionType ==
  ASSUME bom \in [Requests -> BomType], NEW r \in Requests, NEW v \in Versions,
         bom' = [bom EXCEPT ![r].version = v]
  PROVE  bom' \in [Requests -> BomType]
BY DEF BomType

-----------------------------------------------------------------------------
(* The type invariant holds at first.                                      *)
LEMMA TypeInit == Init => TypeOK
BY SmallVersions DEF Init, TypeOK, Docs, Labels, Branches, Answers

(* Every step of every handler keeps the type invariant.                   *)
LEMMA TypeStep == TypeOK /\ [Next]_vars => TypeOK'
<1> SUFFICES ASSUME TypeOK, [Next]_vars PROVE TypeOK'
  OBVIOUS
<1>1. CASE UNCHANGED vars
  BY <1>1 DEF TypeOK, vars
<1>2. ASSUME NEW r \in Requests, Refuse(r) PROVE TypeOK'
  BY <1>2 DEF Refuse, Arrive, Reply, Goto, TypeOK, Labels, Answers
<1>3. ASSUME NEW r \in Requests, BeginGenerate(r) PROVE TypeOK'
  BY <1>3, SmallVersions
     DEF BeginGenerate, Arrive, Enter, Goto, TypeOK, Labels, Working, Branches
<1>4. ASSUME NEW r \in Requests, BeginAssign(r) PROVE TypeOK'
  BY <1>4, UrnsKnown
     DEF BeginAssign, Arrive, Enter, Goto, TypeOK, Labels, Working, Branches
<1>5. ASSUME NEW r \in Requests, BeginKeep(r) PROVE TypeOK'
  BY <1>5, UrnsKnown, SmallVersions, UploadAssumption
     DEF BeginKeep, Arrive, Enter, Goto, TypeOK, Labels, Working, Branches
<1>6. ASSUME NEW r \in Requests, GenerateSerial(r) PROVE TypeOK'
  BY <1>6, UploadAssumption
     DEF GenerateSerial, Draws, Goto, TypeOK, Labels, Working
<1>7. ASSUME NEW r \in Requests, CheckExists(r) PROVE TypeOK'
  BY <1>7 DEF CheckExists, Reply, Goto, TypeOK, Labels, Working, Answers
<1>8. ASSUME NEW r \in Requests, ListFirstPage(r) PROVE TypeOK'
  BY <1>8 DEF ListFirstPage, Listing, Goto, TypeOK, Labels, Working
<1>9. ASSUME NEW r \in Requests, ListLastPage(r) PROVE TypeOK'
  <2>1. PICK new : AssignFrom(r, listed[r] \cup new)
    BY <1>9 DEF ListLastPage
  <2>2. pc' \in [Requests -> Labels] /\ answer' \in [Requests -> Answers]
    BY <2>1 DEF AssignFrom, Reply, Goto, TypeOK, Labels, Working, Answers
  <2>3. bom' \in [Requests -> BomType]
    <3>1. bom \in [Requests -> BomType]
      BY DEF TypeOK, BomType
    <3>2. \/ UNCHANGED bom
          \/ \E v \in Versions : bom' = [bom EXCEPT ![r].version = v]
      BY <2>1, NextVersionsType, SmallVersions DEF AssignFrom
    <3> QED
      BY <3>1, <3>2, SetVersionType
  <2> QED
    BY <1>9, <2>2, <2>3 DEF ListLastPage, TypeOK, BomType
<1>10. ASSUME NEW r \in Requests, OriginalReturned(r) PROVE TypeOK'
  BY <1>10 DEF OriginalReturned, Goto, TypeOK, Labels, Working
<1>11. ASSUME NEW r \in Requests, UploadReturned(r) PROVE TypeOK'
  BY <1>11 DEF UploadReturned, Reply, Goto, TypeOK, Labels, Answers
<1>12. ASSUME NEW r \in Requests, Fail(r) PROVE TypeOK'
  BY <1>12 DEF Fail, AfterFailure, Goto, TypeOK, Labels, Answers
<1>13. ASSUME NEW r \in Requests,
              SendOriginal(r) \/ SendNumbered(r) \/ Repeat(r) \/ Landing(r)
       PROVE  TypeOK'
  BY <1>13, PutEffectType
     DEF SendOriginal, SendNumbered, Repeat, ResendOriginal, ResendNumbered,
         Landing, OriginalLands, NumberedLands, Labels, Working
<1> QED
  BY <1>1, <1>2, <1>3, <1>4, <1>5, <1>6, <1>7, <1>8, <1>9, <1>10, <1>11, <1>12,
     <1>13
     DEF Next, Step, Begin, Progress, Generating, Assigning, Storing

(* The store, the handlers and the history keep their types, which every   *)
(* other proof about the uploads rests on.                                 *)
THEOREM TypeCorrect == Spec => []TypeOK
BY TypeInit, TypeStep, PTL DEF Spec

-----------------------------------------------------------------------------
(* Who a step concerns.                                                    *)

Unmoved(q) ==
  /\ pc'[q] = pc[q] /\ bom'[q] = bom[q] /\ branch'[q] = branch[q]
  /\ listed'[q] = listed[q] /\ answer'[q] = answer[q] /\ before'[q] = before[q]

(* The three things a step can do to the bucket.                           *)
PutsNumbered(r) ==
  /\ pc[r] \in {"put", "sent", "latePut"}
  /\ bucket' = [bucket EXCEPT ![NumberedKey(r)] = r]
PutsOriginal(r) ==
  /\ pc[r] \in {"putOriginal", "originalSent", "lateOriginal"}
  /\ bucket' = [bucket EXCEPT ![OriginalKey(r)] = r]

Puts(r) ==
  SendOriginal(r) \/ SendNumbered(r) \/ Repeat(r) \/ Landing(r)

(* The actions a step of a request can be.                                 *)
LEMMA StepCases ==
  ASSUME NEW r \in Requests, Step(r)
  PROVE  \/ Refuse(r) \/ BeginGenerate(r) \/ BeginAssign(r) \/ BeginKeep(r)
         \/ GenerateSerial(r) \/ CheckExists(r) \/ ListFirstPage(r) \/ ListLastPage(r)
         \/ OriginalReturned(r) \/ UploadReturned(r) \/ Fail(r) \/ Puts(r)
BY DEF Step, Begin, Progress, Generating, Assigning, Storing, Puts

(* A PUT, of either kind, changes one key, the position and nothing else.  *)
LEMMA PutCases ==
  ASSUME NEW r \in Requests, Puts(r)
  PROVE  /\ PutsNumbered(r) \/ PutsOriginal(r)
         /\ UNCHANGED <<bom, branch, listed, drawn, answer, before>>
         /\ \E to \in {"originalSent", "sent", "done"} : Goto(r, to)
         /\ pc[r] \in Working \/ (pc[r] \in {"lateOriginal", "latePut"} /\ Goto(r, "done"))
BY DEF Puts, SendOriginal, SendNumbered, Repeat, ResendOriginal, ResendNumbered,
       Landing, OriginalLands, NumberedLands, PutEffect, PutsNumbered,
       PutsOriginal, Working

(* A step of one request leaves the records of all others alone.           *)
LEMMA OthersStand ==
  ASSUME TypeOK, NEW r \in Requests, Step(r), NEW q \in Requests, q # r
  PROVE  Unmoved(q)
<1>1. CASE Refuse(r)
  BY <1>1 DEF Refuse, Arrive, Reply, Goto, Unmoved, TypeOK
<1>2. CASE BeginGenerate(r)
  BY <1>2 DEF BeginGenerate, Arrive, Enter, Goto, Unmoved, TypeOK
<1>3. CASE BeginAssign(r) \/ BeginKeep(r)
  BY <1>3 DEF BeginAssign, BeginKeep, Arrive, Enter, Goto, Unmoved, TypeOK
<1>4. CASE GenerateSerial(r)
  BY <1>4 DEF GenerateSerial, Goto, Unmoved, TypeOK
<1>5. CASE CheckExists(r)
  BY <1>5 DEF CheckExists, Reply, Goto, Unmoved, TypeOK
<1>6. CASE ListFirstPage(r)
  BY <1>6 DEF ListFirstPage, Goto, Unmoved, TypeOK
<1>7. CASE ListLastPage(r)
  BY <1>7 DEF ListLastPage, AssignFrom, Reply, Goto, Unmoved, TypeOK
<1>8. CASE OriginalReturned(r)
  BY <1>8 DEF OriginalReturned, Goto, Unmoved, TypeOK
<1>9. CASE UploadReturned(r)
  BY <1>9 DEF UploadReturned, Reply, Goto, Unmoved, TypeOK
<1>10. CASE Fail(r)
  BY <1>10 DEF Fail, Goto, Unmoved, TypeOK
<1>11. CASE Puts(r)
  BY <1>11, PutCases DEF Goto, Unmoved, TypeOK
<1> QED
  BY StepCases, <1>1, <1>2, <1>3, <1>4, <1>5, <1>6, <1>7, <1>8, <1>9, <1>10, <1>11

(* Only a delayed PUT still acts for a request that has its answer.        *)
LEMMA ActorUnanswered ==
  ASSUME NEW r \in Requests, Step(r), ~ Puts(r)
  PROVE  pc[r] \in Working \cup {"waiting"}
BY StepCases
   DEF Refuse, Arrive, BeginGenerate, BeginAssign, BeginKeep, GenerateSerial,
       CheckExists, ListFirstPage, ListLastPage, OriginalReturned,
       UploadReturned, Fail, Working

(* An answer stands, and nothing about an acknowledged request changes.    *)
LEMMA AnswersStand ==
  ASSUME UploadInvariant, NEW r \in Requests, Step(r),
         NEW a \in Requests, answer[a] # "none"
  PROVE  answer'[a] = answer[a] /\ (Created(a) => Unmoved(a))
<1>1. CASE a # r
  BY <1>1, OthersStand DEF Unmoved, UploadInvariant
<1>2. CASE a = r
  <2>1. pc[r] \notin Working \cup {"waiting"}
    BY <1>2 DEF UploadInvariant, HistoryAnswered
  <2>2. Puts(r)
    BY <2>1, ActorUnanswered
  <2>3. UNCHANGED answer /\ pc[r] \in {"lateOriginal", "latePut"}
    BY <2>1, <2>2, PutCases
  <2> QED
    BY <1>2, <2>3 DEF UploadInvariant, HistoryAnswered, Created
<1> QED
  BY <1>1, <1>2

-----------------------------------------------------------------------------
(* What a step does to the request that takes it.                          *)

(* A request that moves fixes its history on arrival only, and has no      *)
(* answer while it works.                                                  *)
LEMMA ActorHistory ==
  ASSUME UploadInvariant, NEW r \in Requests, Step(r)
  PROVE  /\ \/ before'[r] = before[r]
            \/ pc[r] = "waiting" /\ before'[r] = {q \in Requests : answer[q] # "none"}
         /\ pc'[r] \in Working \cup {"waiting"} => answer'[r] = "none"
         /\ Created(r)' => pc'[r] = "done"
<1> USE DEF UploadInvariant, HistoryAnswered, TypeOK, Created
<1>1. CASE Refuse(r)
  BY <1>1 DEF Refuse, Arrive, Reply, Goto, Working
<1>2. CASE BeginGenerate(r) \/ BeginAssign(r) \/ BeginKeep(r)
  BY <1>2 DEF BeginGenerate, BeginAssign, BeginKeep, Arrive, Enter, Goto
<1>3. CASE GenerateSerial(r) \/ ListFirstPage(r) \/ OriginalReturned(r)
  BY <1>3 DEF GenerateSerial, ListFirstPage, OriginalReturned, Goto, Working
<1>4. CASE CheckExists(r) \/ UploadReturned(r)
  BY <1>4 DEF CheckExists, UploadReturned, Reply, Goto, Working
<1>5. CASE ListLastPage(r)
  BY <1>5 DEF ListLastPage, AssignFrom, Reply, Goto, Working
<1>6. CASE Fail(r)
  BY <1>6 DEF Fail, AfterFailure, Goto, Working
<1>7. CASE Puts(r)
  BY <1>7, PutCases DEF Goto, Working
<1> QED
  BY StepCases, <1>1, <1>2, <1>3, <1>4, <1>5, <1>6, <1>7

(* What is in a history stays answered.                                    *)
LEMMA HistoryAnsweredStep ==
  ASSUME UploadInvariant, NEW r \in Requests, Step(r)
  PROVE  HistoryAnswered'
<1> SUFFICES ASSUME NEW q \in Requests
             PROVE  /\ \A a \in before'[q] : answer'[a] # "none"
                    /\ pc'[q] \in Working \cup {"waiting"} => answer'[q] = "none"
                    /\ Created(q)' => pc'[q] = "done"
  BY DEF HistoryAnswered, Created
<1>1. before[q] \subseteq Requests
  BY DEF UploadInvariant, TypeOK
<1>2. CASE q = r
  <2>1. \A a \in before'[r] : a \in Requests /\ answer[a] # "none"
    BY <1>1, <1>2, ActorHistory DEF UploadInvariant, HistoryAnswered
  <2> QED
    BY <1>2, <2>1, ActorHistory, AnswersStand
<1>3. CASE q # r
  <2>1. Unmoved(q)
    BY <1>3, OthersStand DEF UploadInvariant
  <2>2. \A a \in before'[q] : a \in Requests /\ answer[a] # "none"
    BY <1>1, <2>1 DEF Unmoved, UploadInvariant, HistoryAnswered
  <2> QED
    BY <2>1, <2>2, AnswersStand DEF Unmoved, UploadInvariant, HistoryAnswered, Created
<1> QED
  BY <1>2, <1>3

(* An original's key is never a numbered one.                              *)
LEMMA NumberedUnlikeOriginal ==
  ASSUME TypeOK, NEW q \in Requests, NEW r \in Requests
  PROVE  NumberedKey(q) # OriginalKey(r)
<1>1. bom[q].version \in Int
  BY StoreAssumption DEF TypeOK, Versions, MinInt
<1> QED
  BY <1>1, StoreAssumption DEF NumberedKey, OriginalKey, UploadKey

(* No step takes an object away, and a new one is its writer's.            *)
LEMMA BucketStep ==
  ASSUME UploadInvariant, NEW r \in Requests, Step(r)
  PROVE  \A k \in Keys : bucket'[k] = bucket[k] \/ (bucket'[k] = r /\ Puts(r))
<1>1. CASE Puts(r)
  BY <1>1, PutCases DEF PutsNumbered, PutsOriginal, UploadInvariant, TypeOK
<1>2. CASE ~ Puts(r)
  <2>1. UNCHANGED bucket
    BY <1>2, StepCases
       DEF Refuse, BeginGenerate, BeginAssign, BeginKeep, GenerateSerial,
           CheckExists, ListFirstPage, ListLastPage, OriginalReturned,
           UploadReturned, Fail
  <2> QED
    BY <2>1
<1> QED
  BY <1>1, <1>2

(* A request arrives once.                                                 *)
LEMMA NeverWaitsAgain ==
  ASSUME TypeOK, NEW r \in Requests, Step(r)
  PROVE  /\ pc'[r] # "waiting"
         /\ \A q \in Requests : pc[q] # "waiting" => pc'[q] # "waiting"
<1>1. pc'[r] # "waiting"
  <2> USE DEF TypeOK
  <2>1. CASE Puts(r)
    BY <2>1, PutCases DEF Goto
  <2>2. CASE Refuse(r) \/ CheckExists(r) \/ UploadReturned(r)
    BY <2>2 DEF Refuse, CheckExists, UploadReturned, Reply, Goto
  <2>3. CASE BeginGenerate(r) \/ BeginAssign(r) \/ BeginKeep(r)
    BY <2>3 DEF BeginGenerate, BeginAssign, BeginKeep, Enter, Goto
  <2>4. CASE GenerateSerial(r) \/ ListFirstPage(r) \/ OriginalReturned(r)
    BY <2>4 DEF GenerateSerial, ListFirstPage, OriginalReturned, Goto
  <2>5. CASE ListLastPage(r)
    BY <2>5 DEF ListLastPage, AssignFrom, Reply, Goto
  <2>6. CASE Fail(r)
    BY <2>6 DEF Fail, AfterFailure, Goto
  <2> QED
    BY StepCases, <2>1, <2>2, <2>3, <2>4, <2>5, <2>6
<1> QED
  BY <1>1, OthersStand DEF Unmoved

(* An object under a key is never that of a request still to come.         *)
LEMMA HoldersArrivedStep ==
  ASSUME UploadInvariant, NEW r \in Requests, Step(r)
  PROVE  HoldersArrived'
<1>1. \A q \in Requests : pc[q] # "waiting" => pc'[q] # "waiting"
  BY NeverWaitsAgain DEF UploadInvariant
<1>2. Puts(r) => pc[r] # "waiting"
  BY PutCases DEF Working
<1> QED
  BY <1>1, <1>2, BucketStep DEF HoldersArrived, UploadInvariant

-----------------------------------------------------------------------------
(* The request that moves has a serial number once its lookup is over.     *)
LEMMA SerialKnownActor ==
  ASSUME UploadInvariant, NEW r \in Requests, Step(r)
  PROVE  /\ pc'[r] \notin {"waiting", "generate", "done"} \/ Created(r)'
              => bom'[r].serialNumber \in Urns
         /\ pc'[r] \in {"generate", "putOriginal", "originalSent"} => bom'[r].version = 1
         /\ pc'[r] = "sent" => bucket'[NumberedKey(r)'] \in Requests
<1> USE DEF UploadInvariant, TypeOK, SerialKnown, HistoryAnswered, Created
<1>1. CASE Refuse(r)
  BY <1>1 DEF Refuse, Arrive, Reply, Goto, Working
<1>2. CASE BeginGenerate(r)
  BY <1>2 DEF BeginGenerate, Arrive, Enter, Goto
<1>3. CASE BeginAssign(r)
  BY <1>3, UrnsKnown DEF BeginAssign, Arrive, Enter, Goto
<1>4. CASE BeginKeep(r)
  BY <1>4, UrnsKnown DEF BeginKeep, Arrive, Enter, Goto
<1>5. CASE GenerateSerial(r)
  BY <1>5, UploadAssumption DEF GenerateSerial, Draws, Goto, Working
<1>6. CASE CheckExists(r)
  BY <1>6 DEF CheckExists, Reply, Goto, Working
<1>7. CASE ListFirstPage(r)
  BY <1>7 DEF ListFirstPage, Goto, Working
<1>8. CASE ListLastPage(r)
  BY <1>8 DEF ListLastPage, AssignFrom, Reply, Goto, Working
<1>9. CASE OriginalReturned(r)
  BY <1>9 DEF OriginalReturned, Goto, Working
<1>10. CASE UploadReturned(r)
  BY <1>10 DEF UploadReturned, Reply, Goto
<1>11. CASE Fail(r)
  BY <1>11 DEF Fail, AfterFailure, Goto, Working
<1>12. CASE Puts(r)
  <2>1. UNCHANGED bom /\ UNCHANGED answer
    BY <1>12, PutCases
  <2>2. CASE PutsNumbered(r)
    <3>1. bom[r].serialNumber \in Urns /\ bom[r].version \in Versions
      BY <2>2 DEF PutsNumbered
    <3>2. NumberedKey(r) \in Keys
      BY <3>1 DEF NumberedKey, UploadKey, Keys, Suffixes
    <3>3. bucket'[NumberedKey(r)'] = r
      BY <2>1, <2>2, <3>2 DEF PutsNumbered, NumberedKey, UploadKey
    <3>4. pc'[r] \in {"sent", "done"}
      BY <2>2, <1>12
         DEF Puts, PutsNumbered, SendOriginal, SendNumbered, Repeat,
             ResendOriginal, ResendNumbered, Landing, OriginalLands,
             NumberedLands, PutEffect, Goto
    <3> QED
      BY <2>1, <3>1, <3>3, <3>4
  <2>3. CASE PutsOriginal(r)
    <3>1. \/ pc'[r] = "originalSent" /\ pc[r] \in {"putOriginal", "originalSent"}
          \/ pc'[r] = "done"
      BY <2>3, <1>12
         DEF Puts, PutsOriginal, SendOriginal, SendNumbered, Repeat,
             ResendOriginal, ResendNumbered, Landing, OriginalLands,
             NumberedLands, PutEffect, Goto
    <3> QED
      BY <2>1, <2>3, <3>1 DEF PutsOriginal
  <2> QED
    BY <1>12, <2>2, <2>3, PutCases
<1> QED
  BY StepCases, <1>1, <1>2, <1>3, <1>4, <1>5, <1>6, <1>7, <1>8, <1>9, <1>10,
     <1>11, <1>12

(* So have all the others.                                                 *)
LEMMA SerialKnownStep ==
  ASSUME UploadInvariant, NEW r \in Requests, Step(r)
  PROVE  SerialKnown'
<1> SUFFICES ASSUME NEW q \in Requests, q # r
             PROVE  /\ pc'[q] \notin {"waiting", "generate", "done"} \/ Created(q)'
                         => bom'[q].serialNumber \in Urns
                    /\ pc'[q] \in {"generate", "putOriginal", "originalSent"}
                         => bom'[q].version = 1
                    /\ pc'[q] = "sent" => bucket'[NumberedKey(q)'] \in Requests
  BY SerialKnownActor DEF SerialKnown
<1>1. Unmoved(q)
  BY OthersStand DEF UploadInvariant
<1>2. pc'[q] = "sent" => bucket'[NumberedKey(q)'] \in Requests
  <2> SUFFICES ASSUME pc[q] = "sent" PROVE bucket'[NumberedKey(q)] \in Requests
    BY <1>1 DEF Unmoved, NumberedKey, UploadKey
  <2>1. NumberedKey(q) \in Keys /\ bucket[NumberedKey(q)] \in Requests
    BY DEF UploadInvariant, SerialKnown, TypeOK, NumberedKey, UploadKey, Keys, Suffixes
  <2> QED
    BY <2>1, BucketStep
<1> QED
  BY <1>1, <1>2 DEF Unmoved, UploadInvariant, SerialKnown, Created

(* An acknowledged upload's numbered key is a key of the bucket.           *)
LEMMA AckedKey ==
  ASSUME UploadInvariant, NEW a \in Requests, Created(a)
  PROVE  NumberedKey(a) \in Keys
BY DEF UploadInvariant, SerialKnown, TypeOK, NumberedKey, UploadKey, Keys, Suffixes

(* Someone stands under it, so a lookup finds it.                          *)
LEMMA AckedHeld ==
  ASSUME UploadInvariant, NEW a \in Requests, Created(a), bom[a].version >= 1
  PROVE  bucket[NumberedKey(a)] # Absent
BY UploadAssumption DEF UploadInvariant, AckedNeverReplacedLater

(* And so a LIST of its serial number contains its version.                *)
LEMMA AckedListed ==
  ASSUME UploadInvariant, NEW a \in Requests, Created(a), bom[a].version >= 1
  PROVE  bom[a].version \in Listing(bucket, bom[a].serialNumber)
BY AckedHeld
   DEF Listing, NumberedKey, UploadInvariant, TypeOK, Suffixes

(* The first page of a LIST contains what was acknowledged before it       *)
(* began.                                                                  *)
LEMMA ListedAckedStep ==
  ASSUME UploadInvariant, NEW r \in Requests, Step(r)
  PROVE  ListedAcked'
<1> SUFFICES ASSUME NEW q \in Requests, pc'[q] = "listing", NEW a \in before'[q],
                    Created(a)', bom'[a].version >= 1,
                    bom'[q].serialNumber = bom'[a].serialNumber
             PROVE  bom'[a].version \in listed'[q]
  BY DEF ListedAcked, SameSerial
<1>1. CASE q # r
  <2>1. Unmoved(q)
    BY <1>1, OthersStand DEF UploadInvariant
  <2>2. a \in Requests /\ a \in before[q] /\ answer[a] # "none"
    BY <2>1 DEF Unmoved, UploadInvariant, TypeOK, HistoryAnswered
  <2>3. Created(a) /\ bom'[a] = bom[a]
    BY <2>2, AnswersStand DEF Created, Unmoved
  <2> QED
    BY <2>1, <2>2, <2>3 DEF Unmoved, UploadInvariant, ListedAcked, SameSerial
<1>2. CASE q = r
  <2>1. ListFirstPage(r)
    <3> USE DEF UploadInvariant, TypeOK
    <3>1. ~ Puts(r)
      BY <1>2, PutCases DEF Goto
    <3>2. ~ (Refuse(r) \/ CheckExists(r) \/ UploadReturned(r))
      BY <1>2 DEF Refuse, CheckExists, UploadReturned, Reply, Goto
    <3>3. ~ (BeginGenerate(r) \/ BeginAssign(r) \/ BeginKeep(r))
      BY <1>2 DEF BeginGenerate, BeginAssign, BeginKeep, Enter, Goto
    <3>4. ~ (GenerateSerial(r) \/ OriginalReturned(r))
      BY <1>2 DEF GenerateSerial, OriginalReturned, Goto
    <3>5. ~ (ListLastPage(r) \/ Fail(r))
      BY <1>2 DEF ListLastPage, AssignFrom, Reply, Fail, AfterFailure, Goto
    <3> QED
      BY StepCases, <3>1, <3>2, <3>3, <3>4, <3>5
  <2>2. UNCHANGED <<bom, before, answer>>
        /\ listed'[r] = Listing(bucket, bom[r].serialNumber)
    BY <2>1 DEF ListFirstPage, UploadInvariant, TypeOK
  <2>3. a \in Requests
    BY <1>2, <2>2 DEF UploadInvariant, TypeOK
  <2> QED
    BY <1>2, <2>2, <2>3, AckedListed DEF Created
<1> QED
  BY <1>1, <1>2

-----------------------------------------------------------------------------
(* The heart of the argument: the three lookups of the service see what    *)
(* was acknowledged before their request arrived.                          *)

(* uploadCaseSNInvalid: version 1 of the drawn serial number was free, so  *)
(* nothing acknowledged before has it.                                     *)
LEMMA LookupGenerate ==
  ASSUME UploadInvariant, NEW r \in Requests, GenerateSerial(r),
         pc'[r] # "generate", NEW a \in before[r], Created(a)
  PROVE  bom[a] # bom'[r]
<1>1. a \in Requests
  BY DEF UploadInvariant, TypeOK
<1>2. PICK u \in Draws(r) : /\ bom' = [bom EXCEPT ![r].serialNumber = u]
                           /\ Goto(r, IF Taken(u) THEN "generate" ELSE "putOriginal")
  BY DEF GenerateSerial
<1>3. ~ Taken(u)
  BY <1>2 DEF Goto, UploadInvariant, TypeOK
<1>4. bom'[r].serialNumber = u /\ bom'[r].version = 1
  BY <1>2 DEF GenerateSerial, UploadInvariant, SerialKnown, TypeOK
<1>5. bom[a] = bom'[r] => NumberedKey(a) = UploadKey(u, 1) /\ bom[a].version >= 1
  BY <1>4 DEF NumberedKey
<1> QED
  BY <1>1, <1>3, <1>5, AckedHeld DEF Taken, KeyExists

(* uploadCaseSNValidVersionValid: the key was free, so nothing             *)
(* acknowledged before has it.                                             *)
LEMMA LookupCheck ==
  ASSUME UploadInvariant, NEW r \in Requests, CheckExists(r), pc'[r] = "put",
         bom[r].version >= 1, NEW a \in before[r], Created(a)
  PROVE  bom[a] # bom[r]
<1>1. a \in Requests
  BY DEF UploadInvariant, TypeOK
<1>2. bucket[NumberedKey(r)] = Absent
  BY DEF CheckExists, KeyExists, Reply, Goto, UploadInvariant, TypeOK
<1> QED
  BY <1>1, <1>2, AckedHeld DEF NumberedKey

(* uploadCaseSNValidVersionInvalid: the version assigned lies above        *)
(* everything acknowledged before.                                         *)
LEMMA LookupList ==
  ASSUME UploadInvariant, NEW r \in Requests, ListLastPage(r), pc'[r] = "put",
         bom'[r].version >= 1, NEW a \in before[r], Created(a), SameSerial(r, a)
  PROVE  bom[a].version < bom'[r].version
<1>1. a \in Requests /\ bom[a].version \in Int /\ bom'[r].version \in Int
  BY TypeStep, StoreAssumption
     DEF UploadInvariant, TypeOK, Versions, MinInt, Next, Step, Progress, Assigning
<1>2. CASE bom[a].version < 1
  BY <1>1, <1>2
<1>3. CASE bom[a].version >= 1
  <2>1. PICK new : AssignFrom(r, listed[r] \cup new)
    BY DEF ListLastPage
  <2> DEFINE L == listed[r] \cup new
  <2>2. bom[a].version \in Numbers(L)
    BY <1>3, <1>1 DEF UploadInvariant, ListedAcked, ListLastPage, TypeOK, Numbers
  <2>3. PICK v \in NextVersions(L) : bom' = [bom EXCEPT ![r].version = v]
    BY <2>1, <2>2
       DEF AssignFrom, ListingNotFound, Numbers, Reply, Goto, UploadInvariant, TypeOK
  <2>4. PICK w \in L : IsLast(w, Numbers(L)) /\ v = PlusOne(w)
    BY <2>3 DEF NextVersions
  <2>5. bom'[r].version = v
    BY <2>3 DEF UploadInvariant, TypeOK
  <2>6. bom[a].version <= w /\ w \in Int
    BY <2>2, <2>4, StoreAssumption DEF IsLast, Numbers, Versions, MinInt
  <2>7. w # MaxInt
    BY <2>4, <2>5, StoreAssumption DEF PlusOne, MinInt
  <2> QED
    BY <1>1, <2>4, <2>5, <2>6, <2>7 DEF PlusOne
<1> QED
  BY <1>1, <1>2, <1>3

(* A request may PUT a numbered object only after one of the lookups.      *)
LEMMA LookupFirst ==
  ASSUME UploadInvariant, NEW r \in Requests, Step(r), MayPutNumbered(r)'
  PROVE  \/ GenerateSerial(r) /\ pc'[r] # "generate"
         \/ CheckExists(r) /\ pc'[r] = "put"
         \/ ListLastPage(r) /\ pc'[r] = "put"
         \/ MayPutNumbered(r) /\ bom'[r] = bom[r]
<1> USE DEF UploadInvariant, TypeOK, MayPutNumbered
<1>1. CASE Refuse(r) \/ UploadReturned(r)
  BY <1>1 DEF Refuse, UploadReturned, Reply, Goto
<1>2. CASE BeginGenerate(r) \/ BeginAssign(r) \/ BeginKeep(r)
  BY <1>2 DEF BeginGenerate, BeginAssign, BeginKeep, Enter, Goto
<1>3. CASE ListFirstPage(r) \/ GenerateSerial(r) \/ OriginalReturned(r)
  BY <1>3 DEF ListFirstPage, GenerateSerial, OriginalReturned, Goto
<1>4. CASE CheckExists(r)
  BY <1>4 DEF CheckExists, Reply, Goto
<1>5. CASE ListLastPage(r)
  BY <1>5 DEF ListLastPage, AssignFrom, Reply, Goto
<1>6. CASE Fail(r)
  BY <1>6 DEF Fail, AfterFailure, Goto
<1>7. CASE Puts(r)
  BY <1>7 DEF Puts, SendOriginal, SendNumbered, Repeat, ResendOriginal,
       ResendNumbered, Landing, OriginalLands, NumberedLands, PutEffect, Goto
<1> QED
  BY StepCases, <1>1, <1>2, <1>3, <1>4, <1>5, <1>6, <1>7

(* A request stays in the branch it entered.                               *)
LEMMA BranchKeptStep ==
  ASSUME UploadInvariant, NEW r \in Requests, Step(r)
  PROVE  BranchKept'
<1>1. /\ pc'[r] = "generate" => branch'[r] = "generate"
      /\ pc'[r] = "check" => branch'[r] = "keep"
  <2> USE DEF UploadInvariant, TypeOK, BranchKept
  <2>1. CASE Refuse(r) \/ CheckExists(r) \/ UploadReturned(r)
    BY <2>1 DEF Refuse, CheckExists, UploadReturned, Reply, Goto
  <2>2. CASE BeginGenerate(r) \/ BeginAssign(r) \/ BeginKeep(r)
    BY <2>2 DEF BeginGenerate, BeginAssign, BeginKeep, Enter, Goto
  <2>3. CASE GenerateSerial(r) \/ ListFirstPage(r) \/ OriginalReturned(r)
    BY <2>3 DEF GenerateSerial, ListFirstPage, OriginalReturned, Goto
  <2>4. CASE ListLastPage(r)
    BY <2>4 DEF ListLastPage, AssignFrom, Reply, Goto
  <2>5. CASE Fail(r)
    BY <2>5 DEF Fail, AfterFailure, Goto
  <2>6. CASE Puts(r)
    BY <2>6, PutCases DEF Goto
  <2> QED
    BY StepCases, <2>1, <2>2, <2>3, <2>4, <2>5, <2>6
<1> QED
  BY <1>1, OthersStand DEF BranchKept, Unmoved, UploadInvariant

(* After its arrival a request's history and branch are fixed.             *)
LEMMA HistoryFixed ==
  ASSUME UploadInvariant, NEW r \in Requests, Step(r), pc[r] # "waiting"
  PROVE  before'[r] = before[r] /\ branch'[r] = branch[r]
<1>1. CASE Puts(r)
  BY <1>1, PutCases
<1>2. CASE ~ Puts(r)
  BY <1>2, StepCases
     DEF Refuse, BeginGenerate, BeginAssign, BeginKeep, Arrive, GenerateSerial,
         CheckExists, ListFirstPage, ListLastPage, OriginalReturned,
         UploadReturned, Fail
<1> QED
  BY <1>1, <1>2

(* Whoever may store or is acknowledged had arrived before the step, with  *)
(* the same bom.                                                           *)
LEMMA LookupStarted ==
  ASSUME UploadInvariant, NEW r \in Requests, Step(r),
         MayPutNumbered(r)' \/ Created(r)'
  PROVE  /\ pc[r] # "waiting"
         /\ Created(r)' => MayPutNumbered(r) /\ bom'[r] = bom[r]
<1>1. CASE MayPutNumbered(r)'
  <2>1. pc[r] # "waiting"
    BY <1>1, LookupFirst DEF GenerateSerial, CheckExists, ListLastPage, MayPutNumbered
  <2>2. ~ Created(r)'
    BY <1>1, ActorHistory DEF MayPutNumbered
  <2> QED
    BY <2>1, <2>2
<1>2. CASE Created(r)' /\ ~ UploadReturned(r)
  <2> USE DEF UploadInvariant, TypeOK, HistoryAnswered, Created
  <2>1. ~ (Refuse(r) \/ CheckExists(r) \/ ListLastPage(r) \/ Fail(r))
    BY <1>2 DEF Refuse, Arrive, CheckExists, ListLastPage, AssignFrom, Reply, Fail,
         Working, Goto
  <2>2. ~ (BeginGenerate(r) \/ BeginAssign(r) \/ BeginKeep(r))
    BY <1>2 DEF BeginGenerate, BeginAssign, BeginKeep, Arrive
  <2>3. ~ (GenerateSerial(r) \/ ListFirstPage(r) \/ OriginalReturned(r))
    BY <1>2 DEF GenerateSerial, ListFirstPage, OriginalReturned, Working
  <2>4. ~ Puts(r)
    BY <1>2, PutCases DEF Working
  <2> QED
    BY <1>2, <2>1, <2>2, <2>3, <2>4, StepCases
<1>3. CASE UploadReturned(r)
  BY <1>3 DEF UploadReturned, MayPutNumbered
<1> QED
  BY <1>1, <1>2, <1>3

(* No step lets a request store under a key acknowledged before it came.   *)
LEMMA KeysDifferStep ==
  ASSUME UploadInvariant, NEW r \in Requests, Step(r)
  PROVE  KeysDiffer'
<1> SUFFICES ASSUME NEW q \in Requests, MayPutNumbered(q)', bom'[q].version >= 1,
                    NEW a \in before'[q], Created(a)'
             PROVE  bom'[a] # bom'[q]
  BY DEF KeysDiffer
<1>1. before'[q] = before[q]
  BY OthersStand, HistoryFixed, LookupStarted DEF Unmoved, UploadInvariant
<1>2. a \in Requests /\ answer[a] # "none"
  BY <1>1 DEF UploadInvariant, TypeOK, HistoryAnswered
<1>3. Created(a) /\ bom'[a] = bom[a]
  BY <1>2, AnswersStand DEF Created, Unmoved
<1>4. CASE q # r
  BY <1>1, <1>3, <1>4, OthersStand
     DEF Unmoved, UploadInvariant, KeysDiffer, MayPutNumbered
<1>5. CASE q = r
  <2>1. CASE GenerateSerial(r) /\ pc'[r] # "generate"
    BY <1>1, <1>3, <1>5, <2>1, LookupGenerate
  <2>2. CASE CheckExists(r) /\ pc'[r] = "put"
    <3>1. bom' = bom
      BY <2>2 DEF CheckExists
    <3> QED
      BY <1>1, <1>3, <1>5, <2>2, <3>1, LookupCheck
  <2>3. CASE ListLastPage(r) /\ pc'[r] = "put"
    <3>1. bom'[r].serialNumber = bom[r].serialNumber
      BY <2>3 DEF ListLastPage, AssignFrom, UploadInvariant, TypeOK
    <3>2. SameSerial(r, a) => bom[a].version < bom'[r].version
      BY <1>1, <1>3, <1>5, <2>3, LookupList
    <3>3. bom'[r].version \in Int
      BY TypeStep, StoreAssumption
         DEF UploadInvariant, TypeOK, Versions, MinInt, Next
    <3> QED
      BY <1>3, <1>5, <3>1, <3>2, <3>3 DEF SameSerial
  <2>4. CASE MayPutNumbered(r) /\ bom'[r] = bom[r]
    BY <1>1, <1>3, <1>5, <2>4 DEF UploadInvariant, KeysDiffer
  <2> QED
    BY <1>5, <2>1, <2>2, <2>3, <2>4, LookupFirst
<1> QED
  BY <1>4, <1>5

(* Assigned versions stay above what was acknowledged before.              *)
LEMMA AssignedAboveStep ==
  ASSUME UploadInvariant, NEW r \in Requests, Step(r)
  PROVE  AssignedAbove'
<1> SUFFICES ASSUME NEW q \in Requests, branch'[q] = "assign",
                    MayPutNumbered(q)' \/ Created(q)', bom'[q].version >= 1,
                    NEW a \in before'[q], Created(a)',
                    bom'[q].serialNumber = bom'[a].serialNumber
             PROVE  bom'[a].version < bom'[q].version
  BY DEF AssignedAbove, SameSerial
<1>1. before'[q] = before[q] /\ branch[q] = "assign"
  BY OthersStand, HistoryFixed, LookupStarted DEF Unmoved, UploadInvariant
<1>2. a \in Requests /\ answer[a] # "none"
  BY <1>1 DEF UploadInvariant, TypeOK, HistoryAnswered
<1>3. Created(a) /\ bom'[a] = bom[a]
  BY <1>2, AnswersStand DEF Created, Unmoved
<1>4. CASE /\ MayPutNumbered(q) \/ Created(q)
           /\ bom'[q] = bom[q]
  BY <1>1, <1>3, <1>4 DEF UploadInvariant, AssignedAbove, SameSerial
<1>5. CASE q # r
  BY <1>4, <1>5, OthersStand DEF Unmoved, UploadInvariant, MayPutNumbered, Created
<1>6. CASE q = r /\ Created(r)'
  BY <1>4, <1>6, LookupStarted
<1>7. CASE q = r /\ MayPutNumbered(r)'
  <2>1. ~ GenerateSerial(r) /\ ~ CheckExists(r)
    BY <1>1, <1>7 DEF GenerateSerial, CheckExists, UploadInvariant, BranchKept
  <2>2. CASE ListLastPage(r) /\ pc'[r] = "put"
    <3>1. bom'[r].serialNumber = bom[r].serialNumber
      BY <2>2 DEF ListLastPage, AssignFrom, UploadInvariant, TypeOK
    <3> QED
      BY <1>1, <1>3, <1>7, <2>2, <3>1, LookupList DEF SameSerial
  <2> QED
    BY <1>4, <1>7, <2>1, <2>2, LookupFirst
<1> QED
  BY <1>5, <1>6, <1>7

(* No step replaces an acknowledged document by a later one: whoever       *)
(* writes its key has a different history.                                 *)
LEMMA AckedNeverReplacedLaterStep ==
  ASSUME UploadInvariant, NEW r \in Requests, Step(r)
  PROVE  AckedNeverReplacedLater'
<1> SUFFICES ASSUME NEW a \in Requests, Created(a)', bom'[a].version >= 1
             PROVE  /\ bucket'[NumberedKey(a)'] \in Requests
                    /\ a \notin before'[bucket'[NumberedKey(a)']]
  BY DEF AckedNeverReplacedLater, Created, NumberedKey
<1>1. CASE Created(a)
  <2>1. bom'[a] = bom[a] /\ NumberedKey(a)' = NumberedKey(a)
    BY <1>1, AnswersStand DEF Unmoved, Created, NumberedKey
  <2> DEFINE h == bucket[NumberedKey(a)]
  <2>2. h \in Requests /\ a \notin before[h] /\ NumberedKey(a) \in Keys
    BY <1>1, <2>1, AckedKey DEF UploadInvariant, AckedNeverReplacedLater
  <2>3. pc[h] # "waiting"
    BY <2>2 DEF UploadInvariant, HoldersArrived
  <2>4. a \notin before'[h]
    BY <2>2, <2>3, HistoryFixed, OthersStand DEF Unmoved, UploadInvariant
  <2>5. CASE bucket'[NumberedKey(a)] = h
    BY <2>1, <2>2, <2>4, <2>5
  <2>6. CASE bucket'[NumberedKey(a)] # h
    <3>1. Puts(r) /\ bucket'[NumberedKey(a)] = r
      BY <2>2, <2>6, BucketStep
    <3>2. PutsNumbered(r) /\ UNCHANGED before
      BY <2>2, <2>6, <3>1, PutCases, NumberedUnlikeOriginal
         DEF PutsOriginal, UploadInvariant, TypeOK
    <3>3. NumberedKey(a) = NumberedKey(r)
      BY <2>2, <2>6, <3>2 DEF PutsNumbered, UploadInvariant, TypeOK
    <3>4. bom[a] = bom[r]
      BY <3>3 DEF NumberedKey, UploadKey, UploadInvariant, TypeOK
    <3>5. MayPutNumbered(r) /\ bom[r].version >= 1
      BY <2>1, <3>2, <3>4 DEF PutsNumbered, MayPutNumbered
    <3>6. a \notin before[r]
      BY <1>1, <3>4, <3>5 DEF UploadInvariant, KeysDiffer
    <3> QED
      BY <2>1, <3>1, <3>2, <3>6
  <2> QED
    BY <2>5, <2>6
<1>2. CASE ~ Created(a)
  <2>1. a = r
    BY <1>2, OthersStand DEF Unmoved, UploadInvariant, Created
  <2>2. UploadReturned(r)
    <3>1. MayPutNumbered(r) /\ answer'[r] = "created" /\ answer[r] # "created"
      BY <1>2, <2>1, LookupStarted DEF Created
    <3> QED
      BY <3>1, StepCases, PutCases
         DEF MayPutNumbered, Refuse, Arrive, BeginGenerate, BeginAssign, BeginKeep,
             GenerateSerial, CheckExists, ListFirstPage, ListLastPage,
             OriginalReturned, Fail, UploadInvariant, TypeOK
  <2>3. answer[a] = "none" /\ pc[a] = "sent" /\ UNCHANGED <<bucket, bom, before>>
    BY <2>1, <2>2 DEF UploadReturned, UploadInvariant, HistoryAnswered, Working
  <2>4. bucket[NumberedKey(a)] \in Requests
    BY <2>3 DEF UploadInvariant, SerialKnown
  <2>5. a \notin before[bucket[NumberedKey(a)]]
    BY <2>3, <2>4 DEF UploadInvariant, HistoryAnswered
  <2> QED
    BY <2>3, <2>4, <2>5 DEF NumberedKey, UploadKey
<1> QED
  BY <1>1, <1>2

-----------------------------------------------------------------------------
(* The inductive invariant holds at first.                                 *)
LEMMA InvariantInit == Init => UploadInvariant
BY TypeInit, UploadAssumption
   DEF Init, UploadInvariant, HistoryAnswered, SerialKnown, BranchKept,
       HoldersArrived, ListedAcked, KeysDiffer, AssignedAbove,
       AckedNeverReplacedLater, Created, MayPutNumbered, Working

(* The inductive invariant is kept by every step.                          *)
LEMMA InvariantStep == UploadInvariant /\ [Next]_vars => UploadInvariant'
<1> SUFFICES ASSUME UploadInvariant, [Next]_vars PROVE UploadInvariant'
  OBVIOUS
<1>1. CASE UNCHANGED vars
  BY <1>1
     DEF vars, UploadInvariant, TypeOK, HistoryAnswered, SerialKnown, BranchKept,
         HoldersArrived, ListedAcked, KeysDiffer, AssignedAbove,
         AckedNeverReplacedLater, Created, MayPutNumbered, NumberedKey, SameSerial
<1>2. ASSUME NEW r \in Requests, Step(r) PROVE UploadInvariant'
  BY <1>2, TypeStep, HistoryAnsweredStep, SerialKnownStep, BranchKeptStep,
     HoldersArrivedStep, ListedAckedStep, KeysDifferStep, AssignedAboveStep,
     AckedNeverReplacedLaterStep
     DEF UploadInvariant
<1> QED
  BY <1>1, <1>2 DEF Next

(* The inductive invariant of Upload, from which the two results below     *)
(* follow.                                                                 *)
THEOREM UploadInvariantHolds == Spec => []UploadInvariant
BY InvariantInit, InvariantStep, PTL DEF Spec

(* An acknowledged upload is never replaced by a request that arrived      *)
(* after its acknowledgement, whatever overlaps, repeats or lands late.    *)
THEOREM AcknowledgedUploadsStand == Spec => []AckedNeverReplacedLater
<1>1. UploadInvariant => AckedNeverReplacedLater
  BY DEF UploadInvariant
<1> QED
  BY <1>1, UploadInvariantHolds, PTL

(* Assigned versions grow with every acknowledgement that precedes them.   *)
THEOREM AssignedVersionsGrow == Spec => []MonotonicAssignment
<1>1. UploadInvariant => MonotonicAssignment
  BY DEF UploadInvariant, MonotonicAssignment, AssignedAbove, SameSerial, TypeOK
<1> QED
  BY <1>1, UploadInvariantHolds, PTL
-----------------------------------------------------------------------------
(* The objects uploads leave in the bucket: the pair of a generated serial  *)
(* number, and nothing of a refused document.                              *)

(* The branch a position belongs to.                                       *)
BranchOfLabel ==
  \A q \in Requests :
    /\ pc[q] \in {"generate", "putOriginal", "originalSent", "lateOriginal"}
         => branch[q] = "generate"
    /\ pc[q] \in {"list", "listing"} => branch[q] = "assign"
    /\ pc[q] = "check" => branch[q] = "keep"
    /\ branch[q] = "generate" => pc[q] # "waiting"

(* A generated serial number comes from uuid.NewString, and version 1 is   *)
(* its only version.                                                       *)
GeneratedSerial ==
  \A q \in Requests :
    /\ pc[q] = "waiting" => bom[q].serialNumber = NoSerial
    /\ branch[q] = "generate" =>
         /\ bom[q].version = 1
         /\ bom[q].serialNumber \in drawn \cup {NoSerial}
         /\ pc[q] \notin {"generate", "done"} \/ Created(q) => bom[q].serialNumber \in drawn

(* No two requests draw the same serial number.                            *)
DrawnOnce ==
  \A q, r \in Requests :
    /\ branch[q] = "generate" /\ branch[r] = "generate" /\ q # r
    /\ bom[q].serialNumber # NoSerial
    => ~ SameSerial(q, r)

(* Once its first PUT was answered, a request's original stays.            *)
OriginalKept ==
  \A q \in Requests : branch[q] = "generate" =>
    (pc[q] \in {"originalSent", "put", "sent", "latePut"} \/ Created(q)
       => bucket[OriginalKey(q)] = q)

PairInvariant == BranchOfLabel /\ GeneratedSerial /\ DrawnOnce /\ OriginalKept

Rejected(q) == answer[q] \in {"conflict", "refused"}

(* Who has not reached a PUT, and never will once it is rejected.          *)
Untouched(q) ==
  pc[q] \in {"waiting", "generate", "check", "list", "listing"} \/ Rejected(q)

NothingStored ==
  \A q \in Requests : Untouched(q) => \A k \in Keys : bucket[k] # q

(* A rejected request is over, and the key of a 409 is taken for good.     *)
ConflictStands ==
  \A q \in Requests :
    /\ Rejected(q) => pc[q] = "done"
    /\ answer[q] = "conflict" =>
         NumberedKey(q) \in Keys /\ bucket[NumberedKey(q)] # Absent

TraceInvariant == NothingStored /\ ConflictStands
-----------------------------------------------------------------------------
(* The branch and the positions in it, for the request that moves.         *)
LEMMA BranchOfLabelActor ==
  ASSUME TypeOK, BranchOfLabel, NEW r \in Requests, Step(r)
  PROVE  /\ pc'[r] \in {"generate", "putOriginal", "originalSent", "lateOriginal"}
              => branch'[r] = "generate"
         /\ pc'[r] \in {"list", "listing"} => branch'[r] = "assign"
         /\ pc'[r] = "check" => branch'[r] = "keep"
         /\ branch'[r] = "generate" => pc'[r] # "waiting"
<1> USE DEF TypeOK, BranchOfLabel
<1>1. CASE Refuse(r) \/ CheckExists(r) \/ UploadReturned(r)
  BY <1>1 DEF Refuse, CheckExists, UploadReturned, Reply, Goto
<1>2. CASE BeginGenerate(r) \/ BeginAssign(r) \/ BeginKeep(r)
  BY <1>2 DEF BeginGenerate, BeginAssign, BeginKeep, Enter, Goto
<1>3. CASE GenerateSerial(r) \/ ListFirstPage(r) \/ OriginalReturned(r)
  BY <1>3 DEF GenerateSerial, ListFirstPage, OriginalReturned, Goto
<1>4. CASE ListLastPage(r)
  BY <1>4 DEF ListLastPage, AssignFrom, Reply, Goto
<1>5. CASE Fail(r)
  BY <1>5 DEF Fail, AfterFailure, Goto
<1>6. CASE Puts(r)
  BY <1>6 DEF Puts, SendOriginal, SendNumbered, Repeat, ResendOriginal,
       ResendNumbered, Landing, OriginalLands, NumberedLands, PutEffect, Goto
<1> QED
  BY StepCases, <1>1, <1>2, <1>3, <1>4, <1>5, <1>6

(* And for the others.                                                     *)
LEMMA BranchOfLabelStep ==
  ASSUME TypeOK, BranchOfLabel, NEW r \in Requests, Step(r)
  PROVE  BranchOfLabel'
BY BranchOfLabelActor, OthersStand DEF BranchOfLabel, Unmoved

(* Within the branch only a draw changes the serial number, and it is new. *)
LEMMA SerialCases ==
  ASSUME TypeOK, BranchOfLabel, NEW r \in Requests, Step(r), branch'[r] = "generate"
  PROVE  \/ BeginGenerate(r) /\ drawn' = drawn
         \/ /\ branch[r] = "generate"
            /\ bom'[r].version = bom[r].version
            /\ \/ bom'[r] = bom[r] /\ drawn' = drawn
               \/ GenerateSerial(r) /\ \E u \in Uuids \ drawn :
                    bom'[r].serialNumber = u /\ drawn' = drawn \cup {u}
<1> USE DEF TypeOK, BranchOfLabel
<1>1. CASE Refuse(r) \/ CheckExists(r) \/ UploadReturned(r)
  BY <1>1 DEF Refuse, CheckExists, UploadReturned
<1>2. CASE BeginGenerate(r) \/ BeginAssign(r) \/ BeginKeep(r)
  BY <1>2 DEF BeginGenerate, BeginAssign, BeginKeep, Enter
<1>3. CASE GenerateSerial(r)
  <2>1. PICK u \in Uuids \ drawn :
          bom' = [bom EXCEPT ![r].serialNumber = u] /\ drawn' = drawn \cup {u}
    BY <1>3 DEF GenerateSerial, Draws
  <2>2. bom'[r].serialNumber = u /\ bom'[r].version = bom[r].version
    BY <2>1
  <2>3. branch[r] = "generate"
    BY <1>3 DEF GenerateSerial
  <2> QED
    BY <1>3, <2>1, <2>2, <2>3
<1>4. CASE ListFirstPage(r) \/ OriginalReturned(r)
  BY <1>4 DEF ListFirstPage, OriginalReturned
<1>5. CASE ListLastPage(r)
  BY <1>5 DEF ListLastPage
<1>6. CASE Fail(r)
  BY <1>6 DEF Fail
<1>7. CASE Puts(r)
  BY <1>7, PutCases
<1> QED
  BY StepCases, <1>1, <1>2, <1>3, <1>4, <1>5, <1>6, <1>7

(* What was drawn stays drawn.                                             *)
LEMMA DrawnGrows ==
  ASSUME NEW r \in Requests, Step(r) PROVE drawn \subseteq drawn'
<1>1. CASE Puts(r)
  BY <1>1, PutCases
<1> QED
  BY <1>1, StepCases
     DEF Refuse, BeginGenerate, BeginAssign, BeginKeep, GenerateSerial, CheckExists,
         ListFirstPage, ListLastPage, OriginalReturned, UploadReturned, Fail

(* Where a request of the branch may be that still needs its serial number, *)
(* it was there before, or has just drawn.                                 *)
LEMMA SerialNeeded ==
  ASSUME UploadInvariant, BranchOfLabel, NEW r \in Requests, Step(r),
         branch[r] = "generate", pc'[r] \notin {"generate", "done"} \/ Created(r)'
  PROVE  GenerateSerial(r) \/ pc[r] \notin {"generate", "done"} \/ Created(r)
<1> USE DEF UploadInvariant, TypeOK, BranchOfLabel, HistoryAnswered, Created
<1>1. CASE Refuse(r) \/ CheckExists(r) \/ UploadReturned(r)
  BY <1>1 DEF Refuse, Arrive, CheckExists, UploadReturned
<1>2. CASE BeginGenerate(r) \/ BeginAssign(r) \/ BeginKeep(r)
  BY <1>2 DEF BeginGenerate, BeginAssign, BeginKeep, Arrive
<1>3. CASE ListFirstPage(r) \/ OriginalReturned(r) \/ ListLastPage(r)
  BY <1>3 DEF ListFirstPage, OriginalReturned, ListLastPage
<1>4. CASE Fail(r)
  BY <1>4 DEF Fail, AfterFailure, Goto, Working
<1>5. CASE Puts(r)
  BY <1>5, PutCases DEF PutsNumbered, PutsOriginal
<1> QED
  BY StepCases, <1>1, <1>2, <1>3, <1>4, <1>5
(* A generated serial number is one that was drawn.                        *)
LEMMA GeneratedSerialStep ==
  ASSUME UploadInvariant, PairInvariant, NEW r \in Requests, Step(r)
  PROVE  GeneratedSerial'
<1> USE DEF UploadInvariant, PairInvariant
<1> SUFFICES ASSUME NEW q \in Requests
             PROVE  /\ pc'[q] = "waiting" => bom'[q].serialNumber = NoSerial
                    /\ branch'[q] = "generate" =>
                         /\ bom'[q].version = 1
                         /\ bom'[q].serialNumber \in drawn' \cup {NoSerial}
                         /\ pc'[q] \notin {"generate", "done"} \/ Created(q)'
                              => bom'[q].serialNumber \in drawn'
  BY DEF GeneratedSerial
<1>1. CASE q # r
  BY <1>1, OthersStand, DrawnGrows DEF GeneratedSerial, Unmoved, Created
<1>2. CASE q = r
  <2>1. pc'[r] # "waiting"
    BY NeverWaitsAgain
  <2> SUFFICES ASSUME branch'[r] = "generate"
               PROVE  /\ bom'[r].version = 1
                      /\ bom'[r].serialNumber \in drawn' \cup {NoSerial}
                      /\ pc'[r] \notin {"generate", "done"} \/ Created(r)'
                           => bom'[r].serialNumber \in drawn'
    BY <1>2, <2>1
  <2>2. CASE BeginGenerate(r)
    <3>1. bom'[r].version = 1 /\ bom'[r].serialNumber = NoSerial
      BY <2>2 DEF BeginGenerate, Arrive, GeneratedSerial, TypeOK
    <3>2. pc'[r] = "generate" /\ answer'[r] = answer[r] /\ answer[r] = "none"
      BY <2>2 DEF BeginGenerate, Arrive, Enter, Goto, HistoryAnswered, TypeOK
    <3> QED
      BY <3>1, <3>2 DEF Created
  <2>3. CASE ~ BeginGenerate(r)
    <3>1. branch[r] = "generate" /\ bom'[r].version = bom[r].version
      BY <2>3, SerialCases
    <3>2. CASE GenerateSerial(r)
      <4>1. PICK u : bom' = [bom EXCEPT ![r].serialNumber = u] /\ drawn' = drawn \cup {u}
        BY <3>2 DEF GenerateSerial
      <4>2. bom'[r].serialNumber \in drawn'
        BY <4>1 DEF TypeOK
      <4> QED
        BY <3>1, <4>2 DEF GeneratedSerial
    <3>3. CASE ~ GenerateSerial(r)
      <4>1. bom'[r] = bom[r] /\ drawn' = drawn
        BY <2>3, <3>3, SerialCases
      <4>2. pc'[r] \notin {"generate", "done"} \/ Created(r)'
              => pc[r] \notin {"generate", "done"} \/ Created(r)
        BY <3>1, <3>3, SerialNeeded
      <4> QED
        BY <3>1, <4>1, <4>2 DEF GeneratedSerial
    <3> QED
      BY <3>2, <3>3
  <2> QED
    BY <2>2, <2>3
<1> QED
  BY <1>1, <1>2

(* Who draws gets a serial number nobody else drew.                        *)
LEMMA DrawnOnceStep ==
  ASSUME UploadInvariant, PairInvariant, NEW r \in Requests, Step(r)
  PROVE  DrawnOnce'
<1> USE DEF UploadInvariant, PairInvariant
<1>1. ASSUME NEW q \in Requests, q # r, branch'[q] = "generate", branch'[r] = "generate",
             bom'[q].serialNumber = bom'[r].serialNumber, bom'[q].serialNumber # NoSerial
      PROVE  FALSE
  <2>1. branch[q] = "generate" /\ bom[q] = bom'[q] /\ bom[q].serialNumber \in drawn
    BY <1>1, OthersStand DEF Unmoved, GeneratedSerial
  <2>2. CASE BeginGenerate(r)
    BY <1>1, <2>2 DEF BeginGenerate, Arrive, GeneratedSerial, TypeOK
  <2>3. CASE ~ BeginGenerate(r)
    <3>1. branch[r] = "generate"
      BY <1>1, <2>3, SerialCases
    <3>2. bom'[r] = bom[r]
      BY <1>1, <2>1, <2>3, SerialCases
    <3> QED
      BY <1>1, <2>1, <3>1, <3>2 DEF DrawnOnce, SameSerial
  <2> QED
    BY <2>2, <2>3
<1>2. ASSUME NEW p \in Requests, NEW q \in Requests, p # r, q # r, p # q,
             branch'[p] = "generate", branch'[q] = "generate",
             bom'[p].serialNumber # NoSerial
      PROVE  bom'[p].serialNumber # bom'[q].serialNumber
  BY <1>2, OthersStand DEF Unmoved, DrawnOnce, SameSerial
<1> QED
  BY <1>1, <1>2 DEF DrawnOnce, SameSerial

(* A PUT of the original after a draw is to a key of the bucket.           *)
LEMMA OriginalKeyKnown ==
  ASSUME TypeOK, NEW q \in Requests, bom[q].serialNumber \in drawn
  PROVE  OriginalKey(q) \in Keys /\ bom[q].serialNumber # NoSerial
BY UploadAssumption DEF TypeOK, OriginalKey, UploadKey, Keys, Suffixes

(* Nobody else PUTs under the key of a request's original.                 *)
LEMMA OriginalUntouched ==
  ASSUME UploadInvariant, PairInvariant, NEW r \in Requests, Step(r),
         NEW q \in Requests, branch[q] = "generate", bom[q].serialNumber \in drawn,
         bucket[OriginalKey(q)] = q
  PROVE  bucket'[OriginalKey(q)] = q
<1> USE DEF UploadInvariant, PairInvariant
<1>1. OriginalKey(q) \in Keys /\ bom[q].serialNumber # NoSerial
  BY OriginalKeyKnown
<1>2. SUFFICES ASSUME Puts(r), q # r PROVE bucket'[OriginalKey(q)] = q
  BY <1>1, BucketStep
<1>3. CASE PutsNumbered(r)
  <2>1. NumberedKey(r) # OriginalKey(q)
    BY NumberedUnlikeOriginal
  <2> QED
    BY <1>1, <1>3, <2>1 DEF PutsNumbered, TypeOK
<1>4. CASE PutsOriginal(r)
  <2>1. branch[r] = "generate"
    BY <1>4 DEF PutsOriginal, BranchOfLabel
  <2>2. OriginalKey(r) # OriginalKey(q)
    BY <1>1, <1>2, <2>1 DEF DrawnOnce, SameSerial, OriginalKey, UploadKey
  <2> QED
    BY <1>1, <1>4, <2>2 DEF PutsOriginal, TypeOK
<1> QED
  BY <1>2, <1>3, <1>4, PutCases
(* Where a request has its original stored, it had before the step, or the *)
(* step stores it.                                                         *)
LEMMA OriginalNeeded ==
  ASSUME UploadInvariant, PairInvariant, NEW r \in Requests, Step(r),
         branch'[r] = "generate",
         pc'[r] \in {"originalSent", "put", "sent", "latePut"} \/ Created(r)'
  PROVE  /\ branch[r] = "generate" /\ bom'[r] = bom[r]
         /\ \/ SendOriginal(r)
            \/ pc[r] \in {"originalSent", "put", "sent", "latePut"} \/ Created(r)
<1> USE DEF UploadInvariant, PairInvariant, TypeOK, BranchOfLabel, HistoryAnswered, Created
<1>1. CASE Refuse(r)
  BY <1>1 DEF Refuse, Arrive, Reply, Goto
<1>2. CASE BeginGenerate(r) \/ BeginAssign(r) \/ BeginKeep(r)
  BY <1>2 DEF BeginGenerate, BeginAssign, BeginKeep, Arrive, Enter, Goto
<1>3. CASE GenerateSerial(r)
  BY <1>3 DEF GenerateSerial, Goto, Working
<1>4. CASE CheckExists(r) \/ ListFirstPage(r) \/ ListLastPage(r)
  BY <1>4 DEF CheckExists, ListFirstPage, ListLastPage
<1>5. CASE OriginalReturned(r) \/ UploadReturned(r)
  BY <1>5 DEF OriginalReturned, UploadReturned
<1>6. CASE Fail(r)
  BY <1>6 DEF Fail, AfterFailure, Goto, Working
<1>7. CASE Puts(r)
  BY <1>7 DEF Puts, SendOriginal, SendNumbered, Repeat, ResendOriginal,
       ResendNumbered, Landing, OriginalLands, NumberedLands, PutEffect, Goto
<1> QED
  BY StepCases, <1>1, <1>2, <1>3, <1>4, <1>5, <1>6, <1>7

(* A stored original stays what it is.                                     *)
LEMMA OriginalKeptStep ==
  ASSUME UploadInvariant, PairInvariant, NEW r \in Requests, Step(r)
  PROVE  OriginalKept'
<1> USE DEF UploadInvariant, PairInvariant
<1> SUFFICES ASSUME NEW q \in Requests, branch'[q] = "generate",
                    pc'[q] \in {"originalSent", "put", "sent", "latePut"} \/ Created(q)'
             PROVE  bucket'[OriginalKey(q)'] = q
  BY DEF OriginalKept, OriginalKey
<1>1. branch[q] = "generate" /\ bom'[q] = bom[q]
  BY OthersStand, OriginalNeeded DEF Unmoved
<1>2. OriginalKey(q)' = OriginalKey(q)
  BY <1>1 DEF OriginalKey
<1>3. CASE pc[q] \in {"originalSent", "put", "sent", "latePut"} \/ Created(q)
  <2>1. bucket[OriginalKey(q)] = q /\ bom[q].serialNumber \in drawn
    BY <1>1, <1>3 DEF OriginalKept, GeneratedSerial
  <2> QED
    BY <1>1, <1>2, <2>1, OriginalUntouched
<1>4. CASE q = r /\ SendOriginal(r)
  <2>1. bom[r].serialNumber \in drawn
    BY <1>1, <1>4 DEF SendOriginal, PutEffect, GeneratedSerial
  <2>2. OriginalKey(r) \in Keys
    BY <2>1, OriginalKeyKnown
  <2> QED
    BY <1>2, <1>4, <2>2 DEF SendOriginal, PutEffect, TypeOK
<1>5. CASE q # r
  BY <1>3, <1>5, OthersStand DEF Unmoved, Created
<1> QED
  BY <1>3, <1>4, <1>5, OriginalNeeded

-----------------------------------------------------------------------------
(* Only a refusal or a lookup rejects, and a rejected request is over.     *)
LEMMA RejectedStep ==
  ASSUME UploadInvariant, TraceInvariant, NEW r \in Requests, Step(r), Rejected(r)'
  PROVE  \/ Refuse(r)
         \/ CheckExists(r) /\ answer'[r] = "conflict" /\ KeyExists(bucket, NumberedKey(r))
<1> USE DEF UploadInvariant, TraceInvariant, ConflictStands, TypeOK, Rejected
<1>1. CASE BeginGenerate(r) \/ BeginAssign(r) \/ BeginKeep(r)
  BY <1>1 DEF BeginGenerate, BeginAssign, BeginKeep, Arrive
<1>2. CASE GenerateSerial(r) \/ ListFirstPage(r) \/ OriginalReturned(r)
  BY <1>2 DEF GenerateSerial, ListFirstPage, OriginalReturned
<1>3. CASE CheckExists(r)
  BY <1>3 DEF CheckExists, Reply
<1>4. CASE ListLastPage(r)
  BY <1>4 DEF ListLastPage, AssignFrom, Reply
<1>5. CASE UploadReturned(r) \/ Fail(r)
  BY <1>5 DEF UploadReturned, Reply, Fail
<1>6. CASE Puts(r)
  BY <1>6, PutCases DEF Working
<1> QED
  BY StepCases, <1>1, <1>2, <1>3, <1>4, <1>5, <1>6

(* A request that has not come to a PUT after a step had not before, and   *)
(* the step was none.                                                      *)
LEMMA UntouchedBefore ==
  ASSUME UploadInvariant, TraceInvariant, NEW r \in Requests, Step(r), Untouched(r)'
  PROVE  Untouched(r) /\ ~ Puts(r)
<1> USE DEF UploadInvariant, TypeOK
<1>1. CASE Rejected(r)'
  <2>1. pc[r] \in {"waiting", "check"}
    BY <1>1, RejectedStep DEF Refuse, Arrive, CheckExists
  <2> QED
    BY <2>1, PutCases DEF Untouched, PutsNumbered, PutsOriginal
<1>2. CASE pc'[r] \in {"waiting", "generate", "check", "list", "listing"}
  <2>1. ~ Puts(r)
    BY <1>2, PutCases DEF Goto
  <2>2. ~ (Refuse(r) \/ UploadReturned(r) \/ OriginalReturned(r) \/ CheckExists(r))
    BY <1>2 DEF Refuse, UploadReturned, OriginalReturned, CheckExists, Reply, Goto
  <2>3. ~ (ListLastPage(r) \/ Fail(r))
    BY <1>2 DEF ListLastPage, AssignFrom, Reply, Fail, AfterFailure, Goto
  <2> QED
    BY <2>1, <2>2, <2>3, StepCases
       DEF BeginGenerate, BeginAssign, BeginKeep, Arrive, GenerateSerial,
           ListFirstPage, Untouched
<1> QED
  BY <1>1, <1>2 DEF Untouched, Rejected

(* So nothing of it is in the bucket.                                      *)
LEMMA NothingStoredStep ==
  ASSUME UploadInvariant, TraceInvariant, NEW r \in Requests, Step(r)
  PROVE  NothingStored'
<1> SUFFICES ASSUME NEW q \in Requests, Untouched(q)', NEW k \in Keys
             PROVE  bucket'[k] # q
  BY DEF NothingStored
<1>1. CASE q # r
  <2>1. Untouched(q)
    BY <1>1, OthersStand DEF Unmoved, Untouched, Rejected, UploadInvariant
  <2> QED
    BY <1>1, <2>1, BucketStep DEF TraceInvariant, NothingStored
<1>2. CASE q = r
  BY <1>2, UntouchedBefore, BucketStep DEF TraceInvariant, NothingStored
<1> QED
  BY <1>1, <1>2

(* The key of a 409 stays taken.                                           *)
LEMMA ConflictStandsStep ==
  ASSUME UploadInvariant, TraceInvariant, NEW r \in Requests, Step(r)
  PROVE  ConflictStands'
<1> USE DEF UploadInvariant
<1> SUFFICES ASSUME NEW q \in Requests, Rejected(q)'
             PROVE  /\ pc'[q] = "done"
                    /\ answer'[q] = "conflict" =>
                         NumberedKey(q)' \in Keys /\ bucket'[NumberedKey(q)'] # Absent
  BY DEF ConflictStands, Rejected, NumberedKey
<1>1. \A k \in Keys : bucket[k] # Absent => bucket'[k] # Absent
  BY BucketStep, UploadAssumption
<1>2. CASE q # r
  <2>1. Unmoved(q) /\ Rejected(q)
    BY <1>2, OthersStand DEF Unmoved, Rejected
  <2>2. NumberedKey(q)' = NumberedKey(q)
    BY <2>1 DEF Unmoved, NumberedKey
  <2> QED
    BY <1>1, <2>1, <2>2 DEF Unmoved, TraceInvariant, ConflictStands
<1>3. CASE q = r /\ Refuse(r)
  BY <1>3 DEF Refuse, Reply, Goto, TypeOK
<1>4. CASE /\ q = r /\ CheckExists(r) /\ answer'[r] = "conflict"
           /\ KeyExists(bucket, NumberedKey(r))
  <2>1. bom'[r] = bom[r] /\ bucket' = bucket /\ pc[r] = "check" /\ pc'[r] = "done"
    BY <1>4 DEF CheckExists, Reply, Goto, TypeOK
  <2>2. NumberedKey(r) \in Keys
    BY <2>1 DEF SerialKnown, TypeOK, NumberedKey, UploadKey, Keys, Suffixes
  <2>3. NumberedKey(r)' = NumberedKey(r)
    BY <2>1 DEF NumberedKey
  <2> QED
    BY <1>4, <2>1, <2>2, <2>3 DEF KeyExists
<1> QED
  BY <1>2, <1>3, <1>4, RejectedStep

-----------------------------------------------------------------------------
ObjectInvariant == UploadInvariant /\ PairInvariant /\ TraceInvariant

(* Both invariants hold at first, when no document is stored.              *)
LEMMA ObjectInit == Init => ObjectInvariant
<1> SUFFICES ASSUME Init PROVE ObjectInvariant
  OBVIOUS
<1>1. PairInvariant
  BY DEF Init, PairInvariant, BranchOfLabel, GeneratedSerial, DrawnOnce, OriginalKept,
     Created
<1>2. TraceInvariant
  BY UploadAssumption
     DEF Init, TraceInvariant, NothingStored, ConflictStands, Untouched, Rejected
<1> QED
  BY <1>1, <1>2, InvariantInit DEF ObjectInvariant

(* And every step keeps them.                                              *)
LEMMA ObjectStep == ObjectInvariant /\ [Next]_vars => ObjectInvariant'
<1> SUFFICES ASSUME ObjectInvariant, [Next]_vars PROVE ObjectInvariant'
  OBVIOUS
<1> USE DEF ObjectInvariant
<1>1. UploadInvariant'
  BY InvariantStep
<1>2. CASE UNCHANGED vars
  <2>1. PairInvariant'
    BY <1>2
       DEF vars, PairInvariant, BranchOfLabel, GeneratedSerial, DrawnOnce,
           OriginalKept, OriginalKey, SameSerial, Created
  <2>2. TraceInvariant'
    BY <1>2
       DEF vars, TraceInvariant, NothingStored, ConflictStands, Untouched, Rejected,
           NumberedKey
  <2> QED
    BY <1>1, <2>1, <2>2
<1>3. ASSUME NEW r \in Requests, Step(r) PROVE ObjectInvariant'
  <2>1. PairInvariant'
    BY <1>3, BranchOfLabelStep, GeneratedSerialStep, DrawnOnceStep, OriginalKeptStep
       DEF PairInvariant, UploadInvariant
  <2>2. TraceInvariant'
    BY <1>3, NothingStoredStep, ConflictStandsStep DEF TraceInvariant
  <2> QED
    BY <1>1, <2>1, <2>2
<1> QED
  BY <1>2, <1>3 DEF Next

(* The inductive invariant about the objects uploads leave.                *)
THEOREM ObjectInvariantHolds == Spec => []ObjectInvariant
BY ObjectInit, ObjectStep, PTL DEF Spec

(* An acknowledged upload without a serial number has both its objects in  *)
(* the bucket, and nobody ever replaces its original.                      *)
THEOREM GeneratedPairsComplete == Spec => []GeneratedPairComplete
<1>1. ObjectInvariant => GeneratedPairComplete
  BY AckedHeld
     DEF ObjectInvariant, PairInvariant, GeneratedSerial, OriginalKept,
         GeneratedPairComplete
<1> QED
  BY <1>1, ObjectInvariantHolds, PTL

(* A request answered 409 or 400 leaves nothing, and a 409 stays true.     *)
THEOREM RejectedLeaveNothing == Spec => []RejectedLeaveNoTrace
<1>1. ObjectInvariant => RejectedLeaveNoTrace
  BY DEF ObjectInvariant, TraceInvariant, NothingStored, ConflictStands, Untouched,
     Rejected, RejectedLeaveNoTrace
<1> QED
  BY <1>1, ObjectInvariantHolds, PTL
=============================================================================
