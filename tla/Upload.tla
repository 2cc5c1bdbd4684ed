------------------------------- MODULE Upload -------------------------------
(***************************************************************************)
(* POST /v1/bom: Service.UploadBOM and its three branches, run by many     *)
(* request goroutines (and replicas) that share nothing but the bucket.    *)
(* A request is one client call; a document is named by the request that   *)
(* sent it.  Every call to the object store is a step of its own, a PUT is *)
(* two (it takes effect, then it returns), and between any two of them the *)
(* other requests may run.  PUTs are unconditional: the last one wins.     *)
(***************************************************************************)
EXTENDS BomStore, FiniteSets

CONSTANTS
  Requests,        \* the uploads of a behaviour, each sent once
  NoSerial,        \* the empty serialNumber of a BOM
  Uuids,           \* the serial numbers uuid.NewString can produce
  ClientUrns,      \* serial numbers clients choose themselves
  ClientVersions,  \* versions clients choose themselves
  Legacy,          \* the document of an object that was there before
  Stored,          \* the keys of the objects that were there before
  MaxInFlight,     \* how many uploads may overlap; 1 is a serial client
  LateEffects      \* TRUE if a PUT the service gave up on may still land

ASSUME UploadAssumption ==
  /\ Uuids \subseteq Urns /\ ClientUrns \subseteq Urns /\ NoSerial \notin Urns
  /\ ClientVersions \subseteq 1 .. MaxInt
  /\ Legacy \notin Requests /\ Absent \notin Requests \cup {Legacy}
  /\ Stored \subseteq Keys
  /\ MaxInFlight \in Nat /\ LateEffects \in BOOLEAN

VARIABLES
  bucket,   \* the S3 bucket
  pc,       \* where the handler of a request is
  bom,      \* the serialNumber and version of its bom variable
  branch,   \* the case of UploadBOM's switch it took
  listed,   \* the suffixes on the first page of its LIST
  drawn,    \* the serial numbers uuid.NewString has produced
  answer,   \* how the request was answered
  before    \* history: the requests answered when this one arrived

vars == <<bucket, pc, bom, branch, listed, drawn, answer, before>>

Docs     == Requests \cup {Legacy}
Branches == {"none", "generate", "assign", "keep"}
Answers  == {"none", "created", "conflict", "refused", "error", "panic"}
Working  == {"generate", "check", "list", "listing",
             "putOriginal", "originalSent", "put", "sent"}
Labels   == Working \cup {"waiting", "lateOriginal", "latePut", "done"}

InFlight == {r \in Requests : pc[r] \in Working}

(* The keys a request PUTs, or may still PUT.                              *)
OriginalKey(r) == UploadKey(bom[r].serialNumber, Original)
NumberedKey(r) == UploadKey(bom[r].serialNumber, bom[r].version)

Init ==
  /\ bucket = [k \in Keys |-> IF k \in Stored THEN Legacy ELSE Absent]
  /\ pc = [r \in Requests |-> "waiting"]
  /\ bom = [r \in Requests |-> [serialNumber |-> NoSerial, version |-> 0]]
  /\ branch = [r \in Requests |-> "none"]
  /\ listed = [r \in Requests |-> {}]
  /\ drawn = {}
  /\ answer = [r \in Requests |-> "none"]
  /\ before = [r \in Requests |-> {}]

Goto(r, label) == pc' = [pc EXCEPT ![r] = label]

Reply(r, outcome) ==
  /\ answer' = [answer EXCEPT ![r] = outcome]
  /\ Goto(r, "done")

Arrive(r) ==
  /\ pc[r] = "waiting"
  /\ before' = [before EXCEPT ![r] = {q \in Requests : answer[q] # "none"}]

-----------------------------------------------------------------------------
(* UploadBOM: decoding, the input checks and the schema refuse a document  *)
(* before any branch runs.                                                 *)
Refuse(r) ==
  /\ Arrive(r)
  /\ Reply(r, "refused")
  /\ UNCHANGED <<bucket, bom, branch, listed, drawn>>

(* The switch of UploadBOM on what the document carries.                   *)
Enter(r, b) ==
  /\ branch' = [branch EXCEPT ![r] = b]
  /\ Goto(r, CASE b = "generate" -> "generate"
               [] b = "assign"   -> "list"
               [] b = "keep"     -> "check")

(* A client may use any serial number it knows, generated ones included.   *)
KnownSerials == ClientUrns \cup drawn

(* Without a serial number the version becomes 1, whatever it was.         *)
BeginGenerate(r) ==
  /\ Arrive(r) /\ Cardinality(InFlight) < MaxInFlight
  /\ bom' = [bom EXCEPT ![r].version = 1]
  /\ Enter(r, "generate")
  /\ UNCHANGED <<bucket, listed, drawn, answer>>

BeginAssign(r) ==
  /\ Arrive(r) /\ Cardinality(InFlight) < MaxInFlight
  /\ \E u \in KnownSerials : bom' = [bom EXCEPT ![r].serialNumber = u]
  /\ Enter(r, "assign")
  /\ UNCHANGED <<bucket, listed, drawn, answer>>

BeginKeep(r) ==
  /\ Arrive(r) /\ Cardinality(InFlight) < MaxInFlight
  /\ \E u \in KnownSerials, v \in ClientVersions :
        bom' = [bom EXCEPT ![r] = [serialNumber |-> u, version |-> v]]
  /\ Enter(r, "keep")
  /\ UNCHANGED <<bucket, listed, drawn, answer>>

-----------------------------------------------------------------------------
(* uploadCaseSNInvalid: draw serial numbers until version 1 of one is      *)
(* free.  No two draws are the same, but a draw may meet a serial number a *)
(* client made up.                                                         *)
DrawsHoistedOutOfLoop(r) ==
  IF bom[r].serialNumber = NoSerial THEN Uuids \ drawn ELSE {bom[r].serialNumber}

Draws(r) == Uuids \ drawn

TakenByOriginal(urn) == KeyExists(bucket, UploadKey(urn, Original))

Taken(urn) == KeyExists(bucket, UploadKey(urn, 1))

GenerateSerial(r) ==
  /\ pc[r] = "generate"
  /\ \E u \in Draws(r) :
       /\ bom' = [bom EXCEPT ![r].serialNumber = u]
       /\ drawn' = drawn \cup {u}
       /\ Goto(r, IF Taken(u) THEN "generate" ELSE "putOriginal")
  /\ UNCHANGED <<bucket, branch, listed, answer, before>>

(* A PUT takes effect, once or, when the client library repeats it after a *)
(* lost answer, several times before it returns.                           *)
PutEffect(r, key, from, to) ==
  /\ pc[r] = from
  /\ bucket' = [bucket EXCEPT ![key] = r]
  /\ Goto(r, to)
  /\ UNCHANGED <<bom, branch, listed, drawn, answer, before>>

SendOriginal(r)    == PutEffect(r, OriginalKey(r), "putOriginal", "originalSent")
ResendOriginal(r)  == PutEffect(r, OriginalKey(r), "originalSent", "originalSent")
SendNumbered(r)    == PutEffect(r, NumberedKey(r), "put", "sent")
ResendNumbered(r)  == PutEffect(r, NumberedKey(r), "sent", "sent")
OriginalLands(r)   == PutEffect(r, OriginalKey(r), "lateOriginal", "done")
NumberedLands(r)   == PutEffect(r, NumberedKey(r), "latePut", "done")

OriginalNotAwaited(r) ==
  /\ pc[r] \in {"putOriginal", "originalSent"}
  /\ Goto(r, "put")
  /\ UNCHANGED <<bucket, bom, branch, listed, drawn, answer, before>>

OriginalReturned(r) ==
  /\ pc[r] = "originalSent"
  /\ Goto(r, "put")
  /\ UNCHANGED <<bucket, bom, branch, listed, drawn, answer, before>>

AckBeforePut(r) ==
  /\ pc[r] \in {"put", "sent"}
  /\ Reply(r, "created")
  /\ UNCHANGED <<bucket, bom, branch, listed, drawn, before>>

UploadReturned(r) ==
  /\ pc[r] = "sent"
  /\ Reply(r, "created")
  /\ UNCHANGED <<bucket, bom, branch, listed, drawn, before>>

-----------------------------------------------------------------------------
(* uploadCaseSNValidVersionValid: a HEAD, then the PUT with nothing that   *)
(* keeps the key free in between.                                          *)
CheckDropped(r) ==
  /\ pc[r] = "check"
  /\ Goto(r, "put")
  /\ UNCHANGED <<bucket, bom, branch, listed, drawn, answer, before>>

CheckWithoutReturn(r) ==
  /\ pc[r] = "check"
  /\ Goto(r, "put")
  /\ answer' = [answer EXCEPT ![r] =
                  IF KeyExists(bucket, NumberedKey(r)) THEN "conflict" ELSE @]
  /\ UNCHANGED <<bucket, bom, branch, listed, drawn, before>>

CheckExists(r) ==
  /\ pc[r] = "check"
  /\ IF KeyExists(bucket, NumberedKey(r))
       THEN Reply(r, "conflict")
       ELSE Goto(r, "put") /\ UNCHANGED answer
  /\ UNCHANGED <<bucket, bom, branch, listed, drawn, before>>

(* uploadCaseSNValidVersionInvalid: a LIST of one or more pages.  What the *)
(* first page covers is complete when it is read; the later pages add any  *)
(* part of what was stored meanwhile.                                      *)
ListFirstPage(r) ==
  /\ pc[r] = "list"
  /\ listed' = [listed EXCEPT ![r] = Listing(bucket, bom[r].serialNumber)]
  /\ Goto(r, "listing")
  /\ UNCHANGED <<bucket, bom, branch, drawn, answer, before>>

(* The version that follows a listing; -1 indexes an empty slice.          *)
CountVersions(listing) == {Cardinality(Numbers(listing)) + 1}

NextVersions(listing) == {PlusOne(v) : v \in {w \in listing : IsLast(w, Numbers(listing))}}

AssignFrom(r, listing) ==
  \/ /\ ListingNotFound(listing)
     /\ bom' = [bom EXCEPT ![r].version = 1]
     /\ Goto(r, "put") /\ UNCHANGED answer
  \/ /\ ListingInvalid(listing)
     /\ Reply(r, "error") /\ UNCHANGED bom
  \/ /\ ~ ListingNotFound(listing) /\ ~ ListingInvalid(listing)
     /\ Numbers(listing) = {}
     /\ Reply(r, "panic") /\ UNCHANGED bom
  \/ /\ ~ ListingInvalid(listing)
     /\ \E v \in NextVersions(listing) : bom' = [bom EXCEPT ![r].version = v]
     /\ Goto(r, "put") /\ UNCHANGED answer

ListLastPage(r) ==
  /\ pc[r] = "listing"
  /\ \E new \in SUBSET (Listing(bucket, bom[r].serialNumber) \ listed[r]) :
        AssignFrom(r, listed[r] \cup new)
  /\ UNCHANGED <<bucket, branch, listed, drawn, before>>

-----------------------------------------------------------------------------
(* A store call fails, the request is cancelled, encoding fails, or the    *)
(* replica dies: the handler stops where it is, with nothing undone.       *)
AfterFailure(label) ==
  CASE label \in {"putOriginal", "originalSent"} /\ LateEffects -> "lateOriginal"
    [] label \in {"put", "sent"} /\ LateEffects                 -> "latePut"
    [] OTHER                                                    -> "done"

Fail(r) ==
  /\ pc[r] \in Working
  /\ answer' = [answer EXCEPT ![r] = "error"]
  /\ Goto(r, AfterFailure(pc[r]))
  /\ UNCHANGED <<bucket, bom, branch, listed, drawn, before>>

Begin(r) == BeginGenerate(r) \/ BeginAssign(r) \/ BeginKeep(r)

Generating(r) == GenerateSerial(r) \/ SendOriginal(r) \/ OriginalReturned(r)
Assigning(r)  == ListFirstPage(r) \/ ListLastPage(r)
Storing(r)    == SendNumbered(r) \/ UploadReturned(r)

Progress(r)  == Generating(r) \/ CheckExists(r) \/ Assigning(r) \/ Storing(r)
Repeat(r)    == ResendOriginal(r) \/ ResendNumbered(r)
Landing(r)   == OriginalLands(r) \/ NumberedLands(r)

Step(r) == Refuse(r) \/ Begin(r) \/ Progress(r) \/ Repeat(r) \/ Fail(r) \/ Landing(r)

Next == \E r \in Requests : Step(r)

Spec == Init /\ [][Next]_vars

(* Every store call returns: the service sets no deadline of its own, so   *)
(* this is a promise of the store and its client library.                  *)
Fairness == \A r \in Requests : WF_vars(Progress(r))

FairSpec == Spec /\ Fairness

-----------------------------------------------------------------------------
(* The type invariant; UploadInvariant, which the runs check, begins with  *)
(* it.                                                                     *)
TypeOK ==
  /\ bucket \in [Keys -> Docs \cup {Absent}]
  /\ pc \in [Requests -> Labels]
  /\ bom \in [Requests -> [serialNumber : Urns \cup {NoSerial}, version : Versions]]
  /\ branch \in [Requests -> Branches]
  /\ listed \in [Requests -> SUBSET Suffixes]
  /\ drawn \subseteq Uuids
  /\ answer \in [Requests -> Answers]
  /\ before \in [Requests -> SUBSET Requests]

Created(r) == answer[r] = "created"

(* An acknowledged upload (201) is not replaced by a request that arrived  *)
(* after the acknowledgement, however its calls are repeated or delayed:   *)
(* the document under the key is its own or that of a request it raced     *)
(* with.  Versions below 1 are left out: an assignment that has wrapped    *)
(* around produces the same one again (see AssignedVersionPositive).       *)
AckedNeverReplacedLater ==
  \A r \in Requests : Created(r) /\ bom[r].version >= 1 =>
    LET holder == bucket[NumberedKey(r)]
    IN  holder \in Requests /\ r \notin before[holder]

(* An upload without a version gets one above every version of its serial  *)
(* number that had been acknowledged when it arrived, as long as the       *)
(* increment of uploadCaseSNValidVersionInvalid does not overflow.         *)
MonotonicAssignment ==
  \A q \in Requests : Created(q) /\ branch[q] = "assign" /\ bom[q].version >= 1 =>
    \A r \in before[q] :
      Created(r) /\ bom[r].serialNumber = bom[q].serialNumber
        => bom[r].version < bom[q].version

(* When an upload without a serial number is acknowledged, both objects of *)
(* uploadCaseSNInvalid are in the bucket, and the unchanged original is    *)
(* that of this very upload: no other request reuses the serial number's   *)
(* "original" key.                                                         *)
GeneratedPairComplete ==
  \A r \in Requests : Created(r) /\ branch[r] = "generate" =>
    /\ bucket[OriginalKey(r)] = r
    /\ bucket[NumberedKey(r)] # Absent

(* A request answered 409 or 400 has stored nothing and never will, and a  *)
(* 409 is true: another document is stored under the key.                  *)
RejectedLeaveNoTrace ==
  \A r \in Requests : answer[r] \in {"conflict", "refused"} =>
    /\ \A k \in Keys : bucket[k] # r
    /\ answer[r] = "conflict" => bucket[NumberedKey(r)] # Absent

(* No two uploads are acknowledged for the same serial number and version. *)
(* The README and the comment of UploadBOM promise it of every upload; it  *)
(* holds for uploads that do not overlap.                                  *)
OneUploadPerVersion ==
  \A q, r \in Requests :
    Created(q) /\ Created(r) /\ bom[q] = bom[r] /\ bom[q].version >= 1 => q = r

(* Every acknowledged version is one ValidVersion calls "a version this    *)
(* service writes": a decimal integer greater than zero.                   *)
AssignedVersionPositive ==
  \A r \in Requests : Created(r) => bom[r].version > 0

(* Every upload that starts is answered: the loop that draws serial        *)
(* numbers ends, and no branch waits for another request.                  *)
EveryUploadAnswered ==
  \A r \in Requests : pc[r] \in Working ~> answer[r] # "none"

-----------------------------------------------------------------------------
(* The inductive invariant of UploadProofs: why the history of a request   *)
(* protects the acknowledgements it contains.                              *)

MayPutNumbered(q) ==
  pc[q] \in {"putOriginal", "originalSent", "put", "sent", "latePut"}

SameSerial(q, r) == bom[q].serialNumber = bom[r].serialNumber

(* What arrived before was answered, and an answer ends the handler.       *)
HistoryAnswered ==
  \A q \in Requests :
    /\ \A r \in before[q] : answer[r] # "none"
    /\ pc[q] \in Working \cup {"waiting"} => answer[q] = "none"
    /\ Created(q) => pc[q] = "done"

(* From the end of the branch's own lookup on, a request has a serial      *)
(* number; one with a generated serial number has version 1.               *)
SerialKnown ==
  \A q \in Requests :
    /\ pc[q] \notin {"waiting", "generate", "done"} \/ Created(q)
         => bom[q].serialNumber \in Urns
    /\ pc[q] \in {"generate", "putOriginal", "originalSent"} => bom[q].version = 1
    /\ pc[q] = "sent" => bucket[NumberedKey(q)] \in Requests

(* Only its own branch's lookup is ahead of a request.                     *)
BranchKept ==
  \A q \in Requests :
    /\ pc[q] = "generate" => branch[q] = "generate"
    /\ pc[q] = "check" => branch[q] = "keep"

(* Whoever holds a key has arrived: its history is fixed.                  *)
HoldersArrived ==
  \A k \in Keys : bucket[k] \in Requests => pc[bucket[k]] # "waiting"

(* What was acknowledged before a LIST is on its first page.               *)
ListedAcked ==
  \A q \in Requests : pc[q] = "listing" =>
    \A r \in before[q] :
      Created(r) /\ bom[r].version >= 1 /\ SameSerial(q, r)
        => bom[r].version \in listed[q]

(* A request never holds the key of what was acknowledged before it came.  *)
KeysDiffer ==
  \A q \in Requests : MayPutNumbered(q) /\ bom[q].version >= 1 =>
    \A r \in before[q] : Created(r) => bom[r] # bom[q]

AssignedAbove ==
  \A q \in Requests :
    branch[q] = "assign" /\ (MayPutNumbered(q) \/ Created(q)) /\ bom[q].version >= 1 =>
      \A r \in before[q] :
        Created(r) /\ SameSerial(q, r) => bom[r].version < bom[q].version

(* The inductive invariant: whatever a request may still write differs     *)
(* from every key that was acknowledged before it arrived, and a version   *)
(* the service assigned lies above those acknowledged before.              *)
UploadInvariant ==
  /\ TypeOK
  /\ HistoryAnswered
  /\ SerialKnown
  /\ BranchKept
  /\ HoldersArrived
  /\ ListedAcked
  /\ KeysDiffer
  /\ AssignedAbove
  /\ AckedNeverReplacedLater
=============================================================================
