------------------------------- MODULE Search -------------------------------
(***************************************************************************)
(* GET /v1/bom: the change feed.  A consumer opens a run with its          *)
(* watermark, follows the Link of each page, and takes a new watermark     *)
(* from the start of the run; the service lists the bucket for every page, *)
(* orders what it listed by (LastModified, key) and asks for each object   *)
(* in turn.  Without a limit there is one answer, in key order, and an     *)
(* object that cannot be read fails it.  Meanwhile uploads land, also ones *)
(* stamped with the time they were initiated at, objects are overwritten,  *)
(* and others delete some.  Time is in milliseconds.                       *)
(***************************************************************************)
EXTENDS Integers, Sequences

CONSTANTS
  Names,       \* object keys, as numbers in key order
  OddNames,    \* those of objects that this service did not store
  OddKinds,    \* what may be odd about them, see Kinds
  MsPerSec,    \* milliseconds in a second
  Precisions,  \* of a store's LastModified: 1 (MinIO) or MsPerSec (AWS S3)
  MaxUpload,   \* the longest upload, in milliseconds
  MaxSkew,     \* the skew between the clocks of store and consumer, in milliseconds
  Limit,       \* the consumer's limit
  Overlap,     \* the seconds the consumer goes back between runs
  Protocols,   \* of consumers: "link", "after" (the earlier loop), "unpaged"
  StartTime,   \* the clock at first
  MaxTime,     \* bound on the clock
  MaxChanges,  \* bound on the uploads and deletions from then on
  MaxRuns,     \* bound on the completed runs
  None         \* no stamp, no cursor

ASSUME SearchAssumption ==
  /\ Names \subseteq Nat /\ OddNames \subseteq Names
  /\ OddKinds \subseteq {"dashless", "version", "statless", "garbled"}
  /\ MsPerSec \in Nat \ {0} /\ Precisions \subseteq 1 .. MsPerSec
  /\ MaxUpload \in Nat /\ MaxSkew \in Nat /\ Limit \in Nat \ {0} /\ Overlap \in Nat
  /\ Protocols \subseteq {"link", "after", "unpaged"} /\ StartTime \in Nat /\ MaxTime \in Nat
  /\ MaxChanges \in Nat /\ MaxRuns \in Nat
  /\ None \notin Nat /\ None \notin [at : Nat, name : Nat]

VARIABLES
  precision,  \* of the store at hand
  protocol,   \* of the consumer at hand
  odd,        \* what is odd about the odd objects at hand
  now,        \* the clock of the store
  objects,    \* the LastModified of every stored object
  uploading,  \* when the upload in progress under a key was initiated
  changes,    \* how many uploads and deletions there were
  phase,      \* where the consumer and the handler of its request are
  watermark,  \* the consumer's after between runs, in seconds
  runStart,   \* when the run started, by the clock of the consumer
  after,      \* the after of the request in progress, in seconds
  cursor,     \* its cursor, None if it opens a run
  listing,    \* the objects as they were when the LIST began
  todo,       \* the candidates not examined yet
  page,       \* page.Entries, as the positions of the entries
  next,       \* page.Next
  run,        \* the entries received in this run
  runs,       \* how many runs completed
  delivered,  \* history: every entry received in any run
  settled     \* history: the objects unmodified since the run started

setup        == <<precision, protocol, odd>>
storeVars    == <<now, objects, uploading, changes>>
requestVars  == <<after, cursor, listing, todo, page, next>>
consumerVars == <<watermark, runStart, run, runs, delivered>>
searchVars   == <<setup, storeVars, phase, requestVars, consumerVars, settled>>

Second(t) == t \div MsPerSec

(* position: an object's place in the paged order.                         *)
Position(t, n) == [at |-> t, name |-> n]

(* Cursor.compare, as "sorts strictly before".                             *)
Precedes(p, q) == p.at < q.at \/ (p.at = q.at /\ p.name < q.name)

(* What an unpaged call goes by: the key order of the listing.             *)
ByName(p, q) == p.name < q.name

Unpaged == protocol = "unpaged"

Before(p, q) == IF Unpaged THEN ByName(p, q) ELSE Precedes(p, q)

(* An odd object has a key without a dash or with no valid version in it,  *)
(* or lacks statistics, or has some that cannot be read.  Paged calls skip *)
(* the first two alike and take the other two for sound.                   *)
Kinds == IF Unpaged THEN OddKinds ELSE OddKinds \cap {"version"}

KindOf(n) == IF n \in OddNames THEN odd ELSE "sound"

BadName(n) == KindOf(n) \in {"dashless", "version"}

Stored == {Position(objects[n], n) : n \in {m \in Names : objects[m] # None}}

(* LastModified has the store's precision.  No object is from the second   *)
(* of the epoch, which after=0 leaves out.                                 *)
Stamp(t) == t - (t % precision)

Init ==
  /\ precision \in Precisions /\ protocol \in Protocols /\ odd \in Kinds
  /\ now = StartTime /\ changes = 0
  /\ objects \in [Names -> {Stamp(t) : t \in MsPerSec .. StartTime} \cup {None}]
  /\ uploading = [n \in Names |-> None]
  /\ phase = "idle" /\ watermark = 0 /\ runStart = 0 /\ after = 0
  /\ cursor = None /\ listing = {} /\ todo = {} /\ page = <<>> /\ next = None
  /\ run = <<>> /\ runs = 0 /\ delivered = {} /\ settled = {}

-----------------------------------------------------------------------------
(* The store.                                                              *)

(* No upload takes longer than MaxUpload.                                  *)
Tick ==
  /\ now < MaxTime
  /\ \A n \in Names : uploading[n] # None => now < uploading[n] + MaxUpload
  /\ now' = now + 1
  /\ UNCHANGED <<objects, uploading, changes, phase, requestVars, consumerVars, settled>>

StartUpload(n) ==
  /\ uploading[n] = None /\ changes < MaxChanges
  /\ changes' = changes + 1
  /\ uploading' = [uploading EXCEPT ![n] = now]
  /\ UNCHANGED <<now, objects, phase, requestVars, consumerVars, settled>>

(* The object appears, or is replaced, with the stamp of its initiation.   *)
FinishUpload(n) ==
  /\ uploading[n] # None
  /\ objects' = [objects EXCEPT ![n] = Stamp(uploading[n])]
  /\ uploading' = [uploading EXCEPT ![n] = None]
  /\ settled' = {p \in settled : p.name # n}
  /\ UNCHANGED <<now, changes, phase, requestVars, consumerVars>>

Delete(n) ==
  /\ objects[n] # None /\ changes < MaxChanges
  /\ changes' = changes + 1
  /\ objects' = [objects EXCEPT ![n] = None]
  /\ settled' = {p \in settled : p.name # n}
  /\ UNCHANGED <<now, uploading, phase, requestVars, consumerVars>>

-----------------------------------------------------------------------------
(* The consumer opens a run with its watermark, and reads a clock that is  *)
(* ahead or behind (its own, or the Date of the first response).           *)
ConsumerClock == {t \in 0 .. now + MaxSkew : now <= t + MaxSkew}

StartRun ==
  /\ phase = "idle" /\ runs < MaxRuns
  /\ phase' = "list"
  /\ runStart' \in ConsumerClock /\ after' = watermark /\ cursor' = None
  /\ run' = <<>>
  /\ settled' = Stored
  /\ UNCHANGED <<storeVars, listing, todo, page, next, watermark, runs, delivered>>

(* store.Search: the LIST begins, and later ends, in key order: what lies  *)
(* behind the first page is listed as it is when the last page is read.    *)
BeginList ==
  /\ phase = "list"
  /\ phase' = "listMore" /\ listing' = Stored
  /\ UNCHANGED <<storeVars, after, cursor, todo, page, next, consumerVars, settled>>

Listed(split) ==
  {p \in listing : p.name <= split} \cup {p \in Stored : p.name > split}

ModifiedAfter(found, ts) == {p \in found : p.at > ts * MsPerSec}

ListFromOwnSecond(c) == Second(c.at)

ListFrom(c) == Second(c.at) - 1

CandidatesFromSecond(found, ts) ==
  {p \in ModifiedAfter(found, ts) : Second(p.at) >= ts}

CandidatesFromNextSecond(found, ts) ==
  {p \in ModifiedAfter(found, ts) : Second(p.at) > ts + 1}

PagedCandidates(found, ts) ==
  {p \in ModifiedAfter(found, ts) : Second(p.at) > ts}

CursorCandidates(found, c) ==
  {p \in ModifiedAfter(found, ListFrom(c)) : Precedes(c, p)}

Candidates(found) ==
  CASE Unpaged                     -> ModifiedAfter(found, after)
    [] ~ Unpaged /\ cursor = None  -> PagedCandidates(found, after)
    [] ~ Unpaged /\ cursor # None  -> CursorCandidates(found, cursor)

EndList ==
  /\ phase = "listMore"
  /\ \E split \in Names \cup {0} : todo' = Candidates(Listed(split))
  /\ phase' = "walk" /\ listing' = {} /\ page' = <<>> /\ next' = None
  /\ UNCHANGED <<storeVars, after, cursor, consumerVars, settled>>

-----------------------------------------------------------------------------
(* The walk over the candidates in order, one HEAD each.                   *)

LastOf(entries) == entries[Len(entries)]
PageFull        == Len(page) >= Limit

FirstOfTodo(p) == p \in todo /\ \A q \in todo \ {p} : Before(p, q)

(* searchPaged stops in front of a candidate once the page is full, but    *)
(* not within a second; searchCursor stops with the entry that fills it.   *)
StopsBefore(p) ==
  /\ ~ Unpaged /\ cursor = None
  /\ PageFull /\ Second(p.at) # Second(LastOf(page).at)

Respond(n) ==
  /\ phase' = "respond" /\ next' = n

Vanished(p) == objects[p.name] = None

(* The unpaged call is failed by a key without a dash, before its HEAD, and *)
(* by statistics that it cannot read; a paged one by neither.              *)
FailsOnlyOnTheKey(p) == Unpaged /\ KindOf(p.name) = "dashless"

FailsOn(p) ==
  /\ Unpaged
  /\ \/ KindOf(p.name) = "dashless"
     \/ KindOf(p.name) = "garbled" /\ ~ Vanished(p)

(* An object that has vanished is skipped, a key that is not one of this   *)
(* service by a paged call, an object without statistics by the unpaged.   *)
Skipped(p) ==
  /\ ~ FailsOn(p)
  /\ \/ Vanished(p)
     \/ ~ Unpaged /\ BadName(p.name)
     \/ Unpaged /\ KindOf(p.name) \in {"statless", "garbled"}

Stop ==
  /\ phase = "walk"
  /\ \E p \in todo : FirstOfTodo(p) /\ StopsBefore(p)
  /\ Respond(LastOf(page))
  /\ UNCHANGED <<storeVars, after, cursor, listing, todo, page, consumerVars, settled>>

RetrySkipped(p) == todo

AfterSkip(p) == todo \ {p}

Skip ==
  /\ phase = "walk"
  /\ \E p \in todo : /\ FirstOfTodo(p) /\ ~ StopsBefore(p) /\ Skipped(p)
                     /\ todo' = AfterSkip(p)
  /\ UNCHANGED <<storeVars, phase, after, cursor, listing, page, next, consumerVars, settled>>

OverfillsCursorPage == cursor # None /\ Len(page') > Limit

FillsCursorPage == cursor # None /\ Len(page') = Limit

(* The entry of a paged call carries the stamp of the LIST, whatever the   *)
(* HEAD says; that of the unpaged call is the HEAD's.                      *)
Entry(p) == IF Unpaged THEN Position(objects[p.name], p.name) ELSE p

AlwaysNext(p, rest) == p

NextOfFilled(p, rest) == IF rest = {} THEN None ELSE p

Yield ==
  /\ phase = "walk"
  /\ \E p \in todo :
       /\ FirstOfTodo(p) /\ ~ StopsBefore(p) /\ ~ Skipped(p) /\ ~ FailsOn(p)
       /\ page' = Append(page, Entry(p))
       /\ todo' = todo \ {p}
       /\ IF FillsCursorPage
            THEN Respond(NextOfFilled(p, todo'))
            ELSE UNCHANGED <<phase, next>>
  /\ UNCHANGED <<storeVars, after, cursor, listing, consumerVars, settled>>

AllExamined ==
  /\ phase = "walk" /\ todo = {}
  /\ Respond(None)
  /\ UNCHANGED <<storeVars, after, cursor, listing, todo, page, consumerVars, settled>>

(* A store call fails: the page is lost, and with it the run, which the    *)
(* consumer repeats from the same watermark.                               *)
LosePage ==
  /\ phase' = "idle" /\ listing' = {} /\ todo' = {} /\ page' = <<>>
  /\ UNCHANGED <<storeVars, after, cursor, next, consumerVars, settled>>

RunFails == phase \in {"list", "listMore", "walk"} /\ LosePage

(* One object that cannot be read fails the unpaged call.                  *)
Reject ==
  /\ phase = "walk"
  /\ \E p \in todo : FirstOfTodo(p) /\ FailsOn(p)
  /\ LosePage

-----------------------------------------------------------------------------
(* The consumer receives a page.                                           *)
Receive ==
  /\ run' = run \o page
  /\ delivered' = delivered \cup {page[i] : i \in 1 .. Len(page)}
  /\ page' = <<>> /\ todo' = {} /\ next' = None

Again(a, c) == phase' = "list" /\ after' = a /\ cursor' = c

FollowNext ==
  /\ phase = "respond" /\ protocol = "link" /\ next # None
  /\ Receive /\ Again(after, next)
  /\ UNCHANGED <<storeVars, listing, watermark, runStart, runs, settled>>

(* The earlier loop: advance after to the created_at of the last entry,    *)
(* which is in whole seconds, until a page is shorter than the limit.      *)
NextAfter ==
  /\ phase = "respond" /\ protocol = "after" /\ PageFull
  /\ Receive /\ Again(Second(LastOf(page).at), None)
  /\ UNCHANGED <<storeVars, listing, watermark, runStart, runs, settled>>

EndsRun == IF protocol = "after" THEN ~ PageFull ELSE next = None

RunComplete ==
  /\ phase = "respond" /\ EndsRun
  /\ Receive /\ phase' = "complete" /\ runs' = runs + 1
  /\ UNCHANGED <<storeVars, after, cursor, listing, watermark, runStart, settled>>

(* watermark = unix(run_start) - overlap                                   *)
NextWatermark == IF Second(runStart) > Overlap THEN Second(runStart) - Overlap ELSE 0

SaveWatermark ==
  /\ phase = "complete"
  /\ phase' = "idle" /\ watermark' = NextWatermark
  /\ UNCHANGED <<storeVars, requestVars, runStart, run, runs, delivered, settled>>

Serve    == BeginList \/ EndList \/ Stop \/ Skip \/ Yield \/ AllExamined \/ Reject
Consume  == FollowNext \/ NextAfter \/ RunComplete \/ SaveWatermark
Disturb  == Tick \/ \E n \in Names : StartUpload(n) \/ FinishUpload(n) \/ Delete(n)

Next ==
  /\ Disturb \/ StartRun \/ Serve \/ RunFails \/ Consume
  /\ UNCHANGED setup

Spec == Init /\ [][Next]_searchVars

(* Store calls return and the consumer goes on.                            *)
FairSpec == Spec /\ WF_searchVars((Serve \/ Consume) /\ UNCHANGED setup)

-----------------------------------------------------------------------------
Positions == [at : Nat, name : Names]

(* The variables have their types, and a continued page never has more     *)
(* entries than the limit.                                                 *)
TypeOK ==
  /\ precision \in Precisions /\ protocol \in Protocols /\ odd \in OddKinds
  /\ now \in Nat /\ changes \in 0 .. MaxChanges
  /\ objects \in [Names -> Nat \cup {None}]
  /\ uploading \in [Names -> Nat \cup {None}]
  /\ phase \in {"idle", "list", "listMore", "walk", "respond", "complete"}
  /\ watermark \in Nat /\ runStart \in Nat /\ after \in Nat /\ runs \in Nat
  /\ cursor \in Positions \cup {None} /\ next \in Positions \cup {None}
  /\ listing \subseteq Positions /\ todo \subseteq Positions
  /\ page \in Seq(Positions) /\ (cursor # None => Len(page) <= Limit)
  /\ run \in Seq(Positions)
  /\ delivered \subseteq Positions /\ settled \subseteq Positions

(* Across the pages of a run the entries come in strictly ascending order, *)
(* so nothing is yielded twice, whatever happens to the bucket between one *)
(* page and the next.                                                      *)
RunStrictlyAscends ==
  LET entries == run \o page
  IN  \A i, j \in 1 .. Len(entries) : i < j => Before(entries[i], entries[j])

(* A completed run has yielded every object of this service that was       *)
(* stored when it started and has not been modified since, provided it is  *)
(* newer than the watermark: no page boundary loses one.                   *)
RunLosesNothing ==
  phase = "complete" =>
    \A p \in settled :
      KindOf(p.name) = "sound" /\ Second(p.at) > watermark
        => \E i \in 1 .. Len(run) : run[i] = p

(* An unpaged run completes, and its consumer moves its watermark, only if *)
(* it has yielded whatever is newer than the watermark, odd or not, except *)
(* for objects without statistics: it would rather fail, for as long as an *)
(* object that it cannot read is stored, than pass over that one silently. *)
UnpagedPassesOverNothing ==
  phase = "complete" /\ Unpaged =>
    \A p \in settled :
      KindOf(p.name) # "statless" /\ p.at > watermark * MsPerSec
        => \E i \in 1 .. Len(run) : run[i] = p

(* Over all runs, every object that was stored, unmodified, throughout the *)
(* last run has been delivered, also one that became visible behind a page *)
(* boundary an earlier run had passed: the overlap is enough when it       *)
(* covers the skew, the longest upload and one second.                     *)
OverlapCatchesUp ==
  phase = "complete" =>
    \A p \in settled : KindOf(p.name) = "sound" => p \in delivered

(* A page shorter than the limit is the last one, and a page without a     *)
(* Next has examined everything it listed.                                 *)
NextMeansUnexamined ==
  phase = "respond" => /\ next = None <=> todo = {}
                       /\ Len(page) < Limit => next = None

(* A run ends.                                                             *)
RunEnds == phase = "list" ~> phase = "idle"
=============================================================================
