# Verification of the CBOM repository

TLA+ models of `cbom-repository`, the TLC runs that check them and the theorems
about them that the TLA+ proof system checks. The source paths below are
relative to the root of the repository.

The service is a stateless HTTP front of one S3 bucket. A BOM is stored under
`<urn>-<version>`; an upload that had no serial number also leaves an unchanged
copy under `<urn>-original`. There is no database, no lock and no conditional
write: every question the service asks ("does this version exist", "which is the
latest", "what changed since") is a HEAD or a LIST whose answer may be stale when
it is used, and the only mutable state is the bucket. That is where the hard
behaviour is, and what the models are about.

## Inventory

| Component | State | Operations | Hard behaviour | What makes it correct |
|---|---|---|---|---|
| Upload (`internal/service/upload.go`, `Upload` in `internal/http/handlers.go`) | objects in the bucket | `UploadBOM`: refuse, generate a serial number, assign a version, keep both | overlapping uploads between check and PUT, failure between two PUTs, repeated and late PUTs, an unbounded loop, int overflow | an acknowledged version is not replaced later, assigned versions grow, both objects of a generated serial number are there, a refusal leaves nothing |
| Object store adapter (`internal/store/store.go`) | none of its own | `Upload`, `KeyExists`, `GetObjectVersions`, `GetHeadObject`, `GetObject`, `Search`, `HealthCheck` | listings of several pages, an empty version slice without an error, foreign keys | what was stored throughout a listing is listed |
| Fetch (`GetBOMByUrn`, `UrnVersions` in `internal/service/service.go`) | none | latest, exact version, list of versions | objects replaced or deleted between LIST and GET/HEAD | the latest version is not below a stable one and never goes backwards, no stable version is missing |
| Paged search (`searchPaged`, `searchCursor`, `internal/service/cursor.go`) | none; the consumer keeps a watermark and a cursor | opening page, continued page, the consumer's loop (README of the repository) | page boundaries within a second, second and millisecond stamps, overwrites between LIST and HEAD, uploads that become visible behind the boundary | entries ascend strictly, a run loses nothing, the overlap catches what came late |
| Unpaged search (`searchLegacy`) | none | one walk over the listing, in key order | an object that cannot be read fails the call, one that vanished or has no statistics is skipped | a completed run has passed over nothing else in silence |
| Crypto statistics (`internal/service/stats.go`) | none | `walkComponents`, `countCryptoStats` | an explicit stack, a depth bound | exact counts, exact truncation marker |
| Health (`internal/health/health.go`, health handlers of `internal/http/server.go`) | none; the kubelet counts failures | overall status, readiness, liveness, the storage check | a deadline beside the timeout of the probe, an outage that must not restart replicas | traffic only with a storage, no restart by a probe once started, recovery |
| HTTP layer (`internal/http`) | prefix, allowed origins | routing, `parseSearchRequest`, `Link`, CORS, problems | parameters valid one by one and not together, relative references behind a prefix, headers a browser hides | a query is refused exactly as documented, a `Link` leads on, nobody takes a page for the last one that is not |
| Schemas and start (`service.New`, `cmd`, `internal/env`, `internal/store/connect.go`) | compiled schemas | a sequence of fatal checks at start, one call to the storage | that call has no deadline | a storage that stays up makes the replica ready in the end |
| Logging (`internal/log`) | attributes in a context | `ContextAttrs` | `append` to a slice reached through a context | not modelled, see below |

Components interact only by calls down (handler, service, store) within the
goroutine of one request; goroutines and replicas interact only through the
bucket. The test mock, the Helm chart, the OpenAPI text and the vendored JSON
schemas have no behaviour of the program and are left out.

## Modules

| Module | Models |
|---|---|
| `BomStore` | keys, what a HEAD and a LIST answer, parsing of suffixes, Go's int |
| `Upload` | `UploadBOM` in any number of concurrent requests |
| `Registry` | the abstract contract: a registry written once per serial number and version |
| `UploadRefinement` | the mapping from `Upload` to `Registry` |
| `Fetch` | the two read handlers, beside an environment that writes and deletes |
| `Repository` | `Upload` and `Fetch` on one bucket |
| `Search` | the paged and the unpaged search, the store's stamps and the consumer's protocol |
| `Cursor` | the text form of a cursor, over an alphabet of a few characters |
| `SearchHttp` | `GET /v1/bom` as HTTP: the route, the query, the `Link`, CORS |
| `CryptoStats` | the component walk and the counts |
| `Health` | the health service as functions of what the checkers reported |
| `Lifecycle` | one replica: `main`, the health handlers, the probes of the chart, a storage that refuses or hangs |
| `MCUpload`, `MCFetch`, `MCRepository`, `MCSearchHttp` | instances for TLC; the others need only a `.cfg` |
| `UploadProofs`, `RegistryProofs` | theorems about `Upload`, for any clients and for clients that wait, with the refinement of `Registry` |
| `FetchProofs`, `RepositoryProofs` | theorems about `Fetch` and about uploads and reads together |
| `SearchProofs` | theorems about `Search` |
| `LifecycleProofs` | theorems about `Lifecycle` |
| `CryptoStatsProofs` | theorems about `CryptoStats` |
| `SearchHttpProofs` | theorems about `Cursor` and `SearchHttp` |

`Repository` composes `Upload` and `Fetch` on one bucket, `Lifecycle` builds on
`Health` and `SearchHttp` on `Cursor`. `Search` has a bucket of its own, since
it is about stamps where the others are about versions, and `SearchHttp` takes
from it only that a page has a `Next` or not.

### How the models correspond to the code

*Upload.* `pc[r]` is the place of request `r` in `UploadBOM`, `bom[r]` the two
fields of its `bom` variable that matter, `answer[r]` how it ended. Every store
call is one step, a PUT is two (`Send…` takes effect, `…Returned` is the return
in the handler), and a listing is two (`ListFirstPage`, `ListLastPage`): what the
first page covers is complete as of that step, and later pages may add any part
of what appeared meanwhile. `Resend…` is the client library repeating a PUT
whose answer was lost. `Fail` is an error of any store call, a cancelled request
or the death of the replica at any point; a PUT that was under way may still
land afterwards (`OriginalLands`, `NumberedLands`). Decoding, input checks and
the schema are one action, `Refuse`: they precede everything and change nothing.
A document is named by the request that sent it. `before[r]` and nothing else is
history: the requests answered when `r` arrived.

The bucket is strongly consistent per key (as S3 and MinIO are). `uuid.NewString`
never draws the same UUID twice, but may draw one that a client made up.
Deletion is left out of `Upload`, since the service has none; `Fetch` and
`Search`, whose code handles vanished objects, have it in their environment.

*Fetch.* `ListFirst`/`ListLast` as above, but with deletions an object may also
drop out of the listing. `SelectLatest` indexes the last of the sorted versions,
or panics when there is none. `UrnVersions` asks for one object per step, in
ascending order and `original` last. `stable` and `earlier` are history.

*Search.* A position is a millisecond stamp and a key. One action per loop
iteration of `searchPaged`, `searchCursor` and `searchLegacy` (`Stop`, `Skip`,
`Yield`, `AllExamined`, `Reject`), each of `Yield`, `Skip` and `Reject`
containing its HEAD; the LIST is split in two at any key. The store stamps an
object with the time its upload was *initiated*, cut to its `precision`
(milliseconds for MinIO, seconds for AWS S3). The consumer is that of the
repository's README (`run_start`, follow `Link`, watermark minus overlap), whose
clock may be ahead of or behind the store's by up to `MaxSkew` (`ConsumerClock`;
a `run_start` from the `Date` header of the first response is late by what the
answer took, which counts as skew), with
the `protocol` `"after"` the earlier loop described beside it, or with
`"unpaged"` one that sends no limit and gets one answer in key order. Some
objects may be odd in the ways `Kinds` lists: a key without a dash or without a
version, no statistics, or statistics that cannot be read. A paged call skips a
key that is not one of this service and takes the rest for sound, a warning in
the entry aside, and warnings are left out. An unpaged call skips an object
that vanished or has no statistics, and fails (`FailsOn`) on a key without a dash
and on statistics that it cannot read. A failed run is repeated from the same
watermark.

*Cursor* and *SearchHttp.* A token is a text in an encoding; numerals have two
digits instead of ten, and the alphabet has the characters that matter to the
parser, one other and one byte that is not UTF-8. Base64 writes three bytes in
four characters, so the bound of 2048 characters on a token is one of 1536 bytes
on its text (`MaxTokenLength`). `SearchHttpAssumption` is the computation in the
comment beside that constant: the tag, two bars, a numeral up to `MaxMillis` and a
key up to `MaxKeyLength` (1024 bytes in S3) fit. A query is, for each parameter, the
sequence of its values, of which the first counts for `after` and `limit` and a
second `cursor` is refused; a value names an integer or none (`NotANumber`: an
empty one, a word, or one of more than 64 bits) and may have blanks around it, which
are taken off a `limit` and not off an `after`. Whatever fails in `Service.Search`
(a LIST, a HEAD of an unpaged call) is answered with a 500, which `Accept` allows
for every request. A path is a sequence of slashes and names. A
behaviour is either a run of a sensible consumer in any deployment
(`AnyDeployment`: every spelling of the prefix, an ingress that strips one,
lists of origins) or one query of any shape in the default deployment
(`AnyQuery`). What the pages contain is `Search`'s business; here a page ends
with any cursor or with none. The browser is modelled by what the CORS
specification lets a page read.

*Health* and *Lifecycle.* `main` connects to the storage before it listens, and
that HeadBucket has no deadline. Only the storage checker is registered, so a
result has at most one status. A handler is `Examining` until its check has an
answer, an error or its deadline, and then answers; the kubelet cancels a probe
after its timeout and counts failures up to the threshold. A storage that does
not hang answers or refuses a check before the deadline, and `main` within a
tick, which is a fraction of the deadline. Deadline, timeout and
period have the proportions of the code and the chart (5 s, 5 s, 10 s); the
thresholds are the chart's own, 45 for the startup probe and 3 for the others.
The liveness probe, which the chart leaves off by default, is on. Initial
delays, grace periods and the back-off between restarts are left out: they only
postpone what happens. `hung` and `away` are history; so is `prompt`, which
carries the assumption about a storage that does not hang.

*CryptoStats.* The document is a tree of numbered components; `pending` is the
stack with its depths, one step per iteration of the loop.

## Runs

| Run | Question | Bounds |
|---|---|---|
| `upload_race` | What is an acknowledgement worth when uploads overlap, fail, repeat and land late? Also checks the inductive invariant. | 3 uploads, 2 serial numbers (both can be drawn, one is known to clients), versions 1 and 3 from clients, `MaxInt = 3`, one foreign object |
| `upload_serial` | Do uploads that do not overlap implement `Registry`, and is each answered? | 3 uploads, 3 serial numbers, one of which clients use too, `MaxInt = 4` so that nothing overflows, no late effects |
| `upload_lost_update`, `upload_wrap` | see Findings | 2 uploads |
| `fetch_churn` | What may a read answer while the bucket changes, and does it end? | 1 read; versions 1 and 2, `original` and a foreign key come and go; documents with, without and with broken contents and statistics |
| `repository_reads` | Do clients read what was acknowledged? Does the latest version ever go back? | 2 uploads, 2 reads, 1 serial number |
| `repository_panic` | see Findings | 2 uploads, 1 read |
| `search_pages` | Does a run order, lose, repeat or silently pass over anything? Does `Next` say whether there is more? | 4 keys, one of them odd in any of four ways, any initial objects from two seconds, limit 1, one upload or deletion and one tick meanwhile; both precisions, all three consumers (1.4 million states) |
| `search_overlap` | Does the next run catch what came late, and do runs end? | 2 keys, any initial objects, one upload of up to half a second or deletion, clocks up to half a second apart, overlap of 2 s (with a skew of a whole second the property fails), 2 runs, the clock from 4 to 7; all three consumers |
| `stats_walk` | Order, completeness, counts, truncation | all trees of up to 5 components, depth bound 2 |
| `lifecycle_probes` | How long does a replica without storage get traffic, what restarts it, does it recover? | deadline and timeout of 2 ticks, period 4, thresholds 45 (startup) and 3; 3 changes of the storage, 1 crash (86 687 states) |
| `http_requests` | Which queries are refused, which tokens accepted, where does a `Link` lead, what does a browser see? | each parameter absent, once or repeated, with each integer around its bounds or none; all texts of up to 3 characters, also behind `v1` and a bar of up to 4, as tokens, and the tokens of 12 cursors in every encoding, with one text too long (`MaxTokenLength` 7) and one number beyond `MaxMillis` (2); cursors with keys of up to 2 characters; 6 spellings of a prefix, 2 mounts, lists of up to 2 origins; runs of up to 3 pages (117 380 states) |

Two requests are enough for every race of a check and a PUT, the third gives one
that arrives after an acknowledgement while another is still under way. Two
ticks per second are enough to tell millisecond from second precision, and a
limit of 1 puts a page boundary after every entry. The change feed starts from
every possible bucket, so one change during a run (an upload that begins in one
page and lands in another, an overwrite between LIST and HEAD, a deletion) meets
every arrangement of what is already there. Reads change nothing and therefore
arrive one after the other in `Repository`, where only their order matters. `CHECK_DEADLOCK FALSE` is set
where a behaviour ends: every request is sent once, the clock and the number of
runs are bounded, a walk ends, and a replica whose storage hangs may wait while
the clock stands. The bounds are `Requests`, `Readers`, `MaxInt`,
`StartTime`, `MaxTime`, `MaxUpload`, `MaxSkew`, `MaxChanges`, `MaxCrashes`,
`MaxRuns`, `MaxPages`, `MaxKeyLength`, `MaxTokenLength`, `MaxMillis`,
`MaxComponents` and, for the depth, `MaxComponentDepth` (1000 in the
code). In `Lifecycle` three changes of the storage are one outage that turns
from a refusal to a hang, or two outages, and one more than that in a container
that a crash made anew; time is not bounded there, the counters of age and
absence are cut off where they no longer matter (`Period`, `AwayBound`).
The smallest numeral that can be written with a zero in front has two
characters, and a token needs two bars around it, so tokens of up to five
characters with a tag contain every way of not being canonical but the length. `MaxInFlight` and `LateEffects` choose the kind of clients
and store. Symmetry is used for requests and readers, in runs of invariants only.

### Fairness

Liveness assumes that a store call that was made returns, with an answer or an
error: weak fairness of each handler's own steps, nothing about other requests,
repeats, failures or late effects, and no fairness of arrivals. The service sets
no deadlines of its own for these calls, so this is a promise of the S3 client
library and the server. It is enough because no handler waits for another; the
loop that draws serial numbers ends because every draw is new. For `Search` the
handler and the consumer go on, weakly fairly, as one process. Clock and uploads
are bounded there: with an endless stream of new objects a run would not have to
end, and the code does not promise it. For `Lifecycle` the process, the kubelet
and the clock go on: each of these steps is a goroutine that can run, a timer
that fires or a timer of the kubelet. The storage is under no obligation;
`ReadyAgain` assumes only that it is up from some time on.

## Findings

1. **Two uploads of one version, both acknowledged** (`upload_lost_update`).
   The HEAD at `upload.go:258` and the PUT at `upload.go:276` are not atomic. Two
   overlapping uploads of the same serial number and version both get 201 and one
   document is lost, where the README (line 53) promises a 409. What remains true
   under overlap is proved: only a request that *overlapped* an acknowledged one
   can replace it.
2. **Panic on an original alone** (`repository_panic`). While an upload without
   a serial number is between its two PUTs, and for good if it fails there,
   `<urn>-original` is the only object of its serial number. `GetObjectVersions`
   then answers an empty slice without an error, and `service.go:712` indexes it
   at -1: a read of the latest version panics. `upload.go:224` does the same for
   an upload that asks for the next version (`AssignFrom` in `Upload`).
3. **Overflow of assigned versions** (`upload_wrap`). After an upload with the
   largest int as version, `upload.go:224` wraps around, stores a negative version
   and answers 201; no reader accepts that version.

`AckedNeverReplacedLater`, `MonotonicAssignment`, `AckedIsServed` and
`ServedIsNotLater` therefore speak of versions of at least 1.

## Proofs

Each theorem is for every value of the constants that satisfies the named
assumption of its module (`StoreAssumption`, `UploadAssumption`, and so on), and
for what is listed in addition. Every module rests on an inductive invariant, which
holds at first and is kept by each action, lemma by lemma; the properties follow
from it.

**`UploadProofs`**, any number of requests, serial numbers and stored objects,
every int width, any overlap:

* `TypeCorrect`: `Spec => []TypeOK`, which the run checks as the first part of
  `UploadInvariant`.
* `UploadInvariantHolds`: `Spec => []UploadInvariant`, the inductive invariant.
* `AcknowledgedUploadsStand`: `Spec => []AckedNeverReplacedLater`.
* `AssignedVersionsGrow`: `Spec => []MonotonicAssignment`.

`AckedNeverReplacedLater` is not inductive: a step that PUTs must be known not to
hit the key of an upload acknowledged before the writer arrived. The invariant
says why it does not. An answered request never acts again but for a late PUT
(`HistoryAnswered`), and what is acknowledged stays in the bucket (part of the
property itself). So the lookup of each branch, made after the arrival, has
seen all of the request's history: version 1 of a drawn serial number was free,
the HEAD found nothing, or the listing contains every acknowledged version
(`ListedAcked`) and the assigned one is above them (`AssignedAbove`). From the
lookup to the last PUT, late ones included, the key differs from every
acknowledged key of the history (`KeysDiffer`). `SerialKnown`, `BranchKept` and
`HoldersArrived` tie positions in the handler to its data. There is one lemma per
branch for its lookup (`LookupGenerate`, `LookupCheck`, `LookupList`), and one
per conjunct for a step.

And about the objects in the bucket, under the same assumptions:

* `GeneratedPairsComplete`: `Spec => []GeneratedPairComplete`. `PairInvariant`
  adds that nobody else has the generated serial number by drawing it
  (`DrawnOnce`), that only the branch that draws writes an original, and so that
  an original stays once it was written.
* `RejectedLeaveNothing`: `Spec => []RejectedLeaveNoTrace`. `TraceInvariant` says
  who has not reached a PUT, and never will once it is answered.

**`RegistryProofs`**, for any finite set of requests
and `MaxInFlight <= 1`, that is clients that wait for each answer:

* `SerialUploadsAreUnique`: `Spec => []OneUploadPerVersion`, late PUTs included.
  `SerialInvariant` adds that one upload is under way at a time and that its
  history holds all acknowledgements, which reduces the property to `KeysDiffer`.
* `SerialUploadsImplementRegistry`:
  `Spec /\ []NoVersionWraps => ImplementsRegistry`, the refinement, if in
  addition no failed PUT lands late, the bucket had no versions at first, and no
  version overflows. Each assumption is needed: a late PUT enters an upload that
  was answered long ago, a foreign version is not in the registry, and
  `upload_wrap` shows what an overflow does. `RegistryInvariant` says what a
  request that is about to PUT knows of the bucket (`FreeToPut`): its key is
  free, and an assigned version is the one after the latest, because the LIST it
  was taken from is still true (`Alone`). Then each action maps: `Begin…` to
  `Start`, `SendNumbered` to `Enter`, every answer to `Answer`, the rest to a
  stutter.

**`FetchProofs`**, any number of readers, documents and keys, any churn:
`FetchTypeCorrect`, `LatestIsAboveStable`, `VersionListCoversStable`
(`FetchTypeOK`, `LatestAboveStable`, `VersionsCoverStable`). `FetchInvariant`
follows what is stable from the bucket to the first page, to the version that is
fetched or the versions still to be asked for, and to the answer.

**`RepositoryProofs`**, any number of uploads and reads together:
`ReadYourWrites`, `NothingLaterIsServed`, `LatestNeverGoesBack` (`AckedIsServed`,
`ServedIsNotLater`, `MonotonicLatest`). `RepositoryInvariant` is
`UploadInvariant` with what it means for reads: what a read's history holds was
stored when it arrived (`Remembered`), is stored still, since uploads take nothing
away, and has passed on to the answer (`StoredPassedOn`, `AnsweredRightly`); a
document that is served is not that of a later upload (`ServedRightly`).

**`SearchProofs`**, any number of objects, uploads and deletions, every limit and
overlap, stores of every precision, all three consumers: `SearchTypeCorrect`,
`RunsAscend`, `NextIsExact`, `RunsLoseNothing`, `UnpagedRunsPassOverNothing`
(`TypeOK`, `RunStrictlyAscends`, `NextMeansUnexamined`, `RunLosesNothing`,
`UnpagedPassesOverNothing`); and, over two runs, `OverlapIsEnough`
(`OverlapCatchesUp`). `OrderInvariant` says that what a run has received
lies up to where it continues (`Bounded`), that what a request chooses lies
beyond, and that a `Next` is the last entry of its page, at the end of its second
on an opening page (`NextIsLast`). None of that depends on the store, and so no
change of the bucket disturbs it (`DisturbOrders`). `NothingLost` says where each
object that is owed to the consumer is: received, on the page, among the
candidates, or beyond the point where the run continues. That the LIST of a
continued page starts one second early is `ListFromBefore`; an object from the
cursor's own second would otherwise not be among the candidates.

`OverlapIsEnough` assumes what the repository's README asks of the operator
(line 130, `OverlapSuffices`): the time an upload takes to become visible and the
skew of the clocks together are at most the overlap less one second, stamps are in milliseconds or whole seconds, and the
clock is past the first second. The second less is what cutting to seconds may
cost. `CatchUpInvariant` says that an upload in progress is young
(`UploadsAreYoung`), so that it lies above the watermark and above the one the run
will set, and therefore that whatever lies below these was delivered
(`OldIsDelivered`) or was there when the run started (`OldIsSettled`).

**`LifecycleProofs`**, every set of probes, every deadline and period, a
threshold of its own for the startup probe:
`LifecycleTypeCorrect` (`LifecycleTypeOK`), `StartedContainersLive`
(`StartedIsNeverKilled`), `RefusalsKillNothing` (`OnlyAHangKills`) if
`CheckDeadline <= ProbeTimeout`, and `TrafficEndsInTime` (`ReadyIsFresh`) if
`ProbeTimeout <= Period`; both hold in the chart.
`LifecycleInvariant` says that a check that is not prompt is younger than its
deadline unless the storage hung.

`ReadinessInvariant` adds up the times: while the replica gets traffic, the storage
has been away for at most a period for each failure counted (one more if a probe
is on its way) and the time since the last one was sent (`Noticed`), and a check
that found the storage up found it now.

**`CryptoStatsProofs`**, documents of any size and shape, every depth bound and
every set of asset types: `StatsTypeCorrect`, `WalkKeepsDocumentOrder`,
`CountsAreExact` (`StatsTypeOK`, `WalkInDocumentOrder`, `CountsExact`).
`WalkInvariant` says that what lies deeper in the stack is a later sibling of what
lies above it or of one of its ancestors (`StackInOrder`), that what was visited
comes before what is pending (`FoundBeforePending`), and what `truncated` means so
far. The order of the document is defined by comparing siblings among the
ancestors of two components, so no recursion over the tree is needed: the
ancestors are the least set that is closed upwards, and that they form a line
(`AncestorsInLine`) follows from parents being numbered first. Counting at the end
is a bijection between positions in `found` and components (`CountsAgree`).

**`SearchHttpProofs`**, every prefix, mount and list of origins, cursors with any
time stamp and any key that the storage allows, any tokens: `HttpTypeCorrect`,
`AcceptedTokensAreOurs`, `OnlyTheDocumentedRefusals`, `LinksLeadOn`,
`BrowsersSeeEveryPage` (`HttpTypeOK`, `TokensAreCanonical`, `RefusedAsDocumented`,
`LinkLeadsOn`, `BrowserSeesEveryPage`). They rest on three groups of lemmas.
`CursorsReadBack`: a token is read as the cursor it was written for, and is not
too long, by `SearchHttpAssumption`. The key may
contain bars, and it is the *first two* bars that split (`SplitUndoesJoin`).
`OnlyOneToken`: a text that is read as a cursor is that cursor's token
(`FieldFacts` puts the fields together again). `LinkIsTheRoute`: resolving the
reference of a `Link` under any mount and any spelling of a prefix gives the path
that was asked. `HttpInvariant` then ties the answer to the query, and the query
to the `Link` that it follows. What follows a `Link` is thus never refused, by a 404
or a 400, but may meet a storage that fails (500).

`Numeral` and `DigitsValue` are recursive functions. The induction theorems of
the library take an operator and cannot be used, so the module has an induction
for properties that are *sets* (`SetInduction`, from the well-foundedness of the
naturals) and from it that a definition by recursion on a rank has a solution
(`Recursion`). With these, `NumeralsReadBack` is an ordinary proof.

Each of these inductive invariants was checked by TLC on the instances of the
runs before it was proved; `UploadInvariant` is checked in `upload_race`.

*Only model-checked, and not proved:* liveness (`EveryUploadAnswered`,
`EveryReadAnswered`, `RunEnds`, `ReadyAgain`), which is out of the prover's reach.
The provers need two things that have nothing to do with the code: they do not
know that a literal is in `STRING` (hence `Parts` in `SearchHttpProofs`), and fail
on an empty one (hence `Nothing` in `SearchHttp`).

## Not modelled

* *Logging.* `ContextAttrs` appends to a slice that it reads from the context, and
  two contexts made from one parent could share the array behind it. In this code
  a context has at most one successor, made by the goroutine that made it, so no
  two of them are in use at once, and there is nothing to interleave.
* *Schemas.* `service.New` compiles the embedded schemas once, before the listener
  exists. It is sequential, its input is part of the binary, and it either ends or
  stops the process. The validation of a document is `Refuse` in `Upload`.
* *HTTP.* Preflights, which a GET without headers of its own does not need; the
  limit on the size of a body, which is a refusal like any other; media types and
  the text of problems, which have no state; caches between the service and its
  clients.
* *Configuration.* The checks that a variable is not blank: each stops the process
  at start.
* The mock, the Helm chart beyond its probes, the OpenAPI text and the vendored
  schemas.

Noted while modelling, without a run of its own: `calculateOverallStatus` keeps
the first status that is not UP in the random order of a Go map, where its comment
speaks of the worst one, which needs a second checker to show; the comment of
`HealthHandler` knows 200 for UP and DEGRADED and 503 otherwise, while UNKNOWN is a
200; `Vary: Origin` is missing from answers to requests without an `Origin`; and an
allowed origin that spells out the default port is accepted although no browser
sends it.

## Plan

1. Core (done): `BomStore`, `Upload`, `Registry`, `Fetch`, `Repository`, their runs.
2. Change feed and statistics (done): `Search` with the unpaged search,
   `CryptoStats`.
3. Around the service (done): `Cursor`, `SearchHttp`, `Health`, `Lifecycle`.
4. Proofs (done): the invariants of every module, and the refinement of
   `Registry`.
5. Left: a composition of `Upload` and `Search` in which an upload of several
   objects appears in the feed one object at a time.
