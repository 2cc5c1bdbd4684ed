----------------------------- MODULE SearchHttp -----------------------------
(***************************************************************************)
(* GET /v1/bom as HTTP: where the route is, which query is accepted, what  *)
(* the Link says, and what a browser lets a page read of the answer.  The  *)
(* consumer reaches the service through an ingress that may strip a prefix *)
(* of its own; it follows Link by resolving it against the URL it asked.   *)
(* A path is a sequence of slashes and names.                              *)
(***************************************************************************)
EXTENDS Cursor, FiniteSets

CONSTANTS
  Prefixes,        \* what APP_HTTP_PREFIX may be
  Mounts,          \* what an ingress strips in front of that
  OriginLists,     \* what APP_HTTP_CORS_ALLOWED_ORIGINS may be, see Entries
  Consumers,       \* the origins of pages in a browser, or Program
  MaxSearchLimit,
  Cursors,         \* where a page may end
  MaxKeyLength,    \* the longest key of the storage
  Tokens,          \* what else may be sent for a cursor
  MaxPages,        \* bound on the pages of a run
  Program,         \* a consumer that is not in a browser
  NotANumber       \* what a parameter says that names no integer of 64 bits

(* An entry of the configured list names an origin, or is "" or "*"; it may *)
(* have blanks around it, capitals in it, or a path behind it.             *)
Nothing == ""
Extras  == {"blanks", "capitals", "path"}
Entries == [origin : STRING, extras : SUBSET Extras]

ASSUME SearchHttpAssumption ==
  /\ Prefixes \subseteq Seq(STRING) /\ Mounts \subseteq Seq(STRING)
  /\ \A list \in OriginLists : list \subseteq Entries
  /\ Nothing \notin Consumers \cup {Program}
  /\ Cursors # {} /\ Cursors \subseteq [millis : Nat, key : Seq(Chars)]
  /\ \A c \in Cursors : ValidKey(c.key) /\ Len(c.key) <= MaxKeyLength /\ c.millis <= MaxMillis
  /\ MaxTokenLength \in Nat /\ MaxMillis \in Nat /\ MaxKeyLength \in Nat
  /\ \A m \in 0 .. MaxMillis : 3 + Len(Numeral[m]) + MaxKeyLength <= MaxTokenLength
  /\ Tokens \subseteq [encoding : Encodings, text : Seq(Chars)]
  /\ MaxSearchLimit \in Nat \ {0} /\ MaxPages \in Nat \ {0}

VARIABLES
  prefix, mount, origins,  \* the deployment
  consumer, limit,         \* who asks, and the limit of the run
  phase,                   \* "idle", "sent", "answered", "complete", "failed"
  url, query,              \* the request on its way
  followed,                \* the cursor of the Link it follows, if any
  accepted,                \* what parseSearchRequest made of it
  reply,                   \* the status, or 0
  next,                    \* page.Next of the answer
  pages                    \* how many pages the run has had

deployment  == <<prefix, mount, origins, consumer, limit>>
requestVars == <<url, query, followed>>
replyVars   == <<accepted, reply, next>>
httpVars    == <<deployment, phase, requestVars, replyVars, pages>>

-----------------------------------------------------------------------------
(* Paths.  Server.New makes the prefix begin with a slash and end without. *)
RouteBOM == <<"/", "v1", "/", "bom">>

TrimSlash(path) ==
  IF path # <<>> /\ path[Len(path)] = "/" THEN SubSeq(path, 1, Len(path) - 1) ELSE path

NormalPrefix(path) ==
  LET trimmed == TrimSlash(path)
  IN  IF trimmed # <<>> /\ trimmed[1] # "/" THEN <<"/">> \o trimmed ELSE trimmed

Route == NormalPrefix(prefix) \o RouteBOM

(* The ingress passes on what lies under its mount.                        *)
Reaches(path) == path = mount \o Route

(* The Link is a reference relative to the path that was asked.            *)
LinkToRoute(cursor) == [path |-> Route, token |-> Token(cursor)]

Link(cursor) == [path |-> <<RouteBOM[Len(RouteBOM)]>>, token |-> Token(cursor)]

LastSlash(path) == CHOOSE i \in 1 .. Len(path) :
  path[i] = "/" /\ \A j \in i + 1 .. Len(path) : path[j] # "/"

Resolve(path, reference) ==
  IF reference[1] = "/" THEN reference ELSE SubSeq(path, 1, LastSlash(path)) \o reference

-----------------------------------------------------------------------------
(* Queries.  A parameter is the sequence of its values; the first one      *)
(* counts.  A value names an integer or none, and may have blanks around.  *)
Query(a, c, l) == [after |-> a, cursor |-> c, limit |-> l, decodes |-> TRUE]

Has(values) == values # <<>>

Bare(n)   == [number |-> n, blanks |-> FALSE]
Spaced(n) == [number |-> n, blanks |-> TRUE]

Values(numbers) ==
  {<<>>, <<Bare(1), Bare(NotANumber)>>, <<Bare(NotANumber), Bare(1)>>}
  \cup {<<Bare(n)>> : n \in numbers} \cup {<<Spaced(n)>> : n \in numbers}

Afters == Values({NotANumber, -1, 0, 1})
Limits == Values({NotANumber} \cup -1 .. MaxSearchLimit + 1)

SomeToken == Token(CHOOSE c \in Cursors : TRUE)
BadToken  == [SomeToken EXCEPT !.encoding = "padded"]

(* Each shape of a query, and each token in a query of the right shape.    *)
Queries ==
  {Query(a, c, l) : a \in Afters, l \in Limits,
                    c \in {<<>>, <<SomeToken>>, <<BadToken>>, <<SomeToken, SomeToken>>}}
  \cup {Query(<<>>, <<t>>, <<Bare(1)>>) : t \in Tokens}
  \cup {[Query(<<Bare(0)>>, <<>>, <<Bare(1)>>) EXCEPT !.decodes = FALSE]}

Opening(l) == Query(<<Bare(0)>>, <<>>, <<Bare(l)>>)

Continuing(token, l) == Query(<<>>, <<token>>, <<Bare(l)>>)

LimitAtLeastOne(values) == values[1].number \in Nat \ {0}

(* parseSearchLimit trims its value; 0 stands for an absent limit.         *)
LimitOk(values) == values[1].number \in 1 .. MaxSearchLimit

LimitOf(values) == IF Has(values) THEN values[1].number ELSE 0

AfterPositive(values) ==
  Has(values) /\ ~ values[1].blanks /\ values[1].number \in Nat \ {0}

(* after is parsed as it comes.                                            *)
AfterOk(values) == Has(values) /\ ~ values[1].blanks /\ values[1].number \in Nat

(* parseSearchRequest: what opens a run, or is an unpaged call.            *)
OpensRun(q) == AfterOk(q.after) /\ (Has(q.limit) => LimitOk(q.limit))

(* parseCursorRequest.                                                     *)
ContinuesRun(q) ==
  /\ ~ Has(q.after) /\ Len(q.cursor) = 1
  /\ Has(q.limit) /\ LimitOk(q.limit)
  /\ ParseCursor(q.cursor[1]) # NoCursor

Valid(q) == q.decodes /\ (IF Has(q.cursor) THEN ContinuesRun(q) ELSE OpensRun(q))

Accepted(q) ==
  IF Has(q.cursor)
    THEN [after |-> 0, cursor |-> ParseCursor(q.cursor[1]), limit |-> LimitOf(q.limit)]
    ELSE [after |-> q.after[1].number, cursor |-> NoCursor, limit |-> LimitOf(q.limit)]

NoRequest == [after |-> 0, cursor |-> NoCursor, limit |-> 0]

-----------------------------------------------------------------------------
(* CORS.                                                                   *)
Trimmed(entry) == [entry EXCEPT !.extras = @ \ {"blanks"}]

(* env.New refuses to start with an entry that no browser could send.      *)
Configurable(entry) == entry.origin \in {Nothing, "*"} \/ "path" \notin entry.extras

Usable(list) == {Trimmed(e) : e \in {f \in list : f.origin # Nothing}}

Lower(entry) == [entry EXCEPT !.extras = @ \ {"capitals"}]

Sent(origin) == [origin |-> origin, extras |-> {}]

Allowed(origin) ==
  \/ \E e \in Usable(origins) : e.origin = "*"
  \/ Sent(origin) \in {Lower(e) : e \in Usable(origins)}

(* What script of a page may read of an answer: nothing, or the body and   *)
(* the headers that are exposed.                                           *)
Readable == consumer = Program \/ Allowed(consumer)

ExposedNothing == {}

Exposed == {"Link"}

SeesLink == consumer = Program \/ "Link" \in Exposed

-----------------------------------------------------------------------------
Sensible(list) == \A e \in list : Configurable(e)

(* A run, wherever the service is deployed.                                *)
AnyDeployment ==
  /\ prefix \in Prefixes /\ mount \in Mounts
  /\ origins \in {l \in OriginLists : Sensible(l)} /\ consumer \in Consumers
  /\ limit \in 1 .. MaxSearchLimit /\ query = Opening(limit)

(* Any query, where everything has its default.                            *)
AnyQuery ==
  /\ prefix = <<"/", "api">> /\ mount = <<>> /\ origins = {} /\ consumer = Program
  /\ query \in Queries /\ limit = LimitOf(query.limit)

HttpInit ==
  /\ AnyDeployment \/ AnyQuery
  /\ phase = "idle" /\ url = <<>> /\ followed = NoCursor
  /\ accepted = NoRequest /\ reply = 0 /\ next = NoCursor /\ pages = 0

Send(path, q) == phase' = "sent" /\ url' = path /\ query' = q

Request ==
  /\ phase = "idle" /\ Send(mount \o Route, query)
  /\ UNCHANGED <<deployment, followed, replyVars, pages>>

(* The handler.  Service.Search refuses a cursor without a limit, and      *)
(* fails if a LIST does, or a HEAD of an unpaged call; either is a 500.    *)
(* An unpaged call has no Next.                                            *)
Inconsistent(request) == request.cursor # NoCursor /\ request.limit <= 0

MayGoOn(request) == request.limit > 0 /\ pages + 1 < MaxPages

Refuse(status) == reply' = status /\ accepted' = NoRequest /\ next' = NoCursor

Accept(request) ==
  /\ accepted' = request
  /\ \/ reply' = 500 /\ next' = NoCursor
     \/ /\ ~ Inconsistent(request) /\ reply' = 200
        /\ next' \in {NoCursor} \cup (IF MayGoOn(request) THEN Cursors ELSE {})

Search ==
  /\ phase = "sent" /\ phase' = "answered"
  /\ IF ~ Reaches(url) THEN Refuse(404)
     ELSE IF ~ Valid(query) THEN Refuse(400)
     ELSE Accept(Accepted(query))
  /\ pages' = pages + 1
  /\ UNCHANGED <<deployment, requestVars>>

(* The consumer reads the answer.                                          *)
FollowLink ==
  /\ phase = "answered" /\ reply = 200 /\ Readable
  /\ next # NoCursor /\ SeesLink
  /\ LET link == Link(next)
     IN  Send(Resolve(url, link.path), Continuing(link.token, accepted.limit))
  /\ followed' = next
  /\ UNCHANGED <<deployment, replyVars, pages>>

EndRun ==
  /\ phase = "answered" /\ reply = 200 /\ Readable
  /\ next = NoCursor \/ ~ SeesLink
  /\ phase' = "complete"
  /\ UNCHANGED <<deployment, requestVars, replyVars, pages>>

FailRun ==
  /\ phase = "answered" /\ (reply # 200 \/ ~ Readable)
  /\ phase' = "failed"
  /\ UNCHANGED <<deployment, requestVars, replyVars, pages>>

HttpNext == Request \/ Search \/ FollowLink \/ EndRun \/ FailRun

HttpSpec == HttpInit /\ [][HttpNext]_httpVars

-----------------------------------------------------------------------------
Answered == phase \notin {"idle", "sent"}

(* The variables have their types, and a request that is accepted is one   *)
(* that Service.Search can serve: a limit in its range, and a cursor only  *)
(* with one.                                                               *)
HttpTypeOK ==
  /\ phase \in {"idle", "sent", "answered", "complete", "failed"}
  /\ reply \in {0, 200, 400, 404, 500} /\ pages \in 0 .. MaxPages
  /\ accepted.after \in Nat /\ accepted.limit \in 0 .. MaxSearchLimit
  /\ accepted.cursor # NoCursor => accepted.after = 0 /\ accepted.limit > 0

(* A token is taken for a position only if it is the very one that the     *)
(* service writes for that position: nothing truncated, padded, renumbered *)
(* or otherwise written another way is.                                    *)
TokensAreCanonical ==
  Answered /\ reply = 200 =>
    \A i \in 1 .. Len(query.cursor) : query.cursor[i] = Token(accepted.cursor)

(* The README's list of what is refused.                                   *)
Documented(q) ==
  \/ ~ q.decodes
  \/ Has(q.cursor) /\ ~ Has(q.limit)
  \/ Has(q.cursor) /\ Has(q.after)
  \/ Len(q.cursor) > 1
  \/ \E i \in 1 .. Len(q.cursor) : ParseCursor(q.cursor[i]) = NoCursor
  \/ Has(q.limit) /\ q.limit[1].number \notin 1 .. MaxSearchLimit
  \/ /\ ~ Has(q.cursor)
     /\ ~ Has(q.after) \/ q.after[1].blanks \/ q.after[1].number \notin Nat

(* A request is refused in exactly the cases that the README lists; one    *)
(* that is not reaches Service.Search, which may fail.                     *)
RefusedAsDocumented ==
  Answered /\ reply # 404 =>
    (reply = 400 <=> Documented(query))

(* Whoever follows a Link, through whatever prefix and ingress, asks for   *)
(* the page behind it, the same limit from the very position, and is       *)
(* served that page unless the storage fails: never a 404 nor a 400.       *)
LinkLeadsOn ==
  Answered /\ followed # NoCursor =>
    /\ reply \in {200, 500}
    /\ accepted = [after |-> 0, cursor |-> followed, limit |-> limit]

(* A page in a browser whose origin was configured, blanks and capitals    *)
(* aside, reads every answer, and nobody takes a page for the last one     *)
(* that is not: the Link is exposed.                                       *)
BrowserSeesEveryPage ==
  /\ phase = "complete" => next = NoCursor
  /\ phase = "failed" /\ reply = 200 => \A e \in origins : e.origin \notin {"*", consumer}
=============================================================================
