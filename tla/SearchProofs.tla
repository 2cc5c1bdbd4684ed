---------------------------- MODULE SearchProofs ----------------------------
(***************************************************************************)
(* Proofs about Search: the order and the completeness of a run, for any   *)
(* number of objects, uploads and deletions, every limit and overlap, and  *)
(* stores of every precision.                                              *)
(***************************************************************************)
EXTENDS Search, SequenceTheorems, TLAPS

(* Which parts of a request are in use where.                              *)
PhaseFacts ==
  /\ phase \in {"idle", "list", "listMore", "complete"} => page = <<>>
  /\ phase # "respond" => next = None
  /\ protocol # "link" => cursor = None
  /\ Unpaged => next = None
  /\ Unpaged /\ phase \in {"list", "listMore"} => run = <<>> /\ after = watermark
  /\ phase = "walk" /\ cursor # None => Len(page) < Limit

Ascends(entries) ==
  \A i, j \in 1 .. Len(entries) : i < j => Before(entries[i], entries[j])

(* The entries ascend, and what is still to be examined is above them.     *)
Above(p, entries) == \A i \in 1 .. Len(entries) : Before(entries[i], p)

Ascending ==
  /\ Ascends(run) /\ Ascends(page)
  /\ \A j \in 1 .. Len(page) : Above(page[j], run)
  /\ phase \in {"walk", "respond"} =>
       \A p \in todo : Above(p, run) /\ Above(p, page)

(* Where a run continues, it has received nothing beyond.                  *)
UpToBoundary(p) ==
  IF cursor = None THEN Second(p.at) <= after ELSE p = cursor \/ Precedes(p, cursor)

Bounded ==
  phase \in {"list", "listMore"} => \A i \in 1 .. Len(run) : UpToBoundary(run[i])

(* The Next of a page is its last entry; an opening page ends with all of  *)
(* its second.                                                             *)
NextIsLast ==
  phase = "respond" /\ next # None =>
    /\ page # <<>> /\ next = LastOf(page)
    /\ cursor = None => \A p \in todo : Second(p.at) > Second(next.at)

(* What a run owes its consumer, and where it is while the run goes on.    *)
Owed(p) ==
  IF Unpaged THEN KindOf(p.name) # "statless" /\ p.at > watermark * MsPerSec
             ELSE KindOf(p.name) = "sound" /\ Second(p.at) > watermark

Among(p, entries) == \E i \in 1 .. Len(entries) : entries[i] = p

Beyond(p) ==
  CASE Unpaged                    -> TRUE
    [] ~ Unpaged /\ cursor = None -> Second(p.at) > after
    [] ~ Unpaged /\ cursor # None -> Precedes(cursor, p)

Covered(p) ==
  /\ phase \in {"list", "listMore"} => Among(p, run) \/ Beyond(p)
  /\ phase \in {"walk", "respond"} => Among(p, run) \/ Among(p, page) \/ p \in todo
  /\ phase = "complete" => Among(p, run)

NothingLost ==
  /\ settled \subseteq Stored
  /\ phase = "listMore" => settled \subseteq listing
  /\ \A p \in settled : Owed(p) => Covered(p)

OrderInvariant ==
  TypeOK /\ PhaseFacts /\ Ascending /\ Bounded /\ NextIsLast /\ NextMeansUnexamined

SearchInvariant == OrderInvariant /\ NothingLost
-----------------------------------------------------------------------------
(* Seconds, stamps and their order.                                        *)
LEMMA SecondType == \A t \in Nat : Second(t) \in Nat
BY SearchAssumption DEF Second

LEMMA SecondGrows == \A s, t \in Nat : Second(s) > Second(t) => s > t
BY SearchAssumption DEF Second

LEMMA SecondKept == \A s, t \in Nat : s <= t => Second(s) <= Second(t)
BY SecondGrows, SecondType

(* What lies in a later second than ts is newer than ts, in milliseconds.  *)
LEMMA SecondIsNewer == \A t, ts \in Nat : Second(t) > ts => t > ts * MsPerSec
<1>1. ASSUME NEW t \in Nat, NEW ts \in Nat, NEW M \in Nat \ {0}, t \div M > ts
      PROVE  t > ts * M
  <2>1. t = M * (t \div M) + (t % M) /\ t % M \in Nat /\ t \div M \in Nat
    OBVIOUS
  <2>2. (t \div M) - ts - 1 \in Nat
    BY <1>1, <2>1
  <2>3. M * ((t \div M) - ts - 1) \in Nat
    BY <2>2
  <2>4. M * (t \div M) = M * ((t \div M) - ts - 1) + M * ts + M
    BY <2>1
  <2> QED
    BY <2>1, <2>3, <2>4
<1> QED
  BY <1>1, SearchAssumption DEF Second

(* The listing of a continued page starts before its cursor.               *)
LEMMA ListFromBefore ==
  \A s, t \in Nat : s <= t => t > (Second(s) - 1) * MsPerSec
<1>1. ASSUME NEW s \in Nat, NEW t \in Nat, NEW M \in Nat \ {0}, s <= t
      PROVE  t > ((s \div M) - 1) * M
  <2>1. s = M * (s \div M) + (s % M) /\ s % M \in Nat /\ s \div M \in Nat
    OBVIOUS
  <2>2. ((s \div M) - 1) * M = M * (s \div M) - M
    BY <2>1
  <2> QED
    BY <1>1, <2>1, <2>2
<1> QED
  BY <1>1, SearchAssumption DEF Second

LEMMA StampType ==
  ASSUME precision \in Precisions
  PROVE  \A t \in Nat : Stamp(t) \in Nat
<1>1. precision \in Nat \ {0}
  BY SearchAssumption
<1>2. \A M \in Nat \ {0}, t \in Nat : t - (t % M) \in Nat
  OBVIOUS
<1> QED
  BY <1>1, <1>2 DEF Stamp

(* Both orders are strict.                                                 *)
LEMMA BeforeTransitive ==
  \A p, q, r \in Positions : Before(p, q) /\ Before(q, r) => Before(p, r)
<1> SUFFICES ASSUME NEW p \in Positions, NEW q \in Positions, NEW r \in Positions,
                    Before(p, q), Before(q, r)
             PROVE  Before(p, r)
  OBVIOUS
<1>1. /\ p.at \in Nat /\ q.at \in Nat /\ r.at \in Nat
      /\ p.name \in Nat /\ q.name \in Nat /\ r.name \in Nat
  BY SearchAssumption DEF Positions
<1> QED
  BY <1>1 DEF Before, ByName, Precedes

(* The last entry of a sequence that is not empty.                         *)
LEMMA LastFacts ==
  ASSUME NEW s \in Seq(Positions), s # <<>>
  PROVE  /\ Len(s) \in Nat \ {0} /\ Len(s) \in 1 .. Len(s)
         /\ LastOf(s) = s[Len(s)] /\ LastOf(s) \in Positions
BY EmptySeq, ElementOfSeq DEF LastOf

(* One more entry.                                                         *)
LEMMA AppendFacts ==
  ASSUME NEW s \in Seq(Positions), NEW p \in Positions
  PROVE  /\ Append(s, p) \in Seq(Positions) /\ Len(Append(s, p)) = Len(s) + 1
         /\ Append(s, p) # <<>> /\ LastOf(Append(s, p)) = p
         /\ \A i \in 1 .. Len(s) : Append(s, p)[i] = s[i]
         /\ Append(s, p)[Len(s) + 1] = p
BY AppendProperties DEF LastOf

(* A run and a page together.                                              *)
LEMMA JoinAscends ==
  ASSUME NEW s \in Seq(Positions), NEW t \in Seq(Positions), Ascends(s), Ascends(t),
         \A j \in 1 .. Len(t) : Above(t[j], s)
  PROVE  s \o t \in Seq(Positions) /\ Ascends(s \o t)
<1>1. /\ s \o t \in Seq(Positions) /\ Len(s \o t) = Len(s) + Len(t)
      /\ Len(s) \in Nat /\ Len(t) \in Nat
      /\ \A i \in 1 .. Len(s) + Len(t) :
           (s \o t)[i] = IF i <= Len(s) THEN s[i] ELSE t[i - Len(s)]
  BY ConcatProperties, LenProperties
<1>2. ASSUME NEW i \in 1 .. Len(s \o t), NEW j \in 1 .. Len(s \o t), i < j
      PROVE  Before((s \o t)[i], (s \o t)[j])
  <2>1. CASE j <= Len(s)
    BY <1>1, <1>2, <2>1 DEF Ascends
  <2>2. CASE i <= Len(s) /\ j > Len(s)
    <3>1. j - Len(s) \in 1 .. Len(t) /\ i \in 1 .. Len(s)
      BY <1>1, <1>2, <2>2
    <3> QED
      BY <1>1, <1>2, <2>2, <3>1 DEF Above
  <2>3. CASE i > Len(s)
    <3>1. /\ i - Len(s) \in 1 .. Len(t) /\ j - Len(s) \in 1 .. Len(t)
          /\ i - Len(s) < j - Len(s)
      BY <1>1, <1>2, <2>3
    <3> QED
      BY <1>1, <1>2, <2>3, <3>1 DEF Ascends
  <2> QED
    BY <1>1, <1>2, <2>1, <2>2, <2>3
<1> QED
  BY <1>1, <1>2 DEF Ascends

(* The entries of both are among them, and no others.                      *)
LEMMA JoinAmong ==
  ASSUME NEW s \in Seq(Positions), NEW t \in Seq(Positions)
  PROVE  /\ \A p : Among(p, s) \/ Among(p, t) => Among(p, s \o t)
         /\ \A i \in 1 .. Len(s \o t) : Among((s \o t)[i], s) \/ Among((s \o t)[i], t)
<1>1. /\ Len(s \o t) = Len(s) + Len(t) /\ Len(s) \in Nat /\ Len(t) \in Nat
      /\ \A i \in 1 .. Len(s) + Len(t) :
           (s \o t)[i] = IF i <= Len(s) THEN s[i] ELSE t[i - Len(s)]
  BY ConcatProperties, LenProperties
<1>2. ASSUME NEW p, NEW i \in 1 .. Len(s), s[i] = p PROVE Among(p, s \o t)
  BY <1>1, <1>2 DEF Among
<1>3. ASSUME NEW p, NEW i \in 1 .. Len(t), t[i] = p PROVE Among(p, s \o t)
  <2>1. /\ Len(s) + i \in 1 .. Len(s \o t) /\ Len(s) + i \in 1 .. Len(s) + Len(t)
        /\ ~ (Len(s) + i <= Len(s)) /\ (Len(s) + i) - Len(s) = i
    BY <1>1
  <2>2. (s \o t)[Len(s) + i] = p
    BY <1>1, <1>3, <2>1
  <2> QED
    BY <2>1, <2>2 DEF Among
<1>4. ASSUME NEW i \in 1 .. Len(s \o t)
      PROVE  Among((s \o t)[i], s) \/ Among((s \o t)[i], t)
  <2>1. CASE i <= Len(s)
    BY <1>1, <2>1 DEF Among
  <2>2. CASE ~ (i <= Len(s))
    <3>1. i - Len(s) \in 1 .. Len(t)
      BY <1>1, <2>2
    <3> QED
      BY <1>1, <2>2, <3>1 DEF Among
  <2> QED
    BY <2>1, <2>2
<1> QED
  BY <1>2, <1>3, <1>4 DEF Among
-----------------------------------------------------------------------------
(* What is stored, listed and chosen has a position.                       *)
LEMMA StoredType ==
  ASSUME TypeOK
  PROVE  /\ Stored \subseteq Positions
         /\ \A p \in Stored : objects[p.name] = p.at /\ p.name \in Names
BY DEF TypeOK, Stored, Position, Positions

LEMMA CandidatesType ==
  ASSUME NEW found, found \subseteq Positions
  PROVE  Candidates(found) \subseteq found
<1>1. CASE Unpaged
  BY <1>1 DEF Candidates, ModifiedAfter
<1>2. CASE ~ Unpaged /\ cursor = None
  BY <1>2 DEF Candidates, PagedCandidates, ModifiedAfter
<1>3. CASE ~ Unpaged /\ cursor # None
  BY <1>3 DEF Candidates, CursorCandidates, ModifiedAfter
<1> QED
  BY <1>1, <1>2, <1>3

LEMMA ListedType ==
  ASSUME TypeOK, NEW split
  PROVE  Listed(split) \subseteq Positions
BY StoredType DEF Listed, TypeOK

(* A response keeps the types.                                             *)
LEMMA EntryType ==
  ASSUME TypeOK, NEW p \in Positions, ~ Vanished(p)
  PROVE  Entry(p) \in Positions /\ Entry(p).name = p.name
BY DEF TypeOK, Entry, Position, Positions, Vanished

(* The store changes its own variables, and what counts as settled.        *)
StoreOnly ==
  /\ now' \in Nat /\ changes' \in 0 .. MaxChanges
  /\ objects' \in [Names -> Nat \cup {None}]
  /\ uploading' \in [Names -> Nat \cup {None}]
  /\ settled' \subseteq settled
  /\ UNCHANGED <<phase, requestVars, consumerVars>>

LEMMA StoreTypeStep ==
  ASSUME TypeOK, Disturb
  PROVE  StoreOnly
<1> USE DEF TypeOK, StoreOnly
<1>1. CASE Tick
  BY <1>1 DEF Tick
<1>2. ASSUME NEW n \in Names, StartUpload(n) PROVE StoreOnly
  BY <1>2, SearchAssumption DEF StartUpload
<1>3. ASSUME NEW n \in Names, FinishUpload(n) PROVE StoreOnly
  <2>1. Stamp(uploading[n]) \in Nat
    BY <1>3, StampType DEF FinishUpload
  <2> QED
    BY <1>3, <2>1 DEF FinishUpload
<1>4. ASSUME NEW n \in Names, Delete(n) PROVE StoreOnly
  BY <1>4, SearchAssumption DEF Delete
<1> QED
  BY <1>1, <1>2, <1>3, <1>4 DEF Disturb
-----------------------------------------------------------------------------
(* The order is a matter of the request and its consumer only.             *)
LEMMA DisturbOrders ==
  ASSUME OrderInvariant, Disturb, UNCHANGED setup
  PROVE  OrderInvariant'
<1> USE DEF OrderInvariant
<1>1. StoreOnly
  BY StoreTypeStep
<1>2. TypeOK'
  BY <1>1 DEF TypeOK, StoreOnly, requestVars, consumerVars, setup, Positions
<1>3. PhaseFacts' /\ NextIsLast' /\ NextMeansUnexamined'
  BY <1>1 DEF PhaseFacts, NextIsLast, NextMeansUnexamined, StoreOnly, requestVars,
              consumerVars, setup, Unpaged, LastOf
<1>4. Bounded'
  BY <1>1 DEF Bounded, UpToBoundary, StoreOnly, requestVars, consumerVars
<1>5. Ascending'
  BY <1>1 DEF Ascending, Ascends, Above, Before, Unpaged, StoreOnly, requestVars,
              consumerVars, setup
<1> QED
  BY <1>2, <1>3, <1>4, <1>5

(* A run begins with nothing.                                              *)
LEMMA StartRunOrders ==
  ASSUME OrderInvariant, StartRun, UNCHANGED setup
  PROVE  OrderInvariant'
<1> USE DEF OrderInvariant
<1>1. /\ phase = "idle" /\ phase' = "list" /\ run' = <<>> /\ cursor' = None
      /\ after' = watermark /\ runStart' \in ConsumerClock /\ settled' = Stored
      /\ UNCHANGED <<now, objects, uploading, changes, listing, todo, page, next,
                     watermark, runs, delivered>>
  BY DEF StartRun, storeVars
<1>2. page' = <<>> /\ next' = None /\ Len(page') = 0 /\ Len(run') = 0
  BY <1>1 DEF PhaseFacts
<1>3. TypeOK'
  <2>1. runStart' \in Nat
    BY <1>1, SearchAssumption DEF ConsumerClock, TypeOK
  <2> QED
    BY <1>1, <1>2, <2>1, StoredType DEF TypeOK, setup, Positions
<1>4. PhaseFacts' /\ NextIsLast' /\ NextMeansUnexamined'
  BY <1>1, <1>2 DEF PhaseFacts, NextIsLast, NextMeansUnexamined
<1>5. Bounded' /\ Ascending'
  BY <1>1, <1>2 DEF Bounded, Ascending, Ascends
<1> QED
  BY <1>3, <1>4, <1>5

LEMMA BeginListOrders ==
  ASSUME OrderInvariant, BeginList, UNCHANGED setup
  PROVE  OrderInvariant'
<1> USE DEF OrderInvariant
<1>1. /\ phase = "list" /\ phase' = "listMore" /\ listing' = Stored
      /\ UNCHANGED <<now, objects, uploading, changes, after, cursor, todo, page, next,
                     watermark, runStart, run, runs, delivered, settled>>
  BY DEF BeginList, storeVars, consumerVars
<1>2. page' = <<>> /\ Len(page') = 0
  BY <1>1 DEF PhaseFacts
<1>3. TypeOK'
  BY <1>1, StoredType DEF TypeOK, setup, Positions
<1>4. PhaseFacts' /\ NextIsLast' /\ NextMeansUnexamined'
  BY <1>1 DEF PhaseFacts, NextIsLast, NextMeansUnexamined, Unpaged, setup
<1>5. Bounded'
  BY <1>1 DEF Bounded, UpToBoundary
<1>6. Ascending'
  BY <1>1, <1>2 DEF Ascending, Ascends, Above, Before, Unpaged, setup
<1> QED
  BY <1>3, <1>4, <1>5, <1>6

(* The candidates of a request lie beyond what its run has received.       *)
LEMMA CandidatesAbove ==
  ASSUME OrderInvariant, phase = "listMore", NEW found, found \subseteq Positions,
         NEW p \in Candidates(found)
  PROVE  Above(p, run)
<1> USE DEF OrderInvariant
<1> SUFFICES ASSUME NEW i \in 1 .. Len(run) PROVE Before(run[i], p)
  BY DEF Above
<1>1. run[i] \in Positions /\ p \in Positions
  BY ElementOfSeq, CandidatesType DEF TypeOK
<1>2. UpToBoundary(run[i])
  BY DEF Bounded
<1>3. ~ Unpaged
  BY DEF PhaseFacts
<1>4. CASE cursor = None
  <2>1. Second(p.at) > after
    BY <1>3, <1>4 DEF Candidates, PagedCandidates
  <2>2. Second(run[i].at) <= after
    BY <1>2, <1>4 DEF UpToBoundary
  <2>3. p.at \in Nat /\ run[i].at \in Nat /\ after \in Nat
    BY <1>1 DEF Positions, TypeOK
  <2>4. Second(p.at) > Second(run[i].at)
    <3>1. Second(p.at) \in Nat /\ Second(run[i].at) \in Nat
      BY <2>3, SecondType
    <3> HIDE DEF OrderInvariant
    <3> QED
      BY <2>1, <2>2, <2>3, <3>1
  <2> QED
    BY <1>3, <2>3, <2>4, SecondGrows DEF Before, Precedes
<1>5. CASE cursor # None
  <2>1. Precedes(cursor, p)
    BY <1>3, <1>5 DEF Candidates, CursorCandidates
  <2>2. run[i] = cursor \/ Precedes(run[i], cursor)
    BY <1>2, <1>5 DEF UpToBoundary
  <2>3. cursor \in Positions
    BY <1>5 DEF TypeOK
  <2> QED
    BY <1>1, <1>3, <2>1, <2>2, <2>3, BeforeTransitive DEF Before
<1> QED
  BY <1>4, <1>5

LEMMA EndListOrders ==
  ASSUME OrderInvariant, EndList, UNCHANGED setup
  PROVE  OrderInvariant'
<1> USE DEF OrderInvariant
<1>1. PICK split : todo' = Candidates(Listed(split))
  BY DEF EndList
<1>2. /\ phase = "listMore" /\ phase' = "walk" /\ listing' = {} /\ page' = <<>> /\ next' = None
      /\ UNCHANGED <<now, objects, uploading, changes, after, cursor,
                     watermark, runStart, run, runs, delivered, settled>>
  BY DEF EndList, storeVars, consumerVars
<1>3. todo' \subseteq Positions /\ Len(page') = 0
  BY <1>1, <1>2, ListedType, CandidatesType
<1>4. \A p \in todo' : Above(p, run)
  BY <1>1, <1>2, ListedType, CandidatesAbove
<1>5. TypeOK'
  BY <1>2, <1>3, EmptySeq, SearchAssumption DEF TypeOK, setup, Positions
<1>6. PhaseFacts' /\ NextIsLast' /\ NextMeansUnexamined' /\ Bounded'
  BY <1>2, <1>3, SearchAssumption
     DEF PhaseFacts, NextIsLast, NextMeansUnexamined, Unpaged, setup, Bounded
<1>7. Ascending'
  BY <1>2, <1>3, <1>4 DEF Ascending, Ascends, Above, Before, Unpaged, setup
<1> QED
  BY <1>5, <1>6, <1>7
-----------------------------------------------------------------------------
(* A page that stops in front of a candidate ends with its second.         *)
LEMMA StopOrders ==
  ASSUME OrderInvariant, Stop, UNCHANGED setup
  PROVE  OrderInvariant'
<1> USE DEF OrderInvariant
<1>1. /\ phase = "walk" /\ phase' = "respond" /\ next' = LastOf(page)
      /\ UNCHANGED <<now, objects, uploading, changes, after, cursor, listing, todo, page,
                     watermark, runStart, run, runs, delivered, settled>>
  BY DEF Stop, Respond, storeVars, consumerVars
<1>2. PICK p \in todo : FirstOfTodo(p) /\ StopsBefore(p)
  BY DEF Stop
<1>3. /\ ~ Unpaged /\ cursor = None /\ Len(page) >= Limit
      /\ Second(p.at) # Second(LastOf(page).at)
  BY <1>2 DEF StopsBefore, PageFull
<1>4. page \in Seq(Positions) /\ page # <<>> /\ todo \subseteq Positions
  BY <1>3, SearchAssumption DEF TypeOK
<1>5. LastOf(page) \in Positions /\ LastOf(page) # None
  BY <1>4, LastFacts, SearchAssumption DEF Positions
<1>6. \A q \in todo : Second(q.at) > Second(LastOf(page).at)
  <2> SUFFICES ASSUME NEW q \in todo PROVE Second(q.at) > Second(LastOf(page).at)
    OBVIOUS
  <2>1. Precedes(LastOf(page), p)
    BY <1>1, <1>3, <1>4, LastFacts DEF Ascending, Above, Before
  <2>2. q = p \/ Precedes(p, q)
    BY <1>2, <1>3 DEF FirstOfTodo, Before
  <2>3. p.at \in Nat /\ q.at \in Nat /\ LastOf(page).at \in Nat
    BY <1>4, <1>5 DEF Positions
  <2>4. LastOf(page).at <= p.at /\ p.at <= q.at
    BY <2>1, <2>2, <2>3 DEF Precedes
  <2>5. /\ Second(LastOf(page).at) <= Second(p.at) /\ Second(p.at) <= Second(q.at)
        /\ Second(LastOf(page).at) \in Nat /\ Second(p.at) \in Nat /\ Second(q.at) \in Nat
    BY <2>3, <2>4, SecondKept, SecondType
  <2> QED
    BY <1>3, <2>5
<1>7. TypeOK'
  BY <1>1, <1>5 DEF TypeOK, setup, Positions
<1>8. PhaseFacts' /\ Bounded'
  BY <1>1, <1>3 DEF PhaseFacts, Bounded, Unpaged, setup
<1>9. NextIsLast'
  BY <1>1, <1>4, <1>6 DEF NextIsLast, LastOf
<1>10. NextMeansUnexamined'
  BY <1>1, <1>2, <1>3, <1>5, SearchAssumption, LenProperties DEF NextMeansUnexamined, TypeOK
<1>11. Ascending'
  BY <1>1 DEF Ascending, Ascends, Above, Before, Unpaged, setup
<1> QED
  BY <1>7, <1>8, <1>9, <1>10, <1>11

LEMMA SkipOrders ==
  ASSUME OrderInvariant, Skip, UNCHANGED setup
  PROVE  OrderInvariant'
<1> USE DEF OrderInvariant
<1>1. /\ phase = "walk" /\ phase' = "walk" /\ todo' \subseteq todo
      /\ UNCHANGED <<now, objects, uploading, changes, after, cursor, listing, page, next,
                     watermark, runStart, run, runs, delivered, settled>>
  BY DEF Skip, AfterSkip, storeVars, consumerVars
<1>2. TypeOK'
  BY <1>1 DEF TypeOK, setup, Positions
<1>3. PhaseFacts' /\ Bounded' /\ NextIsLast' /\ NextMeansUnexamined'
  BY <1>1 DEF PhaseFacts, Bounded, NextIsLast, NextMeansUnexamined, Unpaged, setup
<1>4. Ascending'
  BY <1>1 DEF Ascending, Ascends, Above, Before, Unpaged, setup
<1> QED
  BY <1>2, <1>3, <1>4

LEMMA AllExaminedOrders ==
  ASSUME OrderInvariant, AllExamined, UNCHANGED setup
  PROVE  OrderInvariant'
<1> USE DEF OrderInvariant
<1>1. /\ phase = "walk" /\ phase' = "respond" /\ next' = None /\ todo = {}
      /\ UNCHANGED <<now, objects, uploading, changes, after, cursor, listing, todo, page,
                     watermark, runStart, run, runs, delivered, settled>>
  BY DEF AllExamined, Respond, storeVars, consumerVars
<1>2. TypeOK'
  BY <1>1 DEF TypeOK, setup, Positions
<1>3. PhaseFacts' /\ Bounded' /\ NextIsLast' /\ NextMeansUnexamined'
  BY <1>1 DEF PhaseFacts, Bounded, NextIsLast, NextMeansUnexamined, Unpaged, setup
<1>4. Ascending'
  BY <1>1 DEF Ascending, Ascends, Above, Before, Unpaged, setup
<1> QED
  BY <1>2, <1>3, <1>4

LEMMA LosePageOrders ==
  ASSUME OrderInvariant, LosePage, phase \in {"list", "listMore", "walk"}, UNCHANGED setup
  PROVE  OrderInvariant'
<1> USE DEF OrderInvariant
<1>1. /\ phase' = "idle" /\ listing' = {} /\ todo' = {} /\ page' = <<>>
      /\ UNCHANGED <<now, objects, uploading, changes, after, cursor, next,
                     watermark, runStart, run, runs, delivered, settled>>
  BY DEF LosePage, storeVars, consumerVars
<1>2. Len(page') = 0 /\ page' \in Seq(Positions)
  BY <1>1, EmptySeq
<1>3. TypeOK'
  BY <1>1, <1>2, SearchAssumption DEF TypeOK, setup, Positions
<1>4. PhaseFacts' /\ Bounded' /\ NextIsLast' /\ NextMeansUnexamined'
  BY <1>1 DEF PhaseFacts, Bounded, NextIsLast, NextMeansUnexamined, Unpaged, setup
<1>5. Ascending'
  BY <1>1, <1>2 DEF Ascending, Ascends, Above, Before, Unpaged, setup
<1> QED
  BY <1>3, <1>4, <1>5

(* What a step of the walk yields.                                         *)
LEMMA YieldCases ==
  ASSUME OrderInvariant, Yield
  PROVE  /\ phase = "walk"
         /\ UNCHANGED <<now, objects, uploading, changes, after, cursor, listing,
                        watermark, runStart, run, runs, delivered, settled>>
         /\ \E p \in todo :
              /\ \A q \in todo \ {p} : Before(p, q)
              /\ ~ Vanished(p) /\ page' = Append(page, Entry(p)) /\ todo' = todo \ {p}
              /\ \/ /\ cursor # None /\ Len(page') = Limit /\ phase' = "respond"
                    /\ next' = IF todo' = {} THEN None ELSE p
                 \/ ~ (cursor # None /\ Len(page') = Limit) /\ UNCHANGED <<phase, next>>
<1>1. PICK p \in todo :
        /\ FirstOfTodo(p) /\ ~ StopsBefore(p) /\ ~ Skipped(p) /\ ~ FailsOn(p)
        /\ page' = Append(page, Entry(p)) /\ todo' = todo \ {p}
        /\ IF FillsCursorPage
             THEN Respond(NextOfFilled(p, todo'))
             ELSE UNCHANGED <<phase, next>>
  BY DEF Yield
<1>2. ~ Vanished(p)
  BY <1>1 DEF Skipped
<1>3. \/ /\ cursor # None /\ Len(page') = Limit /\ phase' = "respond"
         /\ next' = IF todo' = {} THEN None ELSE p
      \/ ~ (cursor # None /\ Len(page') = Limit) /\ UNCHANGED <<phase, next>>
  BY <1>1 DEF FillsCursorPage, Respond, NextOfFilled
<1>4. /\ phase = "walk"
      /\ UNCHANGED <<now, objects, uploading, changes, after, cursor, listing,
                     watermark, runStart, run, runs, delivered, settled>>
  BY DEF Yield, storeVars, consumerVars
<1> QED
  BY <1>1, <1>2, <1>3, <1>4 DEF FirstOfTodo

LEMMA YieldOrders ==
  ASSUME OrderInvariant, Yield, UNCHANGED setup
  PROVE  OrderInvariant'
<1> USE DEF OrderInvariant
<1>1. /\ phase = "walk" /\ next = None
      /\ UNCHANGED <<now, objects, uploading, changes, after, cursor, listing,
                     watermark, runStart, run, runs, delivered, settled>>
  BY YieldCases DEF PhaseFacts
<1>2. PICK p \in todo :
        /\ \A q \in todo \ {p} : Before(p, q)
        /\ ~ Vanished(p) /\ page' = Append(page, Entry(p)) /\ todo' = todo \ {p}
        /\ \/ /\ cursor # None /\ Len(page') = Limit /\ phase' = "respond"
              /\ next' = IF todo' = {} THEN None ELSE p
           \/ ~ (cursor # None /\ Len(page') = Limit) /\ UNCHANGED <<phase, next>>
  BY YieldCases
<1> DEFINE e == Entry(p)
<1>3. /\ p \in Positions /\ e \in Positions /\ e.name = p.name
      /\ ~ Unpaged => e = p
  BY <1>2, EntryType DEF TypeOK, Entry
<1>4. \A x \in Positions : (Before(x, p) => Before(x, e)) /\ (Before(p, x) => Before(e, x))
  BY <1>3 DEF Before, ByName
<1> HIDE DEF e
<1>5. /\ page' \in Seq(Positions) /\ Len(page') = Len(page) + 1 /\ Len(page) \in Nat
      /\ page' # <<>> /\ LastOf(page') = e
      /\ \A i \in 1 .. Len(page) : page'[i] = page[i] /\ page[i] \in Positions
      /\ page'[Len(page) + 1] = e
  BY <1>2, <1>3, AppendFacts, LenProperties, ElementOfSeq DEF e, TypeOK
<1>6. p # None
  BY <1>3, SearchAssumption DEF Positions
<1>7. cursor # None => Len(page) < Limit /\ e = p
  BY <1>1, <1>3, SearchAssumption DEF PhaseFacts, Unpaged, TypeOK
<1>8. TypeOK'
  <2>1. cursor' # None => Len(page') <= Limit
    BY <1>1, <1>5, <1>7, SearchAssumption
  <2> QED
    BY <1>1, <1>2, <1>3, <1>5, <2>1 DEF TypeOK, setup, Positions
<1>9. PhaseFacts'
  <2>1. phase' = "walk" /\ cursor' # None => Len(page') < Limit
    BY <1>1, <1>2, <1>5, <1>7, SearchAssumption
  <2>2. Unpaged => next' = None
    BY <1>1, <1>2 DEF PhaseFacts, Unpaged
  <2> QED
    BY <1>1, <1>2, <2>1, <2>2 DEF PhaseFacts, Unpaged, setup
<1>10. Bounded'
  BY <1>1, <1>2 DEF Bounded
<1>11. NextIsLast'
  BY <1>1, <1>2, <1>5, <1>7 DEF NextIsLast, LastOf
<1>12. NextMeansUnexamined'
  BY <1>1, <1>2, <1>6 DEF NextMeansUnexamined
<1>13. Ascending'
  <2>1. Above(p, run) /\ Above(p, page) /\ \A q \in todo : Above(q, run) /\ Above(q, page)
    BY <1>1 DEF Ascending
  <2>2. \A i \in 1 .. Len(run) : run[i] \in Positions
    BY ElementOfSeq DEF TypeOK
  <2>3. Above(e, run) /\ Above(e, page)
    BY <1>4, <1>5, <2>1, <2>2 DEF Above
  <2>4. ASSUME NEW i \in 1 .. Len(page'), NEW j \in 1 .. Len(page'), i < j
        PROVE  Before(page'[i], page'[j])
    <3>1. i \in 1 .. Len(page)
      BY <1>5, <2>4
    <3>2. CASE j \in 1 .. Len(page)
      BY <1>5, <2>4, <3>1, <3>2 DEF Ascending, Ascends
    <3>3. CASE j = Len(page) + 1
      BY <1>5, <2>3, <3>1, <3>3 DEF Above
    <3> QED
      BY <1>5, <3>2, <3>3
  <2>5. \A j \in 1 .. Len(page') : Above(page'[j], run)
    <3>1. \A j \in 1 .. Len(page') : j \in 1 .. Len(page) \/ j = Len(page) + 1
      BY <1>5
    <3> QED
      BY <1>5, <2>3, <3>1 DEF Ascending
  <2>6. ASSUME NEW q \in todo' PROVE Above(q, run) /\ Above(q, page')
    <3>1. q \in todo \ {p} /\ q \in Positions
      BY <1>2, <2>6 DEF TypeOK
    <3>2. Before(e, q)
      BY <1>2, <1>4, <3>1
    <3>3. \A i \in 1 .. Len(page') : i \in 1 .. Len(page) \/ i = Len(page) + 1
      BY <1>5
    <3> QED
      BY <1>5, <2>1, <3>1, <3>2, <3>3 DEF Above
  <2>7. \A x, y : Before(x, y)' <=> Before(x, y)
    BY DEF Before, Unpaged, setup
  <2>8. Ascends(page)' /\ Ascends(run)'
    BY <1>1, <2>4, <2>7 DEF Ascends, Ascending
  <2>9. (\A j \in 1 .. Len(page) : Above(page[j], run))'
    BY <1>1, <2>5, <2>7 DEF Above
  <2> QED
    BY <1>1, <2>6, <2>7, <2>8, <2>9 DEF Ascending, Above
<1> QED
  BY <1>8, <1>9, <1>10, <1>11, <1>12, <1>13
-----------------------------------------------------------------------------
(* A page that is received joins the run, which ascends to its last entry. *)
LEMMA ReceiveFacts ==
  ASSUME OrderInvariant, Receive, phase = "respond"
  PROVE  /\ run' = run \o page /\ run' \in Seq(Positions) /\ Ascends(run')
         /\ delivered' \subseteq Positions
         /\ page' = <<>> /\ Len(page') = 0 /\ todo' = {} /\ next' = None
         /\ page # <<>> => \A i \in 1 .. Len(run') :
              run'[i] = LastOf(page) \/ Before(run'[i], LastOf(page))
<1> USE DEF OrderInvariant
<1>1. /\ run' = run \o page /\ page' = <<>> /\ todo' = {} /\ next' = None
      /\ delivered' = delivered \cup {page[i] : i \in 1 .. Len(page)}
  BY DEF Receive
<1>2. page \in Seq(Positions) /\ run \in Seq(Positions) /\ delivered \subseteq Positions
  BY DEF TypeOK
<1>3. run' \in Seq(Positions) /\ Ascends(run')
  BY <1>1, <1>2, JoinAscends DEF Ascending
<1>4. delivered' \subseteq Positions
  BY <1>1, <1>2, ElementOfSeq
<1>5. ASSUME page # <<>>, NEW i \in 1 .. Len(run')
      PROVE  run'[i] = LastOf(page) \/ Before(run'[i], LastOf(page))
  <2>1. Among(run'[i], run) \/ Among(run'[i], page)
    BY <1>1, <1>2, JoinAmong
  <2>2. Len(page) \in Nat \ {0} /\ Len(page) \in 1 .. Len(page) /\ LastOf(page) = page[Len(page)]
    BY <1>2, <1>5, LastFacts
  <2>3. ASSUME NEW j \in 1 .. Len(run), run[j] = run'[i]
        PROVE  Before(run'[i], LastOf(page))
    BY <2>2, <2>3 DEF Ascending, Above
  <2>4. ASSUME NEW j \in 1 .. Len(page), page[j] = run'[i]
        PROVE  run'[i] = LastOf(page) \/ Before(run'[i], LastOf(page))
    <3>1. j = Len(page) \/ j < Len(page)
      BY <2>2
    <3> QED
      BY <2>2, <2>4, <3>1 DEF Ascending, Ascends
  <2> QED
    BY <2>1, <2>3, <2>4 DEF Among
<1> QED
  BY <1>1, <1>3, <1>4, <1>5

(* Whoever follows Next continues right behind the page.                   *)
LEMMA FollowNextOrders ==
  ASSUME OrderInvariant, FollowNext, UNCHANGED setup
  PROVE  OrderInvariant'
<1> USE DEF OrderInvariant
<1>1. /\ phase = "respond" /\ protocol = "link" /\ next # None /\ Receive
      /\ phase' = "list" /\ after' = after /\ cursor' = next
      /\ UNCHANGED <<now, objects, uploading, changes, listing, watermark, runStart, runs, settled>>
  BY DEF FollowNext, Again, storeVars
<1>2. /\ run' \in Seq(Positions) /\ Ascends(run') /\ delivered' \subseteq Positions
      /\ page' = <<>> /\ Len(page') = 0 /\ todo' = {} /\ next' = None
  BY <1>1, ReceiveFacts
<1>3. ~ Unpaged /\ page # <<>> /\ next = LastOf(page)
  BY <1>1 DEF Unpaged, NextIsLast
<1>4. TypeOK'
  BY <1>1, <1>2, EmptySeq, SearchAssumption DEF TypeOK, setup, Positions
<1>5. PhaseFacts' /\ NextIsLast' /\ NextMeansUnexamined'
  BY <1>1, <1>2, <1>3 DEF PhaseFacts, NextIsLast, NextMeansUnexamined, Unpaged, setup
<1>6. Bounded'
  <2>1. \A i \in 1 .. Len(run') : run'[i] = next \/ Precedes(run'[i], next)
    BY <1>1, <1>3, ReceiveFacts DEF Before
  <2> QED
    BY <1>1, <2>1 DEF Bounded, UpToBoundary
<1>7. Ascending'
  BY <1>1, <1>2 DEF Ascending, Ascends, Before, Unpaged, setup
<1> QED
  BY <1>4, <1>5, <1>6, <1>7

(* So does the earlier loop, in whole seconds.                             *)
LEMMA NextAfterOrders ==
  ASSUME OrderInvariant, NextAfter, UNCHANGED setup
  PROVE  OrderInvariant'
<1> USE DEF OrderInvariant
<1>1. /\ phase = "respond" /\ protocol = "after" /\ Len(page) >= Limit /\ Receive
      /\ phase' = "list" /\ after' = Second(LastOf(page).at) /\ cursor' = None
      /\ UNCHANGED <<now, objects, uploading, changes, listing, watermark, runStart, runs, settled>>
  BY DEF NextAfter, PageFull, Again, storeVars
<1>2. /\ run' \in Seq(Positions) /\ Ascends(run') /\ delivered' \subseteq Positions
      /\ page' = <<>> /\ Len(page') = 0 /\ todo' = {} /\ next' = None
  BY <1>1, ReceiveFacts
<1>3. ~ Unpaged /\ page \in Seq(Positions) /\ page # <<>>
  BY <1>1, SearchAssumption DEF Unpaged, TypeOK
<1>4. LastOf(page).at \in Nat /\ after' \in Nat
  BY <1>1, <1>3, LastFacts, SecondType DEF Positions
<1>5. TypeOK'
  BY <1>1, <1>2, <1>4, EmptySeq, SearchAssumption DEF TypeOK, setup, Positions
<1>6. PhaseFacts' /\ NextIsLast' /\ NextMeansUnexamined'
  BY <1>1, <1>2, <1>3 DEF PhaseFacts, NextIsLast, NextMeansUnexamined, Unpaged, setup
<1>7. Bounded'
  <2>1. ASSUME NEW i \in 1 .. Len(run') PROVE Second(run'[i].at) <= after'
    <3>1. run'[i] = LastOf(page) \/ Precedes(run'[i], LastOf(page))
      BY <1>1, <1>3, ReceiveFacts DEF Before
    <3>2. run'[i].at \in Nat
      <4>1. run'[i] \in Positions
        BY <1>2, ElementOfSeq
      <4> QED
        BY <4>1 DEF Positions
    <3>3. run'[i].at <= LastOf(page).at
      BY <1>4, <3>1, <3>2 DEF Precedes
    <3> QED
      BY <1>1, <1>4, <3>2, <3>3, SecondKept
  <2> QED
    BY <1>1, <2>1 DEF Bounded, UpToBoundary, Second
<1>8. Ascending'
  BY <1>1, <1>2 DEF Ascending, Ascends, Before, Unpaged, setup
<1> QED
  BY <1>5, <1>6, <1>7, <1>8

LEMMA RunCompleteOrders ==
  ASSUME OrderInvariant, RunComplete, UNCHANGED setup
  PROVE  OrderInvariant'
<1> USE DEF OrderInvariant
<1>1. /\ phase = "respond" /\ Receive /\ phase' = "complete" /\ runs' = runs + 1
      /\ UNCHANGED <<now, objects, uploading, changes, after, cursor, listing, watermark,
                     runStart, settled>>
  BY DEF RunComplete, storeVars
<1>2. /\ run' \in Seq(Positions) /\ Ascends(run') /\ delivered' \subseteq Positions
      /\ page' = <<>> /\ Len(page') = 0 /\ todo' = {} /\ next' = None
  BY <1>1, ReceiveFacts
<1>3. TypeOK'
  BY <1>1, <1>2, EmptySeq, SearchAssumption DEF TypeOK, setup, Positions
<1>4. PhaseFacts' /\ NextIsLast' /\ NextMeansUnexamined' /\ Bounded'
  BY <1>1, <1>2 DEF PhaseFacts, NextIsLast, NextMeansUnexamined, Unpaged, setup, Bounded
<1>5. Ascending'
  BY <1>1, <1>2 DEF Ascending, Ascends, Before, Unpaged, setup
<1> QED
  BY <1>3, <1>4, <1>5

LEMMA SaveWatermarkOrders ==
  ASSUME OrderInvariant, SaveWatermark, UNCHANGED setup
  PROVE  OrderInvariant'
<1> USE DEF OrderInvariant
<1>1. /\ phase = "complete" /\ phase' = "idle" /\ watermark' = NextWatermark
      /\ UNCHANGED <<now, objects, uploading, changes, after, cursor, listing, todo, page, next,
                     runStart, run, runs, delivered, settled>>
  BY DEF SaveWatermark, storeVars, requestVars
<1>2. watermark' \in Nat
  <2>1. Second(runStart) \in Nat /\ Overlap \in Nat
    BY SecondType, SearchAssumption DEF TypeOK
  <2> HIDE DEF OrderInvariant
  <2>2. NextWatermark \in Nat
    BY <2>1 DEF NextWatermark
  <2> QED
    BY <1>1, <2>2
<1>3. TypeOK'
  BY <1>1, <1>2 DEF TypeOK, setup, Positions
<1>4. PhaseFacts' /\ NextIsLast' /\ NextMeansUnexamined' /\ Bounded'
  BY <1>1 DEF PhaseFacts, NextIsLast, NextMeansUnexamined, Unpaged, setup, Bounded
<1>5. Ascending'
  BY <1>1 DEF Ascending, Ascends, Above, Before, Unpaged, setup
<1> QED
  BY <1>3, <1>4, <1>5
-----------------------------------------------------------------------------
LEMMA OrderInit == Init => OrderInvariant
<1> SUFFICES ASSUME Init PROVE OrderInvariant
  OBVIOUS
<1>1. \A t \in MsPerSec .. StartTime : Stamp(t) \in Nat
  <2>1. MsPerSec .. StartTime \subseteq Nat
    BY SearchAssumption
  <2>2. precision \in Precisions
    BY DEF Init
  <2> QED
    BY <2>1, <2>2, StampType
<1>2. objects \in [Names -> Nat \cup {None}]
  BY <1>1 DEF Init
<1>3. odd \in OddKinds
  BY DEF Init, Kinds
<1>4. /\ precision \in Precisions /\ protocol \in Protocols
      /\ now = StartTime /\ changes = 0 /\ uploading = [n \in Names |-> None]
      /\ phase = "idle" /\ watermark = 0 /\ runStart = 0 /\ after = 0
      /\ cursor = None /\ listing = {} /\ todo = {} /\ page = <<>> /\ next = None
      /\ run = <<>> /\ runs = 0 /\ delivered = {} /\ settled = {}
  BY DEF Init
<1>5. page \in Seq(Positions) /\ run \in Seq(Positions) /\ Len(page) = 0 /\ Len(run) = 0
  BY <1>4, EmptySeq
<1>6. TypeOK
  BY <1>2, <1>3, <1>4, <1>5, SearchAssumption DEF TypeOK
<1>7. PhaseFacts /\ Bounded /\ NextIsLast /\ NextMeansUnexamined
  BY <1>4 DEF PhaseFacts, Bounded, NextIsLast, NextMeansUnexamined
<1>8. Ascending
  BY <1>4, <1>5 DEF Ascending, Ascends
<1> QED
  BY <1>6, <1>7, <1>8 DEF OrderInvariant

LEMMA OrderStep == OrderInvariant /\ [Next]_searchVars => OrderInvariant'
<1> SUFFICES ASSUME OrderInvariant, [Next]_searchVars PROVE OrderInvariant'
  OBVIOUS
<1>1. CASE UNCHANGED searchVars
  BY <1>1 DEF OrderInvariant, TypeOK, PhaseFacts, Ascending, Ascends, Above, Bounded,
              UpToBoundary, NextIsLast, NextMeansUnexamined, Before, Unpaged, LastOf,
              Positions, searchVars, setup, storeVars, requestVars, consumerVars
<1>2. CASE Next
  <2>1. UNCHANGED setup
    BY <1>2 DEF Next
  <2>2. CASE Disturb
    BY <2>1, <2>2, DisturbOrders
  <2>3. CASE StartRun
    BY <2>1, <2>3, StartRunOrders
  <2>4. CASE Serve
    BY <2>1, <2>4, BeginListOrders, EndListOrders, StopOrders, SkipOrders, YieldOrders,
       AllExaminedOrders, LosePageOrders DEF Serve, Reject
  <2>5. CASE RunFails
    BY <2>1, <2>5, LosePageOrders DEF RunFails
  <2>6. CASE Consume
    BY <2>1, <2>6, FollowNextOrders, NextAfterOrders, RunCompleteOrders, SaveWatermarkOrders
       DEF Consume
  <2> QED
    BY <1>2, <2>2, <2>3, <2>4, <2>5, <2>6 DEF Next
<1> QED
  BY <1>1, <1>2

(* A run is in order and where it continues, whatever the store does.      *)
THEOREM OrderInvariantHolds == Spec => []OrderInvariant
BY OrderInit, OrderStep, PTL DEF Spec

(* The variables have their types, and no continued page exceeds the limit *)
(* that searchCursor stops at.                                             *)
THEOREM SearchTypeCorrect == Spec => []TypeOK
<1>1. OrderInvariant => TypeOK
  BY DEF OrderInvariant
<1> QED
  BY <1>1, OrderInvariantHolds, PTL

(* Across the pages of a run, entries come in strictly ascending order,    *)
(* whatever is uploaded, replaced and deleted between the pages: no entry  *)
(* is delivered twice in a run.                                            *)
THEOREM RunsAscend == Spec => []RunStrictlyAscends
<1>1. OrderInvariant => RunStrictlyAscends
  BY JoinAscends DEF OrderInvariant, TypeOK, Ascending, Ascends, RunStrictlyAscends
<1> QED
  BY <1>1, OrderInvariantHolds, PTL

(* A page carries a Next exactly when something that its request listed    *)
(* was not examined, and a page shorter than the limit carries none.       *)
THEOREM NextIsExact == Spec => []NextMeansUnexamined
<1>1. OrderInvariant => NextMeansUnexamined
  BY DEF OrderInvariant
<1> QED
  BY <1>1, OrderInvariantHolds, PTL
-----------------------------------------------------------------------------
(* What is settled is stored as it was when the run started.               *)
LEMMA SettledFacts ==
  ASSUME SearchInvariant, NEW p \in settled
  PROVE  /\ p \in Positions /\ p \in Stored /\ p.name \in Names
         /\ objects[p.name] = p.at /\ ~ Vanished(p) /\ Entry(p) = p
<1>1. /\ p \in Positions /\ p \in Stored /\ p.name \in Names /\ p.at \in Nat
      /\ objects[p.name] = p.at
  BY StoredType DEF SearchInvariant, OrderInvariant, NothingLost, Positions
<1>2. ~ Vanished(p)
  BY <1>1, SearchAssumption DEF Vanished
<1>3. Entry(p) = p
  BY <1>1 DEF Entry, Position, Positions
<1> QED
  BY <1>1, <1>2, <1>3

(* Whoever replaces or deletes an object unsettles it.                     *)
LEMMA DisturbLoses ==
  ASSUME SearchInvariant, Disturb, UNCHANGED setup
  PROVE  NothingLost'
<1>1. StoreOnly
  BY StoreTypeStep DEF SearchInvariant, OrderInvariant
<1>2. \A p \in settled :
        /\ p \in Positions /\ p.name \in Names /\ p.at \in Nat /\ objects[p.name] = p.at
        /\ p = Position(p.at, p.name)
  BY SettledFacts DEF Positions, Position
<1>3. \A p \in settled' : p \in settled /\ objects'[p.name] = objects[p.name]
  <2>1. CASE Tick
    BY <2>1 DEF Tick
  <2>2. ASSUME NEW n \in Names, StartUpload(n)
        PROVE  \A p \in settled' : p \in settled /\ objects'[p.name] = objects[p.name]
    BY <2>2 DEF StartUpload
  <2>3. ASSUME NEW n \in Names, FinishUpload(n)
        PROVE  \A p \in settled' : p \in settled /\ objects'[p.name] = objects[p.name]
    BY <2>3, <1>2 DEF FinishUpload, SearchInvariant, OrderInvariant, TypeOK
  <2>4. ASSUME NEW n \in Names, Delete(n)
        PROVE  \A p \in settled' : p \in settled /\ objects'[p.name] = objects[p.name]
    BY <2>4, <1>2 DEF Delete, SearchInvariant, OrderInvariant, TypeOK
  <2> QED
    BY <2>1, <2>2, <2>3, <2>4 DEF Disturb
<1>4. settled' \subseteq Stored'
  <2>1. ASSUME NEW p \in settled' PROVE p \in Stored'
    <3>1. p = Position(objects'[p.name], p.name) /\ p.name \in Names /\ objects'[p.name] # None
      BY <1>2, <1>3, SearchAssumption
    <3> QED
      BY <3>1 DEF Stored, Position
  <2> QED
    BY <2>1
<1>5. phase' = "listMore" => settled' \subseteq listing'
  BY <1>1, <1>3 DEF SearchInvariant, NothingLost, StoreOnly, requestVars
<1>6. ASSUME NEW p \in settled', Owed(p)' PROVE Covered(p)'
  <2>1. Covered(p)
    BY <1>1, <1>3, <1>6 DEF SearchInvariant, NothingLost, Owed, Unpaged, KindOf, StoreOnly,
                            consumerVars, setup
  <2> QED
    BY <1>1, <2>1 DEF Covered, Among, Beyond, Unpaged, StoreOnly, requestVars, consumerVars, setup
<1> QED
  BY <1>4, <1>5, <1>6 DEF NothingLost

(* Elsewhere the store and what is settled stay; what is owed stays too,   *)
(* except when the consumer moves its watermark.                           *)
LEMMA KeepsSettled ==
  ASSUME SearchInvariant, UNCHANGED <<objects, settled>>
  PROVE  settled' \subseteq Stored'
BY DEF SearchInvariant, NothingLost, Stored

LEMMA KeepsOwed ==
  ASSUME SearchInvariant, UNCHANGED <<settled, watermark, setup>>, NEW p \in settled', Owed(p)'
  PROVE  p \in settled /\ Owed(p) /\ Covered(p)
BY DEF SearchInvariant, NothingLost, Owed, Unpaged, KindOf, setup

LEMMA StartRunLoses ==
  ASSUME SearchInvariant, StartRun, UNCHANGED setup
  PROVE  NothingLost'
<1>1. /\ phase' = "list" /\ run' = <<>> /\ cursor' = None
      /\ after' = watermark /\ watermark' = watermark /\ settled' = Stored /\ objects' = objects
  BY DEF StartRun, storeVars
<1>2. settled' \subseteq Stored'
  BY <1>1 DEF Stored
<1>3. ASSUME NEW p \in settled', Owed(p)' PROVE Covered(p)'
  BY <1>1, <1>3 DEF Owed, Covered, Beyond
<1> QED
  BY <1>1, <1>2, <1>3 DEF NothingLost

LEMMA BeginListLoses ==
  ASSUME SearchInvariant, BeginList, UNCHANGED setup
  PROVE  NothingLost'
<1>1. /\ phase = "list" /\ phase' = "listMore" /\ listing' = Stored
      /\ UNCHANGED <<objects, after, cursor, watermark, run, settled>>
  BY DEF BeginList, storeVars, consumerVars
<1>2. settled' \subseteq Stored' /\ settled' \subseteq listing'
  BY <1>1, KeepsSettled DEF SearchInvariant, NothingLost
<1>3. ASSUME NEW p \in settled', Owed(p)' PROVE Covered(p)'
  <2>1. Covered(p)
    BY <1>1, <1>3, KeepsOwed
  <2> QED
    BY <1>1, <2>1 DEF Covered, Among, Beyond, Unpaged, setup
<1> QED
  BY <1>2, <1>3 DEF NothingLost

(* The LIST of a request holds what is settled, and what is owed of that   *)
(* and not yet received is a candidate.                                    *)
LEMMA OwedIsCandidate ==
  ASSUME SearchInvariant, phase = "listMore", NEW found, NEW p \in settled,
         p \in found, Owed(p), Beyond(p)
  PROVE  p \in Candidates(found)
<1>1. p \in Positions /\ p.at \in Nat /\ after \in Nat
  BY SettledFacts DEF SearchInvariant, OrderInvariant, TypeOK, Positions
<1>2. CASE Unpaged
  <2>1. after = watermark
    BY <1>2 DEF SearchInvariant, OrderInvariant, PhaseFacts
  <2> QED
    BY <1>2, <2>1 DEF Owed, Candidates, ModifiedAfter
<1>3. CASE ~ Unpaged /\ cursor = None
  <2>1. Second(p.at) > after
    BY <1>3 DEF Beyond
  <2> QED
    BY <1>1, <1>3, <2>1, SecondIsNewer DEF Candidates, PagedCandidates, ModifiedAfter
<1>4. CASE ~ Unpaged /\ cursor # None
  <2>1. Precedes(cursor, p)
    BY <1>4 DEF Beyond
  <2>2. cursor.at \in Nat
    BY <1>4 DEF SearchInvariant, OrderInvariant, TypeOK, Positions
  <2>3. cursor.at <= p.at
    BY <1>1, <2>1, <2>2 DEF Precedes
  <2> QED
    BY <1>1, <1>4, <2>1, <2>2, <2>3, ListFromBefore
       DEF Candidates, CursorCandidates, ModifiedAfter, ListFrom
<1> QED
  BY <1>2, <1>3, <1>4

LEMMA EndListLoses ==
  ASSUME SearchInvariant, EndList, UNCHANGED setup
  PROVE  NothingLost'
<1>1. PICK split \in Names \cup {0} : todo' = Candidates(Listed(split))
  BY DEF EndList
<1>2. /\ phase = "listMore" /\ phase' = "walk"
      /\ UNCHANGED <<objects, watermark, run, settled>>
  BY DEF EndList, storeVars, consumerVars
<1>3. ASSUME NEW p \in settled', Owed(p)' PROVE Covered(p)'
  <2>1. p \in settled /\ Owed(p) /\ Covered(p)
    BY <1>2, <1>3, KeepsOwed
  <2>2. p \in listing /\ p \in Stored /\ p.name \in Nat /\ split \in Nat
    <3>1. p \in listing
      BY <1>2, <2>1 DEF SearchInvariant, NothingLost
    <3>2. p \in Stored /\ p.name \in Names
      BY <2>1, SettledFacts
    <3>3. Names \subseteq Nat
      BY SearchAssumption
    <3>4. split \in Nat
      BY <1>1, <3>3
    <3> QED
      BY <3>1, <3>2, <3>3, <3>4
  <2>3. p \in Listed(split)
    BY <2>2 DEF Listed
  <2>4. Among(p, run) \/ p \in todo'
    BY <1>1, <1>2, <2>1, <2>3, OwedIsCandidate DEF Covered
  <2> QED
    BY <1>2, <2>4 DEF Covered, Among
<1> QED
  BY <1>2, <1>3, KeepsSettled DEF NothingLost

(* The walk passes over nothing that it owes.                              *)
LEMMA OwedIsNotSkipped ==
  ASSUME SearchInvariant, NEW p \in settled, Owed(p)
  PROVE  ~ Skipped(p)
<1>1. ~ Vanished(p)
  BY SettledFacts
<1> QED
  BY <1>1 DEF Skipped, FailsOn, Owed, BadName

LEMMA WalkLoses ==
  ASSUME SearchInvariant, Stop \/ Skip \/ Yield \/ AllExamined, UNCHANGED setup
  PROVE  NothingLost'
<1>1. /\ phase = "walk" /\ phase' \in {"walk", "respond"}
      /\ UNCHANGED <<objects, watermark, run, settled>>
  BY DEF Stop, Skip, Yield, AllExamined, Respond, storeVars, consumerVars
<1>2. ASSUME NEW p \in settled', Owed(p)' PROVE Covered(p)'
  <2>1. p \in settled /\ Owed(p) /\ Covered(p)
    BY <1>1, <1>2, KeepsOwed
  <2>2. Among(p, run) \/ Among(p, page) \/ p \in todo
    BY <1>1, <2>1 DEF Covered
  <2>3. Among(p, run) \/ Among(p, page') \/ p \in todo'
    <3>1. CASE Stop \/ AllExamined
      BY <3>1, <2>2 DEF Stop, AllExamined
    <3>2. CASE Skip
      BY <3>2, <2>1, <2>2, OwedIsNotSkipped DEF Skip, AfterSkip
    <3>3. CASE Yield
      <4>1. PICK q \in todo : page' = Append(page, Entry(q)) /\ todo' = todo \ {q} /\ ~ Vanished(q)
        BY <3>3, YieldCases DEF SearchInvariant
      <4>2. /\ page \in Seq(Positions) /\ Entry(q) \in Positions
            /\ Len(page) \in Nat
        BY <4>1, EntryType, LenProperties DEF SearchInvariant, OrderInvariant, TypeOK
      <4>3. /\ Len(page') = Len(page) + 1 /\ page'[Len(page) + 1] = Entry(q)
            /\ \A i \in 1 .. Len(page) : page'[i] = page[i]
        BY <4>1, <4>2, AppendFacts
      <4>4. CASE p = q
        <5>1. Entry(q) = p
          BY <2>1, <4>4, SettledFacts
        <5> QED
          BY <4>2, <4>3, <5>1 DEF Among
      <4>5. CASE p # q
        BY <2>2, <4>1, <4>2, <4>3, <4>5 DEF Among
      <4> QED
        BY <4>4, <4>5
    <3> QED
      BY <3>1, <3>2, <3>3
  <2> QED
    BY <1>1, <2>3 DEF Covered, Among
<1> QED
  BY <1>1, <1>2, KeepsSettled DEF NothingLost

LEMMA LosePageLoses ==
  ASSUME SearchInvariant, LosePage, UNCHANGED setup
  PROVE  NothingLost'
<1>1. phase' = "idle" /\ UNCHANGED <<objects, settled>>
  BY DEF LosePage, storeVars
<1> QED
  BY <1>1, KeepsSettled DEF NothingLost, Covered

(* What the next request of a run owes lies behind its Next.               *)
LEMMA ContinueLoses ==
  ASSUME SearchInvariant, FollowNext \/ NextAfter, UNCHANGED setup
  PROVE  NothingLost'
<1>1. /\ phase = "respond" /\ phase' = "list" /\ Receive
      /\ UNCHANGED <<objects, watermark, settled>>
  BY DEF FollowNext, NextAfter, Again, storeVars
<1>2. ASSUME NEW p \in settled', Owed(p)' PROVE Covered(p)'
  <2>1. p \in settled /\ Owed(p) /\ Covered(p)
    BY <1>1, <1>2, KeepsOwed
  <2>2. page \in Seq(Positions) /\ run \in Seq(Positions) /\ run' = run \o page
    BY <1>1 DEF SearchInvariant, OrderInvariant, TypeOK, Receive
  <2>3. CASE Among(p, run) \/ Among(p, page)
    <3>1. Among(p, run')
      BY <2>2, <2>3, JoinAmong
    <3> QED
      BY <1>1, <3>1 DEF Covered, Among
  <2>4. CASE p \in todo
    <3>1. next # None /\ page # <<>> /\ next = LastOf(page)
      BY <1>1, <2>4 DEF SearchInvariant, OrderInvariant, NextMeansUnexamined, NextIsLast
    <3>2. CASE FollowNext
      <4>1. ~ Unpaged /\ ~ Unpaged' /\ cursor' = next
        BY <3>2 DEF FollowNext, Again, Unpaged, setup
      <4>2. Len(page) \in 1 .. Len(page) /\ LastOf(page) = page[Len(page)]
        BY <2>2, <3>1, LastFacts
      <4>3. Precedes(next, p)
        BY <1>1, <2>4, <3>1, <4>1, <4>2
           DEF SearchInvariant, OrderInvariant, Ascending, Above, Before
      <4>4. Beyond(p)'
        BY <3>1, <4>1, <4>3 DEF Beyond, Precedes
      <4> QED
        BY <1>1, <4>4 DEF Covered
    <3>3. CASE NextAfter
      <4>1. ~ Unpaged /\ ~ Unpaged' /\ cursor = None /\ cursor' = None
            /\ after' = Second(LastOf(page).at)
        BY <3>3 DEF NextAfter, Again, Unpaged, setup, SearchInvariant, OrderInvariant, PhaseFacts
      <4>2. Second(p.at) > after'
        BY <1>1, <2>4, <3>1, <4>1 DEF SearchInvariant, OrderInvariant, NextIsLast
      <4>3. Beyond(p)'
        BY <4>1, <4>2 DEF Beyond, Second
      <4> QED
        BY <1>1, <4>3 DEF Covered
    <3> QED
      BY <3>2, <3>3
  <2> QED
    BY <1>1, <2>1, <2>3, <2>4 DEF Covered
<1> QED
  BY <1>1, <1>2, KeepsSettled DEF NothingLost

(* A run that completes has nothing left to examine.                       *)
LEMMA RunCompleteLoses ==
  ASSUME SearchInvariant, RunComplete, UNCHANGED setup
  PROVE  NothingLost'
<1>1. /\ phase = "respond" /\ phase' = "complete" /\ Receive /\ EndsRun
      /\ UNCHANGED <<objects, watermark, settled>>
  BY DEF RunComplete, storeVars
<1>2. page \in Seq(Positions) /\ run \in Seq(Positions) /\ run' = run \o page
  BY <1>1 DEF SearchInvariant, OrderInvariant, TypeOK, Receive
<1>3. todo = {}
  <2>1. next = None => todo = {}
    BY <1>1 DEF SearchInvariant, OrderInvariant, NextMeansUnexamined
  <2>2. Len(page) \in Nat /\ Limit \in Nat
    BY <1>2, LenProperties, SearchAssumption
  <2>3. protocol = "after" => next = None
    BY <1>1, <2>2 DEF EndsRun, PageFull, SearchInvariant, OrderInvariant, NextMeansUnexamined
  <2> QED
    BY <1>1, <2>1, <2>3 DEF EndsRun
<1>4. ASSUME NEW p \in settled', Owed(p)' PROVE Covered(p)'
  <2>1. Covered(p)
    BY <1>1, <1>4, KeepsOwed
  <2>2. Among(p, run')
    BY <1>1, <1>2, <1>3, <2>1, JoinAmong DEF Covered
  <2> QED
    BY <1>1, <2>2 DEF Covered, Among
<1> QED
  BY <1>1, <1>4, KeepsSettled DEF NothingLost

LEMMA SaveWatermarkLoses ==
  ASSUME SearchInvariant, SaveWatermark, UNCHANGED setup
  PROVE  NothingLost'
<1>1. phase' = "idle" /\ UNCHANGED <<objects, settled>>
  BY DEF SaveWatermark, storeVars
<1> QED
  BY <1>1, KeepsSettled DEF NothingLost, Covered
-----------------------------------------------------------------------------
LEMMA LossInit == Init => NothingLost
BY DEF Init, NothingLost

LEMMA LossStep == SearchInvariant /\ [Next]_searchVars => NothingLost'
<1> SUFFICES ASSUME SearchInvariant, [Next]_searchVars PROVE NothingLost'
  OBVIOUS
<1>1. CASE UNCHANGED searchVars
  BY <1>1 DEF SearchInvariant, NothingLost, Stored, Owed, Covered, Among, Beyond, Unpaged,
              KindOf, Precedes, searchVars, setup, storeVars, requestVars, consumerVars
<1>2. CASE Next
  <2>1. UNCHANGED setup
    BY <1>2 DEF Next
  <2>2. CASE Disturb
    BY <2>1, <2>2, DisturbLoses
  <2>3. CASE StartRun
    BY <2>1, <2>3, StartRunLoses
  <2>4. CASE Serve
    BY <2>1, <2>4, BeginListLoses, EndListLoses, WalkLoses, LosePageLoses DEF Serve, Reject
  <2>5. CASE RunFails
    BY <2>1, <2>5, LosePageLoses DEF RunFails
  <2>6. CASE Consume
    BY <2>1, <2>6, ContinueLoses, RunCompleteLoses, SaveWatermarkLoses DEF Consume
  <2> QED
    BY <1>2, <2>2, <2>3, <2>4, <2>5, <2>6 DEF Next
<1> QED
  BY <1>1, <1>2

(* Nothing that is owed is lost on the way from the listing to the run.    *)
THEOREM SearchInvariantHolds == Spec => []SearchInvariant
<1>1. Init => SearchInvariant
  BY OrderInit, LossInit DEF SearchInvariant
<1>2. SearchInvariant /\ [Next]_searchVars => SearchInvariant'
  <2> SUFFICES ASSUME SearchInvariant, [Next]_searchVars PROVE SearchInvariant'
    OBVIOUS
  <2>1. OrderInvariant' /\ NothingLost'
    BY OrderStep, LossStep DEF SearchInvariant
  <2> QED
    BY <2>1 DEF SearchInvariant
<1> QED
  BY <1>1, <1>2, PTL DEF Spec

(* A completed run, of any number of pages, has yielded every object of    *)
(* this service that is newer than the watermark and that nobody uploaded, *)
(* replaced or deleted since the run started.                              *)
THEOREM RunsLoseNothing == Spec => []RunLosesNothing
<1>1. SearchInvariant => RunLosesNothing
  <2> SUFFICES ASSUME SearchInvariant, phase = "complete", NEW p \in settled,
                      KindOf(p.name) = "sound", Second(p.at) > watermark
               PROVE  Among(p, run)
    BY DEF RunLosesNothing, Among
  <2>1. p.at \in Nat /\ watermark \in Nat
    BY SettledFacts DEF SearchInvariant, OrderInvariant, TypeOK, Positions
  <2>2. p.at > watermark * MsPerSec
    BY <2>1, SecondIsNewer
  <2>3. Owed(p)
    BY <2>2 DEF Owed
  <2> QED
    BY <2>3 DEF SearchInvariant, NothingLost, Covered
<1> QED
  BY <1>1, SearchInvariantHolds, PTL

(* A completed unpaged run has passed over no object in silence, except    *)
(* for one without statistics.                                             *)
THEOREM UnpagedRunsPassOverNothing == Spec => []UnpagedPassesOverNothing
<1>1. SearchInvariant => UnpagedPassesOverNothing
  BY DEF UnpagedPassesOverNothing, SearchInvariant, NothingLost, Owed, Covered, Among
<1> QED
  BY <1>1, SearchInvariantHolds, PTL
-----------------------------------------------------------------------------
(* What the overlap between runs needs: stores that keep the second of a   *)
(* stamp, an overlap of one second more than the skew and the longest      *)
(* upload together, and a clock beyond the second of the epoch.            *)
OverlapSuffices ==
  /\ Precisions \subseteq {1, MsPerSec}
  /\ MaxUpload + MaxSkew <= (Overlap - 1) * MsPerSec
  /\ StartTime >= MsPerSec

(* No upload in progress is older than the longest one.                    *)
UploadsAreYoung ==
  \A n \in Names : uploading[n] # None =>
    /\ uploading[n] >= MsPerSec /\ uploading[n] <= now
    /\ now <= uploading[n] + MaxUpload

(* The watermark lies behind what the consumer's clock may show, by the    *)
(* overlap.                                                                *)
ClockIsAhead ==
  /\ now >= StartTime /\ runStart <= now + MaxSkew
  /\ watermark = 0 \/ watermark + Overlap <= Second(now + MaxSkew)

NoneFromEpoch == \A p \in Stored : Second(p.at) > 0

ReceivedIsDelivered == \A i \in 1 .. Len(run) : run[i] \in delivered

(* What lies up to the watermark was delivered by an earlier run.          *)
OldIsDelivered ==
  \A p \in Stored : KindOf(p.name) = "sound" /\ Second(p.at) <= watermark => p \in delivered

(* What will lie up to the next watermark was there when the run started.  *)
OldIsSettled ==
  phase # "idle" => \A p \in Stored : Second(p.at) <= NextWatermark => p \in settled

CatchUpFacts ==
  /\ UploadsAreYoung /\ ClockIsAhead /\ NoneFromEpoch
  /\ ReceivedIsDelivered /\ OldIsDelivered /\ OldIsSettled

CatchUpInvariant == SearchInvariant /\ CatchUpFacts
-----------------------------------------------------------------------------
(* What is still under way at t began less than the overlap before.        *)
LEMMA YoungIsLater ==
  ASSUME OverlapSuffices, NEW s \in Nat, NEW t \in Nat, s <= t + MaxUpload + MaxSkew
  PROVE  Second(s) < Second(t) + Overlap
<1>1. ASSUME NEW M \in Nat \ {0}, NEW k \in Nat, NEW u \in Nat, u <= (k - 1) * M, s <= t + u
      PROVE  s \div M < (t \div M) + k
  <2>1. /\ s = M * (s \div M) + (s % M) /\ s \div M \in Nat /\ s % M \in Nat
        /\ t = M * (t \div M) + (t % M) /\ t \div M \in Nat /\ t % M \in 0 .. M - 1
    OBVIOUS
  <2> DEFINE gap == (s \div M) - ((t \div M) + k)
  <2>2. SUFFICES ASSUME gap \in Nat PROVE FALSE
    BY <2>1
  <2>3. M * gap \in Nat
    BY <2>2
  <2>4. M * (s \div M) = M * gap + M * (t \div M) + M * k
    BY <2>1
  <2>5. (k - 1) * M = M * k - M
    OBVIOUS
  <2> HIDE DEF gap
  <2> QED
    BY <1>1, <2>1, <2>3, <2>4, <2>5
<1> QED
  <2> DEFINE u == MaxUpload + MaxSkew
  <2>1. /\ u \in Nat /\ s <= t + u /\ u <= (Overlap - 1) * MsPerSec
        /\ MsPerSec \in Nat \ {0} /\ Overlap \in Nat
    BY SearchAssumption DEF OverlapSuffices
  <2> HIDE DEF u
  <2> QED
    BY <1>1, <2>1 DEF Second

(* A stamp keeps the second, for both kinds of stores.                     *)
LEMMA StampKeepsSecond ==
  ASSUME OverlapSuffices, precision \in Precisions, NEW t \in Nat
  PROVE  Second(Stamp(t)) = Second(t)
<1>1. CASE precision = 1
  <2>1. t % 1 = 0 /\ t - 0 = t
    OBVIOUS
  <2> QED
    BY <1>1, <2>1 DEF Stamp
<1>2. CASE precision = MsPerSec
  <2>1. \A M \in Nat \ {0} : (t - (t % M)) \div M = t \div M
    <3> SUFFICES ASSUME NEW M \in Nat \ {0} PROVE (t - (t % M)) \div M = t \div M
      OBVIOUS
    <3>1. t = M * (t \div M) + (t % M) /\ t \div M \in Nat
      OBVIOUS
    <3>2. t - (t % M) = M * (t \div M)
      BY <3>1
    <3>3. \A q \in Nat : (M * q) \div M = q
      OBVIOUS
    <3> QED
      BY <3>1, <3>2, <3>3
  <2> QED
    BY <1>2, <2>1, SearchAssumption DEF Stamp, Second
<1> QED
  BY <1>1, <1>2 DEF OverlapSuffices

(* Neither an old object nor one below the watermark is still under way.   *)
LEMMA UploadsAreLater ==
  ASSUME OverlapSuffices, TypeOK, UploadsAreYoung, ClockIsAhead,
         NEW n \in Names, uploading[n] # None
  PROVE  /\ uploading[n] \in Nat /\ Second(Stamp(uploading[n])) > 0
         /\ Second(Stamp(uploading[n])) > watermark
         /\ Second(Stamp(uploading[n])) > NextWatermark
<1> DEFINE t == uploading[n]
<1>1. /\ t \in Nat /\ runStart \in Nat /\ watermark \in Nat /\ now \in Nat
      /\ precision \in Precisions
  BY DEF TypeOK
<1>2. Second(Stamp(t)) = Second(t)
  BY <1>1, StampKeepsSecond
<1>3. /\ Second(t) \in Nat /\ Second(runStart) \in Nat /\ Overlap \in Nat
      /\ now + MaxSkew \in Nat /\ Second(now + MaxSkew) \in Nat
  BY <1>1, SecondType, SearchAssumption
<1>4. Second(t) > 0
  <2>1. \A M \in Nat \ {0} : t >= M => t \div M > 0
    BY <1>1
  <2> QED
    BY <2>1, SearchAssumption DEF UploadsAreYoung, Second
<1>5. /\ Second(runStart) < Second(t) + Overlap
      /\ Second(now + MaxSkew) < Second(t) + Overlap
  <2>1. /\ runStart <= t + MaxUpload + MaxSkew
        /\ now + MaxSkew <= t + MaxUpload + MaxSkew
    BY <1>1, SearchAssumption DEF UploadsAreYoung, ClockIsAhead
  <2> QED
    BY <1>1, <1>3, <2>1, YoungIsLater
<1>6. Second(t) > watermark
  BY <1>1, <1>3, <1>4, <1>5 DEF ClockIsAhead
<1>7. Second(t) > NextWatermark
  BY <1>3, <1>4, <1>5 DEF NextWatermark
<1> QED
  BY <1>1, <1>2, <1>4, <1>6, <1>7

(* A change of the bucket disturbs nothing: what appears is neither old    *)
(* nor below the watermark.                                                *)
LEMMA DisturbCatchesUp ==
  ASSUME OverlapSuffices, TypeOK, CatchUpFacts, Disturb, UNCHANGED setup
  PROVE  CatchUpFacts'
<1> USE DEF CatchUpFacts
<1>1. /\ now \in Nat /\ runStart \in Nat
      /\ objects \in [Names -> Nat \cup {None}] /\ uploading \in [Names -> Nat \cup {None}]
      /\ UNCHANGED <<precision, protocol, odd, phase, watermark, runStart, run, runs, delivered>>
  BY StoreTypeStep DEF TypeOK, StoreOnly, consumerVars, setup
<1>2. now' \in Nat /\ now <= now'
  BY <1>1 DEF Disturb, Tick, StartUpload, FinishUpload, Delete
<1>3. ClockIsAhead' /\ ReceivedIsDelivered'
  <2>1. Second(now + MaxSkew) <= Second(now' + MaxSkew)
        /\ Second(now + MaxSkew) \in Nat /\ Second(now' + MaxSkew) \in Nat
    BY <1>2, <1>1, SearchAssumption, SecondKept, SecondType
  <2>2. watermark \in Nat /\ Overlap \in Nat /\ MaxSkew \in Nat /\ StartTime \in Nat
    BY SearchAssumption DEF TypeOK
  <2>3. watermark = 0 \/ watermark + Overlap <= Second(now' + MaxSkew)
    BY <2>1, <2>2 DEF ClockIsAhead
  <2>4. now' >= StartTime /\ runStart <= now' + MaxSkew
    <3>1. now >= StartTime /\ runStart <= now + MaxSkew
      BY DEF ClockIsAhead
    <3>2. \A a, b, c, d, e \in Nat : a <= b /\ a >= c /\ d <= a + e => b >= c /\ d <= b + e
      OBVIOUS
    <3> QED
      BY <1>1, <1>2, <2>2, <3>1, <3>2, Zenon
  <2>5. ReceivedIsDelivered'
    BY <1>1 DEF ReceivedIsDelivered
  <2>6. watermark' = watermark /\ runStart' = runStart
    BY <1>1
  <2>7. (watermark = 0 \/ watermark + Overlap <= Second(now + MaxSkew))'
    BY <2>3, <2>6, Zenon DEF Second
  <2> QED
    BY <2>4, <2>5, <2>6, <2>7, Zenon DEF ClockIsAhead
<1>4. UploadsAreYoung'
  <2> SUFFICES ASSUME NEW n \in Names, uploading'[n] # None
               PROVE  /\ uploading'[n] >= MsPerSec /\ uploading'[n] <= now'
                      /\ now' <= uploading'[n] + MaxUpload
    BY DEF UploadsAreYoung
  <2>1. CASE Tick
    BY <1>1, <2>1, SearchAssumption DEF Tick, UploadsAreYoung
  <2>2. CASE \E m \in Names : StartUpload(m)
    <3>1. PICK m \in Names : StartUpload(m)
      BY <2>2
    <3>2. now >= MsPerSec
      BY <1>1, SearchAssumption DEF ClockIsAhead, OverlapSuffices
    <3> QED
      BY <1>1, <3>1, <3>2, SearchAssumption DEF StartUpload, UploadsAreYoung
  <2>3. CASE \E m \in Names : FinishUpload(m) \/ Delete(m)
    BY <1>1, <2>3 DEF FinishUpload, Delete, UploadsAreYoung
  <2> QED
    BY <2>1, <2>2, <2>3 DEF Disturb
<1>5. ASSUME NEW p \in Stored'
      PROVE  \/ p \in Stored /\ (p \in settled => p \in settled')
             \/ /\ Second(p.at) > 0 /\ Second(p.at) > watermark
                /\ Second(p.at) > NextWatermark
  <2>1. p.name \in Names /\ p = Position(objects'[p.name], p.name) /\ objects'[p.name] # None
    BY DEF Stored, Position
  <2>2. CASE Tick \/ \E m \in Names : StartUpload(m)
    BY <2>2 DEF Tick, StartUpload, Stored
  <2>3. CASE \E m \in Names : FinishUpload(m)
    <3>1. PICK m \in Names : FinishUpload(m)
      BY <2>3
    <3>2. CASE p.name = m
      <4>1. p.at = Stamp(uploading[m])
        BY <1>1, <2>1, <3>1, <3>2 DEF FinishUpload, Position
      <4> QED
        BY <3>1, <4>1, UploadsAreLater DEF FinishUpload
    <3>3. CASE p.name # m
      <4>1. objects'[p.name] = objects[p.name]
        BY <1>1, <2>1, <3>1, <3>3 DEF FinishUpload
      <4> QED
        BY <2>1, <3>1, <3>3, <4>1 DEF FinishUpload, Stored
    <3> QED
      BY <3>2, <3>3
  <2>4. CASE \E m \in Names : Delete(m)
    <3>1. PICK m \in Names : Delete(m)
      BY <2>4
    <3>2. p.name # m /\ objects'[p.name] = objects[p.name]
      BY <1>1, <2>1, <3>1 DEF Delete
    <3> QED
      BY <2>1, <3>1, <3>2 DEF Delete, Stored
  <2> QED
    BY <2>2, <2>3, <2>4 DEF Disturb
<1>6. ASSUME NEW p \in Stored' PROVE p.at \in Nat /\ Second(p.at) \in Nat
  <2>1. TypeOK'
    BY StoreTypeStep DEF TypeOK, StoreOnly, requestVars, consumerVars, setup, Positions
  <2>2. p.at \in Nat
    BY <2>1 DEF TypeOK, Stored, Position
  <2> QED
    BY <2>2, SecondType
<1>7. NoneFromEpoch'
  <2> SUFFICES ASSUME NEW p \in Stored' PROVE Second(p.at) > 0
    BY DEF NoneFromEpoch, Second
  <2> QED
    BY <1>5 DEF NoneFromEpoch
<1>8. OldIsDelivered'
  <2> SUFFICES ASSUME NEW p \in Stored', KindOf(p.name) = "sound", Second(p.at) <= watermark
               PROVE  p \in delivered
    BY <1>1 DEF OldIsDelivered, KindOf, Second
  <2>1. watermark \in Nat
    BY DEF TypeOK
  <2> QED
    BY <1>5, <1>6, <2>1 DEF OldIsDelivered
<1>9. OldIsSettled'
  <2> SUFFICES ASSUME phase # "idle", NEW p \in Stored', Second(p.at) <= NextWatermark
               PROVE  p \in settled'
    BY <1>1 DEF OldIsSettled, NextWatermark, Second
  <2>1. NextWatermark \in Int
    BY <1>1, SecondType, SearchAssumption DEF NextWatermark
  <2> QED
    BY <1>5, <1>6, <2>1 DEF OldIsSettled
<1> QED
  BY <1>3, <1>4, <1>7, <1>8, <1>9

(* What is stored is settled when a run starts.                            *)
LEMMA StartRunCatchesUp ==
  ASSUME OverlapSuffices, TypeOK, CatchUpFacts, StartRun, UNCHANGED setup
  PROVE  CatchUpFacts'
<1> USE DEF CatchUpFacts
<1>1. /\ settled' = Stored /\ run' = <<>> /\ runStart' \in ConsumerClock
      /\ UNCHANGED <<odd, now, objects, uploading, watermark, delivered>>
  BY DEF StartRun, storeVars, setup
<1>2. runStart' <= now + MaxSkew
  BY <1>1, SearchAssumption DEF TypeOK, ConsumerClock
<1>3. ClockIsAhead'
  BY <1>1, <1>2 DEF ClockIsAhead, Second
<1> QED
  BY <1>1, <1>3 DEF UploadsAreYoung, NoneFromEpoch, ReceivedIsDelivered, OldIsDelivered,
     OldIsSettled, Stored, Second, KindOf

(* The handler touches none of this.                                       *)
LEMMA ServeCatchesUp ==
  ASSUME CatchUpFacts, Serve \/ RunFails, UNCHANGED setup
  PROVE  CatchUpFacts'
<1>1. /\ phase # "idle"
      /\ UNCHANGED <<odd, now, objects, uploading, watermark, runStart, run, delivered, settled>>
  BY DEF Serve, BeginList, EndList, Stop, Skip, Yield, AllExamined, Reject, RunFails, LosePage,
     Respond, storeVars, consumerVars, setup
<1> QED
  BY <1>1 DEF CatchUpFacts, UploadsAreYoung, ClockIsAhead, NoneFromEpoch, ReceivedIsDelivered,
     OldIsDelivered, OldIsSettled, Stored, NextWatermark, Second, KindOf

(* A page that is received is delivered.                                   *)
LEMMA ReceiveCatchesUp ==
  ASSUME TypeOK, CatchUpFacts, FollowNext \/ NextAfter \/ RunComplete, UNCHANGED setup
  PROVE  CatchUpFacts'
<1> USE DEF CatchUpFacts
<1>1. /\ phase = "respond" /\ Receive
      /\ UNCHANGED <<odd, now, objects, uploading, watermark, runStart, settled>>
  BY DEF FollowNext, NextAfter, RunComplete, Again, storeVars, setup
<1>2. /\ run' = run \o page /\ delivered' = delivered \cup {page[i] : i \in 1 .. Len(page)}
      /\ run \in Seq(Positions) /\ page \in Seq(Positions)
  BY <1>1 DEF Receive, TypeOK
<1>3. ReceivedIsDelivered'
  <2> SUFFICES ASSUME NEW i \in 1 .. Len(run \o page) PROVE (run \o page)[i] \in delivered'
    BY <1>2 DEF ReceivedIsDelivered
  <2>1. Among((run \o page)[i], run) \/ Among((run \o page)[i], page)
    BY <1>2, JoinAmong
  <2> QED
    BY <1>2, <2>1 DEF Among, ReceivedIsDelivered
<1>4. OldIsDelivered'
  BY <1>1, <1>2 DEF OldIsDelivered, Stored, KindOf, Second
<1> QED
  BY <1>1, <1>3, <1>4 DEF UploadsAreYoung, ClockIsAhead, NoneFromEpoch, OldIsSettled, Stored,
     NextWatermark, Second

(* What is settled at the end of a run has been delivered, by this run or  *)
(* by an earlier one.                                                      *)
LEMMA SettledIsDelivered ==
  ASSUME SearchInvariant, CatchUpFacts, phase = "complete",
         NEW p \in settled, KindOf(p.name) = "sound"
  PROVE  p \in delivered
<1>1. p \in Stored /\ p \in Positions
  BY SettledFacts
<1>2. p.at \in Nat /\ Second(p.at) \in Nat /\ watermark \in Nat
  BY <1>1, SecondType DEF Positions, SearchInvariant, OrderInvariant, TypeOK
<1>3. CASE Second(p.at) <= watermark
  BY <1>1, <1>3 DEF CatchUpFacts, OldIsDelivered
<1>4. CASE Second(p.at) > watermark
  <2>1. Owed(p)
    BY <1>2, <1>4, SecondIsNewer DEF Owed
  <2>2. Among(p, run)
    BY <2>1 DEF SearchInvariant, NothingLost, Covered
  <2> QED
    BY <2>2 DEF Among, CatchUpFacts, ReceivedIsDelivered
<1> QED
  BY <1>2, <1>3, <1>4

(* So the watermark moves only over what has been delivered.               *)
LEMMA SaveWatermarkCatchesUp ==
  ASSUME OverlapSuffices, SearchInvariant, CatchUpFacts, SaveWatermark, UNCHANGED setup
  PROVE  CatchUpFacts'
<1> USE DEF CatchUpFacts
<1>1. /\ phase = "complete" /\ phase' = "idle" /\ watermark' = NextWatermark
      /\ UNCHANGED <<odd, now, objects, uploading, runStart, run, delivered, settled>>
  BY DEF SaveWatermark, storeVars, setup
<1>2. ClockIsAhead'
  <2>1. /\ runStart \in Nat /\ now + MaxSkew \in Nat /\ Overlap \in Nat
        /\ runStart <= now + MaxSkew
    BY SearchAssumption DEF SearchInvariant, OrderInvariant, TypeOK, ClockIsAhead
  <2>2. /\ Second(runStart) \in Nat /\ Second(now + MaxSkew) \in Nat
        /\ Second(runStart) <= Second(now + MaxSkew)
    BY <2>1, SecondType, SecondKept
  <2>3. NextWatermark = 0 \/ NextWatermark + Overlap <= Second(now + MaxSkew)
    BY <2>1, <2>2 DEF NextWatermark
  <2> QED
    BY <1>1, <2>3 DEF ClockIsAhead, Second
<1>3. OldIsDelivered'
  <2> SUFFICES ASSUME NEW p \in Stored, KindOf(p.name) = "sound", Second(p.at) <= NextWatermark
               PROVE  p \in delivered
    BY <1>1 DEF OldIsDelivered, Stored, KindOf, Second
  <2>1. p \in settled
    BY <1>1 DEF OldIsSettled
  <2> QED
    BY <1>1, <2>1, SettledIsDelivered
<1> QED
  BY <1>1, <1>2, <1>3 DEF UploadsAreYoung, NoneFromEpoch, ReceivedIsDelivered, OldIsSettled,
     Stored, Second

LEMMA CatchUpInit == OverlapSuffices /\ Init => CatchUpFacts
<1> SUFFICES ASSUME OverlapSuffices, Init PROVE CatchUpFacts
  OBVIOUS
<1>1. TypeOK
  BY OrderInit DEF OrderInvariant
<1>2. ASSUME NEW p \in Stored PROVE Second(p.at) > 0
  <2>1. PICK t \in MsPerSec .. StartTime : p.at = Stamp(t)
    BY DEF Init, Stored, Position
  <2>2. t \in Nat /\ t >= MsPerSec
    BY <2>1, SearchAssumption
  <2>3. \A M \in Nat \ {0} : t >= M => t \div M > 0
    BY <2>2
  <2>4. Second(t) > 0
    BY <2>2, <2>3, SearchAssumption DEF Second
  <2> QED
    BY <1>1, <2>1, <2>2, <2>4, StampKeepsSecond DEF TypeOK
<1>3. ASSUME NEW p \in Stored, Second(p.at) <= watermark PROVE FALSE
  <2>1. p.at \in Nat
    BY <1>1, StoredType DEF Positions
  <2> QED
    BY <1>2, <1>3, <2>1, SecondType DEF Init
<1> QED
  BY <1>2, <1>3, SearchAssumption
     DEF Init, CatchUpFacts, UploadsAreYoung, ClockIsAhead, NoneFromEpoch, ReceivedIsDelivered,
         OldIsDelivered, OldIsSettled

LEMMA CatchUpStep ==
  ASSUME OverlapSuffices, SearchInvariant, CatchUpFacts, [Next]_searchVars
  PROVE  CatchUpFacts'
<1>1. TypeOK
  BY DEF SearchInvariant, OrderInvariant
<1>2. CASE UNCHANGED searchVars
  BY <1>2 DEF searchVars, setup, storeVars, consumerVars, CatchUpFacts, UploadsAreYoung,
     ClockIsAhead, NoneFromEpoch, ReceivedIsDelivered, OldIsDelivered, OldIsSettled, Stored,
     NextWatermark, Second, KindOf
<1>3. CASE Next
  BY <1>1, <1>3, DisturbCatchesUp, StartRunCatchesUp, ServeCatchesUp, ReceiveCatchesUp,
     SaveWatermarkCatchesUp DEF Next, Consume
<1> QED
  BY <1>2, <1>3

(* If the overlap covers the skew, the longest upload and one second more, *)
(* as the README asks for, every object that was stored, unmodified,       *)
(* throughout a completed run has been delivered, also when it appeared    *)
(* behind a page boundary, or behind the start of an earlier run.          *)
THEOREM OverlapIsEnough ==
  ASSUME OverlapSuffices
  PROVE  Spec => []OverlapCatchesUp
<1>1. Init => CatchUpFacts
  BY CatchUpInit
<1>2. SearchInvariant /\ CatchUpFacts /\ [Next]_searchVars => CatchUpFacts'
  BY CatchUpStep
<1>3. SearchInvariant /\ CatchUpFacts => OverlapCatchesUp
  BY SettledIsDelivered DEF OverlapCatchesUp
<1> QED
  BY <1>1, <1>2, <1>3, SearchInvariantHolds, PTL DEF Spec
=============================================================================
