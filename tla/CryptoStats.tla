---------------------------- MODULE CryptoStats ----------------------------
(***************************************************************************)
(* countCryptoStats and walkComponents: the statistics an upload stores in *)
(* the metadata of its objects.  The tree of components is walked with an  *)
(* explicit stack, not deeper than MaxComponentDepth, and what was found   *)
(* is counted by asset type.  One upload walks one document, alone.        *)
(***************************************************************************)
EXTENDS Integers, Sequences, FiniteSets

CONSTANTS
  MaxComponents,      \* bound on the size of a document
  MaxComponentDepth,  \* the bound of that name, 1000 in the code
  AssetTypes,         \* algorithm, certificate, protocol, related material
  OtherAsset,         \* a cryptographic asset of any other type
  NotCounted          \* not a cryptographic asset, or without properties

ASSUME StatsAssumption ==
  /\ MaxComponents \in Nat /\ MaxComponentDepth \in Nat \ {0}
  /\ OtherAsset \notin AssetTypes /\ NotCounted \notin AssetTypes \cup {OtherAsset}

VARIABLES
  parent,     \* the document: the parent of a component, 0 at the top level
  kind,       \* what a component counts as
  pending,    \* the stack of componentFrames
  found,      \* the components in the order they were visited
  truncated,
  stats,      \* total, and by asset type
  stage

statsVars == <<parent, kind, pending, found, truncated, stats, stage>>

Components == DOMAIN parent
Kinds      == AssetTypes \cup {OtherAsset, NotCounted}

(* Components are numbered so that siblings follow in document order.      *)
Documents(size) == {p \in [1 .. size -> 0 .. size] : \A n \in 1 .. size : p[n] < n}

Children(n) == {m \in Components : parent[m] = n}

Frame(n, depth) == [component |-> n, depth |-> depth]

(* The k-th of a set of components in document order.                      *)
Nth(set, k) == CHOOSE n \in set : Cardinality({m \in set : m < n}) = k - 1

(* pushChildren: in reverse, so that the stack pops them in order.         *)
PushedForward(stack, n, depth) ==
  stack \o [k \in 1 .. Cardinality(Children(n)) |-> Frame(Nth(Children(n), k), depth)]

Pushed(stack, n, depth) ==
  LET size == Cardinality(Children(n))
  IN  stack \o [k \in 1 .. size |-> Frame(Nth(Children(n), size + 1 - k), depth)]

StatsInit ==
  /\ \E size \in 0 .. MaxComponents :
       parent \in Documents(size) /\ kind \in [1 .. size -> Kinds]
  /\ pending = Pushed(<<>>, 0, 1)
  /\ found = <<>> /\ truncated = FALSE /\ stage = "walk"
  /\ stats = [total |-> 0, of |-> [t \in AssetTypes |-> 0]]

TooLateBound(depth) == depth > MaxComponentDepth

AtBound(depth) == depth >= MaxComponentDepth

DepthKept(depth) == depth

ChildDepth(depth) == depth + 1

Top  == pending[Len(pending)]
Rest == SubSeq(pending, 1, Len(pending) - 1)

(* A component at the bound is found, its children are not.                *)
Visit ==
  /\ stage = "walk" /\ pending # <<>>
  /\ found' = Append(found, Top.component)
  /\ IF AtBound(Top.depth)
       THEN /\ pending' = Rest
            /\ truncated' = (truncated \/ Children(Top.component) # {})
       ELSE /\ pending' = Pushed(Rest, Top.component, ChildDepth(Top.depth))
            /\ UNCHANGED truncated
  /\ UNCHANGED <<parent, kind, stats, stage>>

CountOf(matching) == Cardinality({i \in 1 .. Len(found) : kind[found[i]] \in matching})

Count ==
  /\ stage = "walk" /\ pending = <<>>
  /\ stats' = [total |-> CountOf(AssetTypes \cup {OtherAsset}),
               of    |-> [t \in AssetTypes |-> CountOf({t})]]
  /\ stage' = "counted"
  /\ UNCHANGED <<parent, kind, pending, found, truncated>>

StatsNext == Visit \/ Count

StatsSpec == StatsInit /\ [][StatsNext]_statsVars

-----------------------------------------------------------------------------
(* The reference: ancestors and document order, from the tree alone.  The  *)
(* ancestors are what every set that holds the parents of its members has. *)
Upward(set) == \A m \in set : parent[m] = 0 \/ parent[m] \in set

SelfAndAncestors(n) ==
  {a \in 1 .. n : \A set \in SUBSET (1 .. n) : n \in set /\ Upward(set) => a \in set}

Depth(n) == Cardinality(SelfAndAncestors(n))

(* A component comes before its subtree, that before its next sibling.     *)
Before(m, n) ==
  \/ m # n /\ m \in SelfAndAncestors(n)
  \/ \E a \in SelfAndAncestors(m), b \in SelfAndAncestors(n) :
       parent[a] = parent[b] /\ a < b

Within  == {n \in Components : Depth(n) <= MaxComponentDepth}
Visited == {found[i] : i \in 1 .. Len(found)}

(* The variables have their types: above all, no depth exceeds the bound.  *)
StatsTypeOK ==
  /\ pending \in Seq([component : Components, depth : 1 .. MaxComponentDepth])
  /\ found \in Seq(Components)
  /\ truncated \in BOOLEAN
  /\ stats \in [total : Nat, of : [AssetTypes -> Nat]]
  /\ stage \in {"walk", "counted"}

(* The iterative walk visits components in document order, none twice, and *)
(* has none left out: what it has not visited is pending or lies below     *)
(* something pending.                                                      *)
WalkInDocumentOrder ==
  /\ \A i, j \in 1 .. Len(found) : i < j => Before(found[i], found[j])
  /\ \A n \in Within \ Visited : \E i \in 1 .. Len(pending) :
       pending[i].component \in SelfAndAncestors(n)

(* The statistics count exactly the assets down to the bound, and the walk *)
(* says truncated exactly when the document goes deeper, so that counts    *)
(* without the marker are complete.                                        *)
CountsExact ==
  stage = "counted" =>
    /\ stats.total = Cardinality({n \in Within : kind[n] # NotCounted})
    /\ \A t \in AssetTypes :
         stats.of[t] = Cardinality({n \in Within : kind[n] = t})
    /\ truncated <=> Within # Components
=============================================================================
