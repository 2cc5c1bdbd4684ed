------------------------- MODULE CryptoStatsProofs --------------------------
(***************************************************************************)
(* Proofs about CryptoStats for documents of every size and shape and for  *)
(* every bound on the depth: the walk keeps document order, and the counts *)
(* are exact.                                                              *)
(***************************************************************************)
EXTENDS CryptoStats, FiniteSetTheorems, SequenceTheorems, TLAPS

(* The document is a tree, with parents in front of their children.        *)
IsTree ==
  \E size \in 0 .. MaxComponents :
    parent \in Documents(size) /\ kind \in [1 .. size -> Kinds]

Pending(i) == pending[i].component

DepthsAreTrue ==
  \A i \in 1 .. Len(pending) : pending[i].depth = Depth(Pending(i))

(* What lies deeper in the stack is a later sibling of what lies above it, *)
(* or of an ancestor of that.                                              *)
LaterSibling(n, m) ==
  \E a \in SelfAndAncestors(m) : parent[a] = parent[n] /\ a < n

StackInOrder ==
  \A i, j \in 1 .. Len(pending) : i < j => LaterSibling(Pending(i), Pending(j))

(* What was visited comes before what is pending, and with it before all   *)
(* that lies below.                                                        *)
FoundBeforePending ==
  \A i \in 1 .. Len(found), j \in 1 .. Len(pending) : Before(found[i], Pending(j))

TruncatedExactly ==
  truncated <=> \E n \in Visited : AtBound(Depth(n)) /\ Children(n) # {}

WalkInvariant ==
  /\ IsTree /\ StatsTypeOK /\ DepthsAreTrue /\ StackInOrder
  /\ FoundBeforePending /\ WalkInDocumentOrder
  /\ Visited \subseteq Within /\ TruncatedExactly
  /\ CountsExact
-----------------------------------------------------------------------------
(* Components are numbered, and a parent has a smaller number or is 0.     *)
LEMMA TreeFacts ==
  ASSUME IsTree
  PROVE  /\ IsFiniteSet(Components) /\ Components \subseteq Nat \ {0}
         /\ \A n \in Components : /\ 1 .. n \subseteq Components
                                  /\ parent[n] = 0 \/ parent[n] \in Components
                                  /\ parent[n] \in 0 .. n - 1
                                  /\ kind[n] \in Kinds
<1>1. PICK size \in 0 .. MaxComponents :
        parent \in Documents(size) /\ kind \in [1 .. size -> Kinds]
  BY DEF IsTree
<1>2. Components = 1 .. size /\ size \in Nat
  BY <1>1, StatsAssumption DEF Components, Documents
<1>3. \A n \in 1 .. size : parent[n] \in 0 .. size /\ parent[n] < n
  BY <1>1 DEF Documents
<1> QED
  BY <1>1, <1>2, <1>3, FS_Interval

(* A component is among its ancestors, in the sense of the reference, and  *)
(* so is the parent of each of them.                                       *)
LEMMA AncestorFacts ==
  ASSUME IsTree, NEW n \in Components
  PROVE  /\ n \in SelfAndAncestors(n) /\ SelfAndAncestors(n) \subseteq 1 .. n
         /\ SelfAndAncestors(n) \subseteq Components
         /\ Upward(SelfAndAncestors(n)) /\ IsFiniteSet(SelfAndAncestors(n))
<1>1. n \in Nat \ {0} /\ 1 .. n \subseteq Components
  BY TreeFacts
<1>2. n \in SelfAndAncestors(n) /\ SelfAndAncestors(n) \subseteq 1 .. n
  BY <1>1 DEF SelfAndAncestors
<1>3. ASSUME NEW a \in SelfAndAncestors(n), parent[a] # 0
      PROVE  parent[a] \in SelfAndAncestors(n)
  <2>1. a \in 1 .. n /\ a \in Components
    BY <1>1, <1>2
  <2>2. parent[a] \in 0 .. a - 1
    BY <2>1, TreeFacts
  <2>3. parent[a] \in 1 .. n
    BY <1>1, <1>3, <2>1, <2>2
  <2>4. ASSUME NEW set \in SUBSET (1 .. n), n \in set, Upward(set)
        PROVE  parent[a] \in set
    <3>1. a \in set
      BY <2>4 DEF SelfAndAncestors
    <3> QED
      BY <1>3, <2>4, <3>1 DEF Upward
  <2> QED
    BY <2>3, <2>4 DEF SelfAndAncestors
<1>4. IsFiniteSet(SelfAndAncestors(n))
  <2>1. IsFiniteSet(1 .. n)
    BY <1>1, FS_Interval
  <2> QED
    BY <1>2, <2>1, FS_Subset
<1> QED
  BY <1>1, <1>2, <1>3, <1>4 DEF Upward

(* The principle of induction that the reference definition brings along.  *)
LEMMA AncestorsWithin ==
  ASSUME IsTree, NEW n \in Components, NEW set, n \in set, Upward(set)
  PROVE  SelfAndAncestors(n) \subseteq set
<1> DEFINE part == set \cap 1 .. n
<1>1. n \in Nat \ {0} /\ 1 .. n \subseteq Components
  BY TreeFacts
<1>2. part \in SUBSET (1 .. n) /\ n \in part
  BY <1>1
<1>3. Upward(part)
  <2> SUFFICES ASSUME NEW m \in part, parent[m] # 0 PROVE parent[m] \in part
    BY DEF Upward
  <2>1. parent[m] \in set
    BY DEF Upward
  <2>2. parent[m] \in 0 .. m - 1 /\ m \in 1 .. n
    BY <1>1, TreeFacts
  <2> QED
    BY <1>1, <2>1, <2>2
<1> QED
  BY <1>2, <1>3 DEF SelfAndAncestors

LEMMA AncestorsTransitive ==
  ASSUME IsTree, NEW n \in Components, NEW m \in SelfAndAncestors(n)
  PROVE  m \in Components /\ SelfAndAncestors(m) \subseteq SelfAndAncestors(n)
BY AncestorFacts, AncestorsWithin

(* What a component adds to the ancestors of its parent is itself.         *)
LEMMA AncestorsOfChild ==
  ASSUME IsTree, NEW n \in Components
  PROVE  /\ parent[n] = 0 => SelfAndAncestors(n) = {n}
         /\ parent[n] # 0 => SelfAndAncestors(n) = SelfAndAncestors(parent[n]) \cup {n}
<1>1. CASE parent[n] = 0
  BY <1>1, AncestorFacts, AncestorsWithin DEF Upward
<1>2. CASE parent[n] # 0
  <2>1. parent[n] \in Components /\ parent[n] \in SelfAndAncestors(n)
    BY <1>2, TreeFacts, AncestorFacts DEF Upward
  <2>2. SelfAndAncestors(parent[n]) \cup {n} \subseteq SelfAndAncestors(n)
    BY <2>1, AncestorFacts, AncestorsTransitive
  <2>3. Upward(SelfAndAncestors(parent[n]) \cup {n})
    BY <2>1, AncestorFacts DEF Upward
  <2> QED
    BY <1>2, <2>2, <2>3, AncestorsWithin
<1> QED
  BY <1>1, <1>2

(* Depths count from 1, one level at a time.                               *)
LEMMA DepthFacts ==
  ASSUME IsTree, NEW n \in Components
  PROVE  /\ Depth(n) \in Nat \ {0}
         /\ parent[n] = 0 => Depth(n) = 1
         /\ parent[n] # 0 => Depth(n) = Depth(parent[n]) + 1
         /\ \A m \in SelfAndAncestors(n) : Depth(m) <= Depth(n)
<1>1. IsFiniteSet(SelfAndAncestors(n)) /\ n \in SelfAndAncestors(n)
  BY AncestorFacts
<1>2. Depth(n) \in Nat \ {0}
  BY <1>1, FS_CardinalityType, FS_EmptySet DEF Depth
<1>3. parent[n] = 0 => Depth(n) = 1
  BY AncestorsOfChild, FS_Singleton DEF Depth
<1>4. ASSUME parent[n] # 0 PROVE Depth(n) = Depth(parent[n]) + 1
  <2>1. parent[n] \in Components /\ parent[n] \in 0 .. n - 1 /\ n \in Nat
    BY <1>4, TreeFacts
  <2>2. IsFiniteSet(SelfAndAncestors(parent[n])) /\ n \notin SelfAndAncestors(parent[n])
    BY <2>1, AncestorFacts
  <2> QED
    BY <1>4, <2>2, AncestorsOfChild, FS_AddElement DEF Depth
<1>5. ASSUME NEW m \in SelfAndAncestors(n) PROVE Depth(m) <= Depth(n)
  BY <1>1, AncestorsTransitive, FS_Subset DEF Depth
<1> QED
  BY <1>2, <1>3, <1>4, <1>5

(* On the way up from n to an ancestor there is a child of the ancestor.   *)
LEMMA ChildOnPath ==
  ASSUME IsTree, NEW n \in Components, NEW m \in SelfAndAncestors(n), m # n
  PROVE  \E c \in Children(m) : c \in SelfAndAncestors(n)
<1> SUFFICES ASSUME \A c \in SelfAndAncestors(n) : parent[c] # m PROVE FALSE
  BY AncestorFacts DEF Children
<1>1. Upward(SelfAndAncestors(n) \ {m})
  BY AncestorFacts DEF Upward
<1>2. SelfAndAncestors(n) \subseteq SelfAndAncestors(n) \ {m}
  BY <1>1, AncestorFacts, AncestorsWithin
<1> QED
  BY <1>2
-----------------------------------------------------------------------------
(* Nth enumerates a finite set of numbers in ascending order.              *)
Rank(set, n) == Cardinality({m \in set : m < n})

LEMMA RankGrows ==
  ASSUME NEW set \in SUBSET Nat, IsFiniteSet(set), NEW n \in set
  PROVE  /\ Rank(set, n) \in 0 .. Cardinality(set) - 1
         /\ \A m \in set : m < n => Rank(set, m) < Rank(set, n)
<1> DEFINE below(k) == {m \in set : m < k}
<1>1. \A k \in set : IsFiniteSet(below(k)) /\ Cardinality(below(k)) \in Nat
  BY FS_Subset, FS_CardinalityType
<1>2. Cardinality(set) \in Nat
  BY FS_CardinalityType
<1>3. ASSUME NEW S, NEW T, IsFiniteSet(T), S \subseteq T, NEW x \in T, x \notin S
      PROVE  Cardinality(S) < Cardinality(T)
  <2>1. IsFiniteSet(S) /\ Cardinality(S) <= Cardinality(T)
        /\ (Cardinality(S) = Cardinality(T) => S = T)
    BY <1>3, FS_Subset
  <2>2. Cardinality(S) \in Nat /\ Cardinality(T) \in Nat
    BY <1>3, <2>1, FS_CardinalityType
  <2> QED
    BY <1>3, <2>1, <2>2
<1>4. Cardinality(below(n)) < Cardinality(set)
  <2>1. below(n) \subseteq set /\ n \notin below(n)
    OBVIOUS
  <2> HIDE DEF below
  <2> QED
    BY <1>3, <2>1
<1>5. ASSUME NEW m \in set, m < n PROVE Cardinality(below(m)) < Cardinality(below(n))
  <2>1. below(m) \subseteq below(n) /\ m \in below(n) /\ m \notin below(m)
    <3>1. m \in Nat /\ n \in Nat /\ \A k \in set : k \in Nat
      OBVIOUS
    <3>2. ~ (m < m) /\ \A k \in set : k < m => k < n
      BY <1>5, <3>1
    <3> QED
      BY <1>5, <3>2
  <2> HIDE DEF below
  <2> QED
    BY <1>1, <1>3, <2>1
<1> QED
  BY <1>1, <1>2, <1>4, <1>5 DEF Rank

LEMMA NthFacts ==
  ASSUME NEW set \in SUBSET Nat, IsFiniteSet(set)
  PROVE  /\ Cardinality(set) \in Nat
         /\ \A k \in 1 .. Cardinality(set) : Nth(set, k) \in set
         /\ \A j, k \in 1 .. Cardinality(set) : j < k => Nth(set, j) < Nth(set, k)
         /\ \A n \in set : \E k \in 1 .. Cardinality(set) : Nth(set, k) = n
<1> DEFINE size == Cardinality(set)
           rank == [n \in set |-> Rank(set, n)]
<1>1. size \in Nat
  BY FS_CardinalityType
<1>2. IsFiniteSet(0 .. size - 1) /\ Cardinality(0 .. size - 1) = size
  <2> HIDE DEF size
  <2>1. 0 \in Int /\ size - 1 \in Int /\ (0 > size - 1 => size = 0)
    BY <1>1
  <2>2. /\ IsFiniteSet(0 .. size - 1)
        /\ Cardinality(0 .. size - 1) = IF 0 > size - 1 THEN 0 ELSE size - 1 - 0 + 1
    BY <2>1, FS_Interval
  <2> QED
    BY <1>1, <2>1, <2>2
<1>3. \A m, n \in set : Rank(set, m) = Rank(set, n) => m = n
  <2> SUFFICES ASSUME NEW m \in set, NEW n \in set, Rank(set, m) = Rank(set, n), m # n
               PROVE  FALSE
    OBVIOUS
  <2>1. m < n \/ n < m
    OBVIOUS
  <2>2. Rank(set, m) \in Int /\ Rank(set, n) \in Int
    BY RankGrows
  <2> QED
    BY <2>1, <2>2, RankGrows
<1>4. rank \in Injection(set, 0 .. size - 1)
  <2>1. rank \in [set -> 0 .. size - 1]
    BY RankGrows
  <2> QED
    BY <1>3, <2>1 DEF Injection, IsInjective
<1>5. rank \in Surjection(set, 0 .. size - 1)
  <2> HIDE DEF rank, size
  <2>1. Cardinality(set) = Cardinality(0 .. size - 1)
    BY <1>2 DEF size
  <2> QED
    BY <1>2, <1>4, <2>1, FS_Injection
<1>6. ASSUME NEW k \in 1 .. size
      PROVE  Nth(set, k) \in set /\ Rank(set, Nth(set, k)) = k - 1
  <2>1. k - 1 \in 0 .. size - 1
    BY <1>1
  <2>2. \E n \in set : Rank(set, n) = k - 1
    BY <1>5, <2>1 DEF Surjection
  <2> QED
    BY <2>2 DEF Nth, Rank
<1>7. ASSUME NEW j \in 1 .. size, NEW k \in 1 .. size, j < k
      PROVE  Nth(set, j) < Nth(set, k)
  <2>1. /\ Nth(set, j) \in set /\ Nth(set, k) \in set
        /\ Rank(set, Nth(set, j)) = j - 1 /\ Rank(set, Nth(set, k)) = k - 1
    BY <1>6
  <2>2. Rank(set, Nth(set, j)) < Rank(set, Nth(set, k))
    BY <1>1, <1>7, <2>1
  <2> DEFINE a == Nth(set, j)
             b == Nth(set, k)
  <2> HIDE DEF a, b
  <2>3. a \in set /\ b \in set /\ Rank(set, a) < Rank(set, b)
    BY <2>1, <2>2 DEF a, b
  <2>4. /\ a \in Nat /\ b \in Nat /\ Rank(set, a) \in Int /\ Rank(set, b) \in Int
        /\ b < a => Rank(set, b) < Rank(set, a)
    BY <2>3, RankGrows
  <2>5. a < b
    BY <2>3, <2>4
  <2> QED
    BY <2>5 DEF a, b
<1>8. ASSUME NEW n \in set PROVE \E k \in 1 .. size : Nth(set, k) = n
  <2>1. Rank(set, n) \in 0 .. size - 1
    BY RankGrows
  <2>2. Rank(set, n) + 1 \in 1 .. size /\ (Rank(set, n) + 1) - 1 = Rank(set, n)
    BY <1>1, <2>1
  <2>3. Nth(set, Rank(set, n) + 1) = n
    BY <1>3, <1>6, <2>2
  <2> QED
    BY <2>2, <2>3
<1> QED
  BY <1>1, <1>6, <1>7, <1>8

(* A set of components has a first one.                                    *)
LEMMA FirstOf ==
  ASSUME IsTree, NEW set \in SUBSET Components, set # {}
  PROVE  \E n \in set : \A m \in set : ~ (m < n)
<1>1. set \in SUBSET Nat /\ IsFiniteSet(set)
  BY TreeFacts, FS_Subset
<1>2. 1 \in 1 .. Cardinality(set)
  BY <1>1, FS_CardinalityType, FS_EmptySet
<1>3. Nth(set, 1) \in set
  BY <1>1, <1>2, NthFacts
<1>4. ASSUME NEW m \in set, m < Nth(set, 1) PROVE FALSE
  <2>1. PICK k \in 1 .. Cardinality(set) : Nth(set, k) = m
    BY <1>1, NthFacts
  <2>2. k = 1 \/ 1 < k
    BY <2>1
  <2>3. k # 1
    BY <1>1, <1>3, <1>4, <2>1
  <2>4. Nth(set, 1) < m
    BY <1>1, <1>2, <2>1, <2>2, <2>3, NthFacts
  <2>5. m \in Nat /\ Nth(set, 1) \in Nat
    BY <1>1, <1>3
  <2> HIDE DEF Nth
  <2> QED
    BY <1>4, <2>4, <2>5
<1> QED
  BY <1>3, <1>4

(* Every component lies below a top level one.                             *)
LEMMA RootOnPath ==
  ASSUME IsTree, NEW n \in Components
  PROVE  \E c \in Children(0) : c \in SelfAndAncestors(n)
<1>1. SelfAndAncestors(n) \in SUBSET Components /\ SelfAndAncestors(n) # {}
  BY AncestorFacts
<1>2. PICK c \in SelfAndAncestors(n) : \A m \in SelfAndAncestors(n) : ~ (m < c)
  BY <1>1, FirstOf
<1>3. c \in Components /\ c \in Nat /\ parent[c] \in 0 .. c - 1
  BY <1>1, <1>2, TreeFacts
<1>4. parent[c] \notin SelfAndAncestors(n)
  BY <1>2, <1>3
<1>5. parent[c] = 0
  BY <1>2, <1>4, AncestorFacts DEF Upward
<1> QED
  BY <1>2, <1>3, <1>5 DEF Children
-----------------------------------------------------------------------------
(* The ancestors of a component are a chain, so no two are siblings.       *)
LEMMA AncestorsInLine ==
  ASSUME IsTree, NEW n \in Components,
         NEW a \in SelfAndAncestors(n), NEW b \in SelfAndAncestors(n)
  PROVE  a \in SelfAndAncestors(b) \/ b \in SelfAndAncestors(a)
<1> DEFINE inLine == {x \in SelfAndAncestors(n) : \A y \in SelfAndAncestors(n) :
                        x \in SelfAndAncestors(y) \/ y \in SelfAndAncestors(x)}
<1>1. n \in inLine
  BY AncestorFacts
<1>2. ASSUME NEW x \in inLine, parent[x] # 0 PROVE parent[x] \in inLine
  <2>1. x \in Components /\ parent[x] \in SelfAndAncestors(n)
    BY <1>2, AncestorFacts DEF Upward
  <2>2. parent[x] \in SelfAndAncestors(x)
    BY <1>2, <2>1, AncestorFacts DEF Upward
  <2>3. SelfAndAncestors(x) = SelfAndAncestors(parent[x]) \cup {x}
    BY <1>2, <2>1, AncestorsOfChild
  <2>4. ASSUME NEW y \in SelfAndAncestors(n)
        PROVE  parent[x] \in SelfAndAncestors(y) \/ y \in SelfAndAncestors(parent[x])
    <3>1. y \in Components
      BY AncestorFacts
    <3>2. CASE x \in SelfAndAncestors(y)
      BY <1>2, <3>1, <3>2, AncestorFacts DEF Upward
    <3>3. CASE y \in SelfAndAncestors(x)
      BY <2>2, <2>3, <3>3
    <3> QED
      BY <3>2, <3>3
  <2> QED
    BY <2>1, <2>4
<1>3. Upward(inLine)
  BY <1>2 DEF Upward
<1>4. SelfAndAncestors(n) \subseteq inLine
  <2> HIDE DEF inLine
  <2> QED
    BY <1>1, <1>3, AncestorsWithin
<1> QED
  BY <1>4

LEMMA NotBeforeItself ==
  ASSUME IsTree, NEW n \in Components
  PROVE  ~ Before(n, n)
<1> SUFFICES ASSUME NEW a \in SelfAndAncestors(n), NEW b \in SelfAndAncestors(n),
                    parent[a] = parent[b], a < b
             PROVE  FALSE
  BY DEF Before
<1>1. a \in Components /\ b \in Components /\ a \in Nat /\ b \in Nat
  BY AncestorFacts, TreeFacts
<1>2. b \notin SelfAndAncestors(a) /\ a # b
  BY <1>1, AncestorFacts
<1>3. a \in SelfAndAncestors(b)
  BY <1>2, AncestorsInLine
<1>4. parent[b] # 0 /\ a \in SelfAndAncestors(parent[b])
  BY <1>1, <1>2, <1>3, AncestorsOfChild
<1>5. parent[b] \in Components /\ parent[b] \in 0 .. a - 1
  BY <1>1, <1>4, TreeFacts
<1>6. a \in 1 .. parent[b]
  BY <1>4, <1>5, AncestorFacts
<1> QED
  BY <1>1, <1>5, <1>6

(* What comes before a component comes before its subtree.                 *)
LEMMA BeforeBelow ==
  ASSUME IsTree, NEW n \in Components, NEW p \in SelfAndAncestors(n),
         NEW m \in Components, Before(m, p)
  PROVE  Before(m, n)
<1>1. p \in Components /\ SelfAndAncestors(p) \subseteq SelfAndAncestors(n)
  BY AncestorsTransitive
<1>2. CASE m # p /\ m \in SelfAndAncestors(p)
  <2>1. m \in 1 .. p /\ p \in 1 .. n /\ n \in Nat
    BY <1>1, <1>2, AncestorFacts, TreeFacts
  <2>2. m # n
    BY <1>2, <2>1
  <2> QED
    BY <1>1, <1>2, <2>2 DEF Before
<1>3. CASE \E a \in SelfAndAncestors(m), b \in SelfAndAncestors(p) :
             parent[a] = parent[b] /\ a < b
  BY <1>1, <1>3 DEF Before
<1> QED
  BY <1>2, <1>3 DEF Before

(* A child: one level deeper, with its parent above it.                    *)
LEMMA ChildFacts ==
  ASSUME IsTree, NEW n \in Components, NEW c \in Children(n)
  PROVE  /\ c \in Components /\ parent[c] = n /\ c # n
         /\ n \in SelfAndAncestors(c) /\ Depth(c) = Depth(n) + 1
<1>1. c \in Components /\ parent[c] = n /\ n # 0 /\ n \in Nat
  BY TreeFacts DEF Children
<1>2. parent[c] \in 0 .. c - 1 /\ c \in Nat
  BY <1>1, TreeFacts
<1>3. n \in SelfAndAncestors(c)
  BY <1>1, AncestorFacts DEF Upward
<1> QED
  BY <1>1, <1>2, <1>3, DepthFacts

(* pushChildren leaves the stack as it was and puts all children on top,   *)
(* the first of them last.                                                 *)
Frames == [component : Components, depth : 1 .. MaxComponentDepth]

PushedOnto(new, stack, n, depth) ==
  /\ new \in Seq(Frames)
  /\ Len(new) \in Nat /\ Len(stack) \in Nat /\ Len(stack) <= Len(new)
  /\ \A i \in 1 .. Len(stack) : new[i] = stack[i]
  /\ \A i \in Len(stack) + 1 .. Len(new) :
       new[i].component \in Children(n) /\ new[i].depth = depth
  /\ \A i, j \in Len(stack) + 1 .. Len(new) : i < j => new[j].component < new[i].component
  /\ \A c \in Children(n) : \E i \in Len(stack) + 1 .. Len(new) : new[i].component = c

LEMMA PushedFacts ==
  ASSUME IsTree, NEW stack \in Seq(Frames), NEW n,
         NEW depth \in 1 .. MaxComponentDepth, NEW new, new = Pushed(stack, n, depth)
  PROVE  PushedOnto(new, stack, n, depth)
<1> DEFINE size == Cardinality(Children(n))
           top  == [k \in 1 .. size |-> Frame(Nth(Children(n), size + 1 - k), depth)]
<1>1. Children(n) \in SUBSET Nat /\ IsFiniteSet(Children(n)) /\ Children(n) \subseteq Components
  BY TreeFacts, FS_Subset DEF Children
<1>2. /\ size \in Nat
      /\ \A k \in 1 .. size : Nth(Children(n), k) \in Children(n)
      /\ \A j, k \in 1 .. size : j < k => Nth(Children(n), j) < Nth(Children(n), k)
      /\ \A c \in Children(n) : \E k \in 1 .. size : Nth(Children(n), k) = c
  <2> HIDE DEF Nth
  <2> QED
    BY <1>1, NthFacts
<1> HIDE DEF size
<1>3. \A k \in 1 .. size : size + 1 - k \in 1 .. size
  BY <1>2
<1>4. top \in Seq(Frames) /\ Len(top) = size
  BY <1>1, <1>2, <1>3 DEF Frame, Frames
<1>5. \A k \in 1 .. size : /\ top[k].component = Nth(Children(n), size + 1 - k)
                           /\ top[k].depth = depth
  BY DEF Frame
<1>6. new = stack \o top
  BY DEF Pushed, size
<1> HIDE DEF top
<1>7. /\ new \in Seq(Frames)
      /\ Len(stack) \in Nat /\ Len(new) = Len(stack) + size
      /\ \A i \in 1 .. Len(stack) : new[i] = stack[i]
      /\ \A k \in 1 .. size : new[Len(stack) + k] = top[k]
  <2>1. stack \o top \in Seq(Frames) /\ Len(stack \o top) = Len(stack) + Len(top)
    BY <1>4, ConcatProperties, Zenon
  <2>2. Len(stack) \in Nat
    OBVIOUS
  <2>3. \A i \in 1 .. Len(stack) : new[i] = stack[i]
    BY <1>2, <1>4, <1>6
  <2>4. \A k \in 1 .. size : new[Len(stack) + k] = top[k]
    BY <1>2, <1>4, <1>6
  <2> QED
    BY <1>4, <1>6, <2>1, <2>2, <2>3, <2>4
<1>8. ASSUME NEW i \in Len(stack) + 1 .. Len(new)
      PROVE  \E k \in 1 .. size : /\ i = Len(stack) + size + 1 - k
                                  /\ new[i].component = Nth(Children(n), k)
                                  /\ new[i].depth = depth
  <2> DEFINE l == i - Len(stack)
  <2>1. l \in 1 .. size /\ i = Len(stack) + l
    BY <1>2, <1>7
  <2> HIDE DEF l
  <2>2. size + 1 - l \in 1 .. size /\ i = Len(stack) + size + 1 - (size + 1 - l)
    BY <1>2, <1>7, <2>1
  <2>3. new[i] = top[l]
    BY <1>7, <2>1
  <2> QED
    BY <1>5, <2>1, <2>2, <2>3
<1>9. ASSUME NEW i \in Len(stack) + 1 .. Len(new)
      PROVE  new[i].component \in Children(n) /\ new[i].depth = depth
  BY <1>2, <1>8
<1>10. ASSUME NEW i \in Len(stack) + 1 .. Len(new), NEW j \in Len(stack) + 1 .. Len(new), i < j
       PROVE  new[j].component < new[i].component
  <2>1. PICK k \in 1 .. size :
          i = Len(stack) + size + 1 - k /\ new[i].component = Nth(Children(n), k)
    BY <1>8
  <2>2. PICK l \in 1 .. size :
          j = Len(stack) + size + 1 - l /\ new[j].component = Nth(Children(n), l)
    BY <1>8
  <2>3. l < k
    BY <1>2, <1>7, <1>10, <2>1, <2>2
  <2> QED
    BY <1>2, <2>1, <2>2, <2>3
<1>11. ASSUME NEW c \in Children(n)
       PROVE  \E i \in Len(stack) + 1 .. Len(new) : new[i].component = c
  <2>1. PICK k \in 1 .. size : Nth(Children(n), k) = c
    BY <1>2
  <2> DEFINE l == size + 1 - k
  <2>2. l \in 1 .. size /\ size + 1 - l = k
    BY <1>2
  <2>3. top[l].component = c
    BY <1>5, <2>1, <2>2
  <2> HIDE DEF l
  <2>4. Len(stack) + l \in Len(stack) + 1 .. Len(new) /\ new[Len(stack) + l].component = c
    BY <1>2, <1>7, <2>2, <2>3
  <2> QED
    BY <2>4
<1> QED
  BY <1>2, <1>7, <1>9, <1>10, <1>11 DEF PushedOnto
-----------------------------------------------------------------------------
(* A step leaves the document alone, so the reference stays what it was.   *)
LEMMA ReferenceStays ==
  ASSUME StatsNext \/ UNCHANGED statsVars
  PROVE  /\ parent' = parent /\ kind' = kind /\ Components' = Components
         /\ \A n : SelfAndAncestors(n)' = SelfAndAncestors(n)
         /\ \A n : Depth(n)' = Depth(n) /\ Children(n)' = Children(n)
         /\ \A m, n : Before(m, n)' = Before(m, n)
         /\ \A m, n : LaterSibling(m, n)' = LaterSibling(m, n)
         /\ Within' = Within /\ IsTree' = IsTree
<1>1. parent' = parent /\ kind' = kind
  BY DEF StatsNext, Visit, Count, statsVars
<1>2. \A n : SelfAndAncestors(n)' = SelfAndAncestors(n)
  BY <1>1 DEF SelfAndAncestors, Upward
<1>3. Components' = Components
  BY <1>1 DEF Components
<1>4. \A n : Depth(n)' = Depth(n) /\ Children(n)' = Children(n)
  BY <1>1, <1>2, <1>3 DEF Depth, Children
<1>5. \A m, n : Before(m, n)' = Before(m, n)
  BY <1>1, <1>2 DEF Before
<1>6. \A m, n : LaterSibling(m, n)' = LaterSibling(m, n)
  BY <1>1, <1>2 DEF LaterSibling
<1>7. Within' = Within
  BY <1>3, <1>4 DEF Within
<1>8. IsTree' = IsTree
  BY <1>1 DEF IsTree
<1> QED
  BY <1>1, <1>2, <1>3, <1>4, <1>5, <1>6, <1>7, <1>8

(* The walk starts with the top level, and below it lies everything.       *)
LEMMA WalkStarts ==
  ASSUME StatsInit
  PROVE  WalkInvariant
<1>1. IsTree /\ found = <<>> /\ truncated = FALSE /\ stage = "walk"
      /\ pending = Pushed(<<>>, 0, 1) /\ stats = [total |-> 0, of |-> [t \in AssetTypes |-> 0]]
  BY DEF StatsInit, IsTree
<1>2. <<>> \in Seq(Frames) /\ 1 \in 1 .. MaxComponentDepth /\ Len(<<>>) = 0
  BY StatsAssumption
<1>3. /\ pending \in Seq(Frames) /\ Len(pending) \in Nat
      /\ \A i \in 1 .. Len(pending) : Pending(i) \in Children(0) /\ pending[i].depth = 1
      /\ \A i, j \in 1 .. Len(pending) : i < j => Pending(j) < Pending(i)
      /\ \A c \in Children(0) : \E i \in 1 .. Len(pending) : Pending(i) = c
  <2> DEFINE none == <<>>
  <2>1. /\ pending = Pushed(none, 0, 1)
        /\ none \in Seq(Frames) /\ Len(none) = 0
    BY <1>1, <1>2
  <2> HIDE DEF none
  <2>2. PushedOnto(pending, none, 0, 1)
    BY <1>1, <1>2, <2>1, PushedFacts
  <2> QED
    BY <2>1, <2>2 DEF PushedOnto, Pending
<1>4. Visited = {} /\ Len(found) = 0
  BY <1>1 DEF Visited
<1>5. StatsTypeOK
  <2>1. stats \in [total : Nat, of : [AssetTypes -> Nat]]
    BY <1>1
  <2>2. found \in Seq(Components) /\ stage \in {"walk", "counted"}
    BY <1>1
  <2>3. truncated \in BOOLEAN
    BY <1>1, Zenon
  <2> QED
    BY <1>3, <2>1, <2>2, <2>3 DEF StatsTypeOK, Frames
<1>6. \A i \in 1 .. Len(pending) : Pending(i) \in Components /\ parent[Pending(i)] = 0
  BY <1>3 DEF Children
<1>7. DepthsAreTrue
  BY <1>1, <1>3, <1>6, DepthFacts DEF DepthsAreTrue
<1>8. StackInOrder
  <2> SUFFICES ASSUME NEW i \in 1 .. Len(pending), NEW j \in 1 .. Len(pending), i < j
               PROVE  LaterSibling(Pending(i), Pending(j))
    BY DEF StackInOrder
  <2>1. Pending(j) \in SelfAndAncestors(Pending(j)) /\ Pending(j) < Pending(i)
    BY <1>1, <1>3, <1>6, AncestorFacts
  <2> QED
    BY <1>6, <2>1 DEF LaterSibling
<1>9. FoundBeforePending
  BY <1>4 DEF FoundBeforePending
<1>10. WalkInDocumentOrder
  <2>1. ASSUME NEW n \in Within
        PROVE  \E i \in 1 .. Len(pending) : pending[i].component \in SelfAndAncestors(n)
    <3>1. PICK c \in Children(0) : c \in SelfAndAncestors(n)
      BY <1>1, RootOnPath DEF Within
    <3> QED
      BY <1>3, <3>1 DEF Pending
  <2> QED
    BY <1>4, <2>1 DEF WalkInDocumentOrder
<1>11. TruncatedExactly /\ CountsExact
  BY <1>1, <1>4 DEF TruncatedExactly, CountsExact
<1> QED
  BY <1>1, <1>4, <1>5, <1>7, <1>8, <1>9, <1>10, <1>11 DEF WalkInvariant

(* Visit takes the top component off the stack, and puts its children      *)
(* there unless it is at the bound.                                        *)
Below == Len(pending) - 1
Last  == Pending(Len(pending))

LEMMA VisitFacts ==
  ASSUME WalkInvariant, Visit
  PROVE  /\ Len(pending) \in 1 .. Len(pending) /\ Below \in Nat /\ Below + 1 = Len(pending)
         /\ Last \in Within /\ Last \in Components /\ Depth(Last) = Top.depth
         /\ found' = Append(found, Last)
         /\ pending' \in Seq(Frames) /\ Len(pending') \in Nat /\ Below <= Len(pending')
         /\ \A i \in 1 .. Below : pending'[i] = pending[i]
         /\ AtBound(Depth(Last)) => Len(pending') = Below
         /\ AtBound(Depth(Last)) => truncated' = (truncated \/ Children(Last) # {})
         /\ ~ AtBound(Depth(Last)) => PushedOnto(pending', Rest, Last, Depth(Last) + 1)
         /\ ~ AtBound(Depth(Last)) => truncated' = truncated
         /\ Len(Rest) = Below
<1>1. pending \in Seq(Frames) /\ pending # <<>> /\ IsTree /\ DepthsAreTrue
  BY DEF WalkInvariant, StatsTypeOK, Frames, Visit
<1>2. Len(pending) \in 1 .. Len(pending) /\ Below \in Nat /\ Below + 1 = Len(pending)
  BY <1>1 DEF Below
<1>3. /\ pending[Len(pending)] \in Frames /\ Top = pending[Len(pending)]
      /\ Last = Top.component
  BY <1>1, <1>2 DEF Top, Last, Pending
<1>4. Last \in Components /\ Top.depth \in 1 .. MaxComponentDepth /\ Depth(Last) = Top.depth
  BY <1>1, <1>2, <1>3 DEF Frames, DepthsAreTrue, Last
<1>5. Last \in Within
  BY <1>4, StatsAssumption DEF Within
<1>6. Rest \in Seq(Frames) /\ Len(Rest) = Below /\ \A i \in 1 .. Below : Rest[i] = pending[i]
  BY <1>1, <1>2 DEF Rest, Below
<1>7. found' = Append(found, Last)
  BY <1>3 DEF Visit
<1>8. CASE AtBound(Depth(Last))
  <2>1. pending' = Rest /\ truncated' = (truncated \/ Children(Last) # {})
    BY <1>3, <1>4, <1>8 DEF Visit
  <2> QED
    BY <1>2, <1>4, <1>5, <1>6, <1>7, <1>8, <2>1
<1>9. CASE ~ AtBound(Depth(Last))
  <2>1. pending' = Pushed(Rest, Last, Depth(Last) + 1) /\ truncated' = truncated
    BY <1>3, <1>4, <1>9 DEF Visit, ChildDepth
  <2>2. Depth(Last) + 1 \in 1 .. MaxComponentDepth
    BY <1>4, <1>9, StatsAssumption DEF AtBound
  <2>3. PushedOnto(pending', Rest, Last, Depth(Last) + 1)
    BY <1>1, <1>6, <2>1, <2>2, PushedFacts
  <2> QED
    BY <1>2, <1>4, <1>5, <1>6, <1>7, <1>9, <2>1, <2>3 DEF PushedOnto
<1> QED
  BY <1>8, <1>9

(* What Visit has put on the stack are the children of what it visited.    *)
LEMMA NewFrames ==
  ASSUME WalkInvariant, Visit, NEW i \in 1 .. Len(pending'), ~ (i \in 1 .. Below)
  PROVE  /\ i \in Below + 1 .. Len(pending')
         /\ pending'[i].component \in Children(Last)
         /\ pending'[i].component \in Components
         /\ Last \in SelfAndAncestors(pending'[i].component)
         /\ Last # pending'[i].component
         /\ pending'[i].depth = Depth(pending'[i].component)
<1>1. i \in Below + 1 .. Len(pending')
  BY VisitFacts
<1>2. ~ AtBound(Depth(Last))
  BY <1>1, VisitFacts
<1>3. pending'[i].component \in Children(Last) /\ pending'[i].depth = Depth(Last) + 1
  BY <1>1, <1>2, VisitFacts DEF PushedOnto
<1> QED
  BY <1>1, <1>3, VisitFacts, ChildFacts DEF WalkInvariant

LEMMA OldFrames ==
  ASSUME WalkInvariant, Visit, NEW i \in 1 .. Below
  PROVE  /\ i \in 1 .. Len(pending) /\ i \in 1 .. Len(pending') /\ i < Len(pending)
         /\ pending'[i] = pending[i] /\ Pending(i) \in Components
         /\ pending[i].depth = Depth(Pending(i))
         /\ LaterSibling(Pending(i), Last) /\ Before(Last, Pending(i))
<1>1. i \in 1 .. Len(pending) /\ i \in 1 .. Len(pending') /\ i < Len(pending)
      /\ pending'[i] = pending[i] /\ Len(pending) \in 1 .. Len(pending)
  BY VisitFacts
<1>2. pending[i] \in Frames /\ IsTree
  <2>1. pending \in Seq(Frames) /\ IsTree
    BY DEF WalkInvariant, StatsTypeOK, Frames
  <2> QED
    BY <1>1, <2>1
<1>3. Pending(i) \in Components
  BY <1>2 DEF Frames, Pending
<1>4. pending[i].depth = Depth(Pending(i)) /\ LaterSibling(Pending(i), Last)
  BY <1>1 DEF WalkInvariant, DepthsAreTrue, StackInOrder, Last
<1>5. Pending(i) \in SelfAndAncestors(Pending(i))
  BY <1>2, <1>3, AncestorFacts
<1>6. Before(Last, Pending(i))
  BY <1>4, <1>5 DEF Before, LaterSibling
<1> QED
  BY <1>1, <1>3, <1>4, <1>6

LEMMA VisitKeepsStack ==
  ASSUME WalkInvariant, Visit
  PROVE  DepthsAreTrue' /\ StackInOrder'
<1>1. \A n : Depth(n)' = Depth(n)
  BY ReferenceStays DEF StatsNext
<1>2. \A m, n : LaterSibling(m, n)' = LaterSibling(m, n)
  BY ReferenceStays DEF StatsNext
<1>3. IsTree /\ Last \in Components
  BY VisitFacts DEF WalkInvariant
<1>4. ASSUME NEW i \in 1 .. Len(pending')
      PROVE  pending'[i].depth = Depth(pending'[i].component)
  <2>1. CASE i \in 1 .. Below
    BY <2>1, OldFrames DEF Pending
  <2>2. CASE ~ (i \in 1 .. Below)
    BY <2>2, NewFrames
  <2> QED
    BY <2>1, <2>2
<1>5. DepthsAreTrue'
  BY <1>1, <1>4 DEF DepthsAreTrue, Pending
<1>6. ASSUME NEW i \in 1 .. Len(pending'), NEW j \in 1 .. Len(pending'), i < j
      PROVE  LaterSibling(pending'[i].component, pending'[j].component)
  <2>1. CASE i \in 1 .. Below /\ j \in 1 .. Below
    <3>1. LaterSibling(Pending(i), Pending(j))
      BY <1>6, <2>1, OldFrames DEF WalkInvariant, StackInOrder
    <3> QED
      BY <2>1, <3>1, OldFrames DEF Pending
  <2>2. CASE i \in 1 .. Below /\ ~ (j \in 1 .. Below)
    <3>1. LaterSibling(Pending(i), Last) /\ pending'[i].component = Pending(i)
      BY <2>2, OldFrames DEF Pending
    <3>2. /\ pending'[j].component \in Components
          /\ Last \in SelfAndAncestors(pending'[j].component)
      BY <2>2, NewFrames
    <3>3. SelfAndAncestors(Last) \subseteq SelfAndAncestors(pending'[j].component)
      BY <1>3, <3>2, AncestorsTransitive
    <3> QED
      BY <3>1, <3>3 DEF LaterSibling
  <2>3. CASE ~ (i \in 1 .. Below) /\ ~ (j \in 1 .. Below)
    <3>1. /\ i \in Below + 1 .. Len(pending') /\ j \in Below + 1 .. Len(pending')
          /\ parent[pending'[i].component] = Last /\ parent[pending'[j].component] = Last
          /\ pending'[j].component \in Components
      BY <2>3, NewFrames DEF Children
    <3>2. ~ AtBound(Depth(Last))
      BY <3>1, VisitFacts
    <3>3. pending'[j].component < pending'[i].component
      BY <1>6, <3>1, <3>2, VisitFacts DEF PushedOnto
    <3>4. pending'[j].component \in SelfAndAncestors(pending'[j].component)
      BY <1>3, <3>1, AncestorFacts
    <3> QED
      BY <3>1, <3>3, <3>4 DEF LaterSibling
  <2>4. i \in 1 .. Below \/ ~ (j \in 1 .. Below)
    BY <1>6, VisitFacts
  <2> QED
    BY <2>1, <2>2, <2>3, <2>4
<1>7. StackInOrder'
  BY <1>2, <1>6 DEF StackInOrder, Pending
<1> QED
  BY <1>5, <1>7

(* What the walk has found, and the order of it.                           *)
LEMMA FoundFacts ==
  ASSUME WalkInvariant, Visit
  PROVE  /\ Len(found) \in Nat /\ Len(found') = Len(found) + 1
         /\ \A i \in 1 .. Len(found) : found'[i] = found[i] /\ found[i] \in Components
         /\ found'[Len(found) + 1] = Last
         /\ Visited' = Visited \cup {Last}
         /\ found' \in Seq(Components)
<1>1. found \in Seq(Components) /\ found' = Append(found, Last) /\ Last \in Components
  BY VisitFacts DEF WalkInvariant, StatsTypeOK
<1>2. /\ Len(found) \in Nat /\ Len(found') = Len(found) + 1
      /\ \A i \in 1 .. Len(found) : found'[i] = found[i] /\ found[i] \in Components
      /\ found'[Len(found) + 1] = Last /\ found' \in Seq(Components)
  BY <1>1
<1>3. Visited' = Visited \cup {Last}
  <2>1. \A i \in 1 .. Len(found') : i \in 1 .. Len(found) \/ i = Len(found) + 1
    BY <1>2
  <2>2. /\ \A i \in 1 .. Len(found) : i \in 1 .. Len(found')
        /\ Len(found) + 1 \in 1 .. Len(found')
    BY <1>2
  <2>3. \A n \in Visited' : n \in Visited \cup {Last}
    BY <1>2, <2>1 DEF Visited
  <2>4. \A n \in Visited \cup {Last} : n \in Visited'
    BY <1>2, <2>2 DEF Visited
  <2> QED
    BY <2>3, <2>4
<1> QED
  BY <1>2, <1>3

LEMMA VisitKeepsOrder ==
  ASSUME WalkInvariant, Visit
  PROVE  FoundBeforePending' /\ WalkInDocumentOrder'
<1>1. \A m, n : Before(m, n)' = Before(m, n)
  BY ReferenceStays DEF StatsNext
<1>2. Within' = Within /\ \A n : SelfAndAncestors(n)' = SelfAndAncestors(n)
  BY ReferenceStays DEF StatsNext
<1>3. IsTree /\ Last \in Components /\ Last \in Within
  BY VisitFacts DEF WalkInvariant
<1>4. \A i \in 1 .. Len(found') : i \in 1 .. Len(found) \/ i = Len(found) + 1
  BY FoundFacts
<1>5. \A i \in 1 .. Len(found) : Before(found[i], Last)
  BY VisitFacts DEF WalkInvariant, FoundBeforePending, Last
<1>6. ASSUME NEW i \in 1 .. Len(found'), NEW j \in 1 .. Len(pending')
      PROVE  Before(found'[i], pending'[j].component)
  <2>1. CASE j \in 1 .. Below
    <3>1. pending'[j].component = Pending(j) /\ j \in 1 .. Len(pending)
          /\ Before(Last, Pending(j))
      BY <2>1, OldFrames DEF Pending
    <3>2. CASE i \in 1 .. Len(found)
      BY <3>1, <3>2, FoundFacts DEF WalkInvariant, FoundBeforePending
    <3>3. CASE i = Len(found) + 1
      BY <3>1, <3>3, FoundFacts
    <3> QED
      BY <1>4, <3>2, <3>3
  <2>2. CASE ~ (j \in 1 .. Below)
    <3>1. /\ pending'[j].component \in Components /\ Last # pending'[j].component
          /\ Last \in SelfAndAncestors(pending'[j].component)
      BY <2>2, NewFrames
    <3>2. CASE i \in 1 .. Len(found)
      <4>1. found'[i] \in Components /\ Before(found'[i], Last)
        BY <1>5, <3>2, FoundFacts
      <4> QED
        BY <1>3, <3>1, <4>1, BeforeBelow
    <3>3. CASE i = Len(found) + 1
      BY <3>1, <3>3, FoundFacts DEF Before
    <3> QED
      BY <1>4, <3>2, <3>3
  <2> QED
    BY <2>1, <2>2
<1>7. FoundBeforePending'
  BY <1>1, <1>6 DEF FoundBeforePending, Pending
<1>8. ASSUME NEW i \in 1 .. Len(found'), NEW j \in 1 .. Len(found'), i < j
      PROVE  Before(found'[i], found'[j])
  <2>1. i \in 1 .. Len(found) /\ found'[i] = found[i]
    BY <1>4, <1>8, FoundFacts
  <2>2. CASE j \in 1 .. Len(found)
    BY <1>8, <2>1, <2>2, FoundFacts DEF WalkInvariant, WalkInDocumentOrder
  <2>3. CASE j = Len(found) + 1
    BY <1>5, <2>1, <2>3, FoundFacts
  <2> QED
    BY <1>4, <2>2, <2>3
<1>9. ASSUME NEW n \in Within, n \notin Visited, n # Last
      PROVE  \E i \in 1 .. Len(pending') : pending'[i].component \in SelfAndAncestors(n)
  <2>1. n \in Components /\ Depth(n) <= MaxComponentDepth
    BY DEF Within
  <2>2. PICK i \in 1 .. Len(pending) : Pending(i) \in SelfAndAncestors(n)
    BY <1>9 DEF WalkInvariant, WalkInDocumentOrder, Pending
  <2>3. CASE i \in 1 .. Below
    BY <2>2, <2>3, OldFrames DEF Pending
  <2>4. CASE i = Len(pending)
    <3>1. Last \in SelfAndAncestors(n)
      BY <2>2, <2>4 DEF Last
    <3>2. PICK c \in Children(Last) : c \in SelfAndAncestors(n)
      BY <1>3, <1>9, <2>1, <3>1, ChildOnPath
    <3>3. /\ Depth(c) = Depth(Last) + 1 /\ Depth(c) <= Depth(n)
          /\ Depth(Last) \in Nat /\ Depth(n) \in Nat
      BY <1>3, <2>1, <3>2, ChildFacts, DepthFacts
    <3>4. ~ AtBound(Depth(Last))
      BY <2>1, <3>3, StatsAssumption DEF AtBound
    <3>5. PICK k \in Below + 1 .. Len(pending') : pending'[k].component = c
      BY <3>2, <3>4, VisitFacts DEF PushedOnto
    <3>6. k \in 1 .. Len(pending')
      BY <3>5, VisitFacts
    <3> QED
      BY <3>2, <3>5, <3>6
  <2> QED
    BY <2>3, <2>4, VisitFacts
<1>10. WalkInDocumentOrder'
  BY <1>1, <1>2, <1>8, <1>9, FoundFacts DEF WalkInDocumentOrder
<1> QED
  BY <1>7, <1>10

LEMMA VisitKeeps ==
  ASSUME WalkInvariant, Visit
  PROVE  WalkInvariant'
<1>1. IsTree' /\ Within' = Within /\ Components' = Components
      /\ \A n : Depth(n)' = Depth(n) /\ Children(n)' = Children(n)
  BY ReferenceStays DEF StatsNext, WalkInvariant
<1>2. StatsTypeOK'
  <2>1. pending' \in Seq(Frames) /\ found' \in Seq(Components)
    BY VisitFacts, FoundFacts
  <2>2. stats' \in [total : Nat, of : [AssetTypes -> Nat]] /\ stage' \in {"walk", "counted"}
    BY DEF WalkInvariant, StatsTypeOK, Visit
  <2>3. truncated' \in BOOLEAN
    BY Zenon DEF WalkInvariant, StatsTypeOK, Visit
  <2> QED
    BY <1>1, <2>1, <2>2, <2>3 DEF StatsTypeOK, Frames
<1>3. Visited' \subseteq Within'
  BY <1>1, VisitFacts, FoundFacts DEF WalkInvariant
<1>4. TruncatedExactly'
  <2>1. truncated' <=> truncated \/ (AtBound(Depth(Last)) /\ Children(Last) # {})
    <3>1. CASE AtBound(Depth(Last))
      <4>1. truncated' = (truncated \/ Children(Last) # {})
        BY <3>1, VisitFacts, Zenon
      <4>2. CASE truncated \/ Children(Last) # {}
        BY <3>1, <4>1, <4>2, Zenon
      <4>3. CASE ~ (truncated \/ Children(Last) # {})
        BY <3>1, <4>1, <4>3, Zenon
      <4> QED
        BY <4>2, <4>3
    <3>2. CASE ~ AtBound(Depth(Last))
      <4>1. truncated' = truncated
        BY <3>2, VisitFacts, Zenon
      <4> QED
        BY <3>2, <4>1, Zenon
    <3> QED
      BY <3>1, <3>2
  <2>2. truncated <=> \E n \in Visited : AtBound(Depth(n)) /\ Children(n) # {}
    BY DEF WalkInvariant, TruncatedExactly
  <2>3. truncated' <=> \E n \in Visited' : AtBound(Depth(n)) /\ Children(n) # {}
    BY <2>1, <2>2, FoundFacts
  <2> QED
    BY <1>1, <2>3 DEF TruncatedExactly, AtBound
<1>5. CountsExact'
  BY DEF Visit, CountsExact
<1> QED
  BY <1>1, <1>2, <1>3, <1>4, <1>5, VisitKeepsStack, VisitKeepsOrder DEF WalkInvariant
-----------------------------------------------------------------------------
(* When the stack is empty, everything down to the bound was found once.   *)
LEMMA AllIsFound ==
  ASSUME WalkInvariant, Count
  PROVE  /\ Visited = Within /\ Len(found) \in Nat
         /\ \A i \in 1 .. Len(found) : found[i] \in Components
         /\ \A i, j \in 1 .. Len(found) : found[i] = found[j] => i = j
<1>1. found \in Seq(Components) /\ IsTree /\ Visited \subseteq Within
  BY DEF WalkInvariant, StatsTypeOK
<1>2. Len(found) \in Nat /\ \A i \in 1 .. Len(found) : found[i] \in Components
  BY <1>1
<1>3. ~ \E i \in 1 .. Len(pending) : TRUE
  BY DEF Count
<1>4. Within \subseteq Visited
  BY <1>3 DEF WalkInvariant, WalkInDocumentOrder
<1>5. ASSUME NEW i \in 1 .. Len(found), NEW j \in 1 .. Len(found), found[i] = found[j], i # j
      PROVE  FALSE
  <2>1. ~ Before(found[i], found[i])
    BY <1>1, <1>2, NotBeforeItself
  <2>2. \A k, l \in 1 .. Len(found) : k < l => Before(found[k], found[l])
    BY DEF WalkInvariant, WalkInDocumentOrder
  <2>3. i < j \/ j < i
    BY <1>2, <1>5
  <2> QED
    BY <1>5, <2>1, <2>2, <2>3
<1> QED
  BY <1>1, <1>2, <1>4, <1>5

(* So what is counted along the way is what there is of it.                *)
LEMMA CountsAgree ==
  ASSUME WalkInvariant, Count, NEW matching
  PROVE  /\ CountOf(matching) = Cardinality({n \in Within : kind[n] \in matching})
         /\ CountOf(matching) \in Nat
<1> DEFINE places == {i \in 1 .. Len(found) : kind[found[i]] \in matching}
           hits   == {n \in Within : kind[n] \in matching}
           at     == [i \in places |-> found[i]]
<1>1. IsFiniteSet(1 .. Len(found))
  BY AllIsFound, FS_Interval
<1>2. IsFiniteSet(places) /\ Cardinality(places) \in Nat
  BY <1>1, FS_Subset, FS_CardinalityType
<1>3. \A i \in places : found[i] \in hits
  BY AllIsFound DEF Visited
<1>4. \A n \in hits : \E i \in places : found[i] = n
  BY AllIsFound DEF Visited
<1>5. \A i, j \in places : found[i] = found[j] => i = j
  BY AllIsFound
<1>6. CountOf(matching) = Cardinality(places)
  BY DEF CountOf
<1> HIDE DEF places, hits
<1>7. at \in [places -> hits] /\ \A i \in places : at[i] = found[i]
  BY <1>3
<1> HIDE DEF at
<1>8. at \in Injection(places, hits)
  BY <1>5, <1>7 DEF Injection, IsInjective
<1>9. at \in Surjection(places, hits)
  BY <1>4, <1>7 DEF Surjection
<1>10. ExistsBijection(places, hits)
  BY <1>8, <1>9 DEF ExistsBijection, Bijection
<1>11. Cardinality(hits) = Cardinality(places)
  BY <1>2, <1>10, FS_Bijection
<1> QED
  BY <1>2, <1>6, <1>11 DEF hits

(* A document with something below the bound has a component at it that    *)
(* has children.                                                           *)
LEMMA DeepOnes ==
  ASSUME IsTree
  PROVE  Within # Components <=> \E n \in Within : AtBound(Depth(n)) /\ Children(n) # {}
<1>1. ASSUME NEW n \in Within, AtBound(Depth(n)), Children(n) # {}
      PROVE  Within # Components
  <2>1. PICK c \in Children(n) : TRUE
    BY <1>1
  <2>2. c \in Components /\ Depth(c) = Depth(n) + 1 /\ Depth(n) \in Nat
    BY <2>1, ChildFacts, DepthFacts DEF Within
  <2>3. c \notin Within
    BY <1>1, <2>2, StatsAssumption DEF Within, AtBound
  <2> QED
    BY <2>2, <2>3
<1>2. ASSUME Within # Components
      PROVE  \E n \in Within : AtBound(Depth(n)) /\ Children(n) # {}
  <2>1. Components \ Within # {} /\ Components \ Within \in SUBSET Components
    BY <1>2 DEF Within
  <2>2. PICK m \in Components \ Within : \A k \in Components \ Within : ~ (k < m)
    BY <2>1, FirstOf
  <2>3. Depth(m) \in Nat /\ Depth(m) > MaxComponentDepth
    BY <2>2, DepthFacts, StatsAssumption DEF Within
  <2>4. /\ parent[m] \in Components /\ Depth(m) = Depth(parent[m]) + 1
        /\ parent[m] < m
    <3>1. parent[m] # 0
      BY <2>3, DepthFacts, StatsAssumption
    <3>2. m \in Nat /\ parent[m] \in 0 .. m - 1
      BY TreeFacts
    <3> QED
      BY <3>1, <3>2, TreeFacts, DepthFacts
  <2>5. parent[m] \in Within
    BY <2>2, <2>4
  <2>6. AtBound(Depth(parent[m]))
    BY <2>3, <2>4, DepthFacts, StatsAssumption DEF AtBound
  <2>7. m \in Children(parent[m])
    BY DEF Children
  <2> QED
    BY <2>5, <2>6, <2>7
<1> QED
  BY <1>1, <1>2

LEMMA CountKeeps ==
  ASSUME WalkInvariant, Count
  PROVE  WalkInvariant'
<1>1. /\ IsTree' /\ Within' = Within /\ Components' = Components /\ kind' = kind
      /\ \A n : Depth(n)' = Depth(n) /\ Children(n)' = Children(n)
      /\ \A n : SelfAndAncestors(n)' = SelfAndAncestors(n)
      /\ \A m, n : Before(m, n)' = Before(m, n) /\ LaterSibling(m, n)' = LaterSibling(m, n)
  BY ReferenceStays DEF StatsNext, WalkInvariant
<1>2. found' = found /\ pending' = pending /\ truncated' = truncated
  BY DEF Count
<1>3. IsTree /\ Visited' = Visited
  BY <1>2 DEF WalkInvariant, Visited
<1>4. stats' = [total |-> CountOf(AssetTypes \cup {OtherAsset}),
                of    |-> [t \in AssetTypes |-> CountOf({t})]]
  BY DEF Count
<1>5. StatsTypeOK'
  <2>1. stats' \in [total : Nat, of : [AssetTypes -> Nat]]
    BY <1>4, CountsAgree
  <2>2. stage' \in {"walk", "counted"}
    BY DEF Count
  <2>3. truncated' \in BOOLEAN
    BY <1>2, Zenon DEF WalkInvariant, StatsTypeOK
  <2> QED
    BY <1>1, <1>2, <2>1, <2>2, <2>3 DEF WalkInvariant, StatsTypeOK
<1>6. DepthsAreTrue' /\ StackInOrder' /\ FoundBeforePending'
  BY <1>1, <1>2 DEF WalkInvariant, DepthsAreTrue, StackInOrder, FoundBeforePending, Pending
<1>7. WalkInDocumentOrder'
  BY <1>1, <1>2, <1>3 DEF WalkInvariant, WalkInDocumentOrder
<1>8. Visited' \subseteq Within' /\ TruncatedExactly'
  BY <1>1, <1>2, <1>3 DEF WalkInvariant, TruncatedExactly, AtBound
<1>9. CountsExact'
  <2>1. stats'.total = Cardinality({n \in Within : kind[n] # NotCounted})
    <3>1. \A n \in Within : kind[n] # NotCounted <=> kind[n] \in AssetTypes \cup {OtherAsset}
      <4>1. \A n \in Within : kind[n] \in Kinds
        BY <1>3, TreeFacts DEF Within
      <4> QED
        BY <4>1, StatsAssumption DEF Kinds
    <3>2. {n \in Within : kind[n] # NotCounted}
            = {n \in Within : kind[n] \in AssetTypes \cup {OtherAsset}}
      BY <3>1
    <3> QED
      BY <1>4, <3>2, CountsAgree
  <2>2. ASSUME NEW t \in AssetTypes
        PROVE  stats'.of[t] = Cardinality({n \in Within : kind[n] = t})
    <3>1. {n \in Within : kind[n] = t} = {n \in Within : kind[n] \in {t}}
      OBVIOUS
    <3> QED
      BY <1>4, <3>1, CountsAgree
  <2>3. truncated' <=> Within # Components
    BY <1>2, <1>3, AllIsFound, DeepOnes DEF WalkInvariant, TruncatedExactly
  <2> QED
    BY <1>1, <2>1, <2>2, <2>3 DEF CountsExact
<1> QED
  BY <1>1, <1>5, <1>6, <1>7, <1>8, <1>9 DEF WalkInvariant

(* A step that changes nothing changes none of this.                       *)
LEMMA StutterKeeps ==
  ASSUME WalkInvariant, UNCHANGED statsVars
  PROVE  WalkInvariant'
<1>1. /\ IsTree' /\ Within' = Within /\ Components' = Components /\ kind' = kind
      /\ \A n : Depth(n)' = Depth(n) /\ Children(n)' = Children(n)
      /\ \A n : SelfAndAncestors(n)' = SelfAndAncestors(n)
      /\ \A m, n : Before(m, n)' = Before(m, n) /\ LaterSibling(m, n)' = LaterSibling(m, n)
  BY ReferenceStays DEF WalkInvariant
<1>2. /\ found' = found /\ pending' = pending /\ truncated' = truncated
      /\ stats' = stats /\ stage' = stage
  BY DEF statsVars
<1>3. Visited' = Visited
  BY <1>2 DEF Visited
<1>4. StatsTypeOK'
  BY <1>1, <1>2 DEF WalkInvariant, StatsTypeOK
<1>5. DepthsAreTrue' /\ StackInOrder' /\ FoundBeforePending'
  BY <1>1, <1>2 DEF WalkInvariant, DepthsAreTrue, StackInOrder, FoundBeforePending, Pending
<1>6. WalkInDocumentOrder'
  BY <1>1, <1>2, <1>3 DEF WalkInvariant, WalkInDocumentOrder
<1>7. Visited' \subseteq Within' /\ TruncatedExactly'
  BY <1>1, <1>2, <1>3 DEF WalkInvariant, TruncatedExactly, AtBound
<1>8. CountsExact'
  BY <1>1, <1>2 DEF WalkInvariant, CountsExact
<1> QED
  BY <1>1, <1>4, <1>5, <1>6, <1>7, <1>8 DEF WalkInvariant

LEMMA WalkInvariantHolds == StatsSpec => []WalkInvariant
<1>1. StatsInit => WalkInvariant
  BY WalkStarts
<1>2. WalkInvariant /\ [StatsNext]_statsVars => WalkInvariant'
  BY VisitKeeps, CountKeeps, StutterKeeps DEF StatsNext
<1> QED
  BY <1>1, <1>2, PTL DEF StatsSpec

(* No frame on the stack is ever deeper than maxComponentDepth.            *)
THEOREM StatsTypeCorrect == StatsSpec => []StatsTypeOK
<1>1. WalkInvariant => StatsTypeOK
  BY DEF WalkInvariant
<1> QED
  BY <1>1, WalkInvariantHolds, PTL

(* The walk with an explicit stack keeps document order, visits nothing    *)
(* twice and leaves nothing out, in documents of any shape.                *)
THEOREM WalkKeepsDocumentOrder == StatsSpec => []WalkInDocumentOrder
<1>1. WalkInvariant => WalkInDocumentOrder
  BY DEF WalkInvariant
<1> QED
  BY <1>1, WalkInvariantHolds, PTL

(* The statistics of an upload are those of the tree down to the bound,    *)
(* and they say so when the tree goes deeper.                              *)
THEOREM CountsAreExact == StatsSpec => []CountsExact
<1>1. WalkInvariant => CountsExact
  BY DEF WalkInvariant
<1> QED
  BY <1>1, WalkInvariantHolds, PTL
=============================================================================
