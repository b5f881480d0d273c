-------------------------- MODULE MerkleTreeProofs --------------------------
(***************************************************************************)
(* Which chunks are under a node, for trees of every size: the facts that  *)
(* make a hash combined from two hashes stand for the chunks of both.      *)
(***************************************************************************)
EXTENDS MerkleTree, TLAPS, WellFoundedInduction

\* The parent of a node other than the root is an inner node, and has it as its
\* left or right child.
LEMMA ParentFacts ==
  ASSUME NEW c \in Nat \ {0}, NEW n \in Nodes(c) \ {0}
  PROVE  /\ Parent(n) \in Inner(c)
         /\ n = Left(Parent(n)) \/ n = Right(Parent(n))
BY DEF Nodes, Inner, Parent, Left, Right

\* The children of an inner node are nodes other than the root, and it is the
\* parent of both.
LEMMA ChildFacts ==
  ASSUME NEW c \in Nat \ {0}, NEW n \in Inner(c), NEW m \in {Left(n), Right(n)}
  PROVE  m \in Nodes(c) \ {0} /\ Parent(m) = n
BY DEF Nodes, Inner, Parent, Left, Right

\* A leaf is a node, and no inner node.
LEMMA LeafFacts ==
  ASSUME NEW c \in Nat \ {0}, NEW k \in Chunks(c)
  PROVE  Leaf(c, k) \in Nodes(c) \ Inner(c)
BY DEF Leaf, Nodes, Inner, Chunks

\* The nodes above a node are closed upwards themselves.
LEMMA AboveUpClosed ==
  ASSUME NEW c \in Nat \ {0}, NEW l \in Nodes(c)
  PROVE  Above(c, l) \subseteq Nodes(c) /\ l \in Above(c, l) /\ UpClosed(Above(c, l))
<1>1. Above(c, l) \subseteq Nodes(c) /\ l \in Above(c, l)
  BY DEF Above
<1>2. ASSUME NEW m \in Above(c, l) \ {0} PROVE Parent(m) \in Above(c, l)
  <2>1. m \in Nodes(c) \ {0} /\ Inner(c) \subseteq Nodes(c)
    BY <1>1 DEF Inner, Nodes
  <2>2. Parent(m) \in Nodes(c)
    BY <2>1, ParentFacts
  <2>3. ASSUME NEW S \in SUBSET Nodes(c), l \in S, UpClosed(S)
        PROVE  Parent(m) \in S
    BY <2>3 DEF Above, UpClosed
  <2> QED  BY <2>2, <2>3 DEF Above
<1> QED  BY <1>1, <1>2 DEF UpClosed

\* Under a leaf is its own chunk, and no other.
THEOREM CoveredLeaf ==
  ASSUME NEW c \in Nat \ {0}, NEW k \in Chunks(c)
  PROVE  Covered(c, Leaf(c, k)) = {k}
<1>1. ASSUME NEW j \in Chunks(c), Leaf(c, k) \in Above(c, Leaf(c, j))
      PROVE  j = k
  <2> DEFINE S == {Leaf(c, j)} \cup Inner(c)
  <2>1. S \in SUBSET Nodes(c)
    BY LeafFacts DEF Inner, Nodes
  <2>2. UpClosed(S)
    BY <2>1, ParentFacts DEF UpClosed
  <2>3. Leaf(c, k) \in S
    BY <1>1, <2>1, <2>2 DEF Above
  <2>4. Leaf(c, k) = Leaf(c, j)
    BY <2>3, LeafFacts
  <2> QED  BY <2>4 DEF Leaf, Chunks
<1>2. Leaf(c, k) \in Above(c, Leaf(c, k))
  BY LeafFacts, AboveUpClosed
<1> QED  BY <1>1, <1>2 DEF Covered

\* Under an inner node are the chunks under its children (pkgchk.c:432-450).
THEOREM CoveredInner ==
  ASSUME NEW c \in Nat \ {0}, NEW n \in Inner(c)
  PROVE  Covered(c, n) = Covered(c, Left(n)) \cup Covered(c, Right(n))
<1>1. ASSUME NEW k \in Chunks(c), n \in Above(c, Leaf(c, k)),
             Left(n) \notin Above(c, Leaf(c, k)), Right(n) \notin Above(c, Leaf(c, k))
      PROVE  FALSE
  <2> DEFINE l == Leaf(c, k)
             S == Above(c, l) \ {n}
  <2>1. l \in Nodes(c) /\ l # n
    BY LeafFacts
  <2>2. S \in SUBSET Nodes(c) /\ l \in S
    BY <2>1, AboveUpClosed
  <2>3. ASSUME NEW m \in S \ {0} PROVE Parent(m) \in S
    <3>1. m \in Nodes(c) \ {0} /\ Parent(m) \in Above(c, l)
      BY <2>1, AboveUpClosed DEF UpClosed
    <3>2. Parent(m) # n
      BY <1>1, <3>1, ParentFacts
    <3> QED  BY <3>1, <3>2
  <2>4. n \in S
    BY <1>1, <2>2, <2>3 DEF Above, UpClosed
  <2> QED  BY <2>4
<1>2. ASSUME NEW k \in Chunks(c), NEW m \in {Left(n), Right(n)},
             m \in Above(c, Leaf(c, k))
      PROVE  n \in Above(c, Leaf(c, k))
  BY <1>2, ChildFacts, LeafFacts, AboveUpClosed DEF UpClosed
<1> QED  BY <1>1, <1>2 DEF Covered

(* -------------------------------- numbers ------------------------------ *)
\* A set of numbers has a least one: induction, in the form used below.
LEMMA LeastNumber ==
  ASSUME NEW T \in SUBSET Nat, T # {}
  PROVE  \E x \in T : \A y \in T : x <= y
<1> DEFINE R == {ss \in Nat \X Nat : ss[1] < ss[2]}
<1>1. IsWellFoundedOn(R, Nat)
  BY NatLessThanWellFounded DEF OpToRel
<1>2. \E x \in T : \A y \in T : ~ (<<y, x>> \in R)
  <2> HIDE DEF R
  <2> QED  BY <1>1, WFMin
<1>3. PICK x \in T : \A y \in T : ~ (<<y, x>> \in R)
  BY <1>2
<1>4. ASSUME NEW y \in T PROVE x <= y
  <2>1. ~ (<<y, x>> \in R)
    BY <1>3
  <2> QED  BY <2>1
<1> QED  BY <1>4

(* ------------------------- what is below a node ------------------------ *)
Below(c, n) == {m \in Nodes(c) : n \in Above(c, m)}

\* The nodes above one that is above a node are above that node.
LEMMA AboveTransitive ==
  ASSUME NEW c \in Nat \ {0}, NEW l \in Nodes(c), NEW m \in Above(c, l)
  PROVE  Above(c, m) \subseteq Above(c, l)
<1>1. Above(c, l) \in SUBSET Nodes(c) /\ UpClosed(Above(c, l))
  BY AboveUpClosed
<1> QED  BY <1>1 DEF Above

\* Nodes are below themselves, children below their parents, and so on down.
LEMMA BelowFacts ==
  ASSUME NEW c \in Nat \ {0}, NEW n \in Nodes(c)
  PROVE  /\ n \in Below(c, n) /\ Below(c, n) \subseteq Nodes(c)
         /\ \A m \in Below(c, n) : Below(c, m) \subseteq Below(c, n) /\ n <= m
         /\ n \in Inner(c) => Left(n) \in Below(c, n) /\ Right(n) \in Below(c, n)
<1>1. n \in Below(c, n) /\ Below(c, n) \subseteq Nodes(c)
  BY AboveUpClosed DEF Below
<1>2. ASSUME NEW m \in Below(c, n), NEW l \in Below(c, m) PROVE l \in Below(c, n)
  <2>1. l \in Nodes(c) /\ m \in Above(c, l) /\ m \in Nodes(c) /\ n \in Above(c, m)
    BY <1>2 DEF Below
  <2> QED  BY <2>1, AboveTransitive DEF Below
<1>3. ASSUME NEW m \in Below(c, n) PROVE n <= m
  <2>1. m \in Nodes(c) /\ n \in Above(c, m)
    BY DEF Below
  <2>2. 0 .. m \in SUBSET Nodes(c) /\ m \in 0 .. m
    BY <2>1 DEF Nodes
  <2>3. UpClosed(0 .. m)
    BY <2>1 DEF UpClosed, Parent, Nodes
  <2>4. n \in 0 .. m
    BY <2>1, <2>2, <2>3 DEF Above
  <2> QED  BY <2>4
<1>4. ASSUME n \in Inner(c), NEW m \in {Left(n), Right(n)} PROVE m \in Below(c, n)
  <2>1. m \in Nodes(c) \ {0} /\ Parent(m) = n
    BY <1>4, ChildFacts
  <2> QED  BY <2>1, AboveUpClosed DEF UpClosed, Below
<1> QED  BY <1>1, <1>2, <1>3, <1>4

\* What is below a node and is not the node itself is below one of its children,
\* and so is its parent below the node.
LEMMA BelowSplit ==
  ASSUME NEW c \in Nat \ {0}, NEW n \in Nodes(c), NEW m \in Below(c, n), m # n
  PROVE  /\ n \in Inner(c)
         /\ m \in Below(c, Left(n)) \cup Below(c, Right(n))
         /\ m # 0 /\ Parent(m) \in Below(c, n)
<1>1. m \in Nodes(c) /\ n \in Above(c, m)
  BY DEF Below
<1>2. /\ Above(c, m) \subseteq Nodes(c) /\ m \in Above(c, m)
      /\ \A x \in Above(c, m) \ {0} : Parent(x) \in Above(c, m)
  BY <1>1, AboveUpClosed DEF UpClosed
<1>3. PICK x \in Above(c, m) \ {0} : Parent(x) = n
  <2> SUFFICES ASSUME \A x \in Above(c, m) \ {0} : Parent(x) # n PROVE FALSE
    OBVIOUS
  <2> DEFINE S == Above(c, m) \ {n}
  <2>1. S \in SUBSET Nodes(c) /\ m \in S /\ UpClosed(S)
    BY <1>2 DEF UpClosed
  <2>2. n \in S
    BY <1>1, <2>1 DEF Above
  <2> QED  BY <2>2
<1>4. n \in Inner(c) /\ (x = Left(n) \/ x = Right(n)) /\ m \in Below(c, x)
  BY <1>1, <1>2, <1>3, ParentFacts DEF Below
<1>5. m # 0
  <2> SUFFICES ASSUME m = 0 PROVE FALSE
    OBVIOUS
  <2>1. {0} \in SUBSET Nodes(c) /\ UpClosed({0})
    BY DEF Nodes, UpClosed
  <2>2. n \in {0}
    BY <1>1, <2>1 DEF Above
  <2> QED  BY <2>2
<1>6. Parent(m) \in Below(c, n)
  <2> DEFINE q == Parent(m)
             S == {m} \cup Above(c, q)
  <2>1. q \in Nodes(c)
    BY <1>1, <1>5, ParentFacts DEF Inner, Nodes
  <2>2. /\ Above(c, q) \subseteq Nodes(c) /\ q \in Above(c, q)
        /\ \A y \in Above(c, q) \ {0} : Parent(y) \in Above(c, q)
    BY <2>1, AboveUpClosed DEF UpClosed
  <2>3. S \in SUBSET Nodes(c) /\ m \in S /\ UpClosed(S)
    BY <1>1, <2>2 DEF UpClosed
  <2>4. n \in S
    BY <1>1, <2>3 DEF Above
  <2> QED  BY <2>1, <2>4 DEF Below
<1> QED  BY <1>4, <1>5, <1>6

\* Neither a node nor its other child is below one of its children.
LEMMA ChildrenApart ==
  ASSUME NEW c \in Nat \ {0}, NEW n \in Inner(c)
  PROVE  /\ n \notin Below(c, Left(n)) /\ n \notin Below(c, Right(n))
         /\ Left(n) \notin Below(c, Right(n)) /\ Right(n) \notin Below(c, Left(n))
         /\ Below(c, Left(n)) \subseteq Below(c, n)
         /\ Below(c, Right(n)) \subseteq Below(c, n)
<1>1. /\ n \in Nodes(c) /\ n \in Nat /\ Left(n) > n /\ Right(n) > Left(n)
      /\ Left(n) \in Nodes(c) /\ Right(n) \in Nodes(c) /\ Parent(Right(n)) = n
  BY ChildFacts DEF Inner, Nodes, Left, Right
<1>2. \A m \in Nodes(c) : \A x \in Below(c, m) : m <= x
  BY BelowFacts
<1>3. Left(n) \in Nat /\ Right(n) \in Nat
  BY <1>1 DEF Nodes
<1>4. n \notin Below(c, Left(n)) /\ n \notin Below(c, Right(n))
  BY <1>1, <1>2, <1>3
<1>5. Left(n) \notin Below(c, Right(n))
  BY <1>1, <1>2, <1>3
<1>6. Right(n) \notin Below(c, Left(n))
  BY <1>1, <1>3, <1>4, BelowSplit
<1> QED  BY <1>1, <1>4, <1>5, <1>6, BelowFacts

\* Every node is below the root.
LEMMA BelowRoot ==
  ASSUME NEW c \in Nat \ {0}
  PROVE  Below(c, 0) = Nodes(c)
<1> SUFFICES ASSUME NEW m \in Nodes(c) PROVE 0 \in Above(c, m)
  BY DEF Below
<1>1. /\ Above(c, m) \subseteq Nodes(c) /\ m \in Above(c, m)
      /\ \A x \in Above(c, m) \ {0} : Parent(x) \in Above(c, m)
  BY AboveUpClosed DEF UpClosed
<1>2. Nodes(c) \subseteq Nat
  BY DEF Nodes
<1>3. PICK x \in Above(c, m) : \A y \in Above(c, m) : x <= y
  BY <1>1, <1>2, LeastNumber
<1>4. CASE x # 0
  <2>1. Parent(x) \in Above(c, m) /\ x \in Nat /\ Parent(x) < x
    BY <1>1, <1>2, <1>3, <1>4 DEF Parent
  <2>2. Parent(x) \in Nat
    BY <1>1, <1>2, <2>1
  <2> QED  BY <1>3, <2>1, <2>2
<1> QED  BY <1>3, <1>4
=============================================================================
