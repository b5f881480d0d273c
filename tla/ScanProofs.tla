----------------------------- MODULE ScanProofs -----------------------------
(***************************************************************************)
(* A scan that no write to the file disturbs ends with exactly the nodes   *)
(* that are complete, and with the smallest query for them, for trees of   *)
(* every size and any number of threads that scan the same tree.           *)
(***************************************************************************)
EXTENDS PackagesProofs

(* ------------------------ the loops of one scan ------------------------ *)
\* What follows is about a tree of c chunks, the set C of its complete nodes, the set
\* comp of those that count as complete, and the calls td still to be made.
TreeSet(c, C) ==
  /\ C \subseteq Nodes(c)
  /\ \A n \in Inner(c) : n \in C <=> {Left(n), Right(n)} \subseteq C
Agree(comp, C, m) == m \in comp <=> m \in C
AllAgree(c, comp, C) == \A m \in Nodes(c) : Agree(comp, C, m)
LeavesAgree(c, comp, C, i) == \A k \in Chunks(c) : k < i => Agree(comp, C, Leaf(c, k))

\* The nodes a call of bpkg_compute_hashes still combines
Covers(c, call, m) == IF call.back THEN m = call.node ELSE m \in Below(c, call.node)
Pending(c, td, m) == \E i \in DOMAIN td : Covers(c, td[i], m)

\* No call is for a node below that of an earlier one, nor, unless its children
\* are back, for one above it.
Ordered(c, td) ==
  \A i, j \in DOMAIN td : i < j =>
    /\ td[j].node \notin Below(c, td[i].node)
    /\ ~ td[j].back => td[i].node \notin Below(c, td[j].node)
Computing(c, comp, C, td) ==
  /\ LeavesAgree(c, comp, C, c + 1)
  /\ Ordered(c, td)
  /\ \A m \in Inner(c) : Agree(comp, C, m) \/ Pending(c, td, m)

\* The complete nodes of which the parent is not complete
Highest(C) == {n \in C : n = 0 \/ Parent(n) \notin C}
Visiting(c, C, td, f) ==
  /\ f \subseteq Highest(C)
  /\ \A i \in DOMAIN td : td[i].node = 0 \/ Parent(td[i].node) \notin C
  /\ \A n \in Highest(C) : n \in f \/ \E i \in DOMAIN td : n \in Below(c, td[i].node)

\* What is below a complete node is complete.
LEMMA CompleteBelow ==
  ASSUME NEW c \in Nat \ {0}, NEW C, TreeSet(c, C), NEW n \in C, NEW m \in Below(c, n)
  PROVE  m \in C
<1> DEFINE S == {x \in Nodes(c) : x \in C => m \in C}
<1>1. m \in Nodes(c) /\ n \in Above(c, m)
  BY DEF Below
<1>2. ASSUME NEW x \in S \ {0} PROVE Parent(x) \in S
  <2>1. /\ Parent(x) \in Inner(c) /\ Parent(x) \in Nodes(c)
        /\ x = Left(Parent(x)) \/ x = Right(Parent(x))
    BY ParentFacts DEF Inner, Nodes
  <2>2. Parent(x) \in C => x \in C
    BY <2>1 DEF TreeSet
  <2> QED  BY <2>1, <2>2
<1>3. S \in SUBSET Nodes(c) /\ m \in S /\ UpClosed(S)
  BY <1>1, <1>2 DEF UpClosed
<1>4. n \in S
  BY <1>1, <1>3 DEF Above
<1> QED  BY <1>4

\* The children of an inner node of a perfect tree are both inner nodes or both
\* leaves.
LEMMA ChildrenAlike ==
  ASSUME NEW c \in Nat \ {0}, PowerOfTwo(c), NEW n \in Inner(c)
  PROVE  /\ Left(n) \in Inner(c) <=> Right(n) \in Inner(c)
         /\ Left(n) \in Nodes(c) /\ Right(n) \in Nodes(c) /\ n \in Nodes(c)
<1>1. c # 1 /\ c % 2 = 0
  BY DEF Inner, PowerOfTwo
<1> QED  BY <1>1 DEF Inner, Nodes, Left, Right

\* One element, two, or three before a sequence
LEMMA PrependOne ==
  ASSUME NEW S, NEW d \in S, NEW s \in Seq(S)
  PROVE  /\ <<d>> \o s \in Seq(S) /\ Len(<<d>> \o s) = Len(s) + 1
         /\ (<<d>> \o s)[1] = d
         /\ \A i \in 1 .. Len(s) : (<<d>> \o s)[i + 1] = s[i]
<1>1. <<d>> \in Seq(S) /\ Len(<<d>>) = 1 /\ <<d>>[1] = d /\ Len(s) \in Nat
  BY ShortSeqs, LenProperties
<1> DEFINE f == <<d>>
<1> HIDE DEF f
<1>2. /\ f \o s \in Seq(S) /\ Len(f \o s) = 1 + Len(s)
      /\ \A i \in 1 .. 1 + Len(s) : (f \o s)[i] = IF i <= 1 THEN f[i] ELSE s[i - 1]
  BY <1>1, ConcatProperties DEF f
<1>3. (f \o s)[1] = f[1] /\ \A i \in 1 .. Len(s) : (f \o s)[i + 1] = s[(i + 1) - 1]
  BY <1>1, <1>2
<1>4. \A i \in 1 .. Len(s) : (i + 1) - 1 = i
  OBVIOUS
<1> QED  BY <1>1, <1>2, <1>3, <1>4 DEF f

LEMMA PrependTwo ==
  ASSUME NEW S, NEW a \in S, NEW b \in S, NEW s \in Seq(S)
  PROVE  LET w == <<a, b>> \o s IN
         /\ w \in Seq(S) /\ Len(w) = Len(s) + 2
         /\ w[1] = a /\ w[2] = b
         /\ \A i \in 1 .. Len(s) : w[i + 2] = s[i]
<1>1. <<a>> \in Seq(S) /\ <<b>> \in Seq(S) /\ Len(s) \in Nat
  BY ShortSeqs, LenProperties
<1>2. <<a, b>> = <<a>> \o <<b>>
  <2> DEFINE w == <<a>> \o <<b>>
  <2>1. <<b>> \in Seq(S) /\ Len(<<b>>) = 1 /\ <<b>>[1] = b
    BY <1>1
  <2>2. w \in Seq(S) /\ Len(w) = 1 + 1 /\ w[1] = a /\ w[1 + 1] = b
    BY <2>1, PrependOne
  <2> HIDE DEF w
  <2>3. w \in [1 .. 2 -> S] /\ w[1] = a /\ w[2] = b
    BY <2>2, LenProperties
  <2>4. w = <<a, b>>
    BY <2>3
  <2> QED  BY <2>4 DEF w
<1>3. <<a, b>> \o s = <<a>> \o (<<b>> \o s)
  BY <1>1, <1>2, ConcatAssociative
<1> DEFINE v == <<b>> \o s
           w == <<a>> \o v
<1>4. v \in Seq(S) /\ Len(v) = Len(s) + 1 /\ v[1] = b /\ \A i \in 1 .. Len(s) : v[i + 1] = s[i]
  BY PrependOne
<1> HIDE DEF v
<1>5. w \in Seq(S) /\ Len(w) = Len(v) + 1 /\ w[1] = a /\ \A i \in 1 .. Len(v) : w[i + 1] = v[i]
  BY <1>4, PrependOne
<1> HIDE DEF w
<1>6. w[2] = b
  <2>1. 1 \in 1 .. Len(v) /\ 1 + 1 = 2
    BY <1>1, <1>4
  <2> QED  BY <1>4, <1>5, <2>1
<1>7. ASSUME NEW i \in 1 .. Len(s) PROVE w[i + 2] = s[i]
  <2>1. i + 1 \in 1 .. Len(v) /\ (i + 1) + 1 = i + 2
    BY <1>1, <1>4
  <2> QED  BY <1>4, <1>5, <2>1
<1>8. Len(w) = Len(s) + 2
  BY <1>1, <1>4, <1>5
<1> QED  BY <1>3, <1>5, <1>6, <1>7, <1>8 DEF v, w

LEMMA PrependThree ==
  ASSUME NEW S, NEW a \in S, NEW b \in S, NEW d \in S, NEW s \in Seq(S)
  PROVE  LET w == <<a, b>> \o <<d>> \o s IN
         /\ w \in Seq(S) /\ Len(w) = Len(s) + 3
         /\ w[1] = a /\ w[2] = b /\ w[3] = d
         /\ \A i \in 1 .. Len(s) : w[i + 3] = s[i]
<1>1. <<a, b>> \in Seq(S) /\ <<d>> \in Seq(S) /\ Len(s) \in Nat
  BY ShortSeqs, LenProperties
<1>2. <<a, b>> \o <<d>> \o s = <<a, b>> \o (<<d>> \o s)
  BY <1>1, ConcatAssociative
<1> DEFINE v == <<d>> \o s
           w == <<a, b>> \o v
<1>3. v \in Seq(S) /\ Len(v) = Len(s) + 1 /\ v[1] = d /\ \A i \in 1 .. Len(s) : v[i + 1] = s[i]
  BY PrependOne
<1> HIDE DEF v
<1>4. /\ w \in Seq(S) /\ Len(w) = Len(v) + 2 /\ w[1] = a /\ w[2] = b
      /\ \A i \in 1 .. Len(v) : w[i + 2] = v[i]
  BY <1>3, PrependTwo
<1> HIDE DEF w
<1>5. w[3] = d
  <2>1. 1 \in 1 .. Len(v) /\ 1 + 2 = 3
    BY <1>1, <1>3
  <2> QED  BY <1>3, <1>4, <2>1
<1>6. ASSUME NEW i \in 1 .. Len(s) PROVE w[i + 3] = s[i]
  <2>1. i + 1 \in 1 .. Len(v) /\ (i + 1) + 2 = i + 3
    BY <1>1, <1>3
  <2> QED  BY <1>3, <1>4, <2>1
<1>7. Len(w) = Len(s) + 3
  BY <1>1, <1>3, <1>4
<1> QED  BY <1>2, <1>4, <1>5, <1>6, <1>7 DEF v, w

\* A node that is no inner node is the leaf of a chunk.
LEMMA InnerOrLeaf ==
  ASSUME NEW c \in Nat \ {0}, NEW m \in Nodes(c) \ Inner(c)
  PROVE  \E k \in Chunks(c) : m = Leaf(c, k)
<1>1. m - (c - 2) \in Chunks(c) /\ m = Leaf(c, m - (c - 2))
  BY DEF Nodes, Inner, Chunks, Leaf
<1> QED  BY <1>1

\* The calls that follow when a node calls for its children
Expansion(c, n, rest) ==
  Calls(InnerChildren(c, n)) \o <<[node |-> n, back |-> TRUE]>> \o rest

\* Its calls, one by one
Expands(c, n, rest, next) ==
  \/ /\ Left(n) \in Inner(c) /\ Right(n) \in Inner(c)
     /\ Len(next) = Len(rest) + 3
     /\ next[1] = Call(Left(n)) /\ next[2] = Call(Right(n))
     /\ next[3] = [node |-> n, back |-> TRUE]
     /\ \A i \in 1 .. Len(rest) : next[i + 3] = rest[i]
  \/ /\ Left(n) \notin Inner(c) /\ Right(n) \notin Inner(c)
     /\ Len(next) = Len(rest) + 1
     /\ next[1] = [node |-> n, back |-> TRUE]
     /\ \A i \in 1 .. Len(rest) : next[i + 1] = rest[i]

LEMMA ExpansionFacts ==
  ASSUME NEW c \in Nat \ {0}, PowerOfTwo(c), NEW n \in Inner(c),
         NEW rest \in Seq(CallsTo(Inner(c))), NEW next, next = Expansion(c, n, rest)
  PROVE  next \in Seq(CallsTo(Inner(c))) /\ Expands(c, n, rest, next)
<1> DEFINE S == CallsTo(Inner(c))
           b == [node |-> n, back |-> TRUE]
           l == Call(Left(n))
           r == Call(Right(n))
<1>1. b \in S /\ (Left(n) \in Inner(c) <=> Right(n) \in Inner(c)) /\ Len(rest) \in Nat
  BY ChildrenAlike, LenProperties DEF CallsTo
<1>2. CASE Left(n) \in Inner(c)
  <2>1. l \in S /\ r \in S
    BY <1>1, <1>2 DEF Call, CallsTo
  <2>2. Calls(InnerChildren(c, n)) = <<l, r>>
    BY <1>1, <1>2 DEF Calls, InnerChildren, Children
  <2> HIDE DEF l, r, S, b
  <2>3. next = <<l, r>> \o <<b>> \o rest
    BY <2>2 DEF Expansion, b
  <2>4. /\ next \in Seq(S) /\ Len(next) = Len(rest) + 3
        /\ next[1] = l /\ next[2] = r /\ next[3] = b
        /\ \A i \in 1 .. Len(rest) : next[i + 3] = rest[i]
    BY <1>1, <2>1, <2>3, PrependThree DEF S
  <2> QED  BY <1>1, <1>2, <2>4 DEF S, l, r, b, Expands
<1>3. CASE Left(n) \notin Inner(c)
  <2>1. Calls(InnerChildren(c, n)) = <<>>
    BY <1>1, <1>3 DEF Calls, InnerChildren
  <2> HIDE DEF S, b
  <2>2. <<>> \o <<b>> = <<b>>
    BY <1>1, ShortSeqs, ConcatEmptySeq
  <2>3. next = <<b>> \o rest
    BY <2>1, <2>2 DEF Expansion, b
  <2>4. /\ next \in Seq(S) /\ Len(next) = Len(rest) + 1 /\ next[1] = b
        /\ \A i \in 1 .. Len(rest) : next[i + 1] = rest[i]
    BY <1>1, <2>3, PrependOne DEF S
  <2> QED  BY <1>1, <1>3, <2>4 DEF S, b, Expands
<1> QED  BY <1>2, <1>3

\* The first call and those after it
LEMMA FirstCall ==
  ASSUME NEW S, NEW td \in Seq(CallsTo(S)), td # <<>>
  PROVE  /\ Head(td) \in CallsTo(S) /\ Head(td) = td[1] /\ Head(td).node \in S
         /\ Tail(td) \in Seq(CallsTo(S)) /\ Len(td) \in Nat \ {0}
         /\ DOMAIN td = 1 .. Len(td) /\ DOMAIN Tail(td) = 1 .. Len(Tail(td))
         /\ Len(Tail(td)) = Len(td) - 1
         /\ \A i \in 1 .. Len(Tail(td)) : Tail(td)[i] = td[i + 1] /\ i + 1 \in DOMAIN td
<1>1. /\ Head(td) \in CallsTo(S) /\ Tail(td) \in Seq(CallsTo(S)) /\ Len(td) \in Nat \ {0}
      /\ Len(Tail(td)) = Len(td) - 1 /\ Head(td) = td[1]
      /\ \A j \in 1 .. (Len(td) - 1) : Tail(td)[j] = td[j + 1]
  BY HeadTailProperties, LenProperties, EmptySeq
<1>2. DOMAIN td = 1 .. Len(td) /\ DOMAIN Tail(td) = 1 .. Len(Tail(td))
  BY <1>1, LenProperties
<1>3. Head(td).node \in S
  BY <1>1 DEF CallsTo
<1> QED  BY <1>1, <1>2, <1>3

\* Calling for the children leaves as much to be combined as before.
LEMMA ComputeDown ==
  ASSUME NEW c \in Nat \ {0}, PowerOfTwo(c), NEW comp, NEW C,
         NEW td \in Seq(CallsTo(Inner(c))), td # <<>>, Computing(c, comp, C, td),
         ~ Head(td).back, NEW n, n = Head(td).node
  PROVE  Computing(c, comp, C, Expansion(c, n, Tail(td)))
<1> DEFINE next == Expansion(c, n, Tail(td))
           rest == Tail(td)
<1>1. /\ n \in Inner(c) /\ td[1].node = n /\ ~ td[1].back /\ rest \in Seq(CallsTo(Inner(c)))
      /\ DOMAIN td = 1 .. Len(td) /\ Len(td) \in Nat \ {0} /\ Len(rest) = Len(td) - 1
      /\ \A i \in 1 .. Len(rest) : rest[i] = td[i + 1] /\ i + 1 \in DOMAIN td
      /\ 1 \in DOMAIN td
  BY FirstCall
<1>n. n \in Nodes(c) /\ Left(n) \in Nodes(c) /\ Right(n) \in Nodes(c)
  BY <1>1, ChildrenAlike
<1>e. next = Expansion(c, n, rest)
  OBVIOUS
<1> HIDE DEF next, rest
<1>l. Len(rest) \in Nat
  BY <1>1
<1>2. next \in Seq(CallsTo(Inner(c))) /\ Expands(c, n, rest, next)
  BY <1>1, <1>e, ExpansionFacts
<1>3. DOMAIN next = 1 .. Len(next)
  BY <1>2, LenProperties
<1>4. \A i \in 1 .. Len(rest) :
        /\ rest[i].node \notin Below(c, n)
        /\ ~ rest[i].back => n \notin Below(c, rest[i].node)
  BY <1>1 DEF Computing, Ordered
<1>5. \A i, j \in 1 .. Len(rest) : i < j =>
        /\ rest[j].node \notin Below(c, rest[i].node)
        /\ ~ rest[j].back => rest[i].node \notin Below(c, rest[j].node)
  <2> TAKE i, j \in 1 .. Len(rest)
  <2> HAVE i < j
  <2>1. i + 1 < j + 1 /\ i + 1 \in DOMAIN td /\ j + 1 \in DOMAIN td
    BY <1>1
  <2>2. rest[i] = td[i + 1] /\ rest[j] = td[j + 1]
    BY <1>1
  <2> QED  BY <2>1, <2>2 DEF Computing, Ordered
<1>6. \A i \in 1 .. Len(rest), m \in {Left(n), Right(n)} :
        /\ rest[i].node \notin Below(c, m)
        /\ ~ rest[i].back => m \notin Below(c, rest[i].node)
  <2> TAKE i \in 1 .. Len(rest), m \in {Left(n), Right(n)}
  <2>1. Below(c, m) \subseteq Below(c, n) /\ m \in Below(c, n) /\ Parent(m) = n
    BY <1>1, <1>n, ChildrenApart, BelowFacts, ChildFacts
  <2>2. rest[i].node \in Nodes(c)
    <3>1. rest[i] \in CallsTo(Inner(c))
      BY <1>1, ElementOfSeq
    <3> QED  BY <3>1 DEF CallsTo, Inner, Nodes
  <2>3. ASSUME m \in Below(c, rest[i].node) PROVE n \in Below(c, rest[i].node)
    <3>1. m # rest[i].node
      BY <1>4, <2>1
    <3> QED  BY <2>1, <2>2, <2>3, <3>1, BelowSplit
  <2> QED  BY <1>4, <2>1, <2>3
<1>7. \A m \in Below(c, n) : m # n => m \in Below(c, Left(n)) \cup Below(c, Right(n))
  BY <1>n, BelowSplit
<1>8. /\ n \notin Below(c, Left(n)) /\ n \notin Below(c, Right(n))
      /\ Left(n) \notin Below(c, Right(n)) /\ Right(n) \notin Below(c, Left(n))
  BY <1>1, ChildrenApart
<1>9. CASE Left(n) \in Inner(c)
  <2>1. /\ Len(next) = Len(rest) + 3
        /\ next[1].node = Left(n) /\ next[2].node = Right(n) /\ next[3].node = n
        /\ ~ next[1].back /\ ~ next[2].back /\ next[3].back
        /\ \A i \in 1 .. Len(rest) : next[i + 3] = rest[i]
    <3>1. /\ Len(next) = Len(rest) + 3
          /\ next[1] = Call(Left(n)) /\ next[2] = Call(Right(n))
          /\ next[3] = [node |-> n, back |-> TRUE]
          /\ \A i \in 1 .. Len(rest) : next[i + 3] = rest[i]
      BY <1>2, <1>9 DEF Expands
    <3> QED  BY <3>1 DEF Call
  <2>d. DOMAIN next = 1 .. (Len(rest) + 3)
    BY <1>3, <2>1
  <2>2. \A i \in DOMAIN next :
          i = 1 \/ i = 2 \/ i = 3 \/ \E j \in 1 .. Len(rest) : i = j + 3
    <3> TAKE i \in DOMAIN next
    <3>1. i \in Nat /\ (i = 1 \/ i = 2 \/ i = 3 \/ i - 3 \in 1 .. Len(rest))
      BY <1>2, <1>3, <2>1
    <3>2. i = (i - 3) + 3
      BY <3>1
    <3> QED  BY <3>1, <3>2
  <2>3. Ordered(c, next)
    <3> SUFFICES ASSUME NEW i \in DOMAIN next, NEW j \in DOMAIN next, i < j
                 PROVE  /\ next[j].node \notin Below(c, next[i].node)
                        /\ ~ next[j].back => next[i].node \notin Below(c, next[j].node)
      BY DEF Ordered
    <3>1. CASE j \in {1, 2, 3}
      <4>1. (i = 1 /\ j = 2) \/ (i = 1 /\ j = 3) \/ (i = 2 /\ j = 3)
        BY <1>l, <2>d, <3>1
      <4> QED  BY <1>8, <2>1, <4>1
    <3>2. ASSUME NEW k \in 1 .. Len(rest), j = k + 3
          PROVE  /\ next[j].node \notin Below(c, next[i].node)
                 /\ ~ next[j].back => next[i].node \notin Below(c, next[j].node)
      <4>1. next[j] = rest[k]
        BY <2>1, <3>2
      <4>2. CASE i \in {1, 2, 3}
        BY <1>4, <1>6, <2>1, <4>1, <4>2
      <4>3. ASSUME NEW h \in 1 .. Len(rest), i = h + 3
            PROVE  /\ next[j].node \notin Below(c, next[i].node)
                   /\ ~ next[j].back => next[i].node \notin Below(c, next[j].node)
        <5>1. next[i] = rest[h] /\ h < k
          BY <2>1, <3>2, <4>3
        <5> QED  BY <1>5, <4>1, <5>1
      <4> QED  BY <2>2, <4>2, <4>3
    <3> QED  BY <2>2, <3>1, <3>2
  <2>4. ASSUME NEW m \in Inner(c), Pending(c, td, m) PROVE Pending(c, next, m)
    <3>1. PICK i \in DOMAIN td : Covers(c, td[i], m)
      BY <2>4 DEF Pending
    <3>2. CASE i = 1
      <4>1. m = n \/ m \in Below(c, Left(n)) \/ m \in Below(c, Right(n))
        BY <1>1, <1>7, <3>1, <3>2 DEF Covers
      <4>2. 1 \in DOMAIN next /\ 2 \in DOMAIN next /\ 3 \in DOMAIN next
        BY <1>2, <1>3, <2>1
      <4> QED  BY <2>1, <4>1, <4>2 DEF Pending, Covers
    <3>3. CASE i # 1
      <4>1. i - 1 \in 1 .. Len(rest) /\ (i - 1) + 1 = i
        BY <1>1, <3>3
      <4>2. (i - 1) + 3 \in DOMAIN next
        BY <1>l, <2>d, <4>1
      <4>3. next[(i - 1) + 3] = td[i]
        BY <1>1, <2>1, <4>1
      <4> QED  BY <3>1, <4>2, <4>3 DEF Pending
    <3> QED  BY <3>2, <3>3
  <2> QED  BY <2>3, <2>4 DEF Computing, next
<1>10. CASE Left(n) \notin Inner(c)
  <2>1. /\ Len(next) = Len(rest) + 1 /\ next[1].node = n /\ next[1].back
        /\ Right(n) \notin Inner(c)
        /\ \A i \in 1 .. Len(rest) : next[i + 1] = rest[i]
    BY <1>2, <1>10 DEF Expands
  <2>d. DOMAIN next = 1 .. (Len(rest) + 1)
    BY <1>3, <2>1
  <2>2. \A i \in DOMAIN next : i = 1 \/ \E j \in 1 .. Len(rest) : i = j + 1
    <3> TAKE i \in DOMAIN next
    <3>1. i \in Nat /\ (i = 1 \/ i - 1 \in 1 .. Len(rest))
      BY <1>2, <1>3, <2>1
    <3>2. i = (i - 1) + 1
      BY <3>1
    <3> QED  BY <3>1, <3>2
  <2>3. Ordered(c, next)
    <3> SUFFICES ASSUME NEW i \in DOMAIN next, NEW j \in DOMAIN next, i < j
                 PROVE  /\ next[j].node \notin Below(c, next[i].node)
                        /\ ~ next[j].back => next[i].node \notin Below(c, next[j].node)
      BY DEF Ordered
    <3>1. j # 1
      BY <1>2, <1>3, <2>1
    <3>2. PICK k \in 1 .. Len(rest) : j = k + 1
      BY <2>2, <3>1
    <3>3. next[j] = rest[k]
      BY <2>1, <3>2
    <3>4. CASE i = 1
      BY <1>4, <2>1, <3>3, <3>4
    <3>5. ASSUME NEW h \in 1 .. Len(rest), i = h + 1
          PROVE  /\ next[j].node \notin Below(c, next[i].node)
                 /\ ~ next[j].back => next[i].node \notin Below(c, next[j].node)
      <4>1. next[i] = rest[h] /\ h < k
        BY <2>1, <3>2, <3>5
      <4> QED  BY <1>5, <3>3, <4>1
    <3> QED  BY <2>2, <3>4, <3>5
  <2>4. ASSUME NEW m \in Inner(c), Pending(c, td, m) PROVE Pending(c, next, m)
    <3>1. PICK i \in DOMAIN td : Covers(c, td[i], m)
      BY <2>4 DEF Pending
    <3>2. CASE i = 1
      <4>1. m \in Below(c, n)
        BY <1>1, <3>1, <3>2 DEF Covers
      <4>2. m = n
        <5>1. \A x \in {Left(n), Right(n)} : m \in Below(c, x) => m = x
          BY <1>n, <2>1, <1>10, BelowSplit
        <5> QED  BY <1>7, <1>10, <2>1, <2>4, <4>1, <5>1
      <4>3. 1 \in DOMAIN next
        BY <1>2, <1>3, <2>1
      <4> QED  BY <2>1, <4>2, <4>3 DEF Pending, Covers
    <3>3. CASE i # 1
      <4>1. i - 1 \in 1 .. Len(rest) /\ (i - 1) + 1 = i
        BY <1>1, <3>3
      <4>2. (i - 1) + 1 \in DOMAIN next
        BY <1>l, <2>d, <4>1
      <4>3. next[(i - 1) + 1] = td[i]
        BY <1>1, <2>1, <4>1
      <4> QED  BY <3>1, <4>2, <4>3 DEF Pending
    <3> QED  BY <3>2, <3>3
  <2> QED  BY <2>3, <2>4 DEF Computing, next
<1> QED  BY <1>9, <1>10

\* An inner node, its children back, is combined.
Combine(comp, n) == IF {Left(n), Right(n)} \subseteq comp THEN comp \cup {n} ELSE comp \ {n}

LEMMA ComputeUp ==
  ASSUME NEW c \in Nat \ {0}, PowerOfTwo(c), NEW comp, NEW next, NEW C, TreeSet(c, C),
         NEW td \in Seq(CallsTo(Inner(c))), td # <<>>, Computing(c, comp, C, td),
         Head(td).back, NEW n, n = Head(td).node, next = Combine(comp, n)
  PROVE  n \in Inner(c) /\ Agree(next, C, n) /\ Computing(c, next, C, Tail(td))
<1> DEFINE rest == Tail(td)
<1>1. /\ n \in Inner(c) /\ td[1].node = n /\ td[1].back /\ rest \in Seq(CallsTo(Inner(c)))
      /\ DOMAIN td = 1 .. Len(td) /\ Len(td) \in Nat \ {0} /\ Len(rest) = Len(td) - 1
      /\ DOMAIN rest = 1 .. Len(rest)
      /\ \A i \in 1 .. Len(rest) : rest[i] = td[i + 1] /\ i + 1 \in DOMAIN td
      /\ 1 \in DOMAIN td
  BY FirstCall
<1>n. n \in Nodes(c) /\ Left(n) \in Nodes(c) /\ Right(n) \in Nodes(c)
  BY <1>1, ChildrenAlike
<1> HIDE DEF rest
<1>2. \A i \in 1 .. Len(rest) :
        /\ rest[i].node \in Nodes(c) /\ rest[i].node \notin Below(c, n)
        /\ ~ rest[i].back => n \notin Below(c, rest[i].node)
  <2> TAKE i \in 1 .. Len(rest)
  <2>1. rest[i] \in CallsTo(Inner(c))
    BY <1>1, ElementOfSeq
  <2>2. rest[i].node \in Nodes(c)
    BY <2>1 DEF CallsTo, Inner, Nodes
  <2>3. rest[i] = td[i + 1] /\ i + 1 \in DOMAIN td /\ 1 < i + 1
    BY <1>1
  <2>4. /\ td[i + 1].node \notin Below(c, td[1].node)
        /\ ~ td[i + 1].back => td[1].node \notin Below(c, td[i + 1].node)
    BY <1>1, <2>3 DEF Computing, Ordered
  <2> QED  BY <1>1, <2>2, <2>3, <2>4
<1>3. ASSUME NEW m \in {Left(n), Right(n)} PROVE Agree(comp, C, m)
  <2>1. m \in Below(c, n) /\ Parent(m) = n /\ m # n /\ m \in Nodes(c)
    <3>1. m \in Below(c, n) /\ Parent(m) = n /\ m \in Nodes(c)
      BY <1>1, <1>n, BelowFacts, ChildFacts
    <3>2. m # n
      BY <1>1 DEF Inner, Left, Right
    <3> QED  BY <3>1, <3>2
  <2>2. CASE m \in Inner(c)
    <3> SUFFICES ASSUME Pending(c, td, m) PROVE FALSE
      BY <2>2 DEF Computing
    <3>1. PICK i \in DOMAIN td : Covers(c, td[i], m)
      BY DEF Pending
    <3>2. i # 1
      BY <1>1, <2>1, <3>1 DEF Covers
    <3>3. i - 1 \in 1 .. Len(rest) /\ rest[i - 1] = td[i]
      BY <1>1, <3>2
    <3>4. td[i].node \in Nodes(c) /\ td[i].node # m /\ ~ (n \in Below(c, td[i].node) /\ ~ td[i].back)
      BY <1>2, <2>1, <3>3
    <3>5. ~ td[i].back /\ m \in Below(c, td[i].node)
      BY <3>1, <3>4 DEF Covers
    <3>6. n \in Below(c, td[i].node)
      BY <2>1, <3>4, <3>5, BelowSplit
    <3> QED  BY <3>4, <3>5, <3>6
  <2>3. CASE m \notin Inner(c)
    <3>1. PICK k \in Chunks(c) : m = Leaf(c, k)
      BY <2>1, <2>3, InnerOrLeaf
    <3> QED  BY <3>1 DEF Computing, LeavesAgree, Chunks
  <2> QED  BY <2>2, <2>3
<1>4. Agree(next, C, n)
  BY <1>1, <1>3 DEF Agree, TreeSet, Combine
<1>5. \A m \in Nodes(c) : Agree(comp, C, m) => Agree(next, C, m)
  BY <1>4 DEF Agree, Combine
<1>6. LeavesAgree(c, next, C, c + 1)
  BY <1>5, LeafFacts DEF Computing, LeavesAgree
<1>7. Ordered(c, rest)
  <2> SUFFICES ASSUME NEW i \in DOMAIN rest, NEW j \in DOMAIN rest, i < j
               PROVE  /\ rest[j].node \notin Below(c, rest[i].node)
                      /\ ~ rest[j].back => rest[i].node \notin Below(c, rest[j].node)
    BY DEF Ordered
  <2>1. i + 1 < j + 1 /\ i + 1 \in DOMAIN td /\ j + 1 \in DOMAIN td
    BY <1>1
  <2>2. rest[i] = td[i + 1] /\ rest[j] = td[j + 1]
    BY <1>1
  <2> QED  BY <2>1, <2>2 DEF Computing, Ordered
<1>8. ASSUME NEW m \in Inner(c), ~ Agree(next, C, m) PROVE Pending(c, rest, m)
  <2>1. m # n /\ m \in Nodes(c) /\ ~ Agree(comp, C, m)
    <3>1. m \in Nodes(c)
      BY DEF Inner, Nodes
    <3> QED  BY <1>4, <1>5, <1>8, <3>1
  <2>2. PICK i \in DOMAIN td : Covers(c, td[i], m)
    BY <2>1 DEF Computing, Pending
  <2>3. i # 1
    BY <1>1, <2>1, <2>2 DEF Covers
  <2>4. i - 1 \in DOMAIN rest /\ rest[i - 1] = td[i]
    BY <1>1, <2>3
  <2> QED  BY <2>2, <2>4 DEF Pending
<1> QED  BY <1>1, <1>4, <1>6, <1>7, <1>8 DEF Computing, rest

\* The first call covers the whole tree; when none is left, every node is computed.
LEMMA ComputeEnds ==
  ASSUME NEW c \in Nat \ {0}, NEW comp, NEW C
  PROVE  /\ LeavesAgree(c, comp, C, c + 1) => Computing(c, comp, C, <<Call(0)>>)
         /\ Computing(c, comp, C, <<>>) => AllAgree(c, comp, C)
<1>1. ASSUME LeavesAgree(c, comp, C, c + 1) PROVE Computing(c, comp, C, <<Call(0)>>)
  <2> DEFINE td == <<Call(0)>>
  <2>1. DOMAIN td = {1} /\ td[1].node = 0 /\ ~ td[1].back
    BY DEF Call
  <2> HIDE DEF td
  <2>2. \A m \in Inner(c) : Pending(c, td, m)
    BY <2>1, BelowRoot DEF Pending, Covers, Inner, Nodes
  <2>3. Ordered(c, td)
    BY <2>1 DEF Ordered
  <2> QED  BY <1>1, <2>2, <2>3 DEF Computing, td
<1>2. ASSUME Computing(c, comp, C, <<>>) PROVE AllAgree(c, comp, C)
  <2> SUFFICES ASSUME NEW m \in Nodes(c) PROVE Agree(comp, C, m)
    BY DEF AllAgree
  <2>1. CASE m \in Inner(c)
    BY <1>2, <2>1 DEF Computing, Pending
  <2>2. CASE m \notin Inner(c)
    <3>1. PICK k \in Chunks(c) : m = Leaf(c, k)
      BY <2>2, InnerOrLeaf
    <3> QED  BY <1>2, <3>1 DEF Computing, LeavesAgree, Chunks
  <2> QED  BY <2>1, <2>2
<1> QED  BY <1>1, <1>2

\* The calls that follow at a node that is not complete
Visits(c, n, rest, next) ==
  \/ /\ n \in Inner(c) /\ Len(next) = Len(rest) + 2
     /\ next[1].node = Left(n) /\ next[2].node = Right(n)
     /\ \A i \in 1 .. Len(rest) : next[i + 2] = rest[i]
  \/ n \notin Inner(c) /\ next = rest

LEMMA VisitCalls ==
  ASSUME NEW c \in Nat \ {0}, NEW n \in Nodes(c), NEW rest \in Seq(CallsTo(Nodes(c))),
         NEW next, next = Calls(Children(c, n)) \o rest
  PROVE  next \in Seq(CallsTo(Nodes(c))) /\ Visits(c, n, rest, next)
<1> DEFINE S == CallsTo(Nodes(c))
           l == Call(Left(n))
           r == Call(Right(n))
<1>1. CASE n \in Inner(c)
  <2>1. l \in S /\ r \in S /\ l.node = Left(n) /\ r.node = Right(n)
    BY <1>1, ChildFacts DEF Call, CallsTo
  <2>2. Calls(Children(c, n)) = <<l, r>>
    BY <1>1 DEF Calls, Children
  <2> HIDE DEF l, r, S
  <2>3. next = <<l, r>> \o rest
    BY <2>2
  <2>4. /\ next \in Seq(S) /\ Len(next) = Len(rest) + 2 /\ next[1] = l /\ next[2] = r
        /\ \A i \in 1 .. Len(rest) : next[i + 2] = rest[i]
    BY <2>1, <2>3, PrependTwo DEF S
  <2> QED  BY <1>1, <2>1, <2>4 DEF S, Visits
<1>2. CASE n \notin Inner(c)
  <2>1. Calls(Children(c, n)) = <<>>
    BY <1>2 DEF Calls, Children
  <2>2. next = rest
    BY <2>1, ConcatEmptySeq
  <2> QED  BY <1>2, <2>2 DEF Visits
<1> QED  BY <1>1, <1>2

\* The query that is built, from the first node on
LEMMA VisitStarts ==
  ASSUME NEW c \in Nat \ {0}, NEW C, TreeSet(c, C)
  PROVE  Visiting(c, C, <<Call(0)>>, {}) /\ <<Call(0)>> \in Seq(CallsTo(Nodes(c)))
<1> DEFINE td == <<Call(0)>>
<1>1. Call(0) \in CallsTo(Nodes(c))
  BY DEF Call, CallsTo, Nodes
<1>2. DOMAIN td = {1} /\ td[1].node = 0
  BY DEF Call
<1>3. td \in Seq(CallsTo(Nodes(c)))
  BY <1>1, ShortSeqs
<1> HIDE DEF td
<1>4. Highest(C) \subseteq Nodes(c)
  BY DEF Highest, TreeSet
<1>5. Visiting(c, C, td, {})
  BY <1>2, <1>4, BelowRoot DEF Visiting
<1> QED  BY <1>3, <1>5 DEF td

LEMMA VisitFound ==
  ASSUME NEW c \in Nat \ {0}, NEW C, TreeSet(c, C), NEW f,
         NEW td \in Seq(CallsTo(Nodes(c))), td # <<>>, Visiting(c, C, td, f),
         NEW n, n = Head(td).node, n \in C
  PROVE  Visiting(c, C, Tail(td), f \cup {n})
<1> DEFINE rest == Tail(td)
<1>1. /\ n \in Nodes(c) /\ td[1].node = n /\ DOMAIN td = 1 .. Len(td)
      /\ Len(td) \in Nat \ {0} /\ Len(rest) = Len(td) - 1 /\ DOMAIN rest = 1 .. Len(rest)
      /\ \A i \in 1 .. Len(rest) : rest[i] = td[i + 1] /\ i + 1 \in DOMAIN td
      /\ 1 \in DOMAIN td
  BY FirstCall
<1> HIDE DEF rest
<1>2. n \in Highest(C)
  BY <1>1 DEF Visiting, Highest
<1>3. ASSUME NEW m \in Highest(C), m \in Below(c, n) PROVE m = n
  <2> SUFFICES ASSUME m # n PROVE FALSE
    OBVIOUS
  <2>1. m # 0 /\ Parent(m) \in Below(c, n)
    BY <1>1, <1>3, BelowSplit
  <2>2. Parent(m) \in C
    BY <2>1, CompleteBelow
  <2> QED  BY <2>1, <2>2 DEF Highest
<1>4. ASSUME NEW m \in Highest(C), m \notin f \cup {n}
      PROVE  \E i \in DOMAIN rest : m \in Below(c, rest[i].node)
  <2>1. PICK i \in DOMAIN td : m \in Below(c, td[i].node)
    BY <1>4 DEF Visiting
  <2>2. i # 1
    BY <1>1, <1>3, <1>4, <2>1
  <2>3. i - 1 \in DOMAIN rest /\ rest[i - 1] = td[i]
    BY <1>1, <2>2
  <2> QED  BY <2>1, <2>3
<1>5. \A i \in DOMAIN rest : rest[i].node = 0 \/ Parent(rest[i].node) \notin C
  BY <1>1 DEF Visiting
<1> QED  BY <1>2, <1>4, <1>5 DEF Visiting, rest

LEMMA VisitDown ==
  ASSUME NEW c \in Nat \ {0}, NEW C, TreeSet(c, C), NEW f,
         NEW td \in Seq(CallsTo(Nodes(c))), td # <<>>, Visiting(c, C, td, f),
         NEW n, n = Head(td).node, n \notin C,
         NEW next, next = Calls(Children(c, n)) \o Tail(td)
  PROVE  Visiting(c, C, next, f) /\ next \in Seq(CallsTo(Nodes(c)))
<1> DEFINE rest == Tail(td)
<1>1. /\ n \in Nodes(c) /\ td[1].node = n /\ DOMAIN td = 1 .. Len(td)
      /\ rest \in Seq(CallsTo(Nodes(c)))
      /\ Len(td) \in Nat \ {0} /\ Len(rest) = Len(td) - 1 /\ DOMAIN rest = 1 .. Len(rest)
      /\ \A i \in 1 .. Len(rest) : rest[i] = td[i + 1] /\ i + 1 \in DOMAIN td
      /\ 1 \in DOMAIN td
  BY FirstCall
<1>e. next = Calls(Children(c, n)) \o rest
  OBVIOUS
<1> HIDE DEF rest
<1>2. next \in Seq(CallsTo(Nodes(c))) /\ Visits(c, n, rest, next)
  BY <1>1, <1>e, VisitCalls
<1>3. DOMAIN next = 1 .. Len(next)
  BY <1>2, LenProperties
<1>l. Len(rest) \in Nat
  BY <1>1
<1>4. \A i \in DOMAIN rest : rest[i].node = 0 \/ Parent(rest[i].node) \notin C
  BY <1>1 DEF Visiting
<1>5. \A m \in Highest(C) : \/ m \in f
                            \/ m \in Below(c, n)
                            \/ \E i \in DOMAIN rest : m \in Below(c, rest[i].node)
  <2> TAKE m \in Highest(C)
  <2>1. ASSUME NEW i \in DOMAIN td, m \in Below(c, td[i].node), i # 1
        PROVE  \E j \in DOMAIN rest : m \in Below(c, rest[j].node)
    <3>1. i - 1 \in DOMAIN rest /\ rest[i - 1] = td[i]
      BY <1>1, <2>1
    <3> QED  BY <2>1, <3>1
  <2> QED  BY <1>1, <2>1 DEF Visiting
<1>6. \A m \in Highest(C) : m # n
  BY DEF Highest
<1>7. CASE n \in Inner(c)
  <2>1. /\ Len(next) = Len(rest) + 2
        /\ next[1].node = Left(n) /\ next[2].node = Right(n)
        /\ \A i \in 1 .. Len(rest) : next[i + 2] = rest[i]
    BY <1>2, <1>7 DEF Visits
  <2>2. DOMAIN next = 1 .. (Len(rest) + 2)
    BY <1>3, <2>1
  <2>3. \A i \in DOMAIN next : next[i].node = 0 \/ Parent(next[i].node) \notin C
    <3> TAKE i \in DOMAIN next
    <3>1. CASE i \in {1, 2}
      <4>1. Parent(Left(n)) = n /\ Parent(Right(n)) = n
        BY <1>7, ChildFacts
      <4> QED  BY <2>1, <3>1, <4>1
    <3>2. CASE i \notin {1, 2}
      <4>1. i - 2 \in 1 .. Len(rest) /\ (i - 2) + 2 = i
        BY <1>l, <2>2, <3>2
      <4>2. next[(i - 2) + 2] = rest[i - 2]
        BY <2>1, <4>1
      <4> QED  BY <1>1, <1>4, <4>1, <4>2
    <3> QED  BY <3>1, <3>2
  <2>4. ASSUME NEW m \in Highest(C), m \notin f
        PROVE  \E i \in DOMAIN next : m \in Below(c, next[i].node)
    <3>1. CASE m \in Below(c, n)
      <4>1. m \in Below(c, Left(n)) \cup Below(c, Right(n))
        BY <1>1, <1>6, <3>1, BelowSplit
      <4>2. 1 \in DOMAIN next /\ 2 \in DOMAIN next
        BY <1>l, <2>2
      <4> QED  BY <2>1, <4>1, <4>2
    <3>2. ASSUME NEW i \in DOMAIN rest, m \in Below(c, rest[i].node)
          PROVE  \E j \in DOMAIN next : m \in Below(c, next[j].node)
      <4>1. i + 2 \in DOMAIN next
        BY <1>1, <1>l, <2>2
      <4>2. next[i + 2] = rest[i]
        BY <1>1, <2>1
      <4> QED  BY <3>2, <4>1, <4>2
    <3> QED  BY <1>5, <2>4, <3>1, <3>2
  <2> QED  BY <1>2, <2>3, <2>4 DEF Visiting
<1>8. CASE n \notin Inner(c)
  <2>1. next = rest
    BY <1>2, <1>8 DEF Visits
  <2>2. \A m \in Highest(C) : m \notin Below(c, n)
    BY <1>1, <1>6, <1>8, BelowSplit
  <2> QED  BY <1>2, <1>4, <1>5, <2>1, <2>2 DEF Visiting
<1> QED  BY <1>7, <1>8

LEMMA VisitEnds ==
  ASSUME NEW c \in Nat \ {0}, NEW C, NEW f, Visiting(c, C, <<>>, f)
  PROVE  f = Highest(C)
BY DEF Visiting

(* ------------------------------ invariants ----------------------------- *)
InScan(t) == Scanning(t) \/ pc[t] = "check"

\* Whoever scans the tree of an undisturbed scan is itself undisturbed.
SettledTogether ==
  \A t, u \in Thread :
    InScan(t) /\ settled[t] /\ Scanning(u) /\ obj[u] = obj[t] => settled[u]

Ranges(t) ==
  /\ pc[t] \in {"hash", "store"} => idx[t] \in Chunks(Count(obj[t]))
  /\ pc[t] \notin {"hash", "store"} => idx[t] = 1
  /\ pc[t] = "compute" => todo[t] \in Seq(CallsTo(Inner(Count(obj[t]))))
  /\ pc[t] = "visit" => todo[t] \in Seq(CallsTo(Nodes(Count(obj[t]))))
  /\ found[t] # {} => pc[t] \in {"visit", "check"}

\* A computed hash belongs to a node of the tree.
ComputedInTree ==
  /\ \A o \in 1 .. Len(made) : computed[o] \subseteq Nodes(Count(o))
  /\ \A o \in Object : o > Len(made) => computed[o] = {}

\* No file is longer than its package, and what is right of it lies within.
LengthsOK ==
  \A p \in Pkg : length[p] <= NChunks[p] /\ right[p] \subseteq 1 .. length[p]

WholeFile(p) == p \in exists /\ length[p] = NChunks[p]

\* How far an undisturbed scan has come
Undisturbed(t) ==
  LET o == obj[t]  p == PkgOf(o)  c == Count(o)  C == Complete(p) IN
  /\ p \in exists
  /\ pc[t] = "hash" => /\ idx[t] <= length[p] + 1
                       /\ LeavesAgree(c, computed[o], C, idx[t])
  /\ pc[t] = "store" => /\ idx[t] <= length[p]
                        /\ snap[t] = {idx[t]} \cap right[p]
                        /\ LeavesAgree(c, computed[o], C, idx[t])
  /\ pc[t] = "compute" => WholeFile(p) /\ Computing(c, computed[o], C, todo[t])
  /\ pc[t] = "visit" => /\ WholeFile(p) /\ AllAgree(c, computed[o], C)
                        /\ Visiting(c, C, todo[t], found[t])
  /\ pc[t] = "check" => \/ ~ WholeFile(p) /\ found[t] = {}
                        \/ /\ WholeFile(p) /\ AllAgree(c, computed[o], C)
                           /\ found[t] = Highest(C)
UndisturbedInv == \A t \in Thread : InScan(t) /\ settled[t] => Undisturbed(t)
RangesInv == \A t \in Thread : Ranges(t)

SettledInv ==
  SettledTogether /\ RangesInv /\ ComputedInTree /\ LengthsOK /\ UndisturbedInv

\* The tree of a package
LEMMA PackageTree ==
  ASSUME NEW p \in Pkg
  PROVE  /\ NChunks[p] \in Nat \ {0} /\ PowerOfTwo(NChunks[p])
         /\ TreeSet(NChunks[p], Complete(p))
         /\ \A k \in Chunks(NChunks[p]) :
              Leaf(NChunks[p], k) \in Complete(p) <=> k \in right[p]
<1> DEFINE c == NChunks[p]
<1>1. c \in Nat \ {0} /\ PowerOfTwo(c) /\ \A n \in Nodes(c) : Under[p][n] = Covered(c, n)
  BY UnderFacts, PackageAssumption
<1> HIDE DEF c
<1>2. \A n \in Nodes(c) : n \in Complete(p) <=> Covered(c, n) \subseteq right[p]
  BY <1>1 DEF Complete, CoversOnly, c
<1>3. Complete(p) \subseteq Nodes(c)
  BY DEF Complete, CoversOnly, c
<1>4. ASSUME NEW n \in Inner(c) PROVE n \in Complete(p) <=> {Left(n), Right(n)} \subseteq Complete(p)
  <2>1. n \in Nodes(c) /\ Left(n) \in Nodes(c) /\ Right(n) \in Nodes(c)
    BY <1>1, ChildrenAlike
  <2>2. Covered(c, n) = Covered(c, Left(n)) \cup Covered(c, Right(n))
    BY <1>1, CoveredInner
  <2> QED  BY <1>2, <2>1, <2>2
<1>5. ASSUME NEW k \in Chunks(c) PROVE Leaf(c, k) \in Complete(p) <=> k \in right[p]
  <2>1. Leaf(c, k) \in Nodes(c) /\ Covered(c, Leaf(c, k)) = {k}
    BY <1>1, <1>5, LeafFacts, CoveredLeaf
  <2> QED  BY <1>2, <2>1
<1> QED  BY <1>1, <1>3, <1>4, <1>5 DEF TreeSet, c

\* What agrees goes on agreeing: the loops stay where they are.
LEMMA LoopsKept ==
  ASSUME NEW c \in Nat \ {0}, NEW comp, NEW next, NEW C,
         \A m \in Nodes(c) : Agree(comp, C, m) => Agree(next, C, m)
  PROVE  /\ \A i : LeavesAgree(c, comp, C, i) => LeavesAgree(c, next, C, i)
         /\ \A td : Computing(c, comp, C, td) => Computing(c, next, C, td)
         /\ AllAgree(c, comp, C) => AllAgree(c, next, C)
<1>1. \A i : LeavesAgree(c, comp, C, i) => LeavesAgree(c, next, C, i)
  BY LeafFacts DEF LeavesAgree
<1>2. Inner(c) \subseteq Nodes(c)
  BY DEF Inner, Nodes
<1> QED  BY <1>1, <1>2 DEF Computing, AllAgree

\* The package a thread points to in a scan, and what is known of it after a step
LEMMA PointerKept ==
  ASSUME TypeInv, [Next]_vars, NEW t \in Thread, pc[t] \in Using, obj'[t] = obj[t]
  PROVE  /\ obj[t] \in 1 .. Len(made) /\ obj[t] \in Object /\ PkgOf(obj[t]) \in Pkg
         /\ Count(obj[t]) = NChunks[PkgOf(obj[t])] /\ Count(obj[t]) \in Nat \ {0}
         /\ PkgOf(obj[t])' = PkgOf(obj[t]) /\ Count(obj[t])' = Count(obj[t])
<1>1. /\ obj[t] \in 1 .. Len(made) /\ obj[t] \in Object /\ PkgOf(obj[t]) \in Pkg
      /\ Count(obj[t]) = NChunks[PkgOf(obj[t])] /\ Count(obj[t]) \in Nat \ {0}
  BY UsedPointer
<1>2. PkgOf(obj[t])' = PkgOf(obj[t])
  BY <1>1, SamePackages DEF PkgOf
<1> QED  BY <1>1, <1>2 DEF Count

\* A step of another thread that does not touch the file of an undisturbed scan and
\* leaves the nodes that agree.
LEMMA UndisturbedKept ==
  ASSUME TypeInv, [Next]_vars, NEW t \in Thread, InScan(t), Undisturbed(t),
         pc'[t] = pc[t], obj'[t] = obj[t], idx'[t] = idx[t], snap'[t] = snap[t],
         todo'[t] = todo[t], found'[t] = found[t],
         NEW p, p = PkgOf(obj[t]),
         p \in exists' <=> p \in exists, length'[p] = length[p], right'[p] = right[p],
         \A m \in Nodes(Count(obj[t])) : Agree(computed[obj[t]], Complete(p), m)
           => Agree(computed'[obj[t]], Complete(p), m)
  PROVE  Undisturbed(t)'
<1> DEFINE o == obj[t]
           c == Count(o)
           C == Complete(p)
<1>1. /\ p \in Pkg /\ c = NChunks[p] /\ c \in Nat \ {0}
      /\ PkgOf(obj[t])' = p /\ Count(obj[t])' = c
  BY PointerKept DEF InScan, Scanning, Using
<1>2. Complete(PkgOf(obj[t]))' = C
  BY <1>1 DEF Complete, CoversOnly
<1>3. WholeFile(PkgOf(obj[t]))' <=> WholeFile(p)
  BY <1>1 DEF WholeFile
<1>4. /\ \A i : LeavesAgree(c, computed[o], C, i) => LeavesAgree(c, computed'[o], C, i)
      /\ \A td : Computing(c, computed[o], C, td) => Computing(c, computed'[o], C, td)
      /\ AllAgree(c, computed[o], C) => AllAgree(c, computed'[o], C)
  <2> HIDE DEF c, C, o
  <2>1. \A m \in Nodes(c) : Agree(computed[o], C, m) => Agree(computed'[o], C, m)
    BY DEF c, C, o
  <2> QED  BY <1>1, <2>1, LoopsKept
<1> HIDE DEF o, c, C
<1>5. computed[obj[t]]' = computed'[o] /\ obj[t]' = o
  BY DEF o
<1>6. /\ p \in exists
      /\ pc[t] = "hash" => idx[t] <= length[p] + 1 /\ LeavesAgree(c, computed[o], C, idx[t])
      /\ pc[t] = "store" => /\ idx[t] <= length[p]
                            /\ snap[t] = {idx[t]} \cap right[p]
                            /\ LeavesAgree(c, computed[o], C, idx[t])
      /\ pc[t] = "compute" => WholeFile(p) /\ Computing(c, computed[o], C, todo[t])
      /\ pc[t] = "visit" => /\ WholeFile(p) /\ AllAgree(c, computed[o], C)
                            /\ Visiting(c, C, todo[t], found[t])
      /\ pc[t] = "check" => (\/ ~ WholeFile(p) /\ found[t] = {}
                             \/ /\ WholeFile(p) /\ AllAgree(c, computed[o], C)
                                /\ found[t] = Highest(C))
  BY DEF Undisturbed, o, c, C
<1> QED  BY <1>1, <1>2, <1>3, <1>4, <1>5, <1>6 DEF Undisturbed

(* ------------------------- steps outside the scans --------------------- *)
\* A thread that a step leaves where it is
Still(t) ==
  /\ pc'[t] = pc[t] /\ obj'[t] = obj[t] /\ idx'[t] = idx[t] /\ snap'[t] = snap[t]
  /\ todo'[t] = todo[t] /\ found'[t] = found[t] /\ settled'[t] = settled[t]
\* One that ends outside the scans
Elsewhere(t) ==
  /\ pc[t] \notin {"hash", "store"}
  /\ pc'[t] \notin {"hash", "store", "compute", "visit", "check"}
  /\ idx'[t] = idx[t] /\ found'[t] = {}
Outside ==
  /\ UNCHANGED <<computed, exists, length, right>>
  /\ \A t \in Thread : Still(t) \/ Elsewhere(t)

LEMMA OutsideSteps ==
  ASSUME TypeInv, RangesInv, [Next]_vars
  PROVE  \/ Outside
         \/ \E t \in Thread : Scan(t) \/ CreateFile(t) \/ WriteChunk(t)
<1> USE DEF tableVars, fileVars, scanVars, At, Goto
<1>0. /\ Main \in Thread
      /\ pc \in [Thread -> Using \cup {"idle", "lookup", "append", "send"}]
      /\ obj \in [Thread -> 0 .. MaxObjects]
      /\ found \in [Thread -> SUBSET Nat] /\ settled \in [Thread -> BOOLEAN]
  BY DEF TypeInv, TypeOK, Thread
<1>l. \A t \in Thread : pc[t] \notin {"visit", "check"} => found[t] = {}
  BY DEF RangesInv, Ranges
<1>1. ASSUME UNCHANGED <<computed, exists, length, right>>, NEW t \in Thread,
             pc[t] \notin {"hash", "store"},
             pc'[t] \notin {"hash", "store", "compute", "visit", "check"},
             UNCHANGED <<idx, snap, todo>>,
             \/ UNCHANGED <<found, settled>> /\ pc[t] \notin {"visit", "check"}
             \/ EndQuery(t),
             \A u \in Thread \ {t} : pc'[u] = pc[u] /\ obj'[u] = obj[u]
      PROVE  Outside
  <2>1. Elsewhere(t)
    BY <1>0, <1>1, <1>l DEF Elsewhere, EndQuery
  <2>2. \A u \in Thread \ {t} : Still(u)
    BY <1>0, <1>1 DEF Still, EndQuery
  <2> QED  BY <1>1, <2>1, <2>2 DEF Outside
<1>2. ASSUME UNCHANGED <<computed, exists, length, right, pc, obj, scanVars, settled>>
      PROVE  Outside
  BY <1>2 DEF Outside, Still
<1>3. ASSUME Command PROVE Outside
  <2>1. ASSUME NEW f \in BpkgFile, AddPackage(f) PROVE Outside
    <3>1. pc[Main] = "idle" /\ pc'[Main] = "append"
      BY <1>0, <2>1 DEF AddPackage
    <3> QED  BY <1>0, <1>1, <2>1, <3>1 DEF AddPackage
  <2>2. ASSUME NEW p \in Pkg, RemovePackage(p) PROVE Outside
    BY <1>2, <2>2 DEF RemovePackage
  <2>3. ASSUME ListPackages PROVE Outside
    <3>1. pc[Main] = "idle" /\ pc'[Main] = "open"
      BY <1>0, <2>3 DEF ListPackages
    <3> QED  BY <1>0, <1>1, <2>3, <3>1 DEF ListPackages
  <2> QED  BY <1>3, <2>1, <2>2, <2>3 DEF Command
<1>4. ASSUME NEW e \in Incoming, Receive(e[1], e[2]) PROVE Outside
  <2>1. e[1] \in Thread
    BY ThreadAssumption DEF Thread
  <2>2. pc[e[1]] = "idle" /\ pc'[e[1]] = "lookup"
    BY <1>0, <1>4, <2>1 DEF Receive
  <2>3. \A u \in Thread \ {e[1]} : pc'[u] = pc[u] /\ obj'[u] = obj[u]
    BY <1>0, <1>4 DEF Receive
  <2> QED  BY <1>1, <1>4, <2>1, <2>2, <2>3 DEF Receive
<1>5. ASSUME AppendPackage PROVE Outside
  <2>1. pc[Main] = "append" /\ pc'[Main] = "idle"
    BY <1>0, <1>5 DEF AppendPackage
  <2> QED  BY <1>0, <1>1, <1>5, <2>1 DEF AppendPackage
<1>6. ASSUME ListNext PROVE Outside
  <2>1. pc[Main] = "check" /\ pc'[Main] \in {"open", "idle"}
    BY <1>0, <1>6 DEF ListNext
  <2>2. \A u \in Thread \ {Main} : pc'[u] = pc[u] /\ obj'[u] = obj[u]
    BY <1>0, <1>6 DEF ListNext
  <2> QED  BY <1>0, <1>1, <1>6, <2>1, <2>2 DEF ListNext
<1>7. ASSUME NEW t \in Thread, UseFreed(t) \/ UseNull(t) \/ UseNoFile(t) PROVE Outside
  BY <1>2, <1>7 DEF UseFreed, UseNull, UseNoFile
<1>8. ASSUME NEW t \in Thread, GetPackage(t) PROVE Outside
  <2>1. pc[t] = "lookup" /\ pc'[t] \in {"idle", "send", "open", "file"}
    BY <1>0, <1>8 DEF GetPackage
  <2>2. \A u \in Thread \ {t} : pc'[u] = pc[u] /\ obj'[u] = obj[u]
    BY <1>0, <1>8 DEF GetPackage
  <2> QED  BY <1>1, <1>8, <2>1, <2>2 DEF GetPackage
<1>9. ASSUME NEW t \in Thread, CheckChunk(t) PROVE Outside
  <2>1. pc[t] = "check" /\ pc'[t] \in {"serve", "send"}
    BY <1>0, <1>9 DEF CheckChunk, Done
  <2>2. \A u \in Thread \ {t} : pc'[u] = pc[u] /\ obj'[u] = obj[u]
    BY <1>0, <1>9 DEF CheckChunk, Done
  <2> QED  BY <1>1, <1>9, <2>1, <2>2 DEF CheckChunk
<1>10. ASSUME NEW t \in Thread, Serve(t) \/ Sent(t) PROVE Outside
  <2>1. pc[t] \in {"serve", "send"} /\ pc'[t] \in {"send", "idle"}
    BY <1>0, <1>10 DEF Serve, Sent, Done
  <2>2. \A u \in Thread \ {t} : pc'[u] = pc[u] /\ obj'[u] = obj[u]
    BY <1>0, <1>10 DEF Serve, Sent, Done
  <2>3. UNCHANGED <<computed, exists, length, right, idx, snap, todo, found, settled>>
    BY <1>10 DEF Serve, Sent
  <2> QED  BY <1>1, <2>1, <2>2, <2>3
<1>11. ASSUME NEW t \in Thread, FileCheck(t) PROVE Outside
  <2>1. pc[t] = "file" /\ pc'[t] \in {"write", "create"}
    BY <1>0, <1>11 DEF FileCheck
  <2>2. \A u \in Thread \ {t} : pc'[u] = pc[u] /\ obj'[u] = obj[u]
    BY <1>0, <1>11 DEF FileCheck
  <2> QED  BY <1>1, <1>11, <2>1, <2>2 DEF FileCheck
<1>12. UNCHANGED vars => Outside
  BY <1>2 DEF vars
<1> QED  BY <1>3, <1>4, <1>5, <1>6, <1>7, <1>8, <1>9, <1>10, <1>11, <1>12 DEF Next, Step

\* Steps outside the scans disturb none.
LEMMA OutsideKeeps ==
  ASSUME TypeInv, SettledInv, [Next]_vars, Outside
  PROVE  SettledInv'
<1>1. SettledTogether'
  <2>1. \A t \in Thread : InScan(t)' => InScan(t) /\ Still(t)
    BY DEF Outside, Still, Elsewhere, InScan, Scanning
  <2>2. \A t \in Thread : Scanning(t)' => Scanning(t) /\ Still(t)
    BY DEF Outside, Still, Elsewhere, Scanning
  <2> QED  BY <2>1, <2>2 DEF SettledInv, SettledTogether, Still
<1>2. RangesInv'
  <2> SUFFICES ASSUME NEW t \in Thread PROVE Ranges(t)'
    BY DEF RangesInv
  <2>0. Ranges(t)
    BY DEF SettledInv, RangesInv
  <2>1. CASE Elsewhere(t)
    BY <2>0, <2>1 DEF Elsewhere, Ranges
  <2>2. CASE Still(t) /\ pc[t] \in Using
    <3>1. Count(obj[t])' = Count(obj[t])
      BY <2>2, PointerKept DEF Still
    <3> QED  BY <2>0, <2>2, <3>1 DEF Still, Ranges
  <2>3. CASE Still(t) /\ pc[t] \notin Using
    BY <2>0, <2>3 DEF Still, Ranges, Using
  <2> QED  BY <2>1, <2>2, <2>3 DEF Outside
<1>3. ComputedInTree'
  <2>1. /\ \A o \in 1 .. Len(made) : PkgOf(o)' = PkgOf(o) /\ Count(o)' = Count(o)
        /\ Len(made') \in Nat /\ Len(made) \in Nat /\ Len(made) <= Len(made')
        /\ Len(made') <= MaxObjects /\ MaxObjects \in Nat
    BY SamePackages, NextTypeInv, ConstantFacts, LenProperties DEF TypeInv, TypeOK, Count
  <2>2. computed' = computed
    BY DEF Outside
  <2>3. ASSUME NEW o \in 1 .. Len(made') PROVE computed'[o] \subseteq Nodes(Count(o))'
    <3>1. CASE o \in 1 .. Len(made)
      BY <2>1, <2>2, <3>1 DEF SettledInv, ComputedInTree, Nodes
    <3>2. CASE o \notin 1 .. Len(made)
      BY <2>1, <2>2, <3>2 DEF SettledInv, ComputedInTree, Object
    <3> QED  BY <3>1, <3>2
  <2>4. \A o \in Object : o > Len(made') => computed'[o] = {}
    BY <2>1, <2>2 DEF SettledInv, ComputedInTree, Object
  <2> QED  BY <2>3, <2>4 DEF ComputedInTree
<1>4. LengthsOK'
  BY DEF Outside, SettledInv, LengthsOK
<1>5. UndisturbedInv'
  <2> SUFFICES ASSUME NEW t \in Thread, InScan(t)', settled'[t] PROVE Undisturbed(t)'
    BY DEF UndisturbedInv
  <2>1. InScan(t) /\ Still(t)
    BY DEF Outside, Still, Elsewhere, InScan, Scanning
  <2>2. Undisturbed(t)
    BY <2>1 DEF SettledInv, UndisturbedInv, Still
  <2> QED  BY <2>1, <2>2, UndisturbedKept DEF Outside, Still
<1> QED  BY <1>1, <1>2, <1>3, <1>4, <1>5 DEF SettledInv

(* ---------------------------- steps of a scan -------------------------- *)
\* What is to be shown of a step of one scan: that it leaves the range of its own
\* loop, gets as far as it should, and spoils no node that another scan relies on.
Settles(t) ==
  \/ /\ pc[t] = "open" /\ computed' = computed
     /\ \/ settled'[t] =
             \A u \in Thread \ {t} : Scanning(u) /\ obj[u] = obj[t] => settled[u]
        \/ ~ settled'[t] /\ ~ Scanning(t)'
  \/ /\ Scanning(t) /\ settled'[t] = settled[t]
     /\ \A o \in Object \ {obj[t]} : computed'[o] = computed[o]
     /\ computed'[obj[t]] \subseteq Nodes(Count(obj[t]))
     /\ settled[t] => \A m \in Nodes(Count(obj[t])) :
          Agree(computed[obj[t]], Complete(PkgOf(obj[t])), m)
            => Agree(computed'[obj[t]], Complete(PkgOf(obj[t])), m)

LEMMA ScanKeeps ==
  ASSUME TypeInv, SettledInv, [Next]_vars, NEW t \in Thread, Settles(t),
         UNCHANGED <<made, obj, exists, length, right>>,
         \A u \in Thread \ {t} : Still(u),
         Ranges(t)', InScan(t)' /\ settled'[t] => Undisturbed(t)'
  PROVE  SettledInv'
<1>0. pc[t] \in Using /\ (Scanning(t) => pc[t] # "open" /\ InScan(t))
  BY DEF Settles, Scanning, InScan, Using
<1>1. SettledTogether'
  <2> SUFFICES ASSUME NEW a \in Thread, NEW b \in Thread, InScan(a)', settled'[a],
                      Scanning(b)', obj[b] = obj[a]
               PROVE  settled'[b]
    BY DEF SettledTogether
  <2>1. /\ a # t => InScan(a) /\ settled[a]
        /\ b # t => Scanning(b) /\ settled'[b] = settled[b]
    BY DEF Still, InScan, Scanning
  <2>2. CASE pc[t] = "open"
    BY <2>1, <2>2 DEF Settles, Scanning, SettledInv, SettledTogether
  <2>3. CASE Scanning(t)
    BY <1>0, <2>1, <2>3 DEF Settles, SettledInv, SettledTogether
  <2> QED  BY <2>2, <2>3 DEF Settles
<1>2. RangesInv'
  <2> SUFFICES ASSUME NEW u \in Thread \ {t} PROVE Ranges(u)'
    BY DEF RangesInv
  <2>1. Ranges(u) /\ Still(u)
    BY DEF SettledInv, RangesInv
  <2>2. CASE pc[u] \in Using
    <3>1. Count(obj[u])' = Count(obj[u])
      BY <2>1, <2>2, PointerKept DEF Still
    <3> QED  BY <2>1, <3>1 DEF Still, Ranges
  <2>3. CASE pc[u] \notin Using
    BY <2>1, <2>3 DEF Still, Ranges, Using
  <2> QED  BY <2>2, <2>3
<1>3. ComputedInTree'
  <2>1. obj[t] \in 1 .. Len(made) /\ obj[t] \in Object /\ Len(made) \in Nat
    BY <1>0, UsedPointer, LenProperties DEF TypeInv, TypeOK
  <2>2. \A o \in 1 .. Len(made) : o \in Object /\ Count(o)' = Count(o)
    BY ObjectFacts DEF TypeInv, Count, PkgOf
  <2>3. \A o \in Object \ {obj[t]} : computed'[o] = computed[o]
    BY DEF Settles
  <2>4. computed'[obj[t]] \subseteq Nodes(Count(obj[t]))
    BY <2>1 DEF Settles, SettledInv, ComputedInTree
  <2>5. ASSUME NEW o \in 1 .. Len(made) PROVE computed'[o] \subseteq Nodes(Count(o))'
    <3>1. computed'[o] \subseteq Nodes(Count(o))
      BY <2>2, <2>3, <2>4 DEF SettledInv, ComputedInTree
    <3> QED  BY <2>2, <3>1 DEF Nodes
  <2>6. \A o \in Object : o > Len(made) => computed'[o] = {}
    BY <2>1, <2>3 DEF SettledInv, ComputedInTree
  <2> QED  BY <2>5, <2>6 DEF ComputedInTree
<1>4. LengthsOK'
  BY DEF SettledInv, LengthsOK
<1>5. UndisturbedInv'
  <2> SUFFICES ASSUME NEW u \in Thread \ {t}, InScan(u)', settled'[u] PROVE Undisturbed(u)'
    BY DEF UndisturbedInv
  <2>1. InScan(u) /\ Still(u) /\ settled[u]
    BY DEF Still, InScan, Scanning
  <2>2. Undisturbed(u) /\ obj[u] \in Object
    BY <2>1, UsedPointer DEF SettledInv, UndisturbedInv, InScan, Scanning, Using
  <2>3. \A m \in Nodes(Count(obj[u])) :
          Agree(computed[obj[u]], Complete(PkgOf(obj[u])), m)
            => Agree(computed'[obj[u]], Complete(PkgOf(obj[u])), m)
    <3>1. CASE pc[t] = "open" \/ obj[u] # obj[t]
      BY <1>0, <2>2, <3>1 DEF Settles
    <3>2. CASE Scanning(t) /\ obj[u] = obj[t]
      <4>1. settled[t]
        BY <2>1, <3>2 DEF SettledInv, SettledTogether
      <4> QED  BY <1>0, <3>2, <4>1 DEF Settles
    <3> QED  BY <3>1, <3>2 DEF Settles
  <2> QED  BY <2>1, <2>2, <2>3, UndisturbedKept DEF Still
<1> QED  BY <1>1, <1>2, <1>3, <1>4, <1>5 DEF SettledInv

\* A write to a file disturbs the scans of its package.
LEMMA WriteKeeps ==
  ASSUME TypeInv, AskedInv, SettledInv, [Next]_vars, NEW t \in Thread,
         CreateFile(t) \/ WriteChunk(t)
  PROVE  SettledInv'
<1> DEFINE p == PkgOf(obj[t])
<1>0. /\ pc \in [Thread -> Using \cup {"idle", "lookup", "append", "send"}]
      /\ obj \in [Thread -> 0 .. MaxObjects]
      /\ length \in [Pkg -> Nat] /\ right \in [Pkg -> SUBSET Nat]
      /\ settled \in [Thread -> BOOLEAN]
  BY DEF TypeInv, TypeOK
<1>1. /\ pc[t] \in {"create", "write"} /\ pc'[t] \in {"write", "idle"}
      /\ \A u \in Thread \ {t} : pc'[u] = pc[u] /\ obj'[u] = obj[u]
      /\ UNCHANGED <<made, computed, idx, snap, todo, found>> /\ Disturb(p)
  BY <1>0 DEF CreateFile, WriteChunk, Done, Goto, At, tableVars, scanVars
<1>2. /\ p \in Pkg /\ NChunks[p] \in Nat \ {0} /\ job[t].chunk \in Chunks(NChunks[p])
  BY <1>1, WriterFacts, ConstantFacts
<1>3. \A q \in Pkg \ {p} :
        /\ q \in exists' <=> q \in exists
        /\ length'[q] = length[q] /\ right'[q] = right[q]
  BY <1>0 DEF CreateFile, WriteChunk
<1>4. length'[p] <= NChunks[p] /\ right'[p] \subseteq 1 .. length'[p]
  <2>1. CASE CreateFile(t)
    <3>1. right'[p] = {} /\ length'[p] \in {0, NChunks[p]}
      BY <1>0, <1>2, <2>1 DEF CreateFile
    <3> QED  BY <1>2, <3>1
  <2>2. CASE WriteChunk(t)
    <3>1. /\ \/ right'[p] = right[p] \cup {job[t].chunk}
             \/ right'[p] = right[p] \ {job[t].chunk}
          /\ length'[p] = IF job[t].chunk > length[p] THEN job[t].chunk ELSE length[p]
      BY <1>0, <1>2, <2>2 DEF WriteChunk
    <3>2. length[p] \in Nat /\ length[p] <= NChunks[p] /\ right[p] \subseteq 1 .. length[p]
      BY <1>0, <1>2 DEF SettledInv, LengthsOK
    <3> QED  BY <1>2, <3>1, <3>2 DEF Chunks
  <2> QED  BY <2>1, <2>2
<1>5. \A u \in Thread : settled'[u] = (settled[u] /\ (InScan(u) => PkgOf(obj[u]) # p))
  BY <1>1 DEF Disturb, InScan
<1> HIDE DEF p
<1>6. \A u \in Thread : InScan(u)' => u # t /\ InScan(u) /\ (Scanning(u)' => Scanning(u))
  BY <1>1 DEF InScan, Scanning
<1>7. SettledTogether'
  <2> SUFFICES ASSUME NEW a \in Thread, NEW b \in Thread, InScan(a)', settled'[a],
                      Scanning(b)', obj'[b] = obj'[a]
               PROVE  settled'[b]
    BY DEF SettledTogether
  <2>1. InScan(b)'
    BY DEF InScan
  <2>2. /\ a # t /\ b # t /\ InScan(a) /\ InScan(b) /\ Scanning(b)
        /\ obj[a] = obj[b] /\ settled[a] /\ PkgOf(obj[a]) # p
    BY <1>1, <1>5, <1>6, <2>1
  <2>3. settled[b]
    BY <2>2 DEF SettledInv, SettledTogether
  <2> QED  BY <1>5, <2>2, <2>3
<1>8. RangesInv'
  <2> SUFFICES ASSUME NEW u \in Thread PROVE Ranges(u)'
    BY DEF RangesInv
  <2>0. Ranges(u)
    BY DEF SettledInv, RangesInv
  <2>1. CASE u = t
    BY <1>1, <2>0, <2>1 DEF Ranges
  <2>2. CASE u # t /\ pc[u] \in Using
    <3>1. Count(obj[u])' = Count(obj[u])
      BY <1>1, <2>2, PointerKept
    <3> QED  BY <1>1, <2>0, <2>2, <3>1 DEF Ranges
  <2>3. CASE u # t /\ pc[u] \notin Using
    BY <1>1, <2>0, <2>3 DEF Ranges, Using
  <2> QED  BY <2>1, <2>2, <2>3
<1>9. ComputedInTree'
  <2>1. \A o \in 1 .. Len(made) : Count(o)' = Count(o)
    BY <1>1 DEF Count, PkgOf
  <2>2. \A o \in 1 .. Len(made) : computed'[o] \subseteq Nodes(Count(o))'
    BY <1>1, <2>1 DEF SettledInv, ComputedInTree, Nodes
  <2> QED  BY <1>1, <2>2 DEF SettledInv, ComputedInTree
<1>10. LengthsOK'
  BY <1>3, <1>4 DEF SettledInv, LengthsOK
<1>11. UndisturbedInv'
  <2> SUFFICES ASSUME NEW u \in Thread, InScan(u)', settled'[u] PROVE Undisturbed(u)'
    BY DEF UndisturbedInv
  <2>1. u # t /\ InScan(u) /\ settled[u] /\ PkgOf(obj[u]) # p
    BY <1>5, <1>6
  <2>2. Undisturbed(u) /\ PkgOf(obj[u]) \in Pkg
    BY <2>1, UsedPointer DEF SettledInv, UndisturbedInv, InScan, Scanning, Using
  <2> QED  BY <1>1, <1>3, <2>1, <2>2, UndisturbedKept
<1> QED  BY <1>7, <1>8, <1>9, <1>10, <1>11 DEF SettledInv

\* A step of a scan leaves files and pointers, and every other thread.
LEMMA ScanFrame ==
  ASSUME TypeInv, NEW t \in Thread, Scan(t)
  PROVE  /\ UNCHANGED <<made, obj, exists, length, right>>
         /\ \A u \in Thread \ {t} : Still(u)
         /\ pc[t] = "open" \/ Scanning(t)
         /\ Scanning(t) => settled' = settled
<1> USE DEF At, Goto, tableVars, fileVars, scanVars, Still, Scanning
<1>0. /\ TypeOK /\ pc \in [Thread -> Using \cup {"idle", "lookup", "append", "send"}]
      /\ idx \in [Thread -> Nat] /\ snap \in [Thread -> SUBSET Nat]
      /\ todo \in [Thread -> Seq([node : Nat, back : BOOLEAN])]
      /\ found \in [Thread -> SUBSET Nat] /\ settled \in [Thread -> BOOLEAN]
  BY DEF TypeInv, TypeOK
<1>1. CASE OpenFile(t)
  BY <1>0, <1>1 DEF OpenFile
<1>2. CASE HashChunk(t)
  BY <1>0, <1>2 DEF HashChunk
<1>3. CASE StoreHash(t)
  BY <1>0, <1>3 DEF StoreHash
<1>4. CASE ComputeHashes(t)
  BY <1>0, <1>4 DEF ComputeHashes, Return
<1>5. CASE VisitNode(t)
  BY <1>0, <1>5 DEF VisitNode, Return
<1> QED  BY <1>1, <1>2, <1>3, <1>4, <1>5 DEF Scan

LEMMA OpenKeeps ==
  ASSUME TypeInv, SettledInv, [Next]_vars, NEW t \in Thread, OpenFile(t)
  PROVE  SettledInv'
<1> DEFINE p == PkgOf(obj[t])
           c == Count(obj[t])
<1>1. /\ pc[t] = "open" /\ UNCHANGED <<computed, obj, idx, snap, todo, found>>
      /\ \/ /\ p \in exists /\ pc'[t] = "hash"
            /\ settled'[t] =
                 \A u \in Thread \ {t} : Scanning(u) /\ obj[u] = obj[t] => settled[u]
         \/ pc'[t] = "check" /\ ~ settled'[t]
  BY DEF OpenFile, TypeInv, TypeOK, At, Goto, scanVars
<1>2. UNCHANGED <<made, obj, exists, length, right>> /\ \A u \in Thread \ {t} : Still(u)
  BY ScanFrame DEF Scan
<1>3. /\ p \in Pkg /\ c = NChunks[p] /\ c \in Nat \ {0}
      /\ PkgOf(obj[t])' = p /\ Count(obj[t])' = c /\ obj'[t] = obj[t]
  BY <1>1, PointerKept DEF Using
<1>4. idx[t] = 1 /\ found[t] = {} /\ length[p] \in Nat
  BY <1>1, <1>3 DEF SettledInv, RangesInv, Ranges, TypeInv, TypeOK
<1> HIDE DEF p, c
<1>5. Ranges(t)'
  <2>1. pc'[t] \in {"hash", "check"} /\ idx'[t] = 1 /\ found'[t] = {}
    BY <1>1, <1>4
  <2>2. 1 \in Chunks(Count(obj[t]))'
    BY <1>3 DEF Chunks
  <2> QED  BY <2>1, <2>2 DEF Ranges
<1>6. ASSUME settled'[t] PROVE Undisturbed(t)'
  <2>1. LeavesAgree(c, computed'[obj[t]], Complete(p), 1)
    BY <1>3 DEF LeavesAgree, Chunks
  <2>2. Complete(PkgOf(obj[t]))' = Complete(p)
    BY <1>2, <1>3 DEF Complete, CoversOnly
  <2>3. p \in exists /\ pc'[t] = "hash"
    BY <1>1, <1>6
  <2>4. idx'[t] <= length'[p] + 1
    BY <1>1, <1>2, <1>4
  <2> QED  BY <1>1, <1>2, <1>3, <1>4, <2>1, <2>2, <2>3, <2>4 DEF Undisturbed
<1>7. Settles(t)
  BY <1>1 DEF Settles, Scanning
<1> QED  BY <1>2, <1>5, <1>6, <1>7, ScanKeeps

LEMMA HashKeeps ==
  ASSUME TypeInv, SettledInv, [Next]_vars, NEW t \in Thread, HashChunk(t)
  PROVE  SettledInv'
<1> DEFINE p == PkgOf(obj[t])
           c == Count(obj[t])
<1>1. /\ pc[t] = "hash" /\ UNCHANGED <<computed, found>>
      /\ \/ /\ idx[t] <= length[p] /\ snap'[t] = {idx[t]} \cap right[p]
            /\ pc'[t] = "store" /\ idx'[t] = idx[t]
         \/ idx[t] > length[p] /\ idx'[t] = 1 /\ pc'[t] = "check"
  BY DEF HashChunk, TypeInv, TypeOK, At, Goto
<1>2. /\ UNCHANGED <<made, obj, exists, length, right>> /\ \A u \in Thread \ {t} : Still(u)
      /\ settled'[t] = settled[t] /\ Scanning(t)
  BY <1>1, ScanFrame DEF Scan, Scanning
<1>3. /\ p \in Pkg /\ c = NChunks[p] /\ c \in Nat \ {0} /\ obj[t] \in 1 .. Len(made)
      /\ PkgOf(obj[t])' = p /\ Count(obj[t])' = c /\ obj'[t] = obj[t]
  BY <1>1, <1>2, PointerKept DEF Using
<1>4. /\ idx[t] \in Chunks(c) /\ found[t] = {} /\ length[p] \in Nat
      /\ length[p] <= c /\ computed[obj[t]] \subseteq Nodes(c)
  BY <1>1, <1>3 DEF SettledInv, RangesInv, Ranges, TypeInv, TypeOK, LengthsOK, ComputedInTree
<1> HIDE DEF p, c
<1>5. Ranges(t)'
  BY <1>1, <1>3, <1>4 DEF Ranges
<1>6. ASSUME settled[t] PROVE Undisturbed(t)'
  <2>1. p \in exists /\ LeavesAgree(c, computed'[obj[t]], Complete(p), idx[t])
    BY <1>1, <1>2, <1>6 DEF SettledInv, UndisturbedInv, Undisturbed, InScan, Scanning, p, c
  <2>2. Complete(PkgOf(obj[t]))' = Complete(p) /\ (WholeFile(PkgOf(obj[t]))' <=> WholeFile(p))
    BY <1>2, <1>3 DEF Complete, CoversOnly, WholeFile
  <2>3. CASE pc'[t] = "store"
    BY <1>1, <1>2, <1>3, <2>1, <2>2, <2>3 DEF Undisturbed
  <2>4. CASE pc'[t] = "check"
    <3>1. ~ WholeFile(p)
      BY <1>1, <1>3, <1>4, <2>4 DEF WholeFile, Chunks
    <3>2. ~ WholeFile(PkgOf(obj[t]))' /\ found'[t] = {} /\ p \in exists'
      BY <1>1, <1>2, <1>4, <2>1, <2>2, <3>1
    <3> QED  BY <1>3, <2>4, <3>2 DEF Undisturbed
  <2> QED  BY <1>1, <2>3, <2>4
<1>7. Settles(t)
  BY <1>1, <1>2, <1>4 DEF Settles, c
<1> QED  BY <1>2, <1>5, <1>6, <1>7, ScanKeeps

LEMMA StoreKeeps ==
  ASSUME TypeInv, SettledInv, [Next]_vars, NEW t \in Thread, StoreHash(t)
  PROVE  SettledInv'
<1> DEFINE p == PkgOf(obj[t])
           c == Count(obj[t])
           k == idx[t]
           C == Complete(p)
           new == computed'[obj[t]]
<1>0. /\ pc \in [Thread -> Using \cup {"idle", "lookup", "append", "send"}]
      /\ idx \in [Thread -> Nat] /\ snap \in [Thread -> SUBSET Nat]
      /\ todo \in [Thread -> Seq([node : Nat, back : BOOLEAN])]
      /\ computed \in [Object -> SUBSET Nat]
  BY DEF TypeInv, TypeOK
<1>1. pc[t] = "store" /\ ChunkNode(c, k) # {} /\ found' = found
  BY DEF StoreHash, At
<1>2. /\ UNCHANGED <<made, obj, exists, length, right>> /\ \A u \in Thread \ {t} : Still(u)
      /\ settled'[t] = settled[t] /\ Scanning(t)
  BY <1>1, ScanFrame DEF Scan, Scanning
<1>3. /\ p \in Pkg /\ c = NChunks[p] /\ c \in Nat \ {0} /\ obj[t] \in Object
      /\ obj[t] \in 1 .. Len(made)
      /\ PkgOf(obj[t])' = p /\ Count(obj[t])' = c /\ obj'[t] = obj[t]
  BY <1>1, <1>2, PointerKept DEF Using
<1>4. /\ k \in Chunks(c) /\ found[t] = {} /\ length[p] \in Nat
      /\ length[p] <= c /\ computed[obj[t]] \subseteq Nodes(c)
  BY <1>1, <1>3 DEF SettledInv, RangesInv, Ranges, TypeInv, TypeOK, LengthsOK, ComputedInTree
<1>5. c # 1 /\ ChunkNode(c, k) = {Leaf(c, k)} /\ Leaf(c, k) \in Nodes(c)
  BY <1>1, <1>3, <1>4, LeafFacts DEF ChunkNode
<1>6. /\ \/ /\ k < c /\ idx'[t] = k + 1 /\ pc'[t] = "hash"
         \/ /\ k = c /\ idx'[t] = 1 /\ pc'[t] = "compute" /\ todo'[t] = <<Call(0)>>
      /\ new = (computed[obj[t]] \ {Leaf(c, k)})
                 \cup (IF snap[t] = {} THEN {} ELSE {Leaf(c, k)})
      /\ \A o \in Object \ {obj[t]} : computed'[o] = computed[o]
  BY <1>0, <1>3, <1>5 DEF StoreHash, Goto
<1> HIDE DEF p, c, k, new, C
<1>7. Ranges(t)'
  <2>1. CASE pc'[t] = "hash"
    BY <1>1, <1>3, <1>4, <1>6, <2>1 DEF Ranges, Chunks
  <2>2. CASE pc'[t] = "compute"
    <3>1. Call(0) \in CallsTo(Inner(c))
      BY <1>3, <1>5 DEF Call, CallsTo, Inner
    <3>2. <<Call(0)>> \in Seq(CallsTo(Inner(c)))
      BY <3>1, ShortSeqs
    <3>3. todo'[t] = <<Call(0)>> /\ idx'[t] = 1
      BY <1>6, <2>2
    <3> QED  BY <1>1, <1>3, <1>4, <2>2, <3>2, <3>3 DEF Ranges
  <2> QED  BY <1>6, <2>1, <2>2
<1>8. ASSUME settled[t]
      PROVE  /\ p \in exists /\ k <= length[p]
             /\ \A m \in Nodes(c) : Agree(computed[obj[t]], C, m) => Agree(new, C, m)
             /\ LeavesAgree(c, new, C, k + 1)
  <2>1. /\ p \in exists /\ k <= length[p] /\ snap[t] = {k} \cap right[p]
        /\ LeavesAgree(c, computed[obj[t]], C, k)
    BY <1>1, <1>2, <1>8
       DEF SettledInv, UndisturbedInv, Undisturbed, InScan, Scanning, p, c, k, C
  <2>2. Leaf(c, k) \in C <=> k \in right[p]
    BY <1>3, <1>4, <1>5, PackageTree DEF C
  <2>3. Agree(new, C, Leaf(c, k))
    BY <1>6, <2>1, <2>2 DEF Agree
  <2>4. \A m \in Nodes(c) : Agree(computed[obj[t]], C, m) => Agree(new, C, m)
    BY <1>6, <2>3 DEF Agree
  <2>5. LeavesAgree(c, new, C, k + 1)
    <3> SUFFICES ASSUME NEW j \in Chunks(c), j < k + 1 PROVE Agree(new, C, Leaf(c, j))
      BY DEF LeavesAgree
    <3>1. Leaf(c, j) \in Nodes(c) /\ (j = k \/ j < k)
      BY <1>3, <1>4, LeafFacts DEF Chunks
    <3> QED  BY <2>1, <2>3, <2>4, <3>1 DEF LeavesAgree
  <2> QED  BY <2>1, <2>4, <2>5
<1>9. ASSUME settled[t] PROVE Undisturbed(t)'
  <2>1. Complete(PkgOf(obj[t]))' = C /\ (WholeFile(PkgOf(obj[t]))' <=> WholeFile(p))
    BY <1>2, <1>3 DEF Complete, CoversOnly, WholeFile, C
  <2>2. CASE pc'[t] = "hash"
    <3>1. idx'[t] = k + 1 /\ idx'[t] <= length'[p] + 1
      BY <1>2, <1>4, <1>6, <1>8, <1>9, <2>2 DEF Chunks
    <3> QED  BY <1>2, <1>3, <1>8, <1>9, <2>1, <2>2, <3>1 DEF Undisturbed, new
  <2>3. CASE pc'[t] = "compute"
    <3>1. k = c /\ todo'[t] = <<Call(0)>>
      BY <1>6, <2>3
    <3>2. Computing(c, new, C, <<Call(0)>>)
      BY <1>3, <1>8, <1>9, <3>1, ComputeEnds
    <3>3. WholeFile(p)
      BY <1>3, <1>4, <1>8, <1>9, <3>1 DEF WholeFile
    <3> QED  BY <1>2, <1>3, <1>8, <1>9, <2>1, <2>3, <3>1, <3>2, <3>3
             DEF Undisturbed, new
  <2> QED  BY <1>6, <2>2, <2>3
<1>10. Settles(t)
  <2>1. new \subseteq Nodes(c)
    BY <1>4, <1>5, <1>6
  <2> QED  BY <1>2, <1>6, <1>8, <2>1 DEF Settles, c, C, p, new
<1> QED  BY <1>2, <1>7, <1>9, <1>10, ScanKeeps

LEMMA ComputeKeeps ==
  ASSUME TypeInv, SettledInv, [Next]_vars, NEW t \in Thread, ComputeHashes(t)
  PROVE  SettledInv'
<1> DEFINE p == PkgOf(obj[t])
           c == Count(obj[t])
           C == Complete(p)
           td == todo[t]
           n == Head(td).node
           old == computed[obj[t]]
           new == computed'[obj[t]]
<1>0. /\ TypeOK /\ pc \in [Thread -> Using \cup {"idle", "lookup", "append", "send"}]
      /\ todo \in [Thread -> Seq([node : Nat, back : BOOLEAN])]
      /\ computed \in [Object -> SUBSET Nat]
  BY DEF TypeInv, TypeOK
<1>1. pc[t] = "compute" /\ UNCHANGED <<idx, snap, found>>
  BY DEF ComputeHashes, At
<1>2. /\ UNCHANGED <<made, obj, exists, length, right>> /\ \A u \in Thread \ {t} : Still(u)
      /\ settled'[t] = settled[t] /\ Scanning(t)
  BY <1>1, ScanFrame DEF Scan, Scanning
<1>3. /\ p \in Pkg /\ c = NChunks[p] /\ c \in Nat \ {0} /\ PowerOfTwo(c) /\ TreeSet(c, C)
      /\ obj[t] \in 1 .. Len(made) /\ obj[t] \in Object
      /\ PkgOf(obj[t])' = p /\ Count(obj[t])' = c /\ obj'[t] = obj[t]
  BY <1>1, <1>2, PointerKept, PackageTree DEF Using
<1>4. /\ td \in Seq(CallsTo(Inner(c))) /\ td # <<>> /\ idx[t] = 1 /\ found[t] = {}
      /\ old \subseteq Nodes(c)
  BY <1>1, <1>3 DEF SettledInv, RangesInv, Ranges, TypeInv, PointersOK, ComputedInTree
<1>5. /\ n \in Inner(c) /\ Tail(td) \in Seq(CallsTo(Inner(c)))
  BY <1>4, FirstCall
<1>6. \/ /\ ~ Head(td).back /\ computed' = computed /\ pc'[t] = "compute"
         /\ todo'[t] = Expansion(c, n, Tail(td))
      \/ /\ Head(td).back
         /\ new = Combine(old, n)
         /\ \A o \in Object \ {obj[t]} : computed'[o] = computed[o]
         /\ Return(t, Tail(td), "visit", <<Call(0)>>)
  BY <1>0, <1>1, <1>3 DEF ComputeHashes, Expansion, Combine
<1>s. settled[t] => WholeFile(p) /\ Computing(c, old, C, td)
  BY <1>1, <1>2 DEF SettledInv, UndisturbedInv, Undisturbed, InScan, Scanning
<1>w. /\ Complete(PkgOf(obj[t]))' = C /\ (WholeFile(PkgOf(obj[t]))' <=> WholeFile(p))
      /\ WholeFile(p) => p \in exists'
  BY <1>2, <1>3 DEF Complete, CoversOnly, WholeFile
<1> HIDE DEF p, c, C, n, old, new
<1>7. CASE /\ ~ Head(td).back /\ computed' = computed /\ pc'[t] = "compute"
           /\ todo'[t] = Expansion(c, n, Tail(td))
  <2>1. todo'[t] \in Seq(CallsTo(Inner(c)))
    BY <1>3, <1>5, <1>7, ExpansionFacts
  <2>2. Ranges(t)'
    BY <1>1, <1>3, <1>4, <1>7, <2>1 DEF Ranges
  <2>3. settled[t] => Computing(c, old, C, todo'[t])
    BY <1>3, <1>4, <1>s, <1>7, ComputeDown DEF n
  <2>4. settled[t] => Undisturbed(t)'
    BY <1>2, <1>3, <1>s, <1>w, <1>7, <2>3 DEF Undisturbed, old
  <2>5. Settles(t)
    BY <1>2, <1>4, <1>7 DEF Settles, old, c
  <2> QED  BY <1>2, <2>2, <2>4, <2>5, ScanKeeps
<1>8. CASE /\ Head(td).back
           /\ new = Combine(old, n)
           /\ \A o \in Object \ {obj[t]} : computed'[o] = computed[o]
           /\ Return(t, Tail(td), "visit", <<Call(0)>>)
  <2>1. \/ Tail(td) # <<>> /\ todo'[t] = Tail(td) /\ pc'[t] = "compute"
        \/ Tail(td) = <<>> /\ todo'[t] = <<Call(0)>> /\ pc'[t] = "visit"
    BY <1>0, <1>1, <1>8 DEF Return, Goto
  <2>2. Ranges(t)'
    <3>1. <<Call(0)>> \in Seq(CallsTo(Nodes(c)))
      BY <1>3, VisitStarts
    <3> QED  BY <1>1, <1>3, <1>4, <1>5, <2>1, <3>1 DEF Ranges
  <2>3. ASSUME settled[t] PROVE Agree(new, C, n) /\ Computing(c, new, C, Tail(td))
    <3>1. n = Head(td).node /\ Computing(c, old, C, td)
      BY <1>s, <2>3 DEF n
    <3> HIDE DEF td
    <3> QED  BY <1>3, <1>4, <1>8, <3>1, ComputeUp
  <2>4. settled[t] => \A m \in Nodes(c) : Agree(old, C, m) => Agree(new, C, m)
    BY <1>8, <2>3 DEF Agree, Combine
  <2>5. ASSUME settled[t] PROVE Undisturbed(t)'
    <3>1. CASE pc'[t] = "compute"
      BY <1>2, <1>3, <1>s, <1>w, <2>1, <2>3, <2>5, <3>1 DEF Undisturbed, new
    <3>2. CASE pc'[t] = "visit"
      <4>1. Tail(td) = <<>> /\ todo'[t] = <<Call(0)>>
        BY <2>1, <3>2
      <4>2. AllAgree(c, new, C)
        BY <1>3, <2>3, <2>5, <4>1, ComputeEnds
      <4>3. Visiting(c, C, <<Call(0)>>, {})
        BY <1>3, VisitStarts
      <4> QED  BY <1>1, <1>2, <1>3, <1>4, <1>s, <1>w, <2>5, <3>2, <4>1, <4>2, <4>3
               DEF Undisturbed, new
    <3> QED  BY <2>1, <3>1, <3>2
  <2>6. Settles(t)
    <3>1. n \in Nodes(c)
      BY <1>3, <1>5 DEF Inner, Nodes
    <3>2. new \subseteq Nodes(c)
      BY <1>4, <1>8, <3>1 DEF Combine
    <3> QED  BY <1>2, <1>8, <2>4, <3>2 DEF Settles, old, new, c, C, p
  <2> QED  BY <1>2, <2>2, <2>5, <2>6, ScanKeeps
<1> QED  BY <1>6, <1>7, <1>8

LEMMA VisitKeeps ==
  ASSUME TypeInv, SettledInv, [Next]_vars, NEW t \in Thread, VisitNode(t)
  PROVE  SettledInv'
<1> DEFINE p == PkgOf(obj[t])
           c == Count(obj[t])
           C == Complete(p)
           td == todo[t]
           n == Head(td).node
           down == Calls(Children(c, n)) \o Tail(td)
           old == computed[obj[t]]
<1>0. /\ TypeOK /\ pc \in [Thread -> Using \cup {"idle", "lookup", "append", "send"}]
      /\ todo \in [Thread -> Seq([node : Nat, back : BOOLEAN])]
      /\ found \in [Thread -> SUBSET Nat]
  BY DEF TypeInv, TypeOK
<1>1. pc[t] = "visit" /\ UNCHANGED <<computed, idx, snap>>
  BY DEF VisitNode, At
<1>2. /\ UNCHANGED <<made, obj, exists, length, right>> /\ \A u \in Thread \ {t} : Still(u)
      /\ settled'[t] = settled[t] /\ Scanning(t)
  BY <1>1, ScanFrame DEF Scan, Scanning
<1>3. /\ p \in Pkg /\ c = NChunks[p] /\ c \in Nat \ {0} /\ TreeSet(c, C)
      /\ obj[t] \in 1 .. Len(made)
      /\ PkgOf(obj[t])' = p /\ Count(obj[t])' = c /\ obj'[t] = obj[t]
  BY <1>1, <1>2, PointerKept, PackageTree DEF Using
<1>4. /\ td \in Seq(CallsTo(Nodes(c))) /\ td # <<>> /\ idx[t] = 1
      /\ old \subseteq Nodes(c)
  BY <1>1, <1>3 DEF SettledInv, RangesInv, Ranges, TypeInv, PointersOK, ComputedInTree
<1>5. n \in Nodes(c) /\ Tail(td) \in Seq(CallsTo(Nodes(c)))
  BY <1>4, FirstCall
<1>6. \/ /\ n \in old /\ found'[t] = found[t] \cup {n}
         /\ Return(t, Tail(td), "check", <<>>)
      \/ /\ n \notin old /\ found'[t] = found[t]
         /\ Return(t, down, "check", <<>>)
  BY <1>0 DEF VisitNode
<1>s. settled[t] => /\ WholeFile(p) /\ AllAgree(c, old, C)
                    /\ Visiting(c, C, td, found[t])
  BY <1>1, <1>2 DEF SettledInv, UndisturbedInv, Undisturbed, InScan, Scanning
<1>w. /\ Complete(PkgOf(obj[t]))' = C /\ (WholeFile(PkgOf(obj[t]))' <=> WholeFile(p))
      /\ WholeFile(p) => p \in exists'
  BY <1>2, <1>3 DEF Complete, CoversOnly, WholeFile
<1>d. down \in Seq(CallsTo(Nodes(c)))
  BY <1>3, <1>5, VisitCalls
<1> HIDE DEF p, c, C, n, old, down
<1>7. ASSUME NEW rest \in Seq(CallsTo(Nodes(c))), Return(t, rest, "check", <<>>),
             settled[t] => Visiting(c, C, rest, found'[t])
      PROVE  SettledInv'
  <2>1. \/ rest # <<>> /\ todo'[t] = rest /\ pc'[t] = "visit"
        \/ rest = <<>> /\ todo'[t] = <<>> /\ pc'[t] = "check"
    BY <1>0, <1>1, <1>7 DEF Return, Goto
  <2>2. Ranges(t)'
    BY <1>1, <1>3, <1>4, <1>7, <2>1 DEF Ranges
  <2>3. ASSUME settled[t] PROVE Undisturbed(t)'
    <3>1. CASE pc'[t] = "visit"
      BY <1>1, <1>2, <1>3, <1>s, <1>w, <1>7, <2>1, <2>3, <3>1 DEF Undisturbed, old
    <3>2. CASE pc'[t] = "check"
      <4>1. found'[t] = Highest(C)
        BY <1>3, <1>7, <2>1, <2>3, <3>2, VisitEnds
      <4> QED  BY <1>1, <1>2, <1>3, <1>s, <1>w, <2>3, <3>2, <4>1 DEF Undisturbed, old
    <3> QED  BY <2>1, <3>1, <3>2
  <2>4. Settles(t)
    BY <1>1, <1>2, <1>4 DEF Settles, old, c
  <2> QED  BY <1>2, <2>2, <2>3, <2>4, ScanKeeps
<1>8. settled[t] => (n \in old <=> n \in C)
  BY <1>5, <1>s DEF AllAgree, Agree
<1>9. CASE n \in old /\ found'[t] = found[t] \cup {n} /\ Return(t, Tail(td), "check", <<>>)
  <2>1. settled[t] => Visiting(c, C, Tail(td), found'[t])
    BY <1>3, <1>4, <1>s, <1>8, <1>9, VisitFound DEF n
  <2> QED  BY <1>5, <1>7, <1>9, <2>1
<1>10. CASE n \notin old /\ found'[t] = found[t] /\ Return(t, down, "check", <<>>)
  <2>1. settled[t] => Visiting(c, C, down, found'[t])
    BY <1>3, <1>4, <1>s, <1>8, <1>10, VisitDown DEF n, down
  <2> QED  BY <1>d, <1>7, <1>10, <2>1
<1> QED  BY <1>6, <1>9, <1>10

LEMMA InitSettledInv == Init => SettledInv
<1> SUFFICES ASSUME Init PROVE SettledInv
  OBVIOUS
<1>1. \A t \in Thread : /\ pc[t] = "idle" /\ idx[t] = 1 /\ found[t] = {} /\ ~ InScan(t)
                        /\ ~ Scanning(t)
  BY DEF Init, InScan, Scanning
<1>2. SettledTogether /\ UndisturbedInv
  BY <1>1 DEF SettledTogether, UndisturbedInv
<1>3. RangesInv
  BY <1>1 DEF RangesInv, Ranges
<1>4. ComputedInTree
  BY DEF Init, ComputedInTree
<1>5. LengthsOK
  BY FileAssumption DEF Init, LengthsOK
<1> QED  BY <1>2, <1>3, <1>4, <1>5 DEF SettledInv

LEMMA NextSettledInv ==
  ASSUME TypeInv, AskedInv, SettledInv, [Next]_vars
  PROVE  SettledInv'
<1>1. \/ Outside
      \/ \E t \in Thread : Scan(t) \/ CreateFile(t) \/ WriteChunk(t)
  BY OutsideSteps DEF SettledInv
<1> QED  BY <1>1, OutsideKeeps, WriteKeeps, OpenKeeps, HashKeeps, StoreKeeps, ComputeKeeps,
            VisitKeeps DEF Scan

(* ------------------------- the smallest query -------------------------- *)
\* The highest complete nodes cover the right chunks, and no others.
LEMMA HighestCover ==
  ASSUME NEW p \in Pkg, right[p] \subseteq Chunks(NChunks[p])
  PROVE  UNION {Under[p][n] : n \in Highest(Complete(p))} = right[p]
<1> DEFINE c == NChunks[p]
           C == Complete(p)
<1>1. /\ c \in Nat \ {0} /\ C \subseteq Nodes(c) /\ right[p] \subseteq Chunks(c)
      /\ \A n \in Nodes(c) : Under[p][n] = Covered(c, n)
      /\ \A n \in C : Under[p][n] \subseteq right[p]
      /\ \A k \in right[p] : Leaf(c, k) \in C
  BY UnderFacts, PackageTree DEF Complete, CoversOnly
<1> HIDE DEF c, C
<1>2. UNION {Under[p][n] : n \in Highest(C)} \subseteq right[p]
  BY <1>1 DEF Highest
<1>3. ASSUME NEW k \in right[p] PROVE \E n \in Highest(C) : k \in Under[p][n]
  <2> DEFINE up == Above(c, Leaf(c, k))
  <2>1. k \in Chunks(c) /\ Leaf(c, k) \in Nodes(c) /\ Leaf(c, k) \in C
    BY <1>1, LeafFacts
  <2>2. up \subseteq Nodes(c) /\ Leaf(c, k) \in up /\ \A m \in up \ {0} : Parent(m) \in up
    BY <1>1, <2>1, AboveUpClosed DEF UpClosed
  <2> HIDE DEF up
  <2>3. up \cap C \in SUBSET Nat /\ up \cap C # {}
    <3>1. Nodes(c) \subseteq Nat
      BY DEF Nodes
    <3> QED  BY <2>1, <2>2, <3>1
  <2>4. PICK n \in up \cap C : \A m \in up \cap C : n <= m
    BY <2>3, LeastNumber
  <2>5. n = 0 \/ Parent(n) \notin C
    <3> SUFFICES ASSUME n # 0, Parent(n) \in C PROVE FALSE
      OBVIOUS
    <3>1. n \in Nat /\ n # 0 /\ Parent(n) \in up \cap C
      BY <2>2, <2>3
    <3>2. Parent(n) < n /\ Parent(n) \in Nat
      BY <3>1 DEF Parent
    <3> QED  BY <2>4, <3>1, <3>2
  <2>6. n \in Highest(C) /\ n \in Nodes(c)
    BY <2>2, <2>5 DEF Highest
  <2>7. k \in Covered(c, n)
    BY <2>1, <2>4 DEF Covered, up
  <2> QED  BY <1>1, <2>6, <2>7
<1> QED  BY <1>2, <1>3 DEF C

\* Where an undisturbed scan ends
LEMMA EndFacts ==
  ASSUME TypeInv, SettledInv, NEW t \in Thread, ScanEnded(t), NEW p, p = PkgOf(obj[t])
  PROVE  /\ p \in Pkg /\ p \in exists /\ right[p] \subseteq Chunks(NChunks[p])
         /\ \/ ~ WholeFile(p) /\ found[t] = {}
            \/ /\ WholeFile(p) /\ computed[obj[t]] = Complete(p)
               /\ found[t] = Highest(Complete(p))
<1>1. pc[t] = "check" /\ settled[t] /\ pc[t] \in Using /\ InScan(t)
  BY DEF ScanEnded, Using, InScan
<1>2. /\ p \in Pkg /\ obj[t] \in 1 .. Len(made) /\ Count(obj[t]) = NChunks[p]
      /\ NChunks[p] \in Nat \ {0}
  BY <1>1, UsedPointer
<1>3. right[p] \subseteq Chunks(NChunks[p])
  <2>1. length[p] \in Nat /\ length[p] <= NChunks[p] /\ right[p] \subseteq 1 .. length[p]
    BY <1>2 DEF TypeInv, TypeOK, SettledInv, LengthsOK
  <2> QED  BY <1>2, <2>1 DEF Chunks
<1>4. Undisturbed(t)
  BY <1>1 DEF SettledInv, UndisturbedInv
<1>5. computed[obj[t]] \subseteq Nodes(NChunks[p]) /\ Complete(p) \subseteq Nodes(NChunks[p])
  BY <1>2 DEF SettledInv, ComputedInTree, Complete, CoversOnly
<1>6. AllAgree(NChunks[p], computed[obj[t]], Complete(p)) => computed[obj[t]] = Complete(p)
  BY <1>5 DEF AllAgree, Agree
<1>7. /\ p \in exists
      /\ \/ ~ WholeFile(p) /\ found[t] = {}
         \/ /\ WholeFile(p) /\ AllAgree(NChunks[p], computed[obj[t]], Complete(p))
            /\ found[t] = Highest(Complete(p))
  BY <1>1, <1>2, <1>4 DEF Undisturbed
<1> QED  BY <1>2, <1>3, <1>6, <1>7

LEMMA SettledAlways == Spec => [](TypeInv /\ AskedInv /\ SettledInv)
<1>1. Init => AskedInv
  BY InitAskedInv
<1>2. TypeInv /\ AskedInv /\ SettledInv /\ [Next]_vars => (TypeInv /\ AskedInv /\ SettledInv)'
  BY NextTypeInv, NextAskedInv, NextSettledInv
<1> QED  BY <1>1, <1>2, InitTypeInv, InitSettledInv, PTL DEF Spec

\* Scans that no write to the file disturbs end with exactly the complete nodes
\* computed and the smallest query for them, however many threads store into the
\* same tree at the same time, for trees of every size (pkgchk.c:466-574).
THEOREM QuietScanExactAlways == Spec => []QuietScanExact
<1>1. TypeInv /\ AskedInv /\ SettledInv => QuietScanExact
  BY EndFacts DEF QuietScanExact, WholeFile, Highest
<1> QED  BY <1>1, SettledAlways, PTL

\* Such a query of a file of full length covers every right chunk and no other: a user
\* who fetches what it leaves out misses nothing (pkgchk.c:516-574).
QuietQueryCovers ==
  \A t \in Thread : ScanEnded(t) =>
    LET p == PkgOf(obj[t]) IN
      length[p] = NChunks[p] => UNION {Under[p][n] : n \in found[t]} = right[p]
THEOREM QuietQueryCoversAlways == Spec => []QuietQueryCovers
<1>1. ASSUME TypeInv, SettledInv, NEW t \in Thread, ScanEnded(t),
             length[PkgOf(obj[t])] = NChunks[PkgOf(obj[t])]
      PROVE  UNION {Under[PkgOf(obj[t])][n] : n \in found[t]} = right[PkgOf(obj[t])]
  <2> DEFINE p == PkgOf(obj[t])
  <2>1. /\ p \in Pkg /\ right[p] \subseteq Chunks(NChunks[p])
        /\ found[t] = Highest(Complete(p))
    BY <1>1, EndFacts DEF WholeFile
  <2> QED  BY <2>1, HighestCover
<1>2. TypeInv /\ AskedInv /\ SettledInv => QuietQueryCovers
  BY <1>1 DEF QuietQueryCovers
<1> QED  BY <1>2, SettledAlways, PTL
=============================================================================
