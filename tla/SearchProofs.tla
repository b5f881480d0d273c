---------------------------- MODULE SearchProofs ----------------------------
(***************************************************************************)
(* What the searches on the tree find, for trees of every size: find_hash  *)
(* whatever is there, and bpkg_get_all_chunk_hashes_from_hash the chunks   *)
(* in the order of the file, whichever of the nodes with the hash is found.*)
(***************************************************************************)
EXTENDS PackagesProofs, FiniteSetTheorems

(* ----------------------- recursion over a tree ------------------------- *)
\* What holds of a node whenever it holds of all later ones holds of every node.
LEMMA DownInduction ==
  ASSUME NEW c \in Nat \ {0}, NEW S,
         \A n \in Nodes(c) : (\A m \in Nodes(c) : m > n => m \in S) => n \in S
  PROVE  Nodes(c) \subseteq S
<1> SUFFICES ASSUME NEW x \in Nodes(c), x \notin S PROVE FALSE
  OBVIOUS
<1> DEFINE T == {i \in Nat : \E n \in Nodes(c) \ S : i = 2 * c - 2 - n}
<1>1. T \in SUBSET Nat /\ 2 * c - 2 - x \in T
  BY DEF Nodes
<1>2. PICK i \in T : \A j \in T : i <= j
  BY <1>1, LeastNumber
<1>3. PICK n \in Nodes(c) \ S : i = 2 * c - 2 - n
  BY <1>2
<1>4. PICK m \in Nodes(c) : m > n /\ m \notin S
  BY <1>3
<1>5. m \in Nat /\ n \in Nat /\ 2 * c - 2 - m \in Nat
  BY <1>3, <1>4 DEF Nodes
<1>6. 2 * c - 2 - m \in T
  BY <1>4, <1>5
<1> QED  BY <1>2, <1>3, <1>4, <1>5, <1>6

\* What holds of the leaves and, of an inner node, whenever it holds of its children
\* holds of every node.
LEMMA TreeInduction ==
  ASSUME NEW c \in Nat \ {0}, NEW S,
         \A n \in Nodes(c) \ Inner(c) : n \in S,
         \A n \in Inner(c) : Left(n) \in S /\ Right(n) \in S => n \in S
  PROVE  Nodes(c) \subseteq S
<1>1. ASSUME NEW n \in Nodes(c), \A m \in Nodes(c) : m > n => m \in S
      PROVE  n \in S
  <2>1. CASE n \in Inner(c)
    <3>1. Left(n) \in Nodes(c) /\ Right(n) \in Nodes(c)
      BY <2>1, ChildFacts
    <3>2. Left(n) > n /\ Right(n) > n
      BY <2>1 DEF Inner, Left, Right
    <3> QED  BY <1>1, <2>1, <3>1, <3>2
  <2> QED  BY <2>1
<1> QED  BY <1>1, DownInduction

\* A recursive definition over a tree has a solution: from the last node up, the
\* value of a node follows from those of its children.
Solves(c, leafv, combine, i, f) ==
  \A n \in Nodes(c) : n >= i =>
    f[n] = IF n \in Inner(c) THEN combine[<<n, f[Left(n)], f[Right(n)]>>] ELSE leafv[n]

LEMMA TreeRecursion ==
  ASSUME NEW c \in Nat \ {0}, NEW V, NEW leafv \in [Nodes(c) -> V],
         NEW combine \in [Inner(c) \X V \X V -> V]
  PROVE  \E f \in [Nodes(c) -> V] : Solves(c, leafv, combine, 0, f)
<1> DEFINE T == {i \in Nat : i <= 2 * c - 1
                   /\ \E f \in [Nodes(c) -> V] : Solves(c, leafv, combine, i, f)}
<1>1. 2 * c - 1 \in T
  BY DEF Nodes, Solves
<1>2. PICK i \in T : \A j \in T : i <= j
  <2> HIDE DEF T
  <2>1. T \in SUBSET Nat
    BY DEF T
  <2> QED  BY <1>1, <2>1, LeastNumber
<1>3. PICK f \in [Nodes(c) -> V] : Solves(c, leafv, combine, i, f)
  BY <1>2
<1>4. i \in Nat /\ i <= 2 * c - 1
  BY <1>2
<1>5. CASE i = 0
  BY <1>3, <1>5
<1>6. CASE i # 0
  <2> DEFINE m == i - 1
             v == IF m \in Inner(c) THEN combine[<<m, f[Left(m)], f[Right(m)]>>] ELSE leafv[m]
             g == [f EXCEPT ![m] = v]
  <2>1. m \in Nodes(c) /\ m \in Nat /\ m < i
    BY <1>4, <1>6 DEF Nodes
  <2>2. v \in V
    <3>1. CASE m \in Inner(c)
      <4>1. Left(m) \in Nodes(c) /\ Right(m) \in Nodes(c)
        BY <3>1, ChildFacts
      <4>2. <<m, f[Left(m)], f[Right(m)]>> \in Inner(c) \X V \X V
        BY <3>1, <4>1
      <4> QED  BY <3>1, <4>2
    <3> QED  BY <2>1, <3>1
  <2> HIDE DEF v
  <2>3. g \in [Nodes(c) -> V]
    BY <2>2
  <2>4. g[m] = v /\ \A n \in Nodes(c) : n # m => g[n] = f[n]
    BY <2>1
  <2> HIDE DEF g, m
  <2>5. \A n \in Inner(c) : n >= m =>
          /\ Left(n) \in Nodes(c) /\ Left(n) # m /\ Right(n) \in Nodes(c) /\ Right(n) # m
    <3> TAKE n \in Inner(c)
    <3> HAVE n >= m
    <3>1. Left(n) \in Nodes(c) /\ Right(n) \in Nodes(c)
      BY ChildFacts
    <3>2. Left(n) > m /\ Right(n) > m
      BY <2>1 DEF Inner, Left, Right
    <3> QED  BY <2>1, <3>1, <3>2
  <2>6. ASSUME NEW n \in Nodes(c), n >= m
        PROVE  g[n] = IF n \in Inner(c) THEN combine[<<n, g[Left(n)], g[Right(n)]>>]
                      ELSE leafv[n]
    <3>1. n \in Inner(c) => g[Left(n)] = f[Left(n)] /\ g[Right(n)] = f[Right(n)]
      BY <2>4, <2>5, <2>6
    <3>2. CASE n = m
      BY <2>4, <3>1, <3>2 DEF v
    <3>3. CASE n # m
      <4>1. n >= i /\ g[n] = f[n]
        BY <1>4, <2>1, <2>4, <2>6, <3>3 DEF Nodes, m
      <4> QED  BY <1>3, <3>1, <4>1 DEF Solves
    <3> QED  BY <3>2, <3>3
  <2>7. m \in T
    <3>1. Solves(c, leafv, combine, m, g)
      BY <2>6 DEF Solves
    <3> QED  BY <1>4, <2>1, <2>3, <3>1
  <2> QED  BY <1>2, <1>4, <2>1, <2>7
<1> QED  BY <1>5, <1>6

(* ------------------------------ find_hash ------------------------------ *)
\* Of the nodes from n down, find_hash returns one with the hash, if there is one.
Finding(c, hash, h, f) ==
  f = [n \in Nodes(c) |->
        IF hash[n] = h THEN {n}
        ELSE IF n \notin Inner(c) THEN {}
        ELSE IF f[Left(n)] # {} THEN f[Left(n)] ELSE f[Right(n)]]

LEMMA FindExists ==
  ASSUME NEW c \in Nat \ {0}, NEW hash, NEW h
  PROVE  \E f : Finding(c, hash, h, f) /\ FindHash(c, hash, h) = f[0]
<1> DEFINE V == SUBSET Nodes(c)
           leafv == [n \in Nodes(c) |-> IF hash[n] = h THEN {n} ELSE {}]
           combine == [x \in Inner(c) \X V \X V |->
             IF hash[x[1]] = h THEN {x[1]} ELSE IF x[2] # {} THEN x[2] ELSE x[3]]
<1>0. Inner(c) \subseteq Nodes(c)
  BY DEF Inner, Nodes
<1>1. leafv \in [Nodes(c) -> V]
  OBVIOUS
<1>2. combine \in [Inner(c) \X V \X V -> V]
  BY <1>0
<1>3. \A n \in Inner(c) : \A a, b \in V :
        combine[<<n, a, b>>] = IF hash[n] = h THEN {n} ELSE IF a # {} THEN a ELSE b
  OBVIOUS
<1> HIDE DEF leafv, combine, V
<1>4. PICK f \in [Nodes(c) -> V] : Solves(c, leafv, combine, 0, f)
  BY <1>1, <1>2, TreeRecursion
<1>5. ASSUME NEW n \in Nodes(c)
      PROVE  f[n] = IF hash[n] = h THEN {n}
                    ELSE IF n \notin Inner(c) THEN {}
                    ELSE IF f[Left(n)] # {} THEN f[Left(n)] ELSE f[Right(n)]
  <2>1. n >= 0
    BY DEF Nodes
  <2>2. CASE n \in Inner(c)
    <3>1. f[Left(n)] \in V /\ f[Right(n)] \in V
      BY <1>4, <2>2, ChildFacts
    <3>2. combine[<<n, f[Left(n)], f[Right(n)]>>] =
            IF hash[n] = h THEN {n}
            ELSE IF f[Left(n)] # {} THEN f[Left(n)] ELSE f[Right(n)]
      BY <1>3, <2>2, <3>1
    <3>3. f[n] = combine[<<n, f[Left(n)], f[Right(n)]>>]
      BY <1>4, <2>1, <2>2 DEF Solves
    <3> QED  BY <2>2, <3>2, <3>3
  <2>3. CASE n \notin Inner(c)
    BY <1>4, <2>1, <2>3 DEF Solves, leafv
  <2> QED  BY <2>2, <2>3
<1>6. Finding(c, hash, h, f)
  BY <1>4, <1>5 DEF Finding
<1> DEFINE F == CHOOSE g : Finding(c, hash, h, g)
<1>7. FindHash(c, hash, h) = F[0]
  BY Zenon DEF FindHash, Finding
<1>8. Finding(c, hash, h, F)
  BY <1>6
<1> QED  BY <1>7, <1>8

\* find_hash returns a node with the hash it is asked for, and NULL only when there is
\* none (pkgchk.c:576-599).
THEOREM FindHashFinds ==
  ASSUME NEW c \in Nat \ {0}, NEW hash, NEW h
  PROVE  IF \E n \in Nodes(c) : hash[n] = h
         THEN \E n \in Nodes(c) : hash[n] = h /\ FindHash(c, hash, h) = {n}
         ELSE FindHash(c, hash, h) = {}
<1>1. PICK f : Finding(c, hash, h, f) /\ FindHash(c, hash, h) = f[0]
  BY FindExists
<1>2. \A n \in Nodes(c) :
        f[n] = IF hash[n] = h THEN {n}
               ELSE IF n \notin Inner(c) THEN {}
               ELSE IF f[Left(n)] # {} THEN f[Left(n)] ELSE f[Right(n)]
  BY <1>1 DEF Finding
<1> DEFINE FindsFrom(n) == \/ \E m \in Nodes(c) : hash[m] = h /\ f[n] = {m}
                           \/ f[n] = {} /\ \A m \in Below(c, n) : hash[m] # h
           S == {n \in Nodes(c) : FindsFrom(n)}
<1>3. ASSUME NEW n \in Nodes(c) \ Inner(c) PROVE n \in S
  BY <1>2, BelowSplit
<1>4. ASSUME NEW n \in Inner(c), Left(n) \in S, Right(n) \in S PROVE n \in S
  <2>1. n \in Nodes(c)
    BY DEF Inner, Nodes
  <2>2. FindsFrom(Left(n)) /\ FindsFrom(Right(n))
    BY <1>4
  <2>3. \A m \in Below(c, n) : m = n \/ m \in Below(c, Left(n)) \/ m \in Below(c, Right(n))
    BY <2>1, BelowSplit
  <2>4. FindsFrom(n)
    BY <1>2, <2>1, <2>2, <2>3
  <2> QED  BY <2>1, <2>4
<1>5. Nodes(c) \subseteq S
  <2> HIDE DEF S
  <2> QED  BY <1>3, <1>4, TreeInduction
<1>6. FindsFrom(0)
  BY <1>5 DEF Nodes
<1> QED  BY <1>1, <1>6, BelowRoot

(* ------------------------ the parts of the file ------------------------ *)
\* The chunks under a node are those from a to b.
Span(c, n, a, b) ==
  a \in Chunks(c) /\ b \in Chunks(c) /\ a <= b /\ Covered(c, n) = a .. b

LEMMA SpanUnique ==
  ASSUME NEW c \in Nat \ {0}, NEW n, NEW a, NEW b, NEW d, NEW e,
         Span(c, n, a, b), Span(c, n, d, e)
  PROVE  a = d /\ b = e
<1>1. /\ a \in Nat /\ b \in Nat /\ d \in Nat /\ e \in Nat /\ a <= b /\ d <= e
      /\ a .. b = d .. e
  BY DEF Span, Chunks
<1>2. a \in d .. e /\ b \in d .. e /\ d \in a .. b /\ e \in a .. b
  BY <1>1
<1> QED  BY <1>1, <1>2

\* The part of an inner node is those of its children, one after the other.
LEMMA SpanInner ==
  ASSUME NEW c \in Nat \ {0}, NEW n \in Inner(c), NEW a, NEW b, NEW d,
         Span(c, Left(n), a, b), Span(c, Right(n), b + 1, d)
  PROVE  Span(c, n, a, d)
<1>1. Covered(c, n) = (a .. b) \cup ((b + 1) .. d)
  BY CoveredInner DEF Span
<1>2. a \in Nat /\ b \in Nat /\ d \in Nat /\ a <= b /\ b + 1 <= d
  BY DEF Span, Chunks
<1>3. (a .. b) \cup ((b + 1) .. d) = a .. d
  BY <1>2
<1> QED  BY <1>1, <1>2, <1>3 DEF Span, Chunks

\* Next to each other on a level of a perfect tree, nodes have parts that are next to
\* each other in the file.
LEMMA Neighbours ==
  ASSUME NEW c \in Nat \ {0}, PowerOfTwo(c)
  PROVE  \A n \in Nodes(c) :
           \E a, b : /\ Span(c, n, a, b)
                     /\ n % 2 = 1 => \E d : Span(c, n + 1, b + 1, d)
<1>1. PICK P \in SUBSET (1 .. c) :
        c \in P /\ \A m \in P \ {1} : m % 2 = 0 /\ m \div 2 \in P
  BY DEF PowerOfTwo
\* The last node of each level
<1> DEFINE End(n) == \E m \in P : n = 2 * m - 2
           Next1(n, b) == n + 1 \in Nodes(c) /\ \E d : Span(c, n + 1, b + 1, d)
           S == {n \in Nodes(c) : \E a, b : Span(c, n, a, b) /\ (End(n) \/ Next1(n, b))}
<1>2. ASSUME NEW n \in Nodes(c), n % 2 = 1 PROVE ~ End(n)
  BY <1>1, <1>2 DEF Nodes
<1>3. ASSUME NEW k \in Chunks(c) PROVE Span(c, Leaf(c, k), k, k)
  <2>1. Covered(c, Leaf(c, k)) = {k} /\ {k} = k .. k
    BY CoveredLeaf DEF Chunks
  <2> QED  BY <2>1 DEF Span, Chunks
<1>4. ASSUME NEW n \in Nodes(c) \ Inner(c) PROVE n \in S
  <2>1. PICK k \in Chunks(c) : n = Leaf(c, k)
    <3>1. n - (c - 2) \in Chunks(c) /\ n = Leaf(c, n - (c - 2))
      BY DEF Nodes, Inner, Chunks, Leaf
    <3> QED  BY <3>1
  <2>2. CASE k = c
    <3>1. End(n)
      BY <1>1, <2>1, <2>2 DEF Leaf
    <3> QED  BY <1>3, <2>1, <3>1
  <2>3. CASE k # c
    <3>1. k + 1 \in Chunks(c) /\ n + 1 = Leaf(c, k + 1)
      BY <2>1, <2>3 DEF Chunks, Leaf
    <3>2. n + 1 \in Nodes(c) /\ Span(c, n + 1, k + 1, k + 1)
      BY <1>3, <3>1, LeafFacts
    <3>3. Next1(n, k)
      BY <3>2
    <3> QED  BY <1>3, <2>1, <3>3
  <2> QED  BY <2>2, <2>3
\* Of later nodes than n, the children of an inner one are next to each other.
<1>5. ASSUME NEW n \in Nodes(c), \A m \in Nodes(c) : m > n => m \in S,
             NEW x \in Inner(c), x >= n
      PROVE  \E a, b, d : Span(c, Left(x), a, b) /\ Span(c, Right(x), b + 1, d)
  <2>1. /\ Left(x) \in Nodes(c) /\ Left(x) > n /\ Left(x) % 2 = 1 /\ Left(x) + 1 = Right(x)
    <3>1. Left(x) \in Nodes(c)
      BY ChildFacts
    <3> QED  BY <1>5, <3>1 DEF Nodes, Inner, Left, Right
  <2>2. ~ End(Left(x)) /\ Left(x) \in S
    BY <1>2, <1>5, <2>1
  <2> QED  BY <2>1, <2>2
<1>6. ASSUME NEW n \in Inner(c), n \in Nodes(c), \A m \in Nodes(c) : m > n => m \in S
      PROVE  n \in S
  <2>1. PICK a, b, d : Span(c, Left(n), a, b) /\ Span(c, Right(n), b + 1, d)
    <3>1. n >= n
      BY DEF Inner
    <3> QED  BY <1>5, <1>6, <3>1
  <2>2. Span(c, n, a, d)
    BY <2>1, SpanInner
  <2>3. CASE End(n)
    BY <1>6, <2>2, <2>3
  <2>4. CASE ~ End(n)
    <3>1. n + 1 \in Inner(c) /\ n + 1 \in Nodes(c) /\ n + 1 >= n
      <4> SUFFICES ASSUME n = c - 2 PROVE FALSE
        BY DEF Inner, Nodes
      <4>1. c \in P \ {1}
        BY <1>1 DEF Inner
      <4>2. c % 2 = 0 /\ c \div 2 \in P
        BY <1>1, <4>1
      <4>3. n = 2 * (c \div 2) - 2
        BY <4>2
      <4> QED  BY <2>4, <4>2, <4>3
    <3>2. ~ End(Right(n))
      <4> SUFFICES ASSUME NEW m \in P, Right(n) = 2 * m - 2 PROVE FALSE
        OBVIOUS
      <4>1. m = n + 2 /\ m \in P \ {1}
        BY <1>1 DEF Inner, Right
      <4>2. m % 2 = 0 /\ m \div 2 \in P
        BY <1>1, <4>1
      <4>3. n = 2 * (m \div 2) - 2
        BY <4>1, <4>2 DEF Inner
      <4> QED  BY <2>4, <4>2, <4>3
    <3>3. /\ Right(n) \in Nodes(c) /\ Right(n) > n /\ Right(n) + 1 = Left(n + 1)
      <4>1. Right(n) \in Nodes(c)
        BY ChildFacts
      <4> QED  BY <4>1 DEF Inner, Left, Right
    <3>4. PICK x, y : Span(c, Right(n), x, y) /\ Next1(Right(n), y)
      BY <1>6, <3>2, <3>3
    <3>5. PICK z : Span(c, Left(n + 1), d + 1, z)
      <4>1. y = d
        BY <2>1, <3>4, SpanUnique
      <4> QED  BY <3>3, <3>4, <4>1
    <3>6. PICK u, v, w : Span(c, Left(n + 1), u, v) /\ Span(c, Right(n + 1), v + 1, w)
      BY <1>5, <1>6, <3>1
    <3>7. u = d + 1
      BY <3>5, <3>6, SpanUnique
    <3>8. Span(c, n + 1, d + 1, w)
      BY <3>1, <3>6, <3>7, SpanInner
    <3>9. Next1(n, d)
      BY <3>1, <3>8
    <3> QED  BY <1>6, <2>2, <3>9
  <2> QED  BY <2>3, <2>4
<1>7. Nodes(c) \subseteq S
  <2> HIDE DEF S
  <2> QED  BY <1>4, <1>6, DownInduction
<1> QED  BY <1>2, <1>7

\* Every node has its part of the file, an inner one that of its left child followed
\* by that of its right one.
LEMMA Spans ==
  ASSUME NEW c \in Nat \ {0}, PowerOfTwo(c), NEW n \in Nodes(c)
  PROVE  /\ \E a, b : Span(c, n, a, b)
         /\ n \in Inner(c) =>
              \E a, b, d : Span(c, Left(n), a, b) /\ Span(c, Right(n), b + 1, d)
<1>1. CASE n \in Inner(c)
  <2>1. Left(n) \in Nodes(c) /\ Left(n) % 2 = 1 /\ Left(n) + 1 = Right(n)
    <3>1. Left(n) \in Nodes(c)
      BY <1>1, ChildFacts
    <3> QED  BY <1>1, <3>1 DEF Inner, Left, Right
  <2>2. \E a, b : Span(c, Left(n), a, b) /\ \E d : Span(c, Left(n) + 1, b + 1, d)
    BY <2>1, Neighbours
  <2> QED  BY <1>1, <2>1, <2>2, Neighbours
<1> QED  BY <1>1, Neighbours

(* ------------------------ the chunks under a hash ---------------------- *)
\* The hashes of the leaves below each node, as the recursion collects them
Leaving(c, hash, f) ==
  f = [n \in Nodes(c) |->
        IF n \in Inner(c) THEN f[Left(n)] \o f[Right(n)] ELSE <<hash[n]>>]

LEMMA LeavesExist ==
  ASSUME NEW c \in Nat \ {0}, NEW hash
  PROVE  \E f : Leaving(c, hash, f)
<1> DEFINE H == {hash[n] : n \in Nodes(c)}
           V == Seq(H)
           leafv == [n \in Nodes(c) |-> <<hash[n]>>]
           combine == [x \in Inner(c) \X V \X V |-> x[2] \o x[3]]
<1>1. \A n \in Nodes(c) : <<hash[n]>> \in Seq(H)
  BY ShortSeqs
<1>2. \A a, b \in Seq(H) : a \o b \in Seq(H)
  BY ConcatProperties
<1> HIDE DEF H
<1>3. leafv \in [Nodes(c) -> V]
  BY <1>1
<1>4. combine \in [Inner(c) \X V \X V -> V]
  BY <1>2
<1>5. \A n \in Inner(c) : \A a, b \in V : combine[<<n, a, b>>] = a \o b
  OBVIOUS
<1> HIDE DEF leafv, combine, V
<1>6. PICK f \in [Nodes(c) -> V] : Solves(c, leafv, combine, 0, f)
  BY <1>3, <1>4, TreeRecursion
<1>7. ASSUME NEW n \in Nodes(c)
      PROVE  f[n] = IF n \in Inner(c) THEN f[Left(n)] \o f[Right(n)] ELSE <<hash[n]>>
  <2>1. n >= 0
    BY DEF Nodes
  <2>2. CASE n \in Inner(c)
    <3>1. f[Left(n)] \in V /\ f[Right(n)] \in V
      BY <1>6, <2>2, ChildFacts
    <3>2. combine[<<n, f[Left(n)], f[Right(n)]>>] = f[Left(n)] \o f[Right(n)]
      BY <1>5, <2>2, <3>1
    <3>3. f[n] = combine[<<n, f[Left(n)], f[Right(n)]>>]
      BY <1>6, <2>1, <2>2 DEF Solves
    <3> QED  BY <2>2, <3>2, <3>3
  <2>3. CASE n \notin Inner(c)
    BY <1>6, <2>1, <2>3 DEF Solves, leafv
  <2> QED  BY <2>2, <2>3
<1>8. Leaving(c, hash, f)
  BY <1>6, <1>7 DEF Leaving
<1> QED  BY <1>8

\* A list of the hashes of the leaves below n, in the order of the file
InOrder(c, hash, n, list) ==
  /\ list \in Seq({hash[m] : m \in Nodes(c)})
  /\ \A a, b : Span(c, n, a, b) =>
       /\ Len(list) = b - a + 1
       /\ \A k \in a .. b : list[k - a + 1] = hash[Leaf(c, k)]

LEMMA InOrderLeaf ==
  ASSUME NEW c \in Nat \ {0}, NEW hash, NEW k \in Chunks(c), NEW list,
         list = <<hash[Leaf(c, k)]>>
  PROVE  InOrder(c, hash, Leaf(c, k), list)
<1>1. list \in Seq({hash[m] : m \in Nodes(c)}) /\ Len(list) = 1 /\ list[1] = hash[Leaf(c, k)]
  BY ShortSeqs, LeafFacts
<1>2. Span(c, Leaf(c, k), k, k)
  <2>1. Covered(c, Leaf(c, k)) = {k}
    BY CoveredLeaf
  <2>2. {k} = k .. k
    BY DEF Chunks
  <2> QED  BY <2>1, <2>2 DEF Span, Chunks
<1>3. ASSUME NEW a, NEW b, Span(c, Leaf(c, k), a, b) PROVE a = k /\ b = k
  BY <1>2, <1>3, SpanUnique
<1>4. k \in Nat /\ k - k + 1 = 1 /\ \A j \in k .. k : j = k
  BY DEF Chunks
<1>5. ASSUME NEW a, NEW b, Span(c, Leaf(c, k), a, b)
      PROVE  /\ Len(list) = b - a + 1
             /\ \A j \in a .. b : list[j - a + 1] = hash[Leaf(c, j)]
  BY <1>1, <1>3, <1>4, <1>5
<1> QED  BY <1>1, <1>5 DEF InOrder

LEMMA InOrderInner ==
  ASSUME NEW c \in Nat \ {0}, PowerOfTwo(c), NEW hash, NEW n \in Inner(c), NEW l, NEW r,
         InOrder(c, hash, Left(n), l), InOrder(c, hash, Right(n), r)
  PROVE  InOrder(c, hash, n, l \o r)
<1> DEFINE H == {hash[m] : m \in Nodes(c)}
<1>1. l \in Seq(H) /\ r \in Seq(H)
  BY DEF InOrder
<1> HIDE DEF H
<1>2. n \in Nodes(c)
  BY DEF Inner, Nodes
<1>3. PICK a, b, d : Span(c, Left(n), a, b) /\ Span(c, Right(n), b + 1, d)
  BY <1>2, Spans
<1>4. Span(c, n, a, d)
  BY <1>3, SpanInner
<1>5. a \in Nat /\ b \in Nat /\ d \in Nat /\ a <= b /\ b + 1 <= d
  <2>1. a <= b /\ b + 1 <= d /\ a \in Chunks(c) /\ b \in Chunks(c) /\ d \in Chunks(c)
    BY <1>3 DEF Span
  <2> QED  BY <2>1 DEF Chunks
<1>6. /\ Len(l) = b - a + 1 /\ \A k \in a .. b : l[k - a + 1] = hash[Leaf(c, k)]
      /\ Len(r) = d - (b + 1) + 1 /\ \A k \in b + 1 .. d : r[k - (b + 1) + 1] = hash[Leaf(c, k)]
  BY <1>3 DEF InOrder
<1> DEFINE w == l \o r
<1>7. /\ w \in Seq(H) /\ Len(w) = Len(l) + Len(r)
      /\ \A i \in 1 .. Len(l) + Len(r) :
           w[i] = IF i <= Len(l) THEN l[i] ELSE r[i - Len(l)]
  BY <1>1, ConcatProperties
<1> HIDE DEF w
<1>8. Len(w) = d - a + 1
  BY <1>5, <1>6, <1>7
<1>9. ASSUME NEW k \in a .. d PROVE w[k - a + 1] = hash[Leaf(c, k)]
  <2>1. k \in Nat /\ k - a + 1 \in 1 .. Len(l) + Len(r)
    BY <1>5, <1>6
  <2>2. CASE k <= b
    <3>1. k \in a .. b /\ k - a + 1 <= Len(l)
      BY <1>5, <1>6, <2>1, <2>2
    <3> QED  BY <1>6, <1>7, <2>1, <3>1
  <2>3. CASE k > b
    <3>1. /\ k \in b + 1 .. d /\ ~ (k - a + 1 <= Len(l))
          /\ (k - a + 1) - Len(l) = k - (b + 1) + 1
      BY <1>5, <1>6, <2>1, <2>3
    <3>2. w[k - a + 1] = r[(k - a + 1) - Len(l)]
      BY <1>7, <2>1, <3>1
    <3> QED  BY <1>6, <3>1, <3>2
  <2> QED  BY <1>5, <2>1, <2>2, <2>3
<1>10. ASSUME NEW x, NEW y, Span(c, n, x, y) PROVE x = a /\ y = d
  BY <1>4, <1>10, SpanUnique
<1>11. ASSUME NEW x, NEW y, Span(c, n, x, y)
       PROVE  Len(w) = y - x + 1 /\ \A k \in x .. y : w[k - x + 1] = hash[Leaf(c, k)]
  BY <1>8, <1>9, <1>10, <1>11
<1> QED  BY <1>7, <1>11 DEF InOrder, H, w

\* What is collected is in order.
LEMMA LeavesInOrder ==
  ASSUME NEW c \in Nat \ {0}, PowerOfTwo(c), NEW hash, NEW f, Leaving(c, hash, f)
  PROVE  \A n \in Nodes(c) : InOrder(c, hash, n, f[n])
<1> DEFINE S == {n \in Nodes(c) : InOrder(c, hash, n, f[n])}
<1>0. \A n \in Nodes(c) :
        f[n] = IF n \in Inner(c) THEN f[Left(n)] \o f[Right(n)] ELSE <<hash[n]>>
  BY DEF Leaving
<1>1. ASSUME NEW n \in Nodes(c) \ Inner(c) PROVE n \in S
  <2>1. PICK k \in Chunks(c) : n = Leaf(c, k)
    <3>1. n - (c - 2) \in Chunks(c) /\ n = Leaf(c, n - (c - 2))
      BY DEF Nodes, Inner, Chunks, Leaf
    <3> QED  BY <3>1
  <2>2. f[n] = <<hash[n]>>
    BY <1>0
  <2> QED  BY <2>1, <2>2, InOrderLeaf
<1>2. ASSUME NEW n \in Inner(c), Left(n) \in S, Right(n) \in S PROVE n \in S
  <2>1. n \in Nodes(c)
    BY DEF Inner, Nodes
  <2>2. f[n] = f[Left(n)] \o f[Right(n)]
    BY <1>0, <2>1
  <2> QED  BY <1>2, <2>1, <2>2, InOrderInner
<1>3. Nodes(c) \subseteq S
  <2> HIDE DEF S
  <2> QED  BY <1>1, <1>2, TreeInduction
<1> QED  BY <1>3

\* No chunk is taken for two concatenated hashes: no leaf has the hash of an inner node.
KindsApart(c, hash) ==
  \A m \in Inner(c) : \A n \in Nodes(c) \ Inner(c) : hash[m] # hash[n]

\* Nodes with the same hash have the same leaves.
LEMMA SameLeaves ==
  ASSUME NEW c \in Nat \ {0}, NEW hash, HashesOf(c, hash), KindsApart(c, hash),
         NEW f, Leaving(c, hash, f)
  PROVE  \A m, n \in Nodes(c) : hash[m] = hash[n] => f[m] = f[n]
<1> DEFINE S == {m \in Nodes(c) : \A n \in Nodes(c) : hash[m] = hash[n] => f[m] = f[n]}
<1>0. \A n \in Nodes(c) :
        f[n] = IF n \in Inner(c) THEN f[Left(n)] \o f[Right(n)] ELSE <<hash[n]>>
  BY DEF Leaving
<1>1. ASSUME NEW m \in Nodes(c) \ Inner(c) PROVE m \in S
  <2>1. \A n \in Nodes(c) : hash[m] = hash[n] => n \notin Inner(c)
    BY DEF KindsApart
  <2> QED  BY <1>0, <2>1
<1>2. ASSUME NEW m \in Inner(c), Left(m) \in S, Right(m) \in S PROVE m \in S
  <2>1. m \in Nodes(c)
    BY DEF Inner, Nodes
  <2>2. ASSUME NEW n \in Nodes(c), hash[m] = hash[n] PROVE f[m] = f[n]
    <3>1. n \in Inner(c)
      BY <2>2 DEF KindsApart
    <3>2. hash[Left(m)] = hash[Left(n)] /\ hash[Right(m)] = hash[Right(n)]
      BY <2>2, <3>1 DEF HashesOf
    <3>3. Left(n) \in Nodes(c) /\ Right(n) \in Nodes(c)
      BY <3>1, ChildFacts
    <3>4. f[Left(m)] = f[Left(n)] /\ f[Right(m)] = f[Right(n)]
      BY <1>2, <3>2, <3>3
    <3> QED  BY <1>0, <2>1, <3>1, <3>4
  <2> QED  BY <2>1, <2>2
<1>3. Nodes(c) \subseteq S
  <2> HIDE DEF S
  <2> QED  BY <1>1, <1>2, TreeInduction
<1> QED  BY <1>3

\* The chunks listed under a hash of the tree are those of its node's part of the file,
\* in order, whichever of the nodes with that hash is found (pkgchk.c:601-660).
THEOREM ChunkHashesInOrder ==
  ASSUME NEW c \in Nat \ {0}, PowerOfTwo(c), NEW hash, HashesOf(c, hash),
         KindsApart(c, hash), NEW n \in Nodes(c)
  PROVE  LET listed == ChunkHashes(c, hash, hash[n]) IN
         /\ Len(listed) = Cardinality(Covered(c, n))
         /\ \A k \in Covered(c, n) :
              listed[Cardinality({j \in Covered(c, n) : j <= k})] = hash[Leaf(c, k)]
<1> DEFINE L == CHOOSE f : Leaving(c, hash, f)
           h == hash[n]
           listed == ChunkHashes(c, hash, h)
<1>1. PICK m \in Nodes(c) : hash[m] = h /\ FindHash(c, hash, h) = {m}
  BY FindHashFinds
<1>2. \E f : Leaving(c, hash, f)
  BY LeavesExist
<1>3. Leaving(c, hash, L)
  BY <1>2
<1>4. listed = L[m]
  <2> HIDE DEF h
  <2>1. ChunkHashes(c, hash, h) = IF FindHash(c, hash, h) = {} THEN <<>>
                                  ELSE L[CHOOSE x \in FindHash(c, hash, h) : TRUE]
    BY Zenon DEF ChunkHashes, Leaving
  <2> HIDE DEF L
  <2>2. (CHOOSE x \in {m} : TRUE) = m
    OBVIOUS
  <2> QED  BY <1>1, <2>1, <2>2
<1> HIDE DEF L, listed
<1>5. L[m] = L[n]
  BY <1>1, <1>3, SameLeaves
<1>6. PICK a, b : Span(c, n, a, b)
  BY Spans
<1>7. /\ a \in Nat /\ b \in Nat /\ a <= b /\ Covered(c, n) = a .. b
  BY <1>6 DEF Span, Chunks
<1>8. /\ Len(listed) = b - a + 1
      /\ \A k \in a .. b : listed[k - a + 1] = hash[Leaf(c, k)]
  <2>1. InOrder(c, hash, n, L[n])
    BY <1>3, LeavesInOrder
  <2> QED  BY <1>4, <1>5, <1>6, <2>1 DEF InOrder
<1>9. Cardinality(Covered(c, n)) = b - a + 1
  BY <1>7, FS_Interval
<1>10. ASSUME NEW k \in Covered(c, n)
       PROVE  Cardinality({j \in Covered(c, n) : j <= k}) = k - a + 1
  <2>1. {j \in Covered(c, n) : j <= k} = a .. k
    BY <1>7
  <2>2. a \in Int /\ k \in Int /\ a <= k
    BY <1>7
  <2>3. Cardinality(a .. k) = k - a + 1
    BY <2>2, FS_Interval
  <2> QED  BY <2>1, <2>3
<1> QED  BY <1>7, <1>8, <1>9, <1>10 DEF listed

(* ----------------------- the searches in Packages ---------------------- *)
\* In no package is a chunk taken for two concatenated hashes.
HashKindsApart == \A p \in Pkg : KindsApart(NChunks[p], Hashes[p])

\* Of every managed package, the chunks under each of its hashes are listed in order,
\* for trees of every size and with any equal chunks in them (pkgchk.c:601-660).
THEOREM ChunksUnderHashInOrderAlways ==
  ASSUME HashKindsApart
  PROVE  Spec => []ChunksUnderHashInOrder
<1>1. ASSUME TypeInv PROVE ChunksUnderHashInOrder
  <2> SUFFICES ASSUME NEW i \in DOMAIN table, NEW p, p = PkgOf(table[i]),
                      NEW n \in Nodes(NChunks[p])
               PROVE  LET listed == ChunkHashes(NChunks[p], Hashes[p], Hashes[p][n]) IN
                      /\ Len(listed) = Cardinality(Under[p][n])
                      /\ \A k \in Under[p][n] :
                           listed[Cardinality({j \in Under[p][n] : j <= k})]
                             = Hashes[p][Leaf(NChunks[p], k)]
    BY Zenon DEF ChunksUnderHashInOrder
  <2>1. table[i] \in 1 .. Len(made)
    <3>1. table \in Seq(1 .. Len(made)) /\ i \in 1 .. Len(table)
      BY <1>1, LenProperties DEF TypeInv, PointersOK
    <3> QED  BY <3>1, ElementOfSeq
  <2>2. p \in Pkg
    BY <1>1, <2>1, ObjectFacts DEF TypeInv
  <2>3. /\ NChunks[p] \in Nat \ {0} /\ PowerOfTwo(NChunks[p])
        /\ HashesOf(NChunks[p], Hashes[p]) /\ KindsApart(NChunks[p], Hashes[p])
        /\ Under[p][n] = Covered(NChunks[p], n)
    BY <2>2, UnderFacts, PackageAssumption DEF HashKindsApart
  <2> QED  BY <2>3, ChunkHashesInOrder
<1>2. TypeInv /\ [Next]_vars => TypeInv'
  BY NextTypeInv
<1> QED  BY <1>1, <1>2, InitTypeInv, PTL DEF Spec

\* NULL is dereferenced by a step on a package of one chunk, or of a handler that was
\* asked for a hash no node has.
Nulls(t) == /\ obj[t] # 0
            /\ Count(obj[t]) = 1 \/ (job[t] \in REQ /\ Unknown(t))

LEMMA NullStep ==
  ASSUME TypeInv, NEW t \in Thread, UseNull(t)
  PROVE  Nulls(t)
<1>1. pc[t] \in Using
  BY DEF UseNull, At, Using
<1>2. /\ obj[t] \in 1 .. Len(made) /\ PkgOf(obj[t]) \in Pkg
      /\ Count(obj[t]) = NChunks[PkgOf(obj[t])] /\ NChunks[PkgOf(obj[t])] \in Nat \ {0}
  BY <1>1, UsedPointer
<1>3. CASE ChunkNode(Count(obj[t]), idx[t]) = {}
  BY <1>2, <1>3 DEF ChunkNode, Nulls
<1>4. CASE pc[t] = "check" /\ t # Main /\ Target(t) = {}
  <2> DEFINE p == PkgOf(obj[t])
  <2>1. job[t] \in REQ
    BY <1>4 DEF TypeInv, JobsOK
  <2>2. \A n \in Nodes(NChunks[p]) : Hashes[p][n] # job[t].hash
    <3>1. \A n : FindHash(NChunks[p], Hashes[p], job[t].hash) # {n}
      BY <1>4 DEF Target
    <3> QED  BY <1>2, <3>1, FindHashFinds
  <2> QED  BY <1>2, <2>1, <2>2 DEF Nulls, Unknown
<1> QED  BY <1>3, <1>4 DEF UseNull, At

\* The process ends with its first fault: nothing changes any more.
LEMMA FaultFacts ==
  ASSUME [Next]_vars
  PROVE  /\ fault # "none" => UNCHANGED vars
         /\ fault' = fault \/ \E t \in Thread : UseFreed(t) \/ UseNull(t) \/ UseNoFile(t)
<1>1. fault # "none" => UNCHANGED vars
  <2>1. Command => fault = "none"
    BY DEF Command, At, AddPackage, RemovePackage, ListPackages
  <2>2. \A e \in Incoming : Receive(e[1], e[2]) => fault = "none"
    BY DEF At, Receive
  <2>3. ASSUME NEW t \in Thread, Scan(t) PROVE fault = "none"
    BY <2>3 DEF Scan, At, OpenFile, HashChunk, StoreHash, ComputeHashes, VisitNode
  <2>4. ASSUME NEW t \in Thread, Sent(t) \/ Step(t) PROVE fault = "none"
    BY <2>3, <2>4 DEF Step, At, AppendPackage, ListNext, GetPackage, CheckChunk, Serve,
                      Sent, FileCheck, CreateFile, WriteChunk, UseFreed, UseNull,
                      UseNoFile
  <2> QED  BY <2>1, <2>2, <2>4 DEF Next
<1>2. fault' = fault \/ \E t \in Thread : UseFreed(t) \/ UseNull(t) \/ UseNoFile(t)
  BY DEF Next, Command, Step, Scan, vars, AppendPackage, AddPackage, RemovePackage,
         ListPackages, ListNext, OpenFile, HashChunk, StoreHash, ComputeHashes,
         VisitNode, Receive, GetPackage, CheckChunk, Serve, Sent, FileCheck, CreateFile,
         WriteChunk
<1> QED  BY <1>1, <1>2

\* Whatever peers ask for: a thread that dereferences NULL works on a package of a
\* single chunk, or was asked for a hash that is nowhere in the tree, for trees of
\* every size (pkgchk.c:559, packet.c:97).
THEOREM NullOnlyIfSingleOrUnknownAlways == Spec => []NullOnlyIfSingleOrUnknown
<1>1. Init => TypeInv /\ NullOnlyIfSingleOrUnknown
  BY InitTypeInv DEF Init, NullOnlyIfSingleOrUnknown
<1>2. ASSUME TypeInv, NullOnlyIfSingleOrUnknown, [Next]_vars
      PROVE  NullOnlyIfSingleOrUnknown'
  <2>1. CASE fault # "none"
    <3>1. UNCHANGED <<fault, obj, job, made>>
      BY <1>2, <2>1, FaultFacts DEF vars, tableVars
    <3> QED  BY <1>2, <3>1 DEF NullOnlyIfSingleOrUnknown, Count, PkgOf, Unknown
  <2>2. CASE fault = "none"
    <3> SUFFICES ASSUME fault' = "null"
                 PROVE  \E t \in Thread : Nulls(t)'
      BY DEF NullOnlyIfSingleOrUnknown, Nulls
    <3>1. PICK t \in Thread : UseNull(t)
      BY <1>2, <2>2, FaultFacts DEF UseFreed, UseNoFile
    <3>2. Nulls(t)
      BY <1>2, <3>1, NullStep
    <3>3. obj' = obj /\ made' = made /\ job' = job
      BY <3>1 DEF UseNull, tableVars
    <3> QED  BY <3>2, <3>3 DEF Nulls, Count, PkgOf, Unknown
  <2> QED  BY <2>1, <2>2
<1>3. TypeInv /\ NullOnlyIfSingleOrUnknown /\ [Next]_vars
        => (TypeInv /\ NullOnlyIfSingleOrUnknown)'
  BY <1>2, NextTypeInv
<1> QED  BY <1>1, <1>3, PTL DEF Spec
=============================================================================
