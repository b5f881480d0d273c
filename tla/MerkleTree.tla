----------------------------- MODULE MerkleTree -----------------------------
(***************************************************************************)
(* The merkle tree of a package (pkgchk.c): its shape, the searches on it, *)
(* and what they are compared with.  A package of c chunks has c - 1       *)
(* hashes (pkgchk.h:39-41).  A node is its place in level order, the index *)
(* of `layers`: root 0, inner nodes 0 .. c-2, then one leaf per chunk.  A  *)
(* pointer to a node is a set of at most one node, NULL the empty one.     *)
(***************************************************************************)
EXTENDS Integers, Sequences

Nodes(c)  == 0 .. (2 * c - 2)
Inner(c)  == 0 .. (c - 2)
Chunks(c) == 1 .. c

\* A node's parent is layers[(i - 1) / 2]; odd ones are left children.
Parent(n) == (n - 1) \div 2
Left(n)   == 2 * n + 1
Right(n)  == 2 * n + 2
Children(c, n) == IF n \in Inner(c) THEN <<Left(n), Right(n)>> ELSE <<>>
Leaf(c, k) == c - 2 + k

\* The children that are no leaves: both or none, the number of chunks is even.
InnerChildren(c, n) == IF Right(n) \in Inner(c) THEN Children(c, n) ELSE <<>>

\* Mutant: the chunks are counted from one.
MutChunkNode(c, k) == {c - 1 + k} \cap Nodes(c)

\* chunk_node: a tree of one chunk is returned before the field is set.
ChunkNode(c, k) == IF c = 1 THEN {} ELSE {Leaf(c, k)}

\* find_hash: before its subtrees the node itself, left before right
FindHash(c, hash, h) ==
  LET Find[n \in Nodes(c)] ==
        IF hash[n] = h THEN {n}
        ELSE IF n \notin Inner(c) THEN {}
        ELSE IF Find[Left(n)] # {} THEN Find[Left(n)] ELSE Find[Right(n)]
  IN Find[0]

\* Mutant: the right subtree is merged first.
MutChunkHashes(c, hash, h) ==
  LET Leaves[n \in Nodes(c)] ==
        IF n \in Inner(c) THEN Leaves[Right(n)] \o Leaves[Left(n)]
        ELSE <<hash[n]>>
      target == FindHash(c, hash, h)
  IN IF target = {} THEN <<>> ELSE Leaves[CHOOSE n \in target : TRUE]

\* bpkg_get_all_chunk_hashes_from_hash: the leaves under the node found
ChunkHashes(c, hash, h) ==
  LET Leaves[n \in Nodes(c)] ==
        IF n \in Inner(c) THEN Leaves[Left(n)] \o Leaves[Right(n)]
        ELSE <<hash[n]>>
      target == FindHash(c, hash, h)
  IN IF target = {} THEN <<>> ELSE Leaves[CHOOSE n \in target : TRUE]

(* --------------------------- what is meant ----------------------------- *)
\* The nodes on the way from n to the root: the least set that holds n and the
\* parent of whatever it holds.
UpClosed(S) == \A m \in S \ {0} : Parent(m) \in S
Above(c, n) ==
  {m \in Nodes(c) : \A S \in SUBSET Nodes(c) : n \in S /\ UpClosed(S) => m \in S}

\* The chunks under a node: those whose leaf is below it
Covered(c, n) == {k \in Chunks(c) : n \in Above(c, Leaf(c, k))}

\* A power of two, the number of chunks of a perfect tree: halved again and again
\* it comes to one.
PowerOfTwo(c) ==
  \E S \in SUBSET (1 .. c) :
    c \in S /\ \A m \in S \ {1} : m % 2 = 0 /\ m \div 2 \in S

\* Equal hashes mean equal chunks in equal order: SHA-256 taken as injective.
HashesOf(c, hash) ==
  \A m, n \in Inner(c) :
    hash[m] = hash[n] <=>
      hash[Left(m)] = hash[Left(n)] /\ hash[Right(m)] = hash[Right(n)]
=============================================================================
