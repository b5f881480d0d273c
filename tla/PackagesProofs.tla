--------------------------- MODULE PackagesProofs ---------------------------
(***************************************************************************)
(* Theorems about Packages, for every set of packages, package files,      *)
(* handlers and packets they receive.                                      *)
(***************************************************************************)
EXTENDS Packages, MerkleTreeProofs, SequenceTheorems

USE ThreadAssumption

(* ------------------------------- typing -------------------------------- *)
CallsTo(S) == [node : S, back : BOOLEAN]

\* A pointer that is used, or held in the array, is to a package that was loaded.
PointersOK ==
  /\ table \in Seq(1 .. Len(made))
  /\ \A t \in Thread :
       /\ obj[t] \in 0 .. Len(made)
       /\ pc[t] \in Using \cup {"append"} => obj[t] # 0
       /\ pc[t] \in {"compute", "visit"} => todo[t] # <<>>

\* A handler deals with the kind of packet its program point is for.
JobsOK ==
  \A t \in Thread :
    /\ pc[t] = "lookup" => job[t] \in REQ \cup RES
    /\ pc[t] \in {"file", "create", "write"} => job[t] \in RES
    /\ pc[t] = "serve" => job[t] \in REQ
    /\ pc[t] \in {"open", "hash", "store", "compute", "visit", "check"} /\ t # Main
         => job[t] \in REQ

TypeInv == TypeOK /\ PointersOK /\ JobsOK

\* Packages have chunks; files start with no more than those.
LEMMA ConstantFacts ==
  /\ NChunks \in [Pkg -> Nat \ {0}] /\ Describes \in [BpkgFile -> Pkg]
  /\ MaxObjects \in Nat /\ Capacity \in Nat \ {0}
  /\ Files \subseteq Pkg /\ Length \in [Pkg -> Nat] /\ Seeds \in [Pkg -> SUBSET Nat]
BY PackageAssumption, FileAssumption

\* Packets are told by their type.
LEMMA PacketTypes ==
  /\ \A m \in REQ : m.type = "REQ" /\ m.pkg \in Pkg
  /\ \A m \in RES : m.type = "RES" /\ m.pkg \in Pkg /\ m.chunk \in Nat /\ m.good \in BOOLEAN
BY DEF REQ, RES

\* An object that was loaded is of a package, which has chunks.
LEMMA ObjectFacts ==
  ASSUME TypeOK, NEW o \in 1 .. Len(made)
  PROVE  o \in Object /\ made[o] \in BpkgFile /\ PkgOf(o) \in Pkg
         /\ Count(o) \in Nat \ {0}
<1>1. Len(made) \in Nat /\ made \in [1 .. Len(made) -> BpkgFile] /\ Len(made) <= MaxObjects
  BY LenProperties DEF TypeOK
<1> QED  BY <1>1, ConstantFacts DEF PkgOf, Count, Object

\* What was loaded stays what it is when another package is loaded.
LEMMA LoadFacts ==
  ASSUME TypeOK, NEW f \in BpkgFile, Len(made) < MaxObjects, made' = Append(made, f)
  PROVE  /\ made' \in Seq(BpkgFile) /\ Len(made') = Len(made) + 1
         /\ Len(made') <= MaxObjects
         /\ made'[Len(made) + 1] = f
         /\ \A o \in 1 .. Len(made) : made'[o] = made[o]
<1>1. made \in Seq(BpkgFile) /\ Len(made) \in Nat /\ MaxObjects \in Nat
  BY LenProperties, ConstantFacts DEF TypeOK
<1> QED  BY <1>1, AppendProperties

\* What is left of the array when one package is taken out.
LEMMA RemoveFacts ==
  ASSUME NEW S, NEW sq \in Seq(S), NEW i \in DOMAIN sq
  PROVE  /\ RemoveAt(sq, i) \in Seq(S)
         /\ Len(RemoveAt(sq, i)) = Len(sq) - 1
         /\ \A j \in 1 .. (Len(sq) - 1) :
              RemoveAt(sq, i)[j] = IF j < i THEN sq[j] ELSE sq[j + 1]
<1>1. Len(sq) \in Nat /\ i \in 1 .. Len(sq) /\ \A j \in 1 .. Len(sq) : sq[j] \in S
  BY LenProperties, ElementOfSeq
<1> DEFINE a == SubSeq(sq, 1, i - 1)
           b == SubSeq(sq, i + 1, Len(sq))
<1>2. a \in Seq(S) /\ Len(a) = i - 1 /\ \A j \in 1 .. (i - 1) : a[j] = sq[j]
  <2>1. 1 \in Int /\ i - 1 \in Int /\ \A j \in 1 .. (i - 1) : sq[j] \in S
    BY <1>1
  <2>2. /\ a \in Seq(S) /\ Len(a) = IF 1 <= i - 1 THEN (i - 1) - 1 + 1 ELSE 0
        /\ \A j \in 1 .. ((i - 1) - 1 + 1) : a[j] = sq[1 + j - 1]
    BY <2>1, SubSeqProperties
  <2> QED  BY <1>1, <2>2
<1>3. /\ b \in Seq(S) /\ Len(b) = Len(sq) - i
      /\ \A j \in 1 .. (Len(sq) - i) : b[j] = sq[i + j]
  <2>1. i + 1 \in Int /\ Len(sq) \in Int /\ \A j \in (i + 1) .. Len(sq) : sq[j] \in S
    BY <1>1
  <2>2. /\ b \in Seq(S)
        /\ Len(b) = IF i + 1 <= Len(sq) THEN Len(sq) - (i + 1) + 1 ELSE 0
        /\ \A j \in 1 .. (Len(sq) - (i + 1) + 1) : b[j] = sq[(i + 1) + j - 1]
    BY <2>1, SubSeqProperties
  <2> QED  BY <1>1, <2>2
<1>4. RemoveAt(sq, i) = a \o b
  BY DEF RemoveAt
<1> HIDE DEF a, b
<1>5. /\ a \o b \in Seq(S) /\ Len(a \o b) = Len(a) + Len(b)
      /\ \A j \in 1 .. Len(a) + Len(b) :
           (a \o b)[j] = IF j <= Len(a) THEN a[j] ELSE b[j - Len(a)]
  <2>1. a \in Seq(S) /\ b \in Seq(S)
    BY <1>2, <1>3
  <2> QED  BY <2>1, ConcatProperties
<1>6. Len(a) + Len(b) = Len(sq) - 1
  BY <1>1, <1>2, <1>3
<1>7. ASSUME NEW j \in 1 .. (Len(sq) - 1)
      PROVE  (a \o b)[j] = IF j < i THEN sq[j] ELSE sq[j + 1]
  <2>1. (a \o b)[j] = IF j <= i - 1 THEN a[j] ELSE b[j - (i - 1)]
    BY <1>2, <1>5, <1>6
  <2>0. j < i \/ j >= i
    BY <1>1
  <2>2. CASE j < i
    BY <1>1, <1>2, <2>1, <2>2
  <2>3. CASE j >= i
    <3>1. j - (i - 1) \in 1 .. (Len(sq) - i) /\ i + (j - (i - 1)) = j + 1
      BY <1>1, <2>3
    <3> QED  BY <1>1, <1>3, <2>1, <2>3, <3>1
  <2> QED  BY <2>0, <2>2, <2>3
<1> QED  BY <1>4, <1>5, <1>6, <1>7

\* Sequences of none, one and two elements.
LEMMA ShortSeqs ==
  ASSUME NEW S, NEW a \in S, NEW b \in S
  PROVE  <<>> \in Seq(S) /\ <<a>> \in Seq(S) /\ <<a, b>> \in Seq(S)
<1>1. <<>> \in [1 .. 0 -> S] /\ <<a>> \in [1 .. 1 -> S] /\ <<a, b>> \in [1 .. 2 -> S]
  OBVIOUS
<1> QED  BY <1>1, SeqDef

\* The calls made at a node are to nodes, those that are computed to inner ones.
LEMMA CallsFacts ==
  ASSUME NEW c \in Nat \ {0}, NEW n \in Nat
  PROVE  /\ Calls(Children(c, n)) \in Seq(CallsTo(Nat))
         /\ Calls(InnerChildren(c, n)) \in Seq(CallsTo(Inner(c)))
<1>1. /\ Call(Left(n)) \in CallsTo(Nat) /\ Call(Right(n)) \in CallsTo(Nat)
      /\ Left(n) \in Nat /\ Right(n) \in Nat
  BY DEF Call, CallsTo, Left, Right
<1>2. Calls(<<>>) = <<>>
  BY DEF Calls
<1>3. Calls(<<Left(n), Right(n)>>) = <<Call(Left(n)), Call(Right(n))>>
  BY DEF Calls
<1>4. Calls(Children(c, n)) \in Seq(CallsTo(Nat))
  <2>1. /\ <<>> \in Seq(CallsTo(Nat))
        /\ <<Call(Left(n)), Call(Right(n))>> \in Seq(CallsTo(Nat))
    BY <1>1, ShortSeqs
  <2>2. Children(c, n) = <<>> \/ Children(c, n) = <<Left(n), Right(n)>>
    BY DEF Children
  <2> QED  BY <1>2, <1>3, <2>1, <2>2
<1>5. CASE Right(n) \in Inner(c)
  <2>1. n \in Inner(c) /\ Left(n) \in Inner(c)
    BY <1>5 DEF Inner, Left, Right
  <2>2. Call(Left(n)) \in CallsTo(Inner(c)) /\ Call(Right(n)) \in CallsTo(Inner(c))
    BY <1>5, <2>1 DEF Call, CallsTo
  <2>3. Calls(InnerChildren(c, n)) = <<Call(Left(n)), Call(Right(n))>>
    BY <1>3, <1>5, <2>1 DEF InnerChildren, Children
  <2>4. <<Call(Left(n)), Call(Right(n))>> \in Seq(CallsTo(Inner(c)))
    BY <2>2, ShortSeqs
  <2> QED  BY <1>4, <2>3, <2>4
<1>6. CASE Right(n) \notin Inner(c)
  <2>1. InnerChildren(c, n) = <<>>
    BY <1>6 DEF InnerChildren
  <2>2. <<>> \in Seq(CallsTo(Inner(c)))
    BY EmptySeq
  <2> QED  BY <1>2, <1>4, <2>1, <2>2
<1> QED  BY <1>5, <1>6

\* Returning leaves calls of the same kind, and only to a step that needs none
\* leaves no calls.
LEMMA ReturnFacts ==
  ASSUME TypeOK, NEW t \in Thread, NEW S, NEW rest \in Seq(S), NEW first \in Seq(S),
         NEW next, Return(t, rest, next, first)
  PROVE  /\ todo' = [todo EXCEPT ![t] = todo'[t]]
         /\ todo'[t] \in Seq(S)
         /\ pc' = [pc EXCEPT ![t] = pc'[t]]
         /\ \/ rest # <<>> /\ todo'[t] = rest /\ pc'[t] = pc[t]
            \/ rest = <<>> /\ todo'[t] = first /\ pc'[t] = next
<1>1. t \in DOMAIN todo /\ t \in DOMAIN pc
  BY DEF TypeOK
<1> QED  BY <1>1 DEF Return, Goto, TypeOK

\* A call that is made is of a node.
LEMMA HeadFacts ==
  ASSUME TypeOK, NEW t \in Thread, todo[t] # <<>>, NEW S, todo[t] \in Seq(CallsTo(S))
  PROVE  Head(todo[t]).node \in S /\ Tail(todo[t]) \in Seq(CallsTo(S))
<1>1. Head(todo[t]) \in CallsTo(S) /\ Tail(todo[t]) \in Seq(CallsTo(S))
  BY HeadTailProperties
<1> QED  BY <1>1 DEF CallsTo

LEMMA InitTypeInv == Init => TypeInv
<1> SUFFICES ASSUME Init PROVE TypeInv
  OBVIOUS
<1>1. TypeOK
  BY ConstantFacts DEF Init, TypeOK, Object
<1>2. PointersOK /\ JobsOK
  BY DEF Init, PointersOK, JobsOK, Using
<1> QED  BY <1>1, <1>2 DEF TypeInv

LEMMA NextTypeInv == TypeInv /\ [Next]_vars => TypeInv'
<1> SUFFICES ASSUME TypeInv, [Next]_vars PROVE TypeInv'
  OBVIOUS
<1>0. TypeOK /\ PointersOK /\ JobsOK
  BY DEF TypeInv
<1>p. /\ Main \in Thread /\ 0 \in 0 .. MaxObjects /\ MaxObjects \in Nat
      /\ \A o \in 1 .. Len(made) : o \in 0 .. MaxObjects
      /\ Len(made) \in Nat
  <2>1. Main \in Thread /\ 0 \in 0 .. MaxObjects /\ MaxObjects \in Nat
    BY ConstantFacts DEF Thread
  <2>2. Len(made) \in Nat
    BY <1>0, LenProperties DEF TypeOK
  <2>3. \A o \in 1 .. Len(made) : o \in 0 .. MaxObjects
    BY <1>0, ObjectFacts DEF Object
  <2> QED  BY <2>1, <2>2, <2>3
<1> USE DEF tableVars, fileVars, scanVars, At, Goto, Using
<1>1. ASSUME NEW f \in BpkgFile, AddPackage(f) PROVE TypeInv'
  <2>1. /\ made' \in Seq(BpkgFile) /\ Len(made') = Len(made) + 1
        /\ Len(made') <= MaxObjects /\ Len(made) \in Nat
    BY <1>0, <1>1, LoadFacts, LenProperties DEF AddPackage, TypeOK
  <2>2. TypeOK'
    <3>1. obj' \in [Thread -> 0 .. MaxObjects]
      BY <1>0, <1>1, <1>p, <2>1 DEF AddPackage, TypeOK
    <3> QED  BY <1>0, <1>1, <2>1, <3>1 DEF AddPackage, TypeOK
  <2>3. table \in Seq(1 .. Len(made'))
    BY <1>0, <2>1, SeqMonotonic DEF PointersOK
  <2>4. PointersOK'
    BY <1>0, <1>1, <2>1, <2>3 DEF AddPackage, PointersOK, TypeOK
  <2>5. JobsOK'
    BY <1>0, <1>1 DEF AddPackage, JobsOK, TypeOK
  <2> QED  BY <2>2, <2>4, <2>5 DEF TypeInv
<1>2. ASSUME AppendPackage PROVE TypeInv'
  <2>1. Main \in Thread /\ obj[Main] \in 1 .. Len(made) /\ obj[Main] \in Object
    BY <1>0, <1>2, ObjectFacts DEF AppendPackage, PointersOK, Thread
  <2>2. table' \in Seq(Object) /\ table' \in Seq(1 .. Len(made))
    BY <1>0, <1>2, <2>1, AppendProperties DEF AppendPackage, TypeOK, PointersOK
  <2>3. TypeOK'
    BY <1>0, <1>2, <1>p, <2>2 DEF AppendPackage, TypeOK
  <2>4. PointersOK'
    BY <1>0, <1>2, <2>2, LenProperties DEF AppendPackage, PointersOK, TypeOK
  <2>5. JobsOK'
    BY <1>0, <1>2 DEF AppendPackage, JobsOK, TypeOK
  <2> QED  BY <2>3, <2>4, <2>5 DEF TypeInv
<1>3. ASSUME NEW p \in Pkg, RemovePackage(p) PROVE TypeInv'
  <2>1. PICK i \in FirstIn(Managed(p)) :
          freed' = freed \cup {table[i]} /\ table' = RemoveAt(table, i)
    BY <1>3 DEF RemovePackage
  <2>2. i \in DOMAIN table
    BY DEF FirstIn, Managed
  <2>3. /\ table' \in Seq(Object) /\ table' \in Seq(1 .. Len(made))
        /\ table[i] \in Object
    BY <1>0, <2>1, <2>2, RemoveFacts, LenProperties, ElementOfSeq DEF TypeOK, PointersOK
  <2>4. TypeOK'
    BY <1>0, <1>3, <2>1, <2>3 DEF RemovePackage, TypeOK
  <2>5. PointersOK' /\ JobsOK'
    BY <1>0, <1>3, <2>3 DEF RemovePackage, PointersOK, JobsOK
  <2> QED  BY <2>4, <2>5 DEF TypeInv
<1>4. ASSUME ListPackages PROVE TypeInv'
  <2>1. Main \in Thread /\ table[1] \in 1 .. Len(made) /\ table[1] \in Object
    BY <1>0, <1>4, EmptySeq, LenProperties, ElementOfSeq, ObjectFacts
       DEF ListPackages, PointersOK, Thread
  <2>2. TypeOK'
    BY <1>0, <1>4, <1>p, <2>1 DEF ListPackages, TypeOK
  <2>3. PointersOK'
    BY <1>0, <1>4, <2>1 DEF ListPackages, PointersOK, TypeOK
  <2>4. JobsOK'
    BY <1>0, <1>4 DEF ListPackages, JobsOK, TypeOK
  <2> QED  BY <2>2, <2>3, <2>4 DEF TypeInv
<1>5. ASSUME ListNext PROVE TypeInv'
  <2>1. Main \in Thread /\ row \in Nat /\ Len(made) \in Nat
    BY <1>0, LenProperties DEF TypeOK, Thread
  <2>2. CASE /\ row < Len(table) /\ row' = row + 1
             /\ obj' = [obj EXCEPT ![Main] = table[row + 1]]
             /\ pc' = [pc EXCEPT ![Main] = "open"]
    <3>1. table[row + 1] \in 1 .. Len(made) /\ table[row + 1] \in Object
      BY <1>0, <2>1, <2>2, LenProperties, ElementOfSeq, ObjectFacts DEF PointersOK
    <3>2. TypeOK'
      BY <1>0, <1>5, <1>p, <2>1, <2>2, <3>1 DEF ListNext, EndQuery, TypeOK
    <3>3. PointersOK'
      BY <1>0, <1>5, <2>1, <2>2, <3>1 DEF ListNext, EndQuery, PointersOK, TypeOK
    <3>4. JobsOK'
      BY <1>0, <1>5, <2>1, <2>2 DEF ListNext, EndQuery, JobsOK, TypeOK
    <3> QED  BY <3>2, <3>3, <3>4 DEF TypeInv
  <2>3. CASE /\ row' = 0 /\ obj' = [obj EXCEPT ![Main] = 0]
             /\ pc' = [pc EXCEPT ![Main] = "idle"]
    <3>1. TypeOK'
      BY <1>0, <1>5, <1>p, <2>1, <2>3 DEF ListNext, EndQuery, TypeOK
    <3>2. PointersOK'
      BY <1>0, <1>5, <2>1, <2>3 DEF ListNext, EndQuery, PointersOK, TypeOK
    <3>3. JobsOK'
      BY <1>0, <1>5, <2>1, <2>3 DEF ListNext, EndQuery, JobsOK, TypeOK
    <3> QED  BY <3>1, <3>2, <3>3 DEF TypeInv
  <2> QED  BY <1>5, <2>2, <2>3 DEF ListNext
<1>6. ASSUME NEW t \in Thread, OpenFile(t) PROVE TypeInv'
  <2>1. TypeOK'
    BY <1>0, <1>6 DEF OpenFile, TypeOK
  <2>2. PointersOK' /\ JobsOK'
    BY <1>0, <1>6 DEF OpenFile, PointersOK, JobsOK, TypeOK
  <2> QED  BY <2>1, <2>2 DEF TypeInv
<1>7. ASSUME NEW t \in Thread, HashChunk(t) PROVE TypeInv'
  <2>1. TypeOK'
    <3>1. {idx[t]} \cap right[PkgOf(obj[t])] \in SUBSET Nat
      BY <1>0 DEF TypeOK
    <3>2. snap' \in [Thread -> SUBSET Nat]
      BY <1>0, <1>7, <3>1 DEF HashChunk, TypeOK
    <3>3. idx' \in [Thread -> Nat]
      <4>1. idx \in [Thread -> Nat] /\ (idx' = idx \/ idx' = [idx EXCEPT ![t] = 1])
        BY <1>0, <1>7 DEF HashChunk, TypeOK
      <4> QED  BY <4>1
    <3> QED  BY <1>0, <1>7, <3>2, <3>3 DEF HashChunk, TypeOK
  <2>2. PointersOK' /\ JobsOK'
    BY <1>0, <1>7 DEF HashChunk, PointersOK, JobsOK, TypeOK
  <2> QED  BY <2>1, <2>2 DEF TypeInv
<1>8. ASSUME NEW t \in Thread, StoreHash(t) PROVE TypeInv'
  <2>1. obj[t] \in 1 .. Len(made) /\ obj[t] \in Object /\ Count(obj[t]) \in Nat \ {0}
    BY <1>0, <1>8, ObjectFacts DEF StoreHash, PointersOK
  <2>2. ChunkNode(Count(obj[t]), idx[t]) \in SUBSET Nat
    BY <1>0, <1>8, <2>1 DEF StoreHash, ChunkNode, Leaf, TypeOK
  <2>3. computed' \in [Object -> SUBSET Nat]
    BY <1>0, <1>8, <2>1, <2>2 DEF StoreHash, TypeOK
  <2>4. <<Call(0)>> \in Seq([node : Nat, back : BOOLEAN]) /\ <<Call(0)>> # <<>>
    BY DEF Call
  <2>5. TypeOK'
    <3>0. idx \in [Thread -> Nat] /\ snap \in [Thread -> SUBSET Nat]
      BY <1>0 DEF TypeOK
    <3>1. snap' \in [Thread -> SUBSET Nat]
      BY <1>8, <3>0 DEF StoreHash
    <3>3. idx' \in [Thread -> Nat]
      BY <1>8, <3>0 DEF StoreHash
    <3>2. todo' \in [Thread -> Seq([node : Nat, back : BOOLEAN])]
      BY <1>0, <1>8, <2>4 DEF StoreHash, TypeOK
    <3> QED  BY <1>0, <1>8, <2>3, <3>1, <3>2, <3>3 DEF StoreHash, TypeOK
  <2>6. PointersOK' /\ JobsOK'
    <3>1. PointersOK'
      BY <1>0, <1>8, <2>4 DEF StoreHash, PointersOK, TypeOK
    <3>2. JobsOK'
      BY <1>0, <1>8 DEF StoreHash, JobsOK, TypeOK
    <3> QED  BY <3>1, <3>2
  <2> QED  BY <2>5, <2>6 DEF TypeInv
<1>9. ASSUME NEW t \in Thread, ComputeHashes(t) PROVE TypeInv'
  <2> DEFINE n == Head(todo[t]).node
             c == Count(obj[t])
  <2>1. obj[t] \in 1 .. Len(made) /\ obj[t] \in Object /\ c \in Nat \ {0}
    BY <1>0, <1>9, ObjectFacts DEF ComputeHashes, PointersOK
  <2>2. todo[t] \in Seq(CallsTo(Nat)) /\ todo[t] # <<>>
    BY <1>0, <1>9 DEF ComputeHashes, PointersOK, TypeOK, CallsTo
  <2>3. n \in Nat /\ Tail(todo[t]) \in Seq(CallsTo(Nat))
    BY <1>0, <2>2, HeadFacts
  <2>4. CASE /\ todo' = [todo EXCEPT ![t] = Calls(InnerChildren(c, n)) \o
                           <<[node |-> n, back |-> TRUE]>> \o Tail(todo[t])]
             /\ UNCHANGED <<computed, pc>>
    <3>1. Calls(InnerChildren(c, n)) \in Seq(CallsTo(Nat))
      <4>1. CallsTo(Inner(c)) \subseteq CallsTo(Nat)
        BY DEF CallsTo, Inner
      <4> QED  BY <2>1, <2>3, <4>1, CallsFacts, SeqMonotonic
    <3>2. <<[node |-> n, back |-> TRUE]>> \in Seq(CallsTo(Nat))
      BY <2>3 DEF CallsTo
    <3> DEFINE new == Calls(InnerChildren(c, n)) \o
                        <<[node |-> n, back |-> TRUE]>> \o Tail(todo[t])
    <3>3. new \in Seq(CallsTo(Nat)) /\ new # <<>>
      BY <2>3, <3>1, <3>2, ConcatProperties, EmptySeq
    <3> HIDE DEF new, n, c
    <3>4. TypeOK'
      BY <1>0, <1>9, <2>4, <3>3 DEF ComputeHashes, TypeOK, CallsTo, new
    <3>5. PointersOK' /\ JobsOK'
      BY <1>0, <1>9, <2>4, <3>3 DEF ComputeHashes, PointersOK, JobsOK, TypeOK, new
    <3> QED  BY <3>4, <3>5 DEF TypeInv
  <2>5. CASE /\ computed' = [computed EXCEPT ![obj[t]] =
                  IF {Left(n), Right(n)} \subseteq @ THEN @ \cup {n} ELSE @ \ {n}]
             /\ Return(t, Tail(todo[t]), "visit", <<Call(0)>>)
    <3>1. <<Call(0)>> \in Seq(CallsTo(Nat)) /\ <<Call(0)>> # <<>>
      BY DEF Call, CallsTo
    <3>2. /\ todo' = [todo EXCEPT ![t] = todo'[t]]
          /\ todo'[t] \in Seq(CallsTo(Nat)) /\ todo'[t] # <<>>
          /\ pc' = [pc EXCEPT ![t] = pc'[t]]
          /\ pc'[t] \in {"compute", "visit"}
      BY <1>0, <1>9, <2>3, <2>5, <3>1, ReturnFacts DEF ComputeHashes
    <3>3. computed' \in [Object -> SUBSET Nat]
      BY <1>0, <2>1, <2>3, <2>5 DEF TypeOK
    <3> HIDE DEF n, c
    <3>4. TypeOK'
      <4>1. todo' \in [Thread -> Seq([node : Nat, back : BOOLEAN])]
        BY <1>0, <3>2 DEF TypeOK, CallsTo
      <4>2. pc' \in [Thread -> Using \cup {"idle", "lookup", "append", "send"}]
        BY <1>0, <3>2 DEF TypeOK
      <4> QED  BY <1>0, <1>9, <3>3, <4>1, <4>2 DEF ComputeHashes, TypeOK
    <3>5. PointersOK' /\ JobsOK'
      BY <1>0, <1>9, <3>2 DEF ComputeHashes, PointersOK, JobsOK, TypeOK
    <3> QED  BY <3>4, <3>5 DEF TypeInv
  <2> QED  BY <1>9, <2>4, <2>5 DEF ComputeHashes
<1>10. ASSUME NEW t \in Thread, VisitNode(t) PROVE TypeInv'
  <2> DEFINE n == Head(todo[t]).node
             c == Count(obj[t])
  <2>1. obj[t] \in 1 .. Len(made) /\ c \in Nat \ {0}
    BY <1>0, <1>10, ObjectFacts DEF VisitNode, PointersOK
  <2>2. todo[t] \in Seq(CallsTo(Nat)) /\ todo[t] # <<>>
    BY <1>0, <1>10 DEF VisitNode, PointersOK, TypeOK, CallsTo
  <2>3. n \in Nat /\ Tail(todo[t]) \in Seq(CallsTo(Nat))
    BY <1>0, <2>2, HeadFacts
  <2>4. PICK rest \in Seq(CallsTo(Nat)) :
          /\ Return(t, rest, "check", <<>>)
          /\ found' = [found EXCEPT ![t] = @ \cup {n}] \/ found' = found
    <3>1. Calls(Children(c, n)) \o Tail(todo[t]) \in Seq(CallsTo(Nat))
      BY <2>1, <2>3, CallsFacts, ConcatProperties
    <3> QED  BY <1>10, <2>3, <3>1 DEF VisitNode
  <2>5. /\ todo' = [todo EXCEPT ![t] = todo'[t]]
        /\ todo'[t] \in Seq(CallsTo(Nat))
        /\ pc' = [pc EXCEPT ![t] = pc'[t]]
        /\ \/ pc'[t] = "visit" /\ todo'[t] # <<>>
           \/ pc'[t] = "check"
    BY <1>0, <1>10, <2>4, EmptySeq, ReturnFacts DEF VisitNode
  <2> HIDE DEF n, c
  <2>6. found' \in [Thread -> SUBSET Nat]
    <3>1. found \in [Thread -> SUBSET Nat]
      BY <1>0 DEF TypeOK
    <3> QED  BY <2>3, <2>4, <3>1
  <2>7. TypeOK'
    <3>1. /\ pc' \in [Thread -> Using \cup {"idle", "lookup", "append", "send"}]
          /\ todo' \in [Thread -> Seq([node : Nat, back : BOOLEAN])]
      BY <1>0, <2>5 DEF TypeOK, CallsTo
    <3>2. UNCHANGED <<tableVars, computed, fileVars, obj, job, row, idx, snap,
                      settled, fault>>
      BY <1>10 DEF VisitNode
    <3> QED  BY <1>0, <2>6, <3>1, <3>2 DEF TypeOK
  <2>8. PointersOK' /\ JobsOK'
    BY <1>0, <1>10, <2>5 DEF VisitNode, PointersOK, JobsOK, TypeOK
  <2> QED  BY <2>7, <2>8 DEF TypeInv
<1>11. ASSUME NEW e \in Incoming, Receive(e[1], e[2]) PROVE TypeInv'
  <2>1. e[1] \in Thread /\ e[2] \in REQ \cup RES
    BY DEF Thread
  <2>2. TypeOK'
    BY <1>0, <1>11, <2>1 DEF Receive, TypeOK
  <2>3. PointersOK' /\ JobsOK'
    BY <1>0, <1>11, <2>1 DEF Receive, PointersOK, JobsOK, TypeOK
  <2> QED  BY <2>2, <2>3 DEF TypeInv
<1>12. ASSUME NEW t \in Thread, GetPackage(t) PROVE TypeInv'
  <2>1. job[t] \in REQ \cup RES
    BY <1>0, <1>12 DEF GetPackage, JobsOK
  <2>2. CASE /\ job' = [job EXCEPT ![t] = NoJob]
             /\ Goto(t, IF job[t].type = "REQ" THEN "send" ELSE "idle") /\ obj' = obj
    <3>1. TypeOK'
      BY <1>0, <1>12, <2>2 DEF GetPackage, TypeOK
    <3>2. PointersOK' /\ JobsOK'
      BY <1>0, <1>12, <2>2 DEF GetPackage, PointersOK, JobsOK, TypeOK
    <3> QED  BY <3>1, <3>2 DEF TypeInv
  <2>3. CASE /\ \E i \in FirstIn(Managed(job[t].pkg)) :
                  obj' = [obj EXCEPT ![t] = table[i]]
             /\ Goto(t, IF job[t].type = "REQ" THEN "open" ELSE "file")
             /\ UNCHANGED job
    <3>1. PICK i \in DOMAIN table : obj' = [obj EXCEPT ![t] = table[i]]
      BY <2>3 DEF FirstIn, Managed
    <3>2. table[i] \in 1 .. Len(made) /\ table[i] \in Object
      BY <1>0, LenProperties, ElementOfSeq, ObjectFacts DEF PointersOK
    <3>3. \/ job[t] \in REQ /\ pc' = [pc EXCEPT ![t] = "open"]
          \/ job[t] \in RES /\ pc' = [pc EXCEPT ![t] = "file"]
      BY <2>1, <2>3, PacketTypes
    <3>4. TypeOK'
      <4>1. /\ pc' \in [Thread -> Using \cup {"idle", "lookup", "append", "send"}]
            /\ obj' \in [Thread -> 0 .. MaxObjects]
        BY <1>0, <1>p, <3>1, <3>2, <3>3 DEF TypeOK
      <4>2. UNCHANGED <<tableVars, computed, fileVars, job, row, scanVars, settled,
                        fault>>
        BY <1>12, <2>3 DEF GetPackage
      <4> QED  BY <1>0, <4>1, <4>2 DEF TypeOK
    <3>5. PointersOK'
      <4>1. UNCHANGED <<table, made, todo>>
        BY <1>12 DEF GetPackage
      <4>2. pc \in [Thread -> Using \cup {"idle", "lookup", "append", "send"}]
            /\ obj \in [Thread -> 0 .. MaxObjects]
        BY <1>0 DEF TypeOK
      <4> QED  BY <1>0, <3>1, <3>2, <3>3, <4>1, <4>2 DEF PointersOK
    <3>6. JobsOK'
      BY <1>0, <1>12, <2>3, <3>3 DEF GetPackage, JobsOK, TypeOK
    <3> QED  BY <3>4, <3>5, <3>6 DEF TypeInv
  <2> QED  BY <1>12, <2>2, <2>3 DEF GetPackage
<1>13. ASSUME NEW t \in Thread, CheckChunk(t) PROVE TypeInv'
  <2>1. TypeOK'
    <3>1. found' \in [Thread -> SUBSET Nat] /\ settled' \in [Thread -> BOOLEAN]
      BY <1>0, <1>13 DEF CheckChunk, EndQuery, TypeOK
    <3>2. /\ job' \in [Thread -> REQ \cup RES \cup {NoJob}]
          /\ obj' \in [Thread -> 0 .. MaxObjects]
      <4>1. \/ job' = job /\ obj' = obj
            \/ job' = [job EXCEPT ![t] = NoJob] /\ obj' = [obj EXCEPT ![t] = 0]
        BY <1>13 DEF CheckChunk, Done
      <4> QED  BY <1>0, <1>p, <4>1 DEF TypeOK
    <3>3. pc' \in [Thread -> Using \cup {"idle", "lookup", "append", "send"}]
      BY <1>0, <1>13 DEF CheckChunk, Done, TypeOK
    <3>4. UNCHANGED <<tableVars, computed, fileVars, row, idx, snap, todo, fault>>
      BY <1>13 DEF CheckChunk
    <3> QED  BY <1>0, <3>1, <3>2, <3>3, <3>4 DEF TypeOK
  <2>2. PointersOK'
    <3>1. /\ UNCHANGED <<table, made, todo>> /\ 0 \in 0 .. Len(made)
          /\ \/ obj' = obj /\ pc' = [pc EXCEPT ![t] = "serve"] /\ pc[t] = "check"
             \/ obj' = [obj EXCEPT ![t] = 0] /\ pc' = [pc EXCEPT ![t] = "send"]
      BY <1>13, <1>p DEF CheckChunk, Done
    <3>2. pc \in [Thread -> Using \cup {"idle", "lookup", "append", "send"}]
          /\ obj \in [Thread -> 0 .. MaxObjects]
      BY <1>0 DEF TypeOK
    <3> QED  BY <1>0, <3>1, <3>2 DEF PointersOK
  <2>3. JobsOK'
    BY <1>0, <1>13 DEF CheckChunk, EndQuery, Done, JobsOK, TypeOK
  <2> QED  BY <2>1, <2>2, <2>3 DEF TypeInv
<1>14. ASSUME NEW t \in Thread, Serve(t) \/ Sent(t) PROVE TypeInv'
  <2>0. /\ UNCHANGED <<table, made, freed, computed, exists, length, right, once, row,
                        idx, snap, todo, found, settled, fault>>
        /\ job' = [job EXCEPT ![t] = NoJob] /\ obj' = [obj EXCEPT ![t] = 0]
        /\ pc' = [pc EXCEPT ![t] = "send"] \/ pc' = [pc EXCEPT ![t] = "idle"]
    BY <1>14 DEF Serve, Sent, Done
  <2>1. TypeOK'
    BY <1>0, <1>p, <2>0 DEF TypeOK
  <2>2. PointersOK'
    BY <1>0, <1>p, <2>0 DEF PointersOK, TypeOK
  <2>3. JobsOK'
    BY <1>0, <1>p, <2>0 DEF JobsOK, TypeOK
  <2> QED  BY <2>1, <2>2, <2>3 DEF TypeInv
<1>15. ASSUME NEW t \in Thread, FileCheck(t) PROVE TypeInv'
  <2>1. TypeOK'
    BY <1>0, <1>15 DEF FileCheck, TypeOK
  <2>2. PointersOK' /\ JobsOK'
    BY <1>0, <1>15 DEF FileCheck, PointersOK, JobsOK, TypeOK
  <2> QED  BY <2>1, <2>2 DEF TypeInv
<1>16. ASSUME NEW t \in Thread, CreateFile(t) PROVE TypeInv'
  <2>1. obj[t] \in 1 .. Len(made) /\ PkgOf(obj[t]) \in Pkg
    BY <1>0, <1>16, ObjectFacts DEF CreateFile, PointersOK
  <2>2. settled' \in [Thread -> BOOLEAN]
    BY <1>16 DEF CreateFile, Disturb
  <2>3. PICK size \in Nat : length' = [length EXCEPT ![PkgOf(obj[t])] = size]
    BY <1>16, <2>1, ConstantFacts DEF CreateFile
  <2>4. TypeOK'
    BY <1>0, <1>16, <2>1, <2>2, <2>3 DEF CreateFile, TypeOK
  <2>5. PointersOK' /\ JobsOK'
    BY <1>0, <1>16 DEF CreateFile, PointersOK, JobsOK, TypeOK
  <2> QED  BY <2>4, <2>5 DEF TypeInv
<1>17. ASSUME NEW t \in Thread, WriteChunk(t) PROVE TypeInv'
  <2>1. obj[t] \in 1 .. Len(made) /\ PkgOf(obj[t]) \in Pkg /\ job[t].chunk \in Nat
    BY <1>0, <1>17, ObjectFacts, PacketTypes DEF WriteChunk, PointersOK, JobsOK
  <2>2. settled' \in [Thread -> BOOLEAN]
    BY <1>17 DEF WriteChunk, Disturb
  <2>3. /\ right' \in [Pkg -> SUBSET Nat] /\ once' \in [Pkg -> SUBSET Nat]
        /\ length' \in [Pkg -> Nat]
    <3>1. /\ right \in [Pkg -> SUBSET Nat] /\ once \in [Pkg -> SUBSET Nat]
          /\ length \in [Pkg -> Nat]
      BY <1>0 DEF TypeOK
    <3> DEFINE p == PkgOf(obj[t])
               k == job[t].chunk
    <3>2. /\ length' = [length EXCEPT ![p] = IF k > @ THEN k ELSE @]
          /\ \/ /\ right' = [right EXCEPT ![p] = @ \cup {k}]
                /\ once' = [once EXCEPT ![p] = @ \cup {k}]
             \/ right' = [right EXCEPT ![p] = @ \ {k}] /\ once' = once
      BY <1>17 DEF WriteChunk
    <3>3. p \in Pkg /\ k \in Nat
      BY <2>1
    <3> HIDE DEF p, k
    <3> QED  BY <3>1, <3>2, <3>3
  <2>4. TypeOK'
    BY <1>0, <1>17, <1>p, <2>2, <2>3 DEF WriteChunk, Done, TypeOK
  <2>5. PointersOK' /\ JobsOK'
    BY <1>0, <1>17, LenProperties DEF WriteChunk, Done, PointersOK, JobsOK, TypeOK
  <2> QED  BY <2>4, <2>5 DEF TypeInv
<1>18. ASSUME NEW t \in Thread, UseFreed(t) PROVE TypeInv'
  BY <1>0, <1>18 DEF UseFreed, TypeInv, TypeOK, PointersOK, JobsOK
<1>19. ASSUME NEW t \in Thread, UseNull(t) \/ UseNoFile(t) PROVE TypeInv'
  BY <1>0, <1>19 DEF UseNull, UseNoFile, TypeInv, TypeOK, PointersOK, JobsOK
<1>20. ASSUME UNCHANGED vars PROVE TypeInv'
  BY <1>0, <1>20 DEF vars, TypeInv, TypeOK, PointersOK, JobsOK
<1> HIDE DEF tableVars, fileVars, scanVars, At, Goto, Using
<1> QED
  BY <1>1, <1>2, <1>3, <1>4, <1>5, <1>6, <1>7, <1>8, <1>9, <1>10, <1>11, <1>12,
     <1>13, <1>14, <1>15, <1>16, <1>17, <1>18, <1>19, <1>20
  DEF Next, Command, Step, Scan

\* Every variable keeps its type, with the pointers of every thread to packages
\* that were loaded.
THEOREM TypeCorrect == Spec => []TypeOK
<1>1. TypeInv => TypeOK
  BY DEF TypeInv
<1> QED  BY <1>1, InitTypeInv, NextTypeInv, PTL DEF Spec

(* ------------------- the array accounts for all packages --------------- *)
\* No package is in the array twice or destroyed, the one main is about to append
\* is neither, and every other package loaded is one or the other.
AccountInv ==
  /\ \A i, j \in 1 .. Len(table) : table[i] = table[j] => i = j
  /\ \A i \in 1 .. Len(table) : table[i] \notin freed
  /\ freed \subseteq 1 .. Len(made)
  /\ pc[Main] = "append" =>
       obj[Main] \notin freed /\ \A i \in 1 .. Len(table) : table[i] # obj[Main]
  /\ \A o \in 1 .. Len(made) :
       \/ o \in freed
       \/ pc[Main] = "append" /\ obj[Main] = o
       \/ \E i \in 1 .. Len(table) : table[i] = o

LEMMA AccountInvSuffices == TypeInv /\ AccountInv => ArrayAccountsForAll
<1> SUFFICES ASSUME TypeInv, AccountInv, NEW o \in 1 .. Len(made)
             PROVE  \/ o \in freed /\ Holders(o) = {}
                    \/ /\ o \notin freed /\ pc[Main] = "append" /\ obj[Main] = o
                       /\ Holders(o) = {}
                    \/ o \notin freed /\ \E i \in DOMAIN table : Holders(o) = {i}
  BY DEF ArrayAccountsForAll
<1>1. DOMAIN table = 1 .. Len(table)
  BY LenProperties DEF TypeInv, TypeOK
<1>2. CASE o \in freed
  BY <1>1, <1>2 DEF AccountInv, Holders
<1>3. CASE o \notin freed /\ pc[Main] = "append" /\ obj[Main] = o
  BY <1>1, <1>3 DEF AccountInv, Holders
<1>4. CASE o \notin freed /\ \E i \in 1 .. Len(table) : table[i] = o
  <2>1. PICK i \in 1 .. Len(table) : table[i] = o
    BY <1>4
  <2>2. Holders(o) = {i}
    BY <1>1, <2>1 DEF AccountInv, Holders
  <2> QED  BY <1>1, <1>4, <2>1, <2>2
<1> QED  BY <1>2, <1>3, <1>4 DEF AccountInv

\* A step that leaves the array, the memory and what main is about to append.
Apart ==
  /\ UNCHANGED tableVars
  /\ (pc'[Main] = "append") <=> (pc[Main] = "append")
  /\ pc[Main] = "append" => obj'[Main] = obj[Main]

LEMMA ApartKeepsAccount == AccountInv /\ Apart => AccountInv'
BY DEF AccountInv, Apart, tableVars

\* All steps but those of ADDPACKAGE and REMPACKAGE are.
LEMMA StepApart ==
  ASSUME TypeInv, NEW t \in Thread,
         \/ Scan(t) \/ UseFreed(t) \/ UseNull(t) \/ UseNoFile(t)
         \/ t = Main /\ ListNext
         \/ GetPackage(t) \/ CheckChunk(t) \/ Serve(t) \/ Sent(t)
         \/ FileCheck(t) \/ CreateFile(t) \/ WriteChunk(t)
  PROVE  Apart
<1> USE DEF tableVars, fileVars, scanVars, At, Goto, Apart
<1>0. /\ TypeOK /\ Main \in Thread
      /\ pc \in [Thread -> Using \cup {"idle", "lookup", "append", "send"}]
      /\ obj \in [Thread -> 0 .. MaxObjects]
  BY DEF TypeInv, TypeOK, Thread
<1>1. CASE OpenFile(t)
  BY <1>0, <1>1 DEF OpenFile
<1>2. CASE HashChunk(t)
  BY <1>0, <1>2 DEF HashChunk
<1>3. CASE StoreHash(t)
  BY <1>0, <1>3 DEF StoreHash
<1>4. CASE ComputeHashes(t)
  BY <1>0, <1>4 DEF ComputeHashes, Return
<1>5. CASE VisitNode(t)
  BY <1>0, <1>5 DEF VisitNode, Return
<1>6. CASE UseFreed(t) \/ UseNull(t) \/ UseNoFile(t)
  BY <1>0, <1>6 DEF UseFreed, UseNull, UseNoFile
<1>7. CASE t = Main /\ ListNext
  BY <1>0, <1>7 DEF ListNext
<1>8. CASE GetPackage(t)
  BY <1>0, <1>8 DEF GetPackage
<1>9. CASE CheckChunk(t)
  BY <1>0, <1>9 DEF CheckChunk, Done
<1>10. CASE Serve(t) \/ Sent(t)
  BY <1>0, <1>10 DEF Serve, Sent, Done
<1>11. CASE FileCheck(t)
  BY <1>0, <1>11 DEF FileCheck
<1>12. CASE CreateFile(t)
  BY <1>0, <1>12 DEF CreateFile
<1>13. CASE WriteChunk(t)
  BY <1>0, <1>13 DEF WriteChunk, Done
<1> HIDE DEF tableVars, fileVars, scanVars, At, Goto, Apart
<1> QED
  BY <1>1, <1>2, <1>3, <1>4, <1>5, <1>6, <1>7, <1>8, <1>9, <1>10, <1>11, <1>12,
     <1>13 DEF Scan

LEMMA NextAccountInv == TypeInv /\ AccountInv /\ [Next]_vars => AccountInv'
<1> SUFFICES ASSUME TypeInv, AccountInv, [Next]_vars PROVE AccountInv'
  OBVIOUS
<1>0. /\ Main \in Thread /\ Len(made) \in Nat /\ Len(table) \in Nat
      /\ TypeOK /\ table \in Seq(1 .. Len(made))
      /\ \A i \in 1 .. Len(table) : table[i] \in 1 .. Len(made)
      /\ pc \in [Thread -> Using \cup {"idle", "lookup", "append", "send"}]
      /\ obj \in [Thread -> 0 .. MaxObjects]
  <2>1. TypeOK /\ table \in Seq(1 .. Len(made)) /\ made \in Seq(BpkgFile)
    BY DEF TypeInv, TypeOK, PointersOK
  <2> QED  BY <2>1, LenProperties, ElementOfSeq DEF TypeOK, Thread
<1>1. ASSUME NEW f \in BpkgFile, AddPackage(f) PROVE AccountInv'
  <2>1. Len(made') = Len(made) + 1
    BY <1>0, <1>1, LoadFacts DEF AddPackage
  <2>2. /\ table' = table /\ freed' = freed /\ pc[Main] = "idle"
        /\ pc'[Main] = "append" /\ obj'[Main] = Len(made) + 1
    BY <1>0, <1>1 DEF AddPackage, At, Goto
  <2>3. Len(made) + 1 \notin 1 .. Len(made)
    BY <1>0
  <2>4. /\ obj'[Main] \notin freed
        /\ \A i \in 1 .. Len(table) : table[i] # obj'[Main]
    BY <1>0, <2>2, <2>3 DEF AccountInv
  <2>5. /\ freed \subseteq 1 .. Len(made')
        /\ \A o \in 1 .. Len(made') : o \in 1 .. Len(made) \/ o = obj'[Main]
    BY <1>0, <2>1, <2>2 DEF AccountInv
  <2> QED  BY <2>2, <2>4, <2>5 DEF AccountInv
<1>2. ASSUME AppendPackage PROVE AccountInv'
  <2> DEFINE o == obj[Main]
  <2>1. /\ made' = made /\ freed' = freed /\ table' = Append(table, o)
        /\ pc[Main] = "append" /\ pc'[Main] = "idle" /\ o \in 1 .. Len(made)
    BY <1>0, <1>2 DEF AppendPackage, At, Goto, TypeInv, PointersOK
  <2>2. /\ Len(table') = Len(table) + 1 /\ table'[Len(table) + 1] = o
        /\ \A i \in 1 .. Len(table) : table'[i] = table[i]
    BY <1>0, <2>1, AppendProperties
  <2>3. o \notin freed /\ \A i \in 1 .. Len(table) : table[i] # o
    BY <2>1 DEF AccountInv
  <2>4. \A i \in 1 .. Len(table') : i \in 1 .. Len(table) \/ i = Len(table) + 1
    BY <1>0, <2>2
  <2>5. \A i, j \in 1 .. Len(table') : table'[i] = table'[j] => i = j
    BY <2>2, <2>3, <2>4 DEF AccountInv
  <2>6. \A i \in 1 .. Len(table') : table'[i] \notin freed
    BY <2>2, <2>3, <2>4 DEF AccountInv
  <2>7. \A u \in 1 .. Len(made) :
          u \in freed \/ \E i \in 1 .. Len(table') : table'[i] = u
    <3> TAKE u \in 1 .. Len(made)
    <3>1. u \in freed \/ u = o \/ \E i \in 1 .. Len(table) : table[i] = u
      BY DEF AccountInv
    <3>2. Len(table) + 1 \in 1 .. Len(table')
          /\ \A i \in 1 .. Len(table) : i \in 1 .. Len(table')
      BY <1>0, <2>2
    <3> QED  BY <2>2, <3>1, <3>2
  <2> QED  BY <2>1, <2>5, <2>6, <2>7 DEF AccountInv
<1>3. ASSUME NEW p \in Pkg, RemovePackage(p) PROVE AccountInv'
  <2>1. PICK i \in FirstIn(Managed(p)) :
          freed' = freed \cup {table[i]} /\ table' = RemoveAt(table, i)
    BY <1>3 DEF RemovePackage
  <2>2. i \in DOMAIN table /\ DOMAIN table = 1 .. Len(table)
    BY <1>0, LenProperties DEF FirstIn, Managed
  <2>3. made' = made /\ pc' = pc /\ pc[Main] = "idle"
    BY <1>3 DEF RemovePackage, At
  <2>4. /\ Len(table') = Len(table) - 1
        /\ \A j \in 1 .. (Len(table) - 1) :
             table'[j] = IF j < i THEN table[j] ELSE table[j + 1]
    BY <1>0, <2>1, <2>2, RemoveFacts
  <2>5. \A j \in 1 .. Len(table') : \E k \in 1 .. Len(table) :
          k # i /\ table'[j] = table[k] /\ ((k = j /\ j < i) \/ (k = j + 1 /\ j >= i))
    <3> TAKE j \in 1 .. Len(table')
    <3>1. j \in 1 .. Len(table) /\ j + 1 \in 1 .. Len(table)
      BY <1>0, <2>4
    <3>2. CASE j < i
      <4>1. j # i /\ table'[j] = table[j]
        BY <1>0, <2>2, <2>4, <3>2
      <4> QED  BY <3>1, <3>2, <4>1
    <3>3. CASE j >= i
      <4>1. j + 1 # i /\ table'[j] = table[j + 1]
        BY <1>0, <2>2, <2>4, <3>3
      <4> QED  BY <3>1, <3>3, <4>1
    <3>4. j < i \/ j >= i
      BY <1>0, <2>2, <2>4
    <3> QED  BY <3>2, <3>3, <3>4
  <2>6. \A j, k \in 1 .. Len(table') : table'[j] = table'[k] => j = k
    <3> TAKE j, k \in 1 .. Len(table')
    <3>1. PICK a \in 1 .. Len(table) :
            table'[j] = table[a] /\ ((a = j /\ j < i) \/ (a = j + 1 /\ j >= i))
      BY <2>5
    <3>2. PICK b \in 1 .. Len(table) :
            table'[k] = table[b] /\ ((b = k /\ k < i) \/ (b = k + 1 /\ k >= i))
      BY <2>5
    <3>3. table[a] = table[b] => a = b
      BY DEF AccountInv
    <3>4. j \in Int /\ k \in Int /\ i \in Int
      BY <1>0, <2>2, <2>4
    <3> QED  BY <3>1, <3>2, <3>3, <3>4
  <2>7. \A j \in 1 .. Len(table') : table'[j] \notin freed'
    BY <2>1, <2>2, <2>5 DEF AccountInv
  <2>8. freed' \subseteq 1 .. Len(made)
    BY <1>0, <2>1, <2>2 DEF AccountInv
  <2>9. \A o \in 1 .. Len(made) :
          o \in freed' \/ \E j \in 1 .. Len(table') : table'[j] = o
    <3> TAKE o \in 1 .. Len(made)
    <3>1. CASE o \in freed
      BY <2>1, <3>1
    <3>2. ASSUME NEW k \in 1 .. Len(table), table[k] = o
          PROVE  o \in freed' \/ \E j \in 1 .. Len(table') : table'[j] = o
      <4>1. CASE k = i
        BY <2>1, <3>2, <4>1
      <4>2. CASE k < i
        <5>1. k \in 1 .. (Len(table) - 1) /\ table'[k] = table[k]
          BY <1>0, <2>2, <2>4, <4>2
        <5> QED  BY <2>4, <3>2, <5>1
      <4>3. CASE k > i
        <5>1. k - 1 \in 1 .. (Len(table) - 1) /\ ~ k - 1 < i /\ (k - 1) + 1 = k
          BY <1>0, <2>2, <4>3
        <5>2. table'[k - 1] = table[k]
          BY <2>4, <5>1
        <5> QED  BY <2>4, <3>2, <5>1, <5>2
      <4> QED  BY <1>0, <2>2, <4>1, <4>2, <4>3
    <3> QED  BY <2>3, <3>1, <3>2 DEF AccountInv
  <2> QED  BY <2>3, <2>6, <2>7, <2>8, <2>9 DEF AccountInv
<1>4. ASSUME ListPackages PROVE Apart
  BY <1>0, <1>4 DEF ListPackages, Apart, tableVars, At, Goto
<1>5. ASSUME NEW e \in Incoming, Receive(e[1], e[2]) PROVE Apart
  <2>1. e[1] \in Thread /\ e[1] # Main
    BY DEF Thread
  <2> QED  BY <1>0, <1>5, <2>1 DEF Receive, Apart, tableVars, At, Goto
<1>6. ASSUME UNCHANGED vars PROVE Apart
  BY <1>6 DEF vars, Apart, tableVars
<1>7. ASSUME NEW t \in Thread, Sent(t) \/ Step(t) PROVE AppendPackage \/ Apart
  <2>1. \/ AppendPackage
        \/ Scan(t) \/ UseFreed(t) \/ UseNull(t) \/ UseNoFile(t)
        \/ t = Main /\ ListNext
        \/ GetPackage(t) \/ CheckChunk(t) \/ Serve(t) \/ Sent(t)
        \/ FileCheck(t) \/ CreateFile(t) \/ WriteChunk(t)
    BY <1>7 DEF Step
  <2> QED  BY <2>1, StepApart
<1>8. Apart => AccountInv'
  BY ApartKeepsAccount
<1>9. CASE Command
  BY <1>1, <1>3, <1>4, <1>8, <1>9 DEF Command
<1> QED  BY <1>2, <1>5, <1>6, <1>7, <1>8, <1>9 DEF Next

\* The array, the memory and main account for every package loaded, each once
\* (dyn_array.c:223-246), in every order of commands.
THEOREM ArrayAccountsForAllAlways == Spec => []ArrayAccountsForAll
<1>1. Init => AccountInv
  BY DEF Init, AccountInv
<1>2. TypeInv /\ AccountInv /\ [Next]_vars => (TypeInv /\ AccountInv)'
  BY NextTypeInv, NextAccountInv
<1> QED  BY <1>1, <1>2, InitTypeInv, AccountInvSuffices, PTL DEF Spec

(* --------------------- what handlers were asked to do ------------------- *)
\* A handler deals with a packet its peer may send, and the package it points to is
\* the one the packet is for; main deals with none.
AskedInv ==
  /\ pc[Main] \notin {"lookup", "file", "create", "write"}
  /\ \A t \in Thread \ {Main} :
       /\ pc[t] \notin {"idle", "send"} => <<t, job[t]>> \in Incoming
       /\ pc[t] \in Using => PkgOf(obj[t]) = job[t].pkg

\* Packages that were loaded stay what they are.
LEMMA SamePackages ==
  ASSUME TypeInv, [Next]_vars
  PROVE  /\ \A o \in 1 .. Len(made) : PkgOf(o)' = PkgOf(o)
         /\ Len(made') \in Nat /\ Len(made) <= Len(made')
<1>1. made \in Seq(BpkgFile) /\ Len(made) \in Nat
  BY LenProperties DEF TypeInv, TypeOK
<1>2. made' = made \/ \E f \in BpkgFile : AddPackage(f)
  BY DEF Next, Command, Step, Scan, vars, tableVars, AppendPackage, RemovePackage,
         ListPackages, ListNext, OpenFile, HashChunk, StoreHash, ComputeHashes,
         VisitNode, Receive, GetPackage, CheckChunk, Serve, Sent, FileCheck,
         CreateFile, WriteChunk, UseFreed, UseNull, UseNoFile
<1>3. CASE made' = made
  BY <1>1, <1>3 DEF PkgOf
<1>4. ASSUME NEW f \in BpkgFile, AddPackage(f)
      PROVE  /\ \A o \in 1 .. Len(made) : PkgOf(o)' = PkgOf(o)
             /\ Len(made') \in Nat /\ Len(made) <= Len(made')
  <2>1. Len(made') = Len(made) + 1 /\ \A o \in 1 .. Len(made) : made'[o] = made[o]
    BY <1>4, LoadFacts DEF AddPackage, TypeInv
  <2> QED  BY <1>1, <2>1 DEF PkgOf
<1> QED  BY <1>2, <1>3, <1>4

\* Steps that concern no file and look up no package: a handler goes on with its
\* packet or is done with it.
FilesApart ==
  /\ UNCHANGED fileVars
  /\ \A t \in Thread :
       pc'[t] \in {"lookup", "file", "create", "write"} =>
         pc'[t] = pc[t] /\ job'[t] = job[t] /\ obj'[t] = obj[t]
  /\ \A t \in Thread \ {Main} :
       \/ pc'[t] \in {"idle", "send"}
       \/ /\ job'[t] = job[t] /\ obj'[t] = obj[t]
          /\ pc'[t] = pc[t] \/ pc[t] \in Using

LEMMA ScanApart ==
  ASSUME TypeInv, NEW t \in Thread,
         \/ Scan(t) \/ UseFreed(t) \/ UseNull(t) \/ UseNoFile(t)
         \/ CheckChunk(t) \/ Serve(t) \/ Sent(t) \/ Command
         \/ t = Main /\ (AppendPackage \/ ListNext)
         \/ UNCHANGED vars
  PROVE  FilesApart
<1> USE DEF vars, fileVars, scanVars, At, Goto, FilesApart
<1>0. /\ TypeOK /\ Main \in Thread
      /\ pc \in [Thread -> Using \cup {"idle", "lookup", "append", "send"}]
      /\ obj \in [Thread -> 0 .. MaxObjects]
      /\ job \in [Thread -> REQ \cup RES \cup {NoJob}]
  BY DEF TypeInv, TypeOK, Thread
<1>1. CASE OpenFile(t) \/ HashChunk(t)
  BY <1>0, <1>1 DEF OpenFile, HashChunk
<1>2. CASE StoreHash(t)
  BY <1>0, <1>2 DEF StoreHash
<1>3. CASE ComputeHashes(t)
  BY <1>0, <1>3 DEF ComputeHashes, Return
<1>4. CASE VisitNode(t)
  BY <1>0, <1>4 DEF VisitNode, Return
<1>5. CASE UseFreed(t) \/ UseNull(t) \/ UseNoFile(t) \/ UNCHANGED vars
  BY <1>0, <1>5 DEF UseFreed, UseNull, UseNoFile
<1>6. CASE CheckChunk(t)
  BY <1>0, <1>6 DEF CheckChunk, Done
<1>7. CASE Serve(t) \/ Sent(t)
  BY <1>0, <1>7 DEF Serve, Sent, Done
<1>8. CASE Command
  BY <1>0, <1>8 DEF Command, AddPackage, RemovePackage, ListPackages
<1>9. CASE AppendPackage \/ ListNext
  BY <1>0, <1>9 DEF AppendPackage, ListNext
<1> HIDE DEF vars, fileVars, scanVars, At, Goto, FilesApart
<1> QED  BY <1>1, <1>2, <1>3, <1>4, <1>5, <1>6, <1>7, <1>8, <1>9 DEF Scan

LEMMA InitAskedInv == Init => AskedInv
<1>1. Main \in Thread
  BY DEF Thread
<1> QED  BY <1>1 DEF Init, AskedInv, Using

LEMMA NextAskedInv ==
  ASSUME TypeInv, AskedInv, [Next]_vars
  PROVE  AskedInv'
<1> USE DEF fileVars, scanVars, At, Goto
<1>0. /\ TypeOK /\ Main \in Thread
      /\ pc \in [Thread -> Using \cup {"idle", "lookup", "append", "send"}]
      /\ obj \in [Thread -> 0 .. MaxObjects]
      /\ job \in [Thread -> REQ \cup RES \cup {NoJob}]
  BY DEF TypeInv, TypeOK, Thread
\* What is to be shown of a step: that the handlers have their packets.
<1> DEFINE MainFree == pc'[Main] \notin {"lookup", "file", "create", "write"}
           Asked(t) == /\ pc'[t] \notin {"idle", "send"} => <<t, job'[t]>> \in Incoming
                       /\ pc'[t] \in Using => PkgOf(obj[t])' = job'[t].pkg
<1>1. ASSUME NEW t \in Thread \ {Main}, job'[t] = job[t], obj'[t] = obj[t],
             pc'[t] = pc[t] \/ pc[t] \in Using
      PROVE  Asked(t)
  <2>1. <<t, job'[t]>> \in Incoming \/ pc'[t] \in {"idle", "send"}
    BY <1>1 DEF AskedInv, Using
  <2>2. ASSUME pc[t] \in Using PROVE PkgOf(obj[t])' = job'[t].pkg
    <3>1. obj[t] \in 1 .. Len(made)
      BY <2>2, LenProperties DEF TypeInv, TypeOK, PointersOK
    <3>2. PkgOf(obj[t])' = PkgOf(obj[t])
      BY <1>1, <3>1, SamePackages DEF PkgOf
    <3> QED  BY <1>1, <2>2, <3>2 DEF AskedInv
  <2> QED  BY <1>1, <2>1, <2>2
<1>2. \A t \in Thread : pc'[t] \in {"idle", "send"} => Asked(t)
  BY DEF Using
<1>q. ASSUME MainFree, \A t \in Thread \ {Main} : Asked(t) PROVE AskedInv'
  BY <1>q DEF AskedInv
<1>3. ASSUME FilesApart PROVE AskedInv'
  <2>1. MainFree
    BY <1>0, <1>3 DEF FilesApart, AskedInv
  <2> HIDE DEF MainFree, Asked
  <2> QED  BY <1>1, <1>2, <1>3, <1>q, <2>1 DEF FilesApart
<1>4. ASSUME NEW t \in Thread \ {Main}, \A u \in Thread \ {t} :
                pc'[u] = pc[u] /\ job'[u] = job[u] /\ obj'[u] = obj[u],
             Asked(t)
      PROVE  AskedInv'
  <2>1. MainFree
    BY <1>0, <1>4 DEF AskedInv
  <2> HIDE DEF MainFree, Asked
  <2> QED  BY <1>1, <1>4, <1>q, <2>1
<1>5. ASSUME NEW e \in Incoming, Receive(e[1], e[2]) PROVE AskedInv'
  <2>1. e = <<e[1], e[2]>> /\ e[1] \in Thread \ {Main}
    BY DEF Thread
  <2>2. /\ pc' = [pc EXCEPT ![e[1]] = "lookup"] /\ job' = [job EXCEPT ![e[1]] = e[2]]
        /\ obj' = obj
    BY <1>5 DEF Receive
  <2>3. pc'[e[1]] = "lookup" /\ job'[e[1]] = e[2]
    BY <1>0, <2>1, <2>2
  <2>4. \A t \in Thread \ {e[1]} : pc'[t] = pc[t] /\ job'[t] = job[t] /\ obj'[t] = obj[t]
    BY <1>0, <2>1, <2>2
  <2>5. Asked(e[1])
    BY <2>1, <2>3 DEF Using
  <2> HIDE DEF Asked
  <2> QED  BY <1>4, <2>1, <2>4, <2>5
<1>6. ASSUME NEW t \in Thread, pc[t] \in {"lookup", "file", "create", "write"}
      PROVE  t \in Thread \ {Main}
  BY <1>6 DEF AskedInv
<1>7. ASSUME NEW t \in Thread, GetPackage(t) PROVE AskedInv'
  <2>1. \A u \in Thread \ {t} : pc'[u] = pc[u] /\ job'[u] = job[u] /\ obj'[u] = obj[u]
    BY <1>0, <1>7 DEF GetPackage
  <2>2. made' = made /\ pc[t] = "lookup"
    BY <1>7 DEF GetPackage, tableVars
  <2>3. CASE Goto(t, IF job[t].type = "REQ" THEN "send" ELSE "idle")
    <3>1. Asked(t)
      BY <1>0, <1>2, <2>3
    <3> HIDE DEF Asked
    <3> QED  BY <1>4, <1>6, <2>1, <2>2, <3>1
  <2>4. CASE /\ \E i \in FirstIn(Managed(job[t].pkg)) :
                  obj' = [obj EXCEPT ![t] = table[i]]
             /\ Goto(t, IF job[t].type = "REQ" THEN "open" ELSE "file")
             /\ UNCHANGED job
    <3>1. PICK i \in Managed(job[t].pkg) : obj' = [obj EXCEPT ![t] = table[i]]
      BY <2>4 DEF FirstIn
    <3>2. PkgOf(table[i]) = job[t].pkg
      BY DEF Managed
    <3>3. /\ pc'[t] \in {"open", "file"} /\ obj'[t] = table[i] /\ job'[t] = job[t]
      BY <1>0, <2>4, <3>1
    <3>4. PkgOf(obj[t])' = job'[t].pkg /\ <<t, job'[t]>> \in Incoming
      BY <1>6, <2>2, <3>2, <3>3 DEF PkgOf, AskedInv
    <3>5. Asked(t)
      BY <3>4
    <3> HIDE DEF Asked
    <3> QED  BY <1>4, <1>6, <2>1, <2>2, <3>5
  <2> QED  BY <1>7, <2>3, <2>4 DEF GetPackage
<1>8. ASSUME NEW t \in Thread, FileCheck(t) \/ CreateFile(t) PROVE AskedInv'
  <2>1. /\ obj' = obj /\ job' = job /\ pc[t] \in {"file", "create"}
        /\ \A u \in Thread \ {t} : pc'[u] = pc[u]
    BY <1>0, <1>8 DEF FileCheck, CreateFile
  <2>2. Asked(t)
    BY <1>1, <1>6, <2>1 DEF Using
  <2> HIDE DEF Asked
  <2> QED  BY <1>4, <1>6, <2>1, <2>2
<1>9. ASSUME NEW t \in Thread, WriteChunk(t) PROVE AskedInv'
  <2>1. /\ pc'[t] = "idle" /\ pc[t] = "write"
        /\ \A u \in Thread \ {t} :
             pc'[u] = pc[u] /\ job'[u] = job[u] /\ obj'[u] = obj[u]
    BY <1>0, <1>9 DEF WriteChunk, Done
  <2>2. Asked(t)
    BY <1>2, <2>1
  <2> HIDE DEF Asked
  <2> QED  BY <1>4, <1>6, <2>1, <2>2
<1>10. ASSUME NEW t \in Thread, Sent(t) \/ Step(t) PROVE AskedInv'
  <2>1. FilesApart \/ GetPackage(t) \/ FileCheck(t) \/ CreateFile(t) \/ WriteChunk(t)
    BY <1>10, ScanApart DEF Step
  <2> QED  BY <1>3, <1>7, <1>8, <1>9, <2>1
<1>11. Command \/ UNCHANGED vars => FilesApart
  BY <1>0, ScanApart
<1> QED  BY <1>3, <1>5, <1>10, <1>11 DEF Next

\* A handler that is about to write, its package and its piece of it
LEMMA WriterFacts ==
  ASSUME TypeInv, AskedInv, NEW t \in Thread, pc[t] \in {"file", "create", "write"}
  PROVE  /\ obj[t] \in 1 .. Len(made) /\ PkgOf(obj[t]) \in Pkg
         /\ <<t, job[t]>> \in Incoming /\ job[t].type = "RES"
         /\ PkgOf(obj[t]) = job[t].pkg
         /\ job[t].chunk \in Chunks(NChunks[PkgOf(obj[t])])
<1>1. obj[t] \in 1 .. Len(made)
  <2>1. obj[t] \in 0 .. Len(made) /\ obj[t] # 0 /\ Len(made) \in Nat
    BY LenProperties DEF TypeInv, TypeOK, PointersOK, Using
  <2> QED  BY <2>1
<1>2. PkgOf(obj[t]) \in Pkg
  BY <1>1, ObjectFacts DEF TypeInv
<1>3. job[t].type = "RES"
  BY PacketTypes DEF TypeInv, JobsOK
<1>4. <<t, job[t]>> \in Incoming /\ PkgOf(obj[t]) = job[t].pkg
  <2>1. t \in Thread \ {Main}
    BY DEF AskedInv
  <2> QED  BY <2>1 DEF AskedInv, Using
<1>5. <<t, job[t]>>[2] = job[t]
  OBVIOUS
<1>6. job[t].chunk \in Chunks(NChunks[job[t].pkg])
  BY <1>3, <1>4, <1>5
<1> QED  BY <1>1, <1>2, <1>3, <1>4, <1>6

(* ------------------------- computed hashes are sound ------------------- *)
\* The nodes over chunks that were right at some moment
Ever(p) == CoversOnly(p, once[p])

\* A chunk that is right was right at some moment.
OnceInv == \A p \in Pkg : right[p] \subseteq once[p]

\* What was right at some moment was so for ever, whatever a step writes.
LEMMA NextOnceInv ==
  ASSUME TypeInv, OnceInv, [Next]_vars
  PROVE  OnceInv' /\ \A p \in Pkg : once[p] \subseteq once'[p]
<1>0. right \in [Pkg -> SUBSET Nat] /\ once \in [Pkg -> SUBSET Nat]
  BY DEF TypeInv, TypeOK
<1> DEFINE Keeps == OnceInv' /\ \A p \in Pkg : once[p] \subseteq once'[p]
<1>1. ASSUME UNCHANGED fileVars PROVE Keeps
  BY <1>1 DEF OnceInv, fileVars
<1>2. ASSUME NEW t \in Thread, CreateFile(t) PROVE Keeps
  BY <1>0, <1>2 DEF CreateFile, OnceInv
<1>3. ASSUME NEW t \in Thread, WriteChunk(t) PROVE Keeps
  <2>1. CASE /\ right' = [right EXCEPT ![PkgOf(obj[t])] = @ \cup {job[t].chunk}]
             /\ once' = [once EXCEPT ![PkgOf(obj[t])] = @ \cup {job[t].chunk}]
    BY <1>0, <2>1 DEF OnceInv
  <2>2. CASE /\ right' = [right EXCEPT ![PkgOf(obj[t])] = @ \ {job[t].chunk}]
             /\ once' = once
    BY <1>0, <2>2 DEF OnceInv
  <2> QED  BY <1>3, <2>1, <2>2 DEF WriteChunk
<1>4. \/ UNCHANGED fileVars
      \/ \E t \in Thread : CreateFile(t) \/ WriteChunk(t)
  <2>1. ASSUME NEW t \in Thread, Sent(t) \/ Step(t)
        PROVE  UNCHANGED fileVars \/ CreateFile(t) \/ WriteChunk(t)
    BY <2>1 DEF Step, Scan, AppendPackage, ListNext, OpenFile, HashChunk, StoreHash,
       ComputeHashes, VisitNode, GetPackage, CheckChunk, Serve, Sent, FileCheck,
       UseFreed, UseNull, UseNoFile
  <2>2. Command => UNCHANGED fileVars
    BY DEF Command, AddPackage, RemovePackage, ListPackages
  <2>3. ASSUME NEW e \in Incoming, Receive(e[1], e[2]) PROVE UNCHANGED fileVars
    BY <2>3 DEF Receive
  <2>4. UNCHANGED vars => UNCHANGED fileVars
    BY DEF vars, fileVars
  <2> QED  BY <2>1, <2>2, <2>3, <2>4 DEF Next
<1> QED  BY <1>1, <1>2, <1>3, <1>4

\* What each thread is about to store was right, the calls bpkg_compute_hashes still
\* makes are to inner nodes, a query lives as long as its pointer to the package, and
\* whatever counts as complete was right piece by piece: in the trees and the queries.
LoopAt(t) ==
  /\ pc[t] \in {"hash", "store"} => idx[t] \in Chunks(Count(obj[t]))
  /\ pc[t] \notin {"hash", "store"} => idx[t] = 1
  /\ pc[t] = "store" => snap[t] \subseteq {idx[t]} \cap once[PkgOf(obj[t])]
  /\ pc[t] = "compute" => todo[t] \in Seq(CallsTo(Inner(Count(obj[t]))))
  /\ found[t] # {} => pc[t] \in {"visit", "check"}
LoopInv == \A t \in Thread : LoopAt(t)

ScanInv ==
  LoopInv /\ HashesSound /\ \A o \in Object : o > Len(made) => computed[o] = {}

\* The chunks under a node, as Packages names them
LEMMA UnderFacts ==
  ASSUME NEW p \in Pkg
  PROVE  /\ NChunks[p] \in Nat \ {0}
         /\ \A n \in Nodes(NChunks[p]) : Under[p][n] = Covered(NChunks[p], n)
BY ConstantFacts DEF Under

\* A leaf covers chunks of a set only when its chunk is in it, an inner node when its
\* children do.
LEMMA CompleteFacts ==
  ASSUME NEW p \in Pkg, NEW S
  PROVE  /\ \A k \in Chunks(NChunks[p]) :
              NChunks[p] # 1 /\ k \in S => Leaf(NChunks[p], k) \in CoversOnly(p, S)
         /\ \A n \in Inner(NChunks[p]) :
              {Left(n), Right(n)} \subseteq CoversOnly(p, S) => n \in CoversOnly(p, S)
<1> DEFINE c == NChunks[p]
<1>1. c \in Nat \ {0} /\ \A n \in Nodes(c) : Under[p][n] = Covered(c, n)
  BY UnderFacts
<1> HIDE DEF c
<1>2. ASSUME NEW k \in Chunks(c), c # 1, k \in S
      PROVE  Leaf(c, k) \in Nodes(c) /\ Under[p][Leaf(c, k)] \subseteq S
  <2>1. c \in Nat \ {0, 1}
    BY <1>1, <1>2
  <2>2. Leaf(c, k) \in Nodes(c) /\ Covered(c, Leaf(c, k)) = {k}
    BY <1>1, <2>1, LeafFacts, CoveredLeaf
  <2> QED  BY <1>1, <1>2, <2>2
<1>3. ASSUME NEW n \in Inner(c), Under[p][Left(n)] \subseteq S,
             Under[p][Right(n)] \subseteq S
      PROVE  n \in Nodes(c) /\ Under[p][n] \subseteq S
  <2>1. n \in Nodes(c) /\ Left(n) \in Nodes(c) /\ Right(n) \in Nodes(c)
    BY <1>1, ChildFacts DEF Inner, Nodes
  <2>2. Covered(c, n) = Covered(c, Left(n)) \cup Covered(c, Right(n))
    BY <1>1, CoveredInner
  <2> QED  BY <1>1, <1>3, <2>1, <2>2
<1> QED  BY <1>2, <1>3 DEF CoversOnly, c

\* The loop of a thread that a step leaves where it is.
LEMMA LoopKept ==
  ASSUME TypeInv, [Next]_vars, \A p \in Pkg : once[p] \subseteq once'[p],
         NEW t \in Thread, LoopAt(t), pc'[t] = pc[t], obj'[t] = obj[t], idx'[t] = idx[t],
         snap'[t] = snap[t], todo'[t] = todo[t], found'[t] = found[t]
  PROVE  LoopAt(t)'
<1>1. CASE pc[t] \in Using
  <2>1. obj[t] \in 1 .. Len(made)
    <3>1. Len(made) \in Nat /\ obj[t] \in 0 .. Len(made) /\ obj[t] # 0
      BY <1>1, LenProperties DEF TypeInv, TypeOK, PointersOK
    <3> QED  BY <3>1
  <2>2. PkgOf(obj[t])' = PkgOf(obj[t]) /\ PkgOf(obj[t]) \in Pkg
    <3>1. PkgOf(obj[t]) \in Pkg /\ \A o \in 1 .. Len(made) : PkgOf(o)' = PkgOf(o)
      BY <2>1, ObjectFacts, SamePackages DEF TypeInv
    <3> QED  BY <2>1, <3>1 DEF PkgOf
  <2>3. Count(obj[t])' = Count(obj[t])
    BY <2>2 DEF Count
  <2> QED  BY <2>2, <2>3 DEF LoopAt
<1>2. CASE pc[t] \notin Using
  BY <1>2 DEF LoopAt, Using
<1> QED  BY <1>1, <1>2

\* A thread's pointer while it is used
LEMMA UsedPointer ==
  ASSUME TypeInv, NEW t \in Thread, pc[t] \in Using
  PROVE  /\ obj[t] \in 1 .. Len(made) /\ obj[t] \in Object /\ PkgOf(obj[t]) \in Pkg
         /\ Count(obj[t]) \in Nat \ {0} /\ Count(obj[t]) = NChunks[PkgOf(obj[t])]
<1>1. Len(made) \in Nat /\ obj[t] \in 0 .. Len(made) /\ obj[t] # 0
  BY LenProperties DEF TypeInv, TypeOK, PointersOK
<1>2. obj[t] \in 1 .. Len(made)
  BY <1>1
<1> QED  BY <1>2, ObjectFacts DEF TypeInv, Count

\* What is to be shown of a step of one thread.
LEMMA ScanKept ==
  ASSUME TypeInv, ScanInv, [Next]_vars, \A p \in Pkg : once[p] \subseteq once'[p],
         NEW t \in Thread, LoopAt(t)',
         \A u \in Thread \ {t} :
           /\ pc'[u] = pc[u] /\ obj'[u] = obj[u] /\ idx'[u] = idx[u]
           /\ snap'[u] = snap[u] /\ todo'[u] = todo[u] /\ found'[u] = found[u],
         \A o \in 1 .. Len(made) : computed'[o] \subseteq computed[o] \cup Ever(PkgOf(o)),
         \A o \in Object : o > Len(made) => computed'[o] = {},
         \/ found'[t] = {}
         \/ /\ pc[t] \in Using /\ obj'[t] = obj[t]
            /\ found'[t] \subseteq found[t] \cup Ever(PkgOf(obj[t]))
  PROVE  ScanInv'
<1>1. LoopInv'
  BY LoopKept DEF ScanInv, LoopInv
<1>2. /\ \A o \in 1 .. Len(made) : PkgOf(o)' = PkgOf(o)
      /\ Len(made') \in Nat /\ Len(made) \in Nat /\ Len(made) <= Len(made')
      /\ Len(made') <= MaxObjects /\ MaxObjects \in Nat
  BY SamePackages, NextTypeInv, ConstantFacts, LenProperties DEF TypeInv, TypeOK
<1>3. \A o \in 1 .. Len(made) : Ever(PkgOf(o)) \subseteq Ever(PkgOf(o))'
  <2> TAKE o \in 1 .. Len(made)
  <2>1. PkgOf(o) \in Pkg /\ PkgOf(o)' = PkgOf(o)
    BY <1>2, ObjectFacts DEF TypeInv
  <2> QED  BY <2>1 DEF Ever, CoversOnly
<1>4. ASSUME NEW o \in 1 .. Len(made') PROVE computed'[o] \subseteq Ever(PkgOf(o))'
  <2>1. CASE o \in 1 .. Len(made)
    BY <1>3, <2>1 DEF ScanInv, HashesSound, Ever
  <2>2. CASE o \notin 1 .. Len(made)
    BY <1>2, <2>2 DEF Object
  <2> QED  BY <2>1, <2>2
<1>5. ASSUME NEW u \in Thread, found'[u] # {}
      PROVE  found'[u] \subseteq Ever(PkgOf(obj[u]))'
  <2>1. /\ pc[u] \in Using /\ obj'[u] = obj[u]
        /\ found'[u] \subseteq found[u] \cup Ever(PkgOf(obj[u]))
    <3>1. CASE u = t
      BY <1>5, <3>1
    <3>2. CASE u # t
      BY <1>5, <3>2 DEF ScanInv, LoopInv, LoopAt, Using
    <3> QED  BY <3>1, <3>2
  <2>2. obj[u] \in 1 .. Len(made)
    BY <2>1, UsedPointer
  <2>3. found[u] \subseteq Ever(PkgOf(obj[u]))
    BY DEF ScanInv, HashesSound, Ever
  <2>4. Ever(PkgOf(obj[u])) \subseteq Ever(PkgOf(obj[u]))'
    BY <1>3, <2>1, <2>2 DEF Ever, CoversOnly, PkgOf
  <2> QED  BY <2>1, <2>3, <2>4
<1>6. HashesSound'
  BY <1>4, <1>5 DEF HashesSound, Ever
<1>7. \A o \in Object : o > Len(made') => computed'[o] = {}
  BY <1>2 DEF Object
<1> QED  BY <1>1, <1>6, <1>7 DEF ScanInv

\* A step that stores no hash and builds no query
LEMMA ScanStep ==
  ASSUME TypeInv, ScanInv, [Next]_vars, \A p \in Pkg : once[p] \subseteq once'[p],
         NEW t \in Thread, LoopAt(t)', computed' = computed,
         \A u \in Thread \ {t} :
           /\ pc'[u] = pc[u] /\ obj'[u] = obj[u] /\ idx'[u] = idx[u]
           /\ snap'[u] = snap[u] /\ todo'[u] = todo[u] /\ found'[u] = found[u],
         found'[t] = {} \/ (found'[t] = found[t] /\ obj'[t] = obj[t])
  PROVE  ScanInv'
<1>1. \A o \in 1 .. Len(made) : computed'[o] \subseteq computed[o] \cup Ever(PkgOf(o))
  OBVIOUS
<1>2. \A o \in Object : o > Len(made) => computed'[o] = {}
  BY DEF ScanInv
<1>3. \/ found'[t] = {}
      \/ /\ pc[t] \in Using /\ obj'[t] = obj[t]
         /\ found'[t] \subseteq found[t] \cup Ever(PkgOf(obj[t]))
  BY DEF ScanInv, LoopInv, LoopAt, Using
<1> QED  BY <1>1, <1>2, <1>3, ScanKept

\* Steps outside the scans leave its loops and queries, or end at a program point
\* where there are none.
LEMMA NextScanInv ==
  ASSUME TypeInv, OnceInv, ScanInv, [Next]_vars,
         \A p \in Pkg : once[p] \subseteq once'[p]
  PROVE  ScanInv'
<1> USE DEF tableVars, fileVars, scanVars, At, Goto
<1>0. /\ TypeOK /\ Main \in Thread
      /\ pc \in [Thread -> Using \cup {"idle", "lookup", "append", "send"}]
      /\ obj \in [Thread -> 0 .. MaxObjects]
      /\ idx \in [Thread -> Nat] /\ snap \in [Thread -> SUBSET Nat]
      /\ todo \in [Thread -> Seq([node : Nat, back : BOOLEAN])]
      /\ found \in [Thread -> SUBSET Nat]
      /\ computed \in [Object -> SUBSET Nat]
      /\ right \in [Pkg -> SUBSET Nat] /\ once \in [Pkg -> SUBSET Nat]
  BY DEF TypeInv, TypeOK, Thread
<1>l. \A u \in Thread : LoopAt(u)
  BY DEF ScanInv, LoopInv
<1>1. ASSUME NEW t \in Thread,
             UNCHANGED <<idx, snap, todo>>, computed' = computed,
             \/ found' = found /\ obj'[t] = obj[t]
             \/ found' = [found EXCEPT ![t] = {}]
             \/ found' = found /\ found[t] = {},
             pc[t] \notin {"hash", "store"},
             pc'[t] \notin {"hash", "store", "compute", "visit"},
             \/ pc'[t] = "check" \/ found'[t] = {},
             \A u \in Thread \ {t} : pc'[u] = pc[u] /\ obj'[u] = obj[u]
      PROVE  ScanInv'
  <2>1. LoopAt(t)'
    BY <1>l, <1>1 DEF LoopAt
  <2>2. found'[t] = {} \/ (found'[t] = found[t] /\ obj'[t] = obj[t])
    <3>1. CASE found' = [found EXCEPT ![t] = {}]
      BY <1>0, <3>1
    <3> QED  BY <1>1, <3>1
  <2>3. \A u \in Thread \ {t} :
           /\ pc'[u] = pc[u] /\ obj'[u] = obj[u] /\ idx'[u] = idx[u]
           /\ snap'[u] = snap[u] /\ todo'[u] = todo[u] /\ found'[u] = found[u]
    BY <1>0, <1>1
  <2> QED  BY <1>1, <2>1, <2>2, <2>3, ScanStep
<1>2. ASSUME NEW f \in BpkgFile, AddPackage(f) PROVE ScanInv'
  BY <1>0, <1>1, <1>2, <1>l DEF AddPackage, LoopAt
<1>3. ASSUME AppendPackage PROVE ScanInv'
  BY <1>0, <1>1, <1>3, <1>l DEF AppendPackage, LoopAt
<1>4. ASSUME ListPackages PROVE ScanInv'
  BY <1>0, <1>1, <1>4, <1>l DEF ListPackages, LoopAt
<1>5. ASSUME ListNext PROVE ScanInv'
  BY <1>0, <1>1, <1>5 DEF ListNext, EndQuery
<1>6. ASSUME UNCHANGED <<computed, pc, obj, scanVars>> PROVE ScanInv'
  <2>1. \A u \in Thread : LoopAt(u)'
    BY <1>6, <1>l, LoopKept
  <2> QED  BY <1>0, <1>6, <2>1, ScanStep
<1>7. ASSUME NEW t \in Thread,
             CheckChunk(t) \/ Serve(t) \/ Sent(t) \/ FileCheck(t) \/ CreateFile(t) \/ WriteChunk(t)
             \/ GetPackage(t)
      PROVE  ScanInv'
  <2>1. CASE CheckChunk(t)
    BY <1>0, <1>1, <2>1 DEF CheckChunk, EndQuery, Done
  <2>0. pc[t] \notin {"visit", "check"} => found[t] = {}
    BY <1>l DEF LoopAt
  <2>2. CASE Serve(t) \/ Sent(t) \/ WriteChunk(t)
    <3>1. pc[t] \in {"serve", "send", "write"} /\ pc'[t] \in {"idle", "send"}
      BY <1>0, <2>2 DEF Serve, Sent, WriteChunk, Done
    <3>2. \A u \in Thread \ {t} : pc'[u] = pc[u] /\ obj'[u] = obj[u]
      BY <1>0, <2>2 DEF Serve, Sent, WriteChunk, Done
    <3>3. UNCHANGED <<idx, snap, todo, found>> /\ computed' = computed
      BY <2>2 DEF Serve, Sent, WriteChunk
    <3> QED  BY <1>1, <2>0, <3>1, <3>2, <3>3
  <2>3. CASE FileCheck(t) \/ CreateFile(t)
    <3>1. pc[t] \in {"file", "create"} /\ pc'[t] \in {"create", "write"}
      BY <1>0, <2>3 DEF FileCheck, CreateFile
    <3>2. \A u \in Thread \ {t} : pc'[u] = pc[u] /\ obj'[u] = obj[u]
      BY <1>0, <2>3 DEF FileCheck, CreateFile
    <3>3. UNCHANGED <<idx, snap, todo, found>> /\ computed' = computed
      BY <2>3 DEF FileCheck, CreateFile
    <3> QED  BY <1>1, <2>0, <3>1, <3>2, <3>3
  <2>4. CASE GetPackage(t)
    <3>1. pc[t] = "lookup" /\ pc'[t] \in {"idle", "send", "open", "file"}
      BY <1>0, <2>4 DEF GetPackage
    <3>2. \A u \in Thread \ {t} : pc'[u] = pc[u] /\ obj'[u] = obj[u]
      BY <1>0, <2>4 DEF GetPackage
    <3>3. UNCHANGED <<idx, snap, todo, found>> /\ computed' = computed
      BY <2>4 DEF GetPackage
    <3> QED  BY <1>1, <2>0, <3>1, <3>2, <3>3
  <2> QED  BY <1>7, <2>1, <2>2, <2>3, <2>4
<1>8. ASSUME NEW e \in Incoming, Receive(e[1], e[2]) PROVE ScanInv'
  <2>1. e[1] \in Thread
    BY DEF Thread
  <2>2. pc[e[1]] = "idle" /\ pc'[e[1]] = "lookup" /\ found[e[1]] = {}
    <3>1. pc[e[1]] = "idle" /\ pc'[e[1]] = "lookup"
      BY <1>0, <1>8, <2>1 DEF Receive
    <3>2. LoopAt(e[1])
      BY <1>l, <2>1
    <3> QED  BY <3>1, <3>2 DEF LoopAt
  <2>3. \A u \in Thread \ {e[1]} : pc'[u] = pc[u] /\ obj'[u] = obj[u]
    BY <1>0, <1>8 DEF Receive
  <2>4. UNCHANGED <<idx, snap, todo, found>> /\ computed' = computed
    BY <1>8 DEF Receive
  <2> QED  BY <1>1, <2>1, <2>2, <2>3, <2>4
<1>9. ASSUME NEW t \in Thread, OpenFile(t) PROVE ScanInv'
  <2>1. Count(obj[t]) \in Nat \ {0}
    BY <1>9, UsedPointer DEF OpenFile, Using
  <2>2. /\ pc'[t] \in {"hash", "check"} /\ idx'[t] = 1 /\ found'[t] = {}
        /\ obj' = obj /\ made' = made
        /\ \A u \in Thread \ {t} : pc'[u] = pc[u]
    BY <1>0, <1>9, <1>l DEF OpenFile, LoopAt
  <2>3. LoopAt(t)'
    BY <2>1, <2>2 DEF LoopAt, Chunks, Count, PkgOf
  <2> QED  BY <1>9, <2>2, <2>3, ScanStep DEF OpenFile
<1>10. ASSUME NEW t \in Thread, HashChunk(t) PROVE ScanInv'
  <2>1. /\ idx[t] \in Chunks(Count(obj[t])) /\ found[t] = {} /\ pc[t] = "hash"
    BY <1>10, <1>l DEF HashChunk, LoopAt
  <2>2. /\ obj' = obj /\ made' = made /\ once' = once /\ found' = found
        /\ computed' = computed /\ todo' = todo
    BY <1>10 DEF HashChunk
  <2>3. CASE /\ snap' = [snap EXCEPT ![t] = {idx[t]} \cap right[PkgOf(obj[t])]]
             /\ pc' = [pc EXCEPT ![t] = "store"] /\ idx' = idx
    <3>0. PkgOf(obj[t]) \in Pkg /\ right[PkgOf(obj[t])] \subseteq once[PkgOf(obj[t])]
      BY <2>1, UsedPointer DEF OnceInv, Using
    <3>1. LoopAt(t)'
      BY <1>0, <2>1, <2>2, <2>3, <3>0 DEF LoopAt, Count, PkgOf
    <3> QED  BY <1>0, <2>2, <2>3, <3>1, ScanStep
  <2>4. CASE /\ idx' = [idx EXCEPT ![t] = 1]
             /\ pc' = [pc EXCEPT ![t] = "check"] /\ snap' = snap
    <3>1. LoopAt(t)'
      BY <1>0, <2>1, <2>2, <2>4 DEF LoopAt
    <3> QED  BY <1>0, <2>2, <2>4, <3>1, ScanStep
  <2> QED  BY <1>10, <2>3, <2>4 DEF HashChunk
<1>11. ASSUME NEW t \in Thread, StoreHash(t) PROVE ScanInv'
  <2> DEFINE o == obj[t]
             c == Count(obj[t])
             node == ChunkNode(c, idx[t])
             p == PkgOf(o)
  <2>1. /\ o \in 1 .. Len(made) /\ o \in Object /\ p \in Pkg /\ c \in Nat \ {0}
        /\ c = NChunks[p]
    BY <1>11, UsedPointer DEF StoreHash, Using
  <2>2. /\ idx[t] \in Chunks(c) /\ found[t] = {} /\ pc[t] = "store"
        /\ snap[t] \subseteq {idx[t]} \cap once[p]
    BY <1>11, <1>l DEF StoreHash, LoopAt
  <2>3. c # 1 /\ node = {Leaf(c, idx[t])}
    BY <1>11 DEF StoreHash, ChunkNode
  <2>4. /\ computed' = [computed EXCEPT ![o] =
                          (@ \ node) \cup (IF snap[t] = {} THEN {} ELSE node)]
        /\ snap' = [snap EXCEPT ![t] = {}]
        /\ obj' = obj /\ made' = made /\ once' = once /\ found' = found
    BY <1>11 DEF StoreHash
  <2>c. c' = c
    BY <2>4 DEF Count, PkgOf
  <2>5. snap[t] # {} => node \subseteq Ever(p)
    <3>1. snap[t] # {} => idx[t] \in once[p]
      BY <2>2
    <3>2. \A k \in Chunks(NChunks[p]) :
            NChunks[p] # 1 /\ k \in once[p] => Leaf(NChunks[p], k) \in Ever(p)
      BY <2>1, CompleteFacts DEF Ever
    <3> QED  BY <2>1, <2>2, <2>3, <3>1, <3>2
  <2>6. /\ \A q \in 1 .. Len(made) : computed'[q] \subseteq computed[q] \cup Ever(PkgOf(q))
        /\ \A q \in Object : q > Len(made) => computed'[q] = {}
    <3> HIDE DEF node, c
    <3>1. computed'[o] \subseteq computed[o] \cup Ever(PkgOf(o))
      BY <1>0, <2>1, <2>4, <2>5
    <3>2. \A q \in Object \ {o} : computed'[q] = computed[q]
      BY <1>0, <2>4
    <3>3. \A q \in Object \ {o} : q > Len(made) => computed'[q] = {}
      BY <3>2 DEF ScanInv
    <3>4. Len(made) \in Nat /\ 1 .. Len(made) \subseteq Object
      BY <1>0, ObjectFacts, LenProperties DEF TypeOK
    <3> HIDE DEF o
    <3>5. ~ (o > Len(made))
      BY <2>1, <3>4
    <3> QED  BY <3>1, <3>2, <3>3, <3>4, <3>5
  <2>7. LoopAt(t)' /\ \A u \in Thread \ {t} :
          pc'[u] = pc[u] /\ idx'[u] = idx[u] /\ todo'[u] = todo[u]
    <3>1. CASE /\ idx[t] < c /\ idx' = [idx EXCEPT ![t] = @ + 1]
               /\ pc' = [pc EXCEPT ![t] = "hash"] /\ todo' = todo
      <4> HIDE DEF c
      <4>1. idx'[t] \in Chunks(c) /\ pc'[t] = "hash" /\ found'[t] = {}
        BY <1>0, <2>1, <2>2, <2>4, <3>1 DEF Chunks
      <4>2. idx'[t] \in Chunks(c)'
        BY <2>c, <4>1 DEF Chunks
      <4>3. LoopAt(t)'
        BY <4>1, <4>2 DEF LoopAt, c
      <4> QED  BY <1>0, <3>1, <4>3
    <3>2. CASE /\ idx[t] = c /\ idx' = [idx EXCEPT ![t] = 1]
               /\ todo' = [todo EXCEPT ![t] = <<Call(0)>>]
               /\ pc' = [pc EXCEPT ![t] = "compute"]
      <4> HIDE DEF c
      <4>1. /\ idx'[t] = 1 /\ pc'[t] = "compute" /\ found'[t] = {}
            /\ todo'[t] = <<Call(0)>>
        BY <1>0, <2>2, <2>4, <3>2
      <4>2. 0 \in Inner(c)
        BY <2>1, <2>3 DEF Inner
      <4>3. Call(0) \in CallsTo(Inner(c))
        BY <4>2 DEF Call, CallsTo
      <4>4. <<Call(0)>> \in Seq(CallsTo(Inner(c)))
        BY <4>3, ShortSeqs
      <4>5. Inner(c)' = Inner(c)
        BY <2>c DEF Inner
      <4>6. todo'[t] \in Seq(CallsTo(Inner(c)'))
        BY <4>1, <4>4, <4>5
      <4>7. LoopAt(t)'
        BY <4>1, <4>6 DEF LoopAt, c, CallsTo
      <4> QED  BY <1>0, <3>2, <4>7
    <3> QED  BY <1>11, <3>1, <3>2 DEF StoreHash
  <2>8. \A u \in Thread \ {t} : snap'[u] = snap[u]
    BY <1>0, <2>4
  <2> HIDE DEF o, c, node, p
  <2> QED  BY <2>2, <2>4, <2>6, <2>7, <2>8, ScanKept
<1>12. ASSUME NEW t \in Thread, ComputeHashes(t) PROVE ScanInv'
  <2> DEFINE o == obj[t]
             c == Count(obj[t])
             n == Head(todo[t]).node
             p == PkgOf(o)
  <2>1. /\ o \in 1 .. Len(made) /\ o \in Object /\ p \in Pkg /\ c \in Nat \ {0}
        /\ c = NChunks[p]
    BY <1>12, UsedPointer DEF ComputeHashes, Using
  <2>2. /\ pc[t] = "compute" /\ found[t] = {} /\ idx[t] = 1
        /\ todo[t] \in Seq(CallsTo(Inner(c))) /\ todo[t] # <<>>
    BY <1>12, <1>l DEF ComputeHashes, LoopAt, TypeInv, PointersOK
  <2>3. n \in Inner(c) /\ n \in Nat /\ Tail(todo[t]) \in Seq(CallsTo(Inner(c)))
    <3>1. Head(todo[t]).node \in Inner(c) /\ Tail(todo[t]) \in Seq(CallsTo(Inner(c)))
      BY <1>0, <2>2, HeadFacts
    <3> QED  BY <2>1, <3>1 DEF Inner
  <2>4. /\ UNCHANGED <<made, once, obj, idx, snap, found>>
        /\ c' = c
    BY <1>12 DEF ComputeHashes, Count, PkgOf
  <2>5. Inner(c)' = Inner(c)
    BY <2>4 DEF Inner
  <2> HIDE DEF o, c, n, p
  <2>6. CASE /\ todo' = [todo EXCEPT ![t] = Calls(InnerChildren(c, n)) \o
                           <<[node |-> n, back |-> TRUE]>> \o Tail(todo[t])]
             /\ computed' = computed /\ pc' = pc
    <3>1. Calls(InnerChildren(c, n)) \in Seq(CallsTo(Inner(c)))
      BY <2>1, <2>3, CallsFacts
    <3>2. [node |-> n, back |-> TRUE] \in CallsTo(Inner(c))
      BY <2>3 DEF CallsTo
    <3>3. <<[node |-> n, back |-> TRUE]>> \in Seq(CallsTo(Inner(c)))
      BY <3>2, ShortSeqs
    <3>4. Calls(InnerChildren(c, n)) \o <<[node |-> n, back |-> TRUE]>>
            \in Seq(CallsTo(Inner(c)))
      BY <3>1, <3>3, ConcatProperties
    <3>5. todo'[t] \in Seq(CallsTo(Inner(c)))
      BY <1>0, <2>3, <2>6, <3>4, ConcatProperties
    <3>6. todo'[t] \in Seq(CallsTo(Inner(c)'))
      BY <2>5, <3>5
    <3>7. LoopAt(t)'
      BY <2>2, <2>4, <2>6, <3>6 DEF LoopAt, CallsTo, c
    <3>8. \A u \in Thread \ {t} : todo'[u] = todo[u]
      BY <1>0, <2>6
    <3> QED  BY <2>2, <2>4, <2>6, <3>7, <3>8, ScanStep
  <2>7. CASE /\ computed' = [computed EXCEPT ![o] =
                  IF {Left(n), Right(n)} \subseteq @ THEN @ \cup {n} ELSE @ \ {n}]
             /\ Return(t, Tail(todo[t]), "visit", <<Call(0)>>)
    <3>1. Call(0) \in CallsTo(Inner(c))
      BY <2>1, <2>3 DEF Call, CallsTo, Inner
    <3>2. <<Call(0)>> \in Seq(CallsTo(Inner(c)))
      BY <3>1, ShortSeqs
    <3>3. /\ todo' = [todo EXCEPT ![t] = todo'[t]] /\ pc' = [pc EXCEPT ![t] = pc'[t]]
          /\ todo'[t] \in Seq(CallsTo(Inner(c)))
          /\ pc'[t] = pc[t] \/ pc'[t] = "visit"
      BY <1>0, <2>3, <2>7, <3>2, ReturnFacts
    <3>4. todo'[t] \in Seq(CallsTo(Inner(c)'))
      BY <2>5, <3>3
    <3>5. LoopAt(t)'
      BY <2>2, <2>4, <3>3, <3>4 DEF LoopAt, CallsTo, c
    <3>6. \A u \in Thread \ {t} : todo'[u] = todo[u] /\ pc'[u] = pc[u]
      BY <1>0, <3>3
    <3>7. computed[o] \subseteq Ever(p)
      BY <2>1 DEF ScanInv, HashesSound, Ever, p
    <3>8. {Left(n), Right(n)} \subseteq Ever(p) => n \in Ever(p)
      BY <2>1, <2>3, CompleteFacts DEF Ever
    <3>9. computed'[o] \subseteq computed[o] \cup Ever(p)
      BY <1>0, <2>1, <2>7, <3>7, <3>8
    <3>10. \A q \in Object \ {o} : computed'[q] = computed[q]
      BY <1>0, <2>7
    <3>11. \A q \in 1 .. Len(made) :
             computed'[q] \subseteq computed[q] \cup Ever(PkgOf(q))
      <4>1. 1 .. Len(made) \subseteq Object
        BY <1>0, ObjectFacts
      <4> QED  BY <3>9, <3>10, <4>1 DEF p
    <3>12. \A q \in Object : q > Len(made) => computed'[q] = {}
      <4>1. ~ (o > Len(made))
        BY <1>0, <2>1, LenProperties DEF TypeOK
      <4> QED  BY <3>10, <4>1 DEF ScanInv
    <3> QED  BY <2>2, <2>4, <3>5, <3>6, <3>11, <3>12, ScanKept
  <2> QED  BY <1>12, <2>6, <2>7 DEF ComputeHashes, o, c, n
<1>13. ASSUME NEW t \in Thread, VisitNode(t) PROVE ScanInv'
  <2> DEFINE n == Head(todo[t]).node
             p == PkgOf(obj[t])
             c == Count(obj[t])
  <2>1. /\ obj[t] \in 1 .. Len(made) /\ obj[t] \in Object /\ c \in Nat \ {0}
        /\ pc[t] \in Using
    BY <1>13, UsedPointer DEF VisitNode, Using
  <2>2. /\ pc[t] = "visit" /\ idx[t] = 1
        /\ todo[t] \in Seq(CallsTo(Nat)) /\ todo[t] # <<>>
    BY <1>0, <1>13, <1>l DEF VisitNode, LoopAt, TypeInv, PointersOK, CallsTo
  <2>3. Head(todo[t]).node \in Nat /\ Tail(todo[t]) \in Seq(CallsTo(Nat))
    BY <1>0, <2>2, HeadFacts
  <2>4. /\ UNCHANGED <<made, once, obj, idx, snap>> /\ computed' = computed
    BY <1>13 DEF VisitNode
  <2>5. computed[obj[t]] \subseteq Ever(p)
    BY <2>1 DEF ScanInv, HashesSound, Ever
  <2>6. ASSUME NEW rest \in Seq(CallsTo(Nat)), Return(t, rest, "check", <<>>)
        PROVE  /\ pc'[t] \in {"visit", "check"}
               /\ \A u \in Thread \ {t} : pc'[u] = pc[u] /\ todo'[u] = todo[u]
    <3>1. <<>> \in Seq(CallsTo(Nat))
      BY EmptySeq
    <3>2. /\ todo' = [todo EXCEPT ![t] = todo'[t]] /\ pc' = [pc EXCEPT ![t] = pc'[t]]
          /\ pc'[t] = pc[t] \/ pc'[t] = "check"
      BY <1>0, <2>6, <3>1, ReturnFacts
    <3> QED  BY <1>0, <2>2, <3>2
  <2>7. /\ pc'[t] \in {"visit", "check"}
        /\ \A u \in Thread \ {t} : pc'[u] = pc[u] /\ todo'[u] = todo[u]
    <3>1. Calls(Children(c, n)) \o Tail(todo[t]) \in Seq(CallsTo(Nat))
      BY <2>1, <2>3, CallsFacts, ConcatProperties
    <3> QED  BY <1>13, <2>3, <2>6, <3>1 DEF VisitNode
  <2>8. LoopAt(t)'
    BY <2>2, <2>4, <2>7 DEF LoopAt
  <2>9. /\ found'[t] \subseteq found[t] \cup Ever(p)
        /\ \A u \in Thread \ {t} : found'[u] = found[u]
    <3>1. CASE n \in computed[obj[t]] /\ found' = [found EXCEPT ![t] = @ \cup {n}]
      <4> HIDE DEF n, p
      <4> QED  BY <1>0, <2>5, <3>1
    <3>2. CASE found' = found
      BY <3>2
    <3> QED  BY <1>13, <3>1, <3>2 DEF VisitNode
  <2>10. \A o \in 1 .. Len(made) : computed'[o] \subseteq computed[o] \cup Ever(PkgOf(o))
    BY <2>4
  <2>11. \A o \in Object : o > Len(made) => computed'[o] = {}
    BY <2>4 DEF ScanInv
  <2> QED  BY <2>1, <2>4, <2>7, <2>8, <2>9, <2>10, <2>11, ScanKept
<1>14. ASSUME NEW t \in Thread, Sent(t) \/ Step(t) PROVE ScanInv'
  <2>1. UseFreed(t) \/ UseNull(t) \/ UseNoFile(t) => ScanInv'
    BY <1>6 DEF UseFreed, UseNull, UseNoFile
  <2> QED  BY <1>3, <1>5, <1>7, <1>9, <1>10, <1>11, <1>12, <1>13, <1>14, <2>1 DEF Step, Scan
<1>15. Command => ScanInv'
  <2>1. ASSUME NEW p \in Pkg, RemovePackage(p) PROVE ScanInv'
    BY <1>6, <2>1 DEF RemovePackage
  <2> QED  BY <1>2, <1>4, <2>1 DEF Command
<1>16. UNCHANGED vars => ScanInv'
  BY <1>6 DEF vars
<1> QED  BY <1>8, <1>14, <1>15, <1>16 DEF Next

\* Whatever peers send and write, for every tree, every set of handlers, packages,
\* package files and packets: no node counts as complete over a chunk that never was
\* right, whoever computed the hashes, in whatever order (peer.c:177, pkgchk.c:432-450).
THEOREM HashesSoundAlways == Spec => []HashesSound
<1>1. Init => TypeInv /\ OnceInv /\ ScanInv
  <2> SUFFICES ASSUME Init PROVE OnceInv /\ ScanInv
    BY InitTypeInv
  <2>1. OnceInv
    BY DEF Init, OnceInv
  <2>2. LoopInv
    BY DEF Init, LoopInv, LoopAt
  <2>3. HashesSound
    BY EmptySeq DEF Init, HashesSound
  <2>4. \A o \in Object : o > Len(made) => computed[o] = {}
    BY DEF Init
  <2> QED  BY <2>1, <2>2, <2>3, <2>4 DEF ScanInv
<1>2. (TypeInv /\ OnceInv /\ ScanInv) /\ [Next]_vars => (TypeInv /\ OnceInv /\ ScanInv)'
  BY NextTypeInv, NextOnceInv, NextScanInv
<1>3. ScanInv => HashesSound
  BY DEF ScanInv
<1> QED  BY <1>1, <1>2, <1>3, PTL DEF Spec
=============================================================================
