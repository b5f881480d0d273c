------------------------ MODULE ConnectionArrayProofs ------------------------
(***************************************************************************)
(* What the operations of the array of connections return, for every array *)
(* and every key.                                                          *)
(***************************************************************************)
EXTENDS ConnectionArray, FiniteSetTheorems, SequenceTheorems, TLAPS

\* set_connected keeps the array well formed and raises no flag but that of the
\* first entry with the key.
LEMMA SetConnectedType ==
  ASSUME NEW E, NEW A, NEW F, NEW t \in Seq(Entry(E, A, F)), NEW a
  PROVE  /\ SetConnected(t, a) \in Seq(Entry(E, A, F))
         /\ Len(SetConnected(t, a)) = Len(t)
         /\ \A i \in 1..Len(t) :
              /\ SetConnected(t, a)[i].fd = t[i].fd
              /\ SetConnected(t, a)[i].addr = t[i].addr
              /\ SetConnected(t, a)[i].conn = t[i].conn
              /\ SetConnected(t, a)[i].connected <=>
                   t[i].connected \/ i \in FirstWith(t, a)
<1> DEFINE s == SetConnected(t, a)
<1>1. /\ Len(t) \in Nat /\ DOMAIN t = 1..Len(t)
      /\ \A i \in 1..Len(t) : t[i] \in Entry(E, A, F)
  BY LenProperties, ElementOfSeq
<1>2. s = [i \in 1..Len(t) |->
             IF i \in FirstWith(t, a) THEN [t[i] EXCEPT !.connected = TRUE]
             ELSE t[i]]
  BY <1>1 DEF SetConnected
<1>3. \A i \in 1..Len(t) : s[i] \in Entry(E, A, F)
  BY <1>1, <1>2 DEF Entry
<1>4. s \in Seq(Entry(E, A, F)) /\ Len(s) = Len(t)
  BY <1>1, <1>2, <1>3, SeqDef, LenProperties
<1>5. \A i \in 1..Len(t) :
        /\ s[i].fd = t[i].fd /\ s[i].addr = t[i].addr /\ s[i].conn = t[i].conn
        /\ s[i].connected <=> t[i].connected \/ i \in FirstWith(t, a)
  BY <1>1, <1>2 DEF Entry
<1> QED  BY <1>4, <1>5

\* set_disconnected lowers no flag but that of the first entry with the key.
LEMMA SetDisconnectedType ==
  ASSUME NEW E, NEW A, NEW F, NEW t \in Seq(Entry(E, A, F)), NEW a
  PROVE  /\ SetDisconnected(t, a) \in Seq(Entry(E, A, F))
         /\ Len(SetDisconnected(t, a)) = Len(t)
         /\ \A i \in 1..Len(t) :
              /\ SetDisconnected(t, a)[i].fd = t[i].fd
              /\ SetDisconnected(t, a)[i].addr = t[i].addr
              /\ SetDisconnected(t, a)[i].conn = t[i].conn
              /\ SetDisconnected(t, a)[i].connected <=>
                   t[i].connected /\ i \notin FirstWith(t, a)
<1> DEFINE s == SetDisconnected(t, a)
<1>1. /\ Len(t) \in Nat /\ DOMAIN t = 1..Len(t)
      /\ \A i \in 1..Len(t) : t[i] \in Entry(E, A, F)
  BY LenProperties, ElementOfSeq
<1>2. s = [i \in 1..Len(t) |->
             IF i \in FirstWith(t, a) THEN [t[i] EXCEPT !.connected = FALSE]
             ELSE t[i]]
  BY <1>1 DEF SetDisconnected
<1>3. \A i \in 1..Len(t) : s[i] \in Entry(E, A, F)
  BY <1>1, <1>2 DEF Entry
<1>4. s \in Seq(Entry(E, A, F)) /\ Len(s) = Len(t)
  BY <1>1, <1>2, <1>3, SeqDef, LenProperties
<1>5. \A i \in 1..Len(t) :
        /\ s[i].fd = t[i].fd /\ s[i].addr = t[i].addr /\ s[i].conn = t[i].conn
        /\ s[i].connected <=> t[i].connected /\ i \notin FirstWith(t, a)
  BY <1>1, <1>2 DEF Entry
<1> QED  BY <1>4, <1>5

\* remove_connection_array keeps the array well formed, and every entry of the
\* result is an entry of the array: at its place or one place further.
LEMMA RemoveEntryType ==
  ASSUME NEW E, NEW A, NEW F, NEW t \in Seq(Entry(E, A, F)), NEW a
  PROVE  /\ RemoveEntry(t, a) \in Seq(Entry(E, A, F))
         /\ Len(RemoveEntry(t, a)) \in 0..Len(t)
         /\ FirstWith(t, a) # {} =>
              /\ Len(RemoveEntry(t, a)) = Len(t) - 1
              /\ \A j \in 1..(Len(t) - 1) :
                   RemoveEntry(t, a)[j] =
                     IF \E i \in 1..j : t[i].addr = a THEN t[j + 1] ELSE t[j]
<1>1. /\ Len(t) \in Nat /\ DOMAIN t = 1..Len(t)
      /\ \A i \in 1..Len(t) : t[i] \in Entry(E, A, F)
  BY LenProperties, ElementOfSeq
<1>2. CASE FirstWith(t, a) = {}
  BY <1>1, <1>2 DEF RemoveEntry
<1>3. CASE FirstWith(t, a) # {}
  <2> DEFINE r == RemoveEntry(t, a)
  <2>1. Len(t) - 1 \in Nat
    BY <1>1, <1>3 DEF FirstWith
  <2>2. r = [j \in 1..(Len(t) - 1) |->
               IF \E i \in 1..j : t[i].addr = a THEN t[j + 1] ELSE t[j]]
    BY <1>3 DEF RemoveEntry
  <2>3. \A j \in 1..(Len(t) - 1) : r[j] \in Entry(E, A, F)
    <3> TAKE j \in 1..(Len(t) - 1)
    <3>1. j \in 1..Len(t) /\ j + 1 \in 1..Len(t)
      BY <1>1
    <3> QED  BY <1>1, <2>2, <3>1
  <2>4. r \in Seq(Entry(E, A, F)) /\ Len(r) = Len(t) - 1
    BY <2>1, <2>2, <2>3, SeqDef, LenProperties
  <2> QED  BY <1>1, <2>1, <2>2, <2>4
<1> QED  BY <1>2, <1>3

\* What remove_connection_array leaves are entries of the array, each at most
\* once: connections that had one entry each still have at most one.
LEMMA RemoveEntryDistinct ==
  ASSUME NEW E, NEW A, NEW F, NEW t \in Seq(Entry(E, A, F)), NEW a,
         \A i, j \in 1..Len(t) : t[i].conn = t[j].conn => i = j
  PROVE  LET r == RemoveEntry(t, a) IN
         /\ \A i, j \in 1..Len(r) : r[i].conn = r[j].conn => i = j
         /\ \A j \in 1..Len(r) : \E k \in 1..Len(t) : r[j] = t[k]
<1> DEFINE r == RemoveEntry(t, a)
<1>1. Len(t) \in Nat /\ Len(r) \in Nat
  BY RemoveEntryType, LenProperties
<1>2. CASE FirstWith(t, a) = {}
  BY <1>1, <1>2 DEF RemoveEntry
<1>3. CASE FirstWith(t, a) # {}
  <2> DEFINE past(j) == \E i \in 1..j : t[i].addr = a
  <2>1. /\ Len(r) = Len(t) - 1
        /\ \A j \in 1..Len(r) : r[j] = IF past(j) THEN t[j + 1] ELSE t[j]
    <3>1. /\ Len(RemoveEntry(t, a)) = Len(t) - 1
          /\ \A j \in 1..(Len(t) - 1) :
               RemoveEntry(t, a)[j] =
                 IF \E i \in 1..j : t[i].addr = a THEN t[j + 1] ELSE t[j]
      BY <1>3, RemoveEntryType
    <3> QED  BY <3>1
  <2>2. \A j, k \in Nat : j <= k /\ past(j) => past(k)
    OBVIOUS
  <2>3. \A j \in 1..Len(r) : j \in 1..Len(t) /\ j + 1 \in 1..Len(t)
    BY <1>1, <2>1
  <2>4. ASSUME NEW i \in 1..Len(r), NEW j \in 1..Len(r), i < j
        PROVE  r[i].conn # r[j].conn
    <3>1. CASE past(i)
      <4>1. r[i] = t[i + 1] /\ r[j] = t[j + 1]
        BY <1>1, <2>1, <2>2, <2>4, <3>1
      <4> QED  BY <1>1, <2>3, <2>4, <4>1
    <3>2. CASE ~past(i)
      <4>1. r[i] = t[i] /\ (r[j] = t[j] \/ r[j] = t[j + 1])
        BY <2>1, <3>2
      <4> QED  BY <1>1, <2>3, <2>4, <4>1
    <3> QED  BY <3>1, <3>2
  <2>5. \A i, j \in 1..Len(r) : r[i].conn = r[j].conn => i = j
    BY <1>1, <2>4
  <2> HIDE DEF r
  <2> QED  BY <2>1, <2>3, <2>5 DEF r
<1> QED  BY <1>2, <1>3

\* When no two entries have the same key, none with key a is left once
\* remove_connection_array has looked for it.
LEMMA RemoveEntryGone ==
  ASSUME NEW E, NEW A, NEW F, NEW t \in Seq(Entry(E, A, F)), NEW a,
         \A i, j \in 1..Len(t) : t[i].addr = t[j].addr => i = j
  PROVE  \A j \in 1..Len(RemoveEntry(t, a)) : RemoveEntry(t, a)[j].addr # a
<1>1. Len(t) \in Nat /\ DOMAIN t = 1..Len(t)
  BY LenProperties
<1>2. CASE FirstWith(t, a) = {}
  <2>1. \A i \in 1..Len(t) : t[i].addr # a
    BY <1>1, <1>2 DEF FirstWith
  <2> QED  BY <1>2, <2>1 DEF RemoveEntry
<1>3. CASE FirstWith(t, a) # {}
  <2>1. Len(RemoveEntry(t, a)) = Len(t) - 1
    BY <1>3, RemoveEntryType
  <2> SUFFICES ASSUME NEW j \in 1..(Len(t) - 1)
               PROVE  RemoveEntry(t, a)[j].addr # a
    BY <2>1
  <2>2. j \in 1..Len(t) /\ j + 1 \in 1..Len(t)
    BY <1>1
  <2>3. ASSUME NEW i \in 1..j, t[i].addr = a PROVE t[j + 1].addr # a
    BY <1>1, <2>2, <2>3
  <2>4. ASSUME \A i \in 1..j : t[i].addr # a PROVE t[j].addr # a
    BY <1>1, <2>2, <2>4
  <2>5. RemoveEntry(t, a)[j] = IF \E i \in 1..j : t[i].addr = a THEN t[j + 1] ELSE t[j]
    BY <1>3, RemoveEntryType
  <2> QED  BY <2>3, <2>4, <2>5
<1> QED  BY <1>2, <1>3

\* The number of connected entries is a natural number.
LEMMA TrueSizeType ==
  ASSUME NEW E, NEW A, NEW F, NEW t \in Seq(Entry(E, A, F))
  PROVE  IsFiniteSet(ConnectedAt(t)) /\ TrueSize(t) \in Nat
<1>1. Len(t) \in Nat /\ ConnectedAt(t) \in SUBSET (1..Len(t))
  BY LenProperties DEF ConnectedAt
<1>2. IsFiniteSet(1..Len(t))
  BY <1>1, FS_Interval
<1>3. IsFiniteSet(ConnectedAt(t))
  BY <1>1, <1>2, FS_Subset
<1> QED  BY <1>3, FS_CardinalityType DEF TrueSize

\* Appending an entry raises the number of connected entries by at most one,
\* and not at all when the entry is not connected.
LEMMA TrueSizeAppend ==
  ASSUME NEW E, NEW A, NEW F, NEW t \in Seq(Entry(E, A, F)),
         NEW e \in Entry(E, A, F)
  PROVE  /\ TrueSize(Append(t, e)) <= TrueSize(t) + 1
         /\ ~e.connected => TrueSize(Append(t, e)) = TrueSize(t)
<1> DEFINE u == Append(t, e)
<1>1. Len(t) \in Nat /\ DOMAIN t = 1..Len(t)
  BY LenProperties
<1>2. /\ DOMAIN u = 1..(Len(t) + 1)
      /\ \A i \in 1..Len(t) : u[i] = t[i]
      /\ u[Len(t) + 1] = e
  BY <1>1
<1>3. IsFiniteSet(ConnectedAt(t)) /\ TrueSize(t) \in Nat
  BY TrueSizeType
<1>4. CASE e.connected
  <2>1. ConnectedAt(u) = ConnectedAt(t) \cup {Len(t) + 1}
    BY <1>1, <1>2, <1>4 DEF ConnectedAt
  <2>2. Len(t) + 1 \notin ConnectedAt(t)
    BY <1>1 DEF ConnectedAt
  <2>3. Cardinality(ConnectedAt(u)) = Cardinality(ConnectedAt(t)) + 1
    BY <1>3, <2>1, <2>2, FS_AddElement
  <2> QED  BY <1>3, <1>4, <2>3 DEF TrueSize
<1>5. CASE ~e.connected
  <2>1. ConnectedAt(u) = ConnectedAt(t)
    BY <1>1, <1>2, <1>5 DEF ConnectedAt
  <2> QED  BY <1>3, <2>1 DEF TrueSize
<1> QED  BY <1>4, <1>5

\* set_disconnected never raises the number of connected entries.
LEMMA TrueSizeDisconnect ==
  ASSUME NEW E, NEW A, NEW F, NEW t \in Seq(Entry(E, A, F)), NEW a
  PROVE  TrueSize(SetDisconnected(t, a)) <= TrueSize(t)
<1> DEFINE s == SetDisconnected(t, a)
<1>1. DOMAIN t = 1..Len(t) /\ DOMAIN s = 1..Len(t)
  BY SetDisconnectedType, LenProperties
<1>2. \A i \in 1..Len(t) : s[i].connected => t[i].connected
  BY SetDisconnectedType
<1>3. ConnectedAt(s) \in SUBSET ConnectedAt(t)
  BY <1>1, <1>2 DEF ConnectedAt
<1> QED  BY <1>3, TrueSizeType, FS_Subset DEF TrueSize

\* remove_connection_array never raises the number of connected entries.
LEMMA TrueSizeRemove ==
  ASSUME NEW E, NEW A, NEW F, NEW t \in Seq(Entry(E, A, F)), NEW a
  PROVE  TrueSize(RemoveEntry(t, a)) <= TrueSize(t)
<1> DEFINE r == RemoveEntry(t, a)
<1>1. IsFiniteSet(ConnectedAt(t)) /\ TrueSize(t) \in Nat
  BY TrueSizeType
<1>2. CASE FirstWith(t, a) = {}
  BY <1>1, <1>2 DEF RemoveEntry
<1>3. CASE FirstWith(t, a) # {}
  <2> DEFINE past(j) == \E i \in 1..j : t[i].addr = a
             f == [j \in ConnectedAt(r) |-> IF past(j) THEN j + 1 ELSE j]
  <2>1. /\ Len(t) \in Nat /\ DOMAIN t = 1..Len(t)
        /\ DOMAIN r = 1..(Len(t) - 1)
        /\ \A j \in 1..(Len(t) - 1) : r[j] = IF past(j) THEN t[j + 1] ELSE t[j]
    <3>1. r \in Seq(Entry(E, A, F)) /\ Len(r) = Len(t) - 1
      BY <1>3, RemoveEntryType
    <3> QED  BY <1>3, <3>1, RemoveEntryType, LenProperties
  <2>2. \A j, k \in Nat : j <= k /\ past(j) => past(k)
    OBVIOUS
  <2>3. \A j \in ConnectedAt(r) : j \in Nat /\ f[j] \in ConnectedAt(t)
    BY <2>1 DEF ConnectedAt
  <2>4. \A j, k \in ConnectedAt(r) : f[j] = f[k] => j = k
    <3> SUFFICES ASSUME NEW j \in ConnectedAt(r), NEW k \in ConnectedAt(r),
                        f[j] = f[k], j # k
                 PROVE  FALSE
      OBVIOUS
    <3>1. j \in Nat /\ k \in Nat
      BY <2>3
    <3>2. CASE j < k
      BY <2>2, <3>1, <3>2
    <3>3. CASE k < j
      BY <2>2, <3>1, <3>3
    <3> QED  BY <3>1, <3>2, <3>3
  <2>5. f \in Injection(ConnectedAt(r), ConnectedAt(t))
    BY <2>3, <2>4 DEF Injection, IsInjective
  <2> QED  BY <1>1, <2>5, FS_Injection DEF TrueSize
<1> QED  BY <1>2, <1>3
=============================================================================
