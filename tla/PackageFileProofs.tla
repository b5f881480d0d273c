------------------------- MODULE PackageFileProofs --------------------------
(***************************************************************************)
(* bpkg_load takes what follows a count for its list whatever it is, and   *)
(* still loads no file that has lost lines, or got entries twice: a list   *)
(* that is short swallows a line that is missed, or leaves a heading where *)
(* no label is, and one that is long leaves an entry there.                *)
(***************************************************************************)
EXTENDS PackagesProofs

(* ------------------------ the loop over the lines ----------------------- *)
Counts == {"nhashes", "nchunks"}
Required == {"ident", "filename"} \cup Counts
Headings == {"hashes", "chunks"}
Line == [label : {"ident", "filename", "size", "entry"} \cup Headings]
          \cup [label : Counts, count : Nat]

\* Lines of a package file (the size is before the lists), of which any may be missing
\* and any entry may be there more than once.
LinesLost(lines) ==
  /\ lines \in Seq(Line)
  /\ \A i, j \in DOMAIN lines :
       /\ lines[i].label = lines[j].label => i = j \/ lines[i].label = "entry"
       /\ lines[i].label \in Counts /\ lines[j].label = "size" => j < i

\* The last line of the list that line i is the count of, and the line read after line i
LastOf(lines, i) == i + 1 + lines[i].count
After(lines, i) ==
  IF lines[i].label \in Counts THEN LastOf(lines, i) + 1 ELSE i + 1

GivesUp(lines, i) ==
  \/ lines[i].label \notin Valued
  \/ /\ lines[i].label \in Counts
     /\ LastOf(lines, i) > Len(lines) \/ lines[i + 1].label # Listed[lines[i].label]

\* From line i on, f is what the loop finds.
Loop(lines, i, f) ==
  \A j \in i .. (Len(lines) + 1) :
    f[j] = IF j > Len(lines) THEN {}
           ELSE IF GivesUp(lines, j) THEN {"malformed"}
           ELSE {lines[j].label} \cup f[After(lines, j)]

LEMMA ListedFacts ==
  /\ DOMAIN Listed = Counts
  /\ Listed["nhashes"] = "hashes" /\ Listed["nchunks"] = "chunks"
  /\ Counts \subseteq Valued
BY DEF Listed, Counts, Valued

LEMMA LineFacts ==
  ASSUME NEW lines, lines \in Seq(Line)
  PROVE  /\ Len(lines) \in Nat /\ DOMAIN lines = 1 .. Len(lines)
         /\ \A i \in DOMAIN lines :
              /\ lines[i].label \in {"ident", "filename", "size", "entry"} \cup Headings \cup Counts
              /\ lines[i].label \in Counts => lines[i].count \in Nat
<1>1. Len(lines) \in Nat /\ DOMAIN lines = 1 .. Len(lines)
  BY LenProperties
<1>2. ASSUME NEW i \in DOMAIN lines
      PROVE  /\ lines[i].label \in {"ident", "filename", "size", "entry"} \cup Headings \cup Counts
             /\ lines[i].label \in Counts => lines[i].count \in Nat
  <2>1. lines[i] \in Line
    BY <1>1, ElementOfSeq
  <2> QED  BY <2>1 DEF Line, Counts, Headings
<1> QED  BY <1>1, <1>2

\* The loop goes on behind what it has read, and no further than the end.
LEMMA AfterFacts ==
  ASSUME NEW lines, lines \in Seq(Line), NEW i \in 1 .. Len(lines), ~ GivesUp(lines, i)
  PROVE  After(lines, i) \in (i + 1) .. (Len(lines) + 1)
<1>1. Len(lines) \in Nat /\ i \in Nat /\ i <= Len(lines)
  BY LineFacts
<1>2. CASE lines[i].label \in Counts
  <2>1. lines[i].count \in Nat /\ LastOf(lines, i) <= Len(lines)
    BY <1>2, LineFacts DEF GivesUp, LastOf
  <2> QED  BY <1>1, <1>2, <2>1 DEF After, LastOf
<1>3. CASE lines[i].label \notin Counts
  BY <1>1, <1>3 DEF After
<1> QED  BY <1>2, <1>3

\* What holds of a line whenever it holds of all later ones holds of every line.
LEMMA BackInduction ==
  ASSUME NEW k \in Nat, NEW S,
         \A i \in 1 .. k : (\A j \in (i + 1) .. k : j \in S) => i \in S
  PROVE  1 .. k \subseteq S
<1> SUFFICES ASSUME NEW x \in 1 .. k, x \notin S PROVE FALSE
  OBVIOUS
<1> DEFINE T == {i \in Nat : i < k /\ k - i \notin S}
<1>1. T \in SUBSET Nat /\ k - x \in T
  OBVIOUS
<1>2. PICK i \in T : \A j \in T : i <= j
  BY <1>1, LeastNumber
<1>3. k - i \in 1 .. k /\ k - i \notin S /\ i \in Nat
  BY <1>2
<1>4. PICK j \in (k - i + 1) .. k : j \notin S
  BY <1>3
<1>5. k - j \in T /\ k - j < i
  BY <1>3, <1>4
<1> QED  BY <1>2, <1>5

\* The loop has a solution: backwards from the end, what it finds from a line on follows
\* from what it finds behind what it reads there.
LEMMA LoopExists ==
  ASSUME NEW lines, lines \in Seq(Line)
  PROVE  \E V : \E f \in [1 .. (Len(lines) + 1) -> V] : Loop(lines, 1, f)
<1> DEFINE D == 1 .. (Len(lines) + 1)
           V == SUBSET ({lines[i].label : i \in DOMAIN lines} \cup {"malformed"})
           T == {i \in Nat : 1 <= i /\ i <= Len(lines) + 2
                               /\ \E f \in [D -> V] : Loop(lines, i, f)}
<1>0. Len(lines) \in Nat /\ DOMAIN lines = 1 .. Len(lines)
  BY LineFacts
<1>1. Len(lines) + 2 \in T
  <2>1. [j \in D |-> {}] \in [D -> V]
    OBVIOUS
  <2>2. (Len(lines) + 2) .. (Len(lines) + 1) = {}
    BY <1>0
  <2>3. Loop(lines, Len(lines) + 2, [j \in D |-> {}])
    BY Zenon, <2>2 DEF Loop
  <2> QED  BY <1>0, <2>1, <2>3
<1>2. PICK i \in T : \A j \in T : i <= j
  <2> HIDE DEF T
  <2>1. T \in SUBSET Nat
    BY DEF T
  <2> QED  BY <1>1, <2>1, LeastNumber
<1>3. PICK f \in [D -> V] : Loop(lines, i, f)
  BY <1>2
<1>4. i \in Nat /\ 1 <= i /\ i <= Len(lines) + 2
  BY <1>2
<1>5. CASE i = 1
  BY <1>3, <1>5
<1>6. CASE i # 1
  <2> DEFINE m == i - 1
             v == IF m > Len(lines) THEN {}
                  ELSE IF GivesUp(lines, m) THEN {"malformed"}
                  ELSE {lines[m].label} \cup f[After(lines, m)]
             g == [f EXCEPT ![m] = v]
  <2>1. m \in D /\ m \in Nat /\ i = m + 1
    BY <1>0, <1>4, <1>6
  <2>2. \A j \in 1 .. Len(lines) : ~ GivesUp(lines, j) => After(lines, j) \in D /\ After(lines, j) > j
    BY <1>0, AfterFacts
  <2>3. v \in V
    <3>1. CASE m > Len(lines) \/ GivesUp(lines, m)
      BY <3>1
    <3>2. CASE ~ (m > Len(lines)) /\ ~ GivesUp(lines, m)
      <4>1. m \in DOMAIN lines /\ f[After(lines, m)] \in V
        BY <1>0, <2>1, <2>2, <3>2
      <4> QED  BY <3>2, <4>1
    <3> QED  BY <3>1, <3>2
  <2> HIDE DEF v
  <2>4. g \in [D -> V] /\ g[m] = v /\ \A j \in D : j # m => g[j] = f[j]
    BY <2>1, <2>3
  <2> HIDE DEF g, m, V
  <2>5. ASSUME NEW j \in m .. (Len(lines) + 1)
        PROVE  g[j] = IF j > Len(lines) THEN {}
                      ELSE IF GivesUp(lines, j) THEN {"malformed"}
                      ELSE {lines[j].label} \cup g[After(lines, j)]
    <3>0. j \in D /\ j >= m
      BY <1>0, <2>1
    <3>1. ~ (j > Len(lines)) /\ ~ GivesUp(lines, j) => g[After(lines, j)] = f[After(lines, j)]
      <4> SUFFICES ASSUME ~ (j > Len(lines)), ~ GivesUp(lines, j)
                   PROVE  g[After(lines, j)] = f[After(lines, j)]
        OBVIOUS
      <4>1. After(lines, j) \in D /\ After(lines, j) > j
        BY <1>0, <2>2, <3>0
      <4> QED  BY <2>1, <2>4, <3>0, <4>1
    <3>2. CASE j = m
      BY <2>4, <3>1, <3>2 DEF v
    <3>3. CASE j # m
      <4>1. j \in i .. (Len(lines) + 1) /\ g[j] = f[j]
        BY <1>0, <2>1, <2>4, <3>0, <3>3
      <4>2. f[j] = IF j > Len(lines) THEN {}
                   ELSE IF GivesUp(lines, j) THEN {"malformed"}
                   ELSE {lines[j].label} \cup f[After(lines, j)]
        BY <1>3, <4>1 DEF Loop
      <4> QED  BY <3>1, <4>1, <4>2
    <3> QED  BY <3>2, <3>3
  <2>6. m \in T
    <3>1. Loop(lines, m, g)
      BY <2>5 DEF Loop
    <3>2. 1 <= m /\ m <= Len(lines) + 2
      BY <1>4, <2>1
    <3> QED  BY <2>1, <2>4, <3>1, <3>2
  <2> QED  BY <1>2, <1>4, <2>1, <2>6
<1> QED  BY <1>5, <1>6

\* Sections is what the loop finds from the first line on.
LEMMA SectionsFacts ==
  ASSUME NEW lines, lines \in Seq(Line)
  PROVE  \E f : Loop(lines, 1, f) /\ Sections(lines) = f[1]
<1> DEFINE D == 1 .. (Len(lines) + 1)
           From(f) == f = [i \in D |->
             IF i > Len(lines) THEN {}
             ELSE IF lines[i].label \notin Valued THEN {"malformed"}
             ELSE IF lines[i].label \notin DOMAIN Listed
             THEN {lines[i].label} \cup f[i + 1]
             ELSE IF i + 1 + lines[i].count > Len(lines) THEN {"malformed"}
             ELSE IF lines[i + 1].label # Listed[lines[i].label] THEN {"malformed"}
             ELSE {lines[i].label} \cup f[i + 2 + lines[i].count]]
<1>0. PICK V : \E f \in [D -> V] : Loop(lines, 1, f)
  BY LoopExists
<1>1. PICK f \in [D -> V] : Loop(lines, 1, f)
  BY <1>0
<1>2. Len(lines) \in Nat /\ DOMAIN lines = 1 .. Len(lines) /\ DOMAIN Listed = Counts
  BY LineFacts, ListedFacts
<1>3. \A i \in 1 .. Len(lines) : lines[i].label \in Counts =>
        /\ LastOf(lines, i) = i + 1 + lines[i].count
        /\ LastOf(lines, i) + 1 = i + 2 + lines[i].count
  <2> TAKE i \in 1 .. Len(lines)
  <2> HAVE lines[i].label \in Counts
  <2>1. lines[i].count \in Nat /\ i \in Nat
    BY <1>2, LineFacts
  <2>2. LastOf(lines, i) = i + 1 + lines[i].count
    BY DEF LastOf
  <2>3. \A a, b \in Nat : (a + 1 + b) + 1 = a + 2 + b
    OBVIOUS
  <2> QED  BY <2>1, <2>2, <2>3
<1>4. ASSUME NEW h, h = [i \in D |-> h[i]]
      PROVE  From(h) <=> Loop(lines, 1, h)
  <2> DEFINE Here(i) ==
             IF i > Len(lines) THEN {}
             ELSE IF lines[i].label \notin Valued THEN {"malformed"}
             ELSE IF lines[i].label \notin Counts
             THEN {lines[i].label} \cup h[i + 1]
             ELSE IF i + 1 + lines[i].count > Len(lines) THEN {"malformed"}
             ELSE IF lines[i + 1].label # Listed[lines[i].label] THEN {"malformed"}
             ELSE {lines[i].label} \cup h[i + 2 + lines[i].count]
             There(i) ==
             IF i > Len(lines) THEN {}
             ELSE IF GivesUp(lines, i) THEN {"malformed"}
             ELSE {lines[i].label} \cup h[After(lines, i)]
  <2>1. ASSUME NEW i \in D PROVE Here(i) = There(i)
    <3>1. CASE i > Len(lines)
      BY <3>1
    <3>2. CASE ~ (i > Len(lines)) /\ lines[i].label \in Counts
      <4>1. i \in 1 .. Len(lines)
        BY <1>2, <3>2
      <4> QED  BY <1>3, <3>2, <4>1 DEF GivesUp, After
    <3>3. CASE ~ (i > Len(lines)) /\ lines[i].label \notin Counts
      BY <3>3 DEF GivesUp, After
    <3> QED  BY <3>1, <3>2, <3>3
  <2>2. From(h) <=> \A i \in D : h[i] = Here(i)
    BY <1>2, <1>4
  <2>3. Loop(lines, 1, h) <=> \A i \in D : h[i] = There(i)
    BY DEF Loop
  <2> HIDE DEF Here, There
  <2> QED  BY <2>1, <2>2, <2>3
<1>5. \E h : From(h)
  <2>1. f = [i \in D |-> f[i]]
    BY <1>1
  <2> QED  BY <1>1, <1>4, <2>1
<1>6. From(CHOOSE h : From(h))
  BY <1>5
<1>7. Sections(lines) = (CHOOSE h : From(h))[1]
  BY DEF Sections
<1> DEFINE F == CHOOSE h : From(h)
<1>8. F = [i \in D |-> F[i]]
  BY <1>6
<1> HIDE DEF F, From
<1> QED  BY <1>4, <1>6, <1>7, <1>8 DEF F

\* R are the lines that are read as labels from line i on: none of them is in a list.
Reads(lines, f, i, R) ==
  /\ R \subseteq i .. Len(lines)
  /\ i \in R \/ i = Len(lines) + 1
  /\ f[i] = {lines[j].label : j \in R}
  /\ \A j \in R : /\ ~ GivesUp(lines, j)
                  /\ After(lines, j) \in R \/ After(lines, j) = Len(lines) + 1
                  /\ \A k \in (j + 1) .. (After(lines, j) - 1) : k \notin R

LEMMA LabelsRead ==
  ASSUME NEW lines, lines \in Seq(Line), NEW f, Loop(lines, 1, f),
         "malformed" \notin f[1]
  PROVE  \E R : Reads(lines, f, 1, R)
<1> DEFINE k == Len(lines) + 1
           S == {i \in 1 .. k : "malformed" \in f[i] \/ \E R : Reads(lines, f, i, R)}
<1>0. Len(lines) \in Nat /\ DOMAIN lines = 1 .. Len(lines)
  BY LineFacts
<1>1. ASSUME NEW i \in 1 .. k, \A j \in (i + 1) .. k : j \in S
      PROVE  i \in S
  <2>0. f[i] = IF i > Len(lines) THEN {}
               ELSE IF GivesUp(lines, i) THEN {"malformed"}
               ELSE {lines[i].label} \cup f[After(lines, i)]
    BY DEF Loop
  <2>1. CASE i > Len(lines)
    <3>1. i = Len(lines) + 1 /\ f[i] = {}
      BY <1>0, <2>0, <2>1
    <3>2. Reads(lines, f, i, {})
      BY <3>1 DEF Reads
    <3> QED  BY <3>2
  <2>2. CASE ~ (i > Len(lines)) /\ GivesUp(lines, i)
    BY <2>0, <2>2
  <2>3. CASE ~ (i > Len(lines)) /\ ~ GivesUp(lines, i)
    <3> DEFINE a == After(lines, i)
    <3>1. i \in 1 .. Len(lines) /\ i \in Nat
      BY <1>0, <2>3
    <3>2. a \in (i + 1) .. k /\ a \in Int
      BY <1>0, <2>3, <3>1, AfterFacts
    <3>3. f[i] = {lines[i].label} \cup f[a]
      BY <2>0, <2>3
    <3>4. a \in S
      BY <1>1, <3>2
    <3>5. CASE "malformed" \in f[a]
      BY <3>3, <3>5
    <3>6. CASE \E Q : Reads(lines, f, a, Q)
      <4>1. PICK Q : Reads(lines, f, a, Q)
        BY <3>6
      <4> DEFINE R == {i} \cup Q
      <4>2. Q \subseteq a .. Len(lines) /\ (a \in Q \/ a = Len(lines) + 1)
        BY <4>1 DEF Reads
      <4>3. f[i] = {lines[j].label : j \in R}
        <5>1. f[a] = {lines[j].label : j \in Q}
          BY <4>1 DEF Reads
        <5> QED  BY <3>3, <5>1
      <4>4. R \subseteq i .. Len(lines) /\ i \in R
        <5>1. \A j \in a .. Len(lines) : j \in i .. Len(lines)
          BY <3>1, <3>2
        <5>2. i \in i .. Len(lines)
          BY <3>1
        <5> QED  BY <4>2, <5>1, <5>2
      <4>5. ASSUME NEW j \in Q
            PROVE  /\ ~ GivesUp(lines, j)
                   /\ After(lines, j) \in R \/ After(lines, j) = Len(lines) + 1
                   /\ \A m \in (j + 1) .. (After(lines, j) - 1) : m \notin R
        <5>1. /\ ~ GivesUp(lines, j)
              /\ After(lines, j) \in Q \/ After(lines, j) = Len(lines) + 1
              /\ \A m \in (j + 1) .. (After(lines, j) - 1) : m \notin Q
          BY <4>1 DEF Reads
        <5>2. j \in Nat /\ i < j
          BY <3>1, <3>2, <4>2
        <5>3. \A m \in (j + 1) .. (After(lines, j) - 1) : m # i
          BY <3>1, <5>2
        <5> QED  BY <5>1, <5>3
      <4>6. /\ a \in R \/ a = Len(lines) + 1
            /\ \A m \in (i + 1) .. (a - 1) : m \notin R
        <5>1. \A m \in (i + 1) .. (a - 1) : m # i /\ m \notin a .. Len(lines)
          BY <3>1, <3>2
        <5> QED  BY <4>2, <5>1
      <4> HIDE DEF R
      <4>7. Reads(lines, f, i, R)
        <5>1. \A j \in R : j = i \/ j \in Q
          BY DEF R
        <5> QED  BY <2>3, <4>3, <4>4, <4>5, <4>6, <5>1 DEF Reads
      <4> QED  BY <4>7
    <3> QED  BY <3>4, <3>5, <3>6
  <2> QED  BY <2>1, <2>2, <2>3
<1>2. 1 .. k \subseteq S
  <2> HIDE DEF S
  <2>1. k \in Nat
    BY <1>0
  <2> HIDE DEF k
  <2> QED  BY <1>1, <2>1, BackInduction
<1>3. 1 \in S
  BY <1>0, <1>2
<1> QED  BY <1>3

\* Lines that are loaded have all four labels, and exactly the entries counted.
THEOREM LoadsWhole ==
  ASSUME NEW lines, LinesLost(lines), Loads(lines)
  PROVE  Whole(lines)
<1>0. lines \in Seq(Line) /\ Len(lines) \in Nat /\ DOMAIN lines = 1 .. Len(lines)
  BY LineFacts DEF LinesLost
<1>1. PICK f : Loop(lines, 1, f) /\ Sections(lines) = f[1]
  BY <1>0, SectionsFacts
<1>2. PICK R : Reads(lines, f, 1, R)
  BY <1>0, <1>1, LabelsRead DEF Loads
<1>3. /\ R \subseteq DOMAIN lines
      /\ f[1] = {lines[j].label : j \in R}
  BY <1>0, <1>2 DEF Reads
<1>4. \A label \in Required : \E j \in R : lines[j].label = label
  BY <1>1, <1>3 DEF Loads, Required, Counts
\* A line with a label that has to be there is read as one.
<1>5. \A j \in DOMAIN lines : lines[j].label \in Required => j \in R
  <2> TAKE j \in DOMAIN lines
  <2> HAVE lines[j].label \in Required
  <2>1. PICK i \in R : lines[i].label = lines[j].label
    BY <1>4
  <2>2. lines[j].label # "entry"
    BY DEF Required, Counts
  <2> QED  BY <1>3, <2>1, <2>2 DEF LinesLost
<1>6. ASSUME NEW i \in DOMAIN lines, lines[i].label \in Counts
      PROVE  LET last == i + 1 + lines[i].count IN
             /\ last <= Len(lines) /\ lines[i + 1].label = Listed[lines[i].label]
             /\ \A j \in i + 2 .. last : lines[j].label = "entry"
             /\ last < Len(lines) => lines[last + 1].label # "entry"
  <2> DEFINE last == LastOf(lines, i)
  <2>1. i \in R /\ ~ GivesUp(lines, i)
    BY <1>2, <1>5, <1>6 DEF Reads, Required
  <2>2. i \in Nat /\ lines[i].count \in Nat /\ last \in Nat /\ last >= i + 1
        /\ last = i + 1 + lines[i].count
    BY <1>0, <1>6, LineFacts DEF LastOf
  <2>3. last <= Len(lines) /\ lines[i + 1].label = Listed[lines[i].label]
    BY <1>0, <1>6, <2>1, <2>2 DEF GivesUp
  <2>4. After(lines, i) = last + 1
    BY <1>6 DEF After
  <2> HIDE DEF last
  <2>5. \A k \in (i + 1) .. last : k \notin R
    BY <1>2, <2>1, <2>2, <2>4 DEF Reads
  <2>6. ASSUME NEW j \in i + 2 .. last PROVE lines[j].label = "entry"
    <3>1. j \in DOMAIN lines /\ j \in (i + 1) .. last /\ j \in Nat /\ j > i + 1
      BY <1>0, <2>2, <2>3
    <3>2. lines[j].label \in {"ident", "filename", "size", "entry"} \cup Headings \cup Counts
      BY <1>0, <3>1, LineFacts
    <3>3. lines[j].label \notin Required
      BY <1>5, <2>5, <3>1
    <3>4. lines[j].label # "size"
      BY <1>6, <3>1, <2>2 DEF LinesLost
    \* The heading of a list is behind its count, which is not in this list.
    <3>5. lines[j].label \notin Headings
      <4> SUFFICES ASSUME lines[j].label \in Headings PROVE FALSE
        OBVIOUS
      <4>1. PICK name \in Counts : Listed[name] = lines[j].label
        BY ListedFacts DEF Headings, Counts
      <4>2. PICK r \in R : lines[r].label = name
        BY <1>4, <4>1 DEF Required
      <4>3. ~ GivesUp(lines, r) /\ r \in DOMAIN lines /\ r \in Nat
        BY <1>0, <1>2, <1>3, <4>2 DEF Reads
      <4>4. lines[r + 1].label = lines[j].label /\ LastOf(lines, r) <= Len(lines)
        <5>1. LastOf(lines, r) \in Int
          BY <1>0, <4>1, <4>2, <4>3, LineFacts DEF LastOf
        <5> QED  BY <1>0, <4>1, <4>2, <4>3, <5>1 DEF GivesUp
      <4>5. r + 1 \in DOMAIN lines
        BY <1>0, <4>1, <4>2, <4>3, <4>4, LineFacts DEF LastOf
      <4>6. r + 1 = j
        <5>1. lines[j].label # "entry"
          BY DEF Headings
        <5> QED  BY <3>1, <4>4, <4>5, <5>1 DEF LinesLost
      <4>7. r \in (i + 1) .. last
        BY <2>2, <3>1, <4>3, <4>6
      <4> QED  BY <2>5, <4>2, <4>7
    <3> QED  BY <3>2, <3>3, <3>4, <3>5 DEF Required, Counts
  <2>7. ASSUME last < Len(lines) PROVE lines[last + 1].label # "entry"
    <3>1. last + 1 \in R
      BY <1>0, <1>2, <2>1, <2>2, <2>4, <2>7 DEF Reads
    <3>2. lines[last + 1].label \in Valued
      BY <1>2, <3>1 DEF Reads, GivesUp
    <3> QED  BY <3>2 DEF Valued
  <2> QED  BY <2>3, <2>2, <2>6, <2>7
<1>7. \A label \in Required : \E i \in DOMAIN lines : lines[i].label = label
  BY <1>3, <1>4
<1> QED  BY <1>6, <1>7, ListedFacts DEF Whole, Required, Counts

(* ------------------------- what is loaded ------------------------------- *)
\* Every file the user may give has lost lines at most, or has entries twice.
FilesLoseLines == \A f \in BpkgFile : LinesLost(Lines[f])

\* What is loaded is a whole package file, whichever lines the files that ADDPACKAGE is
\* given have lost and however often (pkgchk.c:52-168).
THEOREM LoadedWholeAlways ==
  ASSUME FilesLoseLines
  PROVE  Spec => []LoadedWhole
<1>1. Init => LoadedWhole
  BY DEF Init, LoadedWhole
<1>2. ASSUME TypeInv, LoadedWhole, [Next]_vars
      PROVE  LoadedWhole'
  <2>0. made \in Seq(BpkgFile)
    BY <1>2 DEF TypeInv, TypeOK
  <2>1. CASE made' = made
    BY <1>2, <2>1 DEF LoadedWhole
  <2>2. ASSUME NEW f \in BpkgFile, AddPackage(f)
        PROVE  LoadedWhole'
    <3>1. Loads(Lines[f]) /\ made' = Append(made, f)
      BY <2>2 DEF AddPackage
    <3>2. Whole(Lines[f])
      BY <3>1, LoadsWhole DEF FilesLoseLines
    <3>3. /\ Len(made) \in Nat /\ Len(made') = Len(made) + 1
          /\ \A o \in 1 .. Len(made) + 1 :
               made'[o] = IF o \in 1 .. Len(made) THEN made[o] ELSE f
      BY <2>0, <3>1, AppendProperties, LenProperties
    <3> QED  BY <1>2, <3>2, <3>3 DEF LoadedWhole
  <2>3. made' = made \/ \E f \in BpkgFile : AddPackage(f)
    BY <1>2 DEF Next, Command, Step, Scan, vars, tableVars, AppendPackage,
       RemovePackage, ListPackages, ListNext, OpenFile, HashChunk, StoreHash,
       ComputeHashes, VisitNode, Receive, GetPackage, CheckChunk, Serve, Sent,
       FileCheck, CreateFile, WriteChunk, UseFreed, UseNull, UseNoFile
  <2> QED  BY <2>1, <2>2, <2>3
<1>3. TypeInv /\ [Next]_vars => TypeInv'
  BY NextTypeInv
<1> QED  BY <1>1, <1>2, <1>3, InitTypeInv, PTL DEF Spec
=============================================================================
