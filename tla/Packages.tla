------------------------------ MODULE Packages ------------------------------
(***************************************************************************)
(* The packages one process manages: main adds, removes and lists them     *)
(* (btide.c), handlers look them up for REQ and RES (packet.c, peer.c),    *)
(* and all of them compute hashes into the same trees (pkgchk.c).          *)
(*                                                                         *)
(* A step is one operation under packages_mutex, one file operation, one   *)
(* hash stored, one call of a recursive function on a node.  An object is  *)
(* the number of the bpkg_load that allocated it.  The Makefile builds     *)
(* with the address sanitizer: freed memory is not reused, new memory is   *)
(* filled with a byte that is in no hash, and the first step on freed      *)
(* memory, through NULL or on a file that did not open, which sets         *)
(* `fault`, ends the process.                                              *)
(***************************************************************************)
EXTENDS MerkleTree, PackageFile, SequencesExt

CONSTANTS
  Pkg,         \* packages: ident and the data file it names
  NChunks,     \* nchunks of each package
  Hashes,      \* per package, the expected_hash of every node
  Hash,        \* hashes a peer may ask for, in a tree or not
  BpkgFile,    \* files the user may give to ADDPACKAGE
  Describes,   \* the package each of them is about
  Lines,       \* and its lines
  MaxObjects,  \* bound: packages loaded during the life of the process
  Capacity,    \* INITIAL_CAPACITY of the array
  Mistaken,    \* bound: the files bpkg_file_check may fail to open
  Main, Handler,  \* threads
  Incoming,    \* <<t, m>>: the peer of handler t may send m
  Files,       \* packages whose data file exists at the start
  Length,      \* how many chunks lie within each data file at the start
  Seeds,       \* and which of them are right
  NoJob

Thread == Handler \cup {Main}
Object == 1 .. MaxObjects
REQ == [type : {"REQ"}, pkg : Pkg, hash : Hash]
\* A RES stands for what is written to one chunk, which is right then or is not;
\* one that spans chunks is several.
RES == [type : {"RES"}, pkg : Pkg, chunk : Nat, good : BOOLEAN]

\* The chunks under every node of every package
Under == [p \in Pkg |-> [n \in Nodes(NChunks[p]) |-> Covered(NChunks[p], n)]]

ASSUME PackageAssumption ==
  /\ NChunks \in [Pkg -> Nat \ {0}]
  /\ \A p \in Pkg : PowerOfTwo(NChunks[p])
  /\ \A p \in Pkg : HashesOf(NChunks[p], Hashes[p])
  /\ Describes \in [BpkgFile -> Pkg]
  /\ MaxObjects \in Nat /\ Capacity \in Nat \ {0} /\ Mistaken \subseteq Pkg
ASSUME FileAssumption ==
  /\ Files \subseteq Pkg
  /\ Length \in [Pkg -> Nat] /\ Seeds \in [Pkg -> SUBSET Nat]
  /\ \A p \in Pkg : Length[p] <= NChunks[p] /\ Seeds[p] \subseteq 1 .. Length[p]
  /\ \A p \in Pkg \ Files : Length[p] = 0
ASSUME ThreadAssumption ==
  /\ Main \notin Handler
  /\ \A e \in Incoming :
       /\ e = <<e[1], e[2]>> /\ e[1] \in Handler /\ e[2] \in REQ \cup RES
       /\ e[2].type = "RES" => e[2].chunk \in Chunks(NChunks[e[2].pkg])
  /\ NoJob \notin REQ \cup RES

VARIABLES
  table,     \* the array of packages
  made,      \* per object allocated so far, the file it was loaded from
  freed,     \* objects that were destroyed
  computed,  \* per object, the nodes whose computed_hash is the expected one
  exists,    \* data files that exist
  length,    \* per data file, how many chunks lie within it
  right,     \* per data file, the chunks that are right
  once,      \* ghost: per data file, the chunks that were right at some moment
  pc, obj, job,  \* per thread: control, its pointer to a package, its packet
  row,       \* the loop of PACKAGES
  idx, snap, \* per thread, the loop over chunks and final_hash: {idx} when it is
             \* what is expected
  todo,      \* per thread, the calls of a recursive function still to be made
  found,     \* per thread, the nodes in the query that is being built
  settled,   \* ghost: the thread's scan opened the file, and no file was written
             \* during it nor during one that overlaps it on the same tree
  fault

tableVars == <<table, made, freed>>
fileVars  == <<exists, length, right, once>>
scanVars  == <<idx, snap, todo, found>>
vars == <<tableVars, computed, fileVars, pc, obj, job, row, scanVars, settled,
          fault>>

PkgOf(o) == Describes[made[o]]
Count(o) == NChunks[PkgOf(o)]

\* Where a thread uses the package it points to, and where it computes hashes
Using == {"open", "hash", "store", "compute", "visit", "check", "serve", "file",
          "create", "write"}
Scanning(t) == pc[t] \in {"hash", "store", "compute", "visit"}

TypeOK ==
  /\ table \in Seq(Object)
  /\ made \in Seq(BpkgFile) /\ Len(made) <= MaxObjects
  /\ freed \subseteq Object
  /\ computed \in [Object -> SUBSET Nat]
  /\ exists \subseteq Pkg
  /\ length \in [Pkg -> Nat]
  /\ right \in [Pkg -> SUBSET Nat] /\ once \in [Pkg -> SUBSET Nat]
  /\ pc \in [Thread -> Using \cup {"idle", "lookup", "append", "send"}]
  /\ obj \in [Thread -> 0 .. MaxObjects]
  /\ job \in [Thread -> REQ \cup RES \cup {NoJob}]
  /\ row \in Nat
  /\ idx \in [Thread -> Nat]
  /\ snap \in [Thread -> SUBSET Nat]
  /\ todo \in [Thread -> Seq([node : Nat, back : BOOLEAN])]
  /\ found \in [Thread -> SUBSET Nat]
  /\ settled \in [Thread -> BOOLEAN]
  /\ fault \in {"none", "freed", "null", "nofile"}

Init ==
  /\ table = <<>> /\ made = <<>> /\ freed = {}
  /\ computed = [o \in Object |-> {}]
  /\ exists = Files /\ length = Length /\ right = Seeds /\ once = Seeds
  /\ pc = [t \in Thread |-> "idle"] /\ obj = [t \in Thread |-> 0]
  /\ job = [t \in Thread |-> NoJob] /\ row = 0
  /\ idx = [t \in Thread |-> 1] /\ snap = [t \in Thread |-> {}]
  /\ todo = [t \in Thread |-> <<>>] /\ found = [t \in Thread |-> {}]
  /\ settled = [t \in Thread |-> TRUE]
  /\ fault = "none"

\* A thread is at a step, and what it points to is there.
At(t, step) ==
  /\ fault = "none" /\ pc[t] = step
  /\ step \in Using => obj[t] \notin freed
Goto(t, step) == pc' = [pc EXCEPT ![t] = step]

\* Growing a full array locks packages_mutex again: main keeps it for ever.
Growing == pc[Main] = "append" /\ Len(table) = Capacity

(* -------------------------------- main --------------------------------- *)
AddPackage(f) ==
  /\ At(Main, "idle") /\ Loads(Lines[f]) /\ Len(made) < MaxObjects
  /\ made' = Append(made, f)
  /\ obj' = [obj EXCEPT ![Main] = Len(made) + 1]
  /\ Goto(Main, "append")
  /\ UNCHANGED <<table, freed, computed, fileVars, job, row, scanVars, settled,
                 fault>>

AppendPackage ==
  /\ At(Main, "append") /\ ~ Growing
  /\ table' = Append(table, obj[Main])
  /\ obj' = [obj EXCEPT ![Main] = 0]
  /\ Goto(Main, "idle")
  /\ UNCHANGED <<made, freed, computed, fileVars, job, row, scanVars, settled,
                 fault>>

\* The places in the array of objects of package p; the first is the one found.
Managed(p) == {i \in DOMAIN table : PkgOf(table[i]) = p}
FirstIn(S) == {i \in S : \A j \in S : i <= j}

\* Mutant: the size is decremented, but nothing shifted.
MutRemovePackage(p) ==
  /\ At(Main, "idle")
  /\ \E i \in FirstIn(Managed(p)) :
       /\ freed' = freed \cup {table[i]}
       /\ table' = SubSeq(table, 1, Len(table) - 1)
  /\ UNCHANGED <<made, computed, fileVars, pc, obj, job, row, scanVars, settled,
                 fault>>

\* remove_package_array: the first one is destroyed and taken out.
RemovePackage(p) ==
  /\ At(Main, "idle")
  /\ \E i \in FirstIn(Managed(p)) :
       /\ freed' = freed \cup {table[i]}
       /\ table' = RemoveAt(table, i)
  /\ UNCHANGED <<made, computed, fileVars, pc, obj, job, row, scanVars, settled,
                 fault>>

ListPackages ==
  /\ At(Main, "idle") /\ table # <<>>
  /\ row' = 1 /\ obj' = [obj EXCEPT ![Main] = table[1]]
  /\ Goto(Main, "open")
  /\ UNCHANGED <<tableVars, computed, fileVars, job, scanVars, settled, fault>>

\* The query is destroyed.
EndQuery(t) ==
  /\ found' = [found EXCEPT ![t] = {}]
  /\ settled' = [settled EXCEPT ![t] = TRUE]

\* Mutant: the loop variable is not increased.
MutListNext ==
  /\ At(Main, "check")
  /\ \/ /\ row < Len(table)
        /\ obj' = [obj EXCEPT ![Main] = table[row]]
        /\ Goto(Main, "open")
        /\ UNCHANGED row
     \/ /\ row >= Len(table)
        /\ row' = 0 /\ obj' = [obj EXCEPT ![Main] = 0]
        /\ Goto(Main, "idle")
  /\ EndQuery(Main)
  /\ UNCHANGED <<tableVars, computed, fileVars, job, idx, snap, todo, fault>>

\* What it says of the package is printed, and the next one is scanned.
ListNext ==
  /\ At(Main, "check")
  /\ \/ /\ row < Len(table)
        /\ row' = row + 1 /\ obj' = [obj EXCEPT ![Main] = table[row + 1]]
        /\ Goto(Main, "open")
     \/ /\ row >= Len(table)
        /\ row' = 0 /\ obj' = [obj EXCEPT ![Main] = 0]
        /\ Goto(Main, "idle")
  /\ EndQuery(Main)
  /\ UNCHANGED <<tableVars, computed, fileVars, job, idx, snap, todo, fault>>

(* ---------------- bpkg_get_min_completed_hashes, no lock --------------- *)
\* If there is no file, or it does not open, the query is empty and the hashes are
\* what they were.
OpenFile(t) ==
  /\ At(t, "open")
  /\ \/ /\ PkgOf(obj[t]) \in exists
        /\ Goto(t, "hash")
        /\ settled' = [settled EXCEPT ![t] =
             \A u \in Thread \ {t} : Scanning(u) /\ obj[u] = obj[t] => settled[u]]
     \/ /\ Goto(t, "check")
        /\ settled' = [settled EXCEPT ![t] = FALSE]
  /\ UNCHANGED <<tableVars, computed, fileVars, obj, job, row, scanVars, fault>>

\* A chunk that is not wholly in the file ends the scan with an empty query.
HashChunk(t) ==
  /\ At(t, "hash")
  /\ \/ /\ idx[t] <= length[PkgOf(obj[t])]
        /\ snap' = [snap EXCEPT ![t] = {idx[t]} \cap right[PkgOf(obj[t])]]
        /\ Goto(t, "store")
        /\ UNCHANGED idx
     \/ /\ idx[t] > length[PkgOf(obj[t])]
        /\ idx' = [idx EXCEPT ![t] = 1]
        /\ Goto(t, "check")
        /\ UNCHANGED snap
  /\ UNCHANGED <<tableVars, computed, fileVars, obj, job, row, todo, found, settled,
                 fault>>

Call(n) == [node |-> n, back |-> FALSE]

StoreHash(t) ==
  /\ At(t, "store") /\ ChunkNode(Count(obj[t]), idx[t]) # {}
  /\ LET node == ChunkNode(Count(obj[t]), idx[t]) IN
       computed' = [computed EXCEPT ![obj[t]] =
                      (@ \ node) \cup (IF snap[t] = {} THEN {} ELSE node)]
  /\ snap' = [snap EXCEPT ![t] = {}]
  /\ \/ /\ idx[t] < Count(obj[t])
        /\ idx' = [idx EXCEPT ![t] = @ + 1]
        /\ Goto(t, "hash")
        /\ UNCHANGED todo
     \/ /\ idx[t] = Count(obj[t])
        /\ idx' = [idx EXCEPT ![t] = 1]
        /\ todo' = [todo EXCEPT ![t] = <<Call(0)>>]
        /\ Goto(t, "compute")
  /\ UNCHANGED <<tableVars, fileVars, obj, job, row, found, settled, fault>>

Calls(nodes) == [i \in DOMAIN nodes |-> Call(nodes[i])]

\* A call returns to those still to be made, at the end to the step that follows.
Return(t, rest, next, first) ==
  \/ /\ rest # <<>>
     /\ todo' = [todo EXCEPT ![t] = rest]
     /\ UNCHANGED pc
  \/ /\ rest = <<>>
     /\ todo' = [todo EXCEPT ![t] = first]
     /\ Goto(t, next)

\* Mutant: the hash of the left child is concatenated with itself.
MutComputeHashes(t) ==
  /\ At(t, "compute")
  /\ LET n == Head(todo[t]).node  c == Count(obj[t]) IN
     \/ /\ ~ Head(todo[t]).back
        /\ todo' = [todo EXCEPT ![t] =
             Calls(InnerChildren(c, n)) \o <<[node |-> n, back |-> TRUE]>> \o Tail(@)]
        /\ UNCHANGED <<computed, pc>>
     \/ /\ Head(todo[t]).back
        /\ computed' = [computed EXCEPT ![obj[t]] =
             IF Left(n) \in @ THEN @ \cup {n} ELSE @ \ {n}]
        /\ Return(t, Tail(todo[t]), "visit", <<Call(0)>>)
  /\ UNCHANGED <<tableVars, fileVars, obj, job, row, idx, snap, found, settled,
                 fault>>

\* bpkg_compute_hashes: an inner node calls for its children, of which leaves
\* return at once, and combines their hashes when they are back.
ComputeHashes(t) ==
  /\ At(t, "compute")
  /\ LET n == Head(todo[t]).node  c == Count(obj[t]) IN
     \/ /\ ~ Head(todo[t]).back
        /\ todo' = [todo EXCEPT ![t] =
             Calls(InnerChildren(c, n)) \o <<[node |-> n, back |-> TRUE]>> \o Tail(@)]
        /\ UNCHANGED <<computed, pc>>
     \/ /\ Head(todo[t]).back
        /\ computed' = [computed EXCEPT ![obj[t]] =
             IF {Left(n), Right(n)} \subseteq @ THEN @ \cup {n} ELSE @ \ {n}]
        /\ Return(t, Tail(todo[t]), "visit", <<Call(0)>>)
  /\ UNCHANGED <<tableVars, fileVars, obj, job, row, idx, snap, found, settled,
                 fault>>

\* Mutant: no return at a complete node.
MutVisitNode(t) ==
  /\ At(t, "visit")
  /\ LET n == Head(todo[t]).node IN
     /\ found' = [found EXCEPT ![t] = @ \cup ({n} \cap computed[obj[t]])]
     /\ Return(t, Calls(Children(Count(obj[t]), n)) \o Tail(todo[t]), "check", <<>>)
  /\ UNCHANGED <<tableVars, computed, fileVars, obj, job, row, idx, snap, settled,
                 fault>>

\* bpkg_get_min_completed_hashes_helper: a complete node stands for its subtree.
VisitNode(t) ==
  /\ At(t, "visit")
  /\ LET n == Head(todo[t]).node  rest == Tail(todo[t]) IN
     \/ /\ n \in computed[obj[t]]
        /\ found' = [found EXCEPT ![t] = @ \cup {n}]
        /\ Return(t, rest, "check", <<>>)
     \/ /\ n \notin computed[obj[t]]
        /\ Return(t, Calls(Children(Count(obj[t]), n)) \o rest, "check", <<>>)
        /\ UNCHANGED found
  /\ UNCHANGED <<tableVars, computed, fileVars, obj, job, row, idx, snap, settled,
                 fault>>

(* ------------------------------- handlers ------------------------------ *)
Receive(t, m) ==
  /\ At(t, "idle")
  /\ job' = [job EXCEPT ![t] = m]
  /\ Goto(t, "lookup")
  /\ UNCHANGED <<tableVars, computed, fileVars, obj, row, scanVars, settled, fault>>

\* Mutant: a package that is not there is -1, as for connections.
MutGetPackage(t) ==
  /\ At(t, "lookup") /\ ~ Growing
  /\ job' = [job EXCEPT ![t] = NoJob]
  /\ obj' = [obj EXCEPT ![t] = - 1]
  /\ Goto(t, "idle")
  /\ UNCHANGED <<tableVars, computed, fileVars, row, scanVars, settled, fault>>

\* A REQ for a package that is not managed is refused, a RES for one is dropped.
GetPackage(t) ==
  /\ At(t, "lookup") /\ ~ Growing
  /\ \/ /\ Managed(job[t].pkg) = {}
        /\ job' = [job EXCEPT ![t] = NoJob]
        /\ Goto(t, IF job[t].type = "REQ" THEN "send" ELSE "idle")
        /\ UNCHANGED obj
     \/ /\ \E i \in FirstIn(Managed(job[t].pkg)) :
             obj' = [obj EXCEPT ![t] = table[i]]
        /\ Goto(t, IF job[t].type = "REQ" THEN "open" ELSE "file")
        /\ UNCHANGED job
  /\ UNCHANGED <<tableVars, computed, fileVars, row, scanVars, settled, fault>>

\* The node the REQ asks for
Target(t) == LET p == PkgOf(obj[t]) IN FindHash(NChunks[p], Hashes[p], job[t].hash)

\* The packet is done with, and the pointer to the package.
Done(t, step) ==
  /\ job' = [job EXCEPT ![t] = NoJob]
  /\ obj' = [obj EXCEPT ![t] = 0]
  /\ Goto(t, step)

\* What is not complete is refused.
CheckChunk(t) ==
  /\ t # Main /\ At(t, "check") /\ Target(t) # {}
  /\ \/ /\ Target(t) \subseteq computed[obj[t]]
        /\ Goto(t, "serve")
        /\ UNCHANGED <<obj, job>>
     \/ /\ ~ Target(t) \subseteq computed[obj[t]]
        /\ Done(t, "send")
  /\ EndQuery(t)
  /\ UNCHANGED <<tableVars, computed, fileVars, row, idx, snap, todo, fault>>

\* The file is opened; what follows uses its name no more.
Serve(t) ==
  /\ At(t, "serve") /\ PkgOf(obj[t]) \in exists /\ Done(t, "send")
  /\ UNCHANGED <<tableVars, computed, fileVars, row, scanVars, settled, fault>>

\* The last send of the answer, of a refusal or of the pieces of a chunk, returns:
\* the peer has read, or has gone.
Sent(t) ==
  /\ At(t, "send") /\ Done(t, "idle")
  /\ UNCHANGED <<tableVars, computed, fileVars, row, scanVars, settled, fault>>

\* A file that fails to open for reading is taken for one that does not exist.
FileCheck(t) ==
  /\ At(t, "file")
  /\ \/ PkgOf(obj[t]) \in exists /\ Goto(t, "write")
     \/ PkgOf(obj[t]) \notin exists \ Mistaken /\ Goto(t, "create")
  /\ UNCHANGED <<tableVars, computed, fileVars, obj, job, row, scanVars, settled,
                 fault>>

\* Whoever scans a tree of package p meanwhile is disturbed.
Disturb(p) ==
  settled' = [u \in Thread |->
                /\ settled[u]
                /\ (Scanning(u) \/ pc[u] = "check") => PkgOf(obj[u]) # p]

\* The new file has the size the package says: none when it does not say.
CreateFile(t) ==
  /\ At(t, "create")
  /\ LET p == PkgOf(obj[t]) IN
       /\ exists' = exists \cup {p}
       /\ right' = [right EXCEPT ![p] = {}]
       /\ length' = [length EXCEPT ![p] =
            IF "size" \in Sections(Lines[made[obj[t]]]) THEN NChunks[p] ELSE 0]
       /\ Disturb(p)
  /\ Goto(t, "write")
  /\ UNCHANGED <<tableVars, computed, once, obj, job, row, scanVars, fault>>

\* What arrives is written unverified; a write may lengthen the file.
WriteChunk(t) ==
  /\ At(t, "write")
  /\ LET p == PkgOf(obj[t])  k == job[t].chunk IN
       /\ \/ /\ job[t].good
             /\ right' = [right EXCEPT ![p] = @ \cup {k}]
             /\ once' = [once EXCEPT ![p] = @ \cup {k}]
          \/ /\ ~ job[t].good
             /\ right' = [right EXCEPT ![p] = @ \ {k}]
             /\ UNCHANGED once
       /\ length' = [length EXCEPT ![p] = IF k > @ THEN k ELSE @]
       /\ Disturb(p)
  /\ Done(t, "idle")
  /\ UNCHANGED <<tableVars, computed, exists, row, scanVars, fault>>

(* --------------------------- undefined behaviour ----------------------- *)
UseFreed(t) ==
  /\ fault = "none" /\ pc[t] \in Using /\ obj[t] \in freed
  /\ fault' = "freed"
  /\ UNCHANGED <<tableVars, computed, fileVars, pc, obj, job, row, scanVars, settled>>

\* chunk_node before a hash is stored, find_hash's result before it is compared
UseNull(t) ==
  /\ \/ At(t, "store") /\ ChunkNode(Count(obj[t]), idx[t]) = {}
     \/ At(t, "check") /\ t # Main /\ Target(t) = {}
  /\ fault' = "null"
  /\ UNCHANGED <<tableVars, computed, fileVars, pc, obj, job, row, scanVars, settled>>

\* fopen failed, for reasons of the system: fseek, fclose or fileno takes its NULL.
UseNoFile(t) ==
  /\ At(t, "serve") \/ At(t, "create") \/ At(t, "write")
  /\ fault' = "nofile"
  /\ UNCHANGED <<tableVars, computed, fileVars, pc, obj, job, row, scanVars, settled>>

(* ---------------------------- specification ---------------------------- *)
Scan(t) == \/ OpenFile(t) \/ HashChunk(t) \/ StoreHash(t) \/ ComputeHashes(t)
           \/ VisitNode(t)

Command == \/ \E f \in BpkgFile : AddPackage(f)
           \/ \E p \in Pkg : RemovePackage(p)
           \/ ListPackages

Step(t) ==
  \/ Scan(t) \/ UseFreed(t) \/ UseNull(t) \/ UseNoFile(t)
  \/ t = Main /\ (AppendPackage \/ ListNext)
  \/ GetPackage(t) \/ CheckChunk(t) \/ Serve(t)
  \/ FileCheck(t) \/ CreateFile(t) \/ WriteChunk(t)

Next == \/ Command
        \/ \E e \in Incoming : Receive(e[1], e[2])
        \/ \E t \in Thread : Sent(t) \/ Step(t)

\* Threads run; nobody has to type a command, to send a packet or to read one.
Fairness == \A t \in Thread : WF_vars(Step(t))

Spec == Init /\ [][Next]_vars
FairSpec == Spec /\ Fairness

(* ------------------------------ properties ----------------------------- *)
\* The array, the memory and main's local account for every package loaded, each
\* once: nothing destroyed is still listed, nothing is lost (dyn_array.c:223-246).
Holders(o) == {i \in DOMAIN table : table[i] = o}
ArrayAccountsForAll ==
  \A o \in 1 .. Len(made) :
    \/ o \in freed /\ Holders(o) = {}
    \/ o \notin freed /\ pc[Main] = "append" /\ obj[Main] = o /\ Holders(o) = {}
    \/ o \notin freed /\ \E i \in DOMAIN table : Holders(o) = {i}

\* Whoever computed a hash last, from whatever mixture of older and newer hashes and
\* whatever peers write meanwhile: a node that counts as complete covers only chunks
\* each of which was right at some moment, and so does every node of a query
\* (pkgchk.c:432-450, 559; peer.c:177).
CoversOnly(p, chunks) == {n \in Nodes(NChunks[p]) : Under[p][n] \subseteq chunks}
HashesSound ==
  /\ \A o \in 1 .. Len(made) : computed[o] \subseteq CoversOnly(PkgOf(o), once[PkgOf(o)])
  /\ \A t \in Thread : found[t] # {} =>
       LET p == PkgOf(obj[t]) IN found[t] \subseteq CoversOnly(p, once[p])

\* Threads that scan the same tree at the same time do not disturb each other: as
\* long as the file is not written, each ends with exactly the complete nodes
\* computed, and its query is the smallest set that covers them (pkgchk.h:80-84).
Complete(p) == CoversOnly(p, right[p])
ScanEnded(t) == pc[t] = "check" /\ settled[t] /\ obj[t] \notin freed
QuietScanExact ==
  \A t \in Thread : ScanEnded(t) =>
    LET p == PkgOf(obj[t])  o == obj[t] IN
      length[p] = NChunks[p] =>
        /\ computed[o] = Complete(p)
        /\ found[t] = {n \in Complete(p) : n = 0 \/ Parent(n) \notin Complete(p)}

\* The chunks listed under a hash of a managed package are those of its part of
\* the file, in order, whichever of the equal parts is found (pkgchk.c:651-660).
ChunksUnderHashInOrder ==
  \A i \in DOMAIN table :
    LET p == PkgOf(table[i])  c == NChunks[p] IN
      \A n \in Nodes(c) :
        LET listed == ChunkHashes(c, Hashes[p], Hashes[p][n]) IN
          /\ Len(listed) = Cardinality(Under[p][n])
          /\ \A k \in Under[p][n] :
               listed[Cardinality({j \in Under[p][n] : j <= k})]
                 = Hashes[p][Leaf(c, k)]

\* A NULL that is dereferenced is the chunk_node of a package of a single chunk, or
\* the answer to a REQ for a hash that is nowhere in the tree: find_hash misses none
\* that is there, and scans find a leaf for every chunk (pkgchk.c:559, packet.c:97).
Unknown(t) ==
  LET p == PkgOf(obj[t]) IN \A n \in Nodes(NChunks[p]) : Hashes[p][n] # job[t].hash
NullOnlyIfSingleOrUnknown ==
  fault = "null" => \E t \in Thread :
    /\ obj[t] # 0
    /\ Count(obj[t]) = 1 \/ (job[t] \in REQ /\ Unknown(t))

\* What is loaded is a whole package file (pkgchk.c:52-168).
LoadedWhole == \A o \in 1 .. Len(made) : Whole(Lines[made[o]])

\* No thread touches a package that was destroyed (dyn_array.c:7).
NoUseAfterFree == fault # "freed"

\* Commands end, and a packet is dealt with but for what the peer has to read, unless
\* the process has ended or main grows the array, which locks packages_mutex twice
\* (dyn_array.c:189-205): no scan, search or listing goes on for ever.
ThreadsReturn ==
  \A t \in Thread : pc[t] # "idle" ~>
    (pc[t] = "idle" \/ pc[t] = "send" \/ fault # "none" \/ Growing)
=============================================================================
