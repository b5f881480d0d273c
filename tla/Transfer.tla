------------------------------ MODULE Transfer ------------------------------
(***************************************************************************)
(* FETCH, REQ and RES among several processes: main sends REQ (btide.c),   *)
(* a handler checks the chunk in the shared tree and sends it in pieces    *)
(* (generate_and_send_RES), a handler writes the pieces to the data file   *)
(* (the RES branches of peer.c).  Each process has one package, of one     *)
(* file; a block is right when it equals the published file's.             *)
(*                                                                         *)
(* A thread is a pair <<p, q>>: p's handler for peer q, or p's main thread *)
(* when p = q.  The same pair names p's side of the connection and what p  *)
(* sent on it.  A step is one packet received or sent, one chunk read and  *)
(* hashed, one hash stored, or one file operation.  The life of            *)
(* connections, reduced here to Connect and Drop, is in Peer.              *)
(***************************************************************************)
EXTENDS Integers, Sequences

CONSTANTS
  Peer,         \* processes that manage the package
  NChunks,      \* nchunks of the package
  First, Size,  \* per chunk, its offset and its size in blocks
  DataMax,      \* DATA_MAX, the blocks one RES carries
  Buffer,       \* packets the kernel buffers for one direction of a connection
  Dials,        \* <<p, q>>: p's user may CONNECT to q
  Listing,      \* processes whose user may type PACKAGES
  Failing,      \* processes that may end and be started again
  Requests,     \* <<<<p, q>>, k>>: p's user may FETCH chunk k from q
  UserOffsets,  \* offsets users may give with FETCH
  Seeds,        \* per process, the right blocks in its file at the start
  Files,        \* processes whose file exists at the start
  NoJob

Chunk == 1..NChunks
Span(off, len) == off .. (off + len - 1)
Blocks == [k \in Chunk |-> Span(First[k], Size[k])]
Block == UNION {Blocks[k] : k \in Chunk}

Thread  == Peer \X Peer
Own(t)  == t[1]             \* the process the thread belongs to
Main(p) == <<p, p>>         \* its main thread
Back(t) == <<t[2], t[1]>>   \* the handler at the other end of the connection

ASSUME PackageAssumption ==
  /\ NChunks \in Nat \ {0}
  /\ First \in [Chunk -> Nat] /\ Size \in [Chunk -> Nat \ {0}]
  /\ DataMax \in Nat \ {0} /\ Buffer \in Nat \ {0}
ASSUME PeerAssumption ==
  /\ Dials \cup {r[1] : r \in Requests} \subseteq {t \in Thread : t[1] # t[2]}
  /\ \A r \in Requests : r = <<r[1], r[2]>> /\ r[2] \in Chunk
  /\ Listing \subseteq Peer /\ Failing \subseteq Peer
  /\ UserOffsets \subseteq Nat
  /\ Files \subseteq Peer
  /\ Seeds \in [Peer -> SUBSET Block]
  /\ \A p \in Peer \ Files : Seeds[p] = {}

VARIABLES
  have,      \* per process, the right blocks in its file
  files,     \* processes whose file exists
  computed,  \* per process, the chunks whose node has computed = expected hash
  conns,     \* <<p, q>>: p's connection to q is up
  chan,      \* per direction <<p, q>>, packets sent by p and not yet read by q
  pc,        \* per thread, where it is
  job,       \* per thread, the packet it is handling (REQ: what is left of it)
  idx, snap  \* per thread, the loop over chunks: index, and final_hash: {idx}
             \* when the chunk read hashes to what is expected, {} otherwise

vars == <<have, files, computed, conns, chan, pc, job, idx, snap>>
scanVars == <<idx, snap>>

REQ == [type : {"REQ"}, chunk : Chunk, off : Nat, len : Nat]
RES == [type : {"RES"}, off : Nat, len : Nat, right : SUBSET Block]
ERR == [type |-> "ERR"]
Packet == REQ \cup RES \cup {ERR}
ThreadPC == {"idle", "hash", "store", "check", "refuse", "send", "file",
             "create", "write"}

ASSUME JobAssumption == NoJob \notin Packet

TypeOK ==
  /\ have \in [Peer -> SUBSET Block]
  /\ files \subseteq Peer
  /\ computed \in [Peer -> SUBSET Chunk]
  /\ conns \subseteq Thread
  /\ chan \in [Thread -> Seq(Packet)]
  /\ pc \in [Thread -> ThreadPC]
  /\ job \in [Thread -> REQ \cup RES \cup {NoJob}]
  /\ idx \in [Thread -> Chunk]
  /\ snap \in [Thread -> SUBSET Chunk]

Init ==
  /\ have = Seeds /\ files = Files
  /\ computed = [p \in Peer |-> {}]
  /\ conns = {} /\ chan = [c \in Thread |-> <<>>]
  /\ pc = [t \in Thread |-> "idle"] /\ job = [t \in Thread |-> NoJob]
  /\ idx = [t \in Thread |-> 1] /\ snap = [t \in Thread |-> {}]

(* --------------------------- sockets and channels ---------------------- *)
\* A send blocks while the connection's buffers are full.
CanSend(t) == t \in conns => Len(chan[t]) < Buffer

\* A send on a connection that is gone fails; no caller looks at that.
Send(t, m) ==
  chan' = IF t \in conns THEN [chan EXCEPT ![t] = Append(@, m)] ELSE chan

\* The two processes connect: new handlers on an empty connection.
Connect(t) ==
  /\ pc[Main(Own(t))] = "idle" /\ t \notin conns
  /\ \A u \in {t, Back(t)} : pc[u] = "idle" /\ chan[u] = <<>>
  /\ conns' = conns \cup {t, Back(t)}
  /\ UNCHANGED <<have, files, computed, chan, pc, job, scanVars>>

\* The connection is lost; of the packets on their way some first ones arrive.
Drop(t) ==
  /\ t \in conns
  /\ conns' = conns \ {t, Back(t)}
  /\ \E m \in 0..Len(chan[t]), n \in 0..Len(chan[Back(t)]) :
       chan' = [chan EXCEPT ![t] = SubSeq(@, 1, m),
                            ![Back(t)] = SubSeq(@, 1, n)]
  /\ UNCHANGED <<have, files, computed, pc, job, scanVars>>

\* p, all of whose connections are lost, ends at any point of its threads and is
\* started again: the file is what is left.
Restart(p) ==
  /\ \A t \in conns : Own(t) # p
  /\ chan' = [t \in Thread |-> IF Own(Back(t)) = p THEN <<>> ELSE chan[t]]
  /\ computed' = [computed EXCEPT ![p] = {}]
  /\ pc' = [t \in Thread |-> IF Own(t) = p THEN "idle" ELSE pc[t]]
  /\ job' = [t \in Thread |-> IF Own(t) = p THEN NoJob ELSE job[t]]
  /\ idx' = [t \in Thread |-> IF Own(t) = p THEN 1 ELSE idx[t]]
  /\ snap' = [t \in Thread |-> IF Own(t) = p THEN {} ELSE snap[t]]
  /\ UNCHANGED <<have, files, conns>>

(* -------------------------------- main --------------------------------- *)
\* The offset the user gives replaces that of the chunk; the length does not.
Fetch(t, k) ==
  /\ pc[Main(Own(t))] = "idle" /\ t \in conns /\ CanSend(t)
  /\ \E off \in {First[k]} \cup UserOffsets :
       Send(t, [type |-> "REQ", chunk |-> k, off |-> off, len |-> Size[k]])
  /\ UNCHANGED <<have, files, computed, conns, pc, job, scanVars>>

\* PACKAGES computes the hashes of a file that exists, as a REQ does.
Packages(p) ==
  /\ pc[Main(p)] = "idle" /\ p \in files
  /\ pc' = [pc EXCEPT ![Main(p)] = "hash"]
  /\ UNCHANGED <<have, files, computed, conns, chan, job, scanVars>>

(* ------------- bpkg_get_min_completed_hashes, without a lock ------------ *)
Hash(t) ==
  /\ pc[t] = "hash"
  /\ snap' = [snap EXCEPT ![t] =
                {k \in {idx[t]} : Blocks[k] \subseteq have[Own(t)]}]
  /\ pc' = [pc EXCEPT ![t] = "store"]
  /\ UNCHANGED <<have, files, computed, conns, chan, job, idx>>

\* Mutant: the loop over the chunks goes one too far.
MutStore(t) ==
  /\ pc[t] = "store"
  /\ computed' = [computed EXCEPT ![Own(t)] = (@ \ {idx[t]}) \cup snap[t]]
  /\ snap' = [snap EXCEPT ![t] = {}]
  /\ idx' = [idx EXCEPT ![t] = @ + 1]
  /\ pc' = [pc EXCEPT ![t] = IF idx[t] <= NChunks THEN "hash" ELSE "check"]
  /\ UNCHANGED <<have, files, conns, chan, job>>

Store(t) ==
  /\ pc[t] = "store"
  /\ computed' = [computed EXCEPT ![Own(t)] = (@ \ {idx[t]}) \cup snap[t]]
  /\ snap' = [snap EXCEPT ![t] = {}]
  /\ \/ /\ idx[t] < NChunks
        /\ idx' = [idx EXCEPT ![t] = @ + 1]
        /\ pc' = [pc EXCEPT ![t] = "hash"]
     \/ /\ idx[t] = NChunks
        /\ idx' = [idx EXCEPT ![t] = 1]
        /\ pc' = [pc EXCEPT ![t] = IF t = Main(Own(t)) THEN "idle" ELSE "check"]
  /\ UNCHANGED <<have, files, conns, chan, job>>

(* ------------------------------- handlers ------------------------------ *)
Receive(t, type) ==
  /\ pc[t] = "idle" /\ chan[Back(t)] # <<>> /\ Head(chan[Back(t)]).type = type
  /\ chan' = [chan EXCEPT ![Back(t)] = Tail(@)]

\* Mutant: the old hashes are compared.
MutReceiveREQ(t) ==
  /\ Receive(t, "REQ")
  /\ job' = [job EXCEPT ![t] = Head(chan[Back(t)])]
  /\ pc' = [pc EXCEPT ![t] = "check"]
  /\ UNCHANGED <<have, files, computed, conns, scanVars>>

\* Without a file nothing is computed and the old hashes are compared.
ReceiveREQ(t) ==
  /\ Receive(t, "REQ")
  /\ job' = [job EXCEPT ![t] = Head(chan[Back(t)])]
  /\ pc' = [pc EXCEPT ![t] = IF Own(t) \in files THEN "hash" ELSE "check"]
  /\ UNCHANGED <<have, files, computed, conns, scanVars>>

\* Mutant: the hashes are computed and not compared.
MutCheck(t) ==
  /\ pc[t] = "check"
  /\ pc' = [pc EXCEPT ![t] = "send"]
  /\ UNCHANGED <<have, files, computed, conns, chan, job, scanVars>>

Check(t) ==
  /\ pc[t] = "check"
  /\ pc' = [pc EXCEPT ![t] =
              IF job[t].chunk \in computed[Own(t)] THEN "send" ELSE "refuse"]
  /\ UNCHANGED <<have, files, computed, conns, chan, job, scanVars>>

\* Mutant: the return without the RES that carries the error.
MutRefuse(t) ==
  /\ pc[t] = "refuse"
  /\ pc' = [pc EXCEPT ![t] = "idle"]
  /\ job' = [job EXCEPT ![t] = NoJob]
  /\ UNCHANGED <<have, files, computed, conns, chan, scanVars>>

Refuse(t) ==
  /\ pc[t] = "refuse" /\ CanSend(t)
  /\ Send(t, ERR)
  /\ pc' = [pc EXCEPT ![t] = "idle"]
  /\ job' = [job EXCEPT ![t] = NoJob]
  /\ UNCHANGED <<have, files, computed, conns, scanVars>>

Piece(len) == IF len > DataMax THEN DataMax ELSE len

\* The blocks are read from the file again, at the offset of the REQ.
SendRES(t) ==
  /\ pc[t] = "send" /\ CanSend(t)
  /\ LET r == job[t]  n == Piece(r.len) IN
       /\ Send(t, [type |-> "RES", off |-> r.off, len |-> n,
                      right |-> Span(r.off, n) \cap have[Own(t)]])
       /\ \/ /\ r.len > n
             /\ job' = [job EXCEPT ![t].off = @ + n, ![t].len = @ - n]
             /\ UNCHANGED pc
          \/ /\ r.len = n
             /\ job' = [job EXCEPT ![t] = NoJob]
             /\ pc' = [pc EXCEPT ![t] = "idle"]
  /\ UNCHANGED <<have, files, computed, conns, scanVars>>

ReceiveRES(t) ==
  /\ Receive(t, "RES")
  /\ job' = [job EXCEPT ![t] = Head(chan[Back(t)])]
  /\ pc' = [pc EXCEPT ![t] = "file"]
  /\ UNCHANGED <<have, files, computed, conns, scanVars>>

ReceiveERR(t) ==
  /\ Receive(t, "ERR")
  /\ UNCHANGED <<have, files, computed, conns, pc, job, scanVars>>

\* Mutant: the file is created for every RES.
MutFileCheck(t) ==
  /\ pc[t] = "file"
  /\ pc' = [pc EXCEPT ![t] = "create"]
  /\ UNCHANGED <<have, files, computed, conns, chan, job, scanVars>>

\* bpkg_file_check, first half: can the file be opened?
FileCheck(t) ==
  /\ pc[t] = "file"
  /\ pc' = [pc EXCEPT ![t] = IF Own(t) \in files THEN "write" ELSE "create"]
  /\ UNCHANGED <<have, files, computed, conns, chan, job, scanVars>>

\* bpkg_file_check, second half: fopen "w" empties whatever is there by now.
Create(t) ==
  /\ pc[t] = "create"
  /\ files' = files \cup {Own(t)}
  /\ have' = [have EXCEPT ![Own(t)] = {}]
  /\ pc' = [pc EXCEPT ![t] = "write"]
  /\ UNCHANGED <<computed, conns, chan, job, scanVars>>

\* What arrived is written, whether or not it is what was asked for.
Write(t) ==
  /\ pc[t] = "write"
  /\ LET m == job[t] IN
       have' = [have EXCEPT ![Own(t)] = (@ \ Span(m.off, m.len)) \cup m.right]
  /\ job' = [job EXCEPT ![t] = NoJob]
  /\ pc' = [pc EXCEPT ![t] = "idle"]
  /\ UNCHANGED <<files, computed, conns, chan, scanVars>>

(* ---------------------------- specification ---------------------------- *)
Scan(t) == Hash(t) \/ Store(t)

Handler(t) ==
  \/ Scan(t) \/ ReceiveREQ(t) \/ Check(t) \/ Refuse(t)
  \/ SendRES(t) \/ ReceiveRES(t) \/ ReceiveERR(t)
  \/ FileCheck(t) \/ Create(t) \/ Write(t)

User == \/ \E r \in Requests : Fetch(r[1], r[2])
        \/ \E t \in Dials : Connect(t)
        \/ \E p \in Listing : Packages(p)

Network == \/ \E t \in Thread : Drop(t)
           \/ \E p \in Failing : Restart(p)

Next == User \/ Network \/ \E t \in Thread : Handler(t)

\* Threads run; users, connections and processes may do as they please.
Fairness == \A t \in Thread : WF_vars(Handler(t))

Spec == Init /\ [][Next]_vars
FairSpec == Spec /\ Fairness

(* ------------------------------ properties ----------------------------- *)
IsRES(m) == m # NoJob /\ m.type = "RES"
WholeRES(m) == m.right = Span(m.off, m.len)

\* Whatever a process sends, and whatever a handler is about to write, is the
\* published bytes of the place it is for: the check of the chunk, the later
\* reads of the file and the offset of the REQ fit together (packet.c:94-110).
ServedBlocksRight ==
  /\ \A c \in Thread : \A i \in DOMAIN chan[c] :
       IsRES(chan[c][i]) => WholeRES(chan[c][i])
  /\ \A t \in Thread : IsRES(job[t]) => WholeRES(job[t])

\* A right block in a file stays right, whatever other handlers of the process
\* receive, and through lost connections and restarts (peer.c:163-178).
RightBlocksStay == [][\A p \in Peer : have[p] \subseteq have'[p]]_vars

\* The transfer implements the swarm: a process obtains a block only from one
\* that it asked and that holds the whole chunk, and loses none.
Sw == INSTANCE Swarm WITH have <- have
SwarmSpec == Sw!Spec

\* A FETCH is answered: the chunk becomes complete at the process that asked, or
\* an ERR is on its way, unless the connection is lost (btide.c:388-391).
Asked(t, k) == \E i \in DOMAIN chan[t] : LET m == chan[t][i] IN
                 m.type = "REQ" /\ m.chunk = k
Refused(t) == \E i \in DOMAIN chan[Back(t)] : chan[Back(t)][i] = ERR
FetchAnswered ==
  \A r \in Requests : LET t == r[1]  k == r[2] IN
    Asked(t, k) ~>
      (Blocks[k] \subseteq have[Own(t)] \/ Refused(t) \/ t \notin conns)

\* A chunk that the process asked holds from the start arrives, unless the
\* connection is lost: no other scan, restart or refusal takes it back while the
\* REQ waits (packet.c:89-105).
FetchServed ==
  \A r \in Requests : LET t == r[1]  k == r[2] IN
    Blocks[k] \subseteq Seeds[Own(Back(t))] =>
      (Asked(t, k) ~> (Blocks[k] \subseteq have[Own(t)] \/ t \notin conns))
=============================================================================
