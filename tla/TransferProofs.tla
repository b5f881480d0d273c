--------------------------- MODULE TransferProofs ---------------------------
(***************************************************************************)
(* Theorems about Transfer, for every package, set of processes and        *)
(* capacity of the buffers.                                                *)
(***************************************************************************)
EXTENDS Transfer, SequenceTheorems, TLAPS

(* ------------------------ the packets of a channel --------------------- *)
Items(sq) == {sq[i] : i \in 1..Len(sq)}

\* A sent packet is the only new one on a channel.
LEMMA ItemsAppend ==
  ASSUME NEW S, NEW sq \in Seq(S), NEW m \in S
  PROVE  Items(Append(sq, m)) = Items(sq) \cup {m}
BY AppendProperties DEF Items

\* A packet read is one of the channel's, and reading adds none.
LEMMA ItemsTail ==
  ASSUME NEW S, NEW sq \in Seq(S), sq # <<>>
  PROVE  Head(sq) \in Items(sq) /\ Items(Tail(sq)) \subseteq Items(sq)
<1>1. Len(sq) \in Nat \ {0} /\ Head(sq) = sq[1]
  BY EmptySeq, LenProperties
<1>2. Len(Tail(sq)) = Len(sq) - 1 /\ \A i \in 1..Len(Tail(sq)) : Tail(sq)[i] = sq[i + 1]
  BY HeadTailProperties
<1> QED  BY <1>1, <1>2 DEF Items

\* Losing the end of a channel adds none.
LEMMA ItemsPrefix ==
  ASSUME NEW S, NEW sq \in Seq(S), NEW n \in 0..Len(sq)
  PROVE  /\ SubSeq(sq, 1, n) \in Seq(S)
         /\ Items(SubSeq(sq, 1, n)) \subseteq Items(sq)
<1>1. Len(sq) \in Nat /\ \A i \in 1..Len(sq) : sq[i] \in S
  BY LenProperties, ElementOfSeq
<1>2. n \in Int /\ \A i \in 1..n : sq[i] \in S
  BY <1>1
<1>3. /\ SubSeq(sq, 1, n) \in Seq(S)
      /\ Len(SubSeq(sq, 1, n)) = IF 1 <= n THEN n - 1 + 1 ELSE 0
      /\ \A i \in 1..(n - 1 + 1) : SubSeq(sq, 1, n)[i] = sq[1 + i - 1]
  BY <1>2, SubSeqProperties
<1>4. Len(SubSeq(sq, 1, n)) = n /\ \A i \in 1..n : SubSeq(sq, 1, n)[i] = sq[i]
  BY <1>1, <1>3
<1> QED  BY <1>1, <1>3, <1>4 DEF Items

(* ------------------------------- typing -------------------------------- *)
USE PackageAssumption, PeerAssumption

\* A handler handles the kind of packet its program point is for.
LocalsOK ==
  \A t \in Thread :
    /\ pc[t] \in {"check", "refuse", "send"} => job[t] \in REQ
    /\ pc[t] \in {"hash", "store"} /\ t # Main(Own(t)) => job[t] \in REQ
    /\ pc[t] \in {"file", "create", "write"} => job[t] \in RES

\* A connection has two ends.
TwoEnds == \A t \in conns : t # Back(t) /\ Back(t) # Back(Back(t))

TypeInv == TypeOK /\ LocalsOK /\ TwoEnds

\* Threads, their processes and the other ends of their connections.
LEMMA ThreadFacts ==
  /\ \A t \in Thread : Own(t) \in Peer /\ Back(t) \in Thread /\ Back(Back(t)) = t
  /\ \A p \in Peer : Main(p) \in Thread /\ Own(Main(p)) = p
BY DEF Thread, Own, Back, Main

\* A packet has one of three types, told by its field.
LEMMA PacketTypes ==
  /\ \A m \in Packet : m.type = "REQ" => m \in REQ
  /\ \A m \in Packet : m.type = "RES" => m \in RES
  /\ \A m \in REQ : m.type = "REQ"
  /\ \A m \in RES : m.type = "RES"
BY DEF Packet, REQ, RES, ERR

\* Sending puts at most one packet on one channel.
LEMMA SendFacts ==
  ASSUME TypeOK, NEW t \in Thread, NEW m \in Packet, Send(t, m)
  PROVE  /\ chan' \in [Thread -> Seq(Packet)]
         /\ \A u \in Thread : Items(chan'[u]) \subseteq
              Items(chan[u]) \cup {x \in {m} : u = t}
<1>1. chan \in [Thread -> Seq(Packet)]
  BY DEF TypeOK
<1>2. CASE chan' = chan
  BY <1>1, <1>2
<1>3. CASE chan' = [chan EXCEPT ![t] = Append(chan[t], m)]
  <2>1. /\ Append(chan[t], m) \in Seq(Packet)
        /\ Items(Append(chan[t], m)) = Items(chan[t]) \cup {m}
    BY <1>1, AppendProperties, ItemsAppend
  <2> QED  BY <1>1, <1>3, <2>1
<1> QED  BY <1>2, <1>3 DEF Send

\* Receiving takes the first packet of the channel that comes in.
LEMMA ReceiveFacts ==
  ASSUME TypeOK, NEW t \in Thread, NEW type, Receive(t, type)
  PROVE  /\ chan' \in [Thread -> Seq(Packet)]
         /\ Head(chan[Back(t)]) \in Packet
         /\ Head(chan[Back(t)]) \in Items(chan[Back(t)])
         /\ Head(chan[Back(t)]).type = type
         /\ \A u \in Thread : Items(chan'[u]) \subseteq Items(chan[u])
<1> DEFINE b == Back(t)
<1>1. chan \in [Thread -> Seq(Packet)] /\ b \in Thread
  BY ThreadFacts DEF TypeOK
<1>2. /\ chan[b] # <<>> /\ Head(chan[b]).type = type
      /\ chan' = [chan EXCEPT ![b] = Tail(chan[b])]
  BY DEF Receive
<1> HIDE DEF b
<1>3. /\ Head(chan[b]) \in Packet /\ Tail(chan[b]) \in Seq(Packet)
      /\ Head(chan[b]) \in Items(chan[b])
      /\ Items(Tail(chan[b])) \subseteq Items(chan[b])
  BY <1>1, <1>2, HeadTailProperties, ItemsTail
<1>4. \A u \in Thread : Items(chan'[u]) \subseteq Items(chan[u])
  BY <1>1, <1>2, <1>3
<1>5. chan' \in [Thread -> Seq(Packet)]
  BY <1>1, <1>2, <1>3
<1> QED  BY <1>2, <1>3, <1>4, <1>5 DEF b

\* A lost connection keeps a first part of each of its channels.
LEMMA DropFacts ==
  ASSUME TypeOK, TwoEnds, NEW t \in Thread, Drop(t)
  PROVE  /\ chan' \in [Thread -> Seq(Packet)]
         /\ \A u \in Thread : Items(chan'[u]) \subseteq Items(chan[u])
<1> DEFINE b == Back(t)
<1>1. chan \in [Thread -> Seq(Packet)] /\ b \in Thread
  BY ThreadFacts DEF TypeOK
<1>2. PICK m \in 0..Len(chan[t]), n \in 0..Len(chan[b]) :
        chan' = [chan EXCEPT ![t] = SubSeq(@, 1, m), ![b] = SubSeq(@, 1, n)]
  BY DEF Drop
<1> HIDE DEF b
<1>3. /\ SubSeq(chan[t], 1, m) \in Seq(Packet)
      /\ Items(SubSeq(chan[t], 1, m)) \subseteq Items(chan[t])
  BY <1>1, ItemsPrefix
<1>4. /\ SubSeq(chan[b], 1, n) \in Seq(Packet)
      /\ Items(SubSeq(chan[b], 1, n)) \subseteq Items(chan[b])
  BY <1>1, ItemsPrefix
<1>5. b # t
  BY DEF TwoEnds, Drop, b
<1> QED  BY <1>1, <1>2, <1>3, <1>4, <1>5

\* A restarted process reads none of the packets that were sent to it before.
LEMMA RestartFacts ==
  ASSUME TypeOK, NEW p \in Peer, Restart(p)
  PROVE  /\ chan' \in [Thread -> Seq(Packet)]
         /\ \A u \in Thread : Items(chan'[u]) \subseteq Items(chan[u])
<1>1. chan \in [Thread -> Seq(Packet)] /\ <<>> \in Seq(Packet) /\ Items(<<>>) = {}
  BY DEF TypeOK, Items
<1>2. chan' = [t \in Thread |-> IF Own(Back(t)) = p THEN <<>> ELSE chan[t]]
  BY DEF Restart
<1> QED  BY <1>1, <1>2

LEMMA InitTypeInv == Init => TypeInv
BY DEF Init, TypeInv, TypeOK, LocalsOK, TwoEnds, Chunk, ThreadPC

LEMMA NextTypeInv == TypeInv /\ [Next]_vars => TypeInv'
<1> SUFFICES ASSUME TypeInv, [Next]_vars PROVE TypeInv'
  OBVIOUS
<1>0. TypeOK /\ LocalsOK /\ TwoEnds
  BY DEF TypeInv
<1>1. ASSUME NEW r \in Requests, Fetch(r[1], r[2]) PROVE TypeInv'
  <2>1. r[1] \in Thread /\ r[2] \in Chunk
    OBVIOUS
  <2>2. PICK off \in {First[r[2]]} \cup UserOffsets :
          Send(r[1], [type |-> "REQ", chunk |-> r[2], off |-> off,
                      len |-> Size[r[2]]])
    BY <1>1 DEF Fetch
  <2>3. [type |-> "REQ", chunk |-> r[2], off |-> off, len |-> Size[r[2]]] \in Packet
    BY <2>1 DEF Packet, REQ
  <2>4. chan' \in [Thread -> Seq(Packet)]
    BY <1>0, <2>1, <2>2, <2>3, SendFacts
  <2> QED  BY <1>0, <1>1, <2>4 DEF Fetch, TypeInv, TypeOK, LocalsOK, TwoEnds, scanVars
<1>2. ASSUME NEW t \in Dials, Connect(t) PROVE TypeInv'
  <2>1. t \in Thread /\ Back(t) \in Thread /\ Back(Back(t)) = t /\ t # Back(t)
    BY ThreadFacts DEF Back
  <2> QED  BY <1>0, <1>2, <2>1 DEF Connect, TypeInv, TypeOK, LocalsOK, TwoEnds, scanVars
<1>3. ASSUME NEW p \in Listing, Packages(p) PROVE TypeInv'
  <2>1. Main(p) \in Thread /\ Own(Main(p)) = p
    BY ThreadFacts
  <2> QED  BY <1>0, <1>3, <2>1
           DEF Packages, TypeInv, TypeOK, LocalsOK, TwoEnds, ThreadPC, scanVars
<1>4. ASSUME NEW t \in Thread, Drop(t) PROVE TypeInv'
  <2>1. chan' \in [Thread -> Seq(Packet)]
    BY <1>0, <1>4, DropFacts
  <2> QED  BY <1>0, <1>4, <2>1 DEF Drop, TypeInv, TypeOK, LocalsOK, TwoEnds, scanVars
<1>5. ASSUME NEW p \in Failing, Restart(p) PROVE TypeInv'
  <2>1. chan' \in [Thread -> Seq(Packet)]
    BY <1>0, <1>5, RestartFacts
  <2>2. 1 \in Chunk
    BY DEF Chunk
  <2>3. LocalsOK'
    BY <1>0, <1>5 DEF Restart, LocalsOK
  <2> QED  BY <1>0, <1>5, <2>1, <2>2, <2>3
           DEF Restart, TypeInv, TypeOK, TwoEnds, ThreadPC
<1>6. ASSUME NEW t \in Thread, Hash(t) PROVE TypeInv'
  <2>1. {k \in {idx[t]} : Blocks[k] \subseteq have[Own(t)]} \in SUBSET Chunk
    BY <1>0 DEF TypeOK
  <2> QED  BY <1>0, <1>6, <2>1
           DEF Hash, TypeInv, TypeOK, LocalsOK, TwoEnds, ThreadPC
<1>7. ASSUME NEW t \in Thread, Store(t) PROVE TypeInv'
  <2>1. computed' \in [Peer -> SUBSET Chunk] /\ snap' \in [Thread -> SUBSET Chunk]
    BY <1>0, <1>7, ThreadFacts DEF Store, TypeOK
  <2>2. idx' \in [Thread -> Chunk]
    BY <1>0, <1>7 DEF Store, TypeOK, Chunk
  <2>3. \E new \in {"hash", "idle", "check"} :
          /\ pc' = [pc EXCEPT ![t] = new]
          /\ new # "hash" => (new = "idle") = (t = Main(Own(t)))
    BY <1>7 DEF Store
  <2>4. pc' \in [Thread -> ThreadPC] /\ LocalsOK'
    BY <1>0, <1>7, <2>3 DEF Store, TypeOK, LocalsOK, ThreadPC
  <2> QED  BY <1>0, <1>7, <2>1, <2>2, <2>4 DEF Store, TypeInv, TypeOK, TwoEnds
<1>8. ASSUME NEW t \in Thread, ReceiveREQ(t) PROVE TypeInv'
  <2>1. chan' \in [Thread -> Seq(Packet)] /\ Head(chan[Back(t)]) \in REQ
    BY <1>0, <1>8, ReceiveFacts, PacketTypes DEF ReceiveREQ
  <2> QED  BY <1>0, <1>8, <2>1
           DEF ReceiveREQ, TypeInv, TypeOK, LocalsOK, TwoEnds, ThreadPC, scanVars
<1>9. ASSUME NEW t \in Thread, Check(t) PROVE TypeInv'
  BY <1>0, <1>9 DEF Check, TypeInv, TypeOK, LocalsOK, TwoEnds, ThreadPC, scanVars
<1>10. ASSUME NEW t \in Thread, Refuse(t) PROVE TypeInv'
  <2>1. chan' \in [Thread -> Seq(Packet)]
    BY <1>0, <1>10, SendFacts DEF Refuse, Packet
  <2> QED  BY <1>0, <1>10, <2>1
           DEF Refuse, TypeInv, TypeOK, LocalsOK, TwoEnds, ThreadPC, scanVars
<1>11. ASSUME NEW t \in Thread, SendRES(t) PROVE TypeInv'
  <2> DEFINE n == Piece(job[t].len)
             res == [type |-> "RES", off |-> job[t].off, len |-> n,
                     right |-> Span(job[t].off, n) \cap have[Own(t)]]
  <2>1. job[t] \in REQ /\ job[t].len \in Nat /\ job[t].off \in Nat
    BY <1>0, <1>11 DEF SendRES, LocalsOK, REQ
  <2>2. n \in Nat
    BY <2>1 DEF Piece
  <2>3. have[Own(t)] \in SUBSET Block
    BY <1>0, ThreadFacts DEF TypeOK
  <2>4. res \in Packet
    <3> HIDE DEF n
    <3>1. Span(job[t].off, n) \cap have[Own(t)] \in SUBSET Block
      BY <2>3
    <3> QED  BY <2>1, <2>2, <3>1 DEF Packet, RES
  <2>5. Send(t, res)
    BY <1>11 DEF SendRES
  <2>6. chan' \in [Thread -> Seq(Packet)]
    BY <1>0, <2>4, <2>5, SendFacts
  <2>7. CASE /\ job[t].len > n
             /\ job' = [job EXCEPT ![t].off = @ + n, ![t].len = @ - n] /\ pc' = pc
    <3> HIDE DEF n
    <3>1. [job[t] EXCEPT !.off = @ + n, !.len = @ - n] \in REQ
      <4>1. job[t].off + n \in Nat /\ job[t].len - n \in Nat
        BY <2>1, <2>2, <2>7
      <4> QED  BY <2>1, <4>1 DEF REQ
    <3>2. job' = [job EXCEPT ![t] = [job[t] EXCEPT !.off = @ + n, !.len = @ - n]]
      BY <2>7
    <3>3. job' \in [Thread -> REQ \cup RES \cup {NoJob}] /\ job'[t] \in REQ
      BY <1>0, <3>1, <3>2 DEF TypeOK
    <3>4. \A u \in Thread : u # t => job'[u] = job[u]
      BY <1>0, <3>2 DEF TypeOK
    <3>5. pc[t] = "send" /\ UNCHANGED <<have, files, computed, conns, scanVars>>
      BY <1>11 DEF SendRES
    <3>6. LocalsOK'
      BY <1>0, <2>7, <3>3, <3>4, <3>5 DEF LocalsOK
    <3> QED  BY <1>0, <2>6, <2>7, <3>3, <3>5, <3>6
             DEF TypeInv, TypeOK, TwoEnds, scanVars
  <2>8. CASE job' = [job EXCEPT ![t] = NoJob] /\ pc' = [pc EXCEPT ![t] = "idle"]
    BY <1>0, <1>11, <2>6, <2>8
       DEF SendRES, TypeInv, TypeOK, LocalsOK, TwoEnds, ThreadPC, scanVars
  <2> QED  BY <1>11, <2>7, <2>8 DEF SendRES
<1>12. ASSUME NEW t \in Thread, ReceiveRES(t) PROVE TypeInv'
  <2>1. chan' \in [Thread -> Seq(Packet)] /\ Head(chan[Back(t)]) \in RES
    BY <1>0, <1>12, ReceiveFacts, PacketTypes DEF ReceiveRES
  <2> QED  BY <1>0, <1>12, <2>1
           DEF ReceiveRES, TypeInv, TypeOK, LocalsOK, TwoEnds, ThreadPC, scanVars
<1>13. ASSUME NEW t \in Thread, ReceiveERR(t) PROVE TypeInv'
  <2>1. chan' \in [Thread -> Seq(Packet)]
    BY <1>0, <1>13, ReceiveFacts DEF ReceiveERR
  <2> QED  BY <1>0, <1>13, <2>1
           DEF ReceiveERR, TypeInv, TypeOK, LocalsOK, TwoEnds, scanVars
<1>14. ASSUME NEW t \in Thread, FileCheck(t) PROVE TypeInv'
  BY <1>0, <1>14
     DEF FileCheck, TypeInv, TypeOK, LocalsOK, TwoEnds, ThreadPC, scanVars
<1>15. ASSUME NEW t \in Thread, Create(t) PROVE TypeInv'
  BY <1>0, <1>15, ThreadFacts
     DEF Create, TypeInv, TypeOK, LocalsOK, TwoEnds, ThreadPC, scanVars
<1>16. ASSUME NEW t \in Thread, Write(t) PROVE TypeInv'
  <2>1. job[t] \in RES /\ job[t].right \in SUBSET Block
    BY <1>0, <1>16 DEF Write, LocalsOK, RES
  <2> QED  BY <1>0, <1>16, <2>1, ThreadFacts
           DEF Write, TypeInv, TypeOK, LocalsOK, TwoEnds, ThreadPC, scanVars
<1>17. CASE UNCHANGED vars
  BY <1>0, <1>17 DEF vars, TypeInv, TypeOK, LocalsOK, TwoEnds
<1> QED
  BY <1>1, <1>2, <1>3, <1>4, <1>5, <1>6, <1>7, <1>8, <1>9, <1>10, <1>11, <1>12,
     <1>13, <1>14, <1>15, <1>16, <1>17
     DEF Next, User, Network, Handler, Scan

\* Every variable keeps its type, and every handler handles the kind of packet
\* its program point is for, for every package and every set of processes.
THEOREM TypeCorrect == Spec => []TypeOK
<1>1. Spec => []TypeInv
  BY InitTypeInv, NextTypeInv, PTL DEF Spec
<1>2. TypeInv => TypeOK
  BY DEF TypeInv
<1> QED  BY <1>1, <1>2, PTL

(* ------------------------------ integrity ------------------------------ *)
\* Users give no offset, and a process that has no file at the start fetches from one
\* other: of the two ways in which the code can lose or spread wrong blocks, neither is
\* open.
Careful ==
  /\ UserOffsets = {}
  /\ \A q, r \in Requests :
       q[1][1] = r[1][1] /\ q[1][1] \notin Files => q[1] = r[1]

\* A packet on channel c is good: a REQ asks for a part of a chunk that may be
\* asked for, a RES carries right blocks of such a chunk, all of which the
\* process that sent it holds, when the files hold h.
GoodREQ(c, m) ==
  <<c, m.chunk>> \in Requests /\ Span(m.off, m.len) \subseteq Blocks[m.chunk]
GoodRES(h, c, m) ==
  /\ WholeRES(m)
  /\ \E k \in Chunk : /\ <<Back(c), k>> \in Requests
                      /\ m.right \subseteq Blocks[k]
                      /\ Blocks[k] \subseteq h[Own(c)]
Good(h, c, m) == (m \in REQ => GoodREQ(c, m)) /\ (m \in RES => GoodRES(h, c, m))

ChanGood == \A c \in Thread : \A m \in Items(chan[c]) : Good(have, c, m)
JobGood  == \A t \in Thread : Good(have, Back(t), job[t])

\* What a thread has found complete is complete.
FoundRight ==
  /\ \A p \in Peer : \A k \in computed[p] : Blocks[k] \subseteq have[p]
  /\ \A t \in Thread : \A k \in snap[t] : Blocks[k] \subseteq have[Own(t)]
  /\ \A t \in Thread :
       pc[t] = "send" => Blocks[job[t].chunk] \subseteq have[Own(t)]

\* Files are created once.
FilesOnce ==
  /\ Files \subseteq files
  /\ \A p \in Peer \ files : have[p] = {}
  /\ \A t \in Thread : pc[t] = "create" => Own(t) \notin files
  /\ \A t \in Thread : pc[t] = "write" => Own(t) \in files

IntegrityInv == ChanGood /\ JobGood /\ FoundRight /\ FilesOnce

HaveGrows == \A p \in Peer : have[p] \subseteq have'[p]

\* The only step that changes a file's blocks writes right ones of a chunk that
\* the process at the other end holds.
LEMMA WriteFacts ==
  ASSUME TypeInv, IntegrityInv, NEW t \in Thread, Write(t)
  PROVE  \E k \in Chunk : \E S \in SUBSET Blocks[k] :
           /\ <<t, k>> \in Requests
           /\ Blocks[k] \subseteq have[Own(Back(t))]
           /\ have' = [have EXCEPT ![Own(t)] = @ \cup S]
<1>1. job[t] \in RES /\ Back(t) \in Thread /\ Back(Back(t)) = t
  BY ThreadFacts DEF Write, TypeInv, LocalsOK
<1>2. GoodRES(have, Back(t), job[t])
  BY <1>1 DEF IntegrityInv, JobGood, Good
<1>3. PICK k \in Chunk : /\ <<t, k>> \in Requests
                         /\ job[t].right \subseteq Blocks[k]
                         /\ Blocks[k] \subseteq have[Own(Back(t))]
  BY <1>1, <1>2 DEF GoodRES
<1>4. have' = [have EXCEPT ![Own(t)] =
                 (have[Own(t)] \ Span(job[t].off, job[t].len)) \cup job[t].right]
  BY DEF Write
<1>5. job[t].right = Span(job[t].off, job[t].len)
  BY <1>2 DEF GoodRES, WholeRES
<1>6. (have[Own(t)] \ Span(job[t].off, job[t].len)) \cup job[t].right
        = have[Own(t)] \cup job[t].right
  BY <1>5
<1>7. have' = [have EXCEPT ![Own(t)] = @ \cup job[t].right]
  BY <1>4, <1>6
<1> QED  BY <1>3, <1>7

\* A file is created only while there is none, so that nothing is emptied.
LEMMA CreateFacts ==
  ASSUME TypeInv, IntegrityInv, NEW t \in Thread, Create(t)
  PROVE  have' = have
<1>1. have \in [Peer -> SUBSET Block] /\ Own(t) \in Peer
  BY ThreadFacts DEF TypeInv, TypeOK
<1>2. have[Own(t)] = {} /\ have' = [have EXCEPT ![Own(t)] = {}]
  BY <1>1 DEF Create, IntegrityInv, FilesOnce
<1> QED  BY <1>1, <1>2

\* Every step is a step of the swarm or leaves the blocks alone.
LEMMA SwarmStep ==
  ASSUME TypeInv, IntegrityInv, [Next]_vars
  PROVE  [Sw!Next]_have
<1>1. ASSUME NEW t \in Thread, Write(t) PROVE [Sw!Next]_have
  <2>1. PICK k \in Chunk : \E S \in SUBSET Blocks[k] :
           /\ <<t, k>> \in Requests
           /\ Blocks[k] \subseteq have[Own(Back(t))]
           /\ have' = [have EXCEPT ![Own(t)] = @ \cup S]
    BY <1>1, WriteFacts
  <2>2. Sw!Copy(t[1], t[2], k)
    BY <2>1 DEF Sw!Copy, Own, Back
  <2>3. <<t, k>>[1] = t /\ <<t, k>>[2] = k
    OBVIOUS
  <2> QED  BY <2>1, <2>2, <2>3 DEF Sw!Next
<1>2. ASSUME NEW t \in Thread, Create(t) PROVE have' = have
  BY <1>2, CreateFacts
<1>3. ASSUME ~\E t \in Thread : Write(t) \/ Create(t) PROVE have' = have
  BY <1>3 DEF Next, vars, User, Network, Handler, Scan, Fetch, Connect, Packages,
              Drop, Restart, Hash, Store, ReceiveREQ, Check, Refuse, SendRES,
              ReceiveRES, ReceiveERR, FileCheck
<1> QED  BY <1>1, <1>2, <1>3

LEMMA HaveStep ==
  ASSUME TypeInv, IntegrityInv, [Next]_vars
  PROVE  HaveGrows
<1>1. have \in [Peer -> SUBSET Block]
  BY DEF TypeInv, TypeOK
<1>2. ASSUME NEW p, NEW q, NEW k, Sw!Copy(p, q, k) PROVE HaveGrows
  BY <1>1, <1>2 DEF Sw!Copy, HaveGrows
<1> QED  BY <1>2, SwarmStep DEF Sw!Next, HaveGrows

\* A good packet stays good while files only gain right blocks.
LEMMA GoodStays ==
  ASSUME HaveGrows, NEW c \in Thread, NEW m, Good(have, c, m)
  PROVE  Good(have', c, m)
BY ThreadFacts DEF HaveGrows, Good, GoodRES

\* So the channels stay good if what a step adds to them is good.
LEMMA ChanStep ==
  ASSUME IntegrityInv, HaveGrows,
         \A c \in Thread : \A m \in Items(chan'[c]) :
           m \in Items(chan[c]) \/ Good(have', c, m)
  PROVE  ChanGood'
<1> SUFFICES ASSUME NEW c \in Thread, NEW m \in Items(chan[c])'
             PROVE  Good(have', c, m)
  BY DEF ChanGood
<1>1. m \in Items(chan[c]) => Good(have, c, m)
  BY DEF IntegrityInv, ChanGood
<1>2. m \in Items(chan'[c])
  BY DEF Items
<1> QED  BY <1>1, <1>2, GoodStays

\* And the packets being handled do if a packet taken is good.
LEMMA JobStep ==
  ASSUME IntegrityInv, HaveGrows,
         \A t \in Thread : job'[t] = job[t] \/ Good(have', Back(t), job'[t])
  PROVE  JobGood'
<1> SUFFICES ASSUME NEW t \in Thread PROVE Good(have', Back(t), job'[t])
  BY DEF JobGood
<1>1. Good(have, Back(t), job[t]) /\ Back(t) \in Thread
  BY ThreadFacts DEF IntegrityInv, JobGood
<1> QED  BY <1>1, GoodStays

\* What was found complete stays so if what a step newly finds is.
LEMMA FoundStep ==
  ASSUME IntegrityInv, HaveGrows,
         \A p \in Peer : \A k \in computed'[p] :
           k \in computed[p] \/ Blocks[k] \subseteq have'[p],
         \A t \in Thread : \A k \in snap'[t] :
           k \in snap[t] \/ Blocks[k] \subseteq have'[Own(t)],
         \A t \in Thread : pc'[t] = "send" =>
           \/ pc[t] = "send" /\ job'[t].chunk = job[t].chunk
           \/ Blocks[job'[t].chunk] \subseteq have'[Own(t)]
  PROVE  FoundRight'
BY ThreadFacts DEF IntegrityInv, FoundRight, HaveGrows

\* Nothing is found and no packet is on its way at the start.
LEMMA InitIntegrity == Init => IntegrityInv
<1> SUFFICES ASSUME Init PROVE IntegrityInv
  OBVIOUS
<1>1. ChanGood
  BY DEF Init, ChanGood, Items
<1>2. JobGood
  BY JobAssumption DEF Init, JobGood, Good, Packet
<1>3. FoundRight
  BY ThreadFacts DEF Init, FoundRight
<1>4. FilesOnce
  BY DEF Init, FilesOnce
<1> QED  BY <1>1, <1>2, <1>3, <1>4 DEF IntegrityInv

\* Every step keeps the invariant, if users are careful.
LEMMA NextIntegrity ==
  ASSUME Careful, TypeInv, IntegrityInv, [Next]_vars
  PROVE  IntegrityInv'
<1>0. TypeOK /\ LocalsOK /\ TwoEnds /\ FoundRight /\ FilesOnce /\ HaveGrows
  BY HaveStep DEF TypeInv, IntegrityInv
<1>types. have \in [Peer -> SUBSET Block] /\ pc \in [Thread -> ThreadPC]
  BY <1>0 DEF TypeOK
\* What only moves threads on, or loses packets, disturbs nothing.
<1>quiet. ASSUME \A c \in Thread : Items(chan'[c]) \subseteq Items(chan[c]),
                 UNCHANGED <<have, files>>,
                 \A p \in Peer : computed'[p] \subseteq computed[p],
                 \A t \in Thread : /\ snap'[t] \subseteq snap[t]
                                   /\ job'[t] \in {job[t], NoJob}
                                   /\ pc'[t] # pc[t] =>
                                        pc'[t] \notin {"send", "create", "write"}
                                   /\ pc'[t] = "send" => job'[t] = job[t]
          PROVE  IntegrityInv'
  <2>1. \A t \in Thread : Good(have', Back(t), NoJob)
    BY JobAssumption DEF Good, Packet
  <2>2. ChanGood' /\ JobGood'
    BY <1>0, <1>quiet, <2>1, ChanStep, JobStep
  <2>3. FoundRight'
    BY <1>0, <1>quiet, FoundStep
  <2>4. FilesOnce'
    BY <1>0, <1>quiet DEF FilesOnce
  <2> QED  BY <2>2, <2>3, <2>4 DEF IntegrityInv
<1>1. ASSUME NEW r \in Requests, Fetch(r[1], r[2]) PROVE IntegrityInv'
  <2> DEFINE req == [type |-> "REQ", chunk |-> r[2], off |-> First[r[2]],
                     len |-> Size[r[2]]]
  <2>1. r = <<r[1], r[2]>> /\ r[1] \in Thread /\ r[2] \in Chunk
    OBVIOUS
  <2>2. Send(r[1], req)
    BY <1>1 DEF Fetch, Careful
  <2>3. req \in REQ
    BY <2>1 DEF REQ
  <2>4. Good(have', r[1], req)
    <3>1. req \notin RES
      BY <2>3, PacketTypes
    <3>2. GoodREQ(r[1], req)
      BY <2>1 DEF GoodREQ, Blocks
    <3> QED  BY <3>1, <3>2 DEF Good
  <2> HIDE DEF req
  <2>5. \A u \in Thread : Items(chan'[u]) \subseteq
          Items(chan[u]) \cup {x \in {req} : u = r[1]}
    BY <1>0, <2>1, <2>2, <2>3, SendFacts DEF Packet
  <2>6. ChanGood'
    BY <1>0, <2>4, <2>5, ChanStep
  <2>7. JobGood' /\ FoundRight' /\ FilesOnce'
    BY <1>0, <1>1, JobStep DEF Fetch, scanVars, FoundRight, FilesOnce
  <2> QED  BY <2>6, <2>7 DEF IntegrityInv
<1>2. ASSUME NEW t \in Dials, Connect(t) PROVE IntegrityInv'
  BY <1>2, <1>quiet DEF Connect, scanVars
<1>3. ASSUME NEW p \in Listing, Packages(p) PROVE IntegrityInv'
  BY <1>3, <1>quiet, <1>types, ThreadFacts DEF Packages, scanVars
<1>4. ASSUME NEW t \in Thread, Drop(t) PROVE IntegrityInv'
  BY <1>0, <1>4, <1>quiet, DropFacts DEF Drop, scanVars
<1>5. ASSUME NEW p \in Failing, Restart(p) PROVE IntegrityInv'
  <2>1. /\ \A c \in Thread : Items(chan'[c]) \subseteq Items(chan[c])
        /\ UNCHANGED <<have, files>>
    BY <1>0, <1>5, RestartFacts DEF Restart
  <2>2. computed \in [Peer -> SUBSET Chunk]
    BY <1>0 DEF TypeOK
  <2>3. \A q \in Peer : computed'[q] \subseteq computed[q]
    BY <1>5, <2>2 DEF Restart
  <2>4. \A t \in Thread : /\ snap'[t] \subseteq snap[t]
                          /\ job'[t] \in {job[t], NoJob}
                          /\ pc'[t] # pc[t] => pc'[t] = "idle"
                          /\ pc'[t] = "send" => job'[t] = job[t]
    BY <1>5 DEF Restart
  <2> QED  BY <2>1, <2>3, <2>4, <1>quiet
<1>6. ASSUME NEW t \in Thread, Hash(t) PROVE IntegrityInv'
  <2>1. \A u \in Thread : \A k \in snap'[u] :
          k \in snap[u] \/ Blocks[k] \subseteq have'[Own(u)]
    BY <1>0, <1>6 DEF Hash, TypeOK
  <2>2. \A u \in Thread : pc'[u] = pc[u] \/ pc'[u] = "store"
    BY <1>6, <1>types DEF Hash
  <2>3. FoundRight'
    BY <1>0, <1>6, <2>1, <2>2, FoundStep DEF Hash
  <2>4. ChanGood' /\ JobGood'
    BY <1>0, <1>6, ChanStep, JobStep DEF Hash
  <2>5. FilesOnce'
    BY <1>0, <1>6, <2>2 DEF Hash, FilesOnce
  <2> QED  BY <2>3, <2>4, <2>5 DEF IntegrityInv
<1>7. ASSUME NEW t \in Thread, Store(t) PROVE IntegrityInv'
  <2>1. /\ computed' = [computed EXCEPT ![Own(t)] = (@ \ {idx[t]}) \cup snap[t]]
        /\ snap' = [snap EXCEPT ![t] = {}]
        /\ UNCHANGED <<have, files, conns, chan, job>>
    BY <1>7 DEF Store
  <2>2. \A p \in Peer : \A k \in computed'[p] :
          k \in computed[p] \/ Blocks[k] \subseteq have'[p]
    BY <1>0, <2>1 DEF FoundRight, TypeOK
  <2>3. \A u \in Thread : \A k \in snap'[u] : k \in snap[u]
    BY <1>0, <2>1 DEF TypeOK
  <2>4. \A u \in Thread : pc'[u] = pc[u] \/ pc'[u] \in {"hash", "idle", "check"}
    BY <1>7, <1>types DEF Store
  <2>5. FoundRight'
    BY <1>0, <2>1, <2>2, <2>3, <2>4, FoundStep
  <2>6. ChanGood' /\ JobGood'
    BY <1>0, <2>1, ChanStep, JobStep
  <2>7. FilesOnce'
    BY <1>0, <2>1, <2>4 DEF FilesOnce
  <2> QED  BY <2>5, <2>6, <2>7 DEF IntegrityInv
\* A packet taken from a good channel is a good one.
<1>take. ASSUME NEW t \in Thread, NEW type, Receive(t, type),
                job' = [job EXCEPT ![t] = Head(chan[Back(t)])],
                NEW next \in {"hash", "check", "file"},
                pc' = [pc EXCEPT ![t] = next],
                UNCHANGED <<have, files, computed, conns, scanVars>>
         PROVE  IntegrityInv'
  <2>1. /\ Head(chan[Back(t)]) \in Items(chan[Back(t)])
        /\ \A u \in Thread : Items(chan'[u]) \subseteq Items(chan[u])
    BY <1>0, <1>take, ReceiveFacts
  <2>2. Good(have, Back(t), Head(chan[Back(t)]))
    BY <2>1, ThreadFacts DEF IntegrityInv, ChanGood
  <2>3. Good(have', Back(t), Head(chan[Back(t)]))
    BY <1>0, <2>2, GoodStays, ThreadFacts
  <2>4. ChanGood'
    BY <1>0, <2>1, ChanStep
  <2>5. \A u \in Thread : job'[u] = job[u] \/ Good(have', Back(u), job'[u])
    BY <1>0, <1>take, <2>3 DEF TypeOK
  <2>6. JobGood'
    BY <1>0, <2>5, JobStep
  <2>7. \A u \in Thread : (pc'[u] = pc[u] /\ job'[u] = job[u]) \/ pc'[u] = next
    BY <1>0, <1>take DEF TypeOK
  <2>8. FoundRight'
    BY <1>0, <1>take, <2>7, FoundStep DEF scanVars
  <2>9. FilesOnce'
    BY <1>0, <1>take, <2>7 DEF FilesOnce
  <2> QED  BY <2>4, <2>6, <2>8, <2>9 DEF IntegrityInv
<1>8. ASSUME NEW t \in Thread, ReceiveREQ(t) PROVE IntegrityInv'
  <2>1. Receive(t, "REQ")
    BY <1>8 DEF ReceiveREQ
  <2> QED  BY <1>8, <2>1, <1>take DEF ReceiveREQ
<1>9. ASSUME NEW t \in Thread, Check(t) PROVE IntegrityInv'
  <2>1. \A u \in Thread :
          \/ pc'[u] = pc[u] \/ pc'[u] = "refuse"
          \/ pc'[u] = "send" /\ u = t /\ job[t].chunk \in computed[Own(t)]
    BY <1>9, <1>types DEF Check
  <2>2. UNCHANGED <<have, files, computed, conns, chan, job, idx, snap>>
    BY <1>9 DEF Check, scanVars
  <2>3. \A u \in Thread : pc'[u] = "send" =>
          pc[u] = "send" \/ Blocks[job[u].chunk] \subseteq have[Own(u)]
    BY <1>0, <2>1, ThreadFacts DEF FoundRight
  <2>4. FoundRight'
    BY <1>0, <2>2, <2>3, FoundStep
  <2>5. ChanGood' /\ JobGood'
    BY <1>0, <2>2, ChanStep, JobStep
  <2>6. FilesOnce'
    BY <1>0, <2>1, <2>2 DEF FilesOnce
  <2> QED  BY <2>4, <2>5, <2>6 DEF IntegrityInv
<1>10. ASSUME NEW t \in Thread, Refuse(t) PROVE IntegrityInv'
  <2>1. ERR \in Packet /\ ERR \notin REQ /\ ERR \notin RES
    BY PacketTypes DEF Packet, ERR
  <2>2. \A u \in Thread : Items(chan'[u]) \subseteq
          Items(chan[u]) \cup {x \in {ERR} : u = t}
    BY <1>0, <1>10, <2>1, SendFacts DEF Refuse
  <2>3. ChanGood'
    BY <1>0, <2>1, <2>2, ChanStep DEF Good
  <2>4. \A u \in Thread : /\ job'[u] \in {job[u], NoJob}
                          /\ (pc'[u] = pc[u] /\ job'[u] = job[u]) \/ pc'[u] = "idle"
    BY <1>0, <1>10 DEF Refuse, TypeOK
  <2>5. JobGood'
    BY <1>0, <2>4, JobStep, JobAssumption DEF Good, Packet
  <2>6. FoundRight'
    BY <1>0, <1>10, <2>4, FoundStep DEF Refuse, scanVars
  <2>7. FilesOnce'
    BY <1>0, <1>10, <2>4 DEF FilesOnce, Refuse
  <2> QED  BY <2>3, <2>5, <2>6, <2>7 DEF IntegrityInv
<1>11. ASSUME NEW t \in Thread, SendRES(t) PROVE IntegrityInv'
  <2> DEFINE r == job[t]
             n == Piece(r.len)
             res == [type |-> "RES", off |-> r.off, len |-> n,
                     right |-> Span(r.off, n) \cap have[Own(t)]]
             rest == [r EXCEPT !.off = @ + n, !.len = @ - n]
  <2>1. /\ r \in REQ /\ r.chunk \in Chunk /\ r.off \in Nat /\ r.len \in Nat
        /\ pc[t] = "send" /\ Own(t) \in Peer
    BY <1>0, <1>11, ThreadFacts DEF SendRES, LocalsOK, REQ
  <2>2. n \in 0..r.len
    BY <2>1 DEF Piece
  <2>3. GoodREQ(Back(t), r)
    BY <2>1 DEF IntegrityInv, JobGood, Good
  <2>4. Blocks[r.chunk] \subseteq have[Own(t)]
    BY <1>0, <2>1 DEF FoundRight
  <2>5. /\ Span(r.off, n) \subseteq Blocks[r.chunk]
        /\ Span(r.off + n, r.len - n) \subseteq Blocks[r.chunk]
    <3> HIDE DEF r, n
    <3>1. /\ Span(r.off, n) \subseteq Span(r.off, r.len)
          /\ Span(r.off + n, r.len - n) \subseteq Span(r.off, r.len)
      BY <2>1, <2>2 DEF Span
    <3> QED  BY <2>3, <3>1 DEF GoodREQ
  <2>6. /\ Send(t, res)
        /\ UNCHANGED <<have, files, computed, conns, idx, snap>>
        /\ \/ job' = [job EXCEPT ![t] = rest] /\ pc' = pc
           \/ job' = [job EXCEPT ![t] = NoJob] /\ pc' = [pc EXCEPT ![t] = "idle"]
    <3>1. Send(t, res) /\ UNCHANGED <<have, files, computed, conns, idx, snap>>
      BY <1>11 DEF SendRES, scanVars
    <3>2. \/ /\ job' = [job EXCEPT ![t].off = @ + n, ![t].len = @ - n]
             /\ pc' = pc
          \/ job' = [job EXCEPT ![t] = NoJob] /\ pc' = [pc EXCEPT ![t] = "idle"]
      BY <1>11 DEF SendRES
    <3>3. CASE job' = [job EXCEPT ![t].off = @ + n, ![t].len = @ - n] /\ pc' = pc
      <4> HIDE DEF n
      <4>1. job' = [job EXCEPT ![t] = rest]
        BY <3>3
      <4> QED  BY <3>1, <3>3, <4>1
    <3> QED  BY <3>1, <3>2, <3>3
  <2>7. /\ rest.chunk = r.chunk /\ rest.off = r.off + n /\ rest.len = r.len - n
        /\ rest.type = "REQ"
    <3> HIDE DEF n, r
    <3> QED  BY <2>1 DEF REQ
  <2>8. /\ res.type = "RES" /\ res.off = r.off /\ res.len = n
        /\ res.right = Span(r.off, n)
    BY <2>4, <2>5
  <2>9. res \in RES
    <3>1. Span(r.off, n) \cap have[Own(t)] \in SUBSET Block
      BY <1>types, <2>1
    <3> HIDE DEF n, r
    <3> QED  BY <2>1, <2>2, <3>1 DEF RES
  <2> HIDE DEF res, rest, n
  <2>10. GoodRES(have', t, res)
    <3>1. /\ <<Back(t), r.chunk>> \in Requests /\ res.right \subseteq Blocks[r.chunk]
          /\ Blocks[r.chunk] \subseteq have'[Own(t)]
      BY <2>3, <2>4, <2>5, <2>6, <2>8 DEF GoodREQ
    <3>2. WholeRES(res)
      BY <2>8 DEF WholeRES
    <3> QED  BY <2>1, <3>1, <3>2 DEF GoodRES
  <2>11. Good(have', t, res)
    BY <2>8, <2>10, PacketTypes DEF Good
  <2>12. \A u \in Thread : Items(chan'[u]) \subseteq
           Items(chan[u]) \cup {x \in {res} : u = t}
    BY <1>0, <2>6, <2>9, SendFacts DEF Packet
  <2>13. ChanGood'
    BY <1>0, <2>11, <2>12, ChanStep
  <2>14. Good(have', Back(t), rest) /\ Good(have', Back(t), NoJob)
    <3>1. GoodREQ(Back(t), rest) /\ rest \notin RES
      BY <2>3, <2>5, <2>7, PacketTypes DEF GoodREQ
    <3> QED  BY <3>1, JobAssumption DEF Good, Packet
  <2>15. \A u \in Thread :
           /\ job'[u] = job[u] \/ (u = t /\ job'[u] \in {rest, NoJob})
           /\ pc'[u] = pc[u] \/ pc'[u] = "idle"
           /\ pc'[u] = "send" => job'[u].chunk = job[u].chunk
    BY <1>0, <2>6, <2>7 DEF TypeOK
  <2>16. JobGood'
    BY <1>0, <2>14, <2>15, JobStep
  <2>17. FoundRight'
    BY <1>0, <2>6, <2>15, FoundStep
  <2>18. FilesOnce'
    BY <1>0, <2>6, <2>15 DEF FilesOnce
  <2> QED  BY <2>13, <2>16, <2>17, <2>18 DEF IntegrityInv
<1>12. ASSUME NEW t \in Thread, ReceiveRES(t) PROVE IntegrityInv'
  <2>1. Receive(t, "RES")
    BY <1>12 DEF ReceiveRES
  <2> QED  BY <1>12, <2>1, <1>take DEF ReceiveRES
<1>13. ASSUME NEW t \in Thread, ReceiveERR(t) PROVE IntegrityInv'
  BY <1>0, <1>13, <1>quiet, ReceiveFacts DEF ReceiveERR, scanVars
<1>14. ASSUME NEW t \in Thread, FileCheck(t) PROVE IntegrityInv'
  <2>1. UNCHANGED <<have, files, computed, conns, chan, job, idx, snap>>
    BY <1>14 DEF FileCheck, scanVars
  <2>2. \A u \in Thread :
          \/ pc'[u] = pc[u]
          \/ u = t /\ pc'[u] = "write" /\ Own(u) \in files
          \/ u = t /\ pc'[u] = "create" /\ Own(u) \notin files
    BY <1>14, <1>types DEF FileCheck
  <2>3. ChanGood' /\ JobGood' /\ FoundRight'
    BY <1>0, <2>1, <2>2, ChanStep, JobStep, FoundStep
  <2>4. FilesOnce'
    BY <1>0, <2>1, <2>2 DEF FilesOnce
  <2> QED  BY <2>3, <2>4 DEF IntegrityInv
<1>15. ASSUME NEW t \in Thread, Create(t) PROVE IntegrityInv'
  <2>1. /\ have' = have /\ files' = files \cup {Own(t)}
        /\ UNCHANGED <<computed, conns, chan, job, idx, snap>>
        /\ pc[t] = "create" /\ pc' = [pc EXCEPT ![t] = "write"]
    BY <1>15, CreateFacts DEF Create, scanVars
  \* Only one thread of a process that had no file receives RES.
  <2>2. ASSUME NEW u \in Thread, pc[u] = "create", Own(u) = Own(t) PROVE u = t
    <3>1. ASSUME NEW v \in Thread, pc[v] = "create"
          PROVE  \E k \in Chunk : <<v, k>> \in Requests
      <4>1. job[v] \in RES /\ Back(v) \in Thread /\ Back(Back(v)) = v
        BY <1>0, <3>1, ThreadFacts DEF LocalsOK
      <4> QED  BY <4>1 DEF IntegrityInv, JobGood, Good, GoodRES
    <3>2. PICK j \in Chunk, k \in Chunk : <<u, j>> \in Requests /\ <<t, k>> \in Requests
      BY <2>1, <2>2, <3>1
    <3>3. <<u, j>>[1] = u /\ <<t, k>>[1] = t /\ u[1] = t[1]
      BY <2>2 DEF Own
    <3>4. u[1] \notin Files
      BY <1>0, <2>2 DEF FilesOnce, Own
    <3> QED  BY <3>2, <3>3, <3>4 DEF Careful
  <2>3. \A u \in Thread : IF u = t THEN pc'[u] = "write" ELSE pc'[u] = pc[u]
    BY <2>1, <1>types
  <2>4. ChanGood' /\ JobGood' /\ FoundRight'
    BY <1>0, <2>1, <2>3, ChanStep, JobStep, FoundStep
  <2>5. FilesOnce'
    BY <1>0, <2>1, <2>2, <2>3, ThreadFacts DEF FilesOnce
  <2> QED  BY <2>4, <2>5 DEF IntegrityInv
<1>16. ASSUME NEW t \in Thread, Write(t) PROVE IntegrityInv'
  <2>1. /\ pc[t] = "write" /\ pc' = [pc EXCEPT ![t] = "idle"]
        /\ job' = [job EXCEPT ![t] = NoJob]
        /\ UNCHANGED <<files, computed, conns, chan, idx, snap>>
    BY <1>16 DEF Write, scanVars
  <2>2. \A p \in Peer : p # Own(t) => have'[p] = have[p]
    BY <1>16, <1>types DEF Write
  <2>3. \A u \in Thread : /\ job'[u] \in {job[u], NoJob}
                          /\ (pc'[u] = pc[u] /\ job'[u] = job[u]) \/ pc'[u] = "idle"
    BY <1>0, <2>1 DEF TypeOK
  <2>4. ChanGood' /\ JobGood' /\ FoundRight'
    BY <1>0, <2>1, <2>3, ChanStep, JobStep, FoundStep, JobAssumption
       DEF Good, Packet
  <2>5. FilesOnce'
    BY <1>0, <2>1, <2>2, <2>3 DEF FilesOnce
  <2> QED  BY <2>4, <2>5 DEF IntegrityInv
<1>17. CASE UNCHANGED vars
  BY <1>17, <1>quiet DEF vars
<1> QED
  BY <1>1, <1>2, <1>3, <1>4, <1>5, <1>6, <1>7, <1>8, <1>9, <1>10, <1>11, <1>12,
     <1>13, <1>14, <1>15, <1>16, <1>17
     DEF Next, User, Network, Handler, Scan

\* What the invariant says of every packet is that a RES is right.
LEMMA IntegrityServes == TypeInv /\ IntegrityInv => ServedBlocksRight
<1> SUFFICES ASSUME TypeInv, IntegrityInv PROVE ServedBlocksRight
  OBVIOUS
<1>1. ASSUME NEW c \in Thread, NEW i \in DOMAIN chan[c], IsRES(chan[c][i])
      PROVE  WholeRES(chan[c][i])
  <2>1. chan[c] \in Seq(Packet)
    BY DEF TypeInv, TypeOK
  <2>2. DOMAIN chan[c] = 1..Len(chan[c]) /\ chan[c][i] \in Packet
    BY <2>1, LenProperties, ElementOfSeq
  <2>3. chan[c][i] \in RES /\ Good(have, c, chan[c][i])
    BY <1>1, <2>2, PacketTypes DEF IsRES, IntegrityInv, ChanGood, Items
  <2> QED  BY <2>3 DEF Good, GoodRES
<1>2. ASSUME NEW t \in Thread, IsRES(job[t]) PROVE WholeRES(job[t])
  <2>1. job[t] \in REQ \cup RES \cup {NoJob} /\ job[t] # NoJob
    BY <1>2 DEF TypeInv, TypeOK, IsRES
  <2>2. job[t] \in RES /\ Good(have, Back(t), job[t])
    BY <1>2, <2>1, PacketTypes DEF IsRES, IntegrityInv, JobGood, Packet
  <2> QED  BY <2>2 DEF Good, GoodRES
<1> QED  BY <1>1, <1>2 DEF ServedBlocksRight

LEMMA Invariance ==
  ASSUME Careful
  PROVE  Spec => [](TypeInv /\ IntegrityInv)
<1>1. Init => TypeInv /\ IntegrityInv
  BY InitTypeInv, InitIntegrity
<1>2. (TypeInv /\ IntegrityInv) /\ [Next]_vars => (TypeInv /\ IntegrityInv)'
  BY NextTypeInv, NextIntegrity
<1> QED  BY <1>1, <1>2, PTL DEF Spec

\* If users are careful, whatever is sent and whatever is about to be written is
\* the published bytes of its place, for every package, every set of processes and
\* every order of handlers, lost connections and restarts.
THEOREM CarefulServedBlocksRight ==
  ASSUME Careful
  PROVE  Spec => []ServedBlocksRight
BY Invariance, IntegrityServes, PTL

\* Then a right block in a file is never lost.
THEOREM CarefulRightBlocksStay ==
  ASSUME Careful
  PROVE  Spec => RightBlocksStay
<1>1. TypeInv /\ IntegrityInv /\ [Next]_vars =>
        [\A p \in Peer : have[p] \subseteq have'[p]]_vars
  BY HaveStep DEF HaveGrows
<1> QED  BY <1>1, Invariance, PTL DEF Spec, RightBlocksStay

\* And the transfer implements the swarm: a process obtains a block only from one
\* that it asked and that holds the whole chunk.
THEOREM CarefulImplementsSwarm ==
  ASSUME Careful
  PROVE  Spec => SwarmSpec
<1>1. Init => Sw!Init
  BY DEF Init, Sw!Init
<1>2. TypeInv /\ IntegrityInv /\ [Next]_vars => [Sw!Next]_have
  BY SwarmStep
<1> QED  BY <1>1, <1>2, Invariance, PTL DEF Spec, SwarmSpec, Sw!Spec
=============================================================================
