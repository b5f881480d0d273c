----------------------------- MODULE PeerProofs -----------------------------
(***************************************************************************)
(* Theorems about one btide process, for every set of connections, every   *)
(* max_peers and every number of descriptors.                              *)
(***************************************************************************)
EXTENDS Peer, ConnectionArrayProofs

(* ------------------------------- typing -------------------------------- *)
\* The locals a thread uses at a program point have been assigned before.
LocalsOK ==
  /\ spc \in {"check", "refuse", "append", "spawn", "record"} =>
       sconn \in Inbound /\ sfd \in FD
  /\ mpc = "known" => mconn \in Dials \cup {NoConn}
  /\ mpc \in {"capacity", "dial", "append", "spawn", "record"} => mconn \in Dials
  /\ mpc \in {"known", "capacity", "dial", "append", "spawn", "record", "await",
              "flag", "find", "say", "shut", "close", "remove"} => maddr \in Addr
  /\ mpc \in {"append", "spawn", "record", "await", "flag", "say", "shut", "close",
              "remove", "closeOne"} => mfd \in FD
  /\ mpc \in {"known", "find", "closeAll", "closeOne"} => midx >= 1
  /\ \A c \in Conn :
       /\ hpc[c] # "none" => hfd[c] \in FD
       /\ hpc[c] = "recv" => hon[c] \in Conn
       /\ hpc[c] \in {"ack", "acp"} => c \in Dials

TypeInv == TypeOK /\ LocalsOK

USE ConnAssumption, FdAssumption, LimitAssumption, InputAssumption

LEMMA InitTypeInv == Init => TypeInv
BY DEF Init, TypeInv, TypeOK, LocalsOK, Conn, Packet, Socket, MainPC, ServerPC,
       HandlerPC

LEMMA NextTypeInv == TypeInv /\ [Next]_vars => TypeInv'
<1> SUFFICES ASSUME TypeInv, [Next]_vars PROVE TypeInv'
  OBVIOUS
<1> USE DEF TypeInv, TypeOK, LocalsOK, Conn, Packet, Socket, MainPC, ServerPC,
            HandlerPC, netVars, mainVars, serverVars, handlerVars
<1>1. ASSUME NEW c \in Dials, Connect(c) PROVE TypeInv'
  BY <1>1 DEF Connect
<1>2. ASSUME NEW a \in Addr, Disconnect(a) PROVE TypeInv'
  BY <1>2 DEF Disconnect
<1>3. ASSUME Quit PROVE TypeInv'
  BY <1>3 DEF Quit, ShutRead
<1>4. ASSUME NEW c \in Inbound, RemoteConnect(c) PROVE TypeInv'
  BY <1>4 DEF RemoteConnect
<1>5. ASSUME NEW c \in Dials, RemoteAccept(c) PROVE TypeInv'
  BY <1>5 DEF RemoteAccept
<1>6. ASSUME NEW c \in Conn, RemoteClose(c) PROVE TypeInv'
  BY <1>6 DEF RemoteClose
<1>7. ASSUME NEW c \in Conn, NEW p \in Traffic, RemoteSend(c, p) PROVE TypeInv'
  BY <1>7 DEF RemoteSend
<1>8. ASSUME SrvAccept PROVE TypeInv'
  BY <1>8 DEF SrvAccept, Free, Lowest
<1>9. ASSUME SrvAcceptFails PROVE TypeInv'
  BY <1>9 DEF SrvAcceptFails, Close
<1>10. ASSUME SrvCheck PROVE TypeInv'
  BY <1>10 DEF SrvCheck
<1>11. ASSUME SrvRefuse PROVE TypeInv'
  BY <1>11 DEF SrvRefuse, SrvLoop, Close
<1>12. ASSUME SrvAppend PROVE TypeInv'
  <2>1. CASE table' = table
    BY <1>12, <2>1 DEF SrvAppend
  <2>2. CASE table' = Append(table, [fd |-> sfd, addr |-> AddrOf[sconn],
                                     connected |-> TRUE, conn |-> sconn])
    <3>1. [fd |-> sfd, addr |-> AddrOf[sconn], connected |-> TRUE,
           conn |-> sconn] \in Entry(Conn, Addr, FD)
      BY <1>12 DEF SrvAppend, Entry
    <3>2. table' \in Seq(Entry(Conn, Addr, FD))
      BY <2>2, <3>1
    <3> QED  BY <1>12, <3>2 DEF SrvAppend
  <2> QED  BY <1>12, <2>1, <2>2 DEF SrvAppend
<1>13. ASSUME SrvSpawn PROVE TypeInv'
  <2>1. CASE /\ hpc' = [hpc EXCEPT ![sconn] = "start"] /\ spc' = "record"
             /\ hfd' = [hfd EXCEPT ![sconn] = sfd] /\ UNCHANGED fds
    BY <1>13, <2>1 DEF SrvSpawn
  <2>2. CASE /\ fds' = [fds EXCEPT ![sfd] = NoConn] /\ spc' = "exited"
             /\ UNCHANGED <<hpc, hfd>>
    BY <1>13, <2>2 DEF SrvSpawn
  <2> QED  BY <1>13, <2>1, <2>2 DEF SrvSpawn, Close
<1>14. ASSUME SrvRecord PROVE TypeInv'
  BY <1>14 DEF SrvRecord, SrvLoop, AppendThread
<1>15. ASSUME NEW c \in Conn, HSendACP(c) PROVE TypeInv'
  <2>1. \E pc \in {"loop", "done"} : hpc' = [hpc EXCEPT ![c] = pc]
    BY <1>15 DEF HSendACP, Goto
  <2> QED  BY <1>15, <2>1 DEF HSendACP
<1>16. ASSUME NEW c \in Conn, HRecvEnter(c) PROVE TypeInv'
  <2>1. CASE hpc' = [hpc EXCEPT ![c] = "lost"] /\ hon' = hon
    BY <1>16, <2>1 DEF HRecvEnter
  <2>2. CASE /\ fds[hfd[c]] \in Conn /\ hpc' = [hpc EXCEPT ![c] = "recv"]
             /\ hon' = [hon EXCEPT ![c] = fds[hfd[c]]]
    BY <1>16, <2>2 DEF HRecvEnter
  <2> QED  BY <1>16, <2>1, <2>2 DEF HRecvEnter, Goto
<1>17. ASSUME NEW c \in Conn, HReceive(c) PROVE TypeInv'
  <2>1. hon[c] \in Conn /\ inbox[hon[c]] \in Seq(Packet) \ {<<>>}
    BY <1>17 DEF HReceive
  <2>2. inbox' \in [Conn -> Seq(Packet)]
    BY <1>17, <2>1 DEF HReceive
  <2>3. \E pc \in {"loop", "dsn", "reply", "ack"} :
          hpc' = [hpc EXCEPT ![c] = pc] /\ (pc = "ack" => c \in Dials)
    BY <1>17 DEF HReceive, Goto
  <2> QED  BY <1>17, <2>2, <2>3 DEF HReceive
<1>18. ASSUME NEW c \in Conn, HRecvEnds(c) PROVE TypeInv'
  BY <1>18 DEF HRecvEnds, Goto
<1>19. ASSUME NEW c \in Conn, HSetConnected(c) PROVE TypeInv'
  <2>1. SetConnected(table, AddrOf[c]) \in Seq(Entry(Conn, Addr, FD))
    BY SetConnectedType
  <2>2. table' \in Seq(Entry(Conn, Addr, FD))
    BY <1>19, <2>1 DEF HSetConnected
  <2> QED  BY <1>19, <2>2 DEF HSetConnected, Goto
<1>20. ASSUME NEW c \in Conn, HFree(c) PROVE TypeInv'
  BY <1>20 DEF HFree, Goto
<1>20a. ASSUME NEW c \in Conn, HShift(c) PROVE TypeInv'
  BY RemoveEntryType, <1>20a DEF HShift, Goto
<1>20b. ASSUME NEW c \in Conn, HSend(c) PROVE TypeInv'
  <2>1. CASE hpc' = [hpc EXCEPT ![c] = AfterSend(c)] /\ hon' = hon
    BY <1>20b, <2>1 DEF HSend, AfterSend
  <2>2. CASE /\ fds[hfd[c]] \in Conn /\ hpc' = hpc
             /\ hon' = [hon EXCEPT ![c] = fds[hfd[c]]]
    BY <1>20b, <2>2 DEF HSend
  <2> QED  BY <1>20b, <2>1, <2>2 DEF HSend, Goto
<1>20c. ASSUME NEW c \in Conn, HSent(c) PROVE TypeInv'
  BY <1>20c DEF HSent, AfterSend, Goto
<1>20d. ASSUME MainSaid PROVE TypeInv'
  BY <1>20d DEF MainSaid
<1>21. ASSUME NEW c \in Conn, HSetDisconnected(c) PROVE TypeInv'
  <2>1. SetDisconnected(table, AddrOf[c]) \in Seq(Entry(Conn, Addr, FD))
    BY SetDisconnectedType
  <2>2. table' \in Seq(Entry(Conn, Addr, FD))
    BY <1>21, <2>1 DEF HSetDisconnected
  <2> QED  BY <1>21, <2>2 DEF HSetDisconnected, Goto
<1>22. ASSUME NEW c \in Conn, HClose(c) PROVE TypeInv'
  BY <1>22 DEF HClose, Goto, Close
<1>23. ASSUME MainKnown PROVE TypeInv'
  BY <1>23 DEF MainKnown, ToInput
<1>24. ASSUME MainCapacity PROVE TypeInv'
  BY <1>24 DEF MainCapacity, ToInput
<1>25. ASSUME MainDial PROVE TypeInv'
  <2>1. CASE Free = {}
    BY <1>25, <2>1 DEF MainDial, ToInput, Lowest
  <2>2. ASSUME NEW f \in Lowest(Free), fds' = [fds EXCEPT ![f] = mconn],
               link' = [link EXCEPT ![mconn] = "opening"], mfd' = f,
               mpc' = "append", UNCHANGED <<mcmd, maddr, mconn, midx, mon>>
        PROVE  TypeInv'
    BY <1>25, <2>2 DEF MainDial, Lowest, Free
  <2>3. ASSUME NEW f \in Lowest(Free), fds' = [fds EXCEPT ![f] = mconn],
               link' = [link EXCEPT ![mconn] = "closed"], ToInput
        PROVE  TypeInv'
    BY <1>25, <2>3 DEF MainDial, Lowest, Free, ToInput
  <2> QED  BY <1>25, <2>1, <2>2, <2>3 DEF MainDial
<1>26. ASSUME MainAppend PROVE TypeInv'
  <2>1. CASE table' = table
    BY <1>26, <2>1 DEF MainAppend
  <2>2. CASE table' = Append(table, [fd |-> mfd, addr |-> maddr,
                                     connected |-> FALSE, conn |-> mconn])
    <3>1. [fd |-> mfd, addr |-> maddr, connected |-> FALSE,
           conn |-> mconn] \in Entry(Conn, Addr, FD)
      BY <1>26 DEF MainAppend, Entry
    <3>2. table' \in Seq(Entry(Conn, Addr, FD))
      BY <2>2, <3>1
    <3> QED  BY <1>26, <3>2 DEF MainAppend
  <2> QED  BY <1>26, <2>1, <2>2 DEF MainAppend
<1>27. ASSUME MainSpawn PROVE TypeInv'
  <2>1. CASE /\ hpc' = [hpc EXCEPT ![mconn] = "loop"] /\ mpc' = "record"
             /\ hfd' = [hfd EXCEPT ![mconn] = mfd]
             /\ UNCHANGED <<mcmd, maddr, mconn, mfd, midx, mon>>
    BY <1>27, <2>1 DEF MainSpawn
  <2>2. CASE ToInput /\ UNCHANGED <<hpc, hfd>>
    BY <1>27, <2>2 DEF MainSpawn, ToInput
  <2> QED  BY <1>27, <2>1, <2>2 DEF MainSpawn
<1>28. ASSUME MainRecord PROVE TypeInv'
  BY <1>28 DEF MainRecord, AppendThread
<1>29. ASSUME MainAwait PROVE TypeInv'
  <2>1. \A i \in FirstWith(table, maddr) : i \in Nat
    BY LenProperties DEF FirstWith
  <2> QED  BY <1>29, <2>1 DEF MainAwait
<1>29a. ASSUME MainFlag PROVE TypeInv'
  BY <1>29a DEF MainFlag, ToInput
<1>30. ASSUME MainFind PROVE TypeInv'
  <2>1. ASSUME NEW i \in Seen(midx), midx <= Len(table), mpc = "find"
        PROVE  table[i] \in Entry(Conn, Addr, FD)
    BY <2>1, ElementOfSeq, LenProperties DEF Seen
  <2>2. CASE ToInput
    BY <1>30, <2>2 DEF MainFind, ToInput
  <2>3. ASSUME NEW i \in Seen(midx), midx <= Len(table), mpc' = "say",
               mconn' = table[i].conn, mfd' = table[i].fd, midx' = 0,
               UNCHANGED <<mcmd, maddr, mon>>
        PROVE  TypeInv'
    BY <1>30, <2>1, <2>3 DEF MainFind, Entry
  <2>4. CASE midx' = midx + 1 /\ UNCHANGED <<mpc, mcmd, maddr, mconn, mfd, mon>>
    BY <1>30, <2>4 DEF MainFind
  <2>5. CASE mpc' = "crashed" /\ UNCHANGED <<mcmd, maddr, mconn, mfd, midx, mon>>
    BY <1>30, <2>5 DEF MainFind
  <2> QED  BY <1>30, <2>2, <2>3, <2>4, <2>5 DEF MainFind
<1>30a. ASSUME MainSay PROVE TypeInv'
  BY <1>30a DEF MainSay
<1>31. ASSUME MainShut PROVE TypeInv'
  BY <1>31 DEF MainShut, ShutRead
<1>32. ASSUME MainClose PROVE TypeInv'
  BY <1>32 DEF MainClose, Close
<1>33. ASSUME MainRemove PROVE TypeInv'
  BY RemoveEntryType, <1>33 DEF MainRemove, ToInput
<1>34. ASSUME MainCloseServer PROVE TypeInv'
  BY <1>34 DEF MainCloseServer, Close
<1>35. ASSUME MainJoinServer PROVE TypeInv'
  BY <1>35 DEF MainJoinServer
<1>36. ASSUME MainCloseAll PROVE TypeInv'
  <2>1. ASSUME NEW i \in Seen(midx), midx <= Len(table), mpc = "closeAll"
        PROVE  table[i] \in Entry(Conn, Addr, FD)
    BY <2>1, ElementOfSeq, LenProperties DEF Seen
  <2>2. CASE mpc' = "joinThreads" /\ midx' = 0 /\ UNCHANGED <<rdshut, mfd>>
    BY <1>36, <2>2 DEF MainCloseAll
  <2>3. ASSUME NEW i \in Seen(midx), midx <= Len(table), mfd' = table[i].fd,
               ShutRead(table[i].fd), mpc' = "closeOne", midx' = midx
        PROVE  TypeInv'
    <3>1. table[i].fd \in FD
      BY <1>36, <2>1, <2>3 DEF Entry, MainCloseAll
    <3>2. rdshut' = rdshut \cup ({fds[table[i].fd]} \ {NoConn})
      BY <2>3 DEF ShutRead
    <3>3. fds[table[i].fd] \in Socket \cup {NoConn}
      <4>1. fds \in [FD -> Socket \cup {NoConn}]
        OBVIOUS
      <4> HIDE DEF TypeInv, TypeOK, LocalsOK, Socket
      <4> QED  BY <3>1, <4>1
    <3>4. rdshut' \subseteq Socket
      BY <3>2, <3>3
    <3> QED  BY <1>36, <2>3, <3>1, <3>4 DEF MainCloseAll
  <2> QED  BY <1>36, <2>2, <2>3 DEF MainCloseAll
<1>37. ASSUME MainCloseOne PROVE TypeInv'
  BY <1>37 DEF MainCloseOne, Close
<1>38. ASSUME MainJoinThreads PROVE TypeInv'
  BY <1>38 DEF MainJoinThreads
<1>39. CASE UNCHANGED vars
  BY <1>39 DEF vars
<1> QED
    BY <1>1, <1>2, <1>3, <1>4, <1>5, <1>6, <1>7, <1>8, <1>9, <1>10, <1>11,
     <1>12, <1>13, <1>14, <1>15, <1>16, <1>17, <1>18, <1>19, <1>20, <1>20a,
     <1>20b, <1>20c, <1>20d, <1>21, <1>22, <1>23, <1>24, <1>25, <1>26, <1>27,
     <1>28, <1>29, <1>29a, <1>30, <1>30a, <1>31, <1>32, <1>33, <1>34,
     <1>35, <1>36, <1>37, <1>38, <1>39
     DEF Next, User, Remote, RemoteReads, MainStep, Server, Handler, HSendEnds,
     MainSayEnds

\* Every variable always has its type, for every configuration: no handler,
\* however late, makes the array or the descriptors ill formed (peer.c, btide.c).
THEOREM TypeCorrect == Spec => []TypeOK
<1>1. TypeInv => TypeOK
  BY DEF TypeInv
<1> QED  BY InitTypeInv, NextTypeInv, <1>1, PTL DEF Spec

LEMMA TypeInvariant == Spec => []TypeInv
BY InitTypeInv, NextTypeInv, PTL DEF Spec

(* ------------------------ every thread is joined ----------------------- *)
\* Main closes the connections only after server_loop has ended, so that no
\* thread is created behind its back; a handler that has been created is
\* recorded, or its creator is about to record it.
JoinInv ==
  /\ mpc \in {"closeAll", "closeOne", "joinThreads", "exit"} => spc = "done"
  /\ \A c \in Conn : hpc[c] # "none" =>
       \/ c \in threads
       \/ spc = "record" /\ sconn = c
       \/ mpc = "record" /\ mconn = c
  /\ mpc = "exit" => \A c \in Conn : hpc[c] \in {"none", "done"}

LEMMA InitJoinInv == Init => JoinInv
BY DEF Init, JoinInv

LEMMA NextJoinInv == TypeInv /\ JoinInv /\ [Next]_vars => JoinInv'
<1> SUFFICES ASSUME TypeInv, JoinInv, [Next]_vars PROVE JoinInv'
  OBVIOUS
<1> USE DEF TypeInv, TypeOK, LocalsOK, JoinInv, Conn, netVars, mainVars,
            serverVars, handlerVars
<1>1. ASSUME NEW c \in Dials, Connect(c) PROVE JoinInv'
  BY <1>1 DEF Connect
<1>2. ASSUME NEW a \in Addr, Disconnect(a) PROVE JoinInv'
  BY <1>2 DEF Disconnect
<1>3. ASSUME Quit PROVE JoinInv'
  BY <1>3 DEF Quit
<1>4. ASSUME NEW c \in Inbound, RemoteConnect(c) PROVE JoinInv'
  BY <1>4 DEF RemoteConnect
<1>5. ASSUME NEW c \in Dials, RemoteAccept(c) PROVE JoinInv'
  BY <1>5 DEF RemoteAccept
<1>6. ASSUME NEW c \in Conn, RemoteClose(c) PROVE JoinInv'
  BY <1>6 DEF RemoteClose
<1>7. ASSUME NEW c \in Conn, NEW p \in Traffic, RemoteSend(c, p) PROVE JoinInv'
  BY <1>7 DEF RemoteSend
<1>8. ASSUME SrvAccept PROVE JoinInv'
  BY <1>8 DEF SrvAccept
<1>9. ASSUME SrvAcceptFails PROVE JoinInv'
  BY <1>9 DEF SrvAcceptFails
<1>10. ASSUME SrvCheck PROVE JoinInv'
  BY <1>10 DEF SrvCheck
<1>11. ASSUME SrvRefuse PROVE JoinInv'
  BY <1>11 DEF SrvRefuse, SrvLoop
<1>12. ASSUME SrvAppend PROVE JoinInv'
  BY <1>12 DEF SrvAppend
<1>13. ASSUME SrvSpawn PROVE JoinInv'
  BY <1>13 DEF SrvSpawn
<1>14. ASSUME SrvRecord PROVE JoinInv'
  BY <1>14 DEF SrvRecord, SrvLoop, AppendThread
<1>15. ASSUME NEW c \in Conn, HSendACP(c) PROVE JoinInv'
  BY <1>15 DEF HSendACP, Goto
<1>16. ASSUME NEW c \in Conn, HRecvEnter(c) PROVE JoinInv'
  BY <1>16 DEF HRecvEnter, Goto
<1>17. ASSUME NEW c \in Conn, HReceive(c) PROVE JoinInv'
  BY <1>17 DEF HReceive, Goto
<1>18. ASSUME NEW c \in Conn, HRecvEnds(c) PROVE JoinInv'
  BY <1>18 DEF HRecvEnds, Goto
<1>19. ASSUME NEW c \in Conn, HSetConnected(c) PROVE JoinInv'
  BY <1>19 DEF HSetConnected, Goto
<1>20. ASSUME NEW c \in Conn, HFree(c) PROVE JoinInv'
  BY <1>20 DEF HFree, Goto
<1>20a. ASSUME NEW c \in Conn, HShift(c) PROVE JoinInv'
  BY <1>20a DEF HShift, Goto
<1>20b. ASSUME NEW c \in Conn, HSend(c) PROVE JoinInv'
  BY <1>20b DEF HSend, AfterSend, Goto
<1>20c. ASSUME NEW c \in Conn, HSent(c) PROVE JoinInv'
  BY <1>20c DEF HSent, AfterSend, Goto
<1>20d. ASSUME NEW c \in Conn, RemoteReads(c) PROVE JoinInv'
  BY <1>20c, <1>20d DEF RemoteReads, MainSaid
<1>21. ASSUME NEW c \in Conn, HSetDisconnected(c) PROVE JoinInv'
  BY <1>21 DEF HSetDisconnected, Goto
<1>22. ASSUME NEW c \in Conn, HClose(c) PROVE JoinInv'
  BY <1>22 DEF HClose, Goto
<1>23. ASSUME MainKnown PROVE JoinInv'
  BY <1>23 DEF MainKnown, ToInput
<1>24. ASSUME MainCapacity PROVE JoinInv'
  BY <1>24 DEF MainCapacity, ToInput
<1>25. ASSUME MainDial PROVE JoinInv'
  BY <1>25 DEF MainDial, ToInput
<1>26. ASSUME MainAppend PROVE JoinInv'
  BY <1>26 DEF MainAppend
<1>27. ASSUME MainSpawn PROVE JoinInv'
  BY <1>27 DEF MainSpawn, ToInput
<1>28. ASSUME MainRecord PROVE JoinInv'
  BY <1>28 DEF MainRecord, AppendThread
<1>29. ASSUME MainAwait PROVE JoinInv'
  BY <1>29 DEF MainAwait
<1>29a. ASSUME MainFlag PROVE JoinInv'
  BY <1>29a DEF MainFlag, ToInput
<1>30. ASSUME MainFind PROVE JoinInv'
  BY <1>30 DEF MainFind, ToInput
<1>30a. ASSUME MainSay PROVE JoinInv'
  BY <1>30a DEF MainSay
<1>30b. ASSUME MainSaid PROVE JoinInv'
  BY <1>30b DEF MainSaid
<1>31. ASSUME MainShut PROVE JoinInv'
  BY <1>31 DEF MainShut
<1>32. ASSUME MainClose PROVE JoinInv'
  BY <1>32 DEF MainClose
<1>33. ASSUME MainRemove PROVE JoinInv'
  BY <1>33 DEF MainRemove, ToInput
<1>34. ASSUME MainCloseServer PROVE JoinInv'
  BY <1>34 DEF MainCloseServer
<1>35. ASSUME MainJoinServer PROVE JoinInv'
  BY <1>35 DEF MainJoinServer
<1>36. ASSUME MainCloseAll PROVE JoinInv'
  BY <1>36 DEF MainCloseAll
<1>37. ASSUME MainCloseOne PROVE JoinInv'
  BY <1>37 DEF MainCloseOne
<1>38. ASSUME MainJoinThreads PROVE JoinInv'
  BY <1>38 DEF MainJoinThreads
<1>39. CASE UNCHANGED vars
  BY <1>39 DEF vars
<1> QED
    BY <1>1, <1>2, <1>3, <1>4, <1>5, <1>6, <1>7, <1>8, <1>9, <1>10, <1>11,
     <1>12, <1>13, <1>14, <1>15, <1>16, <1>17, <1>18, <1>19, <1>20, <1>20a,
     <1>20b, <1>20c, <1>20d, <1>21, <1>22, <1>23, <1>24, <1>25, <1>26, <1>27,
     <1>28, <1>29, <1>29a, <1>30, <1>30a, <1>30b, <1>31, <1>32, <1>33, <1>34,
     <1>35, <1>36, <1>37, <1>38, <1>39
     DEF Next, User, Remote, MainStep, Server, Handler, HSendEnds, MainSayEnds

\* When main frees the arrays no other thread is left to use them, however
\* QUIT interleaves with arriving, leaving and refused peers (btide.c:404-423).
THEOREM JoinedBeforeFreeAlways == Spec => []JoinedBeforeFree
<1>1. JoinInv => JoinedBeforeFree
  BY DEF JoinInv, JoinedBeforeFree
<1> QED  BY TypeInvariant, InitJoinInv, NextJoinInv, <1>1, PTL DEF Spec

(* ------------------------------ max_peers ------------------------------ *)
\* The number of connected entries, and the room the server thread has found
\* when it is about to append.
LimitInv ==
  /\ TrueSize(table) <= MaxPeers
  /\ spc = "append" => TrueSize(table) < MaxPeers

LEMMA InitLimitInv == Init => LimitInv
<1> SUFFICES ASSUME Init PROVE LimitInv
  OBVIOUS
<1>1. ConnectedAt(table) = {}
  BY DEF Init, ConnectedAt
<1>2. TrueSize(table) = 0
  BY <1>1, FS_EmptySet DEF TrueSize
<1> QED  BY <1>2 DEF Init, LimitInv

\* Without CONNECT only server_loop raises the number of connected entries, and
\* it has just compared that number with max_peers.
LEMMA NextLimitInv ==
  ASSUME Dials = {}, TypeInv, LimitInv, [Next]_vars
  PROVE  LimitInv'
<1>0. table \in Seq(Entry(Conn, Addr, FD)) /\ TrueSize(table) \in Nat
  BY TrueSizeType DEF TypeInv, TypeOK
<1>1. ASSUME UNCHANGED table, spc' = "append" => spc = "append"
      PROVE  LimitInv'
  BY <1>1 DEF LimitInv, TrueSize, ConnectedAt
<1>2. ASSUME TrueSize(table') <= TrueSize(table), TrueSize(table') \in Nat,
             UNCHANGED spc
      PROVE  LimitInv'
  BY <1>0, <1>2 DEF LimitInv
<1>3. CASE SrvCheck
  <2>1. TrueSize(table) # MaxPeers => TrueSize(table) < MaxPeers
    BY <1>0 DEF LimitInv
  <2> QED  BY <1>3, <2>1 DEF SrvCheck, LimitInv
<1>4. CASE SrvAppend
  <2>1. CASE UNCHANGED table
    BY <1>1, <1>4, <2>1 DEF SrvAppend
  <2>2. CASE table' = Append(table, [fd |-> sfd, addr |-> AddrOf[sconn],
                                     connected |-> TRUE, conn |-> sconn])
    <3> DEFINE e == [fd |-> sfd, addr |-> AddrOf[sconn], connected |-> TRUE,
                     conn |-> sconn]
    <3>1. e \in Entry(Conn, Addr, FD)
      BY <1>4 DEF SrvAppend, Entry, TypeInv, LocalsOK, Conn
    <3>2. TrueSize(table') <= TrueSize(table) + 1
      BY <1>0, <2>2, <3>1, TrueSizeAppend
    <3>3. TrueSize(table') \in Nat
      <4>1. table' \in Seq(Entry(Conn, Addr, FD))
        BY <1>0, <2>2, <3>1
      <4> QED  BY <4>1, TrueSizeType
    <3>4. TrueSize(table) < MaxPeers /\ spc' # "append"
      BY <1>4, <2>2 DEF SrvAppend, LimitInv
    <3> QED  BY <1>0, <3>2, <3>3, <3>4 DEF LimitInv
  <2> QED  BY <1>4, <2>1, <2>2 DEF SrvAppend
<1>5. CASE MainAppend
  BY <1>5 DEF MainAppend, TypeInv, LocalsOK
<1>6. ASSUME NEW c \in Conn, HSetConnected(c) PROVE LimitInv'
  BY <1>6 DEF HSetConnected, TypeInv, LocalsOK
<1>7. ASSUME NEW c \in Conn, HShift(c) PROVE LimitInv'
  BY <1>0, <1>2, <1>7, RemoveEntryType, TrueSizeType, TrueSizeRemove
     DEF HShift, serverVars
<1>8. ASSUME NEW c \in Conn, HSetDisconnected(c) PROVE LimitInv'
  BY <1>0, <1>2, <1>8, SetDisconnectedType, TrueSizeType, TrueSizeDisconnect
     DEF HSetDisconnected, serverVars
<1>9. CASE MainRemove
  <2>1. CASE UNCHANGED table
    BY <1>1, <1>9, <2>1 DEF MainRemove, serverVars
  <2>2. CASE table' = RemoveEntry(table, maddr)
    BY <1>0, <1>2, <1>9, <2>2, RemoveEntryType, TrueSizeType, TrueSizeRemove
       DEF MainRemove, serverVars
  <2> QED  BY <1>9, <2>1, <2>2 DEF MainRemove
<1>10. CASE UNCHANGED vars
  BY <1>1, <1>10 DEF vars, serverVars
<1>11. CASE User \/ Remote
  BY <1>1, <1>11 DEF User, Remote, Connect, Disconnect, Quit, RemoteConnect,
     RemoteAccept, RemoteClose, RemoteSend, RemoteReads, MainSaid, HSent, serverVars
<1>12. CASE SrvAccept \/ SrvAcceptFails \/ SrvRefuse \/ SrvSpawn \/ SrvRecord
  BY <1>1, <1>12 DEF SrvAccept, SrvAcceptFails, SrvRefuse, SrvSpawn, SrvRecord,
     SrvLoop
<1>13. ASSUME NEW c \in Conn,
              HSendACP(c) \/ HRecvEnter(c) \/ HReceive(c) \/ HRecvEnds(c)
                \/ HSend(c) \/ HSendEnds(c) \/ HFree(c) \/ HClose(c)
       PROVE  LimitInv'
  BY <1>1, <1>13 DEF HSendACP, HRecvEnter, HReceive, HRecvEnds, HSend, HSendEnds,
     HSent, HFree, HClose, serverVars
<1>14. CASE \/ MainKnown \/ MainCapacity \/ MainDial \/ MainSpawn \/ MainRecord
            \/ MainAwait \/ MainFlag \/ MainFind \/ MainSay \/ MainSayEnds
            \/ MainShut \/ MainClose
  BY <1>1, <1>14 DEF MainKnown, MainCapacity, MainDial, MainSpawn, MainRecord,
     MainAwait, MainFlag, MainFind, MainSay, MainSayEnds, MainSaid, MainShut,
     MainClose, serverVars
<1>15. CASE \/ MainCloseServer \/ MainJoinServer \/ MainCloseAll \/ MainCloseOne
            \/ MainJoinThreads
  BY <1>1, <1>15 DEF MainCloseServer, MainJoinServer, MainCloseAll,
     MainCloseOne, MainJoinThreads, serverVars
<1> QED
  BY <1>3, <1>4, <1>5, <1>6, <1>7, <1>8, <1>9, <1>10, <1>11, <1>12, <1>13,
     <1>14, <1>15 DEF Next, MainStep, Server, Handler

\* A process that only serves never counts more than max_peers connected peers,
\* however peers arrive, leave, die or are dropped by QUIT (peer.c:237-255).
THEOREM ServingAtMostMaxPeers ==
  ASSUME Dials = {}
  PROVE  Spec => []AtMostMaxPeers
<1>1. LimitInv => AtMostMaxPeers
  BY DEF LimitInv, AtMostMaxPeers
<1>2. TypeInv /\ LimitInv /\ [Next]_vars => LimitInv'
  BY NextLimitInv
<1> QED  BY TypeInvariant, InitLimitInv, <1>1, <1>2, PTL DEF Spec

(* ----------------------- sockets and descriptors ----------------------- *)
\* A process that only serves: nobody types CONNECT or DISCONNECT, and the
\* peers that connect come from distinct (ip, port) pairs.
OnlyServing ==
  /\ Dials = {}
  /\ Commands \subseteq {"QUIT"}
  /\ \A c, d \in Conn : AddrOf[c] = AddrOf[d] => c = d

Busy(c) ==
  hpc[c] \in {"start", "loop", "recv", "reply", "ack", "acp", "dsn", "shift", "lost",
              "close"}

\* The socket of connection c, or none once server_loop hands out no descriptors.
OwnSocket(s, c) == s = c \/ (spc \in {"done", "exited"} /\ s = NoConn)

\* Main only waits for QUIT or carries it out; it closes connections when
\* server_loop is done and no descriptor is handed out any more.
MainQuits ==
  /\ mpc \in {"input", "closeServer", "joinServer", "closeAll", "closeOne",
              "joinThreads", "exit"}
  /\ mpc \in {"closeAll", "closeOne", "joinThreads", "exit"} => spc = "done"

ServerFdReserved == fds[ServerFd] \in {Listener, NoConn}

\* A connection that is not accepted yet has left no trace in the process.
Unaccepted(c) == link[c] = "fresh" \/ c \in backlog
UnacceptedUnknown ==
  /\ \A c \in backlog : link[c] # "fresh"
  /\ \A c \in Conn : Unaccepted(c) =>
       /\ hpc[c] = "none" /\ c # sconn
       /\ \A f \in FD : fds[f] # c
       /\ \A i \in 1..Len(table) : table[i].conn # c

OneDescriptor ==
  \A f, g \in FD : fds[f] = fds[g] /\ fds[f] \in Conn => f = g

OneEntry ==
  /\ \A i \in 1..Len(table) : table[i].addr = AddrOf[table[i].conn]
  /\ \A i, j \in 1..Len(table) : table[i].conn = table[j].conn => i = j

ServerHolds ==
  /\ spc \in {"check", "refuse", "append", "spawn"} =>
       fds[sfd] = sconn /\ hpc[sconn] = "none"
  /\ spc \in {"check", "refuse", "append"} =>
       \A i \in 1..Len(table) : table[i].conn # sconn

HandlerHolds ==
  \A c \in Conn :
    /\ Busy(c) => OwnSocket(fds[hfd[c]], c)
    /\ hon[c] \in {c, NoConn}

EntryHolds ==
  \A i \in 1..Len(table) : table[i].connected =>
    OwnSocket(fds[table[i].fd], table[i].conn) /\ hpc[table[i].conn] # "close"

SocketInv ==
  /\ MainQuits /\ ServerFdReserved /\ UnacceptedUnknown /\ OneDescriptor
  /\ OneEntry /\ ServerHolds /\ HandlerHolds /\ EntryHolds

LEMMA InitSocketInv == Init => SocketInv
BY DEF Init, SocketInv, MainQuits, ServerFdReserved, UnacceptedUnknown,
       Unaccepted, OneDescriptor, OneEntry, ServerHolds, HandlerHolds, Busy,
       EntryHolds, Conn

\* Removing an entry of the process's array leaves entries of it, each once.
LEMMA TableRemoveDistinct ==
  ASSUME TypeInv, OneEntry, NEW a
  PROVE  /\ \A i, j \in 1..Len(RemoveEntry(table, a)) :
              RemoveEntry(table, a)[i].conn = RemoveEntry(table, a)[j].conn => i = j
         /\ \A j \in 1..Len(RemoveEntry(table, a)) :
              \E k \in 1..Len(table) : RemoveEntry(table, a)[j] = table[k]
<1>1. table \in Seq(Entry(Conn, Addr, FD))
  BY DEF TypeInv, TypeOK
<1>2. \A i, j \in 1..Len(table) : table[i].conn = table[j].conn => i = j
  BY DEF OneEntry
<1> QED  BY <1>1, <1>2, RemoveEntryDistinct

\* A peer whose address no other peer has is no longer listed once it is removed.
LEMMA TableRemoveGone ==
  ASSUME TypeInv, OneEntry, OnlyServing, NEW c \in Conn
  PROVE  \A j \in 1..Len(RemoveEntry(table, AddrOf[c])) :
           RemoveEntry(table, AddrOf[c])[j].conn # c
<1>1. table \in Seq(Entry(Conn, Addr, FD))
  BY DEF TypeInv, TypeOK
<1>2. \A i, j \in 1..Len(table) : table[i].conn = table[j].conn => i = j
  BY DEF OneEntry
<1>3. \A i \in 1..Len(table) : table[i] \in Entry(Conn, Addr, FD)
  BY <1>1, ElementOfSeq
<1>4. \A i \in 1..Len(table) : table[i].conn \in Conn
  BY <1>3 DEF Entry
<1>5. \A i, j \in 1..Len(table) : table[i].addr = table[j].addr => i = j
  BY <1>4 DEF OneEntry, OnlyServing
<1>6. \A j \in 1..Len(RemoveEntry(table, AddrOf[c])) :
        RemoveEntry(table, AddrOf[c])[j].addr # AddrOf[c]
  BY <1>1, <1>5, RemoveEntryGone
<1> QED  BY <1>6, TableRemoveDistinct DEF OneEntry

LEMMA NextSocketInv ==
  ASSUME OnlyServing, TypeInv, SocketInv, [Next]_vars
  PROVE  SocketInv'
<1>0. /\ table \in Seq(Entry(Conn, Addr, FD)) /\ Len(table) \in Nat
      /\ \A i \in 1..Len(table) : table[i] \in Entry(Conn, Addr, FD)
      /\ Conn = Inbound /\ Dials = {}
  BY LenProperties, ElementOfSeq DEF TypeInv, TypeOK, OnlyServing, Conn
<1> USE DEF OnlyServing, TypeInv, TypeOK, LocalsOK, SocketInv, MainQuits,
            ServerFdReserved, UnacceptedUnknown, Unaccepted, OneDescriptor,
            OneEntry, ServerHolds, HandlerHolds, Busy, OwnSocket, EntryHolds,
            Socket, netVars, mainVars, serverVars, handlerVars
<1>1. ASSUME NEW c \in Dials, Connect(c) PROVE SocketInv'
  BY <1>0, <1>1 DEF Connect
<1>2. ASSUME NEW a \in Addr, Disconnect(a) PROVE SocketInv'
  BY <1>0, <1>2 DEF Disconnect
<1>3. ASSUME Quit PROVE SocketInv'
  BY <1>0, <1>3 DEF Quit, ShutRead
<1>4. ASSUME NEW c \in Inbound, RemoteConnect(c) PROVE SocketInv'
  BY <1>0, <1>4 DEF RemoteConnect
<1>5. ASSUME NEW c \in Dials, RemoteAccept(c) PROVE SocketInv'
  BY <1>0, <1>5 DEF RemoteAccept
<1>6. ASSUME NEW c \in Conn, RemoteClose(c) PROVE SocketInv'
  BY <1>0, <1>6 DEF RemoteClose
<1>7. ASSUME NEW c \in Conn, NEW p \in Traffic, RemoteSend(c, p) PROVE SocketInv'
  BY <1>0, <1>7 DEF RemoteSend
<1>8. ASSUME SrvAccept PROVE SocketInv'
  <2>1. PICK c \in backlog, f \in FD :
          /\ fds[f] = NoConn /\ fds' = [fds EXCEPT ![f] = c]
          /\ sconn' = c /\ sfd' = f /\ backlog' = backlog \ {c}
    BY <1>8 DEF SrvAccept, Free, Lowest
  <2>2. /\ spc = "accept" /\ spc' = "check" /\ f # ServerFd /\ c \in Conn
        /\ UNCHANGED <<link, inbox, rdshut, table, threads, mainVars,
                       handlerVars>>
    BY <1>0, <1>8, <2>1 DEF SrvAccept, Listening
  <2>3. \A g \in FD : g # f => fds'[g] = fds[g]
    BY <2>1
  <2>4. fds'[f] = c /\ fds[f] = NoConn /\ fds[f] \notin Conn
    BY <2>1
  <2>5. /\ hpc[c] = "none" /\ \A g \in FD : fds[g] # c
        /\ \A i \in 1..Len(table) : table[i].conn # c
    BY <2>1, <2>2
  <2>6. UnacceptedUnknown'
    BY <1>0, <2>1, <2>2, <2>3, <2>4, <2>5
  <2>7. OneDescriptor' /\ ServerFdReserved'
    BY <2>1, <2>2, <2>3, <2>4, <2>5
  <2>8. ServerHolds'
    BY <1>0, <2>1, <2>2, <2>4, <2>5
  <2>9. HandlerHolds'
    BY <1>0, <2>1, <2>2, <2>3, <2>4, <2>5
  <2>10. EntryHolds'
    BY <1>0, <2>1, <2>2, <2>3, <2>4, <2>5 DEF Entry
  <2> QED  BY <1>0, <2>1, <2>2, <2>6, <2>7, <2>8, <2>9, <2>10
<1>9. ASSUME SrvAcceptFails PROVE SocketInv'
  BY <1>0, <1>9 DEF SrvAcceptFails, Close
<1>10. ASSUME SrvCheck PROVE SocketInv'
  BY <1>0, <1>10 DEF SrvCheck
<1>11. ASSUME SrvRefuse PROVE SocketInv'
  BY <1>0, <1>11 DEF SrvRefuse, SrvLoop, Close
<1>12. ASSUME SrvAppend PROVE SocketInv'
  <2>1. CASE spc' = "wedged" /\ table' = table
    <3>1. UNCHANGED <<netVars, fds, mainVars, sconn, sfd, handlerVars>>
      BY <1>12 DEF SrvAppend
    <3>2. ServerHolds'
      BY <2>1
    <3>3. HandlerHolds' /\ EntryHolds' /\ OneEntry' /\ OneDescriptor'
      BY <1>12, <2>1, <3>1 DEF SrvAppend
    <3>4. MainQuits' /\ ServerFdReserved' /\ UnacceptedUnknown'
      BY <1>12, <2>1, <3>1 DEF SrvAppend
    <3> QED  BY <3>2, <3>3, <3>4
  <2>2. CASE table' = Append(table, [fd |-> sfd, addr |-> AddrOf[sconn],
                                     connected |-> TRUE, conn |-> sconn])
    <3> DEFINE e == [fd |-> sfd, addr |-> AddrOf[sconn], connected |-> TRUE,
                     conn |-> sconn]
    <3>1. /\ Len(table') = Len(table) + 1
          /\ \A i \in 1..Len(table) : table'[i] = table[i]
          /\ table'[Len(table) + 1] = e
      BY <1>0, <2>2
    <3>2. \A i \in 1..Len(table') :
            (i \in 1..Len(table) /\ table'[i] = table[i]) \/
            (i = Len(table) + 1 /\ table'[i] = e)
      BY <1>0, <3>1
    <3>3. /\ e.conn = sconn /\ e.fd = sfd /\ e.addr = AddrOf[sconn]
          /\ sconn \in Conn /\ fds[sfd] = sconn /\ hpc[sconn] = "none"
          /\ \A i \in 1..Len(table) : table[i].conn # sconn
      BY <1>12 DEF SrvAppend, Conn
    <3> HIDE DEF e
    <3>. UNCHANGED <<link, backlog, hpc, sconn, fds>>
      BY <1>12 DEF SrvAppend
    <3>4. UnacceptedUnknown'
      <4>1. ASSUME NEW c \in Conn, Unaccepted(c)
            PROVE  /\ hpc[c] = "none" /\ c # sconn /\ \A f \in FD : fds[f] # c
                   /\ \A i \in 1..Len(table) : table[i].conn # c
        BY <4>1
      <4>2. \A c \in Conn : Unaccepted(c) => \A i \in 1..Len(table') : table'[i].conn # c
        <5> HIDE DEF SocketInv, TypeInv
        <5> QED  BY <3>2, <3>3, <4>1
      <4>3. \A c \in backlog : link[c] # "fresh"
        OBVIOUS
      <4> HIDE DEF SocketInv, TypeInv
      <4> QED  BY <4>1, <4>2, <4>3
    <3>5. OneEntry'
      <4>0. /\ \A i \in 1..Len(table) : table[i].addr = AddrOf[table[i].conn]
            /\ \A i, j \in 1..Len(table) :
                 table[i].conn = table[j].conn => i = j
        OBVIOUS
      <4> HIDE DEF TypeInv, SocketInv
      <4>1. \A i \in 1..Len(table') : table'[i].addr = AddrOf[table'[i].conn]
        BY <3>2, <3>3, <4>0
      <4>2. \A i, j \in 1..Len(table') :
              table'[i].conn = table'[j].conn => i = j
        BY <1>0, <3>2, <3>3, <4>0
      <4> QED  BY <4>1, <4>2
    <3>6. EntryHolds'
      BY <1>0, <1>12, <3>2, <3>3 DEF SrvAppend
    <3>7. spc' \in {"spawn", "wedged"}
      BY <1>12 DEF SrvAppend
    <3> QED  BY <1>0, <1>12, <3>4, <3>5, <3>6, <3>7 DEF SrvAppend
  <2> QED  BY <1>12, <2>1, <2>2 DEF SrvAppend
<1>13. ASSUME SrvSpawn PROVE SocketInv'
  <2>0. /\ spc = "spawn" /\ sfd \in FD /\ fds[sfd] = sconn /\ hpc[sconn] = "none"
        /\ sconn \in Conn /\ sconn # NoConn
        /\ UNCHANGED <<netVars, table, threads, mainVars, sconn, sfd, hon>>
    BY <1>0, <1>13 DEF SrvSpawn
  <2>1. CASE /\ spc' = "record" /\ hpc' = [hpc EXCEPT ![sconn] = "start"]
             /\ hfd' = [hfd EXCEPT ![sconn] = sfd] /\ fds' = fds
    <3>1. \A d \in Conn : d # sconn => hpc'[d] = hpc[d] /\ hfd'[d] = hfd[d]
      BY <2>1
    <3>2. hpc'[sconn] = "start" /\ hfd'[sconn] = sfd
      BY <2>0, <2>1
    <3>3. HandlerHolds'
      BY <2>0, <2>1, <3>1, <3>2
    <3>4. UnacceptedUnknown'
      BY <2>0, <2>1, <3>1
    <3>5. EntryHolds'
      BY <1>0, <2>0, <2>1, <3>1, <3>2 DEF Entry
    <3>6. MainQuits' /\ ServerFdReserved' /\ OneDescriptor' /\ OneEntry' /\ ServerHolds'
      BY <2>0, <2>1
    <3> QED  BY <3>3, <3>4, <3>5, <3>6
  <2>2. CASE spc' = "exited" /\ fds' = [fds EXCEPT ![sfd] = NoConn] /\ UNCHANGED <<hpc, hfd>>
    <3>1. \A f \in FD : fds'[f] = fds[f] \/ (f = sfd /\ fds'[f] = NoConn)
      BY <2>2
    <3>2. \A f \in FD : fds'[f] # fds[f] => fds[f] = sconn
      BY <2>0, <3>1
    <3>3. HandlerHolds'
      <4>1. \A c \in Conn : Busy(c) => fds[hfd[c]] = c /\ hfd[c] \in FD /\ c # sconn
        BY <2>0
      <4> QED  BY <2>0, <2>2, <3>2, <4>1
    <3>4. UnacceptedUnknown'
      BY <2>0, <2>2, <3>1
    <3>5. EntryHolds'
      <4>1. \A i \in 1..Len(table) : table[i].connected =>
              fds[table[i].fd] = table[i].conn /\ hpc[table[i].conn] # "close"
        BY <2>0
      <4> QED  BY <1>0, <2>0, <2>2, <3>1, <4>1 DEF Entry
    <3>6. MainQuits' /\ ServerFdReserved' /\ OneDescriptor' /\ OneEntry' /\ ServerHolds'
      BY <2>0, <2>2, <3>1
    <3> QED  BY <3>3, <3>4, <3>5, <3>6
  <2> QED  BY <1>13, <2>1, <2>2 DEF SrvSpawn, Close
<1>14. ASSUME SrvRecord PROVE SocketInv'
  BY <1>0, <1>14 DEF SrvRecord, SrvLoop, AppendThread
<1>15. ASSUME NEW c \in Conn, HSendACP(c) PROVE SocketInv'
  <2>1. \E pc \in {"loop", "done"} : hpc' = [hpc EXCEPT ![c] = pc]
    BY <1>15 DEF HSendACP, Goto
  <2> QED  BY <1>0, <1>15, <2>1 DEF HSendACP
<1>16. ASSUME NEW c \in Conn, HRecvEnter(c) PROVE SocketInv'
  <2>1. CASE hpc' = [hpc EXCEPT ![c] = "lost"] /\ hon' = hon
    BY <1>0, <1>16, <2>1 DEF HRecvEnter
  <2>2. CASE /\ fds[hfd[c]] \in Conn /\ hpc' = [hpc EXCEPT ![c] = "recv"]
             /\ hon' = [hon EXCEPT ![c] = fds[hfd[c]]]
    <3>1. fds[hfd[c]] = c
      BY <1>16, <2>2 DEF HRecvEnter
    <3> QED  BY <1>0, <1>16, <2>2, <3>1 DEF HRecvEnter
  <2> QED  BY <1>16, <2>1, <2>2 DEF HRecvEnter, Goto
<1>17. ASSUME NEW c \in Conn, HReceive(c) PROVE SocketInv'
  <2>1. \E pc \in {"loop", "dsn", "reply", "ack"} : hpc' = [hpc EXCEPT ![c] = pc]
    BY <1>17 DEF HReceive, Goto
  <2> QED  BY <1>0, <1>17, <2>1 DEF HReceive
<1>18. ASSUME NEW c \in Conn, HRecvEnds(c) PROVE SocketInv'
  BY <1>0, <1>18 DEF HRecvEnds, Goto
<1>19. ASSUME NEW c \in Conn, HSetConnected(c) PROVE SocketInv'
  BY <1>0, <1>19 DEF HSetConnected, Goto
<1>20. ASSUME NEW c \in Conn, HFree(c) PROVE SocketInv'
  BY <1>0, <1>20 DEF HFree, Goto
<1>20b. ASSUME NEW c \in Conn, HSend(c) PROVE SocketInv'
  <2>1. CASE hpc' = [hpc EXCEPT ![c] = "loop"] /\ hon' = hon
    BY <1>0, <1>20b, <2>1 DEF HSend
  <2>2. CASE hpc' = hpc /\ hon' = [hon EXCEPT ![c] = c]
    BY <1>0, <1>20b, <2>2 DEF HSend
  <2> QED  BY <1>0, <1>20b, <2>1, <2>2 DEF HSend, AfterSend, Goto
<1>20c. ASSUME NEW c \in Conn, HSent(c) PROVE SocketInv'
  <2>1. AfterSend(c) = "loop"
    BY <1>0, <1>20c DEF HSent, AfterSend
  <2> QED  BY <1>0, <1>20c, <2>1 DEF HSent, Goto
<1>20d. ASSUME NEW c \in Conn, RemoteReads(c) PROVE SocketInv'
  <2>1. ~MainSaid
    BY DEF MainSaid
  <2> QED  BY <1>20c, <1>20d, <2>1 DEF RemoteReads
<1>20a. ASSUME NEW c \in Conn, HShift(c) PROVE SocketInv'
  <2> DEFINE r == RemoveEntry(table, AddrOf[c])
  <2>1. /\ \A i, j \in 1..Len(r) : r[i].conn = r[j].conn => i = j
        /\ \A j \in 1..Len(r) : \E k \in 1..Len(table) : r[j] = table[k]
    BY TableRemoveDistinct
  <2>2. /\ table' = r /\ hpc' = [hpc EXCEPT ![c] = "lost"] /\ hpc[c] = "shift"
        /\ UNCHANGED <<link, backlog, fds, spc, sconn, sfd, mpc, hfd, hon>>
    BY <1>20a DEF HShift, Goto
  <2> HIDE DEF r
  <2>3. HandlerHolds'
    BY <2>2
  <2>4. ServerHolds'
    <3>1. spc \in {"check", "refuse", "append", "spawn"} => hpc[sconn] = "none"
      OBVIOUS
    <3>2. spc \in {"check", "refuse", "append", "spawn"} =>
            sconn \in Conn /\ hpc'[sconn] = "none"
      BY <1>0, <2>2, <3>1
    <3>3. spc \in {"check", "refuse", "append", "spawn"} => fds[sfd] = sconn
      OBVIOUS
    <3>4. spc \in {"check", "refuse", "append"} =>
            \A i \in 1..Len(table) : table[i].conn # sconn
      OBVIOUS
    <3> HIDE DEF SocketInv, TypeInv
    <3> QED  BY <2>1, <2>2, <3>2, <3>3, <3>4
  <2>5. UnacceptedUnknown'
    <3>1. ASSUME NEW d \in Conn, Unaccepted(d)
          PROVE  /\ hpc[d] = "none" /\ d # sconn /\ \A f \in FD : fds[f] # d
                 /\ \A i \in 1..Len(table) : table[i].conn # d
      BY <3>1
    <3>2. \A d \in backlog : link[d] # "fresh"
      OBVIOUS
    <3>3. hpc[c] # "none" /\ hpc \in [Conn -> HandlerPC]
      BY <1>0, <2>2
    <3> HIDE DEF SocketInv, TypeInv
    <3>4. ASSUME NEW d \in Conn, Unaccepted(d)
          PROVE  /\ hpc'[d] = "none" /\ d # sconn /\ \A f \in FD : fds[f] # d
                 /\ \A j \in 1..Len(r) : r[j].conn # d
      BY <2>1, <2>2, <3>1, <3>3, <3>4
    <3>5. UNCHANGED <<link, backlog, fds, sconn>> /\ table' = r
      BY <2>2
    <3>6. \A d \in Conn : Unaccepted(d)' => Unaccepted(d)
      BY <3>5
    <3>7. ASSUME NEW d \in Conn, Unaccepted(d)'
          PROVE  (/\ hpc[d] = "none" /\ d # sconn /\ \A f \in FD : fds[f] # d
                  /\ \A j \in 1..Len(table) : table[j].conn # d)'
      BY <3>4, <3>5, <3>6, <3>7
    <3>8. (\A d \in backlog : link[d] # "fresh")'
      BY <3>2, <3>5
    <3> HIDE DEF Unaccepted
    <3> QED  BY <3>7, <3>8
  <2>6. OneEntry'
    BY <2>1, <2>2
  <2>7. EntryHolds'
    <3> SUFFICES ASSUME NEW j \in 1..Len(r), r[j].connected
                 PROVE  /\ OwnSocket(fds[r[j].fd], r[j].conn)
                        /\ hpc'[r[j].conn] # "close"
      BY <2>2
    <3>1. PICK k \in 1..Len(table) : r[j] = table[k]
      BY <2>1
    <3>2. r[j].conn \in Conn
      BY <1>0, <3>1 DEF Entry
    <3>3. OwnSocket(fds[r[j].fd], r[j].conn) /\ hpc[r[j].conn] # "close"
      BY <3>1
    <3> QED  BY <2>2, <3>2, <3>3
  <2>8. MainQuits' /\ ServerFdReserved' /\ OneDescriptor'
    BY <2>2
  <2> HIDE DEF MainQuits, ServerFdReserved, UnacceptedUnknown, OneDescriptor,
               OneEntry, ServerHolds, HandlerHolds, EntryHolds
  <2> QED  BY <2>3, <2>4, <2>5, <2>6, <2>7, <2>8
<1>21. ASSUME NEW c \in Conn, HSetDisconnected(c) PROVE SocketInv'
  <2> DEFINE s == SetDisconnected(table, AddrOf[c])
  <2>1. /\ Len(s) = Len(table)
        /\ \A i \in 1..Len(table) :
             /\ s[i].fd = table[i].fd /\ s[i].addr = table[i].addr
             /\ s[i].conn = table[i].conn
             /\ s[i].connected <=>
                  table[i].connected /\ i \notin FirstWith(table, AddrOf[c])
    BY <1>0, SetDisconnectedType
  <2>2. ASSUME NEW i \in 1..Len(table), table[i].conn = c
        PROVE  ~s[i].connected
    <3>0. \A j \in 1..Len(table) : table[j].conn \in Conn
      BY <1>0 DEF Entry
    <3>1. \A j \in 1..Len(table) : table[j].addr = AddrOf[c] => j = i
      <4>1. /\ \A j \in 1..Len(table) : table[j].addr = AddrOf[table[j].conn]
            /\ \A j, k \in 1..Len(table) : table[j].conn = table[k].conn => j = k
            /\ \A d, e \in Conn : AddrOf[d] = AddrOf[e] => d = e
        OBVIOUS
      <4> HIDE DEF SocketInv, TypeInv, OnlyServing
      <4> QED  BY <2>2, <3>0, <4>1
    <3>2. i \in FirstWith(table, AddrOf[c])
      BY <1>0, <2>2, <3>1, LenProperties DEF FirstWith
    <3> QED  BY <2>1, <3>2
  <2>3. /\ table' = s /\ hpc' = [hpc EXCEPT ![c] = "close"]
        /\ hpc[c] = "lost"
        /\ UNCHANGED <<link, backlog, fds, spc, sconn, sfd, mpc, hfd, hon>>
    BY <1>21 DEF HSetDisconnected, Goto
  <2> HIDE DEF s
  <2>4. HandlerHolds'
    BY <2>3
  <2>5. ServerHolds'
    <3>1. spc \in {"check", "refuse", "append", "spawn"} => hpc[sconn] = "none"
      OBVIOUS
    <3>2. spc \in {"check", "refuse", "append", "spawn"} =>
            sconn \in Conn /\ hpc'[sconn] = "none"
      BY <1>0, <2>3, <3>1
    <3>3. spc \in {"check", "refuse", "append", "spawn"} => fds[sfd] = sconn
      OBVIOUS
    <3>4. spc \in {"check", "refuse", "append"} =>
            \A i \in 1..Len(table) : table[i].conn # sconn
      OBVIOUS
    <3> HIDE DEF SocketInv, TypeInv
    <3> QED  BY <2>1, <2>3, <3>2, <3>3, <3>4
  <2>6. UnacceptedUnknown'
    <3> SUFFICES ASSUME NEW d \in Conn, Unaccepted(d)
                 PROVE  /\ hpc'[d] = "none" /\ d # sconn
                        /\ \A f \in FD : fds[f] # d
                        /\ \A i \in 1..Len(table) : s[i].conn # d
      BY <2>1, <2>3
    <3>1. /\ hpc[d] = "none" /\ d # sconn /\ \A f \in FD : fds[f] # d
          /\ \A i \in 1..Len(table) : table[i].conn # d
      OBVIOUS
    <3>2. hpc'[d] = "none"
      BY <2>3, <3>1
    <3> QED  BY <2>1, <3>1, <3>2
  <2>7. OneEntry'
    <3>1. /\ \A i \in 1..Len(table) : table[i].addr = AddrOf[table[i].conn]
          /\ \A i, j \in 1..Len(table) : table[i].conn = table[j].conn => i = j
      OBVIOUS
    <3> HIDE DEF SocketInv, TypeInv
    <3> QED  BY <2>1, <2>3, <3>1
  <2>8. EntryHolds'
    <3> SUFFICES ASSUME NEW i \in 1..Len(table), s[i].connected
                 PROVE  /\ OwnSocket(fds[s[i].fd], s[i].conn)
                        /\ hpc'[s[i].conn] # "close"
      BY <2>1, <2>3
    <3>1. table[i].connected /\ table[i].conn \in Conn /\ table[i].conn # c
      BY <1>0, <2>1, <2>2 DEF Entry
    <3>2. OwnSocket(fds[table[i].fd], table[i].conn) /\ hpc[table[i].conn] # "close"
      BY <3>1
    <3>3. s[i].fd = table[i].fd /\ s[i].conn = table[i].conn
      BY <2>1
    <3>4. hpc'[table[i].conn] = hpc[table[i].conn]
      BY <2>3, <3>1
    <3> QED  BY <3>2, <3>3, <3>4
  <2> QED  BY <2>3, <2>4, <2>5, <2>6, <2>7, <2>8
<1>22. ASSUME NEW c \in Conn, HClose(c) PROVE SocketInv'
  <2>1. /\ hfd[c] \in FD /\ OwnSocket(fds[hfd[c]], c)
        /\ hpc' = [hpc EXCEPT ![c] = "done"] /\ hpc[c] = "close"
        /\ fds' = [fds EXCEPT ![hfd[c]] = NoConn]
    BY <1>22 DEF HClose, Close, Goto
  <2>2. \A f \in FD : fds'[f] = fds[f] \/ (fds[f] = c /\ fds'[f] = NoConn)
    BY <2>1
  <2>3. HandlerHolds' /\ ServerHolds'
    BY <1>0, <1>22, <2>1, <2>2 DEF HClose
  <2>4. UnacceptedUnknown' /\ OneDescriptor' /\ ServerFdReserved'
    BY <1>0, <1>22, <2>1, <2>2 DEF HClose
  <2>5. EntryHolds'
    <3>1. /\ \A i \in 1..Len(table) : table[i].fd \in FD /\ table[i].conn \in Conn
          /\ \A i \in 1..Len(table) : table[i].connected =>
               OwnSocket(fds[table[i].fd], table[i].conn) /\ hpc[table[i].conn] # "close"
      BY <1>0 DEF Entry
    <3>2. UNCHANGED <<table, spc>>
      BY <1>22 DEF HClose
    <3>3. \A i \in 1..Len(table) : table[i].connected => table[i].conn # c
      BY <2>1, <3>1
    <3>4. \A d \in Conn : hpc'[d] = "close" => hpc[d] = "close"
      BY <2>1
    <3> HIDE DEF SocketInv, TypeInv
    <3> QED  BY <2>1, <2>2, <3>1, <3>2, <3>3, <3>4
  <2> QED  BY <1>0, <1>22, <2>3, <2>4, <2>5 DEF HClose
<1>23. ASSUME MainKnown PROVE SocketInv'
  BY <1>0, <1>23 DEF MainKnown
<1>24. ASSUME MainCapacity PROVE SocketInv'
  BY <1>0, <1>24 DEF MainCapacity
<1>25. ASSUME MainDial PROVE SocketInv'
  BY <1>0, <1>25 DEF MainDial
<1>26. ASSUME MainAppend PROVE SocketInv'
  BY <1>0, <1>26 DEF MainAppend
<1>27. ASSUME MainSpawn PROVE SocketInv'
  BY <1>0, <1>27 DEF MainSpawn
<1>28. ASSUME MainRecord PROVE SocketInv'
  BY <1>0, <1>28 DEF MainRecord, AppendThread
<1>29. ASSUME MainAwait PROVE SocketInv'
  BY <1>0, <1>29 DEF MainAwait
<1>29a. ASSUME MainFlag PROVE SocketInv'
  BY <1>0, <1>29a DEF MainFlag
<1>30. ASSUME MainFind PROVE SocketInv'
  BY <1>0, <1>30 DEF MainFind
<1>30a. ASSUME MainSay PROVE SocketInv'
  BY <1>0, <1>30a DEF MainSay
<1>30b. ASSUME MainSaid PROVE SocketInv'
  BY <1>0, <1>30b DEF MainSaid
<1>31. ASSUME MainShut PROVE SocketInv'
  BY <1>0, <1>31 DEF MainShut
<1>32. ASSUME MainClose PROVE SocketInv'
  BY <1>0, <1>32 DEF MainClose
<1>33. ASSUME MainRemove PROVE SocketInv'
  BY <1>0, <1>33 DEF MainRemove
<1>34. ASSUME MainCloseServer PROVE SocketInv'
  <2>1. /\ fds' = [fds EXCEPT ![ServerFd] = NoConn] /\ mpc' = "joinServer"
        /\ UNCHANGED <<netVars, table, threads, mcmd, maddr, mconn, mfd, midx,
                       serverVars, handlerVars>>
    BY <1>34 DEF MainCloseServer, Close
  <2>2. \A f \in FD : fds[f] \in Conn \cup {NoConn} => fds'[f] = fds[f]
    BY <2>1
  <2>3. HandlerHolds' /\ ServerHolds'
    BY <1>0, <2>1, <2>2
  <2>4. UnacceptedUnknown' /\ OneDescriptor' /\ ServerFdReserved'
    <3>1. UnacceptedUnknown'
      BY <1>0, <2>1
    <3>2. OneDescriptor'
      BY <1>0, <2>1
    <3>3. ServerFdReserved'
      BY <1>0, <2>1
    <3> QED  BY <3>1, <3>2, <3>3
  <2>5. EntryHolds'
    <3>1. \A i \in 1..Len(table) : table[i].fd \in FD /\ table[i].conn \in Conn
      BY <1>0 DEF Entry
    <3>2. \A i \in 1..Len(table) : table[i].connected =>
            OwnSocket(fds[table[i].fd], table[i].conn) /\ hpc[table[i].conn] # "close"
      OBVIOUS
    <3>3. UNCHANGED <<table, hpc, spc>>
      BY <2>1
    <3> HIDE DEF SocketInv, TypeInv
    <3>4. ASSUME NEW i \in 1..Len(table), table[i].connected
          PROVE  OwnSocket(fds'[table[i].fd], table[i].conn)
      BY <2>2, <3>1, <3>2, <3>4
    <3> QED  BY <3>2, <3>3, <3>4
  <2> QED  BY <1>0, <2>1, <2>3, <2>4, <2>5
<1>35. ASSUME MainJoinServer PROVE SocketInv'
  BY <1>0, <1>35 DEF MainJoinServer
<1>36. ASSUME MainCloseAll PROVE SocketInv'
  BY <1>0, <1>36 DEF MainCloseAll, ShutRead
<1>37. ASSUME MainCloseOne PROVE SocketInv'
  BY <1>0, <1>37 DEF MainCloseOne, Close
<1>38. ASSUME MainJoinThreads PROVE SocketInv'
  BY <1>0, <1>38 DEF MainJoinThreads
<1>39. CASE UNCHANGED vars
  BY <1>39 DEF vars
<1> QED
    BY <1>1, <1>2, <1>3, <1>4, <1>5, <1>6, <1>7, <1>8, <1>9, <1>10, <1>11,
     <1>12, <1>13, <1>14, <1>15, <1>16, <1>17, <1>18, <1>19, <1>20, <1>20a,
     <1>20b, <1>20c, <1>20d, <1>21, <1>22, <1>23, <1>24, <1>25, <1>26, <1>27,
     <1>28, <1>29, <1>29a, <1>30, <1>30a, <1>30b, <1>31, <1>32, <1>33, <1>34,
     <1>35, <1>36, <1>37, <1>38, <1>39
     DEF Next, User, Remote, MainStep, Server, Handler, HSendEnds, MainSayEnds

\* In a process that only serves, no thread acts on the socket of another
\* connection: the descriptor numbers that accept hands out again and again are
\* closed once, by the handler that owns them (peer.c:183-186).
THEOREM ServingSocketsNeverMixedUp ==
  ASSUME OnlyServing
  PROVE  Spec => []SocketsNeverMixedUp
<1>1. TypeInv /\ SocketInv => SocketsNeverMixedUp
  <2> SUFFICES ASSUME TypeInv, SocketInv PROVE SocketsNeverMixedUp
    OBVIOUS
  <2>1. DOMAIN table = 1..Len(table)
    BY LenProperties DEF TypeInv, TypeOK
  <2>2. \A c \in Conn : Serving(c) => fds[hfd[c]] \in {c, NoConn}
    <3>1. \A c \in Conn : Serving(c) => Busy(c)
      BY DEF Serving, Busy, TypeInv, TypeOK, HandlerPC
    <3> QED  BY <3>1 DEF SocketInv, HandlerHolds, OwnSocket
  <2>4. \A c \in Conn : hon[c] \in {c, NoConn}
    BY DEF SocketInv, HandlerHolds
  <2>3. \A i \in DOMAIN table : table[i].connected =>
          fds[table[i].fd] \in {table[i].conn, NoConn}
    <3> TAKE i \in DOMAIN table
    <3> HAVE table[i].connected
    <3>1. OwnSocket(fds[table[i].fd], table[i].conn)
      BY <2>1 DEF SocketInv, EntryHolds
    <3> QED  BY <3>1 DEF OwnSocket
  <2> QED  BY <2>2, <2>3, <2>4, Zenon DEF SocketsNeverMixedUp
<1>2. TypeInv /\ SocketInv /\ [Next]_vars => SocketInv'
  BY NextSocketInv
<1> QED  BY TypeInvariant, InitSocketInv, <1>1, <1>2, PTL DEF Spec

(* ---------------------- places that are given back --------------------- *)
\* Until QUIT, a thread that runs owns its descriptor, and so does one that ended
\* with its peer still listed as connected.
Owes(c) == Busy(c) \/ (hpc[c] = "done" /\ Listed(c))
PlacesInv ==
  /\ mpc # "input" => mcmd = "QUIT"
  /\ mcmd # "QUIT" => \A c \in Conn : Owes(c) => fds[hfd[c]] = c

\* What is to be shown of a step that is not main's.
LEMMA PlacesKept ==
  ASSUME PlacesInv, UNCHANGED <<mpc, mcmd>>,
         \A c \in Conn : Owes(c)' =>
           \/ fds'[hfd'[c]] = c
           \/ Owes(c) /\ hfd'[c] = hfd[c] /\ (fds[hfd[c]] = c => fds'[hfd[c]] = c)
  PROVE  PlacesInv'
BY DEF PlacesInv

LEMMA NextPlacesInv ==
  ASSUME OnlyServing, TypeInv, SocketInv, PlacesInv, [Next]_vars
  PROVE  PlacesInv'
<1>0. /\ table \in Seq(Entry(Conn, Addr, FD)) /\ Len(table) \in Nat
      /\ DOMAIN table = 1..Len(table)
      /\ hpc \in [Conn -> HandlerPC] /\ fds \in [FD -> Socket \cup {NoConn}]
      /\ hfd \in [Conn -> FD \cup {NoConn}]
      /\ Conn = Inbound /\ Dials = {} /\ NoConn \notin Conn /\ Listener \notin Conn
      /\ \A c \in Conn : hpc[c] # "none" => hfd[c] \in FD
      /\ \A c \in Conn : Owes(c) => hfd[c] \in FD
  BY LenProperties DEF TypeInv, TypeOK, LocalsOK, OnlyServing, Conn, Owes, Busy
<1> USE DEF netVars, mainVars, serverVars, handlerVars
<1>1. ASSUME mcmd' = "QUIT" PROVE PlacesInv'
  BY <1>1 DEF PlacesInv
<1>2. ASSUME UNCHANGED <<mpc, mcmd, fds, hpc, hfd>>,
             \A c \in Conn : hpc[c] = "done" /\ Listed(c)' => Listed(c)
      PROVE  PlacesInv'
  <2>1. \A c \in Conn : Owes(c)' => Owes(c)
    BY <1>2 DEF Owes, Busy
  <2> QED  BY <1>2, <2>1, PlacesKept
<1>3. ASSUME NEW c \in Conn, Busy(c), hpc' = [hpc EXCEPT ![c] = hpc'[c]],
             UNCHANGED <<mpc, mcmd, fds, hfd>>,
             \A d \in Conn : Listed(d)' => Listed(d)
      PROVE  PlacesInv'
  <2>1. \A d \in Conn : Owes(d)' => Owes(d)
    BY <1>0, <1>3 DEF Owes, Busy
  <2> QED  BY <1>3, <2>1, PlacesKept
<1>12. ASSUME NEW c \in Conn,
              \/ HSendACP(c) \/ HRecvEnter(c) \/ HReceive(c) \/ HRecvEnds(c)
              \/ HSend(c) \/ HSent(c) \/ HFree(c)
       PROVE  PlacesInv'
  <2>1. Busy(c) /\ UNCHANGED <<table, mpc, mcmd, fds, hfd>>
    BY <1>12 DEF HSendACP, HRecvEnter, HReceive, HRecvEnds, HSend, HSent, HFree, Busy
  <2>2. hpc' = [hpc EXCEPT ![c] = hpc'[c]]
    BY <1>0, <1>12 DEF HSendACP, HRecvEnter, HReceive, HRecvEnds, HSend, HSent, HFree,
       Goto
  <2> QED  BY <1>3, <2>1, <2>2 DEF Listed
<1>4. CASE Remote
  <2>1. ASSUME NEW c \in Conn, RemoteReads(c) PROVE PlacesInv'
    BY <1>12, <2>1 DEF RemoteReads, MainSaid, SocketInv, MainQuits
  <2> QED
    BY <1>2, <1>4, <2>1 DEF Remote, RemoteConnect, RemoteAccept, RemoteClose, RemoteSend,
       Listed
<1>5. CASE User
  BY <1>0, <1>1, <1>5 DEF User, Connect, Disconnect, Quit, OnlyServing
<1>6. CASE MainStep
  <2>1. \/ MainCloseServer \/ MainJoinServer \/ MainCloseAll \/ MainCloseOne
        \/ MainJoinThreads
    BY <1>6 DEF MainStep, SocketInv, MainQuits, MainKnown, MainCapacity, MainDial,
       MainAppend, MainSpawn, MainRecord, MainAwait, MainFlag, MainFind, MainSay,
       MainSayEnds, MainSaid, MainShut, MainClose, MainRemove
  <2>2. mpc # "input" /\ UNCHANGED mcmd
    BY <2>1 DEF MainCloseServer, MainJoinServer, MainCloseAll, MainCloseOne,
       MainJoinThreads
  <2> QED  BY <1>1, <2>2 DEF PlacesInv
<1>7. CASE SrvAccept
  <2>1. PICK c \in backlog, f \in FD : fds[f] = NoConn /\ fds' = [fds EXCEPT ![f] = c]
    BY <1>7 DEF SrvAccept, Free, Lowest
  <2>2. UNCHANGED <<table, mpc, mcmd, hpc, hfd>>
    BY <1>7 DEF SrvAccept
  <2>3. \A d \in Conn : Owes(d)' =>
          Owes(d) /\ hfd'[d] = hfd[d] /\ (fds[hfd[d]] = d => fds'[hfd[d]] = d)
    BY <1>0, <2>1, <2>2 DEF Owes, Busy, Listed
  <2> QED  BY <2>2, <2>3, PlacesKept
<1>8. CASE SrvAcceptFails \/ SrvRefuse
  <2>1. \E f \in FD : /\ fds' = [fds EXCEPT ![f] = NoConn]
                      /\ \A d \in Conn : fds[f] = d => hpc[d] = "none"
    <3>1. CASE SrvAcceptFails
      <4>1. ServerFd \in FD /\ fds' = [fds EXCEPT ![ServerFd] = NoConn]
        BY <3>1, FdAssumption DEF SrvAcceptFails, Close
      <4>2. fds[ServerFd] \notin Conn
        BY <1>0 DEF SocketInv, ServerFdReserved
      <4> QED  BY <4>1, <4>2
    <3>2. CASE SrvRefuse
      BY <1>0, <3>2 DEF SrvRefuse, Close, SocketInv, ServerHolds, TypeInv, LocalsOK
    <3> QED  BY <1>8, <3>1, <3>2
  <2>2. UNCHANGED <<table, mpc, mcmd, hpc, hfd>>
    BY <1>8 DEF SrvAcceptFails, SrvRefuse
  <2>3. \A d \in Conn : Owes(d)' =>
          Owes(d) /\ hfd'[d] = hfd[d] /\ (fds[hfd[d]] = d => fds'[hfd[d]] = d)
    BY <1>0, <2>1, <2>2 DEF Owes, Busy, Listed
  <2> QED  BY <2>2, <2>3, PlacesKept
<1>9. CASE SrvCheck \/ SrvRecord
  BY <1>2, <1>9 DEF SrvCheck, SrvRecord, SrvLoop, Listed
<1>10. CASE SrvAppend
  <2>1. UNCHANGED <<mpc, mcmd, fds, hpc, hfd>> /\ hpc[sconn] = "none"
    BY <1>10 DEF SrvAppend, SocketInv, ServerHolds
  <2>2. ASSUME NEW c \in Conn, hpc[c] = "done", Listed(c)' PROVE Listed(c)
    <3>1. CASE table' = table
      BY <2>2, <3>1 DEF Listed
    <3>2. CASE table' = Append(table, [fd |-> sfd, addr |-> AddrOf[sconn],
                                       connected |-> TRUE, conn |-> sconn])
      <4> DEFINE e == [fd |-> sfd, addr |-> AddrOf[sconn], connected |-> TRUE,
                       conn |-> sconn]
      <4>1. e.conn = sconn /\ c # sconn
        BY <2>1, <2>2
      <4> HIDE DEF e
      <4>2. /\ DOMAIN table' = 1..(Len(table) + 1)
            /\ \A i \in 1..Len(table) : table'[i] = table[i]
            /\ table'[Len(table) + 1] = e
        BY <1>0, <3>2 DEF e
      <4> QED  BY <1>0, <2>2, <4>1, <4>2 DEF Listed
    <3> QED  BY <1>10, <3>1, <3>2 DEF SrvAppend
  <2> QED  BY <1>2, <2>1, <2>2
<1>11. CASE SrvSpawn
  <2>1. /\ sconn \in Conn /\ sfd \in FD /\ fds[sfd] = sconn /\ hpc[sconn] = "none"
        /\ UNCHANGED <<table, mpc, mcmd>>
    BY <1>0, <1>11 DEF SrvSpawn, SocketInv, ServerHolds, TypeInv, LocalsOK, Conn
  <2>2. \A d \in Conn : Owes(d)' =>
          \/ fds'[hfd'[d]] = d
          \/ Owes(d) /\ hfd'[d] = hfd[d] /\ (fds[hfd[d]] = d => fds'[hfd[d]] = d)
    <3>1. CASE /\ hfd' = [hfd EXCEPT ![sconn] = sfd]
               /\ hpc' = [hpc EXCEPT ![sconn] = "start"] /\ fds' = fds
      BY <1>0, <2>1, <3>1 DEF Owes, Busy, Listed
    <3>2. CASE fds' = [fds EXCEPT ![sfd] = NoConn] /\ UNCHANGED <<hpc, hfd>>
      BY <1>0, <2>1, <3>2 DEF Owes, Busy, Listed
    <3> QED  BY <1>11, <3>1, <3>2 DEF SrvSpawn, Close
  <2> QED  BY <2>1, <2>2, PlacesKept
<1>13. ASSUME NEW c \in Conn, HSetConnected(c) PROVE PlacesInv'
  BY <1>0, <1>13 DEF HSetConnected, TypeInv, LocalsOK
<1>14. ASSUME NEW c \in Conn, HShift(c) PROVE PlacesInv'
  <2> DEFINE r == RemoveEntry(table, AddrOf[c])
  <2>1. Busy(c) /\ UNCHANGED <<mpc, mcmd, fds, hfd>> /\ table' = r
    BY <1>14 DEF HShift, Busy
  <2>2. hpc' = [hpc EXCEPT ![c] = hpc'[c]]
    BY <1>0, <1>14 DEF HShift, Goto
  <2>3. \A j \in 1..Len(r) : \E k \in 1..Len(table) : r[j] = table[k]
    BY TableRemoveDistinct DEF SocketInv
  <2>4. DOMAIN r = 1..Len(r)
    BY <1>0, RemoveEntryType, LenProperties
  <2> HIDE DEF r
  <2>5. \A d \in Conn : Listed(d)' => Listed(d)
    BY <1>0, <2>1, <2>3, <2>4 DEF Listed
  <2> QED  BY <1>3, <2>1, <2>2, <2>5
<1>15. ASSUME NEW c \in Conn, HSetDisconnected(c) PROVE PlacesInv'
  <2> DEFINE s == SetDisconnected(table, AddrOf[c])
  <2>1. Busy(c) /\ UNCHANGED <<mpc, mcmd, fds, hfd>> /\ table' = s
    BY <1>15 DEF HSetDisconnected, Busy
  <2>2. hpc' = [hpc EXCEPT ![c] = hpc'[c]]
    BY <1>0, <1>15 DEF HSetDisconnected, Goto
  <2>3. /\ DOMAIN s = DOMAIN table
        /\ \A i \in 1..Len(table) :
             s[i].conn = table[i].conn /\ (s[i].connected => table[i].connected)
    BY <1>0, SetDisconnectedType DEF SetDisconnected
  <2> HIDE DEF s
  <2>5. \A d \in Conn : Listed(d)' => Listed(d)
    BY <1>0, <2>1, <2>3 DEF Listed
  <2> QED  BY <1>3, <2>1, <2>2, <2>5
<1>16. ASSUME NEW c \in Conn, HClose(c) PROVE PlacesInv'
  <2>1. /\ hfd[c] \in FD /\ OwnSocket(fds[hfd[c]], c) /\ hpc[c] = "close"
        /\ hpc' = [hpc EXCEPT ![c] = "done"]
        /\ fds' = [fds EXCEPT ![hfd[c]] = NoConn]
        /\ UNCHANGED <<table, mpc, mcmd, hfd>>
    BY <1>0, <1>16 DEF HClose, Close, Goto, SocketInv, HandlerHolds, Busy
  <2>2. ~Listed(c)
    BY <1>0, <2>1 DEF Listed, SocketInv, EntryHolds
  <2>3. \A d \in Conn : Owes(d)' =>
          Owes(d) /\ hfd'[d] = hfd[d] /\ (fds[hfd[d]] = d => fds'[hfd[d]] = d)
    BY <1>0, <2>1, <2>2 DEF Owes, Busy, Listed, OwnSocket
  <2> QED  BY <2>1, <2>3, PlacesKept
<1>17. CASE UNCHANGED vars
  BY <1>2, <1>17 DEF vars, Listed
<1> QED
  BY <1>4, <1>5, <1>6, <1>7, <1>8, <1>9, <1>10, <1>11, <1>12, <1>13, <1>14, <1>15,
     <1>16, <1>17 DEF Next, Server, Handler, HSendEnds

\* In a process that only serves, a handler that ended gave its peer's place back, or
\* its ACP failed, and then its descriptor is lost with the place: for any number of
\* peers, places and descriptors (peer.c:68, 183-186).
THEOREM ServingPlacesGivenBack ==
  ASSUME OnlyServing
  PROVE  Spec => []PlacesGivenBack
<1>1. Init => PlacesInv
  BY DEF Init, PlacesInv, Owes, Busy
<1>2. TypeInv /\ SocketInv /\ PlacesInv /\ [Next]_vars => SocketInv' /\ PlacesInv'
  BY NextSocketInv, NextPlacesInv
<1>3. PlacesInv => PlacesGivenBack
  BY DEF PlacesInv, Owes, PlacesGivenBack
<1> QED  BY TypeInvariant, InitSocketInv, <1>1, <1>2, <1>3, PTL DEF Spec

(* ----------------- QUIT wakes every handler that reads ----------------- *)
\* The descriptors that QUIT's loop over the array has closed
Visited(f) ==
  \/ mpc \in {"joinThreads", "exit"}
  \/ /\ mpc \in {"closeAll", "closeOne"}
     /\ \E i \in 1..Len(table) : i < midx /\ table[i].fd = f

EntryFor(c, f) == \E i \in 1..Len(table) : table[i].conn = c /\ table[i].fd = f

\* Every handler has its entry in the array, where the loop will find it; an entry
\* that was removed never comes back.
EntriesStay ==
  /\ \A c \in Conn : hpc[c] # "shift" /\ (hpc[c] # "none" => EntryFor(c, hfd[c]))
  /\ spc = "spawn" => EntryFor(sconn, sfd)
  /\ spc # "exited"

\* Between shutdown and close
ClosingShut ==
  mpc = "closeOne" => /\ midx \in 1..Len(table) /\ mfd = table[midx].fd
                      /\ fds[mfd] \in rdshut \cup {NoConn}

\* A handler that runs owns its descriptor until the loop has closed it; from then
\* on it blocks at most in a recv that ends, or in a send it was in already.
Awake(c) ==
  /\ ~Visited(hfd[c]) => fds[hfd[c]] = c
  /\ Visited(hfd[c]) => fds[hfd[c]] = NoConn /\ (hpc[c] = "recv" => c \in rdshut)
AllAwake == EntriesStay /\ ClosingShut /\ \A c \in Conn : Busy(c) => Awake(c)
WakeInv == EntriesStay => AllAwake

\* What is to be shown of a step that is not main's and leaves the entries'
\* descriptors as they are.
LEMMA WakeKept ==
  ASSUME AllAwake, EntriesStay', table \in Seq(Entry(Conn, Addr, FD)),
         UNCHANGED <<mpc, midx, mfd, rdshut>>, Len(table') = Len(table),
         \A i \in 1..Len(table) : table'[i].fd = table[i].fd,
         mpc = "closeOne" => fds'[mfd] \in {fds[mfd], NoConn},
         \A c \in Conn : Busy(c)' => Awake(c)'
  PROVE  AllAwake'
<1>1. ClosingShut'
  BY DEF AllAwake, ClosingShut
<1> QED  BY <1>1 DEF AllAwake

\* A handler that goes on and leaves the descriptors alone
LEMMA AwakeKept ==
  ASSUME AllAwake, UNCHANGED <<mpc, midx, table, rdshut, fds, hfd>>,
         NEW c \in Conn, Busy(c), hpc'[c] = "recv" => hpc[c] = "recv" \/ fds[hfd[c]] # NoConn
  PROVE  Awake(c)'
<1>1. Visited(hfd[c])' <=> Visited(hfd[c])
  BY DEF Visited
<1> QED  BY <1>1 DEF AllAwake, Awake

LEMMA NextAllAwake ==
  ASSUME OnlyServing, TypeInv, SocketInv, AllAwake, EntriesStay', [Next]_vars
  PROVE  AllAwake'
<1>t. /\ table \in Seq(Entry(Conn, Addr, FD)) /\ Len(table) \in Nat
      /\ \A i \in 1..Len(table) : table[i] \in Entry(Conn, Addr, FD)
  BY LenProperties, ElementOfSeq DEF TypeInv, TypeOK
<1>0. /\ table \in Seq(Entry(Conn, Addr, FD)) /\ Len(table) \in Nat
      /\ \A i \in 1..Len(table) : table[i].fd \in FD /\ table[i].conn \in Conn
      /\ hpc \in [Conn -> HandlerPC] /\ fds \in [FD -> Socket \cup {NoConn}]
      /\ hfd \in [Conn -> FD \cup {NoConn}] /\ midx \in Nat
      /\ Conn = Inbound /\ Dials = {} /\ NoConn \notin Conn /\ Listener \notin Conn
      /\ \A c \in Conn : hpc[c] # "none" => hfd[c] \in FD
  BY <1>t DEF TypeInv, TypeOK, LocalsOK, OnlyServing, Conn, Entry
<1> USE DEF netVars, mainVars, serverVars, handlerVars
<1>v. spc # "done" => \A f \in FD : ~Visited(f)
  BY DEF Visited, SocketInv, MainQuits
\* A step that changes nothing the invariant is about, but perhaps main's command
<1>1. ASSUME UNCHANGED <<mpc, midx, mfd, rdshut, table, fds, spc, sconn, sfd, hpc, hfd>>
      PROVE  AllAwake'
  BY <1>1 DEF AllAwake, EntriesStay, EntryFor, ClosingShut, Awake, Visited, Busy
\* A step of server_loop that leaves the descriptors of handlers as they are
<1>2. ASSUME UNCHANGED <<mpc, midx, mfd, rdshut, table, hpc, hfd>>, spc' # "spawn",
             mpc # "closeOne",
             \A d \in Conn : Busy(d) => fds'[hfd[d]] = fds[hfd[d]]
      PROVE  AllAwake'
  BY <1>2 DEF AllAwake, EntriesStay, EntryFor, ClosingShut, Awake, Visited, Busy
<1>15. ASSUME NEW c \in Conn,
              \/ HSendACP(c) \/ HRecvEnter(c) \/ HReceive(c) \/ HRecvEnds(c)
              \/ HSend(c) \/ HSent(c) \/ HFree(c)
       PROVE  AllAwake'
  <2>1. Busy(c) /\ UNCHANGED <<table, mpc, midx, mfd, rdshut, fds, spc, sconn, sfd, hfd>>
    BY <1>15 DEF HSendACP, HRecvEnter, HReceive, HRecvEnds, HSend, HSent, HFree, Busy
  <2>2. /\ hpc' = [hpc EXCEPT ![c] = hpc'[c]] /\ hpc'[c] # "none"
        /\ hpc'[c] = "recv" => fds[hfd[c]] # NoConn
    BY <1>0, <1>15 DEF HSendACP, HRecvEnter, HReceive, HRecvEnds, HSend, HSent, HFree,
       AfterSend, Goto
  <2>4. \A d \in Conn : Busy(d)' => Awake(d)'
    <3> TAKE d \in Conn
    <3>1. hpc'[d] = hpc[d] \/ d = c
      BY <1>0, <2>2
    <3>2. Busy(d)' => Busy(d) /\ (hpc'[d] = "recv" => hpc[d] = "recv" \/ fds[hfd[d]] # NoConn)
      BY <2>1, <2>2, <3>1 DEF Busy
    <3> QED  BY <2>1, <3>2, AwakeKept
  <2> QED  BY <1>0, <2>1, <2>4, WakeKept
<1>4. CASE Remote
  <2>1. ASSUME NEW c \in Conn, RemoteReads(c) PROVE AllAwake'
    BY <1>15, <2>1 DEF RemoteReads, MainSaid, SocketInv, MainQuits
  <2> QED
    BY <1>1, <1>4, <2>1 DEF Remote, RemoteConnect, RemoteAccept, RemoteClose, RemoteSend
<1>5. CASE User
  <2>1. Quit
    BY <1>0, <1>5 DEF User, Connect, Disconnect, OnlyServing
  <2>2. /\ mpc = "input" /\ mpc' = "closeServer" /\ rdshut \subseteq rdshut'
        /\ UNCHANGED <<fds, table, spc, sconn, sfd, hpc, hfd>>
    BY <2>1 DEF Quit, ShutRead
  <2> QED  BY <2>2 DEF AllAwake, EntriesStay, EntryFor, ClosingShut, Awake, Visited, Busy
<1>6. CASE MainCloseServer \/ MainJoinServer \/ MainJoinThreads
  <2>1. CASE MainCloseServer
    <3>1. /\ mpc = "closeServer" /\ mpc' = "joinServer"
          /\ fds' = [fds EXCEPT ![ServerFd] = NoConn]
          /\ UNCHANGED <<table, rdshut, spc, sconn, sfd, hpc, hfd>>
      BY <2>1 DEF MainCloseServer, Close
    <3>2. \A c \in Conn : fds[hfd[c]] = c => hfd[c] # ServerFd
      BY <1>0 DEF SocketInv, ServerFdReserved
    <3>3. \A c \in Conn : Busy(c)' => Awake(c)'
      BY <1>0, <3>1, <3>2 DEF AllAwake, Awake, Visited, Busy
    <3>4. EntriesStay' /\ ClosingShut'
      BY <3>1 DEF AllAwake, EntriesStay, EntryFor, ClosingShut
    <3> QED  BY <3>3, <3>4 DEF AllAwake
  <2>2. CASE MainJoinServer
    <3>1. /\ mpc = "joinServer" /\ mpc' = "closeAll" /\ midx' = 1
          /\ UNCHANGED <<fds, table, rdshut, spc, sconn, sfd, hpc, hfd>>
      BY <2>2 DEF MainJoinServer
    <3>2. \A f : ~Visited(f) /\ ~Visited(f)'
      BY <1>0, <3>1 DEF Visited
    <3>3. \A c \in Conn : Busy(c)' => Awake(c)'
      BY <3>1, <3>2 DEF AllAwake, Awake, Busy
    <3>4. EntriesStay' /\ ClosingShut'
      BY <3>1 DEF AllAwake, EntriesStay, EntryFor, ClosingShut
    <3> QED  BY <3>3, <3>4 DEF AllAwake
  <2>3. CASE MainJoinThreads
    BY <2>3 DEF MainJoinThreads, AllAwake, EntriesStay, EntryFor, ClosingShut, Awake,
       Visited, Busy
  <2> QED  BY <1>6, <2>1, <2>2, <2>3
<1>7. CASE MainCloseAll
  <2>1. mpc = "closeAll" /\ UNCHANGED <<fds, table, spc, sconn, sfd, hpc, hfd>>
    BY <1>7 DEF MainCloseAll
  <2>2. EntriesStay'
    BY <2>1 DEF AllAwake, EntriesStay, EntryFor
  <2>3. CASE midx > Len(table)
    <3>1. mpc' = "joinThreads" /\ rdshut' = rdshut
      BY <1>0, <1>7, <2>3 DEF MainCloseAll
    <3>2. ASSUME NEW c \in Conn, Busy(c) PROVE Visited(hfd[c])
      <4>1. EntryFor(c, hfd[c])
        BY <3>2 DEF AllAwake, EntriesStay, Busy
      <4> QED  BY <1>0, <2>1, <2>3, <4>1 DEF EntryFor, Visited
    <3>3. \A c \in Conn : Busy(c)' => Awake(c)'
      BY <2>1, <3>1, <3>2 DEF AllAwake, Awake, Busy, Visited
    <3> QED  BY <2>2, <3>1, <3>3 DEF AllAwake, ClosingShut
  <2>4. CASE midx <= Len(table)
    <3>0. Seen(midx) = {midx}
      BY DEF AllAwake, EntriesStay, Doomed, Seen
    <3>1. /\ mpc' = "closeOne" /\ mfd' = table[midx].fd /\ midx' = midx
          /\ rdshut' = rdshut \cup ({fds[table[midx].fd]} \ {NoConn})
      BY <1>0, <1>7, <2>4, <3>0 DEF MainCloseAll, ShutRead
    <3>2. \A f : Visited(f)' <=> Visited(f)
      BY <2>1, <3>1 DEF Visited
    <3>3. \A c \in Conn : Busy(c)' => Awake(c)'
      BY <2>1, <3>1, <3>2 DEF AllAwake, Awake, Busy
    <3>4. midx \in 1..Len(table)
      BY <1>0, <2>1, <2>4 DEF TypeInv, LocalsOK
    <3>5. ClosingShut'
      BY <2>1, <3>1, <3>4 DEF ClosingShut
    <3> QED  BY <2>2, <3>3, <3>5 DEF AllAwake
  <2> QED  BY <1>0, <2>3, <2>4
<1>8. CASE MainCloseOne
  <2>1. /\ mpc = "closeOne" /\ mpc' = "closeAll" /\ midx' = midx + 1
        /\ fds' = [fds EXCEPT ![mfd] = NoConn]
        /\ UNCHANGED <<rdshut, table, spc, sconn, sfd, hpc, hfd>>
    BY <1>8 DEF MainCloseOne, Close
  <2>2. /\ midx \in 1..Len(table) /\ mfd = table[midx].fd /\ mfd \in FD
        /\ fds[mfd] \in rdshut \cup {NoConn}
    BY <1>0, <2>1 DEF AllAwake, ClosingShut
  <2>3. \A f : Visited(f)' <=> Visited(f) \/ f = mfd
    BY <1>0, <2>1, <2>2 DEF Visited
  <2>4. ASSUME NEW c \in Conn, Busy(c)' PROVE Awake(c)'
    <3>1. Busy(c) /\ hfd[c] \in FD /\ Awake(c)
      BY <1>0, <2>1, <2>4 DEF AllAwake, Busy
    <3>2. CASE hfd[c] = mfd
      BY <1>0, <2>1, <2>2, <2>3, <3>1, <3>2 DEF Awake
    <3>3. CASE hfd[c] # mfd
      BY <2>1, <2>3, <3>1, <3>3 DEF Awake
    <3> QED  BY <3>2, <3>3
  <2>5. EntriesStay' /\ ClosingShut'
    BY <2>1 DEF AllAwake, EntriesStay, EntryFor, ClosingShut
  <2> QED  BY <2>4, <2>5 DEF AllAwake
<1>9. CASE MainStep
  <2>1. \/ MainCloseServer \/ MainJoinServer \/ MainCloseAll \/ MainCloseOne
        \/ MainJoinThreads
    BY <1>9 DEF MainStep, SocketInv, MainQuits, MainKnown, MainCapacity, MainDial,
       MainAppend, MainSpawn, MainRecord, MainAwait, MainFlag, MainFind, MainSay,
       MainSayEnds, MainSaid, MainShut, MainClose, MainRemove
  <2> QED  BY <1>6, <1>7, <1>8, <2>1
<1>10. CASE SrvAccept
  <2>1. PICK c \in backlog, f \in FD : fds[f] = NoConn /\ fds' = [fds EXCEPT ![f] = c]
    BY <1>10 DEF SrvAccept, Free, Lowest
  <2>2. /\ spc = "accept" /\ spc' = "check"
        /\ UNCHANGED <<table, mpc, midx, mfd, rdshut, hpc, hfd>>
    BY <1>10 DEF SrvAccept
  <2>3. mpc # "closeOne"
    BY <2>2 DEF SocketInv, MainQuits
  <2>4. \A d \in Conn : Busy(d) => fds'[hfd[d]] = fds[hfd[d]]
    BY <1>0, <1>v, <2>1, <2>2 DEF AllAwake, Awake, Busy
  <2> QED  BY <1>2, <2>2, <2>3, <2>4
<1>11. CASE SrvAcceptFails \/ SrvRefuse
  <2>1. /\ spc # "done" /\ spc' # "spawn"
        /\ UNCHANGED <<table, mpc, midx, mfd, rdshut, hpc, hfd>>
    BY <1>11 DEF SrvAcceptFails, SrvRefuse, SrvLoop
  <2>2. mpc # "closeOne"
    BY <2>1 DEF SocketInv, MainQuits
  <2>3. \E f \in FD : /\ fds' = [fds EXCEPT ![f] = NoConn]
                      /\ \A d \in Conn : fds[f] = d => hpc[d] = "none"
    <3>1. CASE SrvAcceptFails
      <4>1. ServerFd \in FD /\ fds' = [fds EXCEPT ![ServerFd] = NoConn]
        BY <3>1, FdAssumption DEF SrvAcceptFails, Close
      <4>2. fds[ServerFd] \notin Conn
        BY <1>0 DEF SocketInv, ServerFdReserved
      <4> QED  BY <4>1, <4>2
    <3>2. CASE SrvRefuse
      BY <1>0, <3>2 DEF SrvRefuse, Close, SocketInv, ServerHolds, TypeInv, LocalsOK
    <3> QED  BY <1>11, <3>1, <3>2
  <2>4. \A d \in Conn : Busy(d) => fds'[hfd[d]] = fds[hfd[d]]
    BY <1>0, <1>v, <2>1, <2>3 DEF AllAwake, Awake, Busy
  <2> QED  BY <1>2, <2>1, <2>2, <2>4
<1>12. CASE SrvCheck \/ SrvRecord
  <2>1. /\ UNCHANGED <<mpc, midx, mfd, rdshut, table, fds, hpc, hfd>> /\ spc' # "spawn"
        /\ spc # "done"
    BY <1>12 DEF SrvCheck, SrvRecord, SrvLoop
  <2>2. mpc # "closeOne"
    BY <2>1 DEF SocketInv, MainQuits
  <2> QED  BY <1>2, <2>1, <2>2
<1>13. CASE SrvAppend
  <2>0. UNCHANGED <<mpc, midx, mfd, rdshut, fds, sconn, sfd, hpc, hfd>> /\ spc = "append"
    BY <1>13 DEF SrvAppend
  <2>1. CASE table' = table /\ spc' # "spawn"
    <3>1. mpc # "closeOne"
      BY <2>0 DEF SocketInv, MainQuits
    <3> QED  BY <1>2, <2>0, <2>1, <3>1
  <2>2. CASE table' = Append(table, [fd |-> sfd, addr |-> AddrOf[sconn],
                                     connected |-> TRUE, conn |-> sconn])
    <3> DEFINE e == [fd |-> sfd, addr |-> AddrOf[sconn], connected |-> TRUE, conn |-> sconn]
    <3>1. e.fd = sfd /\ e.conn = sconn
      OBVIOUS
    <3> HIDE DEF e
    <3>2. /\ Len(table') = Len(table) + 1 /\ table'[Len(table) + 1] = e
          /\ \A i \in 1..Len(table) : table'[i] = table[i]
      BY <1>0, <2>2 DEF e
    <3>3. \A c, f : EntryFor(c, f) => EntryFor(c, f)'
      BY <1>0, <3>2 DEF EntryFor
    <3>4. EntryFor(sconn, sfd)'
      BY <1>0, <2>0, <3>1, <3>2 DEF EntryFor
    <3>5. EntriesStay'
      BY <2>0, <3>3, <3>4 DEF AllAwake, EntriesStay
    <3>6. mpc \notin {"closeAll", "closeOne", "joinThreads", "exit"}
      BY <2>0 DEF SocketInv, MainQuits
    <3>7. ClosingShut' /\ \A c \in Conn : Busy(c)' => Awake(c)'
      BY <2>0, <3>6 DEF AllAwake, ClosingShut, Awake, Visited, Busy
    <3> QED  BY <3>5, <3>7 DEF AllAwake
  <2> QED  BY <1>13, <2>1, <2>2 DEF SrvAppend
<1>14. CASE SrvSpawn
  <2>1. /\ sconn \in Conn /\ sfd \in FD /\ fds[sfd] = sconn /\ EntryFor(sconn, sfd)
        /\ hpc[sconn] = "none" /\ spc # "done" /\ spc' # "spawn"
        /\ UNCHANGED <<table, mpc, midx, mfd, rdshut>>
    BY <1>0, <1>14 DEF SrvSpawn, SocketInv, ServerHolds, TypeInv, LocalsOK, Conn, AllAwake,
       EntriesStay
  <2>2. mpc \notin {"closeAll", "closeOne", "joinThreads", "exit"}
    BY <2>1 DEF SocketInv, MainQuits
  <2>3. CASE /\ hpc' = [hpc EXCEPT ![sconn] = "start"] /\ hfd' = [hfd EXCEPT ![sconn] = sfd]
             /\ fds' = fds
    <3>1. ClosingShut' /\ \A c \in Conn : Busy(c)' => Awake(c)'
      BY <1>0, <2>1, <2>2, <2>3 DEF AllAwake, ClosingShut, Awake, Visited, Busy
    <3> QED  BY <3>1 DEF AllAwake
  <2>4. CASE fds' = [fds EXCEPT ![sfd] = NoConn] /\ UNCHANGED <<hpc, hfd>>
    <3>1. \A d \in Conn : Busy(d) => fds'[hfd[d]] = fds[hfd[d]]
      BY <1>0, <1>v, <2>1, <2>4 DEF AllAwake, Awake, Busy
    <3> QED  BY <1>2, <2>1, <2>2, <2>4, <3>1
  <2> QED  BY <1>14, <2>3, <2>4 DEF SrvSpawn, Close
<1>16. ASSUME NEW c \in Conn, HSetConnected(c) \/ HShift(c) PROVE AllAwake'
  BY <1>0, <1>16 DEF HSetConnected, HShift, TypeInv, LocalsOK, AllAwake, EntriesStay
<1>17. ASSUME NEW c \in Conn, HSetDisconnected(c) PROVE AllAwake'
  <2> DEFINE s == SetDisconnected(table, AddrOf[c])
  <2>1. /\ hpc[c] = "lost" /\ hpc' = [hpc EXCEPT ![c] = "close"] /\ table' = s
        /\ UNCHANGED <<mpc, midx, mfd, rdshut, fds, spc, sconn, sfd, hfd>>
    BY <1>17 DEF HSetDisconnected, Goto
  <2>2. /\ Len(s) = Len(table)
        /\ \A i \in 1..Len(table) : s[i].conn = table[i].conn /\ s[i].fd = table[i].fd
    BY <1>0, SetDisconnectedType
  <2> HIDE DEF s
  <2>3. \A f : Visited(f)' <=> Visited(f)
    BY <2>1, <2>2 DEF Visited
  <2>4. \A d \in Conn : Busy(d)' => Awake(d)'
    BY <1>0, <2>1, <2>3 DEF AllAwake, Awake, Busy
  <2> QED  BY <1>0, <2>1, <2>2, <2>4, WakeKept
<1>18. ASSUME NEW c \in Conn, HClose(c) PROVE AllAwake'
  <2>1. /\ hfd[c] \in FD /\ Busy(c) /\ OwnSocket(fds[hfd[c]], c)
        /\ hpc' = [hpc EXCEPT ![c] = "done"] /\ hpc[c] # "none"
        /\ fds' = [fds EXCEPT ![hfd[c]] = NoConn]
        /\ UNCHANGED <<table, mpc, midx, mfd, rdshut, spc, sconn, sfd, hfd>>
    BY <1>0, <1>18 DEF HClose, Close, Goto, SocketInv, HandlerHolds, Busy
  <2>2. \A d \in Conn : Busy(d)' => d # c /\ Busy(d)
    BY <1>0, <2>1 DEF Busy
  <2>3. ASSUME NEW d \in Conn, Busy(d), d # c PROVE fds'[hfd[d]] = fds[hfd[d]]
    <3>1. Awake(d) /\ hfd[d] \in FD
      BY <1>0, <2>3 DEF AllAwake, Busy
    <3> QED  BY <1>0, <2>1, <2>3, <3>1 DEF Awake, OwnSocket
  <2>4. \A f : Visited(f)' <=> Visited(f)
    BY <2>1 DEF Visited
  <2>5. \A d \in Conn : Busy(d)' => Awake(d)'
    BY <1>0, <2>1, <2>2, <2>3, <2>4 DEF AllAwake, Awake
  <2>6. mpc = "closeOne" => fds'[mfd] \in {fds[mfd], NoConn}
    BY <1>0, <2>1 DEF TypeInv, LocalsOK
  <2> QED  BY <1>0, <2>1, <2>5, <2>6, WakeKept
<1>19. CASE UNCHANGED vars
  BY <1>1, <1>19 DEF vars
<1> QED
  BY <1>4, <1>5, <1>9, <1>10, <1>11, <1>12, <1>13, <1>14, <1>15, <1>16, <1>17, <1>18,
     <1>19 DEF Next, Server, Handler, HSendEnds

\* An entry that is missing stays missing: only server_loop appends, for a peer that
\* has no handler yet.
LEMMA EntriesStayBack ==
  ASSUME OnlyServing, TypeInv, SocketInv, [Next]_vars, EntriesStay'
  PROVE  EntriesStay
<1>0. /\ table \in Seq(Entry(Conn, Addr, FD)) /\ Len(table) \in Nat
      /\ hpc \in [Conn -> HandlerPC] /\ hfd \in [Conn -> FD \cup {NoConn}]
      /\ Conn = Inbound /\ Dials = {}
  BY LenProperties DEF TypeInv, TypeOK, OnlyServing, Conn
<1> USE DEF netVars, mainVars, serverVars, handlerVars
<1>r. spc # "exited" \/ UNCHANGED vars
  BY DEF Next, Running
<1>13. CASE UNCHANGED vars
  BY <1>13 DEF vars, EntriesStay, EntryFor
<1>1. ASSUME UNCHANGED hfd, spc = "spawn" => UNCHANGED <<spc, sconn, sfd>>,
             \A c \in Conn : \/ hpc[c] = "none"
                             \/ hpc[c] # "shift" /\ hpc'[c] # "none"
                             \/ hpc'[c] = hpc[c],
             \A c \in Conn, f \in FD \cup {NoConn} :
               EntryFor(c, f)' => EntryFor(c, f) \/ (hpc[c] = "none" /\ spc # "spawn")
      PROVE  EntriesStay
  <2>0. \A c, f : EntryFor(c, f)' <=>
                    \E i \in 1..Len(table') : table'[i].conn = c /\ table'[i].fd = f
    BY DEF EntryFor
  <2>1. \A c \in Conn : hpc[c] # "shift" /\ (hpc[c] # "none" => EntryFor(c, hfd[c]))
    <3> SUFFICES ASSUME NEW c \in Conn
                 PROVE  hpc[c] # "shift" /\ (hpc[c] # "none" => EntryFor(c, hfd[c]))
      OBVIOUS
    <3>1. /\ hpc'[c] # "shift"
          /\ hpc'[c] # "none" => \E i \in 1..Len(table') :
                                   table'[i].conn = c /\ table'[i].fd = hfd[c]
      BY <1>1 DEF EntriesStay, EntryFor
    <3>2. hfd[c] \in FD \cup {NoConn}
      BY <1>0
    <3>3. hpc'[c] # "none" => EntryFor(c, hfd[c]) \/ hpc[c] = "none"
      BY <1>1, <2>0, <3>1, <3>2
    <3> QED  BY <1>1, <3>1, <3>3
  <2>2. spc = "spawn" => EntryFor(sconn, sfd)
    <3>1. spc = "spawn" => /\ sconn \in Conn /\ sfd \in FD
                           /\ \E i \in 1..Len(table') :
                                table'[i].conn = sconn /\ table'[i].fd = sfd
      BY <1>0, <1>1 DEF EntriesStay, EntryFor, TypeInv, LocalsOK
    <3> QED  BY <1>1, <2>0, <3>1
  <2> QED  BY <1>r, <1>13, <2>1, <2>2 DEF EntriesStay
<1>2. ASSUME UNCHANGED <<table, hpc, hfd>>, spc = "spawn" => UNCHANGED <<spc, sconn, sfd>>
      PROVE  EntriesStay
  BY <1>r, <1>13, <1>2 DEF EntriesStay, EntryFor
<1>3. ASSUME NEW c \in Conn,
             \/ HSendACP(c) \/ HRecvEnter(c) \/ HReceive(c) \/ HRecvEnds(c) \/ HSend(c)
             \/ HSent(c) \/ HFree(c) \/ HClose(c)
      PROVE  EntriesStay
  <2>1. /\ UNCHANGED <<table, hfd, spc, sconn, sfd>> /\ hpc[c] # "shift"
        /\ hpc' = [hpc EXCEPT ![c] = hpc'[c]] /\ hpc'[c] # "none"
    BY <1>0, <1>3 DEF HSendACP, HRecvEnter, HReceive, HRecvEnds, HSend, HSent, HFree,
       HClose, AfterSend, Goto
  <2>2. \A d, f : EntryFor(d, f)' <=> EntryFor(d, f)
    BY <2>1 DEF EntryFor
  <2> QED  BY <1>0, <1>1, <2>1, <2>2
<1>4. ASSUME NEW c \in Conn, HShift(c) PROVE EntriesStay
  <2> DEFINE r == RemoveEntry(table, AddrOf[c])
  <2>1. /\ hpc[c] = "shift" /\ hpc' = [hpc EXCEPT ![c] = "lost"] /\ table' = r /\ hfd' = hfd
    BY <1>4 DEF HShift, Goto
  <2>2. EntryFor(c, hfd[c])'
    BY <1>0, <2>1 DEF EntriesStay
  <2>3. PICK j \in 1..Len(r) : r[j].conn = c
    BY <2>1, <2>2 DEF EntryFor
  <2>5. \A k \in 1..Len(r) : r[k].conn # c
    BY TableRemoveGone DEF SocketInv
  <2> QED  BY <2>3, <2>5
<1>5. ASSUME NEW c \in Conn, HSetConnected(c) PROVE EntriesStay
  BY <1>0, <1>5 DEF HSetConnected, TypeInv, LocalsOK
<1>6. ASSUME NEW c \in Conn, HSetDisconnected(c) PROVE EntriesStay
  <2> DEFINE s == SetDisconnected(table, AddrOf[c])
  <2>1. /\ hpc[c] = "lost" /\ hpc' = [hpc EXCEPT ![c] = "close"] /\ table' = s
        /\ UNCHANGED <<spc, sconn, sfd, hfd>>
    BY <1>6 DEF HSetDisconnected, Goto
  <2>2. /\ Len(s) = Len(table)
        /\ \A i \in 1..Len(table) : s[i].conn = table[i].conn /\ s[i].fd = table[i].fd
    BY <1>0, SetDisconnectedType
  <2> HIDE DEF s
  <2>3. \A d, f : EntryFor(d, f)' => EntryFor(d, f)
    BY <2>1, <2>2 DEF EntryFor
  <2> QED  BY <1>0, <1>1, <2>1, <2>3
<1>7. CASE Remote
  <2>1. ASSUME NEW c \in Conn, RemoteReads(c) PROVE EntriesStay
    BY <1>3, <2>1 DEF RemoteReads, MainSaid, SocketInv, MainQuits
  <2> QED
    BY <1>2, <1>7, <2>1 DEF Remote, RemoteConnect, RemoteAccept, RemoteClose, RemoteSend
<1>8. CASE User
  BY <1>2, <1>8 DEF User, Connect, Disconnect, Quit
<1>9. CASE MainStep
  <2>1. \/ MainCloseServer \/ MainJoinServer \/ MainCloseAll \/ MainCloseOne
        \/ MainJoinThreads
    BY <1>9 DEF MainStep, SocketInv, MainQuits, MainKnown, MainCapacity, MainDial,
       MainAppend, MainSpawn, MainRecord, MainAwait, MainFlag, MainFind, MainSay,
       MainSayEnds, MainSaid, MainShut, MainClose, MainRemove
  <2> QED
    BY <1>2, <2>1 DEF MainCloseServer, MainJoinServer, MainCloseAll, MainCloseOne,
       MainJoinThreads
<1>10. CASE SrvAccept \/ SrvAcceptFails \/ SrvCheck \/ SrvRefuse \/ SrvRecord
  BY <1>2, <1>10 DEF SrvAccept, SrvAcceptFails, SrvCheck, SrvRefuse, SrvRecord
<1>11. CASE SrvAppend
  <2>1. spc = "append" /\ UNCHANGED <<hpc, hfd>> /\ hpc[sconn] = "none"
    BY <1>11 DEF SrvAppend, SocketInv, ServerHolds
  <2>2. CASE UNCHANGED table
    BY <1>2, <2>1, <2>2
  <2>3. CASE table' = Append(table, [fd |-> sfd, addr |-> AddrOf[sconn],
                                     connected |-> TRUE, conn |-> sconn])
    <3> DEFINE e == [fd |-> sfd, addr |-> AddrOf[sconn], connected |-> TRUE,
                     conn |-> sconn]
    <3>1. e.conn = sconn
      OBVIOUS
    <3> HIDE DEF e
    <3>2. /\ Len(table') = Len(table) + 1 /\ table'[Len(table) + 1] = e
          /\ \A i \in 1..Len(table) : table'[i] = table[i]
      BY <1>0, <2>3 DEF e
    <3>3. \A d, f : EntryFor(d, f)' => EntryFor(d, f) \/ d = sconn
      BY <1>0, <3>1, <3>2 DEF EntryFor
    <3> QED  BY <1>0, <1>1, <2>1, <3>3
  <2> QED  BY <1>11, <2>2, <2>3 DEF SrvAppend
<1>12. CASE SrvSpawn
  <2>1. /\ sconn \in Conn /\ hpc[sconn] = "none" /\ spc = "spawn"
        /\ UNCHANGED <<table, sconn, sfd>>
    BY <1>0, <1>12 DEF SrvSpawn, SocketInv, ServerHolds, TypeInv, LocalsOK, Conn
  <2>2. CASE hpc' = [hpc EXCEPT ![sconn] = "start"] /\ hfd' = [hfd EXCEPT ![sconn] = sfd]
    BY <1>0, <2>1, <2>2 DEF EntriesStay, EntryFor
  <2> QED  BY <1>12, <2>1, <2>2 DEF SrvSpawn, EntriesStay
<1> QED
  BY <1>3, <1>4, <1>5, <1>6, <1>7, <1>8, <1>9, <1>10, <1>11, <1>12, <1>13
     DEF Next, Server, Handler, HSendEnds

\* In a process that only serves, QUIT's loop over the array has woken every handler
\* that reads, or closed its descriptor, when main waits for them, unless one of them
\* has removed its entry: for any number of peers and descriptors (btide.c:408-415).
THEOREM ServingQuitWakesReaders ==
  ASSUME OnlyServing
  PROVE  Spec => []QuitWakesReaders
<1>1. Init => WakeInv
  BY DEF Init, WakeInv, AllAwake, EntriesStay, EntryFor, ClosingShut, Busy
<1>2. TypeInv /\ SocketInv /\ WakeInv /\ [Next]_vars => SocketInv' /\ WakeInv'
  BY NextSocketInv, NextAllAwake, EntriesStayBack DEF WakeInv
<1>3. TypeInv /\ SocketInv /\ WakeInv => QuitWakesReaders
  <2> SUFFICES ASSUME TypeInv, SocketInv, WakeInv, mpc = "joinThreads",
                      \A c \in Conn : hpc[c] # "none" => HasEntry(c),
                      NEW c \in Conn
               PROVE  /\ hpc[c] = "recv" => hon[c] \in rdshut
                      /\ hpc[c] \in {"start", "loop", "reply", "ack"} /\ hon[c] = NoConn
                           => fds[hfd[c]] = NoConn
    BY DEF QuitWakesReaders
  <2>1. spc = "done" /\ DOMAIN table = 1..Len(table)
    BY LenProperties DEF SocketInv, MainQuits, TypeInv, TypeOK
  <2>2. ASSUME NEW d \in Conn, hpc[d] = "shift" PROVE FALSE
    <3>1. PICK i \in DOMAIN table \ Doomed : table[i].conn = d
      BY <2>2 DEF HasEntry
    <3>2. \A k \in 1..Len(table) : table[k].conn \in Conn
      <4>1. \A k \in 1..Len(table) : table[k] \in Entry(Conn, Addr, FD)
        BY ElementOfSeq DEF TypeInv, TypeOK
      <4> QED  BY <4>1 DEF Entry
    <3>4. \A k \in 1..Len(table) : table[k].addr = AddrOf[d] => k = i
      BY <2>1, <3>1, <3>2 DEF SocketInv, OneEntry, OnlyServing
    <3>3. i \in FirstWith(table, AddrOf[d])
      BY <2>1, <3>1, <3>4, LenProperties DEF FirstWith, SocketInv, OneEntry, TypeInv, TypeOK
    <3> QED  BY <2>2, <3>1, <3>3 DEF Doomed
  <2>3. EntriesStay
    BY <2>1, <2>2 DEF EntriesStay, EntryFor, HasEntry
  <2> QED
    BY <2>3 DEF SocketInv, HandlerHolds, WakeInv, AllAwake, Awake, Visited, Busy, TypeInv,
       LocalsOK
<1> QED  BY TypeInvariant, InitSocketInv, <1>1, <1>2, <1>3, PTL DEF Spec
=============================================================================
