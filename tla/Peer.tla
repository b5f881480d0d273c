-------------------------------- MODULE Peer --------------------------------
(***************************************************************************)
(* One btide process: the main thread that reads commands (btide.c), the   *)
(* server thread that accepts peers (server_loop) and one handler thread   *)
(* per connection (server_handle_client, client_handle_server in peer.c),  *)
(* sharing the array of connections and the process's descriptors.  The    *)
(* other peers and the TCP stack are the environment.                      *)
(*                                                                         *)
(* A step is one operation under connections_mutex, one system call on a   *)
(* socket, or one iteration of a loop that reads the array WITHOUT the     *)
(* mutex; a call that may block is two steps, and a removal too, because   *)
(* the unlocked loops see what is between.  Of chunk traffic, REQ is here  *)
(* for the sends it makes; what they carry is in Transfer and Packages.    *)
(***************************************************************************)
EXTENDS ConnectionArray

CONSTANTS
  Inbound,     \* connections that other peers may open to this process
  Dials,       \* connections that CONNECT commands may open
  Addr,        \* (ip, port) pairs
  AddrOf,      \* the address each connection is keyed by
  FD,          \* descriptors of the process
  ServerFd,    \* the descriptor of the listening socket
  MaxPeers,    \* max_peers of the configuration file
  Capacity,    \* INITIAL_CAPACITY of the arrays
  Commands,    \* commands the user may type
  Traffic,     \* packets other peers may send on an open connection
  MaxInbox,    \* bound: packets unread on a connection
  Listener,    \* the listening socket
  NoConn       \* no socket, no connection

Conn == Inbound \cup Dials

ASSUME ConnAssumption ==
  /\ Inbound \cap Dials = {}
  /\ Listener \notin Conn
  /\ NoConn \notin Conn \cup {Listener} \cup Addr
  /\ Listener # NoConn
  /\ AddrOf \in [Conn -> Addr]
ASSUME FdAssumption == FD \subseteq Nat /\ ServerFd \in FD
ASSUME LimitAssumption ==
  MaxPeers \in Nat /\ Capacity \in Nat \ {0} /\ MaxInbox \in Nat
ASSUME InputAssumption ==
  /\ Commands \subseteq {"CONNECT", "DISCONNECT", "QUIT"}
  /\ Traffic \subseteq {"DSN", "PNG", "REQ"}

VARIABLES
  link,     \* per connection, the other peer's side of it
  inbox,    \* per connection, packets received by the kernel and not yet read
  rdshut,   \* sockets whose receiving side was shut down
  backlog,  \* connections established by the kernel, not yet accepted
  fds,      \* per descriptor, the socket it refers to
  table,    \* the array of connections
  threads,  \* the handlers whose thread is recorded in the array of threads
  mpc, mcmd, maddr, mconn, mfd, midx,  \* main: control, command and locals
  mon,      \* main: the socket its send is blocked on
  spc, sconn, sfd,                     \* server_loop: control and locals
  hpc, hfd, hon  \* handlers: control, client_socket, socket recv or send blocks on

netVars     == <<link, inbox, rdshut, backlog>>
mainVars    == <<mpc, mcmd, maddr, mconn, mfd, midx, mon>>
serverVars  == <<spc, sconn, sfd>>
handlerVars == <<hpc, hfd, hon>>
vars == <<netVars, fds, table, threads, mainVars, serverVars, handlerVars>>

Packet  == {"ACP"} \cup Traffic
Socket  == Conn \cup {Listener}
MainPC  == {"input", "known", "capacity", "dial", "append", "spawn", "record",
            "await", "flag", "find", "say", "shut", "close", "remove",
            "closeServer", "joinServer", "closeAll", "closeOne", "joinThreads",
            "exit", "wedged", "crashed"}
ServerPC  == {"accept", "check", "refuse", "append", "spawn", "record", "done",
              "wedged", "exited"}
HandlerPC == {"none", "start", "loop", "recv", "reply", "ack", "acp", "dsn",
              "shift", "lost", "close", "done"}

TypeOK ==
  /\ link \in [Conn -> {"fresh", "opening", "open", "closed"}]
  /\ inbox \in [Conn -> Seq(Packet)]
  /\ rdshut \subseteq Socket
  /\ backlog \subseteq Inbound
  /\ fds \in [FD -> Socket \cup {NoConn}]
  /\ table \in Seq(Entry(Conn, Addr, FD))
  /\ threads \subseteq Conn
  /\ mpc \in MainPC
  /\ mcmd \in Commands \cup {"none"}
  /\ maddr \in Addr \cup {NoConn}
  /\ mconn \in Conn \cup {NoConn}
  /\ mfd \in FD \cup {NoConn}
  /\ midx \in Nat
  /\ mon \in Conn \cup {NoConn}
  /\ spc \in ServerPC
  /\ sconn \in Conn \cup {NoConn}
  /\ sfd \in FD \cup {NoConn}
  /\ hpc \in [Conn -> HandlerPC]
  /\ hfd \in [Conn -> FD \cup {NoConn}]
  /\ hon \in [Conn -> Socket \cup {NoConn}]

Init ==
  /\ link = [c \in Conn |-> "fresh"]
  /\ inbox = [c \in Conn |-> <<>>]
  /\ rdshut = {} /\ backlog = {}
  /\ fds = [f \in FD |-> IF f = ServerFd THEN Listener ELSE NoConn]
  /\ table = <<>> /\ threads = {}
  /\ mpc = "input" /\ mcmd = "none" /\ maddr = NoConn
  /\ mconn = NoConn /\ mfd = NoConn /\ midx = 0 /\ mon = NoConn
  /\ spc = "accept" /\ sconn = NoConn /\ sfd = NoConn
  /\ hpc = [c \in Conn |-> "none"]
  /\ hfd = [c \in Conn |-> NoConn]
  /\ hon = [c \in Conn |-> NoConn]

(* ------------------- sockets, descriptors and the mutex ---------------- *)
Free == {f \in FD : fds[f] = NoConn}
Lowest(S) == {f \in S : \A g \in S : f <= g}

\* close(f): does nothing when f is closed already (EBADF)
Close(f) == fds' = [fds EXCEPT ![f] = NoConn]

\* shutdown(f, SHUT_RD): acts on whatever socket f refers to
ShutRead(f) == rdshut' = rdshut \cup ({fds[f]} \ {NoConn})

Listening == fds[ServerFd] = Listener /\ Listener \notin rdshut

\* A socket lives while a descriptor refers to it or a thread blocks on it.
Alive(c) == mon = c \/ (\E f \in FD : fds[f] = c) \/ (\E h \in Conn : hon[h] = c)

\* A thread that appends to a full array locks connections_mutex and then
\* locks it again in resize: it never gives it back (dyn_array.c:36-38, 27).
MutexAvailable ==
  /\ mpc # "wedged" /\ spc # "wedged"
  /\ \A c \in Conn : hpc[c] # "shift"

\* Entries whose ip address a removal has freed and that it has yet to overwrite
Doomed ==
  UNION {FirstWith(table, AddrOf[c]) : c \in {h \in Conn : hpc[h] = "shift"}}

\* What a thread without the mutex may find at position i: while the entries after
\* a doomed one move down, the entry itself or the next.
Seen(i) ==
  {i} \cup {j \in DOMAIN table : j = i + 1 /\ \E d \in Doomed : d <= i}

\* The process runs: AddressSanitizer has not stopped it, nor has exit(1).
Running == mpc # "crashed" /\ spc # "exited"

\* append_thread_array, under thread_mutex: with the array full its caller locks
\* the mutex twice and never returns (thread_array.c:30-32, 23).
AppendThread(c) ==
  /\ Cardinality(threads) < Capacity
  /\ threads' = threads \cup {c}

(* ----------------------------- environment ----------------------------- *)
\* Another peer connects to the listening socket.
RemoteConnect(c) ==
  /\ Listening /\ link[c] = "fresh"
  /\ link' = [link EXCEPT ![c] = "open"]
  /\ backlog' = backlog \cup {c}
  /\ UNCHANGED <<inbox, rdshut, fds, table, threads, mainVars, serverVars,
                 handlerVars>>

\* The peer we dialled accepts us: its handler's first packet is ACP.
RemoteAccept(c) ==
  /\ link[c] = "opening" /\ Alive(c)
  /\ link' = [link EXCEPT ![c] = "open"]
  /\ inbox' = [inbox EXCEPT ![c] = Append(@, "ACP")]
  /\ UNCHANGED <<rdshut, backlog, fds, table, threads, mainVars, serverVars,
                 handlerVars>>

RemoteSend(c, p) ==
  /\ link[c] = "open" /\ Len(inbox[c]) < MaxInbox
  /\ c \in backlog \/ Alive(c)
  /\ inbox' = [inbox EXCEPT ![c] = Append(@, p)]
  /\ UNCHANGED <<link, rdshut, backlog, fds, table, threads, mainVars,
                 serverVars, handlerVars>>

\* The other side closes or dies; what it sent before can still be read.
RemoteClose(c) ==
  /\ link[c] \in {"opening", "open"}
  /\ c \in backlog \/ Alive(c)
  /\ link' = [link EXCEPT ![c] = "closed"]
  /\ UNCHANGED <<inbox, rdshut, backlog, fds, table, threads, mainVars,
                 serverVars, handlerVars>>

(* ----------------------------- server_loop ----------------------------- *)
SrvAccept ==
  /\ spc = "accept" /\ Listening
  /\ \E c \in backlog, f \in Lowest(Free) :
       /\ backlog' = backlog \ {c}
       /\ fds' = [fds EXCEPT ![f] = c]
       /\ sconn' = c /\ sfd' = f
  /\ spc' = "check"
  /\ UNCHANGED <<link, inbox, rdshut, table, threads, mainVars, handlerVars>>

\* Mutant: a failed accept continues the loop instead of ending it.
MutSrvAcceptFails == spc = "accept" /\ ~Listening /\ UNCHANGED vars

\* accept fails when main has shut the listening socket down, or for lack of a
\* descriptor; either ends the loop for good.
SrvAcceptFails ==
  /\ spc = "accept"
  /\ ~Listening \/ (backlog # {} /\ Free = {})
  /\ Close(ServerFd)
  /\ backlog' = {}
  /\ link' = [c \in Conn |-> IF c \in backlog THEN "closed" ELSE link[c]]
  /\ spc' = "done"
  /\ UNCHANGED <<inbox, rdshut, table, threads, mainVars, sconn, sfd,
                 handlerVars>>

\* Mutant: the limit is compared with > instead of =.
MutSrvCheck ==
  /\ spc = "check" /\ MutexAvailable
  /\ spc' = IF TrueSize(table) > MaxPeers THEN "refuse" ELSE "append"
  /\ UNCHANGED <<netVars, fds, table, threads, mainVars, sconn, sfd,
                 handlerVars>>

SrvCheck ==
  /\ spc = "check" /\ MutexAvailable
  /\ spc' = IF TrueSize(table) = MaxPeers THEN "refuse" ELSE "append"
  /\ UNCHANGED <<netVars, fds, table, threads, mainVars, sconn, sfd,
                 handlerVars>>

SrvLoop == spc' = "accept" /\ sconn' = NoConn /\ sfd' = NoConn

SrvRefuse ==
  /\ spc = "refuse"
  /\ Close(sfd)
  /\ SrvLoop
  /\ UNCHANGED <<netVars, table, threads, mainVars, handlerVars>>

\* Mutant: the first two fields of the entry are initialised in the wrong order.
MutSrvAppend ==
  /\ spc = "append" /\ MutexAvailable
  /\ \/ /\ Len(table) < Capacity
        /\ table' = Append(table, [fd |-> AddrOf[sconn], addr |-> sfd,
                                   connected |-> TRUE, conn |-> sconn])
        /\ spc' = "spawn"
     \/ /\ Len(table) >= Capacity
        /\ spc' = "wedged"
        /\ UNCHANGED table
  /\ UNCHANGED <<netVars, fds, threads, mainVars, sconn, sfd, handlerVars>>

SrvAppend ==
  /\ spc = "append" /\ MutexAvailable
  /\ \/ /\ Len(table) < Capacity
        /\ table' = Append(table, [fd |-> sfd, addr |-> AddrOf[sconn],
                                   connected |-> TRUE, conn |-> sconn])
        /\ spc' = "spawn"
     \/ /\ Len(table) >= Capacity
        /\ spc' = "wedged"
        /\ UNCHANGED table
  /\ UNCHANGED <<netVars, fds, threads, mainVars, sconn, sfd, handlerVars>>

\* Without a thread for the peer the whole process ends, with exit(1).
SrvSpawn ==
  /\ spc = "spawn"
  /\ \/ /\ hpc' = [hpc EXCEPT ![sconn] = "start"]
        /\ hfd' = [hfd EXCEPT ![sconn] = sfd]
        /\ spc' = "record" /\ UNCHANGED fds
     \/ Close(sfd) /\ spc' = "exited" /\ UNCHANGED <<hpc, hfd>>
  /\ UNCHANGED <<netVars, table, threads, mainVars, sconn, sfd, hon>>

SrvRecord ==
  /\ spc = "record" /\ AppendThread(sconn)
  /\ SrvLoop
  /\ UNCHANGED <<netVars, fds, table, mainVars, handlerVars>>

Server == \/ SrvAccept \/ SrvAcceptFails \/ SrvCheck \/ SrvRefuse
          \/ SrvAppend \/ SrvSpawn \/ SrvRecord

(* --------- server_handle_client and client_handle_server --------------- *)
Goto(c, pc) == hpc' = [hpc EXCEPT ![c] = pc]

\* server_handle_client sends ACP first, into the empty buffer of a new connection.
\* When that fails (bad descriptor, or the peer has reset the connection) the
\* thread returns and cleans up nothing.
HSendACP(c) ==
  /\ hpc[c] = "start"
  /\ LET s == fds[hfd[c]] IN
       \/ s \in Conn /\ Goto(c, "loop")
       \/ s \notin Conn /\ Goto(c, "done")
       \/ s \in Conn /\ link[s] = "closed" /\ Goto(c, "done")
  /\ UNCHANGED <<netVars, fds, table, threads, mainVars, serverVars, hfd, hon>>

\* recv on client_socket: the socket is resolved now, the descriptor may be
\* closed, and even given to another connection, while the thread blocks.
HRecvEnter(c) ==
  /\ hpc[c] = "loop"
  /\ LET s == fds[hfd[c]] IN
       \/ s \in Conn /\ hon' = [hon EXCEPT ![c] = s] /\ Goto(c, "recv")
       \/ s \notin Conn /\ Goto(c, "lost") /\ UNCHANGED hon
  /\ UNCHANGED <<netVars, fds, table, threads, mainVars, serverVars, hfd>>

\* recv returns a packet; ACK, POG (and ACP at the accepting side) leave the
\* handler's state as it is.
HReceive(c) ==
  /\ hpc[c] = "recv" /\ inbox[hon[c]] # <<>>
  /\ LET p == Head(inbox[hon[c]]) IN
       \/ p = "DSN" /\ Goto(c, "dsn")
       \/ p \in {"PNG", "REQ"} /\ Goto(c, "reply")
       \/ p = "ACP" /\ Goto(c, IF c \in Dials THEN "ack" ELSE "loop")
  /\ inbox' = [inbox EXCEPT ![hon[c]] = Tail(@)]
  /\ hon' = [hon EXCEPT ![c] = NoConn]
  /\ UNCHANGED <<link, rdshut, backlog, fds, table, threads, mainVars,
                 serverVars, hfd>>

\* POG, the RES packets of a REQ (one send for all of them) and ACK: what the
\* handler does after the send, which it does not check.
AfterSend(c) == IF hpc[c] = "ack" THEN "acp" ELSE "loop"

\* send on client_socket: on a connection it may block, the buffer being full.
HSend(c) ==
  /\ hpc[c] \in {"reply", "ack"} /\ hon[c] = NoConn
  /\ LET s == fds[hfd[c]] IN
       \/ s \in Conn /\ hon' = [hon EXCEPT ![c] = s] /\ UNCHANGED hpc
       \/ s \notin Conn /\ Goto(c, AfterSend(c)) /\ UNCHANGED hon
  /\ UNCHANGED <<netVars, fds, table, threads, mainVars, serverVars, hfd>>

\* The send returns: there is room, or the connection is gone.
HSent(c) ==
  /\ hpc[c] \in {"reply", "ack"} /\ hon[c] # NoConn
  /\ Goto(c, AfterSend(c))
  /\ hon' = [hon EXCEPT ![c] = NoConn]
  /\ UNCHANGED <<netVars, fds, table, threads, mainVars, serverVars, hfd>>

HSendEnds(c) == hon[c] # NoConn /\ link[hon[c]] = "closed" /\ HSent(c)

\* Mutant: a lost connection is closed but not marked as disconnected.
MutHRecvEnds(c) ==
  /\ hpc[c] = "recv" /\ inbox[hon[c]] = <<>>
  /\ link[hon[c]] = "closed" \/ hon[c] \in rdshut
  /\ Goto(c, "close")
  /\ hon' = [hon EXCEPT ![c] = NoConn]
  /\ UNCHANGED <<netVars, fds, table, threads, mainVars, serverVars, hfd>>

\* recv returns 0 or an error once everything received has been read.
HRecvEnds(c) ==
  /\ hpc[c] = "recv" /\ inbox[hon[c]] = <<>>
  /\ link[hon[c]] = "closed" \/ hon[c] \in rdshut
  /\ Goto(c, "lost")
  /\ hon' = [hon EXCEPT ![c] = NoConn]
  /\ UNCHANGED <<netVars, fds, table, threads, mainVars, serverVars, hfd>>

HSetConnected(c) ==
  /\ hpc[c] = "acp" /\ MutexAvailable
  /\ table' = SetConnected(table, AddrOf[c])
  /\ Goto(c, "loop")
  /\ UNCHANGED <<netVars, fds, threads, mainVars, serverVars, hfd, hon>>

\* remove_connection_array for DSN: the ip address of the entry is freed ...
HFree(c) ==
  /\ hpc[c] = "dsn" /\ MutexAvailable
  /\ Goto(c, IF FirstWith(table, AddrOf[c]) = {} THEN "lost" ELSE "shift")
  /\ UNCHANGED <<netVars, fds, table, threads, mainVars, serverVars, hfd, hon>>

\* Mutant: the DSN branch closes the socket, and the end of the thread again.
MutHShift(c) ==
  /\ hpc[c] = "shift"
  /\ table' = RemoveEntry(table, AddrOf[c])
  /\ Close(hfd[c])
  /\ Goto(c, "lost")
  /\ UNCHANGED <<netVars, threads, mainVars, serverVars, hfd, hon>>

\* ... and the entries after it move down, before the mutex is given back.
HShift(c) ==
  /\ hpc[c] = "shift"
  /\ table' = RemoveEntry(table, AddrOf[c])
  /\ Goto(c, "lost")
  /\ UNCHANGED <<netVars, fds, threads, mainVars, serverVars, hfd, hon>>

HSetDisconnected(c) ==
  /\ hpc[c] = "lost" /\ MutexAvailable
  /\ table' = SetDisconnected(table, AddrOf[c])
  /\ Goto(c, "close")
  /\ UNCHANGED <<netVars, fds, threads, mainVars, serverVars, hfd, hon>>

HClose(c) ==
  /\ hpc[c] = "close"
  /\ Close(hfd[c])
  /\ Goto(c, "done")
  /\ UNCHANGED <<netVars, table, threads, mainVars, serverVars, hfd, hon>>

Handler(c) ==
  \/ HSendACP(c) \/ HRecvEnter(c) \/ HReceive(c) \/ HRecvEnds(c)
  \/ HSend(c) \/ HSendEnds(c) \/ HSetConnected(c) \/ HFree(c) \/ HShift(c)
  \/ HSetDisconnected(c) \/ HClose(c)

(* -------------------------------- main --------------------------------- *)
\* The command is done: main prompts for the next one.
ToInput ==
  /\ mpc' = "input" /\ mcmd' = "none" /\ maddr' = NoConn
  /\ mconn' = NoConn /\ mfd' = NoConn /\ midx' = 0 /\ UNCHANGED mon

Connect(c) ==
  /\ mpc = "input" /\ "CONNECT" \in Commands /\ link[c] = "fresh"
  /\ mpc' = "known" /\ mcmd' = "CONNECT"
  /\ mconn' = c /\ maddr' = AddrOf[c] /\ midx' = 1
  /\ UNCHANGED <<netVars, fds, table, threads, mfd, mon, serverVars, handlerVars>>

\* "Already connected to peer": the array is read entry by entry, unlocked, to its
\* end; mconn is dropped when the peer is there.  The string of a doomed entry is
\* free memory, and the build has AddressSanitizer stop the process there.
MainKnown ==
  /\ mpc = "known"
  /\ \/ midx > Len(table) /\ mconn = NoConn /\ ToInput
     \/ /\ midx > Len(table) /\ mconn # NoConn
        /\ mpc' = "capacity" /\ midx' = 0
        /\ UNCHANGED <<mcmd, maddr, mconn, mfd, mon>>
     \/ /\ midx <= Len(table) /\ midx \in Doomed
        /\ mpc' = "crashed" /\ UNCHANGED <<mcmd, maddr, mconn, mfd, midx, mon>>
     \/ /\ midx <= Len(table)
        /\ \E i \in Seen(midx) \ Doomed :
             mconn' = IF table[i].addr = maddr THEN NoConn ELSE mconn
        /\ midx' = midx + 1
        /\ UNCHANGED <<mpc, mcmd, maddr, mfd, mon>>
  /\ UNCHANGED <<netVars, fds, table, threads, serverVars, handlerVars>>

MainCapacity ==
  /\ mpc = "capacity" /\ MutexAvailable
  /\ \/ TrueSize(table) = MaxPeers /\ ToInput
     \/ /\ TrueSize(table) # MaxPeers
        /\ mpc' = "dial" /\ UNCHANGED <<mcmd, maddr, mconn, mfd, midx, mon>>
  /\ UNCHANGED <<netVars, fds, table, threads, serverVars, handlerVars>>

\* socket and connect; a failed connect leaves its socket open for ever.
MainDial ==
  /\ mpc = "dial"
  /\ \/ \E f \in Lowest(Free) :
          /\ fds' = [fds EXCEPT ![f] = mconn]
          /\ \/ /\ link' = [link EXCEPT ![mconn] = "opening"]
                /\ mfd' = f /\ mpc' = "append"
                /\ UNCHANGED <<mcmd, maddr, mconn, midx, mon>>
             \/ link' = [link EXCEPT ![mconn] = "closed"] /\ ToInput
     \/ Free = {} /\ ToInput /\ UNCHANGED <<link, fds>>
  /\ UNCHANGED <<inbox, rdshut, backlog, table, threads, serverVars,
                 handlerVars>>

MainAppend ==
  /\ mpc = "append" /\ MutexAvailable
  /\ \/ /\ Len(table) < Capacity
        /\ table' = Append(table, [fd |-> mfd, addr |-> maddr,
                                   connected |-> FALSE, conn |-> mconn])
        /\ mpc' = "spawn"
     \/ /\ Len(table) >= Capacity
        /\ mpc' = "wedged"
        /\ UNCHANGED table
  /\ UNCHANGED <<netVars, fds, threads, mcmd, maddr, mconn, mfd, midx, mon,
                 serverVars, handlerVars>>

\* Without a thread the command ends; the entry and the descriptor stay.
MainSpawn ==
  /\ mpc = "spawn"
  /\ \/ /\ hpc' = [hpc EXCEPT ![mconn] = "loop"]
        /\ hfd' = [hfd EXCEPT ![mconn] = mfd]
        /\ mpc' = "record" /\ UNCHANGED <<mcmd, maddr, mconn, mfd, midx, mon>>
     \/ ToInput /\ UNCHANGED <<hpc, hfd>>
  /\ UNCHANGED <<netVars, fds, table, threads, serverVars, hon>>

MainRecord ==
  /\ mpc = "record" /\ AppendThread(mconn)
  /\ mpc' = "await"
  /\ UNCHANGED <<netVars, fds, table, mcmd, maddr, mconn, mfd, midx, mon,
                 serverVars, handlerVars>>

\* Mutant: main waits for the flag without a timeout.
MutMainFlag ==
  /\ mpc = "flag"
  /\ midx \in DOMAIN table /\ table[midx].connected /\ ToInput
  /\ UNCHANGED <<netVars, fds, table, threads, serverVars, handlerVars>>

\* usleep, then check_connected: no more is known of when ACP arrives.  The entry
\* is looked for under the mutex ...
MainAwait ==
  /\ mpc = "await" /\ MutexAvailable
  /\ \/ /\ \E i \in FirstWith(table, maddr) : midx' = i
        /\ mpc' = "flag"
     \/ FirstWith(table, maddr) = {} /\ mpc' = "shut" /\ UNCHANGED midx
  /\ UNCHANGED <<netVars, fds, table, threads, mcmd, maddr, mconn, mfd, mon,
                 serverVars, handlerVars>>

\* ... and its flag is read without it, in what is at that position by now; beyond
\* the end there is what a removal has left behind.
MainFlag ==
  /\ mpc = "flag"
  /\ \E connected \in IF midx \in DOMAIN table
                      THEN {table[i].connected : i \in Seen(midx)} ELSE BOOLEAN :
       \/ connected /\ ToInput
       \/ /\ ~connected
          /\ mpc' = "shut" /\ midx' = 0
          /\ UNCHANGED <<mcmd, maddr, mconn, mfd, mon>>
  /\ UNCHANGED <<netVars, fds, table, threads, serverVars, handlerVars>>

Disconnect(a) ==
  /\ mpc = "input" /\ "DISCONNECT" \in Commands
  /\ mpc' = "find" /\ mcmd' = "DISCONNECT" /\ maddr' = a /\ midx' = 1
  /\ UNCHANGED <<netVars, fds, table, threads, mconn, mfd, mon, serverVars,
                 handlerVars>>

\* The entry is copied, unlocked; its ip address is shared, not copied.
MainFind ==
  /\ mpc = "find"
  /\ \/ midx > Len(table) /\ ToInput
     \/ /\ midx <= Len(table) /\ midx \in Doomed
        /\ mpc' = "crashed" /\ UNCHANGED <<mcmd, maddr, mconn, mfd, midx, mon>>
     \/ /\ midx <= Len(table)
        /\ \E i \in Seen(midx) \ Doomed :
             \/ /\ table[i].addr = maddr
                /\ mpc' = "say" /\ mconn' = table[i].conn /\ mfd' = table[i].fd
                /\ midx' = 0
             \/ /\ table[i].addr # maddr
                /\ midx' = midx + 1 /\ UNCHANGED <<mpc, mconn, mfd>>
        /\ UNCHANGED <<mcmd, maddr, mon>>
  /\ UNCHANGED <<netVars, fds, table, threads, serverVars, handlerVars>>

\* send of DSN: like a handler's, it may block.
MainSay ==
  /\ mpc = "say" /\ mon = NoConn
  /\ LET s == fds[mfd] IN
       \/ s \in Conn /\ mon' = s /\ UNCHANGED mpc
       \/ s \notin Conn /\ mpc' = "shut" /\ UNCHANGED mon
  /\ UNCHANGED <<netVars, fds, table, threads, mcmd, maddr, mconn, mfd, midx,
                 serverVars, handlerVars>>

MainSaid ==
  /\ mpc = "say" /\ mon # NoConn
  /\ mpc' = "shut" /\ mon' = NoConn
  /\ UNCHANGED <<netVars, fds, table, threads, mcmd, maddr, mconn, mfd, midx,
                 serverVars, handlerVars>>

MainSayEnds == mon # NoConn /\ link[mon] = "closed" /\ MainSaid

\* The peer reads, and a thread whose send was blocked on the connection goes on.
RemoteReads(c) ==
  /\ link[c] # "closed"
  /\ (mon = c /\ MainSaid) \/ (\E h \in Conn : hon[h] = c /\ HSent(h))

\* DISCONNECT, and CONNECT without an answer: shutdown, close, remove.
MainShut ==
  /\ mpc = "shut"
  /\ ShutRead(mfd)
  /\ mpc' = "close"
  /\ UNCHANGED <<link, inbox, backlog, fds, table, threads, mcmd, maddr, mconn,
                 mfd, midx, mon, serverVars, handlerVars>>

MainClose ==
  /\ mpc = "close"
  /\ Close(mfd)
  /\ mpc' = "remove"
  /\ UNCHANGED <<netVars, table, threads, mcmd, maddr, mconn, mfd, midx, mon,
                 serverVars, handlerVars>>

\* DISCONNECT compares with the entry's own string, which a handler may have freed.
StringFreed ==
  mcmd = "DISCONNECT" /\ ~\E i \in DOMAIN table : table[i].conn = mconn

MainRemove ==
  /\ mpc = "remove" /\ MutexAvailable
  /\ \/ /\ StringFreed /\ table # <<>>
        /\ mpc' = "crashed"
        /\ UNCHANGED <<table, mcmd, maddr, mconn, mfd, midx, mon>>
     \/ /\ ~StringFreed \/ table = <<>>
        /\ table' = RemoveEntry(table, maddr)
        /\ ToInput
  /\ UNCHANGED <<netVars, fds, threads, serverVars, handlerVars>>

\* QUIT, or the end of the input
Quit ==
  /\ mpc = "input" /\ "QUIT" \in Commands
  /\ ShutRead(ServerFd)
  /\ mpc' = "closeServer" /\ mcmd' = "QUIT"
  /\ UNCHANGED <<link, inbox, backlog, fds, table, threads, maddr, mconn, mfd,
                 midx, mon, serverVars, handlerVars>>

MainCloseServer ==
  /\ mpc = "closeServer"
  /\ Close(ServerFd)
  /\ mpc' = "joinServer"
  /\ UNCHANGED <<netVars, table, threads, mcmd, maddr, mconn, mfd, midx, mon,
                 serverVars, handlerVars>>

\* Mutant: QUIT does not join the server thread.
MutMainJoinServer ==
  /\ mpc = "joinServer"
  /\ mpc' = "closeAll" /\ midx' = 1
  /\ UNCHANGED <<netVars, fds, table, threads, mcmd, maddr, mconn, mfd, mon,
                 serverVars, handlerVars>>

MainJoinServer ==
  /\ mpc = "joinServer" /\ spc = "done"
  /\ mpc' = "closeAll" /\ midx' = 1
  /\ UNCHANGED <<netVars, fds, table, threads, mcmd, maddr, mconn, mfd, mon,
                 serverVars, handlerVars>>

\* Mutant: the loop stops one entry early.
MutMainCloseAll ==
  /\ mpc = "closeAll"
  /\ \/ /\ midx >= Len(table)
        /\ mpc' = "joinThreads" /\ midx' = 0 /\ UNCHANGED <<rdshut, mfd>>
     \/ /\ midx < Len(table)
        /\ \E i \in Seen(midx) : mfd' = table[i].fd /\ ShutRead(table[i].fd)
        /\ mpc' = "closeOne" /\ UNCHANGED midx
  /\ UNCHANGED <<link, inbox, backlog, fds, table, threads, mcmd, maddr, mconn, mon,
                 serverVars, handlerVars>>

\* Mutant: the sockets are closed without being shut down.
MutMainCloseUnshut ==
  /\ mpc = "closeAll"
  /\ \/ /\ midx > Len(table)
        /\ mpc' = "joinThreads" /\ midx' = 0 /\ UNCHANGED mfd
     \/ /\ midx <= Len(table)
        /\ \E i \in Seen(midx) : mfd' = table[i].fd
        /\ mpc' = "closeOne" /\ UNCHANGED midx
  /\ UNCHANGED <<netVars, fds, table, threads, mcmd, maddr, mconn, mon, serverVars,
                 handlerVars>>

\* "Close all sockets (causing all threads to die)", unlocked
MainCloseAll ==
  /\ mpc = "closeAll"
  /\ \/ /\ midx > Len(table)
        /\ mpc' = "joinThreads" /\ midx' = 0 /\ UNCHANGED <<rdshut, mfd>>
     \/ /\ midx <= Len(table)
        /\ \E i \in Seen(midx) : mfd' = table[i].fd /\ ShutRead(table[i].fd)
        /\ mpc' = "closeOne" /\ UNCHANGED midx
  /\ UNCHANGED <<link, inbox, backlog, fds, table, threads, mcmd, maddr, mconn, mon,
                 serverVars, handlerVars>>

MainCloseOne ==
  /\ mpc = "closeOne"
  /\ Close(mfd)
  /\ mpc' = "closeAll" /\ midx' = midx + 1 /\ mfd' = NoConn
  /\ UNCHANGED <<netVars, table, threads, mcmd, maddr, mconn, mon, serverVars,
                 handlerVars>>

\* pthread_join of every recorded thread, then the arrays are freed
MainJoinThreads ==
  /\ mpc = "joinThreads" /\ \A c \in threads : hpc[c] = "done"
  /\ mpc' = "exit"
  /\ UNCHANGED <<netVars, fds, table, threads, mcmd, maddr, mconn, mfd, midx, mon,
                 serverVars, handlerVars>>

MainStep ==
  \/ MainKnown \/ MainCapacity \/ MainDial \/ MainAppend \/ MainSpawn
  \/ MainRecord \/ MainAwait \/ MainFlag \/ MainFind \/ MainSay \/ MainSayEnds
  \/ MainShut \/ MainClose \/ MainRemove
  \/ MainCloseServer \/ MainJoinServer \/ MainCloseAll \/ MainCloseOne
  \/ MainJoinThreads

(* ---------------------------- specification ---------------------------- *)
User == \/ \E c \in Dials : Connect(c)
        \/ \E a \in Addr : Disconnect(a)
        \/ Quit

Remote == \/ \E c \in Inbound : RemoteConnect(c)
          \/ \E c \in Dials : RemoteAccept(c)
          \/ \E c \in Conn : \/ RemoteClose(c) \/ RemoteReads(c)
                             \/ \E p \in Traffic : RemoteSend(c, p)

Next ==
  /\ Running
  /\ User \/ Remote \/ MainStep \/ Server \/ \E c \in Conn : Handler(c)

\* The threads of the process run; neither the user nor a peer has to act, and a
\* peer that keeps its connection open need not read from it.
Fairness ==
  /\ WF_vars(Running /\ MainStep) /\ WF_vars(Running /\ Server)
  /\ \A c \in Conn : WF_vars(Running /\ Handler(c))

Spec == Init /\ [][Next]_vars
FairSpec == Spec /\ Fairness

(* ------------------------------ properties ----------------------------- *)
\* The process never counts more than max_peers connected peers, whatever the
\* order in which peers arrive, leave and are dropped (peer.c:237).
AtMostMaxPeers == TrueSize(table) <= MaxPeers

\* A handler's next step is one on its descriptor, or leads to one.
Serving(c) == hpc[c] \notin {"none", "done"} /\ hon[c] = NoConn

\* A handler acts and waits on its own socket or on none, never on the socket of
\* another connection that was given the same descriptor; the same for the
\* descriptor of a connected entry, which PEERS, FETCH and DISCONNECT use.
SocketsNeverMixedUp ==
  /\ \A c \in Conn : Serving(c) => fds[hfd[c]] \in {c, NoConn}
  /\ \A c \in Conn : hon[c] \in {c, NoConn}
  /\ \A i \in DOMAIN table :
       table[i].connected => fds[table[i].fd] \in {table[i].conn, NoConn}

\* main frees the arrays only when no other thread can use them: the server
\* thread and every handler, recorded or not, have finished (btide.c:404-423).
JoinedBeforeFree ==
  mpc = "exit" => spc = "done" /\ \A c \in Conn : hpc[c] \in {"none", "done"}

\* A peer that closes its side is in the end no longer listed as connected, so
\* that its place under max_peers is free again (peer.c:183-186).
Listed(c) == \E i \in DOMAIN table : table[i].conn = c /\ table[i].connected
LostPeerUnlisted ==
  \A c \in Inbound :
    (hpc[c] = "recv" /\ link[c] = "closed") ~> (~Listed(c) \/ ~Running)

\* A handler that has ended gave its place under max_peers back.  If not, its ACP
\* failed (peer.c:68), and then the descriptor was not given back either, up to
\* QUIT: a place is never lost alone.
PlacesGivenBack ==
  \A c \in Conn :
    hpc[c] = "done" /\ Listed(c) => fds[hfd[c]] = c \/ mcmd = "QUIT"

\* A thread has met a full array: its second lock of the same mutex never returns.
Growing ==
  \/ mpc = "wedged" \/ spc = "wedged"
  \/ Cardinality(threads) >= Capacity /\ (mpc = "record" \/ spc = "record")

\* Every CONNECT and every DISCONNECT comes to an end, answered or not, and main
\* reads the next command (btide.c:136-190), unless an array has to grow, freed
\* memory is read, or main waits for a peer that does not read its DSN; and when
\* such a peer reads or leaves, the command goes on to its end.
Commanding == mcmd \in {"CONNECT", "DISCONNECT"}
PeerKeepsMain == mon # NoConn /\ link[mon] # "closed"
CommandCompletes ==
  Commanding ~> (mpc = "input" \/ ~Running \/ Growing \/ PeerKeepsMain)

\* The server thread, having accepted a peer, comes back to accept until QUIT.
ServerKeepsAccepting ==
  spc # "accept" ~> (spc = "accept" \/ mcmd = "QUIT" \/ ~Running)

\* QUIT ends the process: closing the sockets wakes every handler
\* (btide.c:408, "causing all threads to die").
QuitTerminates == mpc = "closeServer" ~> (mpc = "exit" \/ ~Running)

\* Handler c blocks in a send: shutdown(.., SHUT_RD) and close do not wake it.
SendBlocked(c) == hpc[c] \in {"reply", "ack"} /\ hon[c] # NoConn

HasEntry(c) ==
  \E i \in DOMAIN table \ Doomed : table[i].conn = c /\ table[i].fd = hfd[c]

\* When main joins the handlers and no entry of theirs has been removed, each of
\* them that is not blocked in a send is on its way to its end, whatever its peer
\* does: its recv returns, or its next call finds the descriptor closed
\* (btide.c:408-415).
QuitWakesReaders ==
  mpc = "joinThreads" /\ (\A c \in Conn : hpc[c] # "none" => HasEntry(c)) =>
    \A c \in Conn :
      /\ hpc[c] = "recv" => hon[c] \in rdshut
      /\ hpc[c] \in {"start", "loop", "reply", "ack"} /\ hon[c] = NoConn =>
           fds[hfd[c]] = NoConn

\* QUIT given while every handler has its entry and its descriptor ends the process,
\* unless a handler removes its entry meanwhile, or a peer does not read and leaves
\* a handler's send blocked for ever (btide.c:404-423, peer.c:103).
InPlace(c) == HasEntry(c) /\ fds[hfd[c]] = c
QuitTerminatesIfPeersRead ==
  (mpc = "closeServer" /\ \A c \in Conn : hpc[c] \notin {"none", "done"} => InPlace(c))
    ~> \/ mpc = "exit" \/ ~Running \/ Growing
       \/ \E c \in Conn : hpc[c] \notin {"none", "done"} /\ ~HasEntry(c)
       \/ \E c \in Conn : [](SendBlocked(c))

\* QUIT ends the process at the latest when the other peers have left.
PeersLeft == \A c \in Conn : link[c] \notin {"opening", "open"}
QuitTerminatesOncePeersLeft ==
  (mcmd = "QUIT" /\ PeersLeft) ~>
    (mpc = "exit" \/ ~PeersLeft \/ ~Running \/ Growing)
=============================================================================
