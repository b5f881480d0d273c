--------------------------- MODULE ConnectionArray ---------------------------
(***************************************************************************)
(* The dynamic array of connections shared by every thread of btide        *)
(* (src/src/dyn_array.c).  The array is a sequence of entries; an entry is *)
(* a record                                                                *)
(*     fd        the descriptor stored in the entry                        *)
(*     addr      the (ip address, port) pair that is its key               *)
(*     connected the entry's flag                                          *)
(*     conn      the connection the entry was made for: the identity of    *)
(*               the entry (its own heap copy of the ip address)           *)
(* Every operation of dyn_array.c runs under connections_mutex, so each is *)
(* one operator here (but check_connected, which reads its result after it *)
(* has given the mutex back, and which Peer takes apart).  All of them     *)
(* look for the FIRST entry with the key.                                  *)
(***************************************************************************)
EXTENDS Naturals, Sequences, FiniteSets

Entry(Conn, Addr, Fd) ==
  [fd: Fd, addr: Addr, connected: BOOLEAN, conn: Conn]

\* The position of the first entry with key a: a set of at most one index.
FirstWith(t, a) ==
  {i \in DOMAIN t : t[i].addr = a /\ \A j \in 1..(i - 1) : t[j].addr # a}

SetConnected(t, a) ==
  [i \in DOMAIN t |->
     IF i \in FirstWith(t, a) THEN [t[i] EXCEPT !.connected = TRUE] ELSE t[i]]

SetDisconnected(t, a) ==
  [i \in DOMAIN t |->
     IF i \in FirstWith(t, a) THEN [t[i] EXCEPT !.connected = FALSE] ELSE t[i]]

\* remove_connection_array: the entries after the first match move down by one
RemoveEntry(t, a) ==
  IF FirstWith(t, a) = {} THEN t
  ELSE [j \in 1..(Len(t) - 1) |->
          IF \E i \in 1..j : t[i].addr = a THEN t[j + 1] ELSE t[j]]

\* connections_true_size
ConnectedAt(t) == {i \in DOMAIN t : t[i].connected}
TrueSize(t) == Cardinality(ConnectedAt(t))
=============================================================================
