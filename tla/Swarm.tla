------------------------------- MODULE Swarm --------------------------------
(***************************************************************************)
(* What the transfer of chunks promises, whatever the packets, handlers,   *)
(* files, failures and restarts: a peer obtains right blocks of a chunk    *)
(* only from a peer it may ask and that holds the whole chunk, and a right *)
(* block, once obtained, is never lost.                                    *)
(***************************************************************************)
CONSTANTS
  Peer,
  Requests,  \* <<<<p, q>>, k>>: p may FETCH chunk k from q
  Seeds,     \* the blocks each peer holds at first
  Blocks     \* the blocks of each chunk

VARIABLE have  \* per peer, the blocks of the file that are right

Init == have = Seeds

Copy(p, q, k) ==
  /\ Blocks[k] \subseteq have[q]
  /\ \E S \in SUBSET Blocks[k] : have' = [have EXCEPT ![p] = @ \cup S]

Next == \E r \in Requests : Copy(r[1][1], r[1][2], r[2])

Spec == Init /\ [][Next]_have
=============================================================================
