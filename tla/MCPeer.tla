------------------------------- MODULE MCPeer -------------------------------
(***************************************************************************)
(* Instances of Peer for TLC.  The connections are model values of the     *)
(* configurations; descriptor 3 is the listening socket (0, 1 and 2 are    *)
(* the standard streams).                                                  *)
(***************************************************************************)
EXTENDS Peer

CONSTANTS a1, a2

MCFD3 == 3..5
MCFD4 == 3..6

\* Peers that connect to us come from distinct (ip, ephemeral port) pairs: each
\* connection is its own key.
MCServingAddrOf == [c \in Inbound |-> c]

\* Two dials of one peer, and another peer that connects to us
MCDiallingAddr == {a1, a2}
MCDiallingAddrOf == [c \in Conn |-> IF c \in Dials THEN a1 ELSE a2]
=============================================================================
