----------------------------- MODULE MCTransfer -----------------------------
(***************************************************************************)
(* Instances of Transfer for TLC: a package of two chunks, the first of    *)
(* more than one RES, and two or three processes.                          *)
(***************************************************************************)
EXTENDS Transfer

CONSTANTS relay, leech, seed

MCPeer == {relay, leech, seed}
MCPair == {relay, seed}
MCFirst == <<0, 3>>
MCSize == <<3, 1>>

\* Two chunks with the same bytes, so the same hash: a FETCH finds the first, the
\* offset tells them apart.
MCTwinFirst == <<0, 2>>
MCTwinSize == <<2, 2>>
MCTwinRequests == {<<<<relay, seed>>, 1>>}

\* A line: relay obtains chunk 1 from seed while leech already asks relay for it.
MCRelayDials == {<<relay, seed>>, <<leech, relay>>}
MCRelayRequests == {<<<<relay, seed>>, 1>>, <<<<leech, relay>>, 1>>}
MCRelaySeeds == [x \in MCPeer |-> IF x = seed THEN Block ELSE {}]

\* Pair: relay asks seed for a chunk seed holds and for one it does not hold.
MCPairDials == {<<relay, seed>>}
MCPairRequests == {<<<<relay, seed>>, 1>>, <<<<relay, seed>>, 2>>}
MCPairSeeds == [x \in MCPair |-> IF x = seed THEN Blocks[1] ELSE {}]

\* Two sources of one process that has no file yet
MCSourcesDials == {<<relay, seed>>, <<relay, leech>>}
MCSourcesRequests == {<<<<relay, seed>>, 1>>, <<<<relay, leech>>, 2>>}
MCSourcesSeeds == [x \in MCPeer |-> IF x = relay THEN {} ELSE Block]

\* Two processes that each hold one chunk and ask for the other's
MCSwapRequests == {<<<<relay, seed>>, 1>>, <<<<seed, relay>>, 2>>}
MCSwapSeeds == [x \in MCPair |-> IF x = seed THEN Blocks[1] ELSE Blocks[2]]
=============================================================================
