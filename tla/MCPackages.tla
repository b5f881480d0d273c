----------------------------- MODULE MCPackages -----------------------------
(***************************************************************************)
(* Instances of Packages for TLC: a package of four chunks, of which the   *)
(* first and the third are equal, one of a single chunk, and .bpkg files   *)
(* of the first that lack a line.  The file of the first lacks its last    *)
(* chunk: one RES completes it, another spoils it again.  A REQ asks for a *)
(* hash that is in no tree.                                                *)
(***************************************************************************)
EXTENDS Packages

CONSTANTS four, one, whole, shortHashes, shortChunks, single, serving

MCPkg == {four, one}
MCNChunks == [p \in MCPkg |-> IF p = four THEN 4 ELSE 1]
MCHashes == [p \in MCPkg |->
  IF p = four THEN [n \in 0..6 |-> <<"abac", "ab", "ac", "a", "b", "a", "c">>[n + 1]]
  ELSE [n \in {0} |-> "d"]]

MCFiles == {whole, shortHashes, shortChunks, single}
MCDescribes == [f \in MCFiles |-> IF f = single THEN one ELSE four]

Label(name) == <<[label |-> name]>>
List(count, heading, n) ==
  <<[label |-> count, count |-> n], [label |-> heading]>>
    \o [i \in 1..n |-> [label |-> "entry"]]
Text(c) == Label("ident") \o Label("filename") \o Label("size")
             \o List("nhashes", "hashes", c - 1) \o List("nchunks", "chunks", c)
MCLines == [f \in MCFiles |->
  CASE f = whole -> Text(4)
    [] f = single -> RemoveAt(Text(1), 3)
    [] f = shortHashes -> RemoveAt(Text(4), 6)
    [] f = shortChunks -> RemoveAt(Text(4), Len(Text(4)))]

MCHandlers == {serving}
Req(p, h) == [type |-> "REQ", pkg |-> p, hash |-> h]
Res(p, k, good) == [type |-> "RES", pkg |-> p, chunk |-> k, good |-> good]
MCHash == {"a", "ac", "e"}
MCIncoming == {<<serving, Req(four, "ac")>>, <<serving, Req(four, "e")>>,
               <<serving, Res(four, 4, TRUE)>>, <<serving, Res(four, 4, FALSE)>>,
               <<serving, Res(one, 1, TRUE)>>}
MCSeeds == [p \in MCPkg |-> IF p = four THEN 1 .. 3 ELSE {}]
MCLength == [p \in MCPkg |-> IF p = four THEN 3 ELSE 0]
=============================================================================
