# A verification project for btide

`btide` is a peer-to-peer file transfer program.  A process listens for peers,
dials others, and exchanges chunks of files described by `.bpkg` packages; a
merkle tree of SHA-256 hashes says which chunks of a file are complete.  This
directory holds TLA+ models of the program, TLC configurations that check them
on small instances, and TLAPS proofs about the models for every value of their
constants.

## 1. The system

### Components, their state and operations

| component | code | state | operations |
|---|---|---|---|
| connection array | `dyn_array.c` | `array` of (fd, ip, port, connected), `size`, `capacity`, `connections_mutex` | append, resize, remove, set_connected, set_disconnected, check_connected, connections_true_size |
| thread array | `thread_array.c` | `array` of pthread ids, `thread_mutex` | append, resize, free |
| package array | `dyn_array.c` | `array` of package pointers, `packages_mutex` | append, remove, get_package |
| server thread | `peer.c`, `server_loop` | listening socket, its locals | accept, refuse, append, spawn, record |
| handlers | `peer.c`, `server_handle_client`, `client_handle_server` | `client_socket`, ip and port kept as the key of the entry | one `recv` loop: ACP, ACK, DSN, PNG, POG, REQ, RES |
| main thread | `btide.c`, `create_client_thread` in `peer.c` | the command being executed | CONNECT, DISCONNECT, ADDPACKAGE, REMPACKAGE, PACKAGES, PEERS, FETCH, QUIT |
| packets | `packet.c` | none | building packets; `generate_and_send_RES` checks a chunk and sends it in pieces |
| packages and merkle trees | `pkgchk.c` | per package the tree with `expected_hash` and `computed_hash` in every node, and the data file | bpkg_load, build_merkle_tree, bpkg_file_check, bpkg_get_completed_chunks, bpkg_get_min_completed_hashes, find_hash, ... |
| configuration | `config.c` | none | parse_config |

### How they interact

All threads of a process share the three arrays, the descriptors, the packages
(with the `computed_hash` fields) and the data files.  Each array operation takes
its mutex; `btide.c` also reads the arrays directly, without one.  Main creates
the server thread; main and the server thread create one handler per
connection, record it in the thread array and never hear of it again until
QUIT joins it.  Processes talk through TCP: 4096-byte packets, one `send` and
one `recv` call each.

### What is hard here

* A descriptor number is shared by three owners: the entry in the array, the
  handler's `client_socket` and main's copy.  Main and the handler both close
  it, and the kernel hands the lowest free number to the next `accept`.
* A dialled peer is appended with `connected = 0` and counted only when ACP
  arrives, on another thread than the one that tested `max_peers`.
* Entries are found by (ip, port), not by thread: every operation acts on the
  first entry with that key, which may belong to another connection.
* QUIT, FETCH, PEERS and the scans of CONNECT and DISCONNECT read the array while
  handlers shift its entries.
* `append_*` grows a full array with its mutex held, and `resize_*` takes the
  same mutex.
* Whether a chunk is complete is computed into the shared tree by any thread
  that asks; the bytes are read again from the file afterwards, and by an
  offset the requester chose.
* A data file that does not exist is created by whichever handler first
  receives a piece of it, by a test and a truncating `fopen` that are two steps.
* QUIT has to wake every handler and to join it before the arrays are freed.  It does
  so with `shutdown(fd, 0)` and `close`, which end a `recv` but not a `send` that is
  blocked by a peer that does not read.
* `send` blocks in main too (DISCONNECT, PEERS, FETCH): a peer can keep the prompt.
* A RES is written where it says, whatever it carries.
* `get_package` hands out a pointer and gives the mutex back; REMPACKAGE destroys
  what it points to.
* PACKAGES, REQ and FETCH of several threads compute hashes into one tree at the
  same time, leaf by leaf and then node by node, while a RES changes the file.
* A hash may be in a tree several times (equal chunks), or not at all; a tree of one
  chunk has no entry in the table of its leaves.

### What makes each component correct

* Array: at most one thread changes it at a time; removal takes the entry out
  and keeps the others in order; no operation blocks for ever.
* Server thread and handlers: never more than `max_peers` connected peers; each
  thread works on its own socket; a lost peer gives its place back; the server
  thread always comes back to `accept`.
* Main: every command ends; QUIT ends the process and frees nothing that a
  thread still uses.
* Transfer: a process only sends bytes that hash to what was asked; right bytes
  once written stay right; a request is answered.
* Packages and trees: the computed minimal set of hashes is the one the
  definition in the header asks for; no thread holds a package that was freed.

Everything of this kind that a test would hardly reach is listed, at its line,
under `hazards` in `PROJECT.json`, with the properties that cover it or the
reason why none does yet.

## 2. Modules

| module | what it is |
|---|---|
| `ConnectionArray` | the operations of `dyn_array.c` on connections, as operators on sequences |
| `ConnectionArrayProofs` | lemmas about them |
| `Peer` | one process: main, server thread, handlers, descriptors, sockets |
| `MCPeer` | instances of `Peer` for TLC |
| `PeerProofs` | theorems about `Peer` |
| `Swarm` | what the transfer of chunks promises: `have`, and one action, `Copy` |
| `MerkleTree` | shape of the tree, `find_hash`, chunks under a hash (`pkgchk.c`), and what is meant by them |
| `MerkleTreeProofs` | inductions on numbers and on trees; what leaves and inner nodes cover, for trees of any size |
| `PackageFile` | which `.bpkg` files `bpkg_load` accepts, and what a whole one is |
| `Packages` | one process: main's package commands, lookups, REQ and RES of the handlers, the scans of the tree and the data files |
| `MCPackages` | instances of `Packages` for TLC |
| `PackagesProofs` | theorems about `Packages`: types, the array, computed hashes |
| `ScanProofs` | theorems about `Packages`: what an undisturbed scan computes |
| `SearchProofs` | theorems about the searches of the tree, and about `Packages` where it uses them |
| `PackageFileProofs` | theorems about `PackageFile`, and about what `Packages` loads |
| `Transfer` | FETCH, REQ and RES among several processes, the check of a chunk, the data files |
| `MCTransfer` | instances of `Transfer` for TLC |
| `TransferProofs` | theorems about `Transfer`, the refinement of `Swarm` among them |

### Peer

State and code correspond as follows.

| variable | code |
|---|---|
| `table` | `connections->array[0 .. size-1]`; the field `conn` is a ghost: the connection the entry was made for |
| `threads` | the handlers recorded by `append_thread_array` |
| `fds` | the process's descriptor table (kernel) |
| `link`, `inbox`, `rdshut`, `backlog` | the kernel's and the other peer's side of each connection: its life, unread packets, `shutdown(fd, 0)`, connections not yet accepted |
| `mpc`, `mcmd`, `maddr`, `mconn`, `mfd`, `midx` | where main is; its command, address, socket and loop variable |
| `mon` | the connection main's `send` of DSN is blocked on |
| `spc`, `sconn`, `sfd` | where `server_loop` is; the connection just accepted |
| `hpc`, `hfd`, `hon` | where each handler is; its `client_socket`; the socket its `recv` or a blocked `send` was entered on |

One step is one operation under a mutex, one system call, or one iteration of a
loop that reads the array without the mutex.  A call that may block is two steps:
`HRecvEnter` and `HReceive` or `HRecvEnds`, `HSend` and `HSent`, `MainSay` and
`MainSaid`.  `remove_connection_array` of a handler is two steps as well, `HFree` and
`HShift`, because it frees the string of an entry before it moves the others down and
the unlocked loops of CONNECT, DISCONNECT and QUIT can see that: what they find in the
meantime is `Seen`, and a string in `Doomed` is freed memory, at which the build (the
Makefile has AddressSanitizer) ends the process.  `MainAwait` and `MainFlag` are the two
halves of `check_connected`, which finds the entry under the mutex and reads its flag
without it.

`connections_mutex` itself is not a variable; what remains of it is `MutexAvailable`:
nobody is in the middle of a removal, and nobody has appended to a full array, because
such a thread waits for itself and holds it for ever.  `thread_mutex` is treated the
same way, in the guard of `AppendThread`: with the array full, the step that would
append never happens.  `Growing` says that a thread is stuck in either way.
`pthread_create` may fail: without a handler `server_loop` ends the process
(`SrvSpawn`), CONNECT only ends and leaves entry and descriptor behind (`MainSpawn`).

The kernel's part is modelled from how the code uses it, and is marked external in
the map: `accept` and `socket` return the lowest free descriptor; `close` of a
closed descriptor does nothing; `recv` on a socket that was shut down first
returns what is queued; a thread blocked in `recv` keeps the socket it blocks on
when the descriptor is closed, and later calls go to whatever socket the number
then refers to.  `SIGPIPE` is ignored by the program, so a failed `send` only
returns.  A `send` blocks while its buffer is full: how full is not modelled, so each
may block, and it returns when the peer reads (`RemoteReads`, at any time or never) or
when the connection is lost (`HSendEnds`, `MainSayEnds`).  `shutdown(fd, 0)` and `close`
do not wake it.  The pieces of an answer to a REQ are one such send.  ACP is the first
packet on a new connection and cannot block; its failure ends the thread.

DISCONNECT copies an entry, and the copy shares the `ip_address` string with the
array.  When a handler has removed the entry, main compares with freed memory
(`StringFreed`), and the process ends.

Runs (`MCPeer`), and what they show:

| run | instance | shows |
|---|---|---|
| `peer_serving` | two incoming peers, one place, two descriptors for them, DSN, PNG and QUIT | `TypeOK`, `AtMostMaxPeers`, `SocketsNeverMixedUp`, `JoinedBeforeFree`, `PlacesGivenBack`, `QuitWakesReaders` hold in a process that only serves, and under `FairSpec` `LostPeerUnlisted` and `QuitTerminatesIfPeersRead` |
| `peer_commands` | one incoming peer and one dial, two descriptors for them, all commands | `CommandCompletes`, `QuitTerminatesOncePeersLeft` |
| `peer_growth` | two incoming peers, arrays of one place | `ServerKeepsAccepting` violated: the second entry, which stands for the eleventh, stops `server_loop` and everybody who needs the mutex |
| `peer_limit` | as above, one place | violated: a dial that is answered late exceeds `max_peers` |
| `peer_mixed` | as above, two places | violated: a closed descriptor is reused while its handler still holds it |
| `peer_quit_race` | two incoming peers, DSN during QUIT | violated: QUIT skips an entry that a DSN shifted, and never ends |

Two connections and one place are the least in which a peer is refused, or comes when
another has left and takes over its place and its descriptor; one dial and one incoming
peer are the least in which main and the server thread compete for a place and for a
descriptor.  The theorems below say of the six safety properties of `peer_serving` what
the run cannot, for any number of peers, places and descriptors.  `MaxInbox = 1` bounds
the packets waiting on a connection: a handler looks at one at a time, and more of them
add only repetitions of what it does with one.  A handler that answers a PNG and one
that answers a REQ block in the same way, so the run has PNG only.  `Capacity` is 10 as
in the code except in `peer_growth`, whose one place is filled by the first peer.  The
process may end, so deadlock is not an error in these runs.

The liveness properties name what the code cannot prevent, and nothing else.
`QuitTerminatesIfPeersRead`: QUIT ends the process, unless a handler removes its entry
while QUIT walks the array (`peer_quit_race`), an array has to grow, or a handler stays
blocked in a `send` for ever.  `QuitWakesReaders` is the safety behind it: nobody else
is left waiting for a peer.  `CommandCompletes`: CONNECT and DISCONNECT come to an end,
unless main waits for a peer that does not read its DSN; from any such state on the same
holds again, so the command goes on when the peer reads or leaves.  All of them accept
that the process ends, by the sanitizer or for want of a thread.

`PlacesGivenBack` says exactly what a failed ACP costs (peer.c:68): the handler
returns at once, its peer stays listed, and the descriptor stays open as well, until
QUIT.  A place is never lost in another way.

Fairness (`FairSpec`): every thread of the process runs, so main between commands,
the server thread and every handler are weakly fair.  The user never has to type a
command; a peer never has to connect, send, read, accept or leave, so the return of a
blocked `send` has no fairness but for a connection that is lost; and `MainAwait` may
always find that half a second was not enough.

### What is proved about Peer

`PeerProofs` holds the theorems, for any sets of connections, addresses,
descriptors and commands, and any `max_peers` and capacity that satisfy the
assumptions of `Peer` (connections, the listening socket and `NoConn` are
different things; descriptors are numbers).

* `TypeCorrect`: `Spec => []TypeOK`.  Not inductive alone: a step uses the locals
  of a thread, so the invariant `TypeInv` adds `LocalsOK`, which says which locals
  are assigned at which point of the thread.
* `JoinedBeforeFreeAlways`: `Spec => []JoinedBeforeFree`.  `JoinInv` adds that
  every started handler is in `threads` or is the one main or the server thread is
  just recording, and that once main is past the join the server thread is done
  and records none.
* `ServingAtMostMaxPeers`: with `Dials = {}`, `Spec => []AtMostMaxPeers`.
  `LimitInv` adds that while the server thread is about to append, the count is
  strictly below the limit: only the server thread appends, and every other
  operation lowers the count or leaves it.
* `ServingSocketsNeverMixedUp`: with no dials, no DISCONNECT and distinct
  addresses, `Spec => []SocketsNeverMixedUp`.  `SocketInv` states who owns a
  descriptor: a connection has at most one, its handler's, its entry's and the
  server thread's local are the same one, and a descriptor that QUIT closed is
  not handed out again because the server thread is done by then.

* `ServingPlacesGivenBack`: under the same assumptions, `Spec => []PlacesGivenBack`.
  `PlacesInv` adds to `SocketInv` that until QUIT a handler that runs owns its
  descriptor: `SocketInv` alone allows it to be closed once the server thread is done,
  and that thread also ends when descriptors run out.

* `ServingQuitWakesReaders`: under the same assumptions, `Spec => []QuitWakesReaders`:
  when QUIT joins the handlers and the entries of all of them are in the array, a handler
  in `recv` is on a socket that was shut down, and one that is about to call `recv` or
  `send` finds its descriptor closed.  DSN, PNG and REQ may come at any time.  `WakeInv`
  says, as long as no handler has removed its entry (`EntriesStay`; an entry that was
  removed never comes back), that each handler owns its descriptor until the loop of QUIT
  has passed the entry, and from then on blocks in `recv` at most on a socket that is shut
  down; between `shutdown` and `close` the descriptor may still be entered into `recv`,
  but its socket is shut already.  A handler that has removed its entry is outside the
  claim, which `peer_quit_race` shows to be needed, and one blocked in `send` is too.

`ConnectionArrayProofs` has the lemmas they rest on: what setting, clearing and
removing do to types, to the order of the other entries and to the count.

Left to TLC: the liveness properties, whose proofs need fairness and ENABLED; and
the runs with dials and DISCONNECT, where two of the properties above are false.

### Transfer and Swarm

`Peer` is one process seen from its connections; `Transfer` is several processes
seen from one package and its file.  The life of a connection, which `Peer` has in
full, is here `Connect` and `Drop`.

| variable | code |
|---|---|
| `have` | the data file, as the set of its blocks that equal the published file's |
| `files` | whether the data file exists |
| `computed` | the chunks whose `chunk_node->computed_hash` equals the expected one |
| `conns`, `chan` | the connections that are up; the packets in the kernel's buffers, per direction |
| `pc`, `job` | where each thread is; the packet it is handling, for a REQ what is left to send (`bytes_to_send`, `current_offset`) |
| `idx`, `snap` | loop variable and `final_hash` of `bpkg_get_min_completed_hashes` |

A block is a piece of the file small enough that DATA_MAX is a few of them; a chunk
is an interval of blocks.  A hash says whether all blocks of a chunk were right when
it was read, which takes SHA-256 as injective.  One step is one packet received or
sent, one chunk read and hashed (`Hash`), one hash stored (`Store`), one test, one
creation of the file, one write.  So another handler may write between the check of
a chunk and the reading of its pieces, two threads may compute the same hashes, and
two handlers may both find no file.  `computed_hash` is uninitialised at first: it
does not match.  The stores of 64 bytes race, but a mixture of two hashes, one of
them wrong, matches nothing, so one step stands for a store.  The early returns of
the loop on a short file leave chunks incomplete that `Hash` finds incomplete too.
The creation (`fopen "w"`, `ftruncate`) and a write are each one step.

`Drop` keeps any first part of the packets under way, in both directions.
`Restart` ends a process whose connections are lost at any point of its threads and
starts it again: files stay, memory does not.  A handler writes whatever arrives,
and remembers nothing of what was asked.  A thread is the pair of its process and
the peer it serves, so a pair of processes has one connection at a time, and a new
one begins when both handlers of the old one are done.

`Swarm` keeps only `have`: a process gains blocks of a chunk only in a step that is
allowed by a request, from a process that holds the whole chunk at that moment, and
loses none.  `SwarmSpec` is that specification with `have` mapped to itself: it
says of every step of `Transfer`, packets, races, losses and restarts included, that
it is such a `Copy` or changes no file.

Runs (`MCTransfer`); the package has a chunk of three blocks, sent in two RES, and
one of a single block:

| run | instance | shows |
|---|---|---|
| `transfer_relay` | a seed has the file, a relay fetches chunk 1 from it, a leech fetches it from the relay; the relay lists packages and may be restarted | `TypeOK`, `ServedBlocksRight`, and `SwarmSpec`: `Transfer` implements `Swarm` |
| `transfer_pair` | the relay fetches from the seed a chunk the seed has and one it has not; both may list packages and restart | `FetchAnswered` and `FetchServed`, under `FairSpec` |
| `transfer_create` | the relay has no file and fetches from two peers | `RightBlocksStay` violated: the second creation of the file empties it |
| `transfer_offset` | two chunks with equal bytes; the relay's user gives the offset of the second | `ServedBlocksRight` violated: the first one is found and checked, the bytes come from the second, which the seed lacks |

`FetchAnswered` holds of a pair in which one side asks.  When both ask, it does not:
with `Requests <- MCSwapRequests`, `Seeds <- MCSwapSeeds` and `Files = {relay, seed}`
in `transfer_pair.cfg`, TLC ends in two handlers that both wait in `send`, because
neither receives while it sends the pieces of a chunk.  `FetchServed` is the stronger
claim that a chunk which is there is never refused: no scan of another thread and no
restart of the seed makes it look incomplete.

Three processes in a line are the least in which one serves what it is still
receiving.  Two chunks make the loop over chunks a loop, and two RES per chunk let a
connection, a process or another handler come between pieces.  `Buffer = 1` packet
per direction: a larger buffer only moves the point where `send` waits, and a
transfer longer than the buffer exists for every size.  What users may type is bounded
by `Dials`, `Requests`, `Listing` and `UserOffsets`, and what may fail by `Failing`;
how often is not bounded.

Fairness (`FairSpec`): each thread that can take a step of its handler eventually
takes one.  Users, connections and restarts have none: nobody has to type, a
connection need neither stay nor break.  With a connection that breaks, FETCH ends
without an answer, and the property says so.

### What is proved about Transfer

`TransferProofs`, for any set of processes, any package, sizes of chunks, of RES and
of buffers, any seeds and requests that satisfy the assumptions of `Transfer`:

* `TypeCorrect`: `Spec => []TypeOK`, by `TypeInv`, which adds that a handler at a
  program point for REQ holds a REQ, one at a point for RES a RES, and that the two
  ends of a connection differ.
* `CarefulServedBlocksRight`, `CarefulRightBlocksStay`, `CarefulImplementsSwarm`:
  with `Careful`, the properties of the runs.  `Careful` says that users give no
  offset and that a process that has no file at the start fetches from one other
  process: without the first `transfer_offset` refutes the claim, without the second
  `transfer_create` does.  A process whose file is there may fetch from any number of
  others at once.  The instance of `transfer_relay` is careful.

The properties are far from inductive, because a RES is right for reasons that lie
in another process.  `IntegrityInv` adds: every REQ on a channel or in a handler asks
for a part of a chunk that may be asked for (`GoodREQ`); every RES carries right blocks
of such a chunk, all of which its sender holds (`GoodRES`); what is in `computed`, in
`snap` or being sent is complete (`FoundRight`); a file is created once, and never if
it was there at the start (`FilesOnce`).  The step to it goes through `HaveGrows`: `SwarmStep` shows that only
`Write` changes a file and only by right blocks, so that files grow, and everything
`IntegrityInv` says of other threads and channels stays true while files grow
(`GoodStays`, `ChanStep`, `JobStep`, `FoundStep`).  Each action then only answers
for what it adds.

Left to TLC: `FetchAnswered` and `FetchServed`, which need fairness.

### Packages, MerkleTree and PackageFile

`Transfer` has one package, its tree reduced to the leaves; `Packages` has one process
with several packages, the whole tree and the memory they are kept in.  What other
processes send is an input (`Incoming`).

| variable | code |
|---|---|
| `table` | `packages->array[0 .. size-1]`, each element the number of the `bpkg_load` that allocated it |
| `made`, `freed` | per such object, the file it was loaded from; the objects `bpkg_obj_destroy` freed |
| `computed` | per object, the nodes whose `computed_hash` equals `expected_hash` |
| `exists`, `length`, `right` | per data file, whether it is there, the chunks that lie within it, those that are right |
| `once` | ghost: the chunks that were right at some moment |
| `pc`, `obj`, `job` | per thread, where it is, its pointer to a package, the packet it handles |
| `row` | the loop of PACKAGES |
| `idx`, `snap` | the loop over chunks of `bpkg_get_min_completed_hashes`, `final_hash` |
| `todo` | the calls still to be made by `bpkg_compute_hashes` and by the helper that collects the query |
| `found` | the query that is being built |
| `settled` | ghost: this scan opened the file, and no file was written during it, nor during one that overlaps it on the same tree |
| `fault` | the first use of freed memory, of NULL or of a file that did not open |

One step is one operation under `packages_mutex`, one file operation, one chunk read
and hashed, one hash stored, one call of a recursive function on a node.  So scans of
the same tree interleave at every node, and a write may fall between any two chunks
of a scan.  A hash is represented by whether it is the expected one; SHA-256 is taken
as injective (`HashesOf`).  The build (`Makefile`, line 2) uses the address sanitizer:
freed memory is not reused, new memory is filled with a byte that is in no hash, and
the first step on freed memory, through NULL or on a file that did not open ends the process.  In the model
`fault` is set and nothing happens any more; the properties cover the states before
and after.  `Growing` is the self-deadlock of `append_dynamic_package_array` on a full array:
main keeps `packages_mutex`, and lookups wait for ever.  REMPACKAGE, which takes the
mutex too, is main's own and cannot be reached then.

A RES is written as it comes: `WriteChunk` makes a chunk right or wrong as the packet
says, and so a chunk that was right may become wrong.  A REQ may name any hash of `Hash`,
also one that no tree has; `find_hash` then returns NULL and `UseNull` ends the process.
The files are there or not, and a call of `fopen` may fail although the file is there:
a scan that cannot open it ends empty (`OpenFile`), `bpkg_file_check` takes it for missing
and empties it (`FileCheck`, for the packages in `Mistaken`), and the other three calls
use the NULL they get (`UseNoFile`).  The answer to a REQ, a refusal or the pieces of a
chunk, is sent at "send", where the thread waits for its peer as long as the peer likes
(`Sent`, which has no fairness); several pieces are one wait.

`MerkleTree` numbers nodes as the code does, level by level from 0, and defines
`find_hash` and the list of chunks under a hash as recursive functions; `Covered`, the
chunks under a node, is defined without recursion, by the least set that contains a
leaf and the parents of its members, so that it can be proved about.  `PackageFile`
abstracts a line of a `.bpkg` file to its label and count, and keeps every test of
`bpkg_load`.  `Whole` says independently what a complete file is.

| run | instance | shows |
|---|---|---|
| `packages` | a package of four chunks, of which two are equal, and one of a single chunk; two damaged `.bpkg` files; main and a handler that is sent REQ for a hash in the tree and for one in no tree, and RES that are right or wrong; two loads | `TypeOK`, `ArrayAccountsForAll`, `HashesSound`, `QuietScanExact`, `ChunksUnderHashInOrder`, `NullOnlyIfSingleOrUnknown`, `LoadedWhole`, and `ThreadsReturn` under `FairSpec` |
| `packages_freed` | the same | `NoUseAfterFree` violated: REMPACKAGE between the lookup for a REQ and its use |

* `ArrayAccountsForAll`: a package is in the array once, destroyed, or in main's hands.
* `HashesSound`: from whatever mixture of older and newer hashes of several scans a
  node's hash is computed, and whatever peers write meanwhile, it counts as complete only
  if each chunk under it was right at some moment, and so for every node in a query.  More
  is not true of the code: a hash that a scan read before a wrong RES is stored after it,
  and counts until the next scan of the tree.  What holds of the file as it is now is
  the next property.
* `QuietScanExact`: scans that overlap do not disturb each other as long as the file is
  not written: each of a file of full length ends with exactly the complete nodes, and its
  query is the smallest set that covers them.  With writes there is no such claim, and
  `settled` says which scans it is about.  Of a file that ends early nothing is claimed:
  `bpkg_get_min_completed_hashes` then returns an empty query although chunks may be
  complete, and `bpkg_get_completed_chunks`, which only `pkgmain` calls, one of length 0
  (pkgchk.c:371-411: `len` is set after the loop), although pkgchk.h:72-73 and pkgchk.c:345
  say "Retrieves all completed chunks".
* `ChunksUnderHashInOrder`: the chunks under a hash come in file order, also when the
  hash is in the tree twice.
* `NullOnlyIfSingleOrUnknown`: NULL is dereferenced for a package of one chunk, where
  the table of the leaves is never filled, or for a hash that is nowhere in the tree the
  peer asks about, and in no other case: `find_hash` misses no node, and no scan leaves
  the table of the leaves.  The code prevents neither of the two.
* `LoadedWhole`: only whole files become packages, so that a list never runs into the
  next section.
* `ThreadsReturn`: commands end, and a packet is dealt with up to the send of its answer:
  no scan, search or listing goes on for ever.  Its exceptions are the end of the process
  and a full array: with `Capacity = 1` in `packages.cfg` the second ADDPACKAGE takes
  `packages_mutex` twice, and the handlers that look packages up wait for ever; without
  the exception TLC finds that.  The run itself loads two packages and does not fill ten
  places; `peer_growth` shows the same mistake in the array of connections.

Four chunks give a tree of three levels, the least in which inner nodes have inner
children; two equal chunks are the least in which `find_hash` has a choice.  The file
starts with the first three chunks, all right, and one RES brings the last, another
spoils it again: scans meet a short file, a whole one, and one that becomes right or wrong
while they run.  The second package has no file, so
that it is created, and its file is the one `bpkg_file_check` may fail to open.
`MaxObjects = 2` loads are
the least with which one package is found behind another or is loaded again after its
removal.  Main's PACKAGES scan overlaps with the handler's scan for a REQ and with its
writes.  A write by another handler in the middle of two overlapping scans would need
a third thread, with which TLC does not end in reasonable time; there the proofs of
`HashesSound` and `QuietScanExact` say what the run cannot, for any number of threads.
Fairness: threads run; nobody has to type a command, to send a packet or to read one.

### What is proved about Packages

For every set of packages with trees of any size, every set of `.bpkg` files, threads,
packets and initial files that satisfy the assumptions of `Packages`.

* `CoveredLeaf`, `CoveredInner` (`MerkleTreeProofs`): a leaf covers its own chunk, an
  inner node what its two children cover.  The nodes above a leaf are closed upwards
  (`AboveUpClosed`); if neither child of n were among them, they would be closed
  without n as well, so n is not among them either.
* `TypeCorrect`: `Spec => []TypeOK`, by `TypeInv`: `PointersOK` (a pointer that is used,
  or in the array, is to an object that was loaded, and recursive functions at work have
  a call to make) and `JobsOK` (the packet fits the program point).
* `ArrayAccountsForAllAlways`: `Spec => []ArrayAccountsForAll`, for any number of loads
  and removals, by `AccountInv`, which adds that nothing freed is in the array, that
  entries differ, and that main is about to append an object only it knows.
* `HashesSoundAlways`: `Spec => []HashesSound`, with no assumption on peers, threads or
  files.  `AskedInv` says that the packet a handler deals with is one its peer may send, and
  that its pointer is to the package the packet names; `OnceInv` that what is right was
  right at some moment, and `NextOnceInv` that `once` only grows, also when files are
  spoiled or emptied.  `ScanInv` says of each thread's loop (`LoopAt`) that a chunk index is
  a chunk, that a hash about to be stored as right is of a chunk in `once`, and that
  `bpkg_compute_hashes` is only called on inner nodes; then a stored leaf is sound by
  `CoveredLeaf`, and an inner node whose two children count as complete is sound by
  `CoveredInner`, however old the two hashes are.
* `QuietScanExactAlways`, `QuietQueryCoversAlways` (`ScanProofs`): `Spec => []QuietScanExact`,
  and that such a query covers exactly the right chunks, with no further assumption.  The inductive invariant is
  `SettledInv`.  It has to say how far every undisturbed scan has come
  (`UndisturbedInv`): leaves before the loop's index agree with the file (`LeavesAgree`);
  of a recursive traversal, every inner node that does not agree yet is under a call
  still to be made or is combined by a later one (`Computing`), and what the query still
  lacks is under such a call (`Visiting`).  A store of another thread may not undo any of
  that, and it does not because the other thread scans the same tree and is undisturbed
  too (`SettledTogether`): what it stores is right by the same invariant.  `RangesInv`,
  `ComputedInTree` and `LengthsOK` bound what the loops, the hashes and the files range
  over.  That every node is under the first call, and that each complete chunk is under
  one of the highest complete nodes (`HighestCover`), are inductions on the tree.
* `FindHashFinds`, `ChunkHashesInOrder` (`SearchProofs`): in a tree of any size
  `find_hash` finds a node with the hash, unless there is none; the chunks listed under a
  hash are those of the node, in order, although another node with that hash may be
  found.  The second needs that equal hashes mean equal leaves (`SameLeaves`), which is
  true if SHA-256 is injective and no chunk of a data file is itself the text of two
  concatenated hashes (`KindsApart`): such a chunk has the hash of an inner node, and the
  search would stop there.  `ChunksUnderHashInOrderAlways` states it of the managed
  packages.
* `NullOnlyIfSingleOrUnknownAlways`: `Spec => []NullOnlyIfSingleOrUnknown`, whatever hashes
  peers ask for.  It rests on `FindHashFinds` and on `AskedInv`: the pointer of a handler
  is to the package its packet names, and a loop never leaves the tree.
* `LoadsWhole` (`PackageFileProofs`): what `bpkg_load` accepts is a whole package file, if
  the lines are those of a package file of which any may be missing and any entry may
  be there several times (`LinesLost`).  The lines of a list are accepted whatever they
  are (`pkgchk.c:52-168`): a short list swallows the headings that follow it.
  `LabelsRead` says which lines the parser reads as headings; all four labels have to be
  among them, so no heading was swallowed, and then the lists lie between headings and
  have the lines they count.  Without the assumption there are files for which it is
  false: one with a heading twice, of which a list swallows one, or with the size, which
  `bpkg_load` does not ask for, after a list that swallows it.  `LoadedWholeAlways`
  states it of all packages ever loaded.

The instance of `packages` satisfies `KindsApart` and `LinesLost`, so the run checks
these properties where their theorems apply; the other theorems assume nothing.

Inductions over trees and lines are done without the library's induction theorems, by
the least number in a set of naturals (`LeastNumber`, proved from the theory of
well-founded sets in `MerkleTreeProofs`): `DownInduction` and `TreeInduction`
(`SearchProofs`) for trees, `BackInduction` for lines.  That a recursive function of the
model is what its equation says is proved the same way (`TreeRecursion`, `LoopExists`):
the function is built from the leaves, or from the last line, towards the front.

Left to TLC: `ThreadsReturn`, which needs fairness.

## 3. Not modelled, and why

* `sha256.c`: vendored; where it is used it is taken to be injective.
* `cli.c`: a lookup of a word.  `packet_dump.c`, `pkgmain.c`: front ends that
  print.  `tree/merkletree.c`, `package.c`: empty.
* `config.c`: `parse_config` reads three lines before any thread exists, and `Peer`
  takes its result as given.  The characters of a line in a `.bpkg` file.
* PEERS changes no state of the process.  It sends PNG to every connected peer from the
  main thread, and FETCH its REQ: both can block main as the DSN of DISCONNECT does.
* `bpkg_get_all_hashes` and `bpkg_get_completed_chunks`: only `pkgmain.c` calls them.
* Torn reads: main copies an entry of the array while another thread writes it, and may
  get the address of one peer with the port of another; the models read an entry whole.
* RES packets that cover parts of chunks, in `Packages`: each stands for what it leaves
  of one chunk, and one that spans chunks for several; `Transfer` has the pieces.
* Two connections between the same two processes at once, in `Transfer`; failing
  disks and deleted files.
* Short reads: `recv` may return a part of a packet, which the code would take for
  a whole one; the models deliver whole packets.

## 4. Plan

Done: `ConnectionArray`, `Peer`, `Swarm`, `Transfer`, `MerkleTree`, `PackageFile`,
`Packages`, with their runs and proofs.  Next, in this order:

1. A run of `Peer` in which the same peer is dialled twice, with a property on "Already
   connected" (btide.c:109-115).
2. `Network`: two `Peer`s composed through the packets they exchange, PEERS and
   FETCH sends on an entry that was copied, a half-open peer, short reads; `Peer`
   shown to implement the `Connect` and `Drop` that `Transfer` assumes.
3. Proofs: the serving theorems with DISCONNECT of connected peers only.
