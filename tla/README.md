# A verification of Unworkable

Unworkable is a BitTorrent client in C: one thread, libevent callbacks, block
requests spread over peers by a scheduler that runs every second. This directory
holds TLA+ modules translated from its source, TLC configurations that check them
on small instances, and TLAPS proofs of the properties that matter most for every
instance. `PROJECT.json` lists the components, runs, mutants, the map from
definitions to source lines, the hazards and the theorems.

## 1. The system

### Components

| part | source | state | operations |
|---|---|---|---|
| block requests | `network.c` 1349-1413, 1621-1721 | `struct piece_dl` on the heap, per-peer list, red-black tree of per-block lists | create, find, free, orphan, recycle, count bytes |
| message handler | `network.c` 537-861 | `peer.state` flags, bitfield, `dl_queue_len`, piece flags | one case per message |
| scheduler | `scheduler.c` | peer list, rarity array | reap, threshold kill, dequeue uploads, fill queues, choke, end game, announce |
| handshake, framing | `network.c` 346-529 | `rxmsg`, `rxpending`, `rxmsglen`, HANDSHAKE/GOTLEN flags | read callback, re-entered until the buffer is empty |
| peer list | `network.c` 118-337, 1433-1585 | `session.peers`, `num_peers`, descriptors | tracker lists, connect, accept, evict, keep-alive |
| uploads | `network.c` 624-771, 955-997, 1728-1761, `scheduler.c` 285-297, 369-435 | upload queues, AMCHOKING, INTERESTED | REQUEST, CANCEL, dequeue, choke algorithm |
| announces | `announce.c` | `announce_underway`, response buffer, two timers | announce, response, end of response, update |
| torrent store | `torrent.c` 338-834 | maps, descriptors, reference counts, piece flags | map, read, write, hash check, unmap |
| fast resume | `torrent.c` 843-961, `main.c` 133-172, `trace.c` 64-73 | resume file, data files | load, dump, initial hash check, signal |
| bencode | `bencode.c`, `parse.y`, `buf.c`, `torrent.c` 53-267 | node tree, parser stack | parse, find, metainfo |
| control server | `ctl_server.c`, `gui/conn.py` | connections | bootstrap, notify; a line protocol read by the GUI |

### Interactions

Everything runs in one thread, so a handler is never interrupted, but handlers of
different peers, timers and signals interleave in any order. The scheduler and the
message handler share the request structures and the peers' counters and flags.
The message handler calls the scheduler's choice of pieces (to decide whether it is
interested), the torrent store, the resume dump, the announce and the control
server. Peers answer late, twice, out of order or not at all, choke with requests
outstanding, disconnect and come back. A dead peer is only marked; the scheduler
frees it at the next tick, and until then its buffered messages are still handled.

### What is hard here

The hazards, with their lines, are in `PROJECT.json`. In short: a request is
reachable by three routes and removed by five handlers; the same block may be
requested from several peers in the end game, and answers are matched to requests
with a fallback that may hit another peer's request; an unsigned counter is kept in
step with the requests by hand in six places; a piece is only checked when a block
arrives; dead peers act until reaped; messages arrive in parts of any size; the peer
list is changed in the middle of a walk over it; the first tracker answer sets up
everything the program runs on; pieces cross file boundaries; the resume file is
trusted without a check.

## 2. Modules

| module | models | proofs |
|---|---|---|
| `PieceDl` | the request structures, one action per operation | `PieceDl_proofs` |
| `Download` | message handler and scheduler, download side; extends `PieceDl`; peers may send anything | `Download_proofs` |
| `Swarm` | `Download` composed with peers that follow the protocol | |
| `PeerStream` | abstract: a byte stream cut into whole messages | |
| `PeerWire` | handshake and framing; implements `PeerStream` | `PeerWire_proofs` |
| `Session` | announces, tracker answers, peer list, connections, timers, descriptors | |
| `Uploads` | upload queues, the tick's uploads and the choke algorithm | |
| `Store` | piece lengths, memory maps over several files, block reads and writes | |
| `FastResume` | data file, resume file, crashes | `FastResume_proofs` |
| `CtlServer` | control server, its line protocol and the client that reads it | `CtlServer_proofs` |
| `MC*` | instances for TLC | |

`Download`, `Session`, `Uploads` and `PeerWire` look at the same peers and the same
scheduler tick from four sides. They share no variables: what one of them knows exactly
(the bytes of a message, the answers of the tracker, the ranking of the peers) is any
possible event in the others.

### PieceDl

`piece_dl` is the heap (NULL where nothing is allocated), `tree` the set of blocks
that have a node in the red-black tree, `idxnode_piece_dls` the list of each node
and `peer_piece_dls` the list of each peer. `pd->bytes` is counted in units of
`pd->len`: a PIECE of another length is ignored, so 0, 1 and "more" are the only
values the code tells apart. The tail-queue operations are functions on sequences;
`network_piece_dl_find` returns the set of the request found, empty for NULL.

### Download

A handler without a loop is one action. A handler with a loop is a chain of steps:
`at` names the loop and only the running handler can step until `at = "idle"`. So
`MSG_PIECE` stores the block and counts it, and goes on to `checkhash` and `cleanup`
when every block was found complete; `tick` starts the scheduler, which visits the
peers in `todo` (reaping, killing or filling each), then decides on the end game,
whose requests are made in the code's order.

Peers are not trusted: any message may come at any time from any connected peer,
also from one that is marked dead. Time is abstracted: the communication threshold
may be exceeded at any tick, a peer's rate may ask for any queue length between the
two bounds, the rarity array may be of any age (it is rebuilt or not at each use).
`data[b]` says whether the stored content of a block is the torrent's; the hash of a
piece is right exactly when all its blocks are. HAVEALL and HAVENONE are BITFIELD
with all and with no bits; a message that only makes the client drop the peer is
`network_handle_peer_error`. Sending HAVE, INTERESTED and so on has no effect on the
state modelled, except the AMINTERESTED flag. `u_int32_t` arithmetic on
`dl_queue_len` is modulo `U32`.

`evict` is the descriptor limit of `network_peerlist_connect()`. The code frees the peer
before it unlinks it, which is undefined behaviour. `Session` has both outcomes: the
links are still there, or the program crashes. `Download` goes on from the first one, as
nothing is left to check after the other.

Every step of `Download` uses the request structures through the operations of
`PieceDl`: `PdSpec` is checked as a property of `Download` and proved of it (refinement).

### Swarm

The peers are external: they do what the client expects of a peer. `pipe[p]` holds
the REQUESTs `p` has not answered; `network_peer_request_block` appends to it in the
same step that creates or recycles the request. A choking plain peer drops its pipe,
a fast one rejects each entry. Peers disconnect at any time and may reconnect.
`fast_peers` are the peers that have the fast extension. What the client takes a peer for
is another matter: the handshake tests a bit of the info hash (see `PeerWire`), so that one
`fast_bit` decides for all peers of the torrent. A fast peer that is taken for plain is killed
for its first REJECT (`network.c` 774); `MCSwarmReject.cfg` has that case, the passing runs are
about peers for which it does not arise.

### FastResume

One data file, byte by byte (right or wrong), in the page cache (`mem`) and on disk
(`disk`), and the resume file in both places. The kernel writes back any page at any
time. A kill keeps the page cache, a power loss does not. The resume file is
truncated by `fopen()` and gets its content at `fclose()`: two steps.

### PeerWire and PeerStream

The bytes a peer will ever send are fixed in `wire`; `chunk` lets any number of them
arrive, and `network_handle_peer_response` is one call of the handler, which goes on
calling itself (`input`) before anything else happens. `new_buffer`, `bufferevent_read`,
`incomplete` and one operator for each kind of complete buffer are the parts of the call
in the code's order. All lengths are parameters (the code's values are in the comments),
and so is the conversion of a length field, `ntohl`. What a message does is left to the
other modules: here it may kill the peer, establish it or complete a piece. A peer that
is killed keeps its buffer and counters; the bytes it goes on sending are read, too,
also where the code then takes uninitialised memory for a length (`length_fields`).

`told` is what the peer knows of our pieces, if it reads messages as this program does: a HAVE
ends its wait for a bitfield, and a BITFIELD, HAVEALL or HAVENONE that comes later is "not
expected" and ignored. `first` records which of them came first, `had` the pieces we had when the
connection was made. A HAVE goes to every peer, also to one in the middle of its handshake, so
that it may come first.

`PeerStream` is the promise to `network_peer_process_message()`: each message is handed
over once, whole and in order. `FramingSpec` says that `PeerWire` implements it. The
refinement mapping gives the abstract position by `frame_start`, which works out from
`rxmsglen`, `rxpending` and the flags where the frame that is being read began.

### Session

One action per event handler, except that `network_peerlist_connect()` takes one step for
each peer (`at = "connect"`), so that the invariants are looked at in the middle of its
walk. An answer is its number of bytes and an outcome: nothing, bad, fatal to the
program, or a list of addresses. `peer` is the memory of `struct peer`s, `fds` counts
open descriptors, `lost` those that nothing refers to any more. `missing` counts the pieces
that are not good and `left` is `tp->left`, in pieces. They are not the same: `left` starts as
the whole torrent, however much of it was found on disk, unless that is all of it. `told`
records whether the tracker was ever sent `left=0` or the completed event. `announce()` ends the
program when the tracker cannot be reached, as the code does. When the first answer is bad, or
none comes, nothing is set up to try again; the program does not end either, since its signal
events keep `event_dispatch()` waiting. A failed `accept()` leaves the listener's bufferevent
disabled: `listening` is false from then on.

### Uploads

`tick` is the scheduler's second with everything in it that matters to uploads, in the
code's order: the dead are reaped, the silent killed, each other peer gets one block, and
on the right seconds the choke algorithm runs. `waiting` is the peer's side: the answers it
is still entitled to. Rates are any ranking that puts interested peers first, which is what
`scheduler_peer_speedrank()` makes sure of.

### Store

`map_piece` is the loop of `torrent_piece_map()` as a fold over the files: `map_file` is a
turn, `map_two` the branch that looks ahead to the next file. `torrent_block_write` and
`torrent_block_read` give the sequence of places (file, offset) that the bytes of a block
go to or come from, so that they can be compared with the plain definition: the files as
one stream (`stream`, `slice`). Lengths are taken modulo `MOD` where the code has 32 bits.
Directories, locks and flags of `open()` are left out.

### CtlServer

A message is a chunk with a key, its values and whether it ends its line; the client reads
a line made of all chunks up to the first that does (`run`). `printed` and `truncated` are
the lengths `ctl_server_pieces()` has room for, in a number system of base `Base`; a
truncation ends the program (`running`). A failed `accept()` leaves nobody to wait for the next
client (`listening`). A client that connects again may be a new process
or the same one with its old view. `JUNK` is what the client shows when two messages are
glued together.

## 3. Runs

| run | instance | shows |
|---|---|---|
| `download_two_peers` | 2 peers, 1 block, 3 requests, `U32` = 3, seeding after the end | `OwnersConnected`, `VerifiedIntact`, `GoodPiecesExact`, `Linked`, `NoEmptyNode` |
| `download_blocks` | 1 peer, 1 piece of 2 blocks, 3 requests, exit at the end | `TypeOK`, refinement `PdSpec`, `NoErrx`, `DeadUntilReaped` |
| `swarm_fast_seeds` | 2 fast seeds, taken for fast, 1 piece of 2 blocks | `QueueLenExact`, `NothingForgotten`, `AskedOnce`, `DeadReaped` and `Completes` (liveness) |
| `swarm_mixed` | 2 peers with any shares, fast or plain, no fast one taken for plain | `AnswersExpected` |
| `fast_resume` | 2 pieces of 2 pages, kills or power losses | `ResumeSound`, `CleanStop` |
| `peer_wire` | every stream of 9 bytes over {0, 1}, 2 pieces | `BufferFits`, `NothingHeldBack`, `PeerKnows`, refinement `FramingSpec` |
| `session` | 2 addresses and incoming peers, 4 descriptors, 2 pieces | `ListExact`, `NoPeerTwice`, `FdsAccounted`, `AnswerWhole`, `LimitKept`, `AsksAgain` and `TrackerLearns` (liveness) |
| `uploads` | 3 peers, 1 slot, 1 block asked for up to twice | `UploadsExact`, `SlotsKept`, `SlotsUsed`, `QueuesMove` (liveness) |
| `store` | every torrent of up to 4 small files | `BlocksExact`, `LengthKept`, `MapsInside`, `RefsExact` |
| `ctl_server` | 1 client that may reconnect, 5 pieces, 1 peer | `PiecesShown`, `NeverAhead` |

Runs that find a disagreement between the code and what a comment in it says:

| run | property | what happens |
|---|---|---|
| `plain_choke_starves` | `EnoughRequests` | `scheduler.c` 320, "If peer is not choked, make sure it has enough requests in its queue": a plain choke also subtracts the requests already answered; the wrapped counter leaves the unchoked peer without requests until it is killed for its silence |
| `store_concatenation` | `Concatenation` | `torrent.c` 654, "one long continuous stream": a piece that begins where a file shorter than a piece ends is mapped too far into the next file, or past the last one |

Every module that models code has a type invariant. `TypeOK` is part of a run; `PdTypeOK`, `ResumeTypeOK`,
`WireTypeOK` and `CtlTypeOK` are proved; `SwarmTypeOK`, `SessionTypeOK`, `UploadTypeOK` and
`StoreTypeOK` are not listed with a run. TLC finds them to hold when they are added to
`MCSwarmMixed.cfg`, `MCSession.cfg`, `MCUploads.cfg` and `MCStore.cfg`.

`BlocksExact` and `LengthKept` are about the torrents in which no such file exists
(`regular`), and there every block is right. `NothingForgotten` and `Completes` hold for
fast seeds; `NothingForgotten` fails for peers with some of the pieces, and `QueueLenExact` for
a plain peer, which is the first half of `plain_choke_starves`. `AskedOnce` is about seeds, since
the end game asks only peers that lack a piece; `TrackerLearns` is about downloads whose `tp->left` is right. The
passing runs say where the code works. `FdsAccounted` counts the descriptors that the code loses and
does not object to them.

### Further configurations

These show further disagreements with a comment. TLC finds each of the properties violated.

| configuration | property | what happens |
|---|---|---|
| `MCDownloadEndgame.cfg` | `EndgameAsksHolders` | `scheduler.c` 460, "which peers have it?": the test of the bit is inverted, the end game asks the peers that lack the piece |
| `MCSwarmHolders.cfg` | `AsksHolders` | `scheduler.c` 231, "if this peer doesn't have this piece, skip it": the bit tested is that of the position in the sorted array |
| `MCSwarmForgotten.cfg` | `NothingForgotten` | `network.c` 688: all blocks received, none outstanding, never hash checked |
| `MCPeerWireFast.cfg` | `FastAsSaid` | `network.c` 451, "does this peer support fast extension?": the byte tested, at offset 27 of a buffer that starts at the reserved bytes, is one of the info hash, so that what the peer says does not matter |
| `MCSwarmReject.cfg` | `AnswersExpected` | a consequence: `network.c` 775, "does not support fast extension, closing", of a peer that does and was taken for plain; its REJECT after a CHOKE gets it killed |
| `MCPeerWireHave.cfg` | `PeerKnowsAll` | `network.c` 508, "if its time to send the bitfield, and we actually have some pieces, send the bitfield": a piece verified during the handshake sends a HAVE first, and a peer that reads messages as this program does ignores the bitfield then |
| `MCSessionResumed.cfg` | `ToldWhenDone` | `network.c` 712, "tell tracker we're done": the event is dropped when an announce is underway, and in a resumed download `tp->left` never becomes 0, so that no later announce makes up for it |
| `MCFastResumeUnmap.cfg` | `UnmapFlushes` | `torrent.c` 824, "flushing it to disk": `msync()` stops short of the last page of an unaligned piece |
| `MCUploadsUnchoke.cfg` | `UnchokesInterested` | `scheduler.c` 409, "don't unchoke peers who have not expressed interest": the opportunistic unchoke takes the first peer of the list |
| `MCCtlServerEmpty.cfg` | `NoPiecesYet` | `ctl_server.c` 314: the empty list of pieces is not ended, and the client reads the next message as pieces |

Two more have no configuration. `network.c` 721 speaks of cleaning up all the requests of a
verified piece, and the loop below it frees one per block (the model does the same; freeing
all would make an end-game answer still on its way look unasked for, see the mutant of
`AnswersExpected`). `torrent.c` 919 promises -1 when the resume data cannot be loaded, and an
empty file loads as a bitfield of zeroes (`bits`).

`ResumeSound` holds for kills and for power losses, each alone. With both in one history it
does not: a kill in the middle of a dump leaves an empty resume file in the page cache and
the old one on disk; the next run downloads a recorded piece again and stores a wrong block;
a power loss then brings the old resume file back.

### Bounds

* Requests (`Pd`) are addresses: 3 at a time. `HeapBound` cuts a behaviour when all are in
  use, since the real heap has always one more; the end game can otherwise grow the requests
  without limit. Three requests for one block are enough for an original, an end-game
  duplicate and an orphan at once.
* `U32` of 3 or 4 wraps as 2^32 does; `MaxRequests < U32` as in the code.
* `MinQueue` is 2 as in the code; `MaxRequests` 2 or 3 instead of 100.
* `RandomPieces` (4 in the code) is 1 where the random choice is to happen, and larger than
  the number of pieces where the rarest-first choice is.
* `DeadSilent` (two-peer run only) cuts behaviours in which a dead peer changes its own flags
  again; the one-peer run has them.
* `peer_wire`: a handshake of 4 bytes (1 + 3), length fields of 2 and messages of up to 2,
  where a length of 3 is too long. Nine bytes are a handshake with two keep-alives, a
  message and half of another length, or a message of two bytes; every way to cut them up happens.
* `session`: one peer is allowed below the limit (4 descriptors, 2 of them kept back); two
  addresses and accepted connections exceed it. Two pieces tell a download begun from nothing, a
  resumed one and a complete one apart. `READ` 2, `RESBUFLEN` 3 and answers of up to 4
  bytes make the buffer grow and take several calls. There are as many `struct peer`s as can exist.
* `uploads`: one slot and three peers, so that peers compete for it and for the opportunistic one.
* `store`: up to four files of up to four bytes, pieces of 2 to 4, `MOD` 5: pieces within a
  file, over two, three and four files, and totals beyond `MOD`.
* `ctl_server`: at most three chunks wait for a client (`MaxOut`). Five pieces in base 2 have
  one to three digits, so that some numbers are longer than `ROOM` allows for and the last does not
  fit in `piece[]`.
* Symmetry over peers and requests is used only where the initial states and the constants
  treat them alike, and never with liveness.

### Fairness

`tick` of `Download` is strongly fair: the timer is rearmed by every tick and libevent looks at
the timers in every turn of its loop, so messages cannot keep it from running for ever. The
steps of a running handler are weakly fair: a handler runs to its end. In `Swarm` each peer
answers, or refuses, its oldest request infinitely often if it can do so infinitely often.
Nothing is assumed of connecting, choking and disconnecting; `Completes` speaks of behaviours in
which every peer finally stays connected and unchoked. The communication threshold may kill a silent
peer at any tick and never has to: no liveness property depends on it, and none is refuted for want of it. `DeadReaped`
is checked with a second peer that keeps the event loop busy, and without a state constraint. In `Session` the running handler
(`Connect`) and the announce timer are weakly fair, and nothing is assumed of the tracker or of
peers: `AsksAgain` starts from a request that has ended, and `TrackerLearns` is conditional on
requests ending again and again, because the code has no timeout for them. In `Uploads` the
tick is weakly fair; it is always enabled.

## 4. Proofs

`PieceDl_proofs` proves `PdTypes`, `PdLinked` and `PdNoEmptyNode`: `PdTypeOK`, `Linked`
and `NoEmptyNode` hold after any sequence of operations, for any sets of peers, blocks and addresses. Assumed of the constants:
NULL is no peer, no address and no request. The invariant `PdInv` (types, `Linked`,
`NoEmptyNode`) is inductive as it stands: `Linked` says both that the lists have no
duplicates and that they hold exactly the requests that point back at them, and both
are needed for a removal to take the right element out of the right list; that a node
has a request for as long as it is in the tree is what makes `IndexRemove` find it. The
lemmas `QueueInsert` and `QueueRemove` say what the tail-queue operations do to the set
of elements and to the absence of duplicates; there is one lemma per operation.

`Download_proofs` proves, for any peers, pieces, blocks and bounds, with any peer
sending anything at any time: `DownloadTypeOK`, `DownloadOwners` (`OwnersConnected`),
`DownloadVerified` (`VerifiedIntact`), `DownloadGoodPieces` (`GoodPiecesExact`), `DownloadNoErrx`,
`DownloadDead` (`DeadUntilReaped`) and `DownloadRefines` (`Spec => PdSpec`). Assumed of
the constants: there is at least one piece and every piece has at least one block;
`Block` is the set of their (index, offset) pairs; `MinQueue <= MaxRequests < U32`. All
rest on one inductive invariant, `DInv`, which adds to the properties themselves

* `PdInv`: a block is stored only for a request that is found, and a request is freed
  through lists that must be right;
* `Control`: what the code of a loop relies on while it runs. The piece in `checkhash`
  is mapped and not yet verified (hence `GoodPiecesExact` and `NoErrx`), the peer being
  freed is no longer in the list, the scheduler's remaining peers are in the list and
  none is there twice;
* `Unknown`: a peer outside the list, unless it is just being freed, has no requests and
  no flags. It gives `OwnersConnected`, which is not inductive: it says nothing of the
  peer whose requests are being taken away one by one.

`NextRefines` shows that every step of `Next` is a step of `PdNext` or leaves the request
structures alone; one `...Sound` lemma per action shows that it preserves the rest.

`FastResume_proofs` proves `ResumeTypes`, `ResumeSafe` (`ResumeSound`) and `ResumeCleanStop`
(`CleanStop`) for any number of pieces, piece sizes and page size. With kills there is no condition on the layout. With
power losses the theorem assumes that every piece starts on a page boundary (`Aligned`):
`MCFastResumeUnmap.cfg` shows what the `msync()` of an unaligned piece misses. The
inductive invariant has two halves. `CacheInv` is about the page cache: what the resume
file claims is right, and the running program takes it for verified and so does not write
it. `DiskInv` says the same of the disk, except for a verified piece that is yet to be
unmapped, and that the resume file on disk claims no more than the cached one once the
program has stopped; it is what a kill between two power losses would break.

`PeerWire_proofs` proves `WireFraming` (`Spec => FramingSpec`), `WireBuffer` (`WireTypeOK` and
`BufferFits`), `WireNothingHeldBack`, `WireFastByTorrent` and `WirePeerKnows` for any alphabet,
lengths, number of pieces and stream. Assumed of the constants: the lengths are positive, a
length field stands for a natural number, and the first part of the handshake is not longer than
the info hash (20 and 20 in the code), without which the fast bit would not be one of the info hash.
The inductive invariant says, of a peer that is alive, what the buffer holds: its first
`rxmsglen - rxpending` bytes are those of the wire from the start of the buffer on, the length in
front of a body is the number on the wire, and exactly one of the handshake flags, or neither,
is set. (`Known`, a part of it, ties `told`, `first`, `had` and the pieces together.) It is needed because `FramingSpec` compares a message with bytes of the wire that were read
many calls ago. Of a dead peer only `BufferFits` is kept. `WireFraming` then maps each kind of call to one
step of `PeerStream` or to a stutter. `WireFastByTorrent` is not a merit of the code: it says that
the flag ignores the peer, and so justifies the one `fast_bit` of `Swarm`.

`CtlServer_proofs` proves `CtlTypes`, `CtlNeverAhead` and `CtlPiecesShown` for any clients, peers,
pieces and lengths. The inductive invariant speaks of what is on its way to a client as well as of
what it shows: every message tells of pieces that are verified and of bytes that were received
(`AllTold`), every client shows no more than that (`AllWithin`), and either a client shows the current
list of pieces and no other is on its way, or the current list is on its way, begins a line, ends it, and
no other comes after it (`AllCurrent`). The last one is needed for `PiecesShown`, which itself only
speaks of clients that have read everything. That an open line does no harm rests on the order in the
code: bytes are told, and end the line, before the piece they complete is.

Only model-checked: the liveness properties (`Completes`, `DeadReaped`, `AsksAgain`, `TrackerLearns`,
`QueuesMove`), which are out of the prover's reach; the safety properties of `Swarm`;
and the properties of `Session`, `Uploads` and `Store`, which rest on folds over sequences and
on sums and cardinalities, for which the proof needs an induction over data.

## 5. Not modelled

* The bencode parser and the metainfo reader (`bencode.c`, `parse.y`, `buf.c`, `torrent.c` 53-273):
  a sequential conversion of text to a tree with no state that outlives it. Its outcomes (an answer
  that parses, one that does not, one with fields missing) are the actions of `Session`, and any
  well-formed torrent is an initial state of `Store`. A model of the grammar would be the
  parser over again.
* The text of requests to the tracker and of the HTTP answer, option parsing, the progress meter,
  tracing, the drawing code of the GUI and the unused key exchange (`network_crypto_dh`): no state the
  rest of the program reads.
* The compatibility library, besides the tail queues. SHA-1 is an oracle: a piece whose hash
  agrees has the right content.
* Clock time: how often a choke round happens, and after how long a peer counts as silent. Both may
  happen at any tick.
* Peers that download from us and upload to us at once: `Uploads` and `Swarm` are separate modules, because
  the code's two directions share only the peer list and the dead flag, which both have.
