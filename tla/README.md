# A formal model of the Hybrid FTP programs

The repository is a client and a server for a subset of FTP. Commands and replies
travel over TCP; file contents travel over UDP, made reliable by a protocol of the
project's own. This directory holds TLA+ modules that model the handshake and the
transfer protocol, the text translation, the file tree that the sessions share, the
control connection and the table of clients, TLC configurations that check them on
small instances, and TLAPS proofs of the main properties for every value of the
constants.

Paths below are relative to the repository root (`client/src`, `server/src`,
`shared`, `tests`, `docs`).

## 1. The system

### Components

| component | where | state it keeps | operations |
|---|---|---|---|
| control connection, server | `server/src/control/Session.cpp`, `CommandDispatcher.cpp` | `ClientSession`: user, login, cwd, transfer type, data endpoint, pending RNFR, `transferActive`, `abortRequested`, `transferWorker` | receive a line, dispatch it, reply; start, finish, abort a transfer; shut down |
| control connection, client | `client/src/control/Session.cpp` | `ClientState`: data mode and sockets, transfer type, `transferActive`, `abortRequested`, `transferWorker` | prompt, send, read the reply; start a worker, ABOR, join, leave |
| RDT sender, server | `server/src/rdt/RdtSender.cpp` | window of packets in flight, retries, congestion window, RTT estimate | `sendChunk`, `pollAcksAndRetransmit`, `flush`, `waitForClientReady` |
| RDT receiver, client | `client/src/rdt/RdtReceiver.cpp` | next expected number, out-of-order buffer, pending final acknowledgement | `receiveNext`, `confirmReceive`, `rejectReceive`, `signalClientReady` |
| RDT sender, client | `client/src/rdt/RdtSender.cpp` | one chunk and its attempt | `sendChunk`, `waitForAck`, `waitForServerReady` |
| RDT receiver, server | `server/src/rdt/RdtReceiver.cpp` | next expected number, out-of-order buffer | `receiveNext`, `sendAck`, `initiateActiveHandshake` |
| data channel sessions | `*/src/datachannel/DataChannelSession.cpp` | the loop over the chunks | `sendFile`, `receiveFile` |
| chunked writers | `client/src/fileio/`, `server/src/filesystem/ChunkedFileWriter.cpp` | temporary file next to the destination | append, commit, remove |
| upload worker | `CommandDispatcher.cpp`, `startUploadTransfer` | staging file of APPE, reserved name of STOU | receive, append atomically, clean up, reply |
| ASCII translation, readers | `AsciiTranslator.cpp`, `AsciiChunkedReader.cpp`, `ChunkedFileReader.cpp` | a CR carried from chunk to chunk | next chunk, encode, decode |
| directories and paths | `server/src/filesystem/DirectoryService.cpp`, `PathResolver.cpp` | the file tree below `server_root` | LIST, CWD, MKD, RMD, DELE, RNFR/RNTO |
| `ClientRegistry` | `server/src/common/ClientRegistry.cpp` | map from SOCKET to client | add, remove, list |
| header, checksum, SHA-256 | `shared/` | none | encode, decode, validate, hash |
| PORT and PASV | `*/src/datachannel/*Mode*.cpp` | a socket or an address | open, parse, format |

### How they interact

Each end runs a main thread for the control connection and at most one worker thread
for a transfer. The two threads of an end share atomic flags (`transferActive`,
`abortRequested`), the `std::thread` object and, on the server, a mutex around each
reply. A worker asks the abort flag through a predicate that it passes down to the
sender or receiver. The workers of the two ends talk through UDP only. The server's
worker writes the completion reply on the TCP connection; the client's worker reads it.
After an ABOR it is the server's control thread that writes the reply instead.

The two directions are not mirror images. In a download the sender keeps a window
(selective repeat, with a congestion window) and the client acknowledges the final
datagram only after the file is saved. In an upload the sender is stop-and-wait, the
server acknowledges the final datagram on receipt, and the outcome is in the reply.

### What is hard

* UDP loses, repeats, delays and reorders, in both directions, so that a repeated
  old datagram or acknowledgement meets a receiver or sender that has moved on.
* A failure may strike at every step of storing a file: append, commit, the last
  acknowledgement, the append of an APPE.
* ABOR runs against a worker at an arbitrary point, including just before and just
  after its reply.
* Replies have no identity: the client pairs them with commands by their order.
* Threads have to be joined before they are replaced, and two joins, one on each
  side, wait for one another through a reply.
* Every wait has to end whatever the network does.
* The sessions of the server change one file tree without a lock. Each command looks
  at a path in one system call and acts on it in another, and an append reads a file
  that it replaces much later.
* A text file is cut twice, once before and once after its translation, and a line end may
  fall on either cut.

### What makes each component correct

* **Download**: the client's file is replaced whole or not at all; 226 means that it is
  saved; the sender drops its copy of a chunk only when the receiver has it; the
  receiver's window is never overrun; both workers end.
* **Upload**: sender and receiver are never more than a chunk apart; 226 means that the
  destination holds the upload (for APPE, appended once); a failure leaves nothing behind
  that could be removed; the destination changes once; both workers end.
* **Control connection**: no joinable thread is overwritten; an abort hits the transfer
  it was meant for; the ends agree on type and data mode; each reply is read for
  the command that it answers; nobody waits for ever; a client process that ends
  leaves no session.
* **Handshake**: a receiver that is ready has been heard; a lost answer to the SYN loses and
  doubles no data; a sender that reports success had a receiver; both ends come to a verdict.
* **File store**: the tree stays a tree below its root; STOU names are unique; stored data is lost
  only where a client asked for it; an append keeps what the file held.
* **Readers and translation**: chunk by chunk gives the same as the whole file at once; there is
  one final chunk; what is committed is complete.
* **Registry**: a client that is served is listed, under its own address and name.

The hazards, each at its line, with the properties that cover them, are in
`PROJECT.json`.

## 2. The modules

| module | contents |
|---|---|
| `DownloadContract` | what one RETR promises, without the data channel |
| `RetrTransfer` | one RETR after the handshake: server worker, network, client worker |
| `StorTransfer` | one STOR, STOU or APPE after the handshake |
| `Handshake` | the handshakes of a passive RETR and an active upload, and the first packets |
| `AsciiStream` | a file through readers, translation and chunks, byte by byte |
| `FileStore` | the file tree of the server and the sessions that change it |
| `ControlSession` | one control connection with its four threads |
| `ClientRegistry` | the table of connected clients |
| `RetrTransferProofs`, `StorTransferProofs`, `HandshakeProofs`, `FileStoreProofs`, `AsciiStreamProofs`, `ControlSessionProofs`, `ControlLedgerProofs` | theorems |
| `MCRetrTransfer`, `MCStorTransfer`, `MCHandshake`, `MCAsciiStream`, `MCFileStore`, `MCControlSession` | constants for TLC |

How they fit together: `Handshake` runs up to and into a transfer, with the windows but without
the counts of retransmission that `RetrTransfer` and `StorTransfer` have. These two take a file as a sequence of chunks;
`AsciiStream` shows that the chunks of a file, joined and translated, are the file. `StorTransfer` follows one upload through
every failure of its worker; `FileStore` has the same worker in fewer steps, several at a time. `ControlSession` takes
from the transfers that they end.

A definition whose comment starts with "Mutant:" is a deliberately wrong variant of
the definition after it, and is used by no specification. Substituting it shows that a
property can fail.

### RetrTransfer

`sPc` follows `sendFromReader`: `send` (about to call `sendChunk`), `poll` (in
`pollAcksAndRetransmit`), `success` or `failure` (returned), `finished` (after
`finishTransfer`). `next`, `base`, `acked` and `retries` are the deque `window`: it holds
the packets from `base` to `next - 1`. `rPc` follows the client's `receiveFile`:
`receive`, `append`, `commit`, `confirm`, then `success` or `failure`.

* A poll is a sequence of actions, as in the code: `ReceiveAck` or `ReceiveNak` for each datagram
  that is read, then `NoTimeout`, or a pass over the window with any set of expired
  packets: `Retransmit`, `GiveUp`, or `RetransmitError`.
* `packets` and `responses` are sets from which reading removes nothing: a datagram
  that was received may be received again (duplicated), in any order. `LosePacket` and
  `LoseResponse` remove one. A datagram that fails the checksum is a lost one.
* `ReceiveNew` delivers, buffers or drops by the receiver's window, and acknowledges at once
  except for the final packet, which waits for `ConfirmReceive`. `ReceiveOld` acknowledges
  again. `ReceiveBuffered` takes the next chunk out of the buffer.
* Time is left out. Whether a packet has expired depends on the RTT estimate; the model
  lets a poll find any unacknowledged packet expired, or none.
* `cwnd` in the code is a double. Only its floor is used, and it changes only by halving
  (not below 1) and by adding 1, so the floor of the double and the integer `cwnd`
  of the model agree at every step: floor(x/2) = floor(floor(x)/2), and
  floor(x+1) = floor(x)+1.
* Files are sequences of chunks. An empty file is one chunk, as `sendFromReader` sends
  one empty final packet for it.

### StorTransfer

`cPc` is `send` or `wait` inside `sendChunk`, then `success` or `failure`. `sPc` follows the
worker in `startUploadTransfer`: `receive`, `append` and `commit` inside `receiveFile`,
`received`, `cleanup`, `finish`, `finished`. `kind` is `UploadKind`. `temporary`, `staging` and
`destination` are the three files; `Absent` is a missing one. `before` remembers the
destination at the start: any of absent, empty, or existing, and the reserved
empty file for a STOU. `left` names the files whose removal failed.

* `AppendAtomically` and its failure include the behaviour of the stream insertion that it
  uses: inserting a stream buffer with no characters sets `failbit` (`CanCombine`).
* `RequestServerAbort` may come at any point up to `finishTransfer`; `FinishTransfer` then
  suppresses the reply and `AborReply` is the 426 of the ABOR handler.
* Every clean-up of the worker is an `fs::remove` whose error is ignored: of the writer's temporary file, of the
  combined file of `appendAtomically`, of the staging file and of the reserved file of a STOU. `Staying` lets each of
  them fail, in which case the file stays and is recorded in `left`, and the worker goes on.
* `DiskFails` says whether the file system may refuse an operation, a removal included. It is true in the run of the
  properties, and false in the run that asks what happens without failures.

### ControlSession

Commands carry a number, and a reply the number of the command it answers; neither is
visible to the program, which takes the next reply in the stream. `misread` becomes true
when a thread takes a reply for a command that it does not answer. `unpaired` remembers the two events
after which the streams no longer match: a transfer whose completion and whose ABOR are both answered, and
a client that could not start the thread that was to read a completion. `MisreadNeedsUnpaired` says that
nothing else ever makes a reply go to the wrong command. The client's main
thread (`cPc`) is at the prompt, waiting for a reply, in ABOR, joining its worker, or leaving. The server's
control thread (`sPc`) reads, aborts, joins or shuts down. A worker is `none` (not joinable) or
joinable and at some point of its work; `ended` is a thread that has returned but was not joined.
`terminated` is what `std::thread::operator=` does to a process whose thread is joinable.

RETR, STOR, STOU and APPE are one verb, XFER, because their control flow is shared; what
happens on the data channel is the subject of the other two modules, whose
`TransferEnds` is the fairness that this module assumes of `ServerDataEnds` and `ClientDataEnds`.
Commands that leave the session alone are NOOP. The client may leave or its process die at any point
(`Leave`, `Crash`), which its system reports to the server by closing the connection (`Disconnect`); and the connection may break under a living client (`ConnectionFails`).

### Handshake

The end that will receive the data sends SYN until something comes back: `signalClientReady` in a passive RETR
(`download` is true), `initiateActiveHandshake` in an active upload. The other end listens (`waitForClientReady`,
`waitForServerReady`), answers the first SYN, once, and starts to send. `rPc` is `syn` or `await` in the handshake, then
`receive` and `save`; `sPc` is `listen`, then `send`; both end in `done` or `failed`.

* `ReceiveEarlyData` keeps the DATA datagram that stands in for a lost answer in `pending` (`pendingDatagram`), for
  the first call of `receiveNext`. It may be any chunk in flight, not only the first.
* `SynUnanswered` and `ListenUnanswered` are a receive that times out or brings a datagram that fails the
  checks; each counts as an attempt. An abort is seen before a SYN is sent and after a receive.
* `Acknowledge` differs by direction, as in the transfer modules: the client confirms the final chunk in `Save`.
* `SendData` sends any unacknowledged chunk of the window, first or again; `SendEnds` and `ReceiveEnds` stand for every way in
  which a transfer fails.

The passive upload and the active RETR have no handshake: the end that sends knows the address.

### FileStore

`tree` gives every path what is there: a directory, a file with the sequence of uploads it holds, or nothing. Temporary
files are kept apart: `temp` is the directory of a worker's temporary file, and `litter` holds the directories in which
one was left. Each session has `cwd` and `rename` (`currentDir`, `pendingRenameSource`), and runs at most one command or
transfer (`cmd`, `step`, `target`), as `executeCommand` allows.

* `Look` is the check of MKD, RMD, DELE, STOR and APPE (`Accepts`); `MakeDir`, `Remove` or `OpenWriter` is the system
  call that follows. Other sessions may act in between. `Remove` is one action for RMD and DELE, as both end in
  `fs::remove`, which takes a file as well as an empty directory.
* `TakeId` and `Reserve` are `fetch_add` and `CREATE_NEW` of `reserveUniqueUpload`.
* `ReadExisting` and `MoveOver` are the two halves of `appendAtomically`.
* `UploadFails` is every failing path of an upload with its clean-up; a STOU removes the path that it reserved.
* `CanRename`, `Moved` and `IsEmpty` model the file system of the platform: a directory in which a worker holds a file
  open cannot be renamed, one with a closed staging file can, which takes that file along.
* `raced` and `stale` are history: another session has changed the target since the command looked at it; an append
  replaced what it had not read. They delimit what `NothingLostUnasked` and `OneCopy` can promise.

Commands that are refused, and those that only read, change nothing and are left out.

### AsciiStream

`Fill` is one block of `ChunkedFileReader::nextChunk` and its translation in `AsciiChunkedReader::nextChunk`; in TYPE I the
block is the chunk. `TakeFirst` and `TakeNext` are the two calls of `nextChunk` in `sendFromReader`, with the look ahead that decides on
FIN. A read may stop early at any byte (`broken`), and the reader takes that for the end of the file. `Receive` is the loop of `receiveFile`, which translates
again. The translators carry one bit, `encodeCR` and `decodeCR`, from call to call. `Translated` is the reference: the
whole file at once. Client and server have the same code.

### ClientRegistry

`accept` gives out a handle that no open socket has. `Close` frees it (QUIT, or the connection is gone), and
`RemoveClient` is the destructor of `RegistryGuard`, when `handleClient` returns. Between the two there are only a few
instructions: QUIT is refused with 503 while a transfer is active, and on a lost connection `shutdownSession` joins the worker
before the socket is closed.

## 3. The runs

| run | config | states | shows |
|---|---|---|---|
| `retr` | `RetrTransfer.cfg` | 268,984 | all properties of a download below, its end, and the contract |
| `stor` | `StorTransfer.cfg` | 536,840 | all properties of an upload, its end |
| `control` | `ControlSession.cfg` | 317,267 | threads, aborts, endpoints, pairing of workers and replies, clean close; no wait for ever, no session of an ended client process |
| `handshake` | `Handshake.cfg` | 180,832 | handshake and hand-over in both directions, their end |
| `files` | `FileStore.cfg` | 133,292 | two sessions on one tree |
| `ascii` | `AsciiStream.cfg` | 89,866 | every file of up to six bytes, both types, failing reads |
| `stor_cancel` | `StorTransfer_cancel.cfg` | violated | see finding 1 |
| `stor_empty` | `StorTransfer_empty.cfg` | violated | see finding 2 |
| `control_abor` | `ControlSession_abor.cfg` | violated | see finding 3 |
| `control_busy` | `ControlSession_busy.cfg` | violated | see finding 4 |
| `files_append` | `FileStore_append.cfg` | violated | see finding 5 |
| `registry` | `ClientRegistry.cfg` | violated | see finding 6 |

Properties of `retr`: `WrittenIsPrefix`, `CompleteReplyMeansSaved`, `ResponsesMatchDisk`,
`AckedIsReceived`, `WindowNeverOverrun`, `DestinationReplacedWhole`, `TransferEnds`, and
`ContractSpec`, the refinement of `DownloadContract` with its liveness.
Properties of `stor`: `LockStep`, `CompleteReplyMeansStored`, `NothingLeftBehind`,
`DestinationReplacedWhole`, `TransferEnds`. Properties of `control`: `NoThreadOverwritten`,
`AbortAimsAtItsTransfer`, `EndpointsAgree`, `WorkersPaired`, `NothingLeftBehind`,
`MisreadNeedsUnpaired`, `PromptReturns`, `SessionEnds`. Properties of `handshake`: `ReadyMeansHeard`,
`WrittenInOrder`, `AckedIsKept`, `DoneMeansReceived`, `BothEnd`. Properties of `files`: `TreeStands`,
`GivenOnce`, `OneCopy`, `NothingLostUnasked`. Properties of `ascii`: `PiecesFit`, `OneFinalChunk`, `CompleteUnlessBroken`.
Each of the six also checks the inductive invariant that the proofs use and that includes the types: `Ledger` in
`control`, `Inventory` in `files` (both contain `Inv`), `Inv` in the others.

### Bounds

* `retr`: three chunks, a receive window of 2 and an initial congestion window of 3 (the code
  has 10 and 4). Three chunks are more than the window, so the window slides, and there is
  a first, a middle and a final packet; the congestion window is above the receive window from
  the start, so that the clamp matters; two chunks are equal, so that a
  confusion of position and content would show. One retransmission per packet
  (the code: 10) reaches sending again, giving up and the races between them.
* `stor`: three chunks and two attempts per chunk.
* `control`: eight commands are enough for a login, a data endpoint, a transfer, its ABOR and a second
  transfer after it, with failing `std::thread` constructors.
* `handshake`: two attempts for each end, three chunks and a window of two, so that a chunk other than the first can end
  the handshake and be ahead of the next expected one.
* `files`: two sessions, three names of which one is also the first that STOU makes, paths of two names, four commands
  (two races of two commands each, or three against one), a tree with a directory and a file. `MaxDepth` and
  `MaxCommands` are bounds of the model, not of the code; the proofs hold for any value of them.
* `ascii`: files of up to six bytes in chunks of two: up to six chunks of text, with CR LF on every
  position of either cut. Three kinds of bytes, as the translator tells no others apart.
* `registry`: two clients and two handles.
* Deadlock is checked in all runs. `Ended` in the transfer modules, `Done` in `FileStore` and `AsciiStream`, and
  the disjunct `Over` in `ControlSession`, are the stuttering of what has stopped.

### Fairness

The transfer modules assume that threads run, that a blocking receive to which nothing new comes ends
with its timeout, and that an unacknowledged packet is found expired sooner or later. The last
is strong fairness of `Timeout`: the age of a packet only grows while it is not sent again, so among the
polls that the sender repeats, one finds it expired, although each single poll may
find it young. Nothing is assumed of the network's delivery: `TransferEnds` holds when every datagram is lost.
The idle deadline of `receiveNext` is looked at only when a receive of 100 ms finds nothing; weak fairness
of the failing receive thus also says that the network does not repeat one old datagram for ever at shorter
intervals than that. `Handshake` assumes that the workers run and that each receive ends with its timeout,
and nothing of the network: that the worker's transfer ends by itself is `TransferEnds` of the other modules. `ControlSession` assumes that the four threads run, that
transfers end, and that either end notices that the other has closed the connection. The last is what TCP gives when a process
ends, however it ends: its system sends FIN or RST, and `recv` returns (weak fairness of `Disconnect`, of `Leave` and of
`CompletionLost`). It gives nothing when the host goes down or the link is cut without a word; that is outside the
model, as the code has no answer to it (section 4). No user has to type anything.

## 4. Findings

1. `stor_cancel`. An ABOR between the append of an APPE and `finishTransfer` is answered 426
   "Transfer aborted." though the destination has changed. `tests/test_remaining_commands.cpp:393-396`
   takes a changed destination after that reply as a failure, and tests only an early ABOR.
2. `stor_empty`. `appendAtomically` inserts `existing.rdbuf()` into a stream and requires it to be good. Inserting an
   empty buffer sets `failbit`, so an APPE to an empty file, or of an empty file, fails with 426.
3. `control_abor`. When a transfer ends while its ABOR is under way the server replies to both. The client
   reads one reply for the two, so every later command is shown the reply of the one before.
4. `control_busy`. `finishTransfer` replies 226 before it clears `transferActive`; a client that is quick may be
   answered 503 "Transfer already in progress; use ABOR first." for its next command.
5. `files_append`. `appendAtomically` reads the destination and moves the combined file over it later. What another session
   stored there in between is discarded, and both clients are told 226. The help text says
   "Append the uploaded data to an existing file on the server; create it if absent."
6. `registry`. A connection that is given the handle of a session that has closed its socket but not yet left `handleClient`
   loses its entry when that session's guard erases it: it is served, and STAT does not count it. The window is short, since no
   transfer runs between the close and the guard.

Observations without a run:

* `docs/MemberB_Guide.md:187` says of the number of packets in flight "on any timeout I halve it". `cwnd` has no upper
  bound, and the number in flight is its minimum with `RDT_RECEIVE_WINDOW`; once `cwnd` is twice that, a timeout
  does not change it.
* The comment at `server/src/rdt/RdtSender.h:81-82` says that `sendChunk` uses "Stop-and-Wait reliability" and "Returns
  true if successfully ACKed"; since the window was introduced it returns with the packet in flight, and only `flush` waits.
* An ABOR without a transfer clears the server's data endpoint while the client keeps its own; the next transfer is
  refused with 425 and the client starts over, which is why `EndpointsAgree` lets either side have none.
* STOU promises "a guaranteed unique server-generated filename to prevent overwrites". `GivenOnce` holds, but the reserved
  file is closed while the upload runs: if another session renames or stores a file onto that name, the STOU replaces
  it, or removes it when it fails. `NothingLostUnasked` names this case with `raced`.
* RMD and DELE remove what is there when they act: a file may go by RMD and an empty directory by DELE. An
  APPE may bring back the content of a file that was deleted or renamed since it was read (`OneCopy` excludes
  this with `stale`). CDUP and MKD work from a directory that is gone; MKD then makes it again.
* The workers ignore the error of every `fs::remove` of their clean-up. Where one fails, a temporary, staging or combined file, or the
  empty reservation of a STOU, stays in the client's directory, and nobody is told (`left` in `NothingLeftBehind`).
* A STOU that is aborted after its commit is told 426 and its file stays, under a name that only a 226 would have told the client (the
  `sAbort` case of `NothingLeftBehind`); the clean-up looks at `success`, not at the flag.
* `recv` on the control connection (`server/src/control/Session.cpp:153`) has neither a timeout nor keepalive. A client whose host
  dies, or whose link is cut, sends no FIN or RST; unless the server has a reply to send, its session waits for ever,
  with its thread, its endpoint and its entry in the registry. `SessionEnds` is about client processes that end.
* A read error at the sender ends a file early with FIN and 226. In TYPE I the hash shows it, if the hash could be read;
  in TYPE A nothing does (`CompleteUnlessBroken`).

## 5. The proofs

All theorems are checked by TLAPS from the assumptions that the modules name on their constants, and
nothing else: any non-empty file, any positive window, any retry limit (positive for uploads and handshakes), any number of
commands, sessions and names, any depth of the tree, texts and chunks of any length.

* **RetrTransferProofs.** `Inv` is inductive (`Invariance`). `CompleteReplyMeansSaved` alone is not: that
  226 implies a saved file needs that the sender's window is empty (`SuccessIsFlushed`), that every
  number below `base` was acknowledged (`SenderWindow`), that an acknowledgement under way or
  accepted stands for a received datagram, and that of the final one for a client that has confirmed
  (`AcksSound`), and that such a client has replaced its file (`ClientInStep`, `DiskInStep`,
  `WrittenIsPrefix`). From it follow `TypeCorrect`, `CompleteReply`, `HonestResponses`, `PrefixWritten`,
  `NothingForgotten`, `NoOverrun` and the action property `ReplacedWhole`.
  `NoOverrun` rests on the chain: a packet under way is below `next`, `next` is at most `base` plus the window, and `base`
  is at most `expected`, or the chunk there is in the buffer.
  `KeepsContract` proves the safety part of the refinement: the initial state maps to an initial state of `DownloadContract`,
  and each action to one of its actions or a stutter.
* **StorTransferProofs.** `Inv` is inductive. `LockStep` needs what is under way (`ChannelInStep`): no packet
  above the one being sent, no acknowledgement for a chunk not delivered. `CompleteReplyMeansStored` needs
  `FilesInStep`, where the one exception is spelled out: a successful APPE whose destination is unchanged is
  an aborted one, and it stays so until `finishTransfer` looks at the flag. `CleanEnd` needs where each file is until the end
  (`FilesInStep` with `left`) and what the reply says of `success` and the flag (`ReplyInStep`); it holds with failing removals.
* **ControlSessionProofs.** `Inv` relates, on each end, the atomic flags, the state of the thread object and the
  program counter. `NoThreadOverwritten` follows since a transfer is opened only after `joinCompletedTransfer` with
  `transferActive` false, and then no worker is joinable (`ServerInStep`, `ClientInStep`).
* **ControlLedgerProofs.** `MisreadNeedsUnpaired` says that replies, which carry no number, still go to their commands; it needs an account of
  both streams. `Ledger` has two parts. `InLine` holds while no reply was misread: the command that the main thread waits for is the last
  one under way, only an ABOR can be under way besides it, no reply is to a command that was not sent, and what a reply
  under way says of the server's type, endpoint and transfer is true. `EndpointsAgree` and `WorkersPaired` follow from it (`Agreement`,
  `Pairing`). `Balanced` holds while nothing was `unpaired`: `Owed` counts the replies under way and those the server still has to give
  (for commands it will read, an ABOR that it handles, and a transfer that no ABOR is going to silence), and the client is owed
  nothing at its prompt, one reply while it waits or its worker runs, two only with a 150 at the head. Neither part is inductive
  without the other: a balanced stream is what makes a reply the client's own, and an own reply is what keeps the ends in line
  (`ReadFacts`). There is one lemma per kind of step: the client sends or reads, the server answers, opens a transfer, aborts,
  reports.
* **HandshakeProofs.** `Inv` adds to the properties that whatever can end a handshake comes from a sender that has heard a
  SYN (`AnswersSound`); that an acknowledgement, under way or accepted, stands for a chunk that was delivered or is buffered,
  and that of the final chunk of a download for a saved file (`AcksSound`); and that a chunk of an upload under way has
  all those before it acknowledged (`UploadInStep`), which keeps the buffer empty there. `DoneMeansReceived` follows
  from `AcksSound` for every chunk: the final one was not buffered in an upload, and was confirmed in a download.
* **FileStoreProofs.** The first part is about paths: what is within what, and where a rename takes a path (`MovedFacts`,
  `MovedBack`, `MovedMonotonic`). The second is about trees: making, removing and renaming keep the tree a
  tree (`PutFile`, `TakeAway`, `MakeDirs`, `RenamedDirIsTree`, `RenamedFileIsTree`). The third has one lemma per action.
  `TreeStands` includes the temporary files, because a directory that holds one must not be removed; `NumbersInStep`
  is the strengthening for `GivenOnce`: the names under way come from different numbers, all used up. `LeftAlone` is
  what `NothingLost` needs: while nobody has raced with it, an RMD finds its directory, a STOU its empty reservation, and
  an APPE the content that it read. `InventoryKept` is the invariant for `SingleCopy`: `OneCopy` needs that no datum in the tree
  has a number above the uploads counted, so that the next one is new. Each change of the tree takes the data of a path from
  one path of the old tree, and no path is used twice (`CarriedOver`, `RenamedTidy`), or adds a new number at the end of one file
  (`DataAdded`). The assumption on the initial tree (`InitialDataAssumption`) gives what was there before numbers of its own.
* **AsciiStreamProofs.** The statements are about sequences of any length, and the provers cannot instantiate an induction theorem that takes
  a predicate. The first part therefore gets induction over sets of numbers (`SetInduction`) from the well-foundedness of the order of the
  naturals, and with it that a function defined by recursion over an interval exists and is determined (`Iterated`, `NormalizeIs`, `FlattenIs`).
  `FlattenConcat` is that joining distributes over concatenation. `EncodedBlock`: a block, translated with the right carry, is the
  part of the whole file's text that belongs to its bytes, wherever it was cut out. `TextIsNormal`: in that text each LF has its CR.
  `DecodedChunk`: a piece of such a text, translated again with the right carry, stays as it is, so that the second translation cannot
  double a CR. `Inv` is inductive with `CarriesInStep` (the two carries are about the last byte read and the last byte
  stored) and `SenderInStep` (what the look ahead holds back); `EveryByteOnce`, `FinalChunkMarked` and `WholeFile` follow.

Only model-checked: `TransferEnds`, the liveness of `ContractSpec`, `PromptReturns`, `SessionEnds` and `BothEnd`, as the prover
has no support for fairness and ENABLED. Every invariant and every safety property of steps that a passing run checks is
proved. The modules have no RECURSIVE operators, without which the prover keeps its SMT backend.

## 6. What is left out, and the plan

Not modelled:

* the content of log output, listings and help; the commands that only read (PWD, LIST, NLST, STAT, SIZE, MDTM, HASH), which
  change no state of the server and whose answers are formatted text;
* parsing of command lines and of multi-line replies;
* socket set-up and the formatting of addresses (their outcome is a choice in `ControlSession`);
* the header and the 16-bit checksum: a datagram that fails validation is a lost one, and a corrupted one that passes is
  outside the model;
* the RTT estimate and the timer arithmetic: time is left out, and expiry is a choice;
* SHA-256, a call into Windows CNG whose result is shown to the user and compared by the client after the transfer;
* the user table and start-up;
* a client or server host that goes down, or a link that is cut, without closing the control connection;
* in `FileStore`: symbolic links, permissions, the names of temporary files, and clients that use such a name.

Planned, in this order:

1. The arithmetic of the retransmission timer, and encoding and validation of the header, as operators, with lemmas about both.
2. The reading of multi-line replies.

Liveness stays with TLC throughout.
