# A TLA+ development of Sailor

Sailor is a file transfer program: a C++ server that keeps files under a storage
root, a C++ client library (`libsailor.so`) that speaks its protocol over TLS, a
command line client and a Flutter desktop application on top of the library. This
directory models what in it can go wrong: the storage services, the packets and how they
cross a connection, the conversation between clients and server, the command line
client, and the desktop application's sessions, transfer queue and remote browser.

## Inventory

| Part | State it keeps | Operations | Talks to | What makes it right |
|---|---|---|---|---|
| Upload service (`filesystem/upload_service.*`) | `sessions_`: upload id to target path, open buffered stream, digest, sizes | `beginUpload`, `writeChunk`, `finishUpload`, `abortUpload` | storage tree | a success means the file with the declared size and digest is stored; a failure leaves nothing; no other file suffers |
| Delete, rename, directory services | none but the storage tree and an audit log | `deletePath`, `renamePath`, `createDirectory`, `removeDirectory` | storage tree | the tree stays a tree; nothing is replaced or removed that was not named |
| File service | `root_` | `resolvePath`, `listDirectory` | all services | a path is below the root or refused |
| Download service | none | `prepareDownload`, `streamFile` | storage tree, connection | what arrives is the file |
| TCP/TLS server (`server/tcp_server.cpp`) | one connection at a time: `session`, `state` | `run`, `handleClient`, one handler per packet type | kernel backlog, services, peer | every request of an authenticated peer is answered once, in order |
| SDK client (`sdk/src/sailor_client_internal.cpp`) | `transport_`, `socket_fd_`, `state_`, a mutex held through every call | `connect`, `disconnect`, `list`, `upload`, `download`, `deletePath`, `rename`, `mkdir`, `rmdir` | server, local files | a status is true; a call returns |
| C interface (`sdk/src/sailor_ffi.cpp`) | one global client | one function per call | SDK client | forwards one to one |
| Transport and framing | a TLS connection | `sendAll`, `recvAll`, `sendPacket`, `receivePacket` | sockets | FIFO, whole packets |
| Codecs (`common/packet_builder.hpp`, `protocol/`) | none | builders and parsers | both ends | parse inverts build |
| Authentication (`auth/`) | users of a SQLite table or a text file, read once | `load`, `authenticate` | server | the row that counts decides |
| Connection state (`providers.dart`, `connect_screen.dart`, `explorer_screen.dart`) | `isConnected`, the Navigator's routes | connect, disconnect, dialogs, the back arrow | worker isolate | it agrees with the native client |
| Transfer queue (`flutter/lib/features/providers.dart`) | the list of tasks, `_isProcessing` | enqueue, cancel, clear, retry, the processing loop, the progress listener | worker isolate | one transfer at a time, every task settled, what is shown is true |
| Worker isolate (`flutter/lib/core/sailor_client.dart`) | its message queue | one command per call, the progress callback | SDK, main isolate | responses and progress reach their caller |
| Browsers (`providers.dart`, `explorer_screen.dart`) | path, entries, loading flag | `loadPath`, navigation, dialogs | worker isolate | an action hits the entry the user saw |
| Command line client (`client/main.cpp`) | none | connect, one call, disconnect | SDK | it exits and frees the server |
| TLS contexts, build, packaging | | | | |

The hard behaviour: an upload is a session of many calls that belongs to the server
and not to a connection, so other calls, other sessions, dying clients and a dying
server come between its calls; the file is written through a buffered stream that
follows the inode while the services work on names; requests and answers are
matched by order alone; both ends block in `send` and `recv` without time limits;
the server serves one connection at a time; the desktop application spreads a
transfer over two isolates and several awaits, during which the user goes on.
`PROJECT.json` lists these hazards at their lines.

## Modules

| Module | Models |
|---|---|
| `FileTree` | the storage tree and the `std::filesystem` calls on it: operators only |
| `Storage` | upload, delete, rename and directory services over one tree |
| `UserStore` | the user database as `AuthManager` reads it: operators only |
| `SailorLink` | SDK clients, connections, the server's thread; EXTENDS `Storage` and `UserStore` and runs their operators in its handlers |
| `CommandLine` | `main()` of the command line client; EXTENDS `SailorLink` |
| `PacketChannel` | what one direction of a connection promises: the abstract specification |
| `PacketCodec` | builders and parsers of payloads: operators only |
| `Framing` | `PacketIO`, `PacketSerializer` and `TlsTransport` over a stream of bytes; EXTENDS `PacketCodec`, implements `PacketChannel` |
| `Worker` | the worker isolates of the desktop application and their message queues |
| `RemoteBrowser` | the remote pane with its menus and dialogs; EXTENDS `Worker` |
| `TransferQueue` | the transfer queue; EXTENDS `RemoteBrowser`, which it refreshes, and has the next-state relation of all three |
| `Session` | connecting and disconnecting, and the routes of the Navigator; EXTENDS `TransferQueue` |
| `MCStorage`, `MCSailorLink`, `MCCommandLine`, `MCFraming`, `MCTransferQueue`, `MCSession` | small instances for TLC |
| `InductionLemmas` | induction and recursion over the naturals, stated with sets: lemmas only |
| `StorageProofs` | lemmas on the tree, theorems on `Storage` |
| `LinkProofs`, `LoginProofs`, `ConversationProofs` | theorems on `SailorLink`: types, refinement and connections; logins; calls and their answers |
| `CommandLineProofs` | theorems on `CommandLine`: all of these once more, for processes that begin and end |
| `SessionProofs` | theorems on the desktop application |
| `FramingProofs` | lemmas on `PacketCodec`, theorems on `Framing` |

There are two refinements. `Framing` implements `PacketChannel` (`FramingImplementsChannel`,
`EveryPacketArrives` in the run `framing`): `asked`, built into packets, is `sent`, and a
closed end is `closed`. A connection of `SailorLink` is such a channel in each
direction. And `Storage!Spec` is the abstract specification of `SailorLink`: the
run `link` shows that, whatever clients send and whoever dies, the
variables of the storage only take steps of `Storage` (`StorageSpec`), so what is
proved of `Storage` holds for the server as clients meet it; `LinkImplementsStorage` proves it
with every fault of the link.

### FileTree and Storage

A path is the sequence of names below the root, which is what `resolvePath` makes
of a string; a path it refuses is `Outside`. `resolvePath` compares prefixes of strings
(`file_service.cpp:51-57`), so it also accepts a path below a sibling of the root whose name
begins with the root's name; such paths are not among the requests, and no property speaks of
what is not below the root. `tree` maps paths to `Dir` or an inode,
and `data` holds the bytes by inode: an open `std::ofstream` goes on writing after
its path was renamed or deleted, and a file that was opened twice is written twice.
A session has the fields of `UploadSession`; `received` stands for `received_bytes`
and `md_ctx` together (SHA-256 is modelled by the bytes it is of), `flushed` for how
much of them left the stream's buffer, `failed` for the stream's bad bit. `alone` is
a history variable: nobody else opened the file since the session did. `reply` is
the `bool` of the last call.

Services run in one thread, so a call is one step: `BeginUpload`, `WriteChunk`,
`FinishUpload`, `DeletePath`, `RenamePath`, `CreateDirectory`, `RemoveDirectory`, each
with all of its early returns (`Refuse`), and `Restart`, which loses the sessions and
what their streams had buffered. `beginUpload` keeps what it had done when it fails
later: directories it made, and a target it truncated. `writeChunk` may leave any
part of the buffer on disk. `finishUpload` closes the stream first and then judges.
Failures of `open`, `write`, `close` and the digest are chosen by `Faults`.

Left out: the audit log, time stamps, symbolic links inside the storage, file modes.

### SailorLink

A client is an `InternalClient` with a program counter: `pc` names the blocking call
it is in. `Connect`, `Call` and `Disconnect` are what its user decides; the other
actions are the SDK's. `conn` is the connection of `transport_`, `socket` the one of
`socket_fd_`; they differ while `connect()` is under way, because the old transport
lives until the handshake of the new one is over. Telling the server and closing the
descriptor are two things: `~TlsTransport` shuts TLS down and closes nothing, `disconnect()` closes
`socket_fd_` only. `cOpen` says of a connection that its server has not been told of the end, `fd` that
the descriptor is open on the client, which it stays, when `connect()` has overwritten `socket_fd_`,
until the process ends. `wire` holds two bounded FIFOs for
every connection; a packet carries the number of its call for the properties only,
no step reads it. `srv` is the thread of the server: it takes a connection off
`backlog`, handles its packets one by one, and sends the packets of its answer one
by one (`out`), blocking when the peer's buffer is full. A handler with its answer
is one step, since only this thread touches the storage.

`LinkFaults` selects what may happen: processes dying, a local file that changes,
shrinks, grows or vanishes during an upload, a destination that cannot be created, a
local disk that does not take what a download writes, a stored file that cannot be
opened after `DOWNLOAD_BEGIN`, and `connect()` without a prior `disconnect()`: after a
refused login (`retry`) or while connected (`reconnect`), as the connect screen does it, and
`connect()` with an address that cannot be parsed (`bad_address`).
`Logins` are the pairs users type, `Databases` what the server may find when it starts:
`UserStore` loads them as `load()` does, row by row, with the later row of a user
replacing the earlier one. A server that is
killed by SIGPIPE is `ServerDies`. 64-bit random ids are taken to be new.

Left out: malformed packets, PING and the packet types that no client sends, calls
on a client that is not connected (they return at once), and the bytes of packets.

### CommandLine

A client of `SailorLink` is here a process that runs one command: `cli` holds how far
`main()` is and its exit code. It connects, looks at its arguments only then
(`MainPrintsUsage`), makes one call and disconnects whatever the call returned, with
exit code 0.

### PacketCodec, PacketChannel and Framing

A payload is a sequence of cells: an integer or a flag is one cell, a string is a
cell with its length, modulo `StringLimit` (2^16 in the code), and a cell per
character. The layouts list the fields of every packet type in the order in which
the builders write them, and the parsers read the same order with a cursor that
fails when too little is left. Byte order and the widths of integers are left out;
the 32-bit length of data and the 64-bit length of a payload are not exceeded.

`Framing` sends what `Build` makes of a message: `Serialize` puts the header before it,
`Write` and `ReadSome` are rounds of the loops of `sendAll` and `recvAll` for any number of
cells, and `Arrived` is what `receivePacket` does when one of its two `recvAll` calls is
complete. Either end closes at any point, in the middle of a packet too.

### Worker, RemoteBrowser, TransferQueue and Session

Dart runs a handler up to its next await without interruption, so a step is one
handler: a user's action, or one message of the main isolate's FIFO (`inbox`). The
worker is another FIFO (`commands`) with `running`, the native transfer it is blocked
in. Two facts about the Dart runtime are assumed: an isolate handles its messages in
order of arrival, and a `NativeCallable.listener` posts a message to its isolate in
place of running at once. `clientProvider` calls `init()` without awaiting it and the
first request calls it again, so there are two workers; progress comes from the one
that installed the callback last (`relay`), before or after the response.

The browser's `currentPath`, `isLoading` and `error` are the fields of
`RemoteBrowserState`; `listing` says of which directory `entries` are. `dialog` is the open
menu or dialog: the path of the entry it was opened on, and whether the context of
its list is still mounted, which "rename" and "delete" test. It keeps the user from
everything else in the window and does not keep responses out. What directories hold is the
server's affair: any name may be in a listing, and any call may fail. The choices
"rename" and "delete" end in dialogs that do the same for the model and are one.

The queue's `tasks` is the notifier's list, `status` and `progress` the fields of the task
objects, which outlive the list; `progress` records whose bytes were credited.
`waiting` is the set of tasks that runs of `_processQueue` await: it is not empty exactly
while `_isProcessing` is true. Every task that ends makes the browser load its path
again, before the loop sends the next transfer.

`Session` adds `state_` of the native client (`state`), `isConnected` (`connected`) and the routes of
the Navigator: `screens` is the stack of connect screens (forms) and explorers, and `popup` a dialog on
top of it, besides the menus of the remote pane (`dialog`). A request to connect or
disconnect carries the screen that awaits it. `Navigator.pushReplacement` replaces the route on
top, whatever it is (`PushReplacement`): with the settings open when `connect()` returns, the explorer
replaces the settings, the form stays mounted beneath, and the explorer's AppBar gets a
back arrow to it (`GoBack`, remembered in `left`). An answer for a screen that is mounted no more
changes the connection and the pane and shows nothing. A screen that was replaced is taken
to leave at once; in the program it goes when the animation of the new route ends. Enter in the
password field submits the form while `connect()` is under way, too. `connect()` awaits
the listing of the root, whose failure it does not see. A disconnect is handled behind
what the worker has to do. A native file dialog may end when its explorer has been covered (`PickFiles`).
`TransferQueue` has an `Init` and a `Spec` of its own, with the
explorer open, for the two runs that need no sessions.

Left out: the local pane, which is synchronous, and start-up and disposal of the
worker; start-up is taken to be over before the form is submitted again.

## Runs

| Run | Shows |
|---|---|
| `storage` | all properties of `Storage` for two uploads, two inodes, two names, depth 2, with every fault but `close` |
| `unchecked_close` | with `close` failing, an upload is reported as verified and is not stored |
| `link` | two clients, three calls each: replies in step, `SAILOR_OK` true for uploads, downloads and listings, refinement of `Storage` |
| `link_faults` | one client, four calls, two connections, every fault and kind of database: login per connection and from the database, no connection given up without telling its server |
| `command_line` | two command line processes, two-byte files, buffers of one packet: commands go on only when logged in, every call returns, every command exits, the server comes back to `accept()` |
| `lost_login` | `connect()` blocks on its own mutex when the server goes away during login |
| `growing_file` | one refused chunk shifts all later answers: `SAILOR_OK` for an upload nobody verified |
| `login_retry` | after a refused login the next `connect()` waits for ever |
| `framing` | messages of every type, with strings that fit and that do not, packets larger than what the connection holds: whole, in order, all of them, parsed as asked |
| `desktop` | two tasks while users connect, disconnect, open dialogs, go back and browse: one transfer at a time, statuses that tell of it, no lost wake-up, all tasks settled; entries belong to the path shown; screens agree with the native client |
| `cancel_overwritten` | a cancelled running transfer becomes completed or failed |
| `stale_dialog` | a dialog changes an entry of another directory than the one it was opened in |

The properties, by what they protect:

- `StorageIsATree`, `FilesOutliveOtherCalls`: a rename moves a subtree, removals and
  aborted uploads spare what is not theirs, no call replaces a file by accident.
- `FileFollowsDigest`, `VerifiedUploadIsStored`, `RejectedUploadIsGone`: the digest is of
  the received bytes, the stored bytes are what left the buffer; the verdict is about
  the former, the promise about the latter.
- `RepliesInSync`, `OkUploadIsStored`, `OkDownloadIsCurrent`, `OkListIsCurrent`,
  `BothEndsAgreeOnLogin`: the same promises as a client sees them, across a connection.
- `LoginIsInDatabase`: who is let in has the password of the last row that counts.
- `NoPeerIsForgotten`, `OkConnectIsLogin`: what `connect()` leaves behind on each of its ways out. The
  server of every connection it replaces or gives up has been told, and `SAILOR_OK` is the only
  status with which `main()` goes on, and means a login.
- `EveryCallReturns`, `EveryCommandExits`, `ServerComesFree`: nobody blocks for ever, and
  no client keeps the one thread of the server.
- `FramingImplementsChannel`, `EveryPacketArrives`, `ParsedAsAsked`: a packet crosses the
  connection whole and means at the other end what was asked for; a string of 2^16
  bytes or more garbles its own packet and none behind it.
- `OneTransferAtATime`, `NoTaskForgotten`, `StatusFollowsTransfer`,
  `EveryTaskIsSettled`, `CompletedShowsItsOwn`: the queue, also across sessions. A task that was
  cancelled while it ran, failed and was retried is the hard case for the first three.
- `ConnectedMeansOnline`, `ConnectionHasExplorer`: the screens and the native client, with
  forms submitted twice, refusals, disconnects behind a transfer, and dialogs that are
  replaced in the place of a screen. The second excepts users who went back from the explorer.
- `EntriesAreOfCurrentPath`, `SpinnerAwaitsListing`: the pane, with several listings on
  their way; since the worker answers every request, a spinner ends.

Bounds. Two uploads suffice for sessions that disturb each other and a third party
is any of the other calls; files of two bytes in chunks of one have a first and a
last chunk and a buffer that is partly written; depth 2 has a directory that is not
empty, a subtree to move and a target inside a moved directory. `MaxDepth` bounds
uploads and renames; requests lie within it by `RequestPath`. In the link, two
clients compete for the one thread; three calls are a login, an upload and a call
that can see what it left; `SockBuf` 1 and 2 make senders block. `MaxCalls`, `MaxConn`,
`MaxTicks`, `MaxRetries`, `MaxRequests` and `MaxSubmits` bound what would run for ever;
`Extents` bounds what comes together: each behaviour of `desktop` stays within one of its boxes. They
cover one or two tasks with every two of a progress callback, a retry, a request and a second
session (or a second submission, or a disconnect), and the screens of three and four submissions and disconnects
with a dialog in between, which is what it takes to cover an explorer and to go back from one. `framing` sends two packets, one after the other, out of every type; with
`StringLimit` 3 its strings are empty, fit, just fit or are too long, and most packets
are larger than a `Window` of 4 cells. In the desktop
application two tasks have an order and a successor to be confused with; one folder
opened, one step up and the refreshes of the queue put listings of two directories
on their way at once, and `stale_dialog` adds the request for a menu. The runs of `SailorLink` do not
check deadlock, because clients stop after `MaxCalls` calls; `EveryCallReturns` says that
nobody stops inside a call. Symmetry is used in safety runs only, over inodes and
over clients or upload ids, which no definition tells apart.

Fairness. `ScheduledSpec` has weak fairness of the server's thread and of every thread
inside an SDK call: they are threads of running processes, and a step of theirs
stays possible until they take it. Starting a dead server is not fair, and nothing a
user does is. `CliSpec` adds the steps of `main()` between the calls, which wait for
nobody: that a command disconnects is the program's own flow and no assumption about
users. `Framing!Spec` has weak fairness of the two loops, which is that TCP delivers.
`SessionSpec` has weak fairness of the event loops of the isolates and of the native calls
that exchange one request and one answer. No transfer is taken to return: a download whose file
cannot be opened and an upload in which both ends block in send do not (see below), so
`EveryTaskIsSettled` has `[]<>(running = << >>)` as its hypothesis, that no transfer keeps the worker
for ever; without it TLC finds the property violated. `connect` may block for ever
(`lost_login`, `login_retry`), and the property excepts tasks that wait behind it.

`desktop` does not check deadlock either: the system waits when its users have done
what the bounds allow.

## Disagreements between the code and what is said of it

Every `violation` run checks one sentence of the repository and finds a behaviour of
the code against it; `PROJECT.json` quotes the sentences. What else was met:

- A download whose file cannot be opened after `DOWNLOAD_BEGIN` (`download_service.cpp:82`)
  leaves client and server waiting for each other. `link_faults` reaches the state;
  with the fault `unreadable` `EveryCallReturns` fails, and `command_line` leaves it out.
- Once a write of an upload has failed the server answers every further chunk with
  ERROR (`tcp_server.cpp:248`), which `upload()` does not read before `UPLOAD_END`: when
  both socket buffers are full, both ends block in send. `EveryCallReturns` fails under
  `CliSpec` with buffers of one packet, five chunks and the storage fault `write`.
- A client that stays connected, as the desktop application does, keeps every other
  client in its handshake: `TcpServer::run` serves one connection at a time, while
  `README.md:163` says "Multi-threaded TCP/TLS server implementation". The runs show
  what follows: `ServerComesFree` needs clients that disconnect.
- Progress messages name no task. The listener (`providers.dart:271`) credits them to
  whatever is in progress when they arrive, which may be the next task;
  `CompletedShowsItsOwn` is what is left of "real-time transfer progress tracking"
  (`README.md:13`): the end of a task puts its bytes right.
- A command of the command line client that failed exits with code 0 (`main.cpp:161`),
  although `README.md:12` recommends it for automation and scripting.
- `README.md:55` gives packets a header with a magic number; `packet.hpp` has a type and
  a payload size.
- `user_store.cpp:37` falls "back to in-memory default" when there is no database; there
  is none, and nobody can log in.
- A connection that `connect()` replaces or gives up is shut down and its descriptor is not closed
  (`sailor_client_internal.cpp:68`, `tls_transport.cpp:9-15`): a client that connects again without
  `disconnect()` leaks one descriptor each time, and with an address that `inet_pton` refuses even
  that of the connection it goes on using. A server that is blocked in send to a peer that has
  been shut down and not closed stays blocked.
- `deletePath`, `rename`, `mkdir` and `rmdir` parse whatever packet comes, without looking at its type
  (`Verdicts`). With replies in step it is the one they wait for.
- With the settings open while `connect()` is under way, the explorer replaces the settings
  (`connect_screen.dart:63`), and its back arrow leads to the form of an open connection. With a dialog
  open on the explorer while `disconnect()` is under way, the form replaces the dialog
  (`explorer_screen.dart:37`), and the explorer stays mounted beneath it, where nobody can reach it
  before another explorer is left by its back arrow.
- A task that was cancelled while it ran becomes failed when the transfer fails, and may then be
  retried: the same overwriting as in `cancel_overwritten`.
- A line of the text database whose hash is a lone carriage return is taken with an empty hash
  (`user_store.cpp:77-81`) and replaces an earlier line of that user, who cannot log in any more.
- A second Enter while `connect()` is under way connects again on the same client. If
  that is refused the explorer is shown with "Disconnected" although the first
  connection is open; if it is not, the handshake waits as in `login_retry`.

## Proofs

Every theorem holds for all values of the constants that satisfy the assumptions of
the modules: `StorageAssumption`, `DirIsNoInode` and `NoDigest`'s place outside the digests;
`LinkAssumption`; `RequestAssumption`, that what clients ask for is among what `Storage` is asked
for; `DatabaseAssumption`, that a database is a sequence of rows of text in one of the formats;
`FramingAssumption`, that messages have the fields that the parameters of their builder have, and that
the connection holds at least one byte; `StringLimitAssumption`, that the limit is positive;
and the assumptions of the desktop modules on their bounds. None of them restricts what
the code may meet: the bounds on calls, connections and requests are any natural number.

### Storage (`StorageProofs`)

- `Typing`: `Spec => []TypeOK`.
- `TreeIsKept`: `Spec => []StorageIsATree`. `IsTree` is inductive together with the types
  and the inodes that sessions hold; one lemma for every operation on the tree
  (`RemoveKeepsTree`, `CreateKeepsTree`, `PutKeepsTree`, `MoveKeepsTree`). The move is the
  hard one: that rebasing is injective, that what lies above a moved entry was moved
  or lies above the destination, and that the destination is not inside the source.
- `DigestIsOfTheFile`: `Spec => []FileFollowsDigest`. It is not inductive: a session that
  shares its inode breaks it from outside. The invariant `SessionInv` adds that two
  sessions on one inode are not both alone, that received bytes stay within the
  declared size and flushed bytes within the received ones, and that a failed stream is short.
- `VerifiedMeansStored`: `Spec => VerifiedUploadIsStored`, if `"close" \notin Faults`. The run
  `unchecked_close` shows that the assumption is needed.
- `RejectedUploadLeavesNothing`: `Spec => RejectedUploadIsGone`, from `TreeIsKept`: the removed
  path was the only name of the inode.
- `OnlyDeleteAndAbortRemoveFiles`: `Spec => FilesOutliveOtherCalls`, from `MoveKeepsEntries`: what a
  rename does not move keeps its name, what it moves gets another, and the target was free.

### The link (`LinkProofs`, `LoginProofs`, `ConversationProofs`)

Three invariants, each on top of the one before, every one inductive under every
action of `LinkNext`:

- `LinkInv` types clients, connections and server, and says who holds a connection:
  it is queued, served or abandoned, and the connection of a client is its own or lost. It
  gives `LinkTyping` (`[]LinkTypeOK`) and, since the packets that reach a handler are then among
  the requests of `Storage`, `LinkImplementsStorage`: `LinkSpec => StorageSpec`. Whatever is proved of
  `Storage` therefore holds behind the network.
- `LoginInv` says of a client inside `connect()` (`Asks`) that its login packet, the
  verdict the server has still to send and the verdict on its way exclude each other,
  that the packet carries the login the user typed, and that a server that has let it in
  found that login among the users (`Vouched`); of any other client (`Knows`), that both ends have
  the same flag. `BothEndsAgreeOnLogin` alone is not inductive: the verdict on the wire decides. This gives
  `LoginIsAgreed`. With `ServerRests`, that the users are those that `load()` made of the
  database, and `LoadHoldsLast`, that the loop of `load()` leaves the last counting row of every
  user, it gives `LoginsAreInDatabase`: `LinkSpec => LoginIsInDatabase`.
- `TalkInv` says, for each place a client can wait in, what is on the two wires and in
  the server's hands: one request and no reply, or no request and one reply, or the chunks
  that were sent and nothing else, or the pieces of a file that are left and the end packet (`Words`); what
  the reply then tells of the storage (`Facts`); and that a failed call left nothing behind
  (`Tidy`). It gives `RepliesStayInSync`, `OkListsAreCurrent`, `OkDownloadsAreCurrent` and
  `OkUploadsAreStored`.

The theorems on `TalkInv` assume `NoSpuriousReply`: no local file grows during an upload, the
destination of a download can be created, and no write of an upload fails on the
server. In each of the three cases the code leaves an answer behind that the SDK does
not read in its call, so that every later call reads the answer to an earlier one: the
run `growing_file` shows it for the first, and the hazards of `PROJECT.json` list the
lines of the others. `OkUploadsAreStored` also excludes `"close"`, as
`VerifiedMeansStored` does. All other failures of `LinkFaults` and `Faults` are allowed,
processes that die at any point included.

`PeersAreTold` (`LinkSpec => []NoPeerIsForgotten`) needs no strengthening beyond `LinkInv`: that the
connection that is being set up is not the one of `transport_`, and that the connection number
of a new socket is new. Its lemmas say who holds what after a step in which nothing is opened,
after one that concerns one client, and after a client gives up what it had.

### The command line client (`CommandLineProofs`)

A step of a command is a step of the link, with one exception (`CliStepIs`): when `main()` returns
its process ends, and the next command begins with a new `InternalClient`. No step of `LinkNext` does
that, so the theorems on `LinkSpec` do not carry over by themselves. The module shows that `LinkInv`,
`NoPeerIsForgotten`, `LoginInv` and `TalkInv` survive it (`ExitKeepsLinkInv`, `ExitForgetsNobody`,
`ExitKeepsLogin`, `ExitKeepsTalk`): a new client holds nothing, and what the old one held is closed
on its end, which the invariants of the link allow at any moment because clients may die. `CliInv` adds how far
`main()` is: a client is idle before it connects and after it has exited, inside `connect()` while it
connects, and then idle again only with the verdict, where `SAILOR_OK` means a login. Then

- `ConnectReportsLogin`: `CliSpec => []OkConnectIsLogin`,
- `CommandsForgetNobody`: `CliSpec => []NoPeerIsForgotten`. With a client that holds nothing after its command it is
  the safety half of `ServerComesFree`: the server has been told of every connection of a command that is over,
- `CommandsKeepTypes`, `CommandsImplementStorage`, `CommandsAgreeOnLogin`, `CommandsLogInByDatabase`,
  `CommandsStayInSync`, `CommandsListWhatIsThere`, `CommandsDownloadTheFile`,
  `CommandsStoreTheirUploads`: what is proved of the link, under `CliSpec`. The last four have the
  hypotheses of their counterparts.

### The desktop application (`SessionProofs`)

One invariant, `DesktopInv`, proves the invariants of the run `desktop`. Its
parts need each other:

- `MessagesOK` types the messages of the three queues.
- `QueueOK`: no task is listed twice, queued tasks are listed, completed ones show their bytes.
- `TransfersOK` (`TransfersAreAwaited`, `OneTransferAtATime`): a transfer on its way is one that a run of
  `_processQueue` awaits, at most one run awaits, and the awaited task is not queued. Without
  the first part a late answer could start a second transfer.
- `NoTaskForgotten` as it stands: the run that awaits will look at the list again.
- `StatusFollowsTransfer` as it stands. That a step of the loop keeps it (`LoopFollows`) rests on the statuses
  before the loop (`Follows`): an awaited task is not queued, so the loop takes another one.
- `PaneOK`, `SpinnerAwaitsListing`: entries, path and error agree, and a loading pane has a
  listing in one of the queues.
- `SessionsOK`: the stack of screens is never empty (`RoutesOK`), and the last
  answer in the queue to a connect or disconnect tells what the native client is
  (`LastAnswerTells`). `ConnectedMeansOnline` alone says nothing while such an answer waits.
- `ExplorersOK`, its last part, is about the screens that requests on their way come from. Every new screen has a number
  that no such request carries (`NumbersOK`). A connection that has no explorer awaits another session, or
  the listing for a form that is still there (`ExplorerComes`). If the last session that was asked for is a connect from a form
  that is gone, there is an explorer, and it is covered, or no disconnect that is on its way comes from
  a screen that is there (`ExplorerStays`). What replaced the form was an explorer, or a form above one, and only `Disconnected`
  and the back arrow take one away. The second of the three alone is not kept: the answer to such a connect opens nothing.

The theorems are `SessionTyping`, `TransfersOneByOne`, `NoWakeUpIsLost`,
`CompletedKeepsItsBytes`, `StatusTellsTransfer`, `EntriesFollowThePath`, `SpinnersEnd`,
`ConnectedIsOnline` and `ConnectionsGetTheirExplorer`.

### Packets (`FramingProofs`)

The first half is about `PacketCodec` and has no state. `Build` flattens the encoded fields
and `Parse` walks over them with a cursor. `FlattenIsCut` turns the fold of the builders into a
relation without recursion: `Cut(cells, parts, at)` says that `cells` are the `parts` in a row and
that `at` holds where they end. One lemma for each kind of field says that the reader of that
kind, in front of the cells of a value, takes this value and stops behind it; the entries of a
directory are an induction of their own. `MessageBack` puts them together: for every packet type
and every message whose strings fit (`Legible`), `Parse(Build(m))` has the fields of `m` and nothing left.

The second half is about `Framing`. Its invariant, `FramingInv`, says that `header`, `partial`, `stream`,
`writing` and what was lost when the writer closed are, in this order and in a row, the
frames of the messages that were asked for and not yet received (`Carried`), for as long as the
reader is open; that the packets received are those of the first messages (`PacketsOK`); and that the
buffers hold less than is wanted (`BuffersOK`). The lost part is needed because
a writer that closes in the middle of a packet leaves its first bytes on the way, which are then no
whole number of frames. `Write` and a round of `ReadSome` that is not the last only move bytes along the row;
the last one completes a header or, with `Completes`, exactly the next frame. Then

- `FramingTyping`: `Spec => []TypeOK`,
- `ParsesBack`: `Spec => []ParsedAsAsked`, with `MessageBack`,
- `PacketsCross`: `Spec => FramingImplementsChannel`, where a step that completes a packet is `Receive`, `SendPacket` is
  `Send`, the steps that close an end are `Close`, and all others stutter.

### Induction (`InductionLemmas`)

The prover cannot use an induction theorem that takes a predicate as parameter. `LeastNumber`
says that a set of naturals that is not empty has a least element; `Climb` states
induction with a set in the place of the predicate; `Recursion`
says that a recursive function on the naturals, and so on the numbers up to a length, exists and
satisfies its equation. The proofs use them for the loop of `UserStore!Load`, for
the counts of messages in the queues and for the loops of the codecs. The operators concerned are written as
recursive functions (`Load`, `AddRow`, `AllEntries`, `Parse`) or with sets of numbers (`Places`, `Unfinished`).

### Only model-checked

- Liveness, which the prover does not handle: `EveryCallReturns`, `EveryCommandExits`,
  `ServerComesFree`, `EveryPacketArrives`, `EveryTaskIsSettled`.
- The six properties of the `violation` runs, which do not hold.

## Not modelled

- TLS contexts, certificates, build and packaging: configuration without state after
  start-up. A failed TLS handshake is `HandshakeFails`.
- The local pane and the settings of the desktop application: each handler is
  synchronous or only fills in a form.
- Start-up and disposal of the worker isolates, and symbolic links inside the storage.
- Malformed packets at the server, and PING: no client of the repository sends them.
- Memory of the C interface's list results; `UserStore::addUser`, which nothing calls;
  `TcpTransport` and `PacketSerializer::deserialize`, which no program uses.

## Plan

1. Done: the storage, the link with the user database, the command line client, the
   packets and their framing, the desktop application, and the safety proofs of
   all of them: every invariant and every safety property that a passing run checks is a theorem.
2. Left: liveness, which stays with TLC, and the modules' boundary. `SailorLink` takes a connection to be
   `PacketChannel` in each direction by its definitions; that `Framing` implements the channel
   is proved, and that the two together behave as `SailorLink` is not stated as a formula.
