------------------------------ MODULE SailorLink ------------------------------
(***************************************************************************)
(* SDK clients (InternalClient) and the server (TcpServer) over TCP/TLS    *)
(* connections, on top of the storage services of Storage.                 *)
(*                                                                         *)
(* A connection is two FIFO channels of bounded size and one open flag for *)
(* each end.  The server is one thread: it accepts a connection, serves it *)
(* until the peer closes, and only then accepts the next one.  A client is *)
(* a process that makes one call at a time and blocks in it.               *)
(*                                                                         *)
(* Every packet carries the number of the call it belongs to.  The real    *)
(* packets have no such field and no step looks at it: it is there for the *)
(* properties.                                                             *)
(***************************************************************************)
EXTENDS Storage, UserStore

CONSTANTS
  Client,     \* processes that use the SDK
  MaxCalls,   \* bound on the calls a client makes
  MaxConn,    \* bound on the connections a client opens
  SockBuf,    \* how many packets a channel holds
  LocalFile,  \* the bytes of the file that clients upload
  Requests,   \* what clients ask for; uploads have fields dir and name, the
              \* others path, and renames to
  Logins,     \* what users type: user name and password
  Databases,  \* the user databases the server may find when it starts
  LinkFaults  \* the failures around the link that may happen

(***************************************************************************)
(*   "client_crash"   a client process dies                                *)
(*   "server_crash"   the server process dies (SIGPIPE included)           *)
(*   "file_changed"   the local file is modified during an upload          *)
(*   "file_shrank"    the local file is truncated during an upload         *)
(*   "file_grew"      the local file is appended to during an upload       *)
(*   "file_gone"      the local file vanishes after UPLOAD_BEGIN           *)
(*   "no_destination" the local file of a download cannot be created       *)
(*   "local_write"    the local disk does not take what a download writes  *)
(*   "unreadable"     the stored file cannot be opened to be streamed      *)
(*   "retry"          the user tries again after a refused login, as the   *)
(*                    connect screen lets him                              *)
(*   "reconnect"      the user connects while connected, as a second Enter *)
(*                    in its password field does                           *)
(*   "bad_address"    the user gives a host that inet_pton does not take   *)
(***************************************************************************)
AllLinkFaults ==
  {"client_crash", "server_crash", "file_changed", "file_shrank", "file_grew",
   "file_gone", "no_destination", "local_write", "unreadable",
   "retry", "reconnect", "bad_address"}

Conn == Client \X (1..MaxConn)

ASSUME LinkAssumption ==
  /\ MaxCalls \in Nat /\ MaxConn \in Nat
  /\ SockBuf \in Nat \ {0}
  /\ LocalFile \in Seq(Byte)
  /\ LinkFaults \subseteq AllLinkFaults
  /\ UploadId = Client \X (1..MaxCalls)

ASSUME DatabaseAssumption ==
  \A db \in Databases :
    /\ db.format \in {"sqlite", "text", "missing"}
    /\ db.rows \in Seq(STRING \X Seq(STRING))

VARIABLES
  sdk,     \* the InternalClient of each client
  wire,    \* the connections
  backlog, \* connections the kernel has accepted and the server has not
  srv      \* the thread of the server, and the database it has read

linkVars == << sdk, wire, backlog, srv >>

allVars == << sdk, wire, backlog, srv, vars >>

Pc == {"idle", "handshake", "auth", "simple", "begin", "chunks", "end",
       "request", "stream", "stuck", "dead"}

Status == {"OK", "CONNECTION_FAILED", "AUTH_FAILED", "FILE_NOT_FOUND",
           "PERMISSION_DENIED", "INTERNAL_ERROR", "OPERATION_FAILED"}

NoRequest == [op |-> "NONE"]

NewClient ==
  [ pc     |-> "idle",
    state  |-> "DISCONNECTED",  \* state_
    conn   |-> 0,               \* transport_: which connection, 0 for null
    socket |-> 0,               \* socket_fd_: which connection, 0 for -1
    opened |-> 0,               \* how many connections it opened so far
    call   |-> 0,               \* how many calls it made so far
    req    |-> NoRequest,       \* the request of the call
    sent   |-> 0,               \* total_sent of upload
    meta   |-> << >>,           \* the file DOWNLOAD_BEGIN announced
    local  |-> << >>,           \* the local copy a download has written
    status |-> "OK" ]           \* what the last call returned

\* A connection: what is on its way up and down, whether the server is still to
\* be told that the client is done with it (it is, by the TLS shutdown or by the
\* close), whether the client's descriptor is open, and whether the server's is.
Closed0 == [ up |-> << >>, down |-> << >>,
             cOpen |-> FALSE, fd |-> FALSE, sOpen |-> FALSE ]

LinkInit ==
  /\ Init
  /\ sdk = [c \in Client |-> NewClient]
  /\ wire = [k \in Conn |-> Closed0]
  /\ backlog = << >>
  /\ \E db \in Databases :
       srv = [pc |-> "accept", conn |-> << >>, authed |-> FALSE, out |-> << >>,
              users |-> Load(db), db |-> db]

LinkTypeOK ==
  /\ TypeOK
  /\ \A c \in Client :
       /\ sdk[c].pc \in Pc /\ sdk[c].status \in Status
       /\ sdk[c].state \in {"DISCONNECTED", "CONNECTED_UNAUTHENTICATED",
                            "AUTHENTICATED"}
       /\ sdk[c].opened \in 0..MaxConn /\ sdk[c].call \in 0..MaxCalls
       /\ sdk[c].conn \in 0..sdk[c].opened
       /\ sdk[c].socket \in 0..sdk[c].opened
  /\ \A k \in Conn :
       /\ Len(wire[k].up) <= SockBuf /\ Len(wire[k].down) <= SockBuf
       /\ {wire[k].cOpen, wire[k].fd, wire[k].sOpen} \subseteq BOOLEAN
  /\ srv.pc \in {"accept", "serve", "down"} /\ srv.authed \in BOOLEAN
  /\ srv.pc = "serve" => srv.conn \in Conn

-----------------------------------------------------------------------------
(* The client: InternalClient *)

Packet(type, call, arg) == [type |-> type, call |-> call, arg |-> arg]

\* The connection of transport_, and the one being set up.
K(c) == << c, sdk[c].conn >>

Fresh(c) == << c, sdk[c].socket >>

Return(c, status) ==
  sdk' = [sdk EXCEPT ![c].pc = "idle", ![c].status = status,
                     ![c].req = NoRequest, ![c].sent = 0,
                     ![c].meta = << >>, ![c].local = << >>]

GoTo(c, pc) == sdk' = [sdk EXCEPT ![c].pc = pc]

\* A mutant of CanSend: a send that does not block.
CanSendAtOnce(k) == wire[k].sOpen

\* A blocking send and a blocking receive on the client's end of connection k.
CanSend(k) == wire[k].sOpen /\ Len(wire[k].up) < SockBuf

Send(k, packet) == wire' = [wire EXCEPT ![k].up = Append(@, packet)]

CanReceive(k) == wire[k].down # << >>

Received(k) == Head(wire[k].down)

Consume(k) == wire' = [wire EXCEPT ![k].down = Tail(@)]

\* The peer closed and everything it sent was read.
Lost(k) == wire[k].down = << >> /\ ~wire[k].sOpen

\* The client is done with connections ks, of which it closes those in `closed`.
\* ~TlsTransport shuts TLS down and leaves the descriptor open.
Hangup(ks, closed) ==
  [ k \in Conn |->
      IF k \in ks
      THEN [wire[k] EXCEPT !.cOpen = FALSE, !.fd = @ /\ k \notin closed]
      ELSE wire[k] ]

\* What the end of a process does to its sockets.
ProcessEnds(c) ==
  LET mine == { k \in Conn : k[1] = c } IN wire' = Hangup(mine, mine)

\* connect() up to the point where SSL_connect waits for the server.  A new
\* socket replaces socket_fd_, which is not closed; the old transport_ stays as
\* it is, also when the address is refused or nobody listens.
Connect(c) ==
  /\ sdk[c].pc = "idle" /\ sdk[c].call < MaxCalls
  /\ \/ sdk[c].conn = 0 \/ "reconnect" \in LinkFaults
     \/ sdk[c].state # "AUTHENTICATED" /\ "retry" \in LinkFaults
  /\ \/ /\ srv.pc = "down" \/ "bad_address" \in LinkFaults
        /\ sdk' = [sdk EXCEPT ![c].call = @ + 1, ![c].socket = 0,
                              ![c].status = "CONNECTION_FAILED"]
        /\ UNCHANGED << wire, backlog >>
     \/ /\ srv.pc # "down" /\ sdk[c].opened < MaxConn
        /\ LET k == << c, sdk[c].opened + 1 >> IN
           /\ sdk' = [sdk EXCEPT ![c].pc = "handshake", ![c].call = @ + 1,
                                 ![c].opened = @ + 1, ![c].socket = k[2]]
           /\ wire' = [wire EXCEPT ![k] =
                 [ up    |-> << Packet("HELLO", sdk'[c].call, "") >>,
                   down  |-> << >>,
                   cOpen |-> TRUE,
                   fd    |-> TRUE,
                   sOpen |-> TRUE ]]
           /\ backlog' = Append(backlog, k)
  /\ UNCHANGED << srv, vars >>

\* A mutant of HandshakeDone: the new transport replaces the old one and does not
\* shut it down.
HandshakeLeaksOld(c) ==
  /\ sdk[c].pc = "handshake" /\ CanReceive(Fresh(c))
  /\ \E login \in Logins :
       /\ sdk' = [sdk EXCEPT
            ![c].pc = IF wire[Fresh(c)].sOpen THEN "auth" ELSE "stuck",
            ![c].conn = sdk[c].socket,
            ![c].req = [op |-> "CONNECT", login |-> login],
            ![c].state = "CONNECTED_UNAUTHENTICATED"]
       /\ wire' = [wire EXCEPT
            ![Fresh(c)].down = Tail(@),
            ![Fresh(c)].up = Append(@, Packet("AUTH_REQUEST", sdk[c].call, login))]
  /\ UNCHANGED << backlog, srv, vars >>

\* The handshake is over: the new transport replaces and thereby shuts down the
\* old one, whose descriptor nobody knows any more, and the credentials go out.  If that send fails, connect() calls
\* disconnect(), which waits for the mutex connect() holds.
HandshakeDone(c) ==
  /\ sdk[c].pc = "handshake" /\ CanReceive(Fresh(c))
  /\ \E login \in Logins :
       LET k    == Fresh(c)
           old  == Hangup({K(c)} \ {k}, {})
           auth == Packet("AUTH_REQUEST", sdk[c].call, login)
       IN
       /\ sdk' = [sdk EXCEPT
            ![c].pc = IF wire[k].sOpen THEN "auth" ELSE "stuck",
            ![c].conn = sdk[c].socket,
            ![c].req = [op |-> "CONNECT", login |-> login],
            ![c].state = "CONNECTED_UNAUTHENTICATED"]
       /\ wire' = [old EXCEPT ![k].down = Tail(@), ![k].up = Append(@, auth)]
  /\ UNCHANGED << backlog, srv, vars >>

\* A mutant of HandshakeFails: connect() cleans up and does not report it.
HandshakeFailsSilently(c) ==
  /\ sdk[c].pc = "handshake" /\ Lost(Fresh(c))
  /\ wire' = Hangup({Fresh(c)}, {Fresh(c)})
  /\ sdk' = [sdk EXCEPT ![c].pc = "idle", ![c].socket = 0]
  /\ UNCHANGED << backlog, srv, vars >>

HandshakeFails(c) ==
  /\ sdk[c].pc = "handshake" /\ Lost(Fresh(c))
  /\ wire' = Hangup({Fresh(c)}, {Fresh(c)})
  /\ sdk' = [sdk EXCEPT ![c].pc = "idle", ![c].socket = 0,
                        ![c].status = "CONNECTION_FAILED"]
  /\ UNCHANGED << backlog, srv, vars >>

\* The connection stays open when the server says no.
AuthAnswered(c) ==
  /\ sdk[c].pc = "auth" /\ CanReceive(K(c))
  /\ Consume(K(c))
  /\ \/ /\ Received(K(c)).type = "AUTH_RESPONSE" /\ Received(K(c)).arg
        /\ sdk' = [sdk EXCEPT ![c].pc = "idle", ![c].state = "AUTHENTICATED",
                              ![c].req = NoRequest, ![c].status = "OK"]
     \/ /\ ~(Received(K(c)).type = "AUTH_RESPONSE" /\ Received(K(c)).arg)
        /\ Return(c, "AUTH_FAILED")
  /\ UNCHANGED << backlog, srv, vars >>

\* disconnect() called from within connect(): the mutex is not recursive.
AuthLost(c) ==
  /\ sdk[c].pc = "auth" /\ Lost(K(c))
  /\ GoTo(c, "stuck")
  /\ UNCHANGED << wire, backlog, srv, vars >>

\* transport_ is shut down, socket_fd_ is closed: not always the same connection.
Disconnect(c) ==
  /\ sdk[c].pc = "idle" /\ (sdk[c].conn # 0 \/ sdk[c].socket # 0)
  /\ wire' = Hangup({K(c), Fresh(c)}, {Fresh(c)})
  /\ sdk' = [sdk EXCEPT ![c].conn = 0, ![c].socket = 0,
                        ![c].state = "DISCONNECTED", ![c].status = "OK"]
  /\ UNCHANGED << backlog, srv, vars >>

Crash(c) ==
  /\ "client_crash" \in LinkFaults /\ sdk[c].pc # "dead"
  /\ ProcessEnds(c)
  /\ sdk' = [sdk EXCEPT ![c] = [NewClient EXCEPT
               !.pc = "dead", !.opened = sdk[c].opened, !.call = sdk[c].call]]
  /\ UNCHANGED << backlog, srv, vars >>

\* The id upload() draws: 64 random bits, taken to be new.
NextId(c) == << c, sdk[c].call + 1 >>

\* What upload() declares of the local file.
Declared(req) == [ dir |-> req.dir, name |-> req.name,
                   size |-> Len(LocalFile), digest |-> LocalFile ]

Sdk(op) == CASE op = "UPLOAD" -> "begin"
             [] op = "DOWNLOAD" -> "request"
             [] OTHER -> "simple"

Opening(c, req) ==
  CASE req.op = "UPLOAD" ->
         Packet("UPLOAD_BEGIN", sdk[c].call + 1,
                [id |-> NextId(c), begin |-> Declared(req)])
    [] req.op = "DOWNLOAD" ->
         Packet("DOWNLOAD_REQUEST", sdk[c].call + 1, req)
    [] OTHER -> Packet(req.op, sdk[c].call + 1, req)

\* list, upload, download, deletePath, rename, mkdir and rmdir begin alike: they
\* send their first packet and wait.
Call(c, req) ==
  /\ sdk[c].pc = "idle" /\ sdk[c].state = "AUTHENTICATED"
  /\ sdk[c].call < MaxCalls
  /\ \/ /\ CanSend(K(c))
        /\ Send(K(c), Opening(c, req))
        /\ sdk' = [sdk EXCEPT ![c].pc = Sdk(req.op), ![c].req = req,
                              ![c].call = @ + 1]
     \/ /\ ~wire[K(c)].sOpen
        /\ sdk' = [sdk EXCEPT ![c].call = @ + 1,
                              ![c].status = "CONNECTION_FAILED"]
        /\ UNCHANGED wire
  /\ UNCHANGED << backlog, srv, vars >>

\* What a call may make of the packet it receives.  list() looks at its type; the
\* others read a first byte of 1 as success whatever packet it is, which in the
\* packets of a download is part of a random id, and in SUCCESS and ERROR the high
\* byte of a length.
Verdicts(op, p) ==
  CASE op = "LIST" -> {p.type = "LIST"}
    [] op # "LIST" /\ p.type \in {"DELETE", "RENAME", "MKDIR", "RMDIR"} -> {p.arg}
    [] op # "LIST" /\ p.type \in {"SUCCESS", "ERROR"} -> {FALSE}
    [] OTHER -> BOOLEAN

\* list, deletePath, rename, mkdir, rmdir: one response.
SimpleAnswered(c) ==
  /\ sdk[c].pc = "simple" /\ CanReceive(K(c))
  /\ Consume(K(c))
  /\ \E ok \in Verdicts(sdk[c].req.op, Received(K(c))) :
       Return(c, IF ok THEN "OK" ELSE "OPERATION_FAILED")
  /\ UNCHANGED << backlog, srv, vars >>

\* What each blocked call returns when the connection is gone.
LostStatus(pc) == CASE pc = "simple"  -> "CONNECTION_FAILED"
                    [] pc = "begin"   -> "OPERATION_FAILED"
                    [] pc = "end"     -> "INTERNAL_ERROR"
                    [] pc = "request" -> "FILE_NOT_FOUND"
                    [] pc = "stream"  -> "OPERATION_FAILED"

CallLost(c) ==
  /\ sdk[c].pc \in {"simple", "begin", "end", "request", "stream"}
  /\ Lost(K(c))
  /\ Return(c, LostStatus(sdk[c].pc))
  /\ UNCHANGED << wire, backlog, srv, vars >>

UploadBegun(c) ==
  /\ sdk[c].pc = "begin" /\ CanReceive(K(c))
  /\ Consume(K(c))
  /\ \/ /\ Received(K(c)).type = "SUCCESS"
        /\ GoTo(c, "chunks")
     \/ /\ Received(K(c)).type = "SUCCESS" /\ "file_gone" \in LinkFaults
        /\ Return(c, "FILE_NOT_FOUND")
     \/ /\ Received(K(c)).type # "SUCCESS"
        /\ Return(c, "OPERATION_FAILED")
  /\ UNCHANGED << backlog, srv, vars >>

\* What reading the local file from offset n may give: its next byte, another
\* byte, or more bytes than the size that was announced.
ReadChunk(n) ==
  { << LocalFile[n + 1] >> }
    \union (IF "file_changed" \in LinkFaults THEN { << Hole >> } ELSE {})
    \union (IF "file_grew" \in LinkFaults /\ n + 1 = Len(LocalFile)
            THEN { << LocalFile[n + 1], Hole >> } ELSE {})

\* What the clients ask for is among what Storage is asked for.
ASSUME RequestAssumption ==
  /\ Requests \subseteq
       [op : {"LIST", "DELETE", "MKDIR", "RMDIR", "DOWNLOAD"}, path : Requested]
         \union [op : {"RENAME"}, path : Requested, to : Requested]
         \union [op : {"UPLOAD"}, dir : {Outside} \union Path,
                name : {BadName} \union Name]
  /\ \A req \in Requests : req.op = "UPLOAD" => Declared(req) \in UploadBegin
  /\ \A n \in 0..(Len(LocalFile) - 1) : n \in Offset /\ ReadChunk(n) \subseteq Chunk

SendChunk(c) ==
  /\ sdk[c].pc = "chunks" /\ sdk[c].sent < Len(LocalFile)
  /\ CanSend(K(c))
  /\ \E chunk \in ReadChunk(sdk[c].sent) :
       /\ Send(K(c), Packet("UPLOAD_CHUNK", sdk[c].call,
                            [ id     |-> << c, sdk[c].call >>,
                              offset |-> sdk[c].sent,
                              chunk  |-> chunk ]))
       /\ sdk' = [sdk EXCEPT ![c].sent = @ + Len(chunk)]
  /\ UNCHANGED << backlog, srv, vars >>

SendEnd(c) ==
  /\ sdk[c].pc = "chunks"
  /\ sdk[c].sent >= Len(LocalFile) \/ "file_shrank" \in LinkFaults
  /\ CanSend(K(c))
  /\ Send(K(c), Packet("UPLOAD_END", sdk[c].call, [id |-> << c, sdk[c].call >>]))
  /\ GoTo(c, "end")
  /\ UNCHANGED << backlog, srv, vars >>

SendFails(c) ==
  /\ sdk[c].pc = "chunks" /\ ~wire[K(c)].sOpen
  /\ Return(c, "CONNECTION_FAILED")
  /\ UNCHANGED << wire, backlog, srv, vars >>

\* A mutant of UploadEnded: any answer to UPLOAD_END is taken for success.
UploadAnswered(c) ==
  /\ sdk[c].pc = "end" /\ CanReceive(K(c))
  /\ Consume(K(c))
  /\ Return(c, "OK")
  /\ UNCHANGED << backlog, srv, vars >>

UploadEnded(c) ==
  /\ sdk[c].pc = "end" /\ CanReceive(K(c))
  /\ Consume(K(c))
  /\ Return(c, IF Received(K(c)).type = "SUCCESS" THEN "OK" ELSE "INTERNAL_ERROR")
  /\ UNCHANGED << backlog, srv, vars >>

\* If the destination cannot be created, download() returns and leaves the
\* stream in the channel.
DownloadBegun(c) ==
  /\ sdk[c].pc = "request" /\ CanReceive(K(c))
  /\ Consume(K(c))
  /\ LET p == Received(K(c)) IN
     \/ /\ p.type = "DOWNLOAD_BEGIN"
        /\ sdk' = [sdk EXCEPT ![c].pc = "stream", ![c].meta = p.arg]
     \/ /\ p.type = "DOWNLOAD_BEGIN" /\ "no_destination" \in LinkFaults
        /\ Return(c, "PERMISSION_DENIED")
     \/ /\ p.type # "DOWNLOAD_BEGIN"
        /\ Return(c, "FILE_NOT_FOUND")
  /\ UNCHANGED << backlog, srv, vars >>

\* What a write leaves in the local file: download() looks at its checksum and
\* never at the stream.
Landed(chunk) ==
  {chunk} \union (IF "local_write" \in LinkFaults
                  THEN { [ n \in 1..Len(chunk) |-> Hole ] } ELSE {})

\* A chunk of another download has another download_id.
InStream(c, p) ==
  /\ p.type = "DOWNLOAD_CHUNK" /\ p.arg.id = sdk[c].meta.id
  /\ p.arg.offset = Len(sdk[c].local)

StreamReceived(c) ==
  /\ sdk[c].pc = "stream" /\ CanReceive(K(c))
  /\ Consume(K(c))
  /\ LET p == Received(K(c)) IN
     \/ /\ InStream(c, p)
        /\ \E bytes \in Landed(p.arg.chunk) :
             sdk' = [sdk EXCEPT ![c].local = @ \o bytes]
     \/ /\ p.type = "DOWNLOAD_END"
        /\ Return(c, CASE Len(sdk[c].local) # Len(sdk[c].meta.file)
                            -> "OPERATION_FAILED"
                       [] sdk[c].local = sdk[c].meta.file -> "OK"
                       [] OTHER -> "INTERNAL_ERROR")
     \/ /\ p.type # "DOWNLOAD_END" /\ ~InStream(c, p)
        /\ Return(c, "OPERATION_FAILED")
  /\ UNCHANGED << backlog, srv, vars >>

ClientStep(c) ==
  \/ HandshakeDone(c) \/ HandshakeFails(c) \/ AuthAnswered(c) \/ AuthLost(c)
  \/ SimpleAnswered(c) \/ CallLost(c)
  \/ UploadBegun(c) \/ SendChunk(c) \/ SendEnd(c) \/ SendFails(c)
  \/ UploadEnded(c)
  \/ DownloadBegun(c) \/ StreamReceived(c)

UserStep(c) ==
  Connect(c) \/ Disconnect(c) \/ \E req \in Requests : Call(c, req)

-----------------------------------------------------------------------------
(* The server: TcpServer *)

\* A mutant of Accept: the login of the last connection is not reset.
AcceptKeepingLogin ==
  /\ srv.pc = "accept" /\ backlog # << >> /\ wire[Head(backlog)].cOpen
  /\ LET k == Head(backlog) IN
     /\ wire' = [wire EXCEPT ![k].up = Tail(@),
                             ![k].down = Append(@, Head(wire[k].up))]
     /\ srv' = [srv EXCEPT !.pc = "serve", !.conn = k]
  /\ backlog' = Tail(backlog)
  /\ UNCHANGED << sdk, vars >>

\* accept() and SSL_accept() of the connection that waits longest.
Accept ==
  /\ srv.pc = "accept" /\ backlog # << >>
  /\ LET k == Head(backlog) IN
     \/ /\ wire[k].cOpen
        /\ wire' = [wire EXCEPT ![k].up = Tail(@),
                                ![k].down = Append(@, Head(wire[k].up))]
        /\ srv' = [srv EXCEPT !.pc = "serve", !.conn = k, !.authed = FALSE]
     \/ /\ ~wire[k].cOpen
        /\ wire' = [wire EXCEPT ![k].up = << >>, ![k].sOpen = FALSE]
        /\ UNCHANGED srv
  /\ backlog' = Tail(backlog)
  /\ UNCHANGED << sdk, vars >>

\* The peer has closed and receivePacket finds nothing more: the loop ends.
ClientGone ==
  /\ srv.pc = "serve" /\ srv.out = << >>
  /\ wire[srv.conn].up = << >> /\ ~wire[srv.conn].cOpen
  /\ wire' = [wire EXCEPT ![srv.conn].sOpen = FALSE, ![srv.conn].down = << >>]
  /\ srv' = [srv EXCEPT !.pc = "accept", !.conn = << >>]
  /\ UNCHANGED << sdk, backlog, vars >>

\* A mutant of SendOut: sendAll tries again when the peer has gone.
SendOutRetrying ==
  /\ srv.pc = "serve" /\ srv.out # << >>
  /\ wire[srv.conn].fd /\ Len(wire[srv.conn].down) < SockBuf
  /\ wire' = [wire EXCEPT ![srv.conn].down = Append(@, Head(srv.out))]
  /\ srv' = [srv EXCEPT !.out = Tail(@)]
  /\ UNCHANGED << sdk, backlog, vars >>

\* A blocking send.  To a peer that has closed it fails, and the handler drops what
\* it still had to send; a peer that has only shut TLS down lets it go on until the
\* buffers are full.
SendOut ==
  /\ srv.pc = "serve" /\ srv.out # << >>
  /\ \/ /\ wire[srv.conn].fd /\ Len(wire[srv.conn].down) < SockBuf
        /\ wire' = [wire EXCEPT ![srv.conn].down = Append(@, Head(srv.out))]
        /\ srv' = [srv EXCEPT !.out = Tail(@)]
     \/ /\ ~wire[srv.conn].fd
        /\ srv' = [srv EXCEPT !.out = << >>]
        /\ UNCHANGED wire
  /\ UNCHANGED << sdk, backlog, vars >>

\* Packet p of the given type is the next one handleClient receives.
Receives(type, p) ==
  /\ srv.pc = "serve" /\ srv.out = << >>
  /\ wire[srv.conn].up # << >> /\ Head(wire[srv.conn].up) = p
  /\ p.type = type
  /\ wire' = [wire EXCEPT ![srv.conn].up = Tail(@)]
  /\ UNCHANGED << sdk, backlog >>

NextPacket == IF srv.pc = "serve" /\ wire[srv.conn].up # << >>
              THEN {Head(wire[srv.conn].up)} ELSE {}

Answers(packets) == srv' = [srv EXCEPT !.out = packets]

\* The handler of a packet that needs authentication, which answers with
\* `packets`; without authentication it answers `refusal` and does nothing.
Guarded(service, packets, refusal) ==
  IF srv.authed
  THEN service /\ Answers(packets)
  ELSE Answers(<< refusal >>) /\ UNCHANGED vars

\* A refused login does not end an earlier one of the connection.
ServeAuth(p) ==
  /\ Receives("AUTH_REQUEST", p)
  /\ LET ok == Authenticate(srv.users, p.arg[1], p.arg[2]) IN
     srv' = [srv EXCEPT !.authed = @ \/ ok,
                        !.out = << Packet("AUTH_RESPONSE", p.call, ok) >>]
  /\ UNCHANGED vars

Error(p) == Packet("ERROR", p.call, FALSE)

\* LIST, DELETE_REQUEST, RENAME_REQUEST, MKDIR_REQUEST, RMDIR_REQUEST: one
\* response of the type that belongs to the request.
Response(p, ok) == Packet(p.type, p.call, ok)

CanList(path) == path # Outside /\ IsDirectory(tree, path)

\* An entry as listDirectory reports it: its name, and its size if it is a file.
Entry(path) ==
  [ name |-> path[Len(path)],
    size |-> IF IsDirectory(tree, path) THEN Dir ELSE Len(data[tree[path]]) ]

\* A mutant of Listing: recursive_directory_iterator.
ListingTree(path) == { Entry(q) : q \in { r \in DOMAIN tree : Under(path, r) } }

Listing(path) == { Entry(q) : q \in Children(tree, path) }

ServeList(p) ==
  /\ Receives("LIST", p)
  /\ Guarded(UNCHANGED vars,
             << IF CanList(p.arg.path)
                THEN Response(p, Listing(p.arg.path)) ELSE Error(p) >>,
             Error(p))

\* A mutant of ServeDelete: remove_all.
ServeDeleteTree(p) ==
  /\ Receives("DELETE", p)
  /\ Guarded(/\ tree' = [ q \in { r \in DOMAIN tree : ~InSubtree(p.arg.path, r) }
                            |-> tree[q] ]
             /\ Returns(TRUE)
             /\ UNCHANGED << data, sessions >>,
             << Response(p, TRUE) >>, Response(p, FALSE))

ServeDelete(p) ==
  /\ Receives("DELETE", p)
  /\ Guarded(DeletePath(p.arg.path), << Response(p, reply') >>,
             Response(p, FALSE))

ServeRename(p) ==
  /\ Receives("RENAME", p)
  /\ Guarded(RenamePath(p.arg.path, p.arg.to), << Response(p, reply') >>,
             Response(p, FALSE))

ServeMkdir(p) ==
  /\ Receives("MKDIR", p)
  /\ Guarded(CreateDirectory(p.arg.path), << Response(p, reply') >>,
             Response(p, FALSE))

ServeRmdir(p) ==
  /\ Receives("RMDIR", p)
  /\ Guarded(RemoveDirectory(p.arg.path), << Response(p, reply') >>,
             Response(p, FALSE))

Verdict(p, ok) == IF ok THEN Packet("SUCCESS", p.call, TRUE) ELSE Error(p)

\* A mutant of ServeUploadBegin: only success is answered.
ServeUploadBeginSilently(p) ==
  /\ Receives("UPLOAD_BEGIN", p)
  /\ Guarded(BeginUpload(p.arg.id, p.arg.begin),
             IF reply' THEN << Verdict(p, TRUE) >> ELSE << >>, Error(p))

ServeUploadBegin(p) ==
  /\ Receives("UPLOAD_BEGIN", p)
  /\ Guarded(BeginUpload(p.arg.id, p.arg.begin), << Verdict(p, reply') >>,
             Error(p))

\* A mutant of ServeUploadChunk: every chunk is answered.
ServeUploadChunkWithAck(p) ==
  /\ Receives("UPLOAD_CHUNK", p)
  /\ Guarded(WriteChunk(p.arg.id, p.arg.offset, p.arg.chunk),
             << Verdict(p, reply') >>, Error(p))

\* A chunk is answered only when it is refused.
ServeUploadChunk(p) ==
  /\ Receives("UPLOAD_CHUNK", p)
  /\ Guarded(WriteChunk(p.arg.id, p.arg.offset, p.arg.chunk),
             IF reply' THEN << >> ELSE << Error(p) >>,
             Error(p))

ServeUploadEnd(p) ==
  /\ Receives("UPLOAD_END", p)
  /\ Guarded(FinishUpload(p.arg.id), << Verdict(p, reply') >>, Error(p))

\* prepareDownload and streamFile: the metadata, the bytes in chunks, the end.
\* If the file cannot be opened after DOWNLOAD_BEGIN nothing follows it.
CanDownload(path) == path # Outside /\ IsFile(tree, path)

Begin(p, file) == Packet("DOWNLOAD_BEGIN", p.call, [id |-> p.call, file |-> file])

Chunks(p, file) ==
  [ n \in 1..Len(file) |->
      Packet("DOWNLOAD_CHUNK", p.call,
             [id |-> p.call, offset |-> n - 1, chunk |-> << file[n] >>]) ]

End(p) == Packet("DOWNLOAD_END", p.call, TRUE)

\* A mutant of Stream: size, checksum and chunks all miss the last byte.
StreamShort(p, file) ==
  LET short == SubSeq(file, 1, Len(file) - 1)
  IN  << Begin(p, short) >> \o Chunks(p, short) \o << End(p) >>

Stream(p, file) == << Begin(p, file) >> \o Chunks(p, file) \o << End(p) >>

ServeDownload(p) ==
  /\ Receives("DOWNLOAD_REQUEST", p)
  /\ \/ /\ CanDownload(p.arg.path)
        /\ LET stream == Stream(p, data[tree[p.arg.path]]) IN
           \/ Guarded(UNCHANGED vars, stream, Error(p))
           \/ /\ "unreadable" \in LinkFaults
              /\ Guarded(UNCHANGED vars, << Head(stream) >>, Error(p))
     \/ /\ ~CanDownload(p.arg.path)
        /\ Guarded(UNCHANGED vars, << Error(p) >>, Error(p))

Serve ==
  \E p \in NextPacket :
    \/ ServeAuth(p) \/ ServeList(p) \/ ServeDelete(p) \/ ServeRename(p)
    \/ ServeMkdir(p) \/ ServeRmdir(p)
    \/ ServeUploadBegin(p) \/ ServeUploadChunk(p) \/ ServeUploadEnd(p)
    \/ ServeDownload(p)

\* The process dies, the kernel closes its sockets and refuses new connections
\* until somebody starts it again.
ServerDies ==
  /\ "server_crash" \in LinkFaults /\ srv.pc # "down"
  /\ Restart
  /\ srv' = [srv EXCEPT !.pc = "down", !.conn = << >>, !.authed = FALSE,
                        !.out = << >>]
  /\ wire' = [k \in Conn |-> [wire[k] EXCEPT !.sOpen = FALSE, !.up = << >>]]
  /\ backlog' = << >>
  /\ UNCHANGED sdk

ServerStarts ==
  /\ srv.pc = "down"
  /\ \E db \in Databases :
       srv' = [srv EXCEPT !.pc = "accept", !.db = db, !.users = Load(db)]
  /\ UNCHANGED << sdk, wire, backlog, vars >>

ServerStep == Accept \/ ClientGone \/ SendOut \/ Serve

-----------------------------------------------------------------------------
LinkNext ==
  \/ \E c \in Client : ClientStep(c) \/ UserStep(c) \/ Crash(c)
  \/ ServerStep
  \/ ServerDies \/ ServerStarts

LinkSpec == LinkInit /\ [][LinkNext]_allVars

\* The thread of the server and the threads inside a call are scheduled; what a
\* user does next is not under anybody's control.
ScheduledSpec ==
  /\ LinkSpec
  /\ WF_allVars(ServerStep)
  /\ \A c \in Client : WF_allVars(ClientStep(c))

-----------------------------------------------------------------------------
(* What client and server promise together. *)

\* The packets have no call number, so a client takes the next packet for the
\* answer to what it asked last.  That is right only while every packet on its
\* way to a client belongs to the call it is in, and none is left when a call
\* has returned: one packet too many makes every later verdict wrong by one.
RepliesInSync ==
  \A c \in Client :
    sdk[c].state = "AUTHENTICATED" =>
      \A n \in 1..Len(wire[K(c)].down) :
        /\ sdk[c].pc # "idle"
        /\ wire[K(c)].down[n].call = sdk[c].call

\* The two ends agree on whether a connection is authenticated whenever the
\* client is not in the middle of finding out.  `state` and `session` of
\* handleClient belong to one connection, so whoever had the server before
\* does not lend his login to the next client.
BothEndsAgreeOnLogin ==
  \A c \in Client :
    srv.pc = "serve" /\ srv.conn = K(c) /\ sdk[c].pc # "auth"
    => (srv.authed <=> sdk[c].state = "AUTHENTICATED")

\* connect() replaces transport_ and socket_fd_ also while the client has another
\* connection: one it was refused on or, after a second connect(), a working one.
\* Whichever it gives up, on whichever way out, its server is told: a connection
\* the client holds no more has been shut down.  The one thread of the server
\* serves a connection until it is told, so one given up in silence would keep
\* every other client out.  (It may be told and the descriptor still be open:
\* neither ~TlsTransport nor connect() closes the one that socket_fd_ forgets.)
NoPeerIsForgotten ==
  \A k \in Conn : wire[k].cOpen => k \in {K(k[1]), Fresh(k[1])}

Returned(c, pc) ==
  sdk[c].pc = pc /\ sdk'[c].pc = "idle" /\ sdk'[c].status = "OK"

\* When upload() returns SAILOR_OK the file with the declared size and digest
\* is in the storage under its name, whatever uploads others have abandoned on
\* that name before, provided the server that answered still runs.
OkUploadIsStored ==
  [][ \A c \in Client :
        Returned(c, "end") /\ srv.conn = K(c)
        => LET target == Append(sdk[c].req.dir, sdk[c].req.name) IN
           IsFile(tree, target) /\ data[tree[target]] = LocalFile
    ]_allVars

\* When download() returns SAILOR_OK the local copy is the file that has the
\* requested path at that moment.
OkDownloadIsCurrent ==
  [][ \A c \in Client :
        Returned(c, "stream") /\ srv.conn = K(c)
        => LET path == sdk[c].req.path IN
           IsFile(tree, path) /\ data[tree[path]] = sdk[c].local
    ]_allVars

\* When list() returns SAILOR_OK its entries are those that the directory has at
\* that moment: each once, directories as such and files with their size.
OkListIsCurrent ==
  [][ \A c \in Client :
        Returned(c, "simple") /\ sdk[c].req.op = "LIST" /\ srv.conn = K(c)
        => LET path  == sdk[c].req.path
               names == { n \in Name : Append(path, n) \in DOMAIN tree }
               size  == [ n \in names |-> LET i == tree[Append(path, n)] IN
                            IF i = Dir THEN Dir ELSE Len(data[i]) ]
           IN  Received(K(c)).arg = { [name |-> n, size |-> size[n]] : n \in names }
    ]_allVars

\* The row of the database that decides about a user: the last that counts.
LastRow(db, user) ==
  LET counts == { n \in 1..Len(db.rows) :
                    /\ db.rows[n][1] = user
                    /\ db.format = "text" => db.rows[n][2] # NoHash }
  IN  db.rows[CHOOSE n \in counts : \A m \in counts : m <= n]

\* Nobody is logged in but with the password that the last row of the user has
\* in the database the server read when it started; a server that found no
\* database lets nobody in.
LoginIsInDatabase ==
  [][ \A c \in Client :
        /\ sdk[c].pc = "auth" /\ sdk'[c].state = "AUTHENTICATED"
        /\ srv.conn = K(c)
        => /\ srv.db.format # "missing"
           /\ LastRow(srv.db, sdk[c].req.login[1])[2]
                = Digest(sdk[c].req.login[2])
    ]_allVars

\* Whatever the clients send and whenever either side dies, the storage only
\* ever takes steps that Storage has.
StorageSpec == Spec

\* A connection that breaks while connect() logs in is reported: the code after
\* the failed send or receive returns SAILOR_CONNECTION_FAILED.
LossIsReported == \A c \in Client : sdk[c].pc # "stuck"

\* No call blocks for ever, but for connect() when it has locked itself out
\* (LossIsReported).
EveryCallReturns ==
  \A c \in Client :
    sdk[c].pc \notin {"idle", "dead", "stuck"}
    ~> sdk[c].pc \in {"idle", "dead", "stuck"}
=============================================================================
