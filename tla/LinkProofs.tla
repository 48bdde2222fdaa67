----------------------------- MODULE LinkProofs -----------------------------
(***************************************************************************)
(* Theorems about SailorLink for every number of clients, connections and  *)
(* calls, every size of the channels and every set of failures.            *)
(***************************************************************************)
EXTENDS SailorLink, StorageProofs

-----------------------------------------------------------------------------
(* Sequences of packets of which only the order matters. *)

IsSeq(s) == s \in Seq({ s[n] : n \in 1..Len(s) })

LEMMA SeqFacts ==
  /\ IsSeq(<< >>) /\ Len(<< >>) = 0
  /\ \A x : IsSeq(<< x >>) /\ Len(<< x >>) = 1
  /\ \A S : \A s \in Seq(S) : IsSeq(s)
BY DEF IsSeq

LEMMA AnySeq ==
  ASSUME NEW s, IsSeq(s)
  PROVE  /\ Len(s) \in Nat /\ (s = << >> <=> Len(s) = 0)
         /\ \A x : /\ IsSeq(Append(s, x)) /\ Len(Append(s, x)) = Len(s) + 1
                   /\ Append(s, x)[Len(s) + 1] = x
                   /\ \A n \in 1..Len(s) : Append(s, x)[n] = s[n]
         /\ s # << >> =>
              /\ IsSeq(Tail(s)) /\ Len(Tail(s)) = Len(s) - 1
              /\ Head(s) = s[1]
              /\ \A n \in 1..Len(Tail(s)) : Tail(s)[n] = s[n + 1]
<1> DEFINE S == { s[n] : n \in 1..Len(s) }
<1>1. s \in Seq(S)
  BY DEF IsSeq
<1> HIDE DEF S
<1>2. Len(s) \in Nat /\ (s = << >> <=> Len(s) = 0)
  BY <1>1
<1>3. ASSUME NEW x
      PROVE  /\ IsSeq(Append(s, x)) /\ Len(Append(s, x)) = Len(s) + 1
             /\ Append(s, x)[Len(s) + 1] = x
             /\ \A n \in 1..Len(s) : Append(s, x)[n] = s[n]
  <2>1. s \in Seq(S \union {x}) /\ x \in S \union {x}
    BY <1>1
  <2>2. Append(s, x) \in Seq(S \union {x})
    BY <2>1
  <2>3. IsSeq(Append(s, x))
    BY <2>2, SeqFacts
  <2>4. /\ Len(Append(s, x)) = Len(s) + 1 /\ Append(s, x)[Len(s) + 1] = x
        /\ \A n \in 1..Len(s) : Append(s, x)[n] = s[n]
    BY <2>1
  <2> QED
    BY <2>3, <2>4
<1>4. ASSUME s # << >>
      PROVE  /\ IsSeq(Tail(s)) /\ Len(Tail(s)) = Len(s) - 1
             /\ Head(s) = s[1]
             /\ \A n \in 1..Len(Tail(s)) : Tail(s)[n] = s[n + 1]
  <2>1. Tail(s) \in Seq(S)
    BY <1>1, <1>4
  <2>2. IsSeq(Tail(s))
    BY <2>1, SeqFacts
  <2>3. /\ Len(Tail(s)) = Len(s) - 1 /\ Head(s) = s[1]
        /\ \A n \in 1..Len(Tail(s)) : Tail(s)[n] = s[n + 1]
    BY <1>1, <1>2, <1>4
  <2> QED
    BY <2>2, <2>3
<1> QED
  BY <1>2, <1>3, <1>4

LEMMA HeadAndTail ==
  ASSUME NEW S, NEW s \in Seq(S), s # << >>
  PROVE  /\ Head(s) \in S /\ Tail(s) \in Seq(S) /\ Len(Tail(s)) = Len(s) - 1
         /\ Len(s) \in Nat \ {0}
OBVIOUS

LEMMA Concatenation ==
  ASSUME NEW S, NEW s \in Seq(S), NEW t \in Seq(S)
  PROVE  /\ s \o t \in Seq(S) /\ Len(s \o t) = Len(s) + Len(t)
         /\ \A n \in 1..Len(s) : (s \o t)[n] = s[n]
         /\ \A n \in 1..Len(t) : (s \o t)[Len(s) + n] = t[n]
OBVIOUS

LEMMA Listed ==
  ASSUME NEW n \in Nat, NEW f, DOMAIN f = 1..n, f = [i \in 1..n |-> f[i]],
         NEW S, \A i \in 1..n : f[i] \in S
  PROVE  f \in Seq(S) /\ Len(f) = n
OBVIOUS

-----------------------------------------------------------------------------
(***************************************************************************)
(* How the clients, the channels, the backlog and the thread of the server *)
(* hang together, whatever is said over the connections.                   *)
(***************************************************************************)
ClientFields == { "pc", "state", "conn", "socket", "opened", "call", "req",
                  "sent", "meta", "local", "status" }

IsClient(r) ==
  /\ DOMAIN r = ClientFields
  /\ r.pc \in Pc /\ r.status \in Status
  /\ r.state \in {"DISCONNECTED", "CONNECTED_UNAUTHENTICATED", "AUTHENTICATED"}
  /\ r.opened \in 0..MaxConn /\ r.call \in 0..MaxCalls
  /\ r.conn \in 0..r.opened /\ r.socket \in 0..r.opened
  /\ r.sent \in Nat
  /\ r.pc \notin {"idle", "handshake", "dead"} => r.conn # 0
  /\ r.pc \notin {"idle", "dead"} => r.call # 0
  /\ r.pc = "handshake" => r.conn < r.socket
  /\ r.pc # "handshake" => r.socket \in {0, r.conn}
  /\ r.state = "AUTHENTICATED" => r.conn # 0
  /\ r.pc = "dead" => r.conn = 0

\* What client c may have in a channel to the server.
OwnId(c) == {c} \X (1..MaxCalls)

UploadPacket(c) ==
  [ type : {"UPLOAD_BEGIN"}, call : Nat,
    arg  : [id : OwnId(c), begin : UploadBegin] ]
    \union [ type : {"UPLOAD_CHUNK"}, call : Nat,
             arg  : [id : OwnId(c), offset : Offset, chunk : Chunk] ]
    \union [ type : {"UPLOAD_END"}, call : Nat, arg : [id : OwnId(c)] ]

PathPacket ==
  [ type : {"LIST", "DELETE", "MKDIR", "RMDIR", "DOWNLOAD_REQUEST"}, call : Nat,
    arg  : { req \in Requests : req.op \notin {"UPLOAD", "RENAME"} } ]
    \union [ type : {"RENAME"}, call : Nat,
             arg  : { req \in Requests : req.op = "RENAME" } ]

LoginPacket == [ type : {"HELLO"}, call : Nat, arg : {""} ]
                 \union [ type : {"AUTH_REQUEST"}, call : Nat, arg : Logins ]

UpPacket(c) == UploadPacket(c) \union PathPacket \union LoginPacket

\* The server serves connection k; k waits to be accepted.
Serves(k) == srv.pc = "serve" /\ srv.conn = k

Queued(k) == \E n \in 1..Len(backlog) : backlog[n] = k

\* A descriptor that the server still waits for is open.
IsSocket(w) ==
  /\ DOMAIN w = {"up", "down", "cOpen", "fd", "sOpen"}
  /\ w.fd \in BOOLEAN /\ (w.cOpen => w.fd)

IsWire(k) ==
  /\ IsSocket(wire[k])
  /\ wire[k].cOpen \in BOOLEAN /\ wire[k].sOpen \in BOOLEAN
  /\ wire[k].up \in Seq(UpPacket(k[1])) /\ Len(wire[k].up) <= SockBuf
  /\ IsSeq(wire[k].down) /\ Len(wire[k].down) <= SockBuf

\* Where a connection is with the server.
Held(k) ==
  /\ Serves(k) => wire[k].sOpen /\ ~Queued(k)
  /\ Queued(k) =>
       /\ wire[k].sOpen /\ wire[k].down = << >>
       /\ Len(wire[k].up) = 1 /\ wire[k].up[1].type = "HELLO"
       /\ wire[k].cOpen => sdk[k[1]].pc = "handshake" /\ sdk[k[1]].socket = k[2]
  /\ k[2] > sdk[k[1]].opened => ~Serves(k) /\ ~Queued(k)

IsServer ==
  /\ DOMAIN srv = {"pc", "conn", "authed", "out", "users", "db"}
  /\ srv.pc \in {"accept", "serve", "down"} /\ srv.authed \in BOOLEAN
  /\ IsSeq(srv.out)
  /\ srv.pc = "serve" => srv.conn \in Conn
  /\ srv.pc # "serve" => srv.out = << >>
  /\ backlog \in Seq(Conn)
  /\ \A m, n \in 1..Len(backlog) : backlog[m] = backlog[n] => m = n

\* The connection a client sets up waits, or is accepted with nothing said but
\* hello, or is lost.
Greets(c) ==
  sdk[c].pc = "handshake" =>
    LET k == Fresh(c) IN
    /\ wire[k].cOpen
    /\ \/ Queued(k)
       \/ /\ Serves(k) /\ ~srv.authed /\ srv.out = << >>
          /\ wire[k].up = << >> /\ Len(wire[k].down) = 1
       \/ /\ ~wire[k].sOpen
          /\ wire[k].up = << >> /\ Len(wire[k].down) <= 1

\* The connection a client has is the one that is served, or is lost.
Linked(c) ==
  sdk[c].conn # 0 =>
    LET k == K(c) IN
    /\ wire[k].cOpen
    /\ wire[k].sOpen => Serves(k)
    /\ ~wire[k].sOpen /\ sdk[c].pc # "stuck" => wire[k].up = << >>
    /\ sdk[c].pc = "stuck" => ~wire[k].sOpen

LinkInv ==
  /\ DOMAIN sdk = Client /\ DOMAIN wire = Conn
  /\ \A c \in Client : IsClient(sdk[c]) /\ Greets(c) /\ Linked(c)
  /\ \A k \in Conn : IsWire(k) /\ Held(k)
  /\ IsServer

-----------------------------------------------------------------------------
(* What one client does inside a call. *)

\* The connections of client c are in Conn, and the one it has is not queued.
LEMMA OwnConnections ==
  ASSUME LinkInv, NEW c \in Client
  PROVE  /\ sdk[c].conn # 0 => K(c) \in Conn /\ ~Queued(K(c)) /\ IsWire(K(c))
         /\ sdk[c].pc = "handshake" => /\ Fresh(c) \in Conn /\ Fresh(c) # K(c)
                                      /\ IsWire(Fresh(c))
<1>1. IsClient(sdk[c])
  BY DEF LinkInv
<1>2. sdk[c].conn # 0 => K(c) \in Conn
  <2>1. sdk[c].conn # 0 => sdk[c].conn \in 1..MaxConn
    BY <1>1, LinkAssumption DEF IsClient
  <2> QED
    BY <2>1 DEF K, Conn
<1>3. sdk[c].pc = "handshake" => Fresh(c) \in Conn /\ Fresh(c) # K(c)
  <2>1. sdk[c].pc = "handshake" => sdk[c].socket \in 1..MaxConn
    BY <1>1, LinkAssumption DEF IsClient
  <2>2. sdk[c].pc = "handshake" => sdk[c].socket # sdk[c].conn
    BY <1>1, LinkAssumption DEF IsClient
  <2> QED
    BY <2>1, <2>2 DEF K, Fresh, Conn
<1>4. ASSUME sdk[c].conn # 0, Queued(K(c)) PROVE FALSE
  <2>1. wire[K(c)].cOpen
    BY <1>4 DEF LinkInv, Linked
  <2>2. sdk[c].pc = "handshake" /\ sdk[c].socket = sdk[c].conn
    <3>1. Held(K(c)) /\ K(c)[1] = c /\ K(c)[2] = sdk[c].conn
      BY <1>2, <1>4 DEF LinkInv, K
    <3> QED
      BY <1>4, <2>1, <3>1 DEF Held
  <2> QED
    BY <1>1, <2>2, LinkAssumption DEF IsClient
<1> QED
  BY <1>2, <1>3, <1>4 DEF LinkInv

LEMMA CallFrame ==
  ASSUME LinkInv, NEW c \in Client, NEW k \in Conn, k = K(c),
         sdk[c].pc \notin {"handshake", "dead", "stuck"}, sdk[c].conn # 0,
         DOMAIN sdk' = Client, \A e \in Client \ {c} : sdk'[e] = sdk[e],
         IsClient(sdk'[c]), sdk'[c].pc \notin {"handshake", "dead"},
         sdk'[c].conn = sdk[c].conn, sdk'[c].opened = sdk[c].opened,
         sdk'[c].pc = "stuck" => ~wire[k].sOpen,
         DOMAIN wire' = Conn, \A j \in Conn \ {k} : wire'[j] = wire[j],
         IsWire(k)',
         wire'[k].cOpen = wire[k].cOpen, wire'[k].sOpen = wire[k].sOpen,
         wire[k].sOpen \/ wire'[k].up = << >>,
         UNCHANGED << backlog, srv >>
  PROVE  LinkInv'
<1>1. ~Queued(k) /\ K(c)' = k /\ k[1] = c
  BY OwnConnections DEF K
<1>2. \A j : (Queued(j)' <=> Queued(j)) /\ (Serves(j)' <=> Serves(j))
  BY DEF Queued, Serves
<1>3. ASSUME NEW j \in Conn PROVE IsWire(j)' /\ Held(j)'
  <2>1. j[1] \in Client /\ IsWire(j) /\ Held(j)
    BY DEF LinkInv, Conn
  <2>2. sdk'[j[1]].opened = sdk[j[1]].opened
    BY <2>1
  <2>3. CASE j = k
    <3>1. Held(j)'
      BY <1>1, <1>2, <2>1, <2>2, <2>3 DEF Held
    <3> QED
      BY <2>3, <3>1
  <2>4. CASE j # k
    <3>1. wire'[j] = wire[j]
      BY <2>4
    <3>2. Queued(j) /\ wire[j].cOpen => sdk'[j[1]] = sdk[j[1]]
      BY <2>1 DEF Held
    <3> QED
      BY <1>2, <2>1, <2>2, <3>1, <3>2 DEF Held, IsSocket, IsWire
  <2> QED
    BY <2>3, <2>4
<1>4. ASSUME NEW e \in Client PROVE IsClient(sdk'[e]) /\ Greets(e)' /\ Linked(e)'
  <2>1. CASE e = c
    BY <1>1, <1>2, <2>1 DEF LinkInv, Linked, Greets
  <2>2. CASE e # c
    <3>1. /\ sdk'[e] = sdk[e] /\ IsClient(sdk[e])
          /\ K(e)' = K(e) /\ Fresh(e)' = Fresh(e)
          /\ K(e) # k /\ Fresh(e) # k
      BY <2>2 DEF LinkInv, K, Fresh
    <3>2. sdk[e].conn # 0 => wire'[K(e)] = wire[K(e)]
      BY <3>1, OwnConnections
    <3>3. sdk[e].pc = "handshake" => wire'[Fresh(e)] = wire[Fresh(e)]
      BY <3>1, OwnConnections
    <3> QED
      BY <1>2, <3>1, <3>2, <3>3 DEF LinkInv, Linked, Greets
  <2> QED
    BY <2>1, <2>2
<1>5. IsServer'
  BY DEF LinkInv, IsServer
<1> QED
  BY <1>3, <1>4, <1>5 DEF LinkInv

\* What a send and a receive on the client's end do to its channels.
LEMMA SendEffect ==
  ASSUME LinkInv, NEW k \in Conn, CanSend(k),
         NEW p \in UpPacket(k[1]), Send(k, p)
  PROVE  /\ DOMAIN wire' = Conn /\ \A j \in Conn \ {k} : wire'[j] = wire[j]
         /\ IsWire(k)' /\ wire'[k].up = Append(wire[k].up, p)
         /\ wire'[k].down = wire[k].down
         /\ wire'[k].cOpen = wire[k].cOpen /\ wire'[k].sOpen = wire[k].sOpen
<1>1. IsWire(k) /\ DOMAIN wire = Conn
  BY DEF LinkInv
<1>2. /\ Append(wire[k].up, p) \in Seq(UpPacket(k[1]))
      /\ Len(Append(wire[k].up, p)) <= SockBuf
  <2>1. wire[k].up \in Seq(UpPacket(k[1])) /\ Len(wire[k].up) < SockBuf
    BY <1>1 DEF IsSocket, IsWire, CanSend
  <2> QED
    BY <2>1, LinkAssumption
<1> QED
  BY <1>1, <1>2 DEF Send, IsSocket, IsWire

LEMMA ReceiveEffect ==
  ASSUME LinkInv, NEW k \in Conn, CanReceive(k), Consume(k)
  PROVE  /\ DOMAIN wire' = Conn /\ \A j \in Conn \ {k} : wire'[j] = wire[j]
         /\ IsWire(k)' /\ wire'[k].down = Tail(wire[k].down)
         /\ wire'[k].up = wire[k].up
         /\ wire'[k].cOpen = wire[k].cOpen /\ wire'[k].sOpen = wire[k].sOpen
<1>1. IsWire(k) /\ DOMAIN wire = Conn
  BY DEF LinkInv
<1>2. IsSeq(Tail(wire[k].down)) /\ Len(Tail(wire[k].down)) <= SockBuf
  BY <1>1, AnySeq, LinkAssumption DEF IsSocket, IsWire, CanReceive
<1> QED
  BY <1>1, <1>2 DEF Consume, IsSocket, IsWire

\* The steps of a client in a call that receive a packet and neither send one nor
\* lose the connection.
LEMMA ReceivingKeepsLinkInv ==
  ASSUME LinkInv, NEW c \in Client, sdk[c].pc \notin {"idle", "handshake", "dead", "stuck"},
         CanReceive(K(c)), Consume(K(c)), UNCHANGED << backlog, srv >>,
         DOMAIN sdk' = Client, \A e \in Client \ {c} : sdk'[e] = sdk[e],
         IsClient(sdk'[c]), sdk'[c].pc \notin {"handshake", "dead", "stuck"},
         sdk'[c].conn = sdk[c].conn, sdk'[c].opened = sdk[c].opened
  PROVE  LinkInv'
<1>1. IsClient(sdk[c]) /\ sdk[c].conn # 0 /\ Linked(c)
  BY DEF LinkInv, IsClient
<1>2. PICK k \in Conn : k = K(c)
  BY <1>1, OwnConnections
<1>3. wire[k].sOpen \/ wire[k].up = << >>
  BY <1>1, <1>2 DEF Linked
<1> QED
  BY <1>1, <1>2, <1>3, ReceiveEffect, CallFrame

LEMMA ReturnEffect ==
  ASSUME LinkInv, NEW c \in Client, NEW status \in Status, Return(c, status),
         sdk[c].pc \notin {"handshake", "dead"}
  PROVE  /\ DOMAIN sdk' = Client /\ \A e \in Client \ {c} : sdk'[e] = sdk[e]
         /\ IsClient(sdk'[c]) /\ sdk'[c].pc = "idle" /\ sdk'[c].status = status
         /\ sdk'[c].state = sdk[c].state /\ sdk'[c].call = sdk[c].call
         /\ sdk'[c].conn = sdk[c].conn /\ sdk'[c].opened = sdk[c].opened
BY DEF LinkInv, Return, IsClient, ClientFields, Pc

LEMMA AnswersKeepLinkInv ==
  ASSUME LinkInv, NEW c \in Client,
         \/ AuthAnswered(c) \/ SimpleAnswered(c) \/ UploadBegun(c)
         \/ UploadEnded(c) \/ DownloadBegun(c) \/ StreamReceived(c)
  PROVE  LinkInv'
<1>1. IsClient(sdk[c]) /\ DOMAIN sdk = Client
  BY DEF LinkInv
<1>2. CASE AuthAnswered(c)
  <2>1. CASE Return(c, "AUTH_FAILED")
    BY <1>1, <1>2, <2>1, ReturnEffect, ReceivingKeepsLinkInv
       DEF AuthAnswered, Status
  <2>2. CASE sdk' = [sdk EXCEPT ![c].pc = "idle", ![c].state = "AUTHENTICATED",
                               ![c].req = NoRequest, ![c].status = "OK"]
    <3>1. IsClient(sdk'[c]) /\ sdk'[c].conn = sdk[c].conn
          /\ sdk'[c].opened = sdk[c].opened /\ sdk'[c].pc = "idle"
      BY <1>1, <1>2, <2>2 DEF AuthAnswered, IsClient, ClientFields, Pc, Status
    <3> QED
      BY <1>1, <1>2, <2>2, <3>1, ReceivingKeepsLinkInv DEF AuthAnswered
  <2> QED
    BY <1>2, <2>1, <2>2 DEF AuthAnswered
<1>3. CASE SimpleAnswered(c)
  <2>1. PICK status \in {"OK", "OPERATION_FAILED"} : Return(c, status)
    BY <1>3 DEF SimpleAnswered
  <2> QED
    BY <1>3, <2>1, ReturnEffect, ReceivingKeepsLinkInv DEF SimpleAnswered, Status
<1>4. CASE UploadBegun(c)
  <2>1. CASE GoTo(c, "chunks")
    <3>1. IsClient(sdk'[c]) /\ sdk'[c].conn = sdk[c].conn
          /\ sdk'[c].opened = sdk[c].opened /\ sdk'[c].pc = "chunks"
      BY <1>1, <1>4, <2>1 DEF UploadBegun, GoTo, IsClient, ClientFields, Pc
    <3> QED
      BY <1>1, <1>4, <2>1, <3>1, ReceivingKeepsLinkInv DEF UploadBegun, GoTo
  <2>2. ASSUME NEW status \in {"FILE_NOT_FOUND", "OPERATION_FAILED"},
               Return(c, status)
        PROVE  LinkInv'
    BY <1>4, <2>2, ReturnEffect, ReceivingKeepsLinkInv DEF UploadBegun, Status
  <2> QED
    BY <1>4, <2>1, <2>2 DEF UploadBegun
<1>5. CASE UploadEnded(c)
  <2>1. PICK status \in {"OK", "INTERNAL_ERROR"} : Return(c, status)
    BY <1>5 DEF UploadEnded
  <2> QED
    BY <1>5, <2>1, ReturnEffect, ReceivingKeepsLinkInv DEF UploadEnded, Status
<1>6. CASE DownloadBegun(c)
  <2>1. ASSUME NEW meta, sdk' = [sdk EXCEPT ![c].pc = "stream", ![c].meta = meta]
        PROVE  LinkInv'
    <3>1. IsClient(sdk'[c]) /\ sdk'[c].conn = sdk[c].conn
          /\ sdk'[c].opened = sdk[c].opened /\ sdk'[c].pc = "stream"
      BY <1>1, <1>6, <2>1 DEF DownloadBegun, IsClient, ClientFields, Pc
    <3> QED
      BY <1>1, <1>6, <2>1, <3>1, ReceivingKeepsLinkInv DEF DownloadBegun
  <2>2. ASSUME NEW status \in {"PERMISSION_DENIED", "FILE_NOT_FOUND"},
               Return(c, status)
        PROVE  LinkInv'
    BY <1>6, <2>2, ReturnEffect, ReceivingKeepsLinkInv DEF DownloadBegun, Status
  <2> QED
    BY <1>6, <2>1, <2>2 DEF DownloadBegun
<1>7. CASE StreamReceived(c)
  <2>1. ASSUME NEW local, sdk' = [sdk EXCEPT ![c].local = local]
        PROVE  LinkInv'
    <3>1. IsClient(sdk'[c]) /\ sdk'[c].conn = sdk[c].conn
          /\ sdk'[c].opened = sdk[c].opened /\ sdk'[c].pc = "stream"
      BY <1>1, <1>7, <2>1 DEF StreamReceived, IsClient, ClientFields, Pc
    <3> QED
      BY <1>1, <1>7, <2>1, <3>1, ReceivingKeepsLinkInv DEF StreamReceived
  <2>2. ASSUME NEW status \in {"OK", "OPERATION_FAILED", "INTERNAL_ERROR"},
               Return(c, status)
        PROVE  LinkInv'
    BY <1>7, <2>2, ReturnEffect, ReceivingKeepsLinkInv DEF StreamReceived, Status
  <2> QED
    BY <1>7, <2>1, <2>2 DEF StreamReceived
<1> QED
  BY <1>2, <1>3, <1>4, <1>5, <1>6, <1>7

\* The steps that find the connection lost.
LEMMA LossKeepsLinkInv ==
  ASSUME LinkInv, NEW c \in Client, AuthLost(c) \/ CallLost(c) \/ SendFails(c)
  PROVE  LinkInv'
<1>1. IsClient(sdk[c]) /\ DOMAIN sdk = Client /\ DOMAIN wire = Conn /\ Linked(c)
  BY DEF LinkInv
<1>2. /\ sdk[c].pc \notin {"idle", "handshake", "dead", "stuck"} /\ sdk[c].conn # 0
      /\ ~wire[K(c)].sOpen /\ UNCHANGED << wire, backlog, srv >>
  BY <1>1 DEF AuthLost, CallLost, SendFails, Lost, IsClient
<1>3. PICK k \in Conn : k = K(c)
  BY <1>2, OwnConnections
<1>4. IsWire(k)' /\ wire[k].up = << >>
  <2>1. IsWire(k)
    BY DEF LinkInv
  <2> QED
    BY <1>1, <1>2, <1>3, <2>1 DEF IsSocket, IsWire, Linked
<1>5. /\ DOMAIN sdk' = Client /\ \A e \in Client \ {c} : sdk'[e] = sdk[e]
      /\ IsClient(sdk'[c]) /\ sdk'[c].pc \in {"idle", "stuck"}
      /\ sdk'[c].conn = sdk[c].conn /\ sdk'[c].opened = sdk[c].opened
  <2>1. CASE AuthLost(c)
    BY <1>1, <2>1 DEF AuthLost, GoTo, IsClient, ClientFields, Pc
  <2>2. CASE CallLost(c) \/ SendFails(c)
    <3>1. PICK status \in Status : Return(c, status)
      BY <2>2 DEF CallLost, SendFails, LostStatus, Status
    <3> QED
      BY <1>2, <3>1, ReturnEffect
  <2> QED
    BY <2>1, <2>2
<1> QED
  BY <1>1, <1>2, <1>3, <1>4, <1>5, CallFrame

-----------------------------------------------------------------------------
(* Every packet a client sends is one that Storage is asked to take. *)

LEMMA ChunkIsUpPacket ==
  ASSUME NEW c \in Client, IsClient(sdk[c]), sdk[c].call # 0,
         sdk[c].sent < Len(LocalFile), NEW chunk \in ReadChunk(sdk[c].sent)
  PROVE  /\ Packet("UPLOAD_CHUNK", sdk[c].call,
                   [ id |-> << c, sdk[c].call >>, offset |-> sdk[c].sent,
                     chunk |-> chunk ]) \in UpPacket(c)
         /\ Len(chunk) \in Nat
<1>1. << c, sdk[c].call >> \in OwnId(c) /\ sdk[c].call \in Nat
  BY LinkAssumption DEF IsClient, OwnId
<1>2. sdk[c].sent \in 0..(Len(LocalFile) - 1)
  BY LinkAssumption DEF IsClient
<1>3. sdk[c].sent \in Offset /\ chunk \in Chunk
  BY <1>2, RequestAssumption
<1>4. Len(chunk) \in Nat
  BY <1>3, StorageAssumption
<1> QED
  BY <1>1, <1>3, <1>4 DEF Packet, UpPacket, UploadPacket

LEMMA EndIsUpPacket ==
  ASSUME NEW c \in Client, IsClient(sdk[c]), sdk[c].call # 0
  PROVE  Packet("UPLOAD_END", sdk[c].call, [id |-> << c, sdk[c].call >>])
           \in UpPacket(c)
<1>1. << c, sdk[c].call >> \in OwnId(c) /\ sdk[c].call \in Nat
  BY LinkAssumption DEF IsClient, OwnId
<1> QED
  BY <1>1 DEF Packet, UpPacket, UploadPacket

LEMMA OpeningIsUpPacket ==
  ASSUME NEW c \in Client, IsClient(sdk[c]), sdk[c].call < MaxCalls,
         NEW req \in Requests
  PROVE  Opening(c, req) \in UpPacket(c)
<1>1. NextId(c) \in OwnId(c) /\ sdk[c].call + 1 \in Nat
  BY LinkAssumption DEF IsClient, OwnId, NextId
<1>2. CASE req.op = "UPLOAD"
  <2>1. Declared(req) \in UploadBegin
    BY <1>2, RequestAssumption
  <2> QED
    BY <1>1, <1>2, <2>1 DEF Opening, Packet, UpPacket, UploadPacket
<1>3. CASE req.op # "UPLOAD"
  <2>1. req.op \in {"LIST", "DELETE", "MKDIR", "RMDIR", "DOWNLOAD", "RENAME"}
    BY <1>3, RequestAssumption
  <2> QED
    BY <1>1, <1>3, <2>1 DEF Opening, Packet, UpPacket, PathPacket
<1> QED
  BY <1>2, <1>3

LEMMA SendingKeepsLinkInv ==
  ASSUME LinkInv, NEW c \in Client, SendChunk(c) \/ SendEnd(c)
  PROVE  LinkInv'
<1>1. IsClient(sdk[c]) /\ DOMAIN sdk = Client /\ Linked(c)
  BY DEF LinkInv
<1>2. sdk[c].pc = "chunks" /\ sdk[c].conn # 0 /\ sdk[c].call # 0 /\ CanSend(K(c))
  BY <1>1 DEF SendChunk, SendEnd, IsClient
<1>3. PICK k \in Conn : k = K(c)
  BY <1>2, OwnConnections
<1>4. k[1] = c
  BY <1>3 DEF K
<1>5. CASE SendChunk(c)
  <2>1. PICK chunk \in ReadChunk(sdk[c].sent) :
          /\ Send(k, Packet("UPLOAD_CHUNK", sdk[c].call,
                            [ id |-> << c, sdk[c].call >>,
                              offset |-> sdk[c].sent, chunk |-> chunk ]))
          /\ sdk' = [sdk EXCEPT ![c].sent = @ + Len(chunk)]
    BY <1>3, <1>5 DEF SendChunk
  <2>2. /\ Packet("UPLOAD_CHUNK", sdk[c].call,
                  [ id |-> << c, sdk[c].call >>, offset |-> sdk[c].sent,
                    chunk |-> chunk ]) \in UpPacket(k[1])
        /\ Len(chunk) \in Nat
    BY <1>1, <1>2, <1>4, <1>5, ChunkIsUpPacket DEF SendChunk
  <2>3. /\ IsClient(sdk'[c]) /\ sdk'[c].pc = "chunks"
        /\ sdk'[c].conn = sdk[c].conn /\ sdk'[c].opened = sdk[c].opened
    BY <1>1, <1>2, <2>1, <2>2 DEF IsClient, ClientFields, Pc
  <2> QED
    BY <1>1, <1>2, <1>3, <1>5, <2>1, <2>2, <2>3, SendEffect, CallFrame
       DEF SendChunk, CanSend
<1>6. CASE SendEnd(c)
  <2>1. Packet("UPLOAD_END", sdk[c].call, [id |-> << c, sdk[c].call >>])
          \in UpPacket(k[1])
    BY <1>1, <1>2, <1>4, EndIsUpPacket
  <2>2. /\ IsClient(sdk'[c]) /\ sdk'[c].pc = "end"
        /\ sdk'[c].conn = sdk[c].conn /\ sdk'[c].opened = sdk[c].opened
    BY <1>1, <1>2, <1>6 DEF SendEnd, GoTo, IsClient, ClientFields, Pc
  <2> QED
    BY <1>1, <1>2, <1>3, <1>6, <2>1, <2>2, SendEffect, CallFrame
       DEF SendEnd, GoTo, CanSend
<1> QED
  BY <1>5, <1>6

LEMMA CallKeepsLinkInv ==
  ASSUME LinkInv, NEW c \in Client, NEW req \in Requests, Call(c, req)
  PROVE  LinkInv'
<1>1. IsClient(sdk[c]) /\ DOMAIN sdk = Client /\ DOMAIN wire = Conn /\ Linked(c)
  BY DEF LinkInv
<1>2. sdk[c].pc = "idle" /\ sdk[c].conn # 0 /\ sdk[c].call < MaxCalls
  BY <1>1 DEF Call, IsClient
<1>3. PICK k \in Conn : k = K(c)
  BY <1>2, OwnConnections
<1>4. k[1] = c
  BY <1>3 DEF K
<1>5. CASE /\ CanSend(k) /\ Send(k, Opening(c, req))
           /\ sdk' = [sdk EXCEPT ![c].pc = Sdk(req.op), ![c].req = req,
                                 ![c].call = @ + 1]
  <2>1. Opening(c, req) \in UpPacket(k[1])
    BY <1>1, <1>2, <1>4, OpeningIsUpPacket
  <2>2. Sdk(req.op) \in {"begin", "request", "simple"}
    BY DEF Sdk
  <2>3. /\ IsClient(sdk'[c]) /\ sdk'[c].pc \in {"begin", "request", "simple"}
        /\ sdk'[c].conn = sdk[c].conn /\ sdk'[c].opened = sdk[c].opened
    BY <1>1, <1>2, <1>5, <2>2, LinkAssumption DEF IsClient, ClientFields, Pc
  <2> QED
    BY <1>1, <1>2, <1>3, <1>5, <2>1, <2>3, SendEffect, CallFrame
       DEF Call, CanSend
<1>6. CASE /\ ~wire[k].sOpen /\ UNCHANGED wire
           /\ sdk' = [sdk EXCEPT ![c].call = @ + 1,
                                 ![c].status = "CONNECTION_FAILED"]
  <2>1. /\ IsClient(sdk'[c]) /\ sdk'[c].pc = "idle"
        /\ sdk'[c].conn = sdk[c].conn /\ sdk'[c].opened = sdk[c].opened
    BY <1>1, <1>2, <1>6, LinkAssumption DEF IsClient, ClientFields, Status
  <2>2. IsWire(k)' /\ wire[k].up = << >>
    <3>1. IsWire(k)
      BY DEF LinkInv
    <3> QED
      BY <1>1, <1>2, <1>3, <1>6, <3>1 DEF IsSocket, IsWire, Linked
  <2> QED
    BY <1>1, <1>2, <1>3, <1>6, <2>1, <2>2, CallFrame DEF Call
<1> QED
  BY <1>3, <1>5, <1>6 DEF Call

-----------------------------------------------------------------------------
(* A client sets up its connection or drops it. *)

LEMMA ConnectionFrame ==
  ASSUME LinkInv, NEW c \in Client,
         DOMAIN sdk' = Client, \A e \in Client \ {c} : sdk'[e] = sdk[e],
         IsClient(sdk'[c]), Greets(c)', Linked(c)',
         DOMAIN wire' = Conn,
         \A j \in Conn : j[1] # c =>
           wire'[j] = wire[j] /\ (Queued(j)' <=> Queued(j)),
         \A j \in Conn : j[1] = c => IsWire(j)' /\ Held(j)',
         UNCHANGED srv, IsServer'
  PROVE  LinkInv'
<1>1. \A j : Serves(j)' <=> Serves(j)
  BY DEF Serves
<1>2. ASSUME NEW j \in Conn PROVE IsWire(j)' /\ Held(j)'
  <2>1. CASE j[1] # c
    <3>1. IsWire(j) /\ Held(j) /\ j[1] \in Client
      BY DEF LinkInv, Conn
    <3>2. wire'[j] = wire[j] /\ sdk'[j[1]] = sdk[j[1]]
      BY <2>1, <3>1
    <3> QED
      BY <1>1, <2>1, <3>1, <3>2 DEF IsSocket, IsWire, Held
  <2> QED
    BY <2>1
<1>3. ASSUME NEW e \in Client PROVE IsClient(sdk'[e]) /\ Greets(e)' /\ Linked(e)'
  <2>1. CASE e # c
    <3>1. /\ sdk'[e] = sdk[e] /\ IsClient(sdk[e]) /\ Greets(e) /\ Linked(e)
          /\ K(e)' = K(e) /\ Fresh(e)' = Fresh(e)
          /\ K(e)[1] = e /\ Fresh(e)[1] = e
      BY <2>1 DEF LinkInv, K, Fresh
    <3>2. sdk[e].conn # 0 => wire'[K(e)] = wire[K(e)]
      BY <2>1, <3>1, OwnConnections
    <3>3. sdk[e].pc = "handshake" =>
            wire'[Fresh(e)] = wire[Fresh(e)]
            /\ (Queued(Fresh(e))' <=> Queued(Fresh(e)))
      <4> SUFFICES ASSUME sdk[e].pc = "handshake"
                   PROVE  /\ wire'[Fresh(e)] = wire[Fresh(e)]
                          /\ Queued(Fresh(e))' <=> Queued(Fresh(e))
        OBVIOUS
      <4>1. PICK j \in Conn : j = Fresh(e)
        BY OwnConnections
      <4>2. (Queued(j)' <=> Queued(j)) /\ wire'[j] = wire[j]
        BY <2>1, <3>1, <4>1
      <4>3. j' = Fresh(e)'
        BY <3>1, <4>1
      <4> QED
        BY <4>1, <4>2, <4>3 DEF Queued
    <3> QED
      BY <1>1, <3>1, <3>2, <3>3 DEF Linked, Greets, Serves
  <2> QED
    BY <2>1
<1> QED
  BY <1>2, <1>3 DEF LinkInv

\* A connection that waits belongs to a client in its handshake or is abandoned.
LEMMA QueuedIsAbandoned ==
  ASSUME LinkInv, NEW j \in Conn, Queued(j),
         sdk[j[1]].pc # "handshake" \/ sdk[j[1]].socket # j[2]
  PROVE  ~wire[j].cOpen
BY DEF LinkInv, Held

LEMMA HangupEffect ==
  ASSUME NEW ks, NEW closed, NEW j \in Conn, IsWire(j), LinkInv
  PROVE  /\ IsSocket(Hangup(ks, closed)[j])
         /\ Hangup(ks, closed)[j].up = wire[j].up
         /\ Hangup(ks, closed)[j].down = wire[j].down
         /\ Hangup(ks, closed)[j].sOpen = wire[j].sOpen
         /\ Hangup(ks, closed)[j].cOpen = (wire[j].cOpen /\ j \notin ks)
         /\ Hangup(ks, closed)[j].cOpen \in BOOLEAN
         /\ j \notin ks => Hangup(ks, closed)[j] = wire[j]
BY DEF Hangup, IsSocket, IsWire

\* A client that hangs up connections of its own and is left with none.
LEMMA HangingUpKeepsLinkInv ==
  ASSUME LinkInv, NEW c \in Client,
         DOMAIN sdk' = Client, \A e \in Client \ {c} : sdk'[e] = sdk[e],
         IsClient(sdk'[c]), sdk'[c].pc # "handshake", sdk'[c].conn = 0,
         sdk'[c].opened = sdk[c].opened,
         NEW ks \in SUBSET Conn, NEW closed, wire' = Hangup(ks, closed),
         \A j \in ks : j[1] = c,
         sdk[c].pc # "idle" => \A j \in Conn : j[1] = c => j \in ks,
         UNCHANGED << backlog, srv >>
  PROVE  LinkInv'
<1>1. DOMAIN wire' = Conn /\ IsServer
  BY DEF Hangup, LinkInv
<1>2. \A j : (Queued(j)' <=> Queued(j)) /\ (Serves(j)' <=> Serves(j))
  BY DEF Queued, Serves
<1>3. ASSUME NEW j \in Conn, j[1] # c PROVE wire'[j] = wire[j]
  <2>1. IsWire(j) /\ j \notin ks
    BY <1>3 DEF LinkInv
  <2> QED
    BY <2>1, HangupEffect
<1>4. ASSUME NEW j \in Conn, j[1] = c PROVE IsWire(j)' /\ Held(j)'
  <2>1. IsWire(j) /\ Held(j)
    BY DEF LinkInv
  <2>2. /\ IsSocket(wire'[j])
        /\ wire'[j].up = wire[j].up /\ wire'[j].down = wire[j].down
        /\ wire'[j].sOpen = wire[j].sOpen /\ wire'[j].cOpen \in BOOLEAN
        /\ wire'[j].cOpen => wire[j].cOpen /\ j \notin ks
    BY <2>1, HangupEffect
  <2>3. Queued(j) => ~wire'[j].cOpen
    BY <1>4, <2>2, QueuedIsAbandoned
  <2>4. sdk'[j[1]].opened = sdk[j[1]].opened
    BY <1>4
  <2> QED
    BY <1>2, <2>1, <2>2, <2>3, <2>4 DEF IsSocket, IsWire, Held
<1>5. Greets(c)' /\ Linked(c)' /\ IsServer'
  BY <1>1 DEF Greets, Linked, IsServer
<1> QED
  BY <1>1, <1>2, <1>3, <1>4, <1>5, ConnectionFrame

LEMMA DroppingKeepsLinkInv ==
  ASSUME LinkInv, NEW c \in Client, Disconnect(c) \/ Crash(c)
  PROVE  LinkInv'
<1>1. IsClient(sdk[c]) /\ DOMAIN sdk = Client
  BY DEF LinkInv
<1>2. /\ DOMAIN sdk' = Client /\ \A e \in Client \ {c} : sdk'[e] = sdk[e]
      /\ IsClient(sdk'[c]) /\ sdk'[c].pc # "handshake" /\ sdk'[c].conn = 0
      /\ sdk'[c].opened = sdk[c].opened
  <2>1. CASE Disconnect(c)
    BY <1>1, <2>1 DEF Disconnect, IsClient, ClientFields, Status
  <2>2. CASE Crash(c)
    BY <1>1, <2>2, LinkAssumption
       DEF Crash, NewClient, IsClient, ClientFields, Status, Pc
  <2> QED
    BY <2>1, <2>2
<1>3. \E ks \in SUBSET Conn : \E closed :
        /\ wire' = Hangup(ks, closed) /\ \A j \in ks : j[1] = c
        /\ sdk[c].pc # "idle" => \A j \in Conn : j[1] = c => j \in ks
  <2>1. CASE Disconnect(c)
    <3>1. Hangup({K(c), Fresh(c)}, {Fresh(c)})
            = Hangup({K(c), Fresh(c)} \intersect Conn, {Fresh(c)})
      BY DEF Hangup
    <3> QED
      BY <2>1, <3>1 DEF Disconnect, K, Fresh
  <2>2. CASE Crash(c)
    BY <2>2 DEF Crash, ProcessEnds
  <2> QED
    BY <2>1, <2>2
<1>4. UNCHANGED << backlog, srv >>
  BY DEF Disconnect, Crash
<1> QED
  BY <1>2, <1>3, <1>4, HangingUpKeepsLinkInv

LEMMA HandshakeFailureKeepsLinkInv ==
  ASSUME LinkInv, NEW c \in Client, HandshakeFails(c)
  PROVE  LinkInv'
<1>1. IsClient(sdk[c]) /\ DOMAIN sdk = Client /\ IsServer /\ Linked(c)
  BY DEF LinkInv
<1>2. PICK k \in Conn : k = Fresh(c) /\ k # K(c) /\ k[1] = c
  BY OwnConnections DEF HandshakeFails, Fresh
<1>3. /\ DOMAIN sdk' = Client /\ \A e \in Client \ {c} : sdk'[e] = sdk[e]
      /\ IsClient(sdk'[c]) /\ sdk'[c].pc = "idle" /\ sdk'[c].conn = sdk[c].conn
      /\ sdk'[c].opened = sdk[c].opened
  BY <1>1 DEF HandshakeFails, IsClient, ClientFields, Status, Pc
<1>4. /\ wire' = Hangup({k}, {k}) /\ DOMAIN wire' = Conn
      /\ UNCHANGED << backlog, srv >> /\ ~wire[k].sOpen
  BY <1>2 DEF Hangup, HandshakeFails, Lost
<1>5. \A j : (Queued(j)' <=> Queued(j)) /\ (Serves(j)' <=> Serves(j))
  BY <1>4 DEF Queued, Serves
<1>6. ASSUME NEW j \in Conn, j # k PROVE wire'[j] = wire[j]
  BY <1>4, <1>6, HangupEffect DEF LinkInv
<1>7. ~Queued(k)
  BY <1>4 DEF LinkInv, Held
<1>8. ASSUME NEW j \in Conn, j[1] = c PROVE IsWire(j)' /\ Held(j)'
  <2>1. IsWire(j) /\ Held(j)
    BY DEF LinkInv
  <2>2. /\ IsSocket(wire'[j])
        /\ wire'[j].up = wire[j].up /\ wire'[j].down = wire[j].down
        /\ wire'[j].sOpen = wire[j].sOpen /\ wire'[j].cOpen \in BOOLEAN
        /\ wire'[j].cOpen => wire[j].cOpen
    BY <1>4, <2>1, HangupEffect
  <2>3. Queued(j) => ~wire[j].cOpen
    <3> SUFFICES ASSUME Queued(j) PROVE ~wire[j].cOpen
      OBVIOUS
    <3>1. sdk[c].socket # j[2]
      BY <1>2, <1>7, <1>8 DEF Fresh, Conn
    <3> QED
      BY <1>8, <3>1, QueuedIsAbandoned
  <2>4. sdk'[j[1]].opened = sdk[j[1]].opened
    BY <1>3, <1>8
  <2> QED
    BY <1>5, <2>1, <2>2, <2>3, <2>4 DEF IsSocket, IsWire, Held
<1>9. Greets(c)' /\ Linked(c)' /\ IsServer'
  <2>1. IsServer' /\ Greets(c)'
    BY <1>1, <1>3, <1>4 DEF IsServer, Greets
  <2>2. sdk[c].conn # 0 => K(c) \in Conn /\ K(c)' = K(c)
    BY <1>3, OwnConnections DEF K
  <2>3. sdk[c].conn # 0 => wire'[K(c)] = wire[K(c)]
    BY <1>2, <1>6, <2>2
  <2>4. sdk[c].pc = "handshake"
    BY DEF HandshakeFails
  <2> QED
    BY <1>1, <1>3, <1>5, <2>1, <2>2, <2>3, <2>4 DEF Linked
<1> QED
  <2>1. \A j \in Conn : j[1] # c => wire'[j] = wire[j]
    BY <1>2, <1>6
  <2> QED
    BY <1>3, <1>4, <1>5, <1>8, <1>9, <2>1, ConnectionFrame

\* A new connection waits behind the others.
LEMMA QueueGrows ==
  ASSUME IsServer, NEW k \in Conn, ~Serves(k), ~Queued(k),
         backlog' = Append(backlog, k), srv' = srv
  PROVE  /\ IsServer' /\ Queued(k)'
         /\ \A j : j # k => (Queued(j)' <=> Queued(j))
         /\ \A j : Serves(j)' <=> Serves(j)
<1>1. backlog \in Seq(Conn)
  BY DEF IsServer
<1>2. /\ backlog' \in Seq(Conn) /\ Len(backlog') = Len(backlog) + 1
      /\ Len(backlog) \in Nat /\ backlog'[Len(backlog) + 1] = k
      /\ \A n \in 1..Len(backlog) : backlog'[n] = backlog[n]
  BY <1>1
<1>3. /\ \A n \in 1..Len(backlog') : n \in 1..Len(backlog) \/ n = Len(backlog) + 1
      /\ \A n \in 1..Len(backlog) : n \in 1..Len(backlog')
      /\ Len(backlog) + 1 \in 1..Len(backlog')
  BY <1>2
<1>4. Queued(k)' /\ \A j : j # k => (Queued(j)' <=> Queued(j))
  BY <1>2, <1>3 DEF Queued
<1>5. \A m, n \in 1..Len(backlog') : backlog'[m] = backlog'[n] => m = n
  BY <1>2, <1>3 DEF Queued, IsServer
<1> QED
  BY <1>2, <1>4, <1>5 DEF IsServer, Serves

LEMMA ConnectKeepsLinkInv ==
  ASSUME LinkInv, NEW c \in Client, Connect(c)
  PROVE  LinkInv'
<1>1. /\ IsClient(sdk[c]) /\ DOMAIN sdk = Client /\ DOMAIN wire = Conn
      /\ IsServer /\ Linked(c) /\ sdk[c].pc = "idle" /\ sdk[c].call < MaxCalls
  BY DEF LinkInv, Connect
<1>2. sdk[c].conn # 0 => K(c) \in Conn
  BY OwnConnections
<1>3. CASE /\ sdk' = [sdk EXCEPT ![c].call = @ + 1, ![c].socket = 0,
                                 ![c].status = "CONNECTION_FAILED"]
           /\ UNCHANGED << wire, backlog, srv >>
  <2>1. /\ DOMAIN sdk' = Client /\ \A e \in Client \ {c} : sdk'[e] = sdk[e]
        /\ IsClient(sdk'[c]) /\ sdk'[c].pc = "idle"
        /\ sdk'[c].conn = sdk[c].conn /\ sdk'[c].opened = sdk[c].opened
    BY <1>1, <1>3, LinkAssumption DEF IsClient, ClientFields, Status
  <2>2. \A j : (Queued(j)' <=> Queued(j)) /\ (Serves(j)' <=> Serves(j))
    BY <1>3 DEF Queued, Serves
  <2>3. ASSUME NEW j \in Conn, j[1] = c PROVE IsWire(j)' /\ Held(j)'
    <3>1. IsWire(j) /\ Held(j)
      BY DEF LinkInv
    <3>2. Queued(j) => ~wire[j].cOpen
      BY <1>1, <2>3, QueuedIsAbandoned
    <3>3. sdk'[j[1]].opened = sdk[j[1]].opened
      BY <2>1, <2>3
    <3> QED
      BY <1>3, <2>2, <3>1, <3>2, <3>3 DEF IsSocket, IsWire, Held
  <2>4. Greets(c)' /\ Linked(c)' /\ IsServer'
    BY <1>1, <1>3, <2>1, <2>2 DEF Greets, Linked, IsServer, K
  <2> QED
    BY <1>1, <1>3, <2>1, <2>2, <2>3, <2>4, ConnectionFrame
<1>n. sdk[c].opened \in Nat /\ sdk[c].call \in Nat /\ sdk[c].conn \in 0..sdk[c].opened
  BY <1>1, LinkAssumption DEF IsClient
<1>4. ASSUME NEW k \in Conn, k = << c, sdk[c].opened + 1 >>, sdk[c].opened < MaxConn,
             sdk' = [sdk EXCEPT ![c].pc = "handshake", ![c].call = @ + 1,
                                ![c].opened = @ + 1, ![c].socket = k[2]],
             wire' = [wire EXCEPT ![k] =
                 [ up    |-> << Packet("HELLO", sdk'[c].call, "") >>,
                   down  |-> << >>,
                   cOpen |-> TRUE,
                   fd    |-> TRUE,
                   sOpen |-> TRUE ]],
             backlog' = Append(backlog, k), UNCHANGED srv
      PROVE  LinkInv'
  <2>1. k[1] = c /\ k[2] = sdk[c].opened + 1
    BY <1>4
  <2>2. /\ DOMAIN sdk' = Client /\ \A e \in Client \ {c} : sdk'[e] = sdk[e]
        /\ IsClient(sdk'[c]) /\ sdk'[c].pc = "handshake" /\ sdk'[c].socket = k[2]
        /\ sdk'[c].conn = sdk[c].conn /\ sdk'[c].opened = sdk[c].opened + 1
        /\ sdk'[c].call = sdk[c].call + 1
    <3> DEFINE r == [sdk[c] EXCEPT !.pc = "handshake", !.call = @ + 1,
                                   !.opened = @ + 1, !.socket = k[2]]
    <3>1. sdk'[c] = r /\ DOMAIN sdk' = Client /\ \A e \in Client \ {c} : sdk'[e] = sdk[e]
      BY <1>1, <1>4
    <3>2. /\ DOMAIN r = ClientFields /\ r.pc = "handshake" /\ r.socket = k[2]
          /\ r.call = sdk[c].call + 1 /\ r.opened = sdk[c].opened + 1
          /\ r.conn = sdk[c].conn /\ r.status = sdk[c].status
          /\ r.state = sdk[c].state /\ r.sent = sdk[c].sent
      BY <1>1 DEF IsClient, ClientFields
    <3> HIDE DEF r
    <3>3. /\ r.call \in 0..MaxCalls /\ r.call # 0 /\ r.opened \in 0..MaxConn
          /\ r.conn \in 0..r.opened /\ r.socket \in 0..r.opened /\ r.conn < r.socket
      <4>1. sdk[c].opened < MaxConn /\ sdk[c].call < MaxCalls
        BY <1>1, <1>4
      <4>2. MaxCalls \in Nat /\ MaxConn \in Nat
        BY LinkAssumption
      <4>3. /\ r.call = sdk[c].call + 1 /\ r.opened = sdk[c].opened + 1
            /\ r.conn = sdk[c].conn /\ r.socket = sdk[c].opened + 1
        BY <2>1, <3>2
      <4>4. sdk[c].opened \in Nat /\ sdk[c].call \in Nat /\ sdk[c].conn \in 0..sdk[c].opened
        BY <1>n
      <4> QED
        BY ONLY <4>1, <4>2, <4>3, <4>4
    <3>4. IsClient(r)
      BY <1>1, <3>2, <3>3 DEF IsClient, Pc
    <3> QED
      BY <3>1, <3>2, <3>4
  <2>3. /\ DOMAIN wire' = Conn /\ \A j \in Conn \ {k} : wire'[j] = wire[j]
        /\ wire'[k] = [ up    |-> << Packet("HELLO", sdk'[c].call, "") >>,
                        down  |-> << >>, cOpen |-> TRUE, fd |-> TRUE, sOpen |-> TRUE ]
    BY <1>1, <1>4, <2>1
  <2>4. ~Serves(k) /\ ~Queued(k)
    <3>1. Held(k) /\ k[2] > sdk[k[1]].opened
      BY <1>n, <2>1 DEF LinkInv
    <3> QED
      BY <3>1 DEF Held
  <2>6. /\ IsServer' /\ Queued(k)'
        /\ \A j : j # k => (Queued(j)' <=> Queued(j))
        /\ \A j : Serves(j)' <=> Serves(j)
    <3>1. backlog' = Append(backlog, k) /\ srv' = srv /\ IsServer
      BY <1>1, <1>4
    <3> QED
      BY <2>4, <3>1, QueueGrows
  <2>8. ASSUME NEW j \in Conn, j[1] = c PROVE IsWire(j)' /\ Held(j)'
    <3>1. CASE j = k
      <4>1. Packet("HELLO", sdk'[c].call, "") \in UpPacket(c)
        <5>1. sdk'[c].call \in Nat
          BY <1>n, <2>2
        <5> QED
          BY <5>1 DEF Packet, UpPacket, LoginPacket
      <4> DEFINE p == Packet("HELLO", sdk'[c].call, "")
      <4>2. p.type = "HELLO"
        BY DEF Packet
      <4>3. p \in UpPacket(c)
        BY <4>1
      <4> HIDE DEF p
      <4>4. << p >> \in Seq(UpPacket(c)) /\ Len(<< p >>) = 1 /\ << p >>[1] = p
        BY <4>3
      <4>5. wire'[k] = [ up    |-> << p >>, down |-> << >>,
                         cOpen |-> TRUE, fd |-> TRUE, sOpen |-> TRUE ]
        BY <2>3 DEF p
      <4>6. IsWire(k)'
        BY <2>1, <4>4, <4>5, SeqFacts, LinkAssumption DEF IsSocket, IsWire
      <4>7. Held(k)'
        BY <1>n, <2>1, <2>2, <2>4, <2>6, <4>2, <4>4, <4>5 DEF Held
      <4> QED
        BY <3>1, <4>6, <4>7
    <3>2. CASE j # k
      <4>1. IsWire(j) /\ Held(j)
        BY DEF LinkInv
      <4>2. wire'[j] = wire[j] /\ (Queued(j)' <=> Queued(j))
        BY <2>3, <2>6, <3>2
      <4>3. Queued(j) => ~wire[j].cOpen
        BY <1>1, <2>8, QueuedIsAbandoned
      <4>4. j[2] > sdk'[j[1]].opened => j[2] > sdk[j[1]].opened
        BY <1>n, <2>2, <2>8, LinkAssumption DEF Conn
      <4> QED
        BY <2>6, <4>1, <4>2, <4>3, <4>4 DEF IsSocket, IsWire, Held
    <3> QED
      BY <3>1, <3>2
  <2>9. Greets(c)' /\ Linked(c)'
    <3>1. Fresh(c)' = k
      BY <2>1, <2>2, <1>4 DEF Fresh
    <3>2. sdk[c].conn # 0 => K(c) \in Conn /\ K(c)' = K(c) /\ K(c) # k
      BY <1>2, <1>n, <2>1, <2>2 DEF K
    <3>3. Greets(c)'
      <4>0. wire'[k].cOpen = TRUE
        <5> DEFINE up == << Packet("HELLO", sdk'[c].call, "") >>
        <5>1. wire'[k] = [ up    |-> up, down |-> << >>,
                           cOpen |-> TRUE, fd |-> TRUE, sOpen |-> TRUE ]
          BY <2>3
        <5> HIDE DEF up
        <5> QED
          BY <5>1
      <4>1. wire'[k].cOpen /\ Queued(k)'
        BY <4>0, <2>6
      <4>2. wire'[Fresh(c)'].cOpen /\ Queued(Fresh(c))'
        BY <3>1, <4>1 DEF Queued
      <4> QED
        BY <4>2 DEF Greets
    <3>4. ASSUME sdk'[c].conn # 0 PROVE Linked(c)'
      <4>1. sdk'[c].conn = sdk[c].conn /\ sdk[c].pc # "stuck" /\ sdk'[c].pc # "stuck"
        BY <1>1, <2>2
      <4>2. K(c) \in Conn /\ K(c)' = K(c) /\ wire'[K(c)] = wire[K(c)]
        BY <2>3, <3>2, <3>4, <4>1
      <4>3. Serves(K(c))' <=> Serves(K(c))
        <5>1. PICK j : j = K(c) /\ j = K(c)'
          BY <4>2
        <5>2. Serves(j)' <=> Serves(j)
          BY <2>6, Zenon
        <5> QED
          BY <5>1, <5>2 DEF Serves
      <4> QED
        BY <1>1, <4>1, <4>2, <4>3 DEF Linked
    <3> QED
      BY <3>3, <3>4 DEF Linked
  <2> QED
    <3>1. \A j \in Conn : j[1] # c =>
            wire'[j] = wire[j] /\ (Queued(j)' <=> Queued(j))
      BY <2>1, <2>3, <2>6
    <3> QED
      BY <1>4, <2>2, <2>3, <2>6, <2>8, <2>9, <3>1, ConnectionFrame
<1>5. sdk[c].opened < MaxConn => << c, sdk[c].opened + 1 >> \in Conn
  BY <1>n, LinkAssumption DEF Conn
<1> QED
  BY <1>3, <1>4, <1>5 DEF Connect

\* The credentials go out on the new connection, the old one is shut down.
HandshakeOn(c, k) ==
  /\ k # K(c) /\ k[1] = c /\ k[2] = sdk[c].socket
  /\ UNCHANGED << backlog, srv >> /\ wire[k].down # << >>
  /\ ~Queued(k) /\ wire[k].cOpen /\ wire[k].up = << >>
  /\ wire[k].sOpen => Serves(k)
  /\ DOMAIN sdk' = Client /\ \A e \in Client \ {c} : sdk'[e] = sdk[e]
  /\ IsClient(sdk'[c]) /\ sdk'[c].pc \in {"auth", "stuck"}
  /\ sdk'[c].pc = "stuck" <=> ~wire[k].sOpen
  /\ sdk'[c].conn = k[2] /\ sdk'[c].opened = sdk[c].opened
  /\ sdk'[c].state = "CONNECTED_UNAUTHENTICATED"
  /\ sdk'[c].call = sdk[c].call
  /\ DOMAIN wire' = Conn
  /\ \A j \in Conn \ {k} :
       /\ IsSocket(wire'[j])
       /\ wire'[j].up = wire[j].up /\ wire'[j].down = wire[j].down
       /\ wire'[j].sOpen = wire[j].sOpen /\ wire'[j].cOpen \in BOOLEAN
       /\ wire'[j].cOpen => wire[j].cOpen
       /\ j # K(c) => wire'[j] = wire[j]
  /\ IsSocket(wire'[k])
  /\ wire'[k].up = << Packet("AUTH_REQUEST", sdk[c].call, sdk'[c].req.login) >>
  /\ sdk'[c].req.login \in Logins
  /\ wire'[k].down = Tail(wire[k].down)
  /\ wire'[k].sOpen = wire[k].sOpen /\ wire'[k].cOpen = TRUE

LEMMA HandshakeEffect ==
  ASSUME LinkInv, NEW c \in Client, HandshakeDone(c)
  PROVE  \E k \in Conn : k = Fresh(c) /\ HandshakeOn(c, k)
<1>1. /\ IsClient(sdk[c]) /\ DOMAIN sdk = Client /\ DOMAIN wire = Conn
      /\ IsServer /\ Greets(c) /\ sdk[c].pc = "handshake"
  BY DEF LinkInv, HandshakeDone
<1>2. PICK k \in Conn : k = Fresh(c) /\ k # K(c) /\ k[1] = c /\ k[2] = sdk[c].socket
  BY <1>1, OwnConnections DEF Fresh
<1>3. PICK login \in Logins :
        /\ sdk' = [sdk EXCEPT
             ![c].pc = IF wire[k].sOpen THEN "auth" ELSE "stuck",
             ![c].conn = sdk[c].socket,
             ![c].req = [op |-> "CONNECT", login |-> login],
             ![c].state = "CONNECTED_UNAUTHENTICATED"]
        /\ wire' = [Hangup({K(c)} \ {k}, {}) EXCEPT
             ![k].down = Tail(@),
             ![k].up = Append(@, Packet("AUTH_REQUEST", sdk[c].call, login))]
  BY <1>2 DEF HandshakeDone
<1>4. UNCHANGED << backlog, srv >> /\ wire[k].down # << >>
  BY <1>2 DEF HandshakeDone, CanReceive
<1>5. IsWire(k) /\ Held(k)
  BY DEF LinkInv
<1>6. /\ ~Queued(k) /\ wire[k].cOpen /\ wire[k].up = << >>
      /\ wire[k].sOpen => Serves(k)
  BY <1>1, <1>2, <1>4, <1>5 DEF Greets, Held
<1>7. /\ DOMAIN sdk' = Client /\ \A e \in Client \ {c} : sdk'[e] = sdk[e]
      /\ IsClient(sdk'[c]) /\ sdk'[c].pc \in {"auth", "stuck"}
      /\ sdk'[c].pc = "stuck" <=> ~wire[k].sOpen
      /\ sdk'[c].conn = k[2] /\ sdk'[c].opened = sdk[c].opened
      /\ sdk'[c].state = "CONNECTED_UNAUTHENTICATED" /\ sdk'[c].call = sdk[c].call
  <2>1. sdk[c].call # 0 /\ sdk[c].socket # 0
    BY <1>1, LinkAssumption DEF IsClient
  <2>2. wire[k].sOpen \in BOOLEAN
    BY <1>5 DEF IsSocket, IsWire
  <2> QED
    BY <1>1, <1>2, <1>3, <1>5, <2>1 DEF IsClient, ClientFields, Pc
<1>8. \A j : (Queued(j)' <=> Queued(j)) /\ (Serves(j)' <=> Serves(j))
  BY <1>4 DEF Queued, Serves
<1>9. DOMAIN wire' = Conn
  BY <1>3 DEF Hangup
<1>10. ASSUME NEW j \in Conn, j # k
       PROVE  /\ IsSocket(wire'[j])
              /\ wire'[j].up = wire[j].up /\ wire'[j].down = wire[j].down
              /\ wire'[j].sOpen = wire[j].sOpen /\ wire'[j].cOpen \in BOOLEAN
              /\ wire'[j].cOpen => wire[j].cOpen
              /\ j # K(c) => wire'[j] = wire[j]
  <2>1. wire'[j] = Hangup({K(c)} \ {k}, {})[j]
    BY <1>3, <1>10 DEF Hangup
  <2> QED
    BY <2>1, HangupEffect DEF LinkInv
<1>11. /\ IsSocket(wire'[k])
       /\ wire'[k].up = << Packet("AUTH_REQUEST", sdk[c].call, login) >>
       /\ wire'[k].down = Tail(wire[k].down)
       /\ wire'[k].sOpen = wire[k].sOpen /\ wire'[k].cOpen = TRUE
  <2> DEFINE h == Hangup({K(c)} \ {k}, {})
  <2>1. h[k] = wire[k] /\ DOMAIN h = Conn
    BY <1>2, <1>5, HangupEffect DEF Hangup
  <2> HIDE DEF h
  <2>2. Append(<< >>, Packet("AUTH_REQUEST", sdk[c].call, login))
          = << Packet("AUTH_REQUEST", sdk[c].call, login) >>
    OBVIOUS
  <2> QED
    BY <1>3, <1>5, <1>6, <2>1, <2>2 DEF IsSocket, IsWire, h
<1>12. sdk'[c].req.login = login
  BY <1>1, <1>3 DEF IsClient, ClientFields
<1>13. HandshakeOn(c, k)
  BY <1>2, <1>4, <1>6, <1>7, <1>9, <1>10, <1>11, <1>12 DEF HandshakeOn
<1> QED
  BY <1>2, <1>13

LEMMA HandshakeKeepsLinkInv ==
  ASSUME LinkInv, NEW c \in Client, HandshakeDone(c)
  PROVE  LinkInv'
<1>1. /\ IsClient(sdk[c]) /\ IsServer /\ sdk[c].pc = "handshake"
  BY DEF LinkInv, HandshakeDone
<1>2. PICK k \in Conn : k = Fresh(c) /\ HandshakeOn(c, k)
  BY HandshakeEffect
<1>3. /\ k # K(c) /\ k[1] = c /\ k[2] = sdk[c].socket
      /\ ~Queued(k) /\ wire[k].cOpen /\ wire[k].up = << >>
      /\ wire[k].sOpen => Serves(k)
      /\ UNCHANGED << backlog, srv >> /\ wire[k].down # << >>
  BY <1>2 DEF HandshakeOn
<1>5. IsWire(k) /\ Held(k)
  BY DEF LinkInv
<1>7. /\ DOMAIN sdk' = Client /\ \A e \in Client \ {c} : sdk'[e] = sdk[e]
      /\ IsClient(sdk'[c]) /\ sdk'[c].pc \in {"auth", "stuck"}
      /\ sdk'[c].pc = "stuck" <=> ~wire[k].sOpen
      /\ sdk'[c].conn = k[2] /\ sdk'[c].opened = sdk[c].opened
  BY <1>2 DEF HandshakeOn
<1>8. \A j : (Queued(j)' <=> Queued(j)) /\ (Serves(j)' <=> Serves(j))
  BY <1>3 DEF Queued, Serves
<1>9. DOMAIN wire' = Conn
  BY <1>2 DEF HandshakeOn
<1>10. ASSUME NEW j \in Conn, j # k
       PROVE  /\ IsSocket(wire'[j])
              /\ wire'[j].up = wire[j].up /\ wire'[j].down = wire[j].down
              /\ wire'[j].sOpen = wire[j].sOpen /\ wire'[j].cOpen \in BOOLEAN
              /\ wire'[j].cOpen => wire[j].cOpen
              /\ j # K(c) => wire'[j] = wire[j]
  BY <1>2, <1>10 DEF HandshakeOn
<1>11. PICK login \in Logins :
        /\ IsSocket(wire'[k])
        /\ wire'[k].up = << Packet("AUTH_REQUEST", sdk[c].call, login) >>
        /\ wire'[k].down = Tail(wire[k].down)
        /\ wire'[k].sOpen = wire[k].sOpen /\ wire'[k].cOpen = TRUE
  BY <1>2 DEF HandshakeOn
<1>12. ASSUME NEW j \in Conn, j[1] = c PROVE IsWire(j)' /\ Held(j)'
  <2>1. sdk'[j[1]].opened = sdk[j[1]].opened
    BY <1>7, <1>12
  <2>2. CASE j = k
    <3>1. Packet("AUTH_REQUEST", sdk[c].call, login) \in UpPacket(c)
      BY <1>1, LinkAssumption DEF IsClient, Packet, UpPacket, LoginPacket
    <3>2. /\ << Packet("AUTH_REQUEST", sdk[c].call, login) >> \in Seq(UpPacket(c))
          /\ Len(<< Packet("AUTH_REQUEST", sdk[c].call, login) >>) <= SockBuf
      BY <3>1, LinkAssumption
    <3>3. IsSeq(Tail(wire[k].down)) /\ Len(Tail(wire[k].down)) <= SockBuf
      BY <1>3, <1>5, AnySeq, LinkAssumption DEF IsSocket, IsWire
    <3> QED
      BY <1>3, <1>5, <1>8, <1>11, <2>1, <2>2, <3>2, <3>3 DEF IsSocket, IsWire, Held
  <2>3. CASE j # k
    <3>1. IsWire(j) /\ Held(j)
      BY DEF LinkInv
    <3>2. Queued(j) => ~wire[j].cOpen
      <4>1. sdk[c].socket # j[2]
        BY <1>3, <1>12, <2>3 DEF Conn
      <4> QED
        BY <1>12, <4>1, QueuedIsAbandoned
    <3> QED
      BY <1>8, <1>10, <2>1, <2>3, <3>1, <3>2 DEF IsSocket, IsWire, Held
  <2> QED
    BY <2>2, <2>3
<1>13. Greets(c)' /\ Linked(c)' /\ IsServer'
  <2>1. K(c)' = k
    BY <1>2, <1>3, <1>7 DEF K, Fresh
  <2> QED
    BY <1>1, <1>3, <1>7, <1>8, <1>11, <2>1 DEF Greets, Linked, IsServer
<1>14. ASSUME NEW j \in Conn, j[1] # c
       PROVE  wire'[j] = wire[j] /\ (Queued(j)' <=> Queued(j))
  <2>1. j # k /\ j # K(c)
    BY <1>3, <1>14 DEF K
  <2> QED
    BY <1>8, <1>10, <2>1
<1> QED
  BY <1>3, <1>7, <1>9, <1>12, <1>13, <1>14, ConnectionFrame

-----------------------------------------------------------------------------
(* What the server does. *)

\* The connection that is served and of which something is still to be read or
\* to be sent is not one that is being set up.
LEMMA ServedIsLinked ==
  ASSUME LinkInv, NEW k \in Conn, Serves(k), NEW c \in Client,
         sdk[c].pc = "handshake", Fresh(c) = k
  PROVE  /\ wire[k].cOpen /\ ~srv.authed /\ srv.out = << >> /\ wire[k].up = << >>
<1>1. Greets(c) /\ Held(k)
  BY DEF LinkInv
<1> QED
  BY <1>1 DEF Greets, Held

LEMMA ServeFrame ==
  ASSUME LinkInv, NEW k \in Conn, Serves(k),
         srv.out # << >> \/ wire[k].up # << >>,
         UNCHANGED << sdk, backlog >>,
         DOMAIN wire' = Conn, \A j \in Conn \ {k} : wire'[j] = wire[j],
         IsWire(k)',
         wire'[k].cOpen = wire[k].cOpen, wire'[k].sOpen = wire[k].sOpen,
         IsServer', srv'.pc = "serve", srv'.conn = k
  PROVE  LinkInv'
<1>1. \A j : (Queued(j)' <=> Queued(j)) /\ (Serves(j)' <=> Serves(j))
  BY DEF Queued, Serves
<1>2. wire[k].sOpen /\ ~Queued(k)
  BY DEF LinkInv, Held
<1>3. ASSUME NEW j \in Conn PROVE IsWire(j)' /\ Held(j)'
  <2>1. IsWire(j) /\ Held(j)
    BY DEF LinkInv
  <2>2. CASE j = k
    BY <1>1, <1>2, <2>1, <2>2 DEF Held
  <2>3. CASE j # k
    <3>1. wire'[j] = wire[j]
      BY <2>3
    <3> QED
      BY <1>1, <2>1, <3>1 DEF Held, IsSocket, IsWire
  <2> QED
    BY <2>2, <2>3
<1>4. ASSUME NEW e \in Client PROVE IsClient(sdk'[e]) /\ Greets(e)' /\ Linked(e)'
  <2>1. IsClient(sdk[e]) /\ Greets(e) /\ Linked(e)
    BY DEF LinkInv
  <2>2. K(e)' = K(e) /\ Fresh(e)' = Fresh(e)
    BY DEF K, Fresh
  <2>3. Greets(e)'
    <3> SUFFICES ASSUME sdk[e].pc = "handshake" PROVE Greets(e)'
      BY DEF Greets
    <3>1. Fresh(e) # k
      BY ServedIsLinked
    <3>2. Fresh(e) \in Conn
      BY OwnConnections
    <3>3. wire'[Fresh(e)] = wire[Fresh(e)]
      BY <3>1, <3>2
    <3>4. ~Serves(Fresh(e))
      BY <3>1 DEF Serves
    <3> QED
      BY <1>1, <2>1, <2>2, <3>3, <3>4 DEF Greets
  <2>4. Linked(e)'
    <3> SUFFICES ASSUME sdk[e].conn # 0 PROVE Linked(e)'
      BY DEF Linked
    <3>1. K(e) \in Conn
      BY OwnConnections
    <3>2. CASE K(e) = k
      BY <1>1, <1>2, <2>1, <2>2, <3>2 DEF Linked
    <3>3. CASE K(e) # k
      BY <1>1, <2>1, <2>2, <3>1, <3>3 DEF Linked
    <3> QED
      BY <3>2, <3>3
  <2> QED
    BY <2>1, <2>3, <2>4
<1> QED
  BY <1>3, <1>4 DEF LinkInv

LEMMA SendOutKeepsLinkInv ==
  ASSUME LinkInv, SendOut
  PROVE  LinkInv'
<1>1. PICK k \in Conn : k = srv.conn
  BY DEF LinkInv, IsServer, SendOut
<1>2. /\ Serves(k) /\ IsWire(k) /\ IsServer /\ DOMAIN wire = Conn
      /\ srv.out # << >> /\ UNCHANGED << sdk, backlog >>
  BY <1>1 DEF LinkInv, Serves, SendOut
<1>3. IsSeq(Tail(srv.out)) /\ IsSeq(<< >>)
  BY <1>2, AnySeq, SeqFacts DEF IsServer
<1>4. CASE /\ Len(wire[k].down) < SockBuf
           /\ wire' = [wire EXCEPT ![k].down = Append(@, Head(srv.out))]
           /\ srv' = [srv EXCEPT !.out = Tail(@)]
  <2>1. /\ IsSeq(Append(wire[k].down, Head(srv.out)))
        /\ Len(Append(wire[k].down, Head(srv.out))) <= SockBuf
    BY <1>2, <1>4, AnySeq, LinkAssumption DEF IsSocket, IsWire
  <2>2. /\ DOMAIN wire' = Conn /\ \A j \in Conn \ {k} : wire'[j] = wire[j]
        /\ IsWire(k)'
        /\ wire'[k].cOpen = wire[k].cOpen /\ wire'[k].sOpen = wire[k].sOpen
    BY <1>2, <1>4, <2>1 DEF IsSocket, IsWire
  <2>3. IsServer' /\ srv'.pc = "serve" /\ srv'.conn = k
    BY <1>1, <1>2, <1>3, <1>4 DEF IsServer, Serves
  <2> QED
    BY <1>2, <2>2, <2>3, ServeFrame
<1>5. CASE srv' = [srv EXCEPT !.out = << >>] /\ UNCHANGED wire
  <2>1. IsServer' /\ srv'.pc = "serve" /\ srv'.conn = k
    BY <1>1, <1>2, <1>3, <1>5 DEF IsServer, Serves
  <2>2. IsWire(k)'
    BY <1>2, <1>5 DEF IsSocket, IsWire
  <2> QED
    BY <1>2, <1>5, <2>1, <2>2, ServeFrame
<1> QED
  BY <1>1, <1>4, <1>5 DEF SendOut

\* The server takes the first packet off the connection it serves.
LEMMA ReceivesEffect ==
  ASSUME LinkInv, NEW type, NEW p, Receives(type, p), NEW k \in Conn, k = srv.conn
  PROVE  /\ Serves(k) /\ srv.out = << >> /\ wire[k].up # << >>
         /\ p = Head(wire[k].up) /\ p \in UpPacket(k[1]) /\ p.type = type
         /\ UNCHANGED << sdk, backlog >>
         /\ DOMAIN wire' = Conn /\ \A j \in Conn \ {k} : wire'[j] = wire[j]
         /\ IsWire(k)' /\ wire'[k].up = Tail(wire[k].up)
         /\ wire'[k].down = wire[k].down
         /\ wire'[k].cOpen = wire[k].cOpen /\ wire'[k].sOpen = wire[k].sOpen
<1>1. /\ IsWire(k) /\ DOMAIN wire = Conn /\ wire[k].up # << >>
      /\ p = Head(wire[k].up) /\ wire' = [wire EXCEPT ![k].up = Tail(@)]
  BY DEF Receives, LinkInv
<1>2. /\ Tail(wire[k].up) \in Seq(UpPacket(k[1])) /\ p \in UpPacket(k[1])
      /\ Len(Tail(wire[k].up)) <= SockBuf
  <2>1. wire[k].up \in Seq(UpPacket(k[1])) /\ Len(wire[k].up) <= SockBuf
    BY <1>1 DEF IsSocket, IsWire
  <2>2. Len(wire[k].up) \in Nat /\ SockBuf \in Nat
    BY <2>1, LinkAssumption
  <2> DEFINE up == wire[k].up
             S == UpPacket(k[1])
  <2>3. up \in Seq(S) /\ up # << >> /\ p = Head(up) /\ Len(up) <= SockBuf
    BY <1>1, <2>1
  <2> HIDE DEF up, S
  <2>4. Tail(up) \in Seq(S) /\ p \in S /\ Len(Tail(up)) = Len(up) - 1
        /\ Len(up) \in Nat
    BY <2>3, HeadAndTail
  <2> QED
    BY <2>2, <2>3, <2>4 DEF up, S
<1>3. IsWire(k)' /\ DOMAIN wire' = Conn /\ \A j \in Conn \ {k} : wire'[j] = wire[j]
      /\ wire'[k].up = Tail(wire[k].up) /\ wire'[k].down = wire[k].down
      /\ wire'[k].cOpen = wire[k].cOpen /\ wire'[k].sOpen = wire[k].sOpen
  BY <1>1, <1>2 DEF IsSocket, IsWire
<1> QED
  BY <1>1, <1>2, <1>3 DEF Receives, Serves

\* What the server reads from a file is a sequence of packets.
LEMMA StreamIsSeq ==
  ASSUME NEW p, NEW file \in Seq(Byte)
  PROVE  /\ IsSeq(Stream(p, file)) /\ Len(Stream(p, file)) = Len(file) + 2
         /\ Head(Stream(p, file)) = Begin(p, file)
         /\ Stream(p, file)[1] = Begin(p, file)
         /\ \A n \in 1..Len(file) : Stream(p, file)[n + 1] = Chunks(p, file)[n]
         /\ Stream(p, file)[Len(file) + 2] = End(p)
<1> DEFINE S == { Chunks(p, file)[n] : n \in 1..Len(file) }
                  \union { Begin(p, file), End(p) }
<1>1. Len(file) \in Nat
  OBVIOUS
<1>2. Chunks(p, file) \in Seq(S) /\ Len(Chunks(p, file)) = Len(file)
  <2> DEFINE f == Chunks(p, file)
  <2>1. DOMAIN f = 1..Len(file) /\ f = [i \in 1..Len(file) |-> f[i]]
    BY DEF Chunks
  <2>2. \A i \in 1..Len(file) : f[i] \in S
    OBVIOUS
  <2> HIDE DEF f, S
  <2> QED
    BY <1>1, <2>1, <2>2, Listed DEF f
<1>3. Begin(p, file) \in S /\ End(p) \in S
  OBVIOUS
<1> DEFINE b == Begin(p, file)
           m == Chunks(p, file)
           e == End(p)
           s == << b >> \o m \o << e >>
<1> HIDE DEF S, b, m, e
<1>4. /\ << b >> \in Seq(S) /\ << e >> \in Seq(S) /\ m \in Seq(S)
      /\ Len(m) = Len(file) /\ Len(m) \in Nat
  BY <1>1, <1>2, <1>3 DEF b, m, e
<1>5. /\ << b >> \o m \in Seq(S) /\ Len(<< b >> \o m) = Len(m) + 1
      /\ (<< b >> \o m)[1] = b
      /\ \A n \in 1..Len(m) : (<< b >> \o m)[n + 1] = m[n]
  BY <1>4
<1>6. /\ s \in Seq(S) /\ Len(s) = Len(m) + 2 /\ s[1] = b /\ Head(s) = b
      /\ \A n \in 1..Len(m) : s[n + 1] = m[n]
      /\ s[Len(m) + 2] = e
  <2> DEFINE bm == << b >> \o m
             l == << e >>
  <2>1. /\ bm \in Seq(S) /\ Len(bm) = Len(m) + 1 /\ bm[1] = b
        /\ \A n \in 1..Len(m) : bm[n + 1] = m[n]
        /\ l \in Seq(S) /\ Len(l) = 1 /\ l[1] = e
    BY <1>4, <1>5
  <2> HIDE DEF bm, l
  <2>2. /\ bm \o l \in Seq(S) /\ Len(bm \o l) = Len(bm) + Len(l)
        /\ \A n \in 1..Len(bm) : (bm \o l)[n] = bm[n]
        /\ (bm \o l)[Len(bm) + 1] = l[1]
    <3>1. /\ bm \o l \in Seq(S) /\ Len(bm \o l) = Len(bm) + Len(l)
          /\ \A n \in 1..Len(bm) : (bm \o l)[n] = bm[n]
          /\ \A n \in 1..Len(l) : (bm \o l)[Len(bm) + n] = l[n]
      <4>1. bm \in Seq(S) /\ l \in Seq(S)
        BY <2>1, Zenon
      <4> QED
        BY <4>1, Concatenation
    <3>2. 1 \in 1..Len(l)
      BY <2>1
    <3> QED
      BY <3>1, <3>2, Zenon
  <2>3. /\ Len(bm \o l) = Len(m) + 2 /\ (bm \o l)[1] = b
        /\ \A n \in 1..Len(m) : (bm \o l)[n + 1] = m[n]
        /\ (bm \o l)[Len(m) + 2] = e
    BY <1>4, <2>1, <2>2
  <2>4. Head(bm \o l) = b
    BY <1>4, <2>2, <2>3
  <2> QED
    BY <2>2, <2>3, <2>4 DEF bm, l, s
<1>7. IsSeq(s)
  BY <1>6, SeqFacts
<1> QED
  BY <1>1, <1>4, <1>6, <1>7 DEF Stream, b, m, e

LEMMA StoredFile ==
  ASSUME TypeOK, NEW path, IsFile(tree, path)
  PROVE  data[tree[path]] \in Seq(Byte)
BY DEF TypeOK, IsFile, Exists

\* Every handler answers with a sequence of packets.
LEMMA HandlersAnswer ==
  ASSUME TypeOK, NEW p,
         \/ ServeList(p) \/ ServeDelete(p) \/ ServeRename(p)
         \/ ServeMkdir(p) \/ ServeRmdir(p) \/ ServeUploadBegin(p)
         \/ ServeUploadChunk(p) \/ ServeUploadEnd(p) \/ ServeDownload(p)
  PROVE  \E packets : IsSeq(packets) /\ Answers(packets)
<1>1. CASE ServeList(p)
  BY <1>1, SeqFacts DEF ServeList, Guarded
<1>2. CASE ServeDelete(p)
  BY <1>2, SeqFacts DEF ServeDelete, Guarded
<1>3. CASE ServeRename(p)
  BY <1>3, SeqFacts DEF ServeRename, Guarded
<1>4. CASE ServeMkdir(p)
  BY <1>4, SeqFacts DEF ServeMkdir, Guarded
<1>5. CASE ServeRmdir(p)
  BY <1>5, SeqFacts DEF ServeRmdir, Guarded
<1>6. CASE ServeUploadBegin(p)
  BY <1>6, SeqFacts DEF ServeUploadBegin, Guarded
<1>7. CASE ServeUploadChunk(p)
  BY <1>7, SeqFacts DEF ServeUploadChunk, Guarded
<1>8. CASE ServeUploadEnd(p)
  BY <1>8, SeqFacts DEF ServeUploadEnd, Guarded
<1>9. CASE ServeDownload(p)
  <2>1. CASE CanDownload(p.arg.path)
    <3> DEFINE stream == Stream(p, data[tree[p.arg.path]])
    <3>1. IsSeq(stream)
      BY <2>1, StoredFile, StreamIsSeq DEF CanDownload
    <3>2. \/ Answers(stream) \/ Answers(<< Head(stream) >>)
          \/ Answers(<< Error(p) >>)
      BY <1>9, <2>1 DEF ServeDownload, Guarded
    <3> HIDE DEF stream
    <3> QED
      BY <3>1, <3>2, SeqFacts
  <2>2. CASE ~CanDownload(p.arg.path)
    BY <1>9, <2>2, SeqFacts DEF ServeDownload, Guarded
  <2> QED
    BY <2>1, <2>2
<1> QED
  BY <1>1, <1>2, <1>3, <1>4, <1>5, <1>6, <1>7, <1>8, <1>9

LEMMA ServeKeepsLinkInv ==
  ASSUME LinkInv, TypeOK, Serve
  PROVE  LinkInv'
<1>1. PICK p \in NextPacket :
        \/ ServeAuth(p) \/ ServeList(p) \/ ServeDelete(p) \/ ServeRename(p)
        \/ ServeMkdir(p) \/ ServeRmdir(p)
        \/ ServeUploadBegin(p) \/ ServeUploadChunk(p) \/ ServeUploadEnd(p)
        \/ ServeDownload(p)
  BY DEF Serve
<1>2. \E type : Receives(type, p)
  BY <1>1 DEF ServeAuth, ServeList, ServeDelete, ServeRename, ServeMkdir,
              ServeRmdir, ServeUploadBegin, ServeUploadChunk, ServeUploadEnd,
              ServeDownload
<1>3. PICK k \in Conn : k = srv.conn
  BY <1>2 DEF Receives, LinkInv, IsServer
<1>4. /\ Serves(k) /\ wire[k].up # << >> /\ UNCHANGED << sdk, backlog >>
      /\ DOMAIN wire' = Conn /\ \A j \in Conn \ {k} : wire'[j] = wire[j]
      /\ IsWire(k)'
      /\ wire'[k].cOpen = wire[k].cOpen /\ wire'[k].sOpen = wire[k].sOpen
  BY <1>2, <1>3, ReceivesEffect
<1>5. \E packets, authed : /\ IsSeq(packets) /\ authed \in BOOLEAN
                           /\ srv' = [srv EXCEPT !.authed = authed, !.out = packets]
  <2>1. IsServer
    BY DEF LinkInv
  <2>2. CASE ServeAuth(p)
    <3> DEFINE ok == Authenticate(srv.users, p.arg[1], p.arg[2])
    <3>1. srv' = [srv EXCEPT !.authed = @ \/ ok,
                             !.out = << Packet("AUTH_RESPONSE", p.call, ok) >>]
      BY <2>2 DEF ServeAuth
    <3> HIDE DEF ok
    <3> WITNESS << Packet("AUTH_RESPONSE", p.call, ok) >>, srv.authed \/ ok
    <3> QED
      BY <3>1, SeqFacts
  <2>3. CASE ~ServeAuth(p)
    <3>1. PICK packets : IsSeq(packets) /\ Answers(packets)
      BY <1>1, <2>3, HandlersAnswer
    <3> WITNESS packets, srv.authed
    <3> QED
      BY <2>1, <3>1 DEF Answers, IsServer
  <2> QED
    BY <2>2, <2>3
<1>6. IsServer' /\ srv'.pc = "serve" /\ srv'.conn = k
  BY <1>3, <1>4, <1>5 DEF LinkInv, IsServer, Serves
<1> QED
  BY <1>4, <1>6, ServeFrame

\* The queue of connections moves up by one.
LEMMA QueueMoves ==
  ASSUME IsServer, backlog # << >>, NEW k, k = Head(backlog), backlog' = Tail(backlog)
  PROVE  /\ k \in Conn /\ Queued(k) /\ ~Queued(k)'
         /\ \A j : j # k => (Queued(j)' <=> Queued(j))
         /\ backlog' \in Seq(Conn)
         /\ \A m, n \in 1..Len(backlog') : backlog'[m] = backlog'[n] => m = n
<1>1. backlog \in Seq(Conn)
  BY DEF IsServer
<1>2. /\ backlog' \in Seq(Conn) /\ Len(backlog') = Len(backlog) - 1
      /\ Len(backlog) \in Nat \ {0} /\ backlog[1] = k
      /\ \A n \in 1..Len(backlog') : backlog'[n] = backlog[n + 1]
  BY <1>1
<1>3. /\ \A n \in 1..Len(backlog) : n = 1 \/ n - 1 \in 1..Len(backlog')
      /\ \A n \in 1..Len(backlog') : n + 1 \in 1..Len(backlog) /\ n + 1 # 1
      /\ 1 \in 1..Len(backlog)
  BY <1>2
<1>4. \A n \in 1..Len(backlog) : n = 1 \/ backlog[n] = backlog'[n - 1]
  BY <1>2, <1>3
<1>5. \A m, n \in 1..Len(backlog) : backlog[m] = backlog[n] => m = n
  BY DEF IsServer
<1>6. Queued(k) /\ ~Queued(k)'
  BY <1>2, <1>3, <1>5 DEF Queued
<1>7. \A j : j # k => (Queued(j)' <=> Queued(j))
  BY <1>2, <1>3, <1>4 DEF Queued
<1>8. \A m, n \in 1..Len(backlog') : backlog'[m] = backlog'[n] => m = n
  BY <1>2, <1>3, <1>5
<1> QED
  BY <1>1, <1>2, <1>3, <1>6, <1>7, <1>8

\* The connection that waits longest when the server is free.
LEMMA FirstInLine ==
  ASSUME LinkInv, Accept, NEW k, k = Head(backlog)
  PROVE  /\ k \in Conn /\ Queued(k) /\ IsWire(k) /\ Held(k)
         /\ \A j : ~Serves(j)
         /\ \A e \in Client : sdk[e].conn # 0 => K(e) # k
         /\ Len(wire[k].up) = 1 /\ wire[k].down = << >>
         /\ Tail(wire[k].up) = << >>
<1>1. IsServer /\ backlog # << >> /\ backlog' = Tail(backlog)
  BY DEF LinkInv, Accept
<1>2. k \in Conn /\ Queued(k)
  BY <1>1, QueueMoves
<1>3. IsWire(k) /\ Held(k)
  BY <1>2 DEF LinkInv
<1>4. Len(wire[k].up) = 1 /\ wire[k].down = << >>
  BY <1>2, <1>3 DEF Held
<1>5. Tail(wire[k].up) = << >>
  <2> DEFINE up == wire[k].up
             S == UpPacket(k[1])
  <2>1. up \in Seq(S) /\ Len(up) = 1
    BY <1>3, <1>4 DEF IsSocket, IsWire
  <2> HIDE DEF up, S
  <2>2. up # << >>
    BY <2>1
  <2>3. Tail(up) \in Seq(S) /\ Len(Tail(up)) = 0
    BY <2>1, <2>2, HeadAndTail
  <2>4. Tail(up) = << >>
    BY <2>3, EmptySeq
  <2> QED
    BY <2>4 DEF up
<1>6. \A e \in Client : sdk[e].conn # 0 => K(e) # k
  BY <1>2, OwnConnections
<1> QED
  BY <1>2, <1>3, <1>4, <1>5, <1>6 DEF Accept, Serves

LEMMA AcceptKeepsLinkInv ==
  ASSUME LinkInv, Accept
  PROVE  LinkInv'
<1>0. PICK k : k = Head(backlog)
  OBVIOUS
<1>1. /\ IsServer /\ backlog # << >> /\ backlog' = Tail(backlog)
      /\ UNCHANGED sdk /\ srv.pc = "accept" /\ DOMAIN wire = Conn
  BY DEF LinkInv, Accept
<1>2. /\ k \in Conn /\ Queued(k) /\ IsWire(k) /\ Held(k)
      /\ \A j : ~Serves(j)
      /\ \A e \in Client : sdk[e].conn # 0 => K(e) # k
      /\ Len(wire[k].up) = 1 /\ wire[k].down = << >> /\ Tail(wire[k].up) = << >>
  BY <1>0, FirstInLine
<1>3. /\ ~Queued(k)' /\ \A j : j # k => (Queued(j)' <=> Queued(j))
      /\ backlog' \in Seq(Conn)
      /\ \A m, n \in 1..Len(backlog') : backlog'[m] = backlog'[n] => m = n
  BY <1>0, <1>1, QueueMoves
<1>4. \/ /\ wire[k].cOpen
         /\ wire' = [wire EXCEPT ![k].up = Tail(@),
                                 ![k].down = Append(@, Head(wire[k].up))]
         /\ srv' = [srv EXCEPT !.pc = "serve", !.conn = k, !.authed = FALSE]
      \/ /\ ~wire[k].cOpen
         /\ wire' = [wire EXCEPT ![k].up = << >>, ![k].sOpen = FALSE]
         /\ UNCHANGED srv
  BY <1>0 DEF Accept
<1>5. /\ DOMAIN wire' = Conn /\ \A j \in Conn \ {k} : wire'[j] = wire[j]
      /\ IsSocket(wire'[k])
      /\ wire'[k].up = << >> /\ wire'[k].cOpen = wire[k].cOpen
      /\ wire[k].cOpen =>
           /\ wire'[k].sOpen = wire[k].sOpen
           /\ wire'[k].down = << Head(wire[k].up) >>
      /\ ~wire[k].cOpen =>
           wire'[k].sOpen = FALSE /\ wire'[k].down = << >>
  <2>1. Append(<< >>, Head(wire[k].up)) = << Head(wire[k].up) >>
    OBVIOUS
  <2> QED
    BY <1>1, <1>2, <1>4, <2>1 DEF IsSocket, IsWire
<1>6. /\ srv'.out = << >> /\ srv'.authed \in BOOLEAN
      /\ DOMAIN srv' = DOMAIN srv
      /\ wire[k].cOpen => srv'.pc = "serve" /\ srv'.conn = k /\ ~srv'.authed
      /\ ~wire[k].cOpen => srv' = srv
  BY <1>1, <1>4 DEF IsServer
<1>7. \A j : Serves(j)' <=> wire[k].cOpen /\ j = k
  BY <1>1, <1>6 DEF Serves
<1>8. IsServer'
  BY <1>1, <1>2, <1>3, <1>6, SeqFacts DEF IsServer
<1>9. ASSUME NEW j \in Conn PROVE IsWire(j)' /\ Held(j)'
  <2>1. IsWire(j) /\ Held(j)
    BY DEF LinkInv
  <2>2. CASE j = k
    <3>1. /\ << >> \in Seq(UpPacket(k[1])) /\ Len(<< >>) <= SockBuf
          /\ \A x : IsSeq(<< x >>) /\ Len(<< x >>) <= SockBuf
          /\ IsSeq(<< >>)
      BY SeqFacts, LinkAssumption
    <3>2. IsWire(k)'
      <4>1. wire'[k].sOpen \in BOOLEAN /\ wire'[k].cOpen \in BOOLEAN
        BY <1>2, <1>5 DEF IsSocket, IsWire
      <4>2. IsSeq(wire'[k].down) /\ Len(wire'[k].down) <= SockBuf
        BY <1>5, <3>1
      <4>3. wire'[k].up \in Seq(UpPacket(k[1])) /\ Len(wire'[k].up) <= SockBuf
        BY <1>5, <3>1
      <4> QED
        BY <1>5, <4>1, <4>2, <4>3 DEF IsSocket, IsWire
    <3>3. Held(k)'
      BY <1>1, <1>2, <1>3, <1>5, <1>7 DEF Held
    <3> QED
      BY <2>2, <3>2, <3>3
  <2>3. CASE j # k
    <3>1. wire'[j] = wire[j]
      BY <1>5, <2>3
    <3> QED
      BY <1>1, <1>3, <1>7, <2>1, <2>3, <3>1 DEF Held, IsSocket, IsWire
  <2> QED
    BY <2>2, <2>3
<1>10. ASSUME NEW e \in Client PROVE IsClient(sdk'[e]) /\ Greets(e)' /\ Linked(e)'
  <2>1. IsClient(sdk[e]) /\ Greets(e) /\ Linked(e)
    BY DEF LinkInv
  <2>2. K(e)' = K(e) /\ Fresh(e)' = Fresh(e)
    BY <1>1 DEF K, Fresh
  <2>3. Linked(e)'
    <3> SUFFICES ASSUME sdk[e].conn # 0 PROVE Linked(e)'
      BY <1>1 DEF Linked
    <3>1. K(e) \in Conn /\ K(e) # k
      BY <1>2, OwnConnections
    <3>2. wire'[K(e)] = wire[K(e)] /\ ~wire[K(e)].sOpen
      BY <1>2, <1>5, <2>1, <3>1 DEF Linked
    <3> QED
      BY <1>1, <2>1, <2>2, <3>2 DEF Linked
  <2>4. Greets(e)'
    <3> SUFFICES ASSUME sdk[e].pc = "handshake" PROVE Greets(e)'
      BY <1>1 DEF Greets
    <3>1. PICK f \in Conn : f = Fresh(e) /\ f = Fresh(e)'
      BY <2>2, OwnConnections
    <3>2. CASE f = k
      <4>1. wire[k].cOpen
        BY <2>1, <3>1, <3>2 DEF Greets
      <4>2. wire'[k].up = << >> /\ wire'[k].cOpen /\ Len(wire'[k].down) = 1
        BY <1>5, <4>1, SeqFacts
      <4>3. Serves(k)' /\ ~srv'.authed /\ srv'.out = << >>
        BY <1>6, <1>7, <4>1
      <4> QED
        <5>1. /\ wire'[Fresh(e)'].up = << >> /\ wire'[Fresh(e)'].cOpen
              /\ Len(wire'[Fresh(e)'].down) = 1
          BY <3>1, <3>2, <4>2
        <5>2. Serves(Fresh(e))'
          BY <3>1, <3>2, <4>3 DEF Serves
        <5> QED
          BY <4>3, <5>1, <5>2 DEF Greets
    <3>3. CASE f # k
      <4>1. wire'[f] = wire[f]
        BY <1>5, <3>3
      <4>2. /\ wire[f].cOpen
            /\ \/ Queued(f)
               \/ ~wire[f].sOpen /\ wire[f].up = << >> /\ Len(wire[f].down) <= 1
        BY <1>2, <2>1, <3>1 DEF Greets
      <4>3. /\ wire'[Fresh(e)'].cOpen
            /\ \/ Queued(Fresh(e))'
               \/ /\ ~wire'[Fresh(e)'].sOpen /\ wire'[Fresh(e)'].up = << >>
                  /\ Len(wire'[Fresh(e)'].down) <= 1
        BY <1>3, <3>1, <3>3, <4>1, <4>2 DEF Queued
      <4> QED
        BY <4>3 DEF Greets
    <3> QED
      BY <3>2, <3>3
  <2> QED
    BY <1>1, <2>1, <2>3, <2>4
<1> QED
  BY <1>1, <1>5, <1>8, <1>9, <1>10 DEF LinkInv

LEMMA ClientGoneKeepsLinkInv ==
  ASSUME LinkInv, ClientGone
  PROVE  LinkInv'
<1>1. PICK k \in Conn : k = srv.conn
  BY DEF LinkInv, IsServer, ClientGone
<1>2. /\ Serves(k) /\ IsWire(k) /\ Held(k) /\ IsServer /\ DOMAIN wire = Conn
      /\ wire' = [wire EXCEPT ![k].sOpen = FALSE, ![k].down = << >>]
      /\ srv' = [srv EXCEPT !.pc = "accept", !.conn = << >>]
      /\ UNCHANGED << sdk, backlog >>
      /\ wire[k].up = << >> /\ ~wire[k].cOpen /\ srv.out = << >>
  BY <1>1 DEF LinkInv, Serves, ClientGone
<1>3. /\ DOMAIN wire' = Conn /\ \A j \in Conn \ {k} : wire'[j] = wire[j]
      /\ IsWire(k)' /\ ~wire'[k].sOpen
  BY <1>2, SeqFacts, LinkAssumption DEF IsSocket, IsWire
<1>4. /\ IsServer' /\ \A j : ~Serves(j)' /\ (Queued(j)' <=> Queued(j))
      /\ \A j : Serves(j) => j = k
  BY <1>2 DEF IsServer, Serves, Queued
<1>5. ASSUME NEW j \in Conn PROVE IsWire(j)' /\ Held(j)'
  <2>1. IsWire(j) /\ Held(j)
    BY DEF LinkInv
  <2>2. CASE j = k
    <3>1. ~Queued(k)
      BY <1>2 DEF Held
    <3> QED
      BY <1>3, <1>4, <2>2, <3>1 DEF Held
  <2>3. CASE j # k
    <3>1. wire'[j] = wire[j]
      BY <1>3, <2>3
    <3> QED
      BY <1>2, <1>4, <2>1, <3>1 DEF Held, IsSocket, IsWire
  <2> QED
    BY <2>2, <2>3
<1>6. ASSUME NEW e \in Client PROVE IsClient(sdk'[e]) /\ Greets(e)' /\ Linked(e)'
  <2>1. IsClient(sdk[e]) /\ Greets(e) /\ Linked(e)
    BY DEF LinkInv
  <2>2. K(e)' = K(e) /\ Fresh(e)' = Fresh(e) /\ sdk' = sdk
    BY <1>2 DEF K, Fresh
  <2>3. Linked(e)'
    <3> SUFFICES ASSUME sdk[e].conn # 0 PROVE Linked(e)'
      BY <2>2 DEF Linked
    <3>1. K(e) \in Conn /\ K(e) # k
      BY <1>2, <2>1, OwnConnections DEF Linked
    <3>2. wire'[K(e)] = wire[K(e)] /\ ~wire[K(e)].sOpen
      BY <1>3, <1>4, <2>1, <3>1 DEF Linked
    <3> QED
      BY <2>1, <2>2, <3>2 DEF Linked
  <2>4. Greets(e)'
    <3> SUFFICES ASSUME sdk[e].pc = "handshake" PROVE Greets(e)'
      BY <2>2 DEF Greets
    <3>1. PICK f \in Conn : f = Fresh(e) /\ f = Fresh(e)'
      BY <2>2, OwnConnections
    <3>2. f # k
      BY <1>2, <2>1, <3>1 DEF Greets
    <3>3. /\ wire[f].cOpen
          /\ \/ Queued(f)
             \/ ~wire[f].sOpen /\ wire[f].up = << >> /\ Len(wire[f].down) <= 1
      BY <1>4, <2>1, <3>1, <3>2 DEF Greets
    <3>4. /\ wire'[Fresh(e)'].cOpen
          /\ \/ Queued(Fresh(e))'
             \/ /\ ~wire'[Fresh(e)'].sOpen /\ wire'[Fresh(e)'].up = << >>
                /\ Len(wire'[Fresh(e)'].down) <= 1
      BY <1>3, <1>4, <3>1, <3>2, <3>3 DEF Queued
    <3> QED
      BY <3>4 DEF Greets
  <2> QED
    BY <2>1, <2>2, <2>3, <2>4
<1> QED
  BY <1>2, <1>3, <1>4, <1>5, <1>6 DEF LinkInv

LEMMA DeathKeepsLinkInv ==
  ASSUME LinkInv, ServerDies
  PROVE  LinkInv'
<1>1. /\ IsServer /\ DOMAIN wire = Conn /\ UNCHANGED sdk
      /\ srv' = [srv EXCEPT !.pc = "down", !.conn = << >>, !.authed = FALSE,
                            !.out = << >>]
      /\ wire' = [k \in Conn |-> [wire[k] EXCEPT !.sOpen = FALSE, !.up = << >>]]
      /\ backlog' = << >>
  BY DEF LinkInv, ServerDies
<1>2. IsServer' /\ \A j : ~Serves(j)' /\ ~Queued(j)'
  <2>1. backlog' \in Seq(Conn) /\ Len(backlog') = 0 /\ 1..Len(backlog') = {}
    <3>1. << >> \in Seq(Conn) /\ Len(<< >>) = 0 /\ 1..0 = {}
      OBVIOUS
    <3> QED
      BY <1>1, <3>1
  <2> QED
    BY <1>1, <2>1, SeqFacts DEF IsServer, Serves, Queued
<1>3. ASSUME NEW j \in Conn
      PROVE  /\ IsWire(j)' /\ ~wire'[j].sOpen /\ wire'[j].up = << >>
             /\ wire'[j].cOpen = wire[j].cOpen /\ wire'[j].down = wire[j].down
  <2>1. IsWire(j)
    BY DEF LinkInv
  <2>2. << >> \in Seq(UpPacket(j[1])) /\ Len(<< >>) <= SockBuf
    BY LinkAssumption
  <2>3. wire'[j] = [wire[j] EXCEPT !.sOpen = FALSE, !.up = << >>]
    BY <1>1
  <2> QED
    BY <2>1, <2>2, <2>3 DEF IsSocket, IsWire
<1>4. \A j \in Conn : Held(j)'
  BY <1>2 DEF Held
<1>5. ASSUME NEW e \in Client PROVE IsClient(sdk'[e]) /\ Greets(e)' /\ Linked(e)'
  <2>1. IsClient(sdk[e]) /\ Greets(e) /\ Linked(e)
    BY DEF LinkInv
  <2>2. K(e)' = K(e) /\ Fresh(e)' = Fresh(e) /\ sdk' = sdk
    BY <1>1 DEF K, Fresh
  <2>3. Linked(e)'
    <3> SUFFICES ASSUME sdk[e].conn # 0 PROVE Linked(e)'
      BY <2>2 DEF Linked
    <3>1. K(e) \in Conn
      BY OwnConnections
    <3> QED
      BY <1>3, <2>1, <2>2, <3>1 DEF Linked
  <2>4. Greets(e)'
    <3> SUFFICES ASSUME sdk[e].pc = "handshake" PROVE Greets(e)'
      BY <2>2 DEF Greets
    <3>1. PICK f \in Conn : f = Fresh(e) /\ f = Fresh(e)'
      BY <2>2, OwnConnections
    <3>2. wire[f].cOpen /\ (Queued(f) \/ Len(wire[f].down) <= 1)
      <4>1. /\ wire[f].cOpen
            /\ Queued(f) \/ Len(wire[f].down) = 1 \/ Len(wire[f].down) <= 1
        BY <2>1, <3>1 DEF Greets
      <4>2. Len(wire[f].down) = 1 => Len(wire[f].down) <= 1
        OBVIOUS
      <4> QED
        BY <4>1, <4>2
    <3>3. Queued(f) => Len(wire[f].down) <= 1
      <4>1. Queued(f) => wire[f].down = << >>
        <5>1. Held(f)
          BY DEF LinkInv
        <5> QED
          BY <5>1 DEF Held
      <4>2. wire[f].down = << >> => Len(wire[f].down) = 0
        BY SeqFacts
      <4> QED
        BY <4>1, <4>2
    <3>4. /\ wire'[Fresh(e)'].cOpen
          /\ ~wire'[Fresh(e)'].sOpen /\ wire'[Fresh(e)'].up = << >>
          /\ Len(wire'[Fresh(e)'].down) <= 1
      BY <1>3, <3>1, <3>2, <3>3
    <3> QED
      BY <3>4 DEF Greets
  <2> QED
    BY <2>1, <2>2, <2>3, <2>4
<1> QED
  BY <1>1, <1>2, <1>3, <1>4, <1>5 DEF LinkInv

LEMMA StartKeepsLinkInv ==
  ASSUME LinkInv, ServerStarts
  PROVE  LinkInv'
<1>1. PICK db : /\ srv.pc = "down" /\ UNCHANGED << sdk, wire, backlog >>
                /\ srv' = [srv EXCEPT !.pc = "accept", !.db = db, !.users = Load(db)]
  BY DEF ServerStarts
<1>2. /\ IsServer' /\ \A j : ~Serves(j) /\ ~Serves(j)'
      /\ \A j : Queued(j)' <=> Queued(j)
  BY <1>1 DEF LinkInv, IsServer, Serves, Queued
<1>3. \A j \in Conn : IsWire(j)' /\ Held(j)'
  BY <1>1, <1>2 DEF LinkInv, IsSocket, IsWire, Held
<1>4. ASSUME NEW e \in Client PROVE IsClient(sdk'[e]) /\ Greets(e)' /\ Linked(e)'
  <2>1. IsClient(sdk[e]) /\ Greets(e) /\ Linked(e)
    BY DEF LinkInv
  <2>2. Linked(e)'
    BY <1>1, <1>2, <2>1 DEF Linked, K
  <2>3. Greets(e)'
    BY <1>1, <1>2, <2>1 DEF Greets, Fresh, Queued
  <2> QED
    BY <1>1, <2>1, <2>2, <2>3
<1> QED
  BY <1>1, <1>2, <1>3, <1>4 DEF LinkInv

-----------------------------------------------------------------------------
(* The invariant holds in every reachable state. *)

LEMMA LinkInitInv == LinkInit => LinkInv
<1> SUFFICES ASSUME LinkInit PROVE LinkInv
  OBVIOUS
<1>1. PICK db : srv = [pc |-> "accept", conn |-> << >>, authed |-> FALSE,
                       out |-> << >>, users |-> Load(db), db |-> db]
  BY DEF LinkInit
<1>2. IsServer /\ \A j : ~Serves(j) /\ ~Queued(j)
  BY <1>1, SeqFacts DEF LinkInit, IsServer, Serves, Queued
<1>3. IsClient(NewClient)
  <2>1. 0 \in 0..MaxConn /\ 0 \in 0..MaxCalls /\ 0 \in 0..0
    BY LinkAssumption
  <2> QED
    BY <2>1 DEF IsClient, NewClient, ClientFields, Pc, Status
<1>4. ASSUME NEW e \in Client PROVE IsClient(sdk[e]) /\ Greets(e) /\ Linked(e)
  <2>1. sdk[e] = NewClient
    BY DEF LinkInit
  <2> QED
    BY <1>3, <2>1 DEF Greets, Linked, NewClient
<1>5. ASSUME NEW k \in Conn PROVE IsWire(k) /\ Held(k)
  <2>1. wire[k] = Closed0
    BY DEF LinkInit
  <2>2. Len(<< >>) <= SockBuf /\ << >> \in Seq(UpPacket(k[1]))
    BY LinkAssumption
  <2> QED
    BY <1>2, <2>1, <2>2, SeqFacts DEF IsSocket, IsWire, Held, Closed0
<1> QED
  BY <1>2, <1>4, <1>5 DEF LinkInv, LinkInit

LEMMA LinkNextInv == LinkInv /\ TypeOK /\ [LinkNext]_allVars => LinkInv'
<1> SUFFICES ASSUME LinkInv, TypeOK, [LinkNext]_allVars PROVE LinkInv'
  OBVIOUS
<1>1. ASSUME NEW c \in Client, ClientStep(c) PROVE LinkInv'
  BY <1>1, HandshakeKeepsLinkInv, HandshakeFailureKeepsLinkInv,
     AnswersKeepLinkInv, LossKeepsLinkInv, SendingKeepsLinkInv DEF ClientStep
<1>2. ASSUME NEW c \in Client, UserStep(c) \/ Crash(c) PROVE LinkInv'
  BY <1>2, ConnectKeepsLinkInv, DroppingKeepsLinkInv, CallKeepsLinkInv
     DEF UserStep
<1>3. CASE ServerStep
  BY <1>3, AcceptKeepsLinkInv, ClientGoneKeepsLinkInv, SendOutKeepsLinkInv,
     ServeKeepsLinkInv DEF ServerStep
<1>4. CASE ServerDies \/ ServerStarts
  BY <1>4, DeathKeepsLinkInv, StartKeepsLinkInv
<1>5. CASE UNCHANGED allVars
  <2>1. UNCHANGED << sdk, wire, backlog, srv >>
    BY <1>5 DEF allVars
  <2>2. \A c \in Client : IsClient(sdk'[c]) /\ Greets(c)' /\ Linked(c)'
    BY <2>1 DEF LinkInv, Greets, Linked, K, Fresh, Queued, Serves
  <2>3. \A k \in Conn : IsWire(k)' /\ Held(k)'
    BY <2>1 DEF LinkInv, IsSocket, IsWire, Held, Queued, Serves
  <2>4. IsServer'
    BY <2>1 DEF LinkInv, IsServer
  <2> QED
    BY <2>1, <2>2, <2>3, <2>4 DEF LinkInv
<1> QED
  BY <1>1, <1>2, <1>3, <1>4, <1>5 DEF LinkNext

-----------------------------------------------------------------------------
(***************************************************************************)
(* Over the link nothing reaches the services but calls that Storage has.  *)
(***************************************************************************)

\* What the packets of each type carry.
LEMMA PacketFacts ==
  ASSUME NEW c \in Client, NEW p \in UpPacket(c)
  PROVE  /\ p.type \in {"DELETE", "MKDIR", "RMDIR", "RENAME"} =>
              p.arg.path \in Requested
         /\ p.type = "RENAME" => p.arg.to \in Requested
         /\ p.type \in {"UPLOAD_BEGIN", "UPLOAD_CHUNK", "UPLOAD_END"} =>
              p.arg.id \in UploadId
         /\ p.type = "UPLOAD_BEGIN" => p.arg.begin \in UploadBegin
         /\ p.type = "UPLOAD_CHUNK" => p.arg.offset \in Offset /\ p.arg.chunk \in Chunk
<1>1. CASE p \in UploadPacket(c)
  <2>1. OwnId(c) \subseteq UploadId
    BY LinkAssumption DEF OwnId
  <2> QED
    BY <1>1, <2>1 DEF UploadPacket
<1>2. CASE p \in PathPacket
  <2>1. \A req \in Requests : req.op # "UPLOAD" =>
          req.path \in Requested /\ (req.op = "RENAME" => req.to \in Requested)
    BY RequestAssumption
  <2> QED
    BY <1>2, <2>1 DEF PathPacket
<1>3. CASE p \in LoginPacket
  BY <1>3 DEF LoginPacket
<1> QED
  BY <1>1, <1>2, <1>3 DEF UpPacket

LEMMA ServeIsAStorageStep ==
  ASSUME LinkInv, Serve
  PROVE  Next \/ UNCHANGED vars
<1>1. PICK p \in NextPacket :
        \/ ServeAuth(p) \/ ServeList(p) \/ ServeDelete(p) \/ ServeRename(p)
        \/ ServeMkdir(p) \/ ServeRmdir(p)
        \/ ServeUploadBegin(p) \/ ServeUploadChunk(p) \/ ServeUploadEnd(p)
        \/ ServeDownload(p)
  BY DEF Serve
<1>2. \E c \in Client : p \in UpPacket(c)
  <2>1. PICK k \in Conn : k = srv.conn /\ wire[k].up # << >> /\ p = Head(wire[k].up)
    BY DEF NextPacket, LinkInv, IsServer
  <2>2. wire[k].up \in Seq(UpPacket(k[1])) /\ k[1] \in Client
    BY DEF LinkInv, IsSocket, IsWire, Conn
  <2> QED
    BY <2>1, <2>2, HeadAndTail
<1>3. CASE ServeAuth(p) \/ ServeList(p) \/ ServeDownload(p)
  BY <1>3 DEF ServeAuth, ServeList, ServeDownload, Guarded
<1>4. CASE ServeDelete(p)
  <2>1. p.arg.path \in Requested
    BY <1>2, <1>4, PacketFacts DEF ServeDelete, Receives
  <2>2. DeletePath(p.arg.path) \/ UNCHANGED vars
    BY <1>4 DEF ServeDelete, Guarded
  <2> QED
    BY <2>1, <2>2 DEF Next, NamespaceCall
<1>5. CASE ServeRename(p)
  <2>1. p.arg.path \in Requested /\ p.arg.to \in Requested
    BY <1>2, <1>5, PacketFacts DEF ServeRename, Receives
  <2>2. RenamePath(p.arg.path, p.arg.to) \/ UNCHANGED vars
    BY <1>5 DEF ServeRename, Guarded
  <2> QED
    BY <2>1, <2>2 DEF Next, NamespaceCall
<1>6. CASE ServeMkdir(p)
  <2>1. p.arg.path \in Requested
    BY <1>2, <1>6, PacketFacts DEF ServeMkdir, Receives
  <2>2. CreateDirectory(p.arg.path) \/ UNCHANGED vars
    BY <1>6 DEF ServeMkdir, Guarded
  <2> QED
    BY <2>1, <2>2 DEF Next, NamespaceCall
<1>7. CASE ServeRmdir(p)
  <2>1. p.arg.path \in Requested
    BY <1>2, <1>7, PacketFacts DEF ServeRmdir, Receives
  <2>2. RemoveDirectory(p.arg.path) \/ UNCHANGED vars
    BY <1>7 DEF ServeRmdir, Guarded
  <2> QED
    BY <2>1, <2>2 DEF Next, NamespaceCall
<1>8. CASE ServeUploadBegin(p)
  <2>1. p.arg.id \in UploadId /\ p.arg.begin \in UploadBegin
    BY <1>2, <1>8, PacketFacts DEF ServeUploadBegin, Receives
  <2>2. BeginUpload(p.arg.id, p.arg.begin) \/ UNCHANGED vars
    BY <1>8 DEF ServeUploadBegin, Guarded
  <2> QED
    BY <2>1, <2>2 DEF Next, UploadCall
<1>9. CASE ServeUploadChunk(p)
  <2>1. p.arg.id \in UploadId /\ p.arg.offset \in Offset /\ p.arg.chunk \in Chunk
    BY <1>2, <1>9, PacketFacts DEF ServeUploadChunk, Receives
  <2>2. WriteChunk(p.arg.id, p.arg.offset, p.arg.chunk) \/ UNCHANGED vars
    BY <1>9 DEF ServeUploadChunk, Guarded
  <2> QED
    BY <2>1, <2>2 DEF Next, UploadCall
<1>10. CASE ServeUploadEnd(p)
  <2>1. p.arg.id \in UploadId
    BY <1>2, <1>10, PacketFacts DEF ServeUploadEnd, Receives
  <2>2. FinishUpload(p.arg.id) \/ UNCHANGED vars
    BY <1>10 DEF ServeUploadEnd, Guarded
  <2> QED
    BY <2>1, <2>2 DEF Next, UploadCall
<1> QED
  BY <1>1, <1>3, <1>4, <1>5, <1>6, <1>7, <1>8, <1>9, <1>10

LEMMA LinkStepIsStorageStep == LinkInv /\ [LinkNext]_allVars => [Next]_vars
<1> SUFFICES ASSUME LinkInv, [LinkNext]_allVars PROVE Next \/ UNCHANGED vars
  OBVIOUS
<1>1. ASSUME NEW c \in Client, ClientStep(c) PROVE UNCHANGED vars
  BY <1>1 DEF ClientStep, HandshakeDone, HandshakeFails, AuthAnswered, AuthLost,
     SimpleAnswered, CallLost, UploadBegun, SendChunk, SendEnd, SendFails,
     UploadEnded, DownloadBegun, StreamReceived
<1>2. ASSUME NEW c \in Client, UserStep(c) \/ Crash(c) PROVE UNCHANGED vars
  BY <1>2 DEF UserStep, Connect, Disconnect, Call, Crash
<1>3. CASE Accept \/ ClientGone \/ SendOut
  BY <1>3 DEF Accept, ClientGone, SendOut
<1>4. CASE ServerDies \/ ServerStarts
  BY <1>4 DEF ServerDies, ServerStarts, Next
<1> QED
  BY <1>1, <1>2, <1>3, <1>4, ServeIsAStorageStep DEF LinkNext, ServerStep, allVars

\* The structure of the link and the types of the storage hold together.
LEMMA LinkIsSound == LinkSpec => [](LinkInv /\ TypeOK)
<1>1. LinkInit => LinkInv /\ TypeOK
  <2>1. Init => TypeOK
    BY DEF Init, TypeOK, Path, Root
  <2> QED
    BY <2>1, LinkInitInv DEF LinkInit
<1>2. LinkInv /\ TypeOK /\ [LinkNext]_allVars => (LinkInv /\ TypeOK)'
  BY LinkNextInv, LinkStepIsStorageStep, NextTypeOK
<1> QED
  BY <1>1, <1>2, PTL DEF LinkSpec

\* Clients, channels, backlog, the thread of the server and the storage keep
\* their types, whoever dies and whatever a user does.
THEOREM LinkTyping == LinkSpec => []LinkTypeOK
<1>1. LinkInv /\ TypeOK => LinkTypeOK
  BY DEF LinkInv, LinkTypeOK, IsClient, IsSocket, IsWire, IsServer
<1> QED
  BY <1>1, LinkIsSound, PTL

\* The server with its clients implements Storage: no order of packets, no login
\* and no death of a client or of the server makes the services do anything but
\* what Storage allows, so what is proved of Spec holds of the whole system.
THEOREM LinkImplementsStorage == LinkSpec => StorageSpec
<1>1. LinkInit => Init
  BY DEF LinkInit
<1> QED
  BY <1>1, LinkIsSound, LinkStepIsStorageStep, PTL DEF LinkSpec, StorageSpec, Spec

-----------------------------------------------------------------------------
(***************************************************************************)
(* No peer is forgotten: the invariant is NoPeerIsForgotten itself, over   *)
(* LinkInv.  Connect, HandshakeDone and the steps that give connections up *)
(* are the ones that change which connections a client holds.              *)
(***************************************************************************)

\* Steps after which every client holds what it held, and nothing is opened.
LEMMA HoldingAsBefore ==
  ASSUME NoPeerIsForgotten,
         \A e \in Client : sdk'[e].conn = sdk[e].conn /\ sdk'[e].socket = sdk[e].socket,
         \A j \in Conn : wire'[j].cOpen => wire[j].cOpen
  PROVE  NoPeerIsForgotten'
<1> SUFFICES ASSUME NEW j \in Conn, wire'[j].cOpen
             PROVE  j \in {K(j[1])', Fresh(j[1])'}
  BY DEF NoPeerIsForgotten
<1>1. j[1] \in Client /\ j \in {K(j[1]), Fresh(j[1])}
  BY DEF NoPeerIsForgotten, Conn
<1> QED
  BY <1>1 DEF K, Fresh

\* Steps of one client that change nothing it holds.
LEMMA HoldingInCall ==
  ASSUME NoPeerIsForgotten, NEW c \in Client,
         \A e \in Client \ {c} : sdk'[e] = sdk[e],
         sdk'[c].conn = sdk[c].conn, sdk'[c].socket = sdk[c].socket,
         \A j \in Conn : wire'[j].cOpen => wire[j].cOpen
  PROVE  NoPeerIsForgotten'
<1>1. \A e \in Client : sdk'[e].conn = sdk[e].conn /\ sdk'[e].socket = sdk[e].socket
  OBVIOUS
<1> QED
  BY <1>1, HoldingAsBefore

\* Steps of one client that change what this one holds.
LEMMA HoldingOfOne ==
  ASSUME NoPeerIsForgotten, NEW c \in Client,
         \A e \in Client \ {c} : sdk'[e] = sdk[e],
         \A j \in Conn : j[1] # c => wire'[j] = wire[j],
         \A j \in Conn : j[1] = c /\ wire'[j].cOpen => j \in {K(c)', Fresh(c)'}
  PROVE  NoPeerIsForgotten'
<1> SUFFICES ASSUME NEW j \in Conn, wire'[j].cOpen
             PROVE  j \in {K(j[1])', Fresh(j[1])'}
  BY DEF NoPeerIsForgotten
<1>1. CASE j[1] = c
  BY <1>1
<1>2. CASE j[1] # c
  <2>1. j[1] \in Client /\ j \in {K(j[1]), Fresh(j[1])} /\ sdk'[j[1]] = sdk[j[1]]
    BY <1>2 DEF NoPeerIsForgotten, Conn
  <2> QED
    BY <2>1 DEF K, Fresh
<1> QED
  BY <1>1, <1>2

\* A client that gives up connections tells the server.
LEMMA HangingUpForgetsNobody ==
  ASSUME LinkInv, NoPeerIsForgotten, NEW c \in Client,
         \A e \in Client \ {c} : sdk'[e] = sdk[e],
         NEW ks, NEW closed, wire' = Hangup(ks, closed), \A j \in ks : j[1] = c,
         sdk'[c].conn = sdk[c].conn \/ K(c) \in ks,
         sdk'[c].socket = sdk[c].socket \/ Fresh(c) \in ks
  PROVE  NoPeerIsForgotten'
<1>1. \A j \in Conn : wire'[j].cOpen = (wire[j].cOpen /\ j \notin ks)
                      /\ (j \notin ks => wire'[j] = wire[j])
  BY HangupEffect DEF LinkInv
<1>2. ASSUME NEW j \in Conn, j[1] = c, wire'[j].cOpen PROVE j \in {K(c)', Fresh(c)'}
  <2>1. j \in {K(c), Fresh(c)} /\ j \notin ks
    BY <1>1, <1>2 DEF NoPeerIsForgotten
  <2> QED
    BY <2>1 DEF K, Fresh
<1>3. \A j \in Conn : j[1] # c => wire'[j] = wire[j]
  BY <1>1
<1> QED
  BY <1>2, <1>3, HoldingOfOne

LEMMA ReturnHolds ==
  ASSUME NEW c \in Client, DOMAIN sdk = Client, DOMAIN sdk[c] = ClientFields,
         NEW status, Return(c, status)
  PROVE  sdk'[c].conn = sdk[c].conn /\ sdk'[c].socket = sdk[c].socket
BY DEF Return, ClientFields

LEMMA CallsForgetNobody ==
  ASSUME LinkInv, NoPeerIsForgotten, NEW c \in Client,
         \/ AuthAnswered(c) \/ AuthLost(c) \/ SimpleAnswered(c) \/ CallLost(c)
         \/ UploadBegun(c) \/ SendChunk(c) \/ SendEnd(c) \/ SendFails(c) \/ UploadEnded(c)
         \/ DownloadBegun(c) \/ StreamReceived(c) \/ \E req \in Requests : Call(c, req)
  PROVE  NoPeerIsForgotten'
<1>1. /\ DOMAIN sdk = Client /\ DOMAIN wire = Conn
      /\ DOMAIN sdk[c] = ClientFields
      /\ \A j \in Conn : IsSocket(wire[j])
  BY DEF LinkInv, IsClient, IsSocket, IsWire
<1>2. CASE AuthAnswered(c) \/ AuthLost(c) \/ SimpleAnswered(c) \/ CallLost(c) \/ SendFails(c)
  <2>1. \/ \E status : Return(c, status)
        \/ GoTo(c, "stuck")
        \/ sdk' = [sdk EXCEPT ![c].pc = "idle", ![c].state = "AUTHENTICATED",
                              ![c].req = NoRequest, ![c].status = "OK"]
    BY <1>2 DEF AuthAnswered, AuthLost, SimpleAnswered, CallLost, SendFails
  <2>2. \A e \in Client \ {c} : sdk'[e] = sdk[e]
    BY <1>1, <2>1 DEF Return, GoTo
  <2>3. sdk'[c].conn = sdk[c].conn /\ sdk'[c].socket = sdk[c].socket
    BY <1>1, <2>1, ReturnHolds DEF GoTo, ClientFields
  <2>4. wire' = wire \/ Consume(K(c))
    BY <1>2 DEF AuthAnswered, AuthLost, SimpleAnswered, CallLost, SendFails
  <2> QED
    BY <1>1, <2>2, <2>3, <2>4, HoldingInCall DEF Consume, IsSocket
<1>3. CASE UploadBegun(c) \/ UploadEnded(c) \/ DownloadBegun(c) \/ StreamReceived(c)
  <2>1. \/ \E status : Return(c, status)
        \/ GoTo(c, "chunks")
        \/ \E meta : sdk' = [sdk EXCEPT ![c].pc = "stream", ![c].meta = meta]
        \/ \E bytes : sdk' = [sdk EXCEPT ![c].local = @ \o bytes]
    BY <1>3 DEF UploadBegun, UploadEnded, DownloadBegun, StreamReceived
  <2>2. \A e \in Client \ {c} : sdk'[e] = sdk[e]
    BY <1>1, <2>1 DEF Return, GoTo
  <2>3. sdk'[c].conn = sdk[c].conn /\ sdk'[c].socket = sdk[c].socket
    BY <1>1, <2>1, ReturnHolds DEF GoTo, ClientFields
  <2>4. Consume(K(c))
    BY <1>3 DEF UploadBegun, UploadEnded, DownloadBegun, StreamReceived
  <2> QED
    BY <1>1, <2>2, <2>3, <2>4, HoldingInCall DEF Consume
<1>4. CASE SendChunk(c) \/ SendEnd(c)
  <2>1. \/ GoTo(c, "end")
        \/ \E chunk : sdk' = [sdk EXCEPT ![c].sent = @ + Len(chunk)]
    BY <1>4 DEF SendChunk, SendEnd
  <2>2. \A e \in Client \ {c} : sdk'[e] = sdk[e]
    BY <1>1, <2>1 DEF GoTo
  <2>3. sdk'[c].conn = sdk[c].conn /\ sdk'[c].socket = sdk[c].socket
    BY <1>1, <2>1 DEF GoTo, ClientFields
  <2>4. \E p : Send(K(c), p)
    BY <1>4 DEF SendChunk, SendEnd
  <2> QED
    BY <1>1, <2>2, <2>3, <2>4, HoldingInCall DEF Send
<1>5. ASSUME NEW req \in Requests, Call(c, req) PROVE NoPeerIsForgotten'
  <2>1. \/ \E pc : sdk' = [sdk EXCEPT ![c].pc = pc, ![c].req = req, ![c].call = @ + 1]
        \/ sdk' = [sdk EXCEPT ![c].call = @ + 1, ![c].status = "CONNECTION_FAILED"]
    BY <1>5 DEF Call
  <2>2. \A e \in Client \ {c} : sdk'[e] = sdk[e]
    BY <1>1, <2>1
  <2>3. sdk'[c].conn = sdk[c].conn /\ sdk'[c].socket = sdk[c].socket
    <3>1. ASSUME NEW pc, sdk' = [sdk EXCEPT ![c].pc = pc, ![c].req = req, ![c].call = @ + 1]
          PROVE  sdk'[c].conn = sdk[c].conn /\ sdk'[c].socket = sdk[c].socket
      BY <1>1, <3>1 DEF ClientFields
    <3>2. CASE sdk' = [sdk EXCEPT ![c].call = @ + 1, ![c].status = "CONNECTION_FAILED"]
      BY <1>1, <3>2 DEF ClientFields
    <3> QED
      BY <2>1, <3>1, <3>2
  <2>4. wire' = wire \/ \E p : Send(K(c), p)
    BY <1>5 DEF Call
  <2> QED
    BY <1>1, <2>2, <2>3, <2>4, HoldingInCall DEF Send, IsSocket
<1> QED
  BY <1>2, <1>3, <1>4, <1>5

LEMMA ConnectForgetsNobody ==
  ASSUME LinkInv, NoPeerIsForgotten, NEW c \in Client, Connect(c)
  PROVE  NoPeerIsForgotten'
<1>1. /\ IsClient(sdk[c]) /\ DOMAIN sdk = Client /\ DOMAIN wire = Conn
  BY DEF LinkInv
<1>2. sdk[c].pc = "idle" /\ sdk[c].socket \in {0, sdk[c].conn}
  <2>1. sdk[c].pc = "idle"
    BY DEF Connect
  <2> QED
    BY <1>1, <2>1 DEF IsClient
<1>3. \A j \in Conn : j[1] = c /\ wire[j].cOpen => j = K(c)
  <2>1. \A j \in Conn : j # << c, 0 >>
    BY DEF Conn
  <2> QED
    BY <1>2, <2>1 DEF NoPeerIsForgotten, K, Fresh
<1>4. PICK k : k = << c, sdk[c].opened + 1 >>
  OBVIOUS
<1>5. k = << c, k[2] >>
  BY <1>4
<1>6. \/ /\ wire' = wire
         /\ sdk' = [sdk EXCEPT ![c].call = @ + 1, ![c].socket = 0,
                               ![c].status = "CONNECTION_FAILED"]
      \/ /\ sdk' = [sdk EXCEPT ![c].pc = "handshake", ![c].call = @ + 1,
                               ![c].opened = @ + 1, ![c].socket = k[2]]
         /\ \E v : wire' = [wire EXCEPT ![k] = v]
  BY <1>4 DEF Connect
<1>7. CASE /\ wire' = wire
           /\ sdk' = [sdk EXCEPT ![c].call = @ + 1, ![c].socket = 0,
                                 ![c].status = "CONNECTION_FAILED"]
  <2>1. sdk'[c].conn = sdk[c].conn /\ \A e \in Client \ {c} : sdk'[e] = sdk[e]
    BY <1>1, <1>7 DEF IsClient, ClientFields
  <2>2. K(c)' = K(c)
    BY <2>1 DEF K
  <2>3. \A j \in Conn : wire'[j] = wire[j]
    BY <1>7
  <2>4. \A j \in Conn : j[1] = c /\ wire'[j].cOpen => j \in {K(c)', Fresh(c)'}
    BY <1>3, <2>2, <2>3
  <2> QED
    BY <2>1, <2>3, <2>4, HoldingOfOne
<1>8. ASSUME NEW v,
             sdk' = [sdk EXCEPT ![c].pc = "handshake", ![c].call = @ + 1,
                                ![c].opened = @ + 1, ![c].socket = k[2]],
             wire' = [wire EXCEPT ![k] = v]
      PROVE  NoPeerIsForgotten'
  <2>1. /\ sdk'[c].conn = sdk[c].conn /\ sdk'[c].socket = k[2]
        /\ \A e \in Client \ {c} : sdk'[e] = sdk[e]
    BY <1>1, <1>8 DEF IsClient, ClientFields
  <2>2. K(c)' = K(c) /\ Fresh(c)' = k
    BY <1>5, <2>1 DEF K, Fresh
  <2>3. \A j \in Conn : j # k => wire'[j] = wire[j]
    BY <1>1, <1>8
  <2>4. \A j \in Conn : j[1] # c => wire'[j] = wire[j]
    BY <1>4, <2>3
  <2>5. \A j \in Conn : j[1] = c /\ wire'[j].cOpen => j \in {K(c)', Fresh(c)'}
    BY <1>3, <2>2, <2>3
  <2> QED
    BY <2>1, <2>4, <2>5, HoldingOfOne
<1> QED
  BY <1>6, <1>7, <1>8

LEMMA HandshakeForgetsNobody ==
  ASSUME LinkInv, NoPeerIsForgotten, NEW c \in Client, HandshakeDone(c)
  PROVE  NoPeerIsForgotten'
<1>1. PICK k \in Conn : k = Fresh(c) /\ HandshakeOn(c, k)
  BY HandshakeEffect
<1>2. k # K(c) /\ Fresh(c) = k /\ K(c)' = k
  BY <1>1 DEF HandshakeOn, K, Fresh
<1>3. \A e \in Client \ {c} : sdk'[e] = sdk[e]
  BY <1>1 DEF HandshakeOn
<1>4. \A j \in Conn : j[1] # c => wire'[j] = wire[j]
  <2>1. \A j \in Conn : j[1] # c => j # k /\ j # K(c)
    BY <1>1 DEF HandshakeOn, K
  <2> QED
    BY <1>1, <2>1 DEF HandshakeOn
<1>5. ASSUME K(c) \in Conn PROVE ~wire'[K(c)].cOpen
  <2>1. wire'[K(c)] = Hangup({K(c)} \ {k}, {})[K(c)]
    BY <1>2, <1>5 DEF HandshakeDone, Hangup
  <2> QED
    BY <1>2, <1>5, <2>1, HangupEffect DEF LinkInv
<1>6. ASSUME NEW j \in Conn, j[1] = c, wire'[j].cOpen PROVE j \in {K(c)', Fresh(c)'}
  <2>1. CASE j = k
    BY <1>2, <2>1
  <2>2. CASE j # k
    <3>1. wire[j].cOpen
      BY <1>1, <1>6, <2>2 DEF HandshakeOn
    <3>2. j = K(c)
      BY <1>2, <1>6, <2>2, <3>1 DEF NoPeerIsForgotten
    <3> QED
      BY <1>5, <1>6, <3>2
  <2> QED
    BY <2>1, <2>2
<1> QED
  BY <1>3, <1>4, <1>6, HoldingOfOne

LEMMA DroppingForgetsNobody ==
  ASSUME LinkInv, NoPeerIsForgotten, NEW c \in Client,
         HandshakeFails(c) \/ Disconnect(c) \/ Crash(c)
  PROVE  NoPeerIsForgotten'
<1>1. IsClient(sdk[c]) /\ DOMAIN sdk = Client
  BY DEF LinkInv
<1>2. CASE HandshakeFails(c)
  <2>1. /\ wire' = Hangup({Fresh(c)}, {Fresh(c)}) /\ sdk'[c].conn = sdk[c].conn
        /\ \A e \in Client \ {c} : sdk'[e] = sdk[e]
    BY <1>1, <1>2 DEF HandshakeFails, IsClient, ClientFields
  <2>2. \A j \in {Fresh(c)} : j[1] = c
    BY DEF Fresh
  <2> QED
    BY <2>1, <2>2, HangingUpForgetsNobody
<1>3. CASE Disconnect(c)
  <2>1. /\ wire' = Hangup({K(c), Fresh(c)}, {Fresh(c)})
        /\ \A e \in Client \ {c} : sdk'[e] = sdk[e]
    BY <1>1, <1>3 DEF Disconnect
  <2>2. \A j \in {K(c), Fresh(c)} : j[1] = c
    BY DEF K, Fresh
  <2> QED
    BY <2>1, <2>2, HangingUpForgetsNobody
<1>4. CASE Crash(c)
  <2>1. PICK ks : /\ ks = { j \in Conn : j[1] = c } /\ wire' = Hangup(ks, ks)
                  /\ \A e \in Client \ {c} : sdk'[e] = sdk[e]
    BY <1>1, <1>4 DEF Crash, ProcessEnds
  <2>2. \A j \in Conn : /\ wire'[j].cOpen => j[1] # c
                        /\ j[1] # c => wire'[j] = wire[j]
    BY <2>1, HangupEffect DEF LinkInv
  <2> QED
    BY <2>1, <2>2, HoldingOfOne
<1> QED
  BY <1>2, <1>3, <1>4

LEMMA ServerForgetsNobody ==
  ASSUME LinkInv, NoPeerIsForgotten, ServerStep \/ ServerDies \/ ServerStarts
  PROVE  NoPeerIsForgotten'
<1>1. DOMAIN wire = Conn /\ \A j \in Conn : IsSocket(wire[j])
  BY DEF LinkInv, IsSocket, IsWire
<1>2. sdk' = sdk /\ \A j \in Conn : wire'[j].cOpen = wire[j].cOpen
  <2>1. CASE Serve
    <3>1. \E type, p : Receives(type, p)
      BY <2>1
         DEF Serve, ServeAuth, ServeList, ServeDelete, ServeRename, ServeMkdir, ServeRmdir,
             ServeUploadBegin, ServeUploadChunk, ServeUploadEnd, ServeDownload
    <3> QED
      BY <1>1, <3>1 DEF Receives
  <2>2. CASE Accept
    <3>1. PICK k : k = Head(backlog)
      OBVIOUS
    <3>2. /\ sdk' = sdk
          /\ \/ wire' = [wire EXCEPT ![k].up = Tail(@),
                                     ![k].down = Append(@, Head(wire[k].up))]
             \/ wire' = [wire EXCEPT ![k].up = << >>, ![k].sOpen = FALSE]
      BY <2>2, <3>1 DEF Accept
    <3> QED
      BY <1>1, <3>2 DEF IsSocket
  <2>3. CASE ClientGone \/ SendOut
    BY <1>1, <2>3 DEF IsSocket, ClientGone, SendOut
  <2>4. CASE ServerDies
    BY <1>1, <2>4 DEF ServerDies, IsSocket
  <2>5. CASE ServerStarts
    BY <2>5 DEF ServerStarts
  <2> QED
    BY <2>1, <2>2, <2>3, <2>4, <2>5 DEF ServerStep
<1> QED
  BY <1>2, HoldingAsBefore

LEMMA NextForgetsNobody ==
  ASSUME LinkInv, NoPeerIsForgotten, [LinkNext]_allVars
  PROVE  NoPeerIsForgotten'
<1>1. ASSUME NEW c \in Client, ClientStep(c) \/ UserStep(c) \/ Crash(c)
      PROVE  NoPeerIsForgotten'
  BY <1>1, CallsForgetNobody, ConnectForgetsNobody, HandshakeForgetsNobody, DroppingForgetsNobody
     DEF ClientStep, UserStep
<1>2. CASE UNCHANGED allVars
  BY <1>2 DEF allVars, NoPeerIsForgotten, K, Fresh
<1> QED
  BY <1>1, <1>2, ServerForgetsNobody DEF LinkNext

\* However often a client connects, is refused, fails in the handshake or connects
\* again while it is connected: every connection it holds no more has been shut
\* down, so that a server which is still at it comes free.
THEOREM PeersAreTold == LinkSpec => []NoPeerIsForgotten
<1>1. LinkInit => NoPeerIsForgotten
  BY DEF LinkInit, NoPeerIsForgotten, Closed0
<1>2. LinkInv /\ NoPeerIsForgotten /\ [LinkNext]_allVars => NoPeerIsForgotten'
  BY NextForgetsNobody
<1> QED
  BY <1>1, <1>2, LinkIsSound, PTL DEF LinkSpec

=============================================================================
