----------------------------- MODULE LoginProofs -----------------------------
(***************************************************************************)
(* The two ends of a connection agree on who is logged in, for every       *)
(* number of clients, connections and calls and every set of failures.     *)
(***************************************************************************)
EXTENDS LinkProofs, InductionLemmas

-----------------------------------------------------------------------------
(***************************************************************************)
(* BothEndsAgreeOnLogin says nothing of a client that waits for the answer *)
(* to its credentials.  The invariant follows these through the request,   *)
(* the verdict the server has still to send and the verdict on its way,    *)
(* and says that no request is left once a client is not waiting.  The     *)
(* credentials in the request are the ones that were typed, and a client   *)
(* that waits is let in only if the server found them in its database.     *)
(***************************************************************************)
NoLogin(s) == \A n \in 1..Len(s) : s[n].type # "AUTH_REQUEST"

IsVerdict(s) ==
  Len(s) = 1 /\ s[1].type = "AUTH_RESPONSE" /\ (s[1].arg <=> srv.authed)

Vouched(login) == Authenticate(srv.users, login[1], login[2])

Asks(c) ==
  LET k == K(c) IN
  /\ sdk[c].state = "CONNECTED_UNAUTHENTICATED"
  /\ wire[k].up # << >> =>
       /\ wire[k].down = << >>
       /\ Len(wire[k].up) = 1 /\ wire[k].up[1].type = "AUTH_REQUEST"
       /\ wire[k].up[1].arg = sdk[c].req.login
       /\ Serves(k) => ~srv.authed /\ srv.out = << >>
  /\ Serves(k) /\ srv.authed => Vouched(sdk[c].req.login)
  /\ Serves(k) /\ wire[k].down # << >> =>
       srv.out = << >> /\ IsVerdict(wire[k].down)
  /\ Serves(k) /\ srv.out # << >> => IsVerdict(srv.out)

Knows(c) ==
  Serves(K(c)) =>
    /\ NoLogin(wire[K(c)].up)
    /\ srv.authed <=> sdk[c].state = "AUTHENTICATED"

LoggingIn(c) ==
  sdk[c].conn # 0 => IF sdk[c].pc = "auth" THEN Asks(c) ELSE Knows(c)

LoginInv == \A c \in Client : LoggingIn(c)

-----------------------------------------------------------------------------
(* The steps of clients. *)

LEMMA LoginUntouched ==
  ASSUME LinkInv, NEW e \in Client, LoggingIn(e), sdk'[e] = sdk[e], srv' = srv,
         sdk[e].conn # 0 => /\ wire'[K(e)].up = wire[K(e)].up
                            /\ wire'[K(e)].down = wire[K(e)].down
  PROVE  LoggingIn(e)'
<1> SUFFICES ASSUME sdk[e].conn # 0 PROVE LoggingIn(e)'
  BY DEF LoggingIn
<1>1. K(e)' = K(e)
  BY DEF K
<1>2. CASE sdk[e].pc = "auth"
  BY <1>1, <1>2 DEF LoggingIn, Asks, Vouched, IsVerdict, Serves
<1>3. CASE sdk[e].pc # "auth"
  BY <1>1, <1>3 DEF LoggingIn, Knows, NoLogin, Serves
<1> QED
  BY <1>2, <1>3

LEMMA LoginInCall ==
  ASSUME LinkInv, NEW e \in Client, LoggingIn(e), srv' = srv,
         sdk[e].pc # "auth", sdk'[e].pc # "auth",
         sdk'[e].conn = sdk[e].conn, sdk'[e].state = sdk[e].state,
         sdk[e].conn # 0 /\ NoLogin(wire[K(e)].up) => NoLogin(wire'[K(e)].up)
  PROVE  LoggingIn(e)'
<1> SUFFICES ASSUME sdk[e].conn # 0 PROVE LoggingIn(e)'
  BY DEF LoggingIn
<1>1. K(e)' = K(e)
  BY DEF K
<1>2. Serves(K(e)) =>
        /\ NoLogin(wire'[K(e)].up)
        /\ srv.authed <=> sdk[e].state = "AUTHENTICATED"
  BY DEF LoggingIn, Knows
<1>3. Serves(K(e)') =>
        /\ NoLogin(wire'[K(e)'].up)
        /\ srv.authed <=> sdk[e].state = "AUTHENTICATED"
  BY <1>1, <1>2
<1> QED
  BY <1>1, <1>3 DEF LoggingIn, Knows, NoLogin, Serves

\* What a client does touches no other client's login.
LEMMA LoginOfOthers ==
  ASSUME LinkInv, LoginInv, NEW c \in Client, srv' = srv,
         \A e \in Client \ {c} : sdk'[e] = sdk[e],
         \A j \in Conn : j[1] # c => wire'[j] = wire[j],
         LoggingIn(c)'
  PROVE  LoginInv'
<1>1. ASSUME NEW e \in Client, e # c PROVE LoggingIn(e)'
  <2>1. sdk[e].conn # 0 => K(e) \in Conn /\ K(e)[1] = e
    BY OwnConnections DEF K
  <2>2. sdk'[e] = sdk[e] /\ LoggingIn(e)
    BY <1>1 DEF LoginInv
  <2> QED
    BY <1>1, <2>1, <2>2, LoginUntouched
<1> QED
  BY <1>1 DEF LoginInv

\* A send or a receive of client c leaves the other connections alone.
LEMMA OneConnection ==
  ASSUME LinkInv, NEW c \in Client, NEW k \in Conn, k = K(c),
         \A j \in Conn \ {k} : wire'[j] = wire[j]
  PROVE  \A j \in Conn : j[1] # c => wire'[j] = wire[j]
BY DEF K

\* What a packet more does to a channel without a request for a login.
LEMMA AppendNoLogin ==
  ASSUME NEW S, NEW s \in Seq(S), NoLogin(s), NEW p, p.type # "AUTH_REQUEST"
  PROVE  NoLogin(Append(s, p))
<1>1. IsSeq(s)
  BY SeqFacts
<1>2. /\ Len(s) \in Nat /\ Len(Append(s, p)) = Len(s) + 1
      /\ Append(s, p)[Len(s) + 1] = p
      /\ \A n \in 1..Len(s) : Append(s, p)[n] = s[n]
  BY <1>1, AnySeq
<1>3. \A n \in 1..Len(Append(s, p)) : n \in 1..Len(s) \/ n = Len(s) + 1
  BY <1>2
<1> QED
  BY <1>2, <1>3 DEF NoLogin

LEMMA AnswersKeepLogin ==
  ASSUME LinkInv, LoginInv, NEW c \in Client,
         \/ SimpleAnswered(c) \/ UploadBegun(c) \/ UploadEnded(c)
         \/ DownloadBegun(c) \/ StreamReceived(c)
  PROVE  LoginInv'
<1>1. /\ IsClient(sdk[c]) /\ DOMAIN sdk = Client /\ LoggingIn(c)
      /\ sdk[c].pc \in {"simple", "begin", "end", "request", "stream"}
      /\ CanReceive(K(c)) /\ Consume(K(c)) /\ srv' = srv
  BY DEF LinkInv, LoginInv, SimpleAnswered, UploadBegun, UploadEnded,
         DownloadBegun, StreamReceived
<1>2. PICK k \in Conn : k = K(c)
  BY <1>1, OwnConnections DEF IsClient
<1>3. /\ \A j \in Conn \ {k} : wire'[j] = wire[j]
      /\ wire'[k].up = wire[k].up
  BY <1>1, <1>2, ReceiveEffect
<1>4. /\ \A e \in Client \ {c} : sdk'[e] = sdk[e]
      /\ sdk'[c].pc # "auth" /\ sdk'[c].conn = sdk[c].conn
      /\ sdk'[c].state = sdk[c].state
  <2>1. ASSUME NEW status, Return(c, status) PROVE <1>4!:
    BY <1>1, <2>1 DEF Return, IsClient, ClientFields
  <2>2. CASE GoTo(c, "chunks")
    BY <1>1, <2>2 DEF GoTo, IsClient, ClientFields
  <2>3. ASSUME NEW meta, sdk' = [sdk EXCEPT ![c].pc = "stream", ![c].meta = meta]
        PROVE  <1>4!:
    BY <1>1, <2>3 DEF IsClient, ClientFields
  <2>4. ASSUME NEW local, sdk' = [sdk EXCEPT ![c].local = local] PROVE <1>4!:
    BY <1>1, <2>4 DEF IsClient, ClientFields
  <2>5. CASE SimpleAnswered(c)
    BY <2>1, <2>5 DEF SimpleAnswered
  <2>6. CASE UploadBegun(c)
    BY <2>1, <2>2, <2>6 DEF UploadBegun
  <2>7. CASE UploadEnded(c)
    BY <2>1, <2>7 DEF UploadEnded
  <2>8. CASE DownloadBegun(c)
    BY <2>1, <2>3, <2>8 DEF DownloadBegun
  <2>9. CASE StreamReceived(c)
    BY <2>1, <2>4, <2>9 DEF StreamReceived
  <2> QED
    BY <2>5, <2>6, <2>7, <2>8, <2>9
<1>5. LoggingIn(c)'
  <2>1. wire'[K(c)].up = wire[K(c)].up
    BY <1>2, <1>3
  <2>2. sdk[c].pc # "auth"
    BY <1>1
  <2> QED
    BY <1>1, <1>4, <2>1, <2>2, LoginInCall
<1> QED
  BY <1>1, <1>2, <1>3, <1>4, <1>5, OneConnection, LoginOfOthers

LEMMA SendsKeepLogin ==
  ASSUME LinkInv, LoginInv, NEW c \in Client,
         SendChunk(c) \/ SendEnd(c) \/ \E req \in Requests : Call(c, req)
  PROVE  LoginInv'
<1>1. /\ IsClient(sdk[c]) /\ DOMAIN sdk = Client /\ LoggingIn(c)
      /\ sdk[c].pc \in {"idle", "chunks"} /\ sdk[c].conn # 0 /\ srv' = srv
  BY DEF LinkInv, LoginInv, IsClient, SendChunk, SendEnd, Call
<1>2. PICK k \in Conn : k = K(c)
  BY <1>1, OwnConnections
<1>3. \/ wire' = wire
      \/ \E p : p.type # "AUTH_REQUEST" /\ Send(k, p)
  <2>1. CASE SendChunk(c)
    <3>1. PICK chunk : Send(k, Packet("UPLOAD_CHUNK", sdk[c].call,
                            [ id     |-> << c, sdk[c].call >>,
                              offset |-> sdk[c].sent,
                              chunk  |-> chunk ]))
      BY <1>2, <2>1 DEF SendChunk
    <3> QED
      BY <3>1 DEF Packet
  <2>2. CASE SendEnd(c)
    <3>1. Send(k, Packet("UPLOAD_END", sdk[c].call, [id |-> << c, sdk[c].call >>]))
      BY <1>2, <2>2 DEF SendEnd
    <3> QED
      BY <3>1 DEF Packet
  <2>3. ASSUME NEW req \in Requests, Call(c, req) PROVE <1>3!:
    <3>1. Send(k, Opening(c, req)) \/ wire' = wire
      BY <1>2, <2>3 DEF Call
    <3>2. Opening(c, req).type # "AUTH_REQUEST"
      <4>1. req.op \in {"LIST", "DELETE", "MKDIR", "RMDIR", "DOWNLOAD", "RENAME", "UPLOAD"}
        BY RequestAssumption
      <4> QED
        BY <4>1 DEF Opening, Packet
    <3> QED
      BY <3>1, <3>2
  <2> QED
    BY <2>1, <2>2, <2>3
<1>4. /\ \A j \in Conn \ {k} : wire'[j] = wire[j]
      /\ NoLogin(wire[k].up) => NoLogin(wire'[k].up)
  <2>1. IsWire(k) /\ DOMAIN wire = Conn
    BY DEF LinkInv
  <2>2. ASSUME NEW p, p.type # "AUTH_REQUEST", Send(k, p) PROVE <1>4!:
    <3>1. wire'[k].up = Append(wire[k].up, p) /\ \A j \in Conn \ {k} : wire'[j] = wire[j]
      BY <2>1, <2>2 DEF Send, IsSocket, IsWire
    <3>2. wire[k].up \in Seq(UpPacket(k[1]))
      BY <2>1 DEF IsSocket, IsWire
    <3> QED
      BY <2>2, <3>1, <3>2, AppendNoLogin
  <2> QED
    BY <1>3, <2>2
<1>5. /\ \A e \in Client \ {c} : sdk'[e] = sdk[e]
      /\ sdk'[c].pc # "auth" /\ sdk'[c].conn = sdk[c].conn
      /\ sdk'[c].state = sdk[c].state
  <2>1. CASE SendChunk(c)
    BY <1>1, <2>1 DEF SendChunk, IsClient, ClientFields
  <2>2. CASE SendEnd(c)
    BY <1>1, <2>2 DEF SendEnd, GoTo, IsClient, ClientFields
  <2>3. ASSUME NEW req \in Requests, Call(c, req) PROVE <1>5!:
    <3>1. Sdk(req.op) \in {"begin", "request", "simple"}
      BY DEF Sdk
    <3>2. CASE sdk' = [sdk EXCEPT ![c].pc = Sdk(req.op), ![c].req = req,
                                  ![c].call = @ + 1]
      BY <1>1, <3>1, <3>2 DEF IsClient, ClientFields
    <3>3. CASE sdk' = [sdk EXCEPT ![c].call = @ + 1,
                                  ![c].status = "CONNECTION_FAILED"]
      <4>1. sdk[c].pc = "idle"
        BY <2>3 DEF Call
      <4> QED
        BY <1>1, <3>3, <4>1 DEF IsClient, ClientFields
    <3> QED
      BY <2>3, <3>2, <3>3 DEF Call
  <2> QED
    BY <2>1, <2>2, <2>3
<1>6. LoggingIn(c)'
  BY <1>1, <1>2, <1>4, <1>5, LoginInCall
<1> QED
  BY <1>1, <1>2, <1>4, <1>5, <1>6, OneConnection, LoginOfOthers

\* A client that finds its connection lost is not the one that is served.
LEMMA LossKeepsLogin ==
  ASSUME LinkInv, LoginInv, NEW c \in Client, AuthLost(c) \/ CallLost(c) \/ SendFails(c)
  PROVE  LoginInv'
<1>1. /\ IsClient(sdk[c]) /\ DOMAIN sdk = Client
      /\ sdk[c].pc \in {"auth", "simple", "begin", "end", "request", "stream", "chunks"}
      /\ sdk[c].conn # 0 /\ ~wire[K(c)].sOpen /\ wire' = wire /\ srv' = srv
  BY DEF LinkInv, IsClient, AuthLost, CallLost, SendFails, Lost
<1>2. PICK k \in Conn : k = K(c)
  BY <1>1, OwnConnections
<1>3. ~Serves(k)
  BY <1>1, <1>2 DEF LinkInv, Held
<1>4. /\ \A e \in Client \ {c} : sdk'[e] = sdk[e]
      /\ sdk'[c].pc # "auth" /\ sdk'[c].conn = sdk[c].conn
  BY <1>1 DEF AuthLost, CallLost, SendFails, GoTo, Return, IsClient, ClientFields
<1>5. LoggingIn(c)'
  <2>1. K(c)' = k
    BY <1>2, <1>4 DEF K
  <2> QED
    BY <1>1, <1>3, <1>4, <2>1 DEF LoggingIn, Knows, Serves
<1> QED
  BY <1>1, <1>4, <1>5, LoginOfOthers

\* The verdict reaches the client: from now on both ends know.
LEMMA AuthAnsweredKeepsLogin ==
  ASSUME LinkInv, LoginInv, NEW c \in Client, AuthAnswered(c)
  PROVE  LoginInv'
<1>1. /\ IsClient(sdk[c]) /\ DOMAIN sdk = Client /\ LoggingIn(c)
      /\ sdk[c].pc = "auth" /\ sdk[c].conn # 0 /\ srv' = srv
      /\ CanReceive(K(c)) /\ Consume(K(c))
  BY DEF LinkInv, LoginInv, IsClient, AuthAnswered
<1>2. PICK k \in Conn : k = K(c)
  BY <1>1, OwnConnections
<1>3. /\ \A j \in Conn \ {k} : wire'[j] = wire[j]
      /\ wire'[k].up = wire[k].up /\ wire[k].down # << >>
  BY <1>1, <1>2, ReceiveEffect DEF CanReceive
<1>4. /\ sdk[c].state = "CONNECTED_UNAUTHENTICATED"
      /\ wire[k].up = << >>
      /\ Serves(k) => IsVerdict(wire[k].down)
  BY <1>1, <1>2, <1>3 DEF LoggingIn, Asks
<1>5. Serves(k) => /\ Received(k).type = "AUTH_RESPONSE"
                   /\ Received(k).arg <=> srv.authed
  <2>1. IsSeq(wire[k].down)
    BY DEF LinkInv, IsSocket, IsWire
  <2>2. Received(k) = wire[k].down[1]
    BY <1>3, <2>1, AnySeq DEF Received
  <2> QED
    BY <1>4, <2>2 DEF IsVerdict
<1>6. /\ \A e \in Client \ {c} : sdk'[e] = sdk[e]
      /\ sdk'[c].pc = "idle" /\ sdk'[c].conn = sdk[c].conn
      /\ Serves(k) => (srv.authed <=> sdk'[c].state = "AUTHENTICATED")
  <2>1. CASE /\ Received(k).type = "AUTH_RESPONSE" /\ Received(k).arg
             /\ sdk' = [sdk EXCEPT ![c].pc = "idle", ![c].state = "AUTHENTICATED",
                                   ![c].req = NoRequest, ![c].status = "OK"]
    <3>1. /\ \A e \in Client \ {c} : sdk'[e] = sdk[e]
          /\ sdk'[c].pc = "idle" /\ sdk'[c].conn = sdk[c].conn
          /\ sdk'[c].state = "AUTHENTICATED"
      BY <1>1, <2>1 DEF IsClient, ClientFields
    <3> QED
      BY <1>5, <2>1, <3>1
  <2>2. CASE /\ ~(Received(k).type = "AUTH_RESPONSE" /\ Received(k).arg)
             /\ Return(c, "AUTH_FAILED")
    <3>1. /\ \A e \in Client \ {c} : sdk'[e] = sdk[e]
          /\ sdk'[c].pc = "idle" /\ sdk'[c].conn = sdk[c].conn
          /\ sdk'[c].state = "CONNECTED_UNAUTHENTICATED"
      BY <1>1, <1>4, <2>2 DEF Return, IsClient, ClientFields
    <3> QED
      BY <1>5, <2>2, <3>1
  <2> QED
    BY <1>2, <2>1, <2>2 DEF AuthAnswered
<1>7. LoggingIn(c)'
  <2>1. K(c)' = k
    BY <1>2, <1>6 DEF K
  <2>2. NoLogin(<< >>)
    BY SeqFacts DEF NoLogin
  <2>3. Serves(k)' <=> Serves(k)
    BY <1>1 DEF Serves
  <2>4. Serves(k) => /\ NoLogin(wire'[k].up)
                     /\ srv'.authed <=> sdk'[c].state = "AUTHENTICATED"
    BY <1>1, <1>3, <1>4, <1>6, <2>2
  <2> QED
    BY <1>6, <2>1, <2>3, <2>4 DEF LoggingIn, Knows, NoLogin, Serves
<1> QED
  BY <1>1, <1>2, <1>3, <1>6, <1>7, OneConnection, LoginOfOthers

LEMMA HandshakeKeepsLogin ==
  ASSUME LinkInv, LoginInv, NEW c \in Client, HandshakeDone(c)
  PROVE  LoginInv'
<1>1. PICK k \in Conn : k = Fresh(c) /\ HandshakeOn(c, k)
  BY HandshakeEffect
<1>2. /\ sdk[c].pc = "handshake" /\ Greets(c) /\ IsWire(k) /\ srv' = srv
  BY <1>1 DEF LinkInv, HandshakeDone, HandshakeOn
<1>3. /\ \A e \in Client \ {c} : sdk'[e] = sdk[e]
      /\ \A j \in Conn : j[1] # c => wire'[j] = wire[j]
  BY <1>1 DEF HandshakeOn, K
<1>4. /\ K(c)' = k /\ sdk'[c].state = "CONNECTED_UNAUTHENTICATED"
      /\ sdk'[c].pc = "auth" \/ ~wire[k].sOpen
  BY <1>1 DEF HandshakeOn, K, Fresh
<1>5. CASE ~Serves(k)
  <2>1. sdk'[c].pc # "auth"
    BY <1>1, <1>5 DEF HandshakeOn
  <2> QED
    <3>1. LoggingIn(c)'
      BY <1>2, <1>4, <1>5, <2>1 DEF LoggingIn, Knows, Serves
    <3> QED
      BY <1>2, <1>3, <3>1, LoginOfOthers
<1>6. CASE Serves(k)
  <2>1. ~srv.authed /\ srv.out = << >> /\ Len(wire[k].down) = 1
    <3>1. wire[k].sOpen /\ ~Queued(k)
      BY <1>6 DEF LinkInv, Held
    <3> QED
      BY <1>1, <1>2, <3>1 DEF Greets
  <2>2. wire'[k].down = << >>
    <3>1. IsSeq(wire[k].down) /\ wire[k].down # << >>
      BY <1>1, <1>2 DEF IsSocket, IsWire, HandshakeOn
    <3>2. IsSeq(Tail(wire[k].down)) /\ Len(Tail(wire[k].down)) = 0
      BY <2>1, <3>1, AnySeq
    <3>3. Tail(wire[k].down) = << >>
      BY <3>2, AnySeq
    <3> QED
      BY <1>1, <3>3 DEF HandshakeOn
  <2>3. /\ Len(wire'[k].up) = 1 /\ wire'[k].up[1].type = "AUTH_REQUEST"
        /\ wire'[k].up[1].arg = sdk'[c].req.login
    <3>1. wire'[k].up = << Packet("AUTH_REQUEST", sdk[c].call, sdk'[c].req.login) >>
      BY <1>1 DEF HandshakeOn
    <3> QED
      BY <3>1 DEF Packet
  <2>4. sdk'[c].pc = "auth"
    <3>1. wire[k].sOpen
      BY <1>6 DEF LinkInv, Held
    <3> QED
      BY <1>4, <3>1
  <2>5. Asks(c)'
    BY <1>2, <1>4, <2>1, <2>2, <2>3 DEF Asks
  <2>6. LoggingIn(c)'
    BY <2>4, <2>5 DEF LoggingIn
  <2> QED
    BY <1>2, <1>3, <2>6, LoginOfOthers
<1> QED
  BY <1>5, <1>6

\* A connection that is set up leaves the one the client has as it is.
LEMMA ConnectingFrame ==
  ASSUME LinkInv, NEW c \in Client, Connect(c) \/ HandshakeFails(c)
  PROVE  /\ \A e \in Client \ {c} : sdk'[e] = sdk[e]
         /\ sdk[c].pc \in {"idle", "handshake"} /\ sdk'[c].pc \in {"idle", "handshake"}
         /\ sdk'[c].conn = sdk[c].conn /\ sdk'[c].state = sdk[c].state
         /\ sdk'[c].sent = sdk[c].sent /\ sdk'[c].local = sdk[c].local
         /\ \A j \in Conn : j[1] # c => wire'[j] = wire[j]
         /\ sdk[c].conn # 0 => wire'[K(c)] = wire[K(c)]
         /\ srv' = srv
<1>1. /\ IsClient(sdk[c]) /\ DOMAIN sdk = Client /\ DOMAIN wire = Conn
      /\ sdk[c].pc \in {"idle", "handshake"} /\ srv' = srv
  BY DEF LinkInv, Connect, HandshakeFails
<1>2. /\ \A e \in Client \ {c} : sdk'[e] = sdk[e]
      /\ sdk'[c].pc \in {"idle", "handshake"} /\ sdk'[c].conn = sdk[c].conn
      /\ sdk'[c].state = sdk[c].state
      /\ sdk'[c].sent = sdk[c].sent /\ sdk'[c].local = sdk[c].local
  <2>1. CASE HandshakeFails(c)
    BY <1>1, <2>1 DEF HandshakeFails, IsClient, ClientFields
  <2>2. CASE sdk' = [sdk EXCEPT ![c].call = @ + 1, ![c].socket = 0,
                                ![c].status = "CONNECTION_FAILED"]
    <3>1. sdk'[c].pc = sdk[c].pc
      BY <1>1, <2>2 DEF IsClient, ClientFields
    <3> QED
      BY <1>1, <2>2, <3>1 DEF IsClient, ClientFields
  <2>3. ASSUME NEW n,
               sdk' = [sdk EXCEPT ![c].pc = "handshake", ![c].call = @ + 1,
                                  ![c].opened = @ + 1, ![c].socket = n]
        PROVE  <1>2!:
    BY <1>1, <2>3 DEF IsClient, ClientFields
  <2> QED
    BY <2>1, <2>2, <2>3 DEF Connect
<1>3. PICK k : /\ k[1] = c /\ (sdk[c].conn # 0 => k # K(c))
               /\ \A j \in Conn : j # k => wire'[j] = wire[j]
  <2>1. CASE HandshakeFails(c)
    <3>1. \A j \in Conn \ {Fresh(c)} : wire'[j] = wire[j]
      BY <2>1, HangupEffect DEF HandshakeFails, LinkInv
    <3>2. Fresh(c) # K(c) /\ Fresh(c)[1] = c
      BY <2>1, OwnConnections DEF HandshakeFails, Fresh
    <3> QED
      BY <3>1, <3>2
  <2>2. CASE Connect(c)
    <3> DEFINE k == << c, sdk[c].opened + 1 >>
    <3>1. \A j \in Conn : j # k => wire'[j] = wire[j]
      BY <1>1, <2>2 DEF Connect
    <3>2. sdk[c].conn # sdk[c].opened + 1
      BY <1>1, LinkAssumption DEF IsClient
    <3>3. k[1] = c /\ k # K(c)
      BY <3>2 DEF K
    <3> HIDE DEF k
    <3> QED
      BY <3>1, <3>3
  <2> QED
    BY <2>1, <2>2
<1>4. sdk[c].conn # 0 => wire'[K(c)] = wire[K(c)]
  BY <1>3, OwnConnections
<1> QED
  BY <1>1, <1>2, <1>3, <1>4

LEMMA ConnectingKeepsLogin ==
  ASSUME LinkInv, LoginInv, NEW c \in Client, Connect(c) \/ HandshakeFails(c)
  PROVE  LoginInv'
<1>1. /\ \A e \in Client \ {c} : sdk'[e] = sdk[e]
      /\ sdk[c].pc # "auth" /\ sdk'[c].pc # "auth"
      /\ sdk'[c].conn = sdk[c].conn /\ sdk'[c].state = sdk[c].state
      /\ \A j \in Conn : j[1] # c => wire'[j] = wire[j]
      /\ sdk[c].conn # 0 => wire'[K(c)] = wire[K(c)]
      /\ srv' = srv
  BY ConnectingFrame
<1>2. LoggingIn(c)'
  BY <1>1, LoginInCall DEF LoginInv
<1> QED
  BY <1>1, <1>2, LoginOfOthers

LEMMA DroppingKeepsLogin ==
  ASSUME LinkInv, LoginInv, NEW c \in Client, Disconnect(c) \/ Crash(c)
  PROVE  LoginInv'
<1>1. /\ IsClient(sdk[c]) /\ DOMAIN sdk = Client /\ srv' = srv
  BY DEF LinkInv, Disconnect, Crash
<1>2. \A e \in Client \ {c} : sdk'[e] = sdk[e]
  BY <1>1 DEF Disconnect, Crash
<1>3. sdk'[c].conn = 0
  <2>1. CASE Disconnect(c)
    BY <1>1, <2>1 DEF Disconnect, IsClient, ClientFields
  <2>2. CASE Crash(c)
    BY <1>1, <2>2 DEF Crash, NewClient
  <2> QED
    BY <2>1, <2>2
<1>4. ASSUME NEW j \in Conn, j[1] # c PROVE wire'[j] = wire[j]
  <2>1. \E ks, closed : wire' = Hangup(ks, closed) /\ j \notin ks
    BY <1>4 DEF Disconnect, Crash, ProcessEnds, K, Fresh
  <2> QED
    BY <2>1, HangupEffect DEF LinkInv
<1>5. LoggingIn(c)'
  BY <1>3 DEF LoggingIn
<1> QED
  BY <1>1, <1>2, <1>4, <1>5, LoginOfOthers

-----------------------------------------------------------------------------
(* The steps of the server. *)

\* A step of the server concerns the client of the one connection it is about.
LEMMA LoginAtServer ==
  ASSUME LinkInv, LoginInv, UNCHANGED sdk, NEW k \in Conn,
         \A j \in Conn \ {k} :
           /\ wire'[j].up = wire[j].up /\ wire'[j].down = wire[j].down
           /\ ~Serves(j)',
         \A e \in Client : sdk[e].conn # 0 /\ K(e) = k => LoggingIn(e)'
  PROVE  LoginInv'
<1> SUFFICES ASSUME NEW e \in Client, sdk[e].conn # 0, K(e) # k
             PROVE  LoggingIn(e)'
  BY DEF LoginInv, LoggingIn
<1>1. K(e)' = K(e) /\ K(e) \in Conn
  BY OwnConnections DEF K
<1>2. /\ wire'[K(e)].up = wire[K(e)].up /\ wire'[K(e)].down = wire[K(e)].down
      /\ ~Serves(K(e))' /\ LoggingIn(e)
  BY <1>1 DEF LoginInv, Serves
<1>3. CASE sdk[e].pc = "auth"
  BY <1>1, <1>2, <1>3 DEF LoggingIn, Asks, Serves
<1>4. CASE sdk[e].pc # "auth"
  BY <1>1, <1>2, <1>4 DEF LoggingIn, Knows, Serves
<1> QED
  BY <1>3, <1>4

LEMMA AcceptKeepsLogin ==
  ASSUME LinkInv, LoginInv, Accept
  PROVE  LoginInv'
<1>1. PICK k : k = Head(backlog)
  OBVIOUS
<1>2. /\ k \in Conn /\ \A j : ~Serves(j)
      /\ \A e \in Client : sdk[e].conn # 0 => K(e) # k
  BY <1>1, FirstInLine
<1>3. /\ UNCHANGED sdk /\ \A j \in Conn \ {k} : wire'[j] = wire[j]
      /\ srv'.conn = k \/ srv' = srv
  <2>1. DOMAIN wire = Conn /\ IsServer
    BY DEF LinkInv
  <2> QED
    BY <1>1, <1>2, <2>1 DEF Accept, IsServer
<1>4. \A j \in Conn \ {k} : ~Serves(j)'
  BY <1>2, <1>3 DEF Serves
<1> QED
  BY <1>2, <1>3, <1>4, LoginAtServer

LEMMA ClientGoneKeepsLogin ==
  ASSUME LinkInv, LoginInv, ClientGone
  PROVE  LoginInv'
<1>1. PICK k \in Conn : k = srv.conn
  BY DEF LinkInv, IsServer, ClientGone
<1>2. UNCHANGED sdk /\ \A j \in Conn \ {k} : wire'[j] = wire[j]
  BY <1>1 DEF LinkInv, ClientGone
<1>3. \A j : ~Serves(j)'
  BY DEF LinkInv, IsServer, ClientGone, Serves
<1>4. \A e \in Client : sdk[e].conn # 0 => K(e) # k
  <2>1. ~wire[k].cOpen
    BY <1>1 DEF ClientGone
  <2> QED
    BY <2>1 DEF LinkInv, Linked
<1> QED
  BY <1>2, <1>3, <1>4, LoginAtServer

\* The verdict leaves the server for the channel.
LEMMA SendOutKeepsLogin ==
  ASSUME LinkInv, LoginInv, SendOut
  PROVE  LoginInv'
<1>1. PICK k \in Conn : k = srv.conn
  BY DEF LinkInv, IsServer, SendOut
<1>2. /\ Serves(k) /\ IsWire(k) /\ IsServer /\ DOMAIN wire = Conn
      /\ srv.out # << >> /\ UNCHANGED sdk
  BY <1>1 DEF LinkInv, Serves, SendOut
<1>3. /\ \A j \in Conn \ {k} : wire'[j] = wire[j]
      /\ srv'.pc = "serve" /\ srv'.conn = k /\ srv'.authed = srv.authed
      /\ srv'.users = srv.users
  BY <1>1, <1>2 DEF SendOut, IsServer
<1>4. \A j \in Conn \ {k} : ~Serves(j)'
  BY <1>3 DEF Serves
<1>5. ASSUME NEW e \in Client, sdk[e].conn # 0, K(e) = k PROVE LoggingIn(e)'
  <2>1. wire[k].cOpen /\ LoggingIn(e) /\ K(e)' = k
    BY <1>2, <1>5 DEF LinkInv, Linked, LoginInv, K
  <2>2. /\ wire' = [wire EXCEPT ![k].down = Append(@, Head(srv.out))]
        /\ srv' = [srv EXCEPT !.out = Tail(@)]
    BY <1>1, <1>2, <2>1 DEF SendOut, IsSocket, IsWire
  <2>3. wire'[k].up = wire[k].up /\ srv'.out = Tail(srv.out)
        /\ wire'[k].down = Append(wire[k].down, Head(srv.out))
    BY <1>2, <2>2 DEF IsSocket, IsWire, IsServer
  <2>4. CASE sdk[e].pc # "auth"
    <3>1. NoLogin(wire[k].up) /\ (srv.authed <=> sdk[e].state = "AUTHENTICATED")
      BY <1>2, <1>5, <2>1, <2>4 DEF LoggingIn, Knows
    <3> QED
      BY <1>2, <1>3, <2>1, <2>3, <2>4, <3>1 DEF LoggingIn, Knows, NoLogin
  <2>5. CASE sdk[e].pc = "auth"
    <3>1. /\ sdk[e].state = "CONNECTED_UNAUTHENTICATED"
          /\ wire[k].up = << >> /\ wire[k].down = << >> /\ IsVerdict(srv.out)
          /\ srv.authed => Vouched(sdk[e].req.login)
      BY <1>2, <1>5, <2>1, <2>5 DEF LoggingIn, Asks
    <3>2. Tail(srv.out) = << >> /\ Head(srv.out) = srv.out[1]
      <4>1. /\ IsSeq(Tail(srv.out)) /\ Len(Tail(srv.out)) = Len(srv.out) - 1
            /\ Head(srv.out) = srv.out[1]
        BY <1>2, AnySeq DEF IsServer
      <4>2. Len(Tail(srv.out)) = 0
        BY <3>1, <4>1 DEF IsVerdict
      <4> QED
        BY <4>1, <4>2, AnySeq
    <3>3. wire'[k].down = << srv.out[1] >>
      BY <2>3, <3>1, <3>2
    <3>4. IsVerdict(wire[k].down)'
      <4>1. srv.out[1].type = "AUTH_RESPONSE" /\ (srv.out[1].arg <=> srv.authed)
        BY <3>1 DEF IsVerdict
      <4> QED
        BY <1>3, <3>3, <4>1 DEF IsVerdict
    <3>5. srv'.authed => Vouched(sdk[e].req.login)'
      BY <1>2, <1>3, <3>1 DEF Vouched
    <3>6. Asks(e)'
      BY <1>2, <2>1, <2>3, <3>1, <3>2, <3>4, <3>5 DEF Asks, IsVerdict
    <3> QED
      BY <1>2, <2>5, <3>6 DEF LoggingIn
  <2> QED
    BY <2>4, <2>5
<1> QED
  BY <1>2, <1>3, <1>4, <1>5, LoginAtServer

\* The verdict is about the credentials of the client that waits for it.
LEMMA ServeAuthKeepsLogin ==
  ASSUME LinkInv, LoginInv, NEW p, ServeAuth(p)
  PROVE  LoginInv'
<1> DEFINE ok == Authenticate(srv.users, p.arg[1], p.arg[2])
<1>1. /\ Receives("AUTH_REQUEST", p)
      /\ srv' = [srv EXCEPT !.authed = @ \/ ok,
                            !.out = << Packet("AUTH_RESPONSE", p.call, ok) >>]
  BY DEF ServeAuth
<1> HIDE DEF ok
<1>2. PICK k \in Conn : k = srv.conn
  BY <1>1 DEF Receives, LinkInv, IsServer
<1>3. /\ Serves(k) /\ srv.out = << >> /\ wire[k].up # << >> /\ UNCHANGED sdk
      /\ p = Head(wire[k].up) /\ p.type = "AUTH_REQUEST"
      /\ \A j \in Conn \ {k} : wire'[j] = wire[j]
      /\ wire'[k].up = Tail(wire[k].up) /\ wire'[k].down = wire[k].down
  BY <1>1, <1>2, ReceivesEffect
<1>4. /\ srv'.pc = "serve" /\ srv'.conn = k
      /\ srv'.authed <=> srv.authed \/ ok
      /\ srv'.out = << Packet("AUTH_RESPONSE", p.call, ok) >>
      /\ srv'.users = srv.users
  BY <1>1, <1>3 DEF LinkInv, IsServer, Serves
<1>5. \A j \in Conn \ {k} : ~Serves(j)'
  BY <1>4 DEF Serves
<1>6. ASSUME NEW e \in Client, sdk[e].conn # 0, K(e) = k PROVE LoggingIn(e)'
  <2>1. LoggingIn(e) /\ K(e)' = k
    BY <1>3, <1>6 DEF LoginInv, K
  <2>2. wire[k].up \in Seq(UpPacket(k[1]))
    BY DEF LinkInv, IsSocket, IsWire
  <2>3. IsSeq(wire[k].up)
    BY <2>2, SeqFacts
  <2>4. Len(wire[k].up) \in Nat \ {0} /\ wire[k].up[1].type = "AUTH_REQUEST"
    BY <1>3, <2>3, AnySeq
  <2>5. sdk[e].pc = "auth"
    <3>1. ~NoLogin(wire[k].up)
      BY <2>4 DEF NoLogin
    <3> QED
      BY <1>3, <1>6, <2>1, <3>1 DEF LoggingIn, Knows
  <2>6. /\ sdk[e].state = "CONNECTED_UNAUTHENTICATED"
        /\ wire[k].down = << >> /\ Len(wire[k].up) = 1 /\ ~srv.authed
        /\ wire[k].up[1].arg = sdk[e].req.login
    BY <1>3, <1>6, <2>1, <2>5 DEF LoggingIn, Asks
  <2>7. wire'[k].up = << >>
    <3>1. IsSeq(Tail(wire[k].up)) /\ Len(Tail(wire[k].up)) = 0
      BY <1>3, <2>3, <2>6, AnySeq
    <3> QED
      BY <1>3, <3>1, AnySeq
  <2>8. IsVerdict(srv.out)'
    <3>1. srv'.out[1].arg <=> ok
      BY <1>4 DEF Packet
    <3>2. srv'.out[1].type = "AUTH_RESPONSE" /\ Len(srv'.out) = 1
      BY <1>4 DEF Packet
    <3> QED
      BY <1>4, <2>6, <3>1, <3>2 DEF IsVerdict
  <2>9. srv'.authed => Vouched(sdk[e].req.login)'
    <3>1. p = wire[k].up[1]
      BY <1>3, <2>3, AnySeq
    <3>2. ok => Vouched(sdk[e].req.login)
      BY <2>6, <3>1 DEF ok, Vouched
    <3> QED
      BY <1>3, <1>4, <2>6, <3>2 DEF Vouched
  <2>10. Asks(e)'
    BY <1>3, <2>1, <2>6, <2>7, <2>8, <2>9 DEF Asks
  <2> QED
    BY <1>3, <2>5, <2>10 DEF LoggingIn
<1> QED
  BY <1>2, <1>3, <1>5, <1>6, LoginAtServer

LEMMA HandlersKeepLogin ==
  ASSUME LinkInv, LoginInv, TypeOK, NEW p, NEW type, Receives(type, p),
         type # "AUTH_REQUEST", \E packets : Answers(packets)
  PROVE  LoginInv'
<1>1. PICK k \in Conn : k = srv.conn
  BY DEF Receives, LinkInv, IsServer
<1>2. /\ Serves(k) /\ srv.out = << >> /\ wire[k].up # << >> /\ UNCHANGED sdk
      /\ p = Head(wire[k].up) /\ p.type = type
      /\ \A j \in Conn \ {k} : wire'[j] = wire[j]
      /\ wire'[k].up = Tail(wire[k].up) /\ wire'[k].down = wire[k].down
  BY <1>1, ReceivesEffect
<1>3. srv'.pc = "serve" /\ srv'.conn = k /\ srv'.authed = srv.authed
  BY <1>1, <1>2 DEF LinkInv, IsServer, Serves, Answers
<1>4. \A j \in Conn \ {k} : ~Serves(j)'
  BY <1>3 DEF Serves
<1>5. ASSUME NEW e \in Client, sdk[e].conn # 0, K(e) = k PROVE LoggingIn(e)'
  <2>1. LoggingIn(e) /\ K(e)' = k
    BY <1>2, <1>5 DEF LoginInv, K
  <2>2. wire[k].up \in Seq(UpPacket(k[1]))
    BY DEF LinkInv, IsSocket, IsWire
  <2>3. IsSeq(wire[k].up)
    BY <2>2, SeqFacts
  <2>4. /\ Len(wire[k].up) \in Nat \ {0} /\ wire[k].up[1].type # "AUTH_REQUEST"
        /\ Len(Tail(wire[k].up)) = Len(wire[k].up) - 1
        /\ \A n \in 1..Len(Tail(wire[k].up)) : Tail(wire[k].up)[n] = wire[k].up[n + 1]
    BY <1>2, <2>3, AnySeq
  <2>5. sdk[e].pc # "auth"
    BY <1>2, <1>5, <2>1, <2>4 DEF LoggingIn, Asks
  <2>6. NoLogin(wire[k].up) /\ (srv.authed <=> sdk[e].state = "AUTHENTICATED")
    BY <1>2, <1>5, <2>1, <2>5 DEF LoggingIn, Knows
  <2>7. NoLogin(wire'[k].up)
    <3>1. \A n \in 1..Len(Tail(wire[k].up)) : n + 1 \in 1..Len(wire[k].up)
      BY <2>4
    <3> QED
      BY <1>2, <2>4, <2>6, <3>1 DEF NoLogin
  <2> QED
    BY <1>2, <1>3, <2>1, <2>5, <2>6, <2>7 DEF LoggingIn, Knows, NoLogin
<1> QED
  BY <1>2, <1>4, <1>5, LoginAtServer

LEMMA ServeKeepsLogin ==
  ASSUME LinkInv, LoginInv, TypeOK, Serve
  PROVE  LoginInv'
<1>1. PICK p \in NextPacket :
        \/ ServeAuth(p) \/ ServeList(p) \/ ServeDelete(p) \/ ServeRename(p)
        \/ ServeMkdir(p) \/ ServeRmdir(p)
        \/ ServeUploadBegin(p) \/ ServeUploadChunk(p) \/ ServeUploadEnd(p)
        \/ ServeDownload(p)
  BY DEF Serve
<1>2. CASE ~ServeAuth(p)
  <2>1. \/ Receives("LIST", p) \/ Receives("DELETE", p) \/ Receives("RENAME", p)
        \/ Receives("MKDIR", p) \/ Receives("RMDIR", p)
        \/ Receives("UPLOAD_BEGIN", p) \/ Receives("UPLOAD_CHUNK", p)
        \/ Receives("UPLOAD_END", p) \/ Receives("DOWNLOAD_REQUEST", p)
    BY <1>1, <1>2
       DEF ServeList, ServeDelete, ServeRename, ServeMkdir, ServeRmdir,
           ServeUploadBegin, ServeUploadChunk, ServeUploadEnd, ServeDownload
  <2>2. \E packets : Answers(packets)
    BY <1>1, <1>2, HandlersAnswer
  <2> QED
    BY <2>1, <2>2, HandlersKeepLogin
<1> QED
  BY <1>2, ServeAuthKeepsLogin

LEMMA RestartKeepsLogin ==
  ASSUME LinkInv, LoginInv, ServerDies \/ ServerStarts
  PROVE  LoginInv'
<1>1. UNCHANGED sdk /\ \A j : ~Serves(j)'
  BY DEF LinkInv, IsServer, ServerDies, ServerStarts, Serves
<1> SUFFICES ASSUME NEW e \in Client, sdk[e].conn # 0 PROVE LoggingIn(e)'
  BY <1>1 DEF LoginInv, LoggingIn
<1>2. K(e)' = K(e) /\ K(e) \in Conn /\ LoggingIn(e)
  BY <1>1, OwnConnections DEF K, LoginInv
<1>3. \/ wire'[K(e)].up = << >>
      \/ wire'[K(e)] = wire[K(e)]
  <2>1. IsWire(K(e))
    BY <1>2 DEF LinkInv
  <2> QED
    <3>1. CASE ServerDies
      BY <1>2, <2>1, <3>1 DEF ServerDies, IsSocket, IsWire
    <3>2. CASE ServerStarts
      BY <3>2 DEF ServerStarts
    <3> QED
      BY <3>1, <3>2
<1>4. CASE sdk[e].pc = "auth"
  BY <1>1, <1>2, <1>3, <1>4 DEF LoggingIn, Asks, Serves
<1>5. CASE sdk[e].pc # "auth"
  BY <1>1, <1>2, <1>5 DEF LoggingIn, Knows, Serves
<1> QED
  BY <1>4, <1>5

-----------------------------------------------------------------------------
LEMMA LoginInitInv == LinkInit => LoginInv
BY DEF LinkInit, LoginInv, LoggingIn, NewClient

LEMMA LoginNextInv ==
  ASSUME LinkInv, LoginInv, TypeOK, [LinkNext]_allVars
  PROVE  LoginInv'
<1>1. ASSUME NEW c \in Client, ClientStep(c) PROVE LoginInv'
  BY <1>1, AnswersKeepLogin, SendsKeepLogin, LossKeepsLogin, AuthAnsweredKeepsLogin,
     HandshakeKeepsLogin, ConnectingKeepsLogin DEF ClientStep
<1>2. ASSUME NEW c \in Client, UserStep(c) PROVE LoginInv'
  BY <1>2, SendsKeepLogin, ConnectingKeepsLogin, DroppingKeepsLogin DEF UserStep
<1>3. ASSUME NEW c \in Client, Crash(c) PROVE LoginInv'
  BY <1>3, DroppingKeepsLogin
<1>4. ASSUME ServerStep PROVE LoginInv'
  BY <1>4, AcceptKeepsLogin, ClientGoneKeepsLogin, SendOutKeepsLogin, ServeKeepsLogin
     DEF ServerStep
<1>5. ASSUME ServerDies \/ ServerStarts PROVE LoginInv'
  BY <1>5, RestartKeepsLogin
<1>6. CASE UNCHANGED allVars
  BY <1>6 DEF allVars, LoginInv, LoggingIn, Asks, Vouched, Knows, IsVerdict, NoLogin, Serves, K
<1> QED
  BY <1>1, <1>2, <1>3, <1>4, <1>5, <1>6 DEF LinkNext

LEMMA LoginAgrees == LinkInv /\ LoginInv => BothEndsAgreeOnLogin
<1> SUFFICES ASSUME LinkInv, LoginInv, NEW c \in Client,
                    srv.pc = "serve", srv.conn = K(c), sdk[c].pc # "auth"
             PROVE  srv.authed <=> sdk[c].state = "AUTHENTICATED"
  BY DEF BothEndsAgreeOnLogin
<1>1. IsClient(sdk[c]) /\ K(c) \in Conn /\ LoggingIn(c)
  BY DEF LinkInv, LoginInv, IsServer
<1>2. sdk[c].conn # 0
  BY <1>1 DEF K, Conn
<1> QED
  BY <1>1, <1>2 DEF LoggingIn, Knows, Serves

\* TcpServer::handleClient keeps the login in variables of the one connection, and
\* InternalClient in state_: the two agree whenever connect() is not waiting for
\* the verdict, whoever was served before and whatever was refused, lost or
\* abandoned.  This holds with every failure of LinkFaults.
THEOREM LoginIsAgreed == LinkSpec => []BothEndsAgreeOnLogin
<1>1. LinkInv /\ TypeOK /\ LoginInv /\ [LinkNext]_allVars => LoginInv'
  BY LoginNextInv
<1>2. LinkInv /\ LoginInv => BothEndsAgreeOnLogin
  BY LoginAgrees
<1> QED
  BY <1>1, <1>2, LinkIsSound, LoginInitInv, PTL DEF LinkSpec

-----------------------------------------------------------------------------
(* Who is let in. *)

\* The server decides on the database it has read, and has a connection only
\* while it serves it.
ServerRests == srv.users = Load(srv.db) /\ srv.db \in Databases
               /\ (srv.pc # "serve" => srv.conn = << >>)

LEMMA OthersKeep ==
  ASSUME DOMAIN sdk = Client, NEW c \in Client, NEW e \in Client, e # c,
         ClientStep(e) \/ UserStep(e) \/ Crash(e)
  PROVE  sdk'[c] = sdk[c]
<1>1. CASE HandshakeDone(e) \/ HandshakeFails(e) \/ AuthAnswered(e) \/ AuthLost(e)
  BY <1>1 DEF HandshakeDone, HandshakeFails, AuthAnswered, AuthLost, Return, GoTo
<1>2. CASE SimpleAnswered(e) \/ CallLost(e) \/ SendFails(e) \/ UploadBegun(e) \/ UploadEnded(e)
  BY <1>2 DEF SimpleAnswered, CallLost, SendFails, UploadBegun, UploadEnded, Return, GoTo
<1>3. CASE SendChunk(e) \/ SendEnd(e) \/ DownloadBegun(e) \/ StreamReceived(e)
  BY <1>3 DEF SendChunk, SendEnd, DownloadBegun, StreamReceived, Return, GoTo
<1>4. CASE Connect(e) \/ Disconnect(e) \/ Crash(e)
  BY <1>4 DEF Connect, Disconnect, Crash
<1>5. ASSUME NEW req \in Requests, Call(e, req) PROVE sdk'[c] = sdk[c]
  BY <1>5 DEF Call
<1> QED
  BY <1>1, <1>2, <1>3, <1>4, <1>5 DEF ClientStep, UserStep

LEMMA ServerLeavesClients ==
  ASSUME ServerStep \/ ServerDies \/ ServerStarts
  PROVE  sdk' = sdk
<1>1. CASE Serve
  BY <1>1 DEF Serve, ServeAuth, ServeList, ServeDelete, ServeRename, ServeMkdir, ServeRmdir,
              ServeUploadBegin, ServeUploadChunk, ServeUploadEnd, ServeDownload, Receives
<1>2. CASE Accept \/ ClientGone \/ SendOut \/ ServerDies \/ ServerStarts
  BY <1>2 DEF Accept, ClientGone, SendOut, ServerDies, ServerStarts
<1> QED
  BY <1>1, <1>2 DEF ServerStep

LEMMA ServerKeepsResting ==
  ASSUME LinkInv, ServerRests, TypeOK, [LinkNext]_allVars
  PROVE  ServerRests'
<1>1. IsServer
  BY DEF LinkInv
<1>2. CASE srv' = srv
  BY <1>2 DEF ServerRests
<1>3. CASE ServerStep
  <2>1. CASE Accept
    BY <1>1, <2>1 DEF Accept, IsServer, ServerRests
  <2>2. CASE ClientGone
    BY <1>1, <2>2 DEF ClientGone, IsServer, ServerRests
  <2>3. CASE SendOut
    BY <1>1, <2>3 DEF SendOut, IsServer, ServerRests
  <2>4. CASE Serve
    <3>1. srv.pc = "serve"
      BY <2>4 DEF Serve, ServeAuth, ServeList, ServeDelete, ServeRename, ServeMkdir, ServeRmdir,
                  ServeUploadBegin, ServeUploadChunk, ServeUploadEnd, ServeDownload, Receives
    <3>2. srv'.pc = srv.pc /\ srv'.users = srv.users /\ srv'.db = srv.db
      <4>1. CASE \E p \in NextPacket : ServeAuth(p)
        BY <1>1, <4>1 DEF ServeAuth, IsServer
      <4>2. CASE \E packets : Answers(packets)
        BY <1>1, <4>2 DEF Answers, IsServer
      <4> QED
        BY <2>4, <4>1, <4>2, HandlersAnswer DEF Serve
    <3> QED
      BY <3>1, <3>2 DEF ServerRests
  <2> QED
    BY <1>3, <2>1, <2>2, <2>3, <2>4 DEF ServerStep
<1>4. CASE ServerDies
  BY <1>1, <1>4 DEF ServerDies, IsServer, ServerRests
<1>5. CASE ServerStarts
  BY <1>1, <1>5 DEF ServerStarts, IsServer, ServerRests
<1>6. ASSUME NEW c \in Client, ClientStep(c) \/ UserStep(c) \/ Crash(c) PROVE srv' = srv
  BY <1>6 DEF ClientStep, UserStep, Crash, HandshakeDone, HandshakeFails, AuthAnswered, AuthLost,
              Call, Connect, Disconnect, CallLost, SendFails, SimpleAnswered, UploadBegun,
              UploadEnded, DownloadBegun, StreamReceived, SendChunk, SendEnd
<1>7. CASE UNCHANGED allVars
  BY <1>2, <1>7 DEF allVars
<1> QED
  BY <1>2, <1>3, <1>4, <1>5, <1>6, <1>7 DEF LinkNext

-----------------------------------------------------------------------------
(* What load() leaves in users_. *)

IsDatabase(db) ==
  /\ db.format \in {"sqlite", "text", "missing"}
  /\ db.rows \in Seq(STRING \X Seq(STRING))

\* Row n of the database is of this user and counts.
Counts(db, user, n) == db.rows[n][1] = user /\ Takes(db, db.rows[n])

\* users holds of every user what the last of the first n rows says that counts.
HoldsLast(db, users, n) ==
  \A user \in DOMAIN users :
    \E k \in 1..n :
      /\ Counts(db, user, k) /\ users[user] = Stripped(db.rows[k][2])
      /\ \A m \in (k + 1)..n : ~Counts(db, user, m)

\* users is the recursion of Load.
IsLoop(users, db) ==
  users = [n \in 0..Len(db.rows) |->
             IF n = 0 THEN NoUsers
             ELSE IF Takes(db, db.rows[n]) THEN AddRow(users[n - 1], db.rows[n])
             ELSE users[n - 1]]

Hash == Seq(STRING) \union {NoHash}

UserMap == UNION { [D -> Hash] : D \in SUBSET STRING }

LEMMA LoopExists ==
  ASSUME NEW db, IsDatabase(db)
  PROVE  \E users : IsLoop(users, db)
<1>1. PICK n \in Nat : n = Len(db.rows)
  BY DEF IsDatabase
<1>2. \A m \in 1..n : db.rows[m][1] \in STRING /\ db.rows[m][2] \in Seq(STRING)
  BY <1>1 DEF IsDatabase
<1> DEFINE next(m, x) == IF m \in 1..n /\ Takes(db, db.rows[m])
                         THEN AddRow(x, db.rows[m]) ELSE x
<1>3. ASSUME NEW m \in Nat, NEW x \in UserMap PROVE next(m, x) \in UserMap
  <2>1. CASE m \in 1..n /\ Takes(db, db.rows[m])
    <3>1. PICK D \in SUBSET STRING : x \in [D -> Hash]
      BY DEF UserMap
    <3>2. AddRow(x, db.rows[m]) \in [D \union {db.rows[m][1]} -> Hash]
      <4>1. Stripped(db.rows[m][2]) \in Hash
        BY <1>2, <2>1 DEF Stripped, Hash
      <4> QED
        BY <1>2, <2>1, <3>1, <4>1 DEF AddRow
    <3>3. D \union {db.rows[m][1]} \in SUBSET STRING
      BY <1>2, <2>1
    <3> QED
      BY <2>1, <3>2, <3>3 DEF UserMap
  <2> QED
    BY <2>1
<1>4. NoUsers \in UserMap
  <2>1. NoUsers \in [{} -> Hash] /\ {} \in SUBSET STRING
    BY DEF NoUsers
  <2> QED
    BY <2>1 DEF UserMap
<1>5. PICK f : Iterates(f, UserMap, NoUsers, [m \in Nat |-> [x \in UserMap |-> next(m, x)]], n)
  <2>1. [m \in Nat |-> [x \in UserMap |-> next(m, x)]] \in [Nat -> [UserMap -> UserMap]]
    BY <1>3
  <2> HIDE DEF next
  <2> QED
    BY <1>1, <1>4, <2>1, Recursion
<1>6. f[0] = NoUsers /\ \A m \in 1..n : f[m] = next(m, f[m - 1])
  <2>1. \A m \in 1..n : m \in Nat /\ m - 1 \in 0..n
    BY <1>1
  <2> HIDE DEF next
  <2> QED
    BY <1>5, <2>1 DEF Iterates
<1>7. f = [m \in 0..n |-> f[m]]
  BY <1>5 DEF Iterates
<1>8. \A m \in 0..n : f[m] = IF m = 0 THEN NoUsers
                             ELSE IF Takes(db, db.rows[m]) THEN AddRow(f[m - 1], db.rows[m])
                             ELSE f[m - 1]
  <2>1. \A m \in 0..n : m = 0 \/ m \in 1..n
    BY <1>1
  <2> QED
    BY <1>6, <2>1
<1>9. f = [m \in 0..n |-> IF m = 0 THEN NoUsers
                          ELSE IF Takes(db, db.rows[m]) THEN AddRow(f[m - 1], db.rows[m])
                          ELSE f[m - 1]]
  BY <1>7, <1>8
<1> QED
  BY <1>1, <1>9 DEF IsLoop

\* Of the rows of a user the last one that counts is the one authenticate() finds,
\* and a user without such a row is not there.
LEMMA LoadHoldsLast ==
  ASSUME NEW db, IsDatabase(db)
  PROVE  HoldsLast(db, Load(db), Len(db.rows))
<1>1. PICK n \in Nat : n = Len(db.rows)
  BY DEF IsDatabase
<1>2. PICK users : IsLoop(users, db) /\ Load(db) = users[n]
  <2>1. PICK users : users = CHOOSE u : IsLoop(u, db)
    OBVIOUS
  <2>2. IsLoop(users, db)
    BY <2>1, LoopExists
  <2>3. Load(db) = users[Len(db.rows)]
    BY <2>1 DEF Load, IsLoop
  <2> QED
    BY <1>1, <2>2, <2>3
<1>3. /\ users[0] = NoUsers
      /\ \A m \in 1..n : users[m] = IF Takes(db, db.rows[m])
                                    THEN AddRow(users[m - 1], db.rows[m])
                                    ELSE users[m - 1]
  <2>1. users = [m \in 0..n |-> IF m = 0 THEN NoUsers
                                ELSE IF Takes(db, db.rows[m])
                                THEN AddRow(users[m - 1], db.rows[m])
                                ELSE users[m - 1]]
    BY <1>1, <1>2 DEF IsLoop
  <2>2. \A m \in 0..n : users[m] = IF m = 0 THEN NoUsers
                                   ELSE IF Takes(db, db.rows[m])
                                   THEN AddRow(users[m - 1], db.rows[m])
                                   ELSE users[m - 1]
    BY <2>1
  <2> QED
    BY <1>1, <2>2
<1> DEFINE Good == { m \in 0..n : HoldsLast(db, users[m], m) }
<1>4. 0 \in Good
  BY <1>3 DEF HoldsLast, NoUsers
<1>5. ASSUME NEW m \in 1..n, m - 1 \in Good PROVE m \in Good
  <2>1. HoldsLast(db, users[m - 1], m - 1) /\ m \in 0..n /\ m \in Nat
    BY <1>5
  <2>2. PICK p \in Nat : p = m - 1 /\ m = p + 1
    BY <2>1
  <2>3. PICK old : old = users[p] /\ HoldsLast(db, old, p)
    BY <2>1, <2>2
  <2>4. ASSUME NEW user \in DOMAIN old, ~Counts(db, user, m)
        PROVE  \E k \in 1..m :
                 /\ Counts(db, user, k) /\ old[user] = Stripped(db.rows[k][2])
                 /\ \A j \in (k + 1)..m : ~Counts(db, user, j)
    <3>1. PICK k \in 1..p :
            /\ Counts(db, user, k) /\ old[user] = Stripped(db.rows[k][2])
            /\ \A j \in (k + 1)..p : ~Counts(db, user, j)
      BY <2>3 DEF HoldsLast
    <3>2. k \in 1..m /\ \A j \in (k + 1)..m : j \in (k + 1)..p \/ j = m
      BY <2>2
    <3> QED
      BY <2>4, <3>1, <3>2
  <2>5. CASE ~Takes(db, db.rows[m])
    <3>1. users[m] = old
      BY <1>3, <2>2, <2>3, <2>5
    <3>2. \A user : ~Counts(db, user, m)
      BY <2>5 DEF Counts
    <3> QED
      BY <2>1, <2>4, <3>1, <3>2 DEF HoldsLast
  <2>6. CASE Takes(db, db.rows[m])
    <3>1. PICK new : new = users[m] /\ new = AddRow(old, db.rows[m])
      BY <1>3, <2>2, <2>3, <2>6
    <3>2. ASSUME NEW user \in DOMAIN new
          PROVE  \E k \in 1..m :
                   /\ Counts(db, user, k) /\ new[user] = Stripped(db.rows[k][2])
                   /\ \A j \in (k + 1)..m : ~Counts(db, user, j)
      <4>1. CASE user = db.rows[m][1]
        <5>1. Counts(db, user, m) /\ new[user] = Stripped(db.rows[m][2])
          BY <2>6, <3>1, <4>1 DEF Counts, AddRow
        <5>2. m \in 1..m /\ (m + 1)..m = {}
          BY <2>1
        <5> QED
          BY <5>1, <5>2
      <4>2. CASE user # db.rows[m][1]
        <5>1. user \in DOMAIN old /\ new[user] = old[user]
          BY <3>1, <4>2 DEF AddRow
        <5>2. ~Counts(db, user, m)
          BY <4>2 DEF Counts
        <5> QED
          BY <2>4, <5>1, <5>2
      <4> QED
        BY <4>1, <4>2
    <3> QED
      BY <2>1, <3>1, <3>2 DEF HoldsLast
  <2> QED
    BY <2>5, <2>6
<1>6. 0..n \subseteq Good
  <2> HIDE DEF Good
  <2> QED
    BY <1>4, <1>5, Climb
<1>7. HoldsLast(db, users[n], n)
  BY <1>6
<1> QED
  BY <1>1, <1>2, <1>7

\* What Authenticate finds is the last row of the user that counts.
LEMMA VouchedIsLastRow ==
  ASSUME NEW db, IsDatabase(db), NEW login, Authenticate(Load(db), login[1], login[2])
  PROVE  db.format # "missing" /\ LastRow(db, login[1])[2] = Digest(login[2])
<1> DEFINE user == login[1]
           counts == { n \in 1..Len(db.rows) :
                         /\ db.rows[n][1] = user
                         /\ db.format = "text" => db.rows[n][2] # NoHash }
<1>1. /\ user \in DOMAIN Load(db) /\ Load(db)[user] = Digest(login[2])
      /\ Load(db)[user] # NoHash
  BY DEF Authenticate
<1>2. PICK k \in 1..Len(db.rows) :
        /\ Counts(db, user, k) /\ Load(db)[user] = Stripped(db.rows[k][2])
        /\ \A m \in (k + 1)..Len(db.rows) : ~Counts(db, user, m)
  BY <1>1, LoadHoldsLast DEF HoldsLast
<1>3. db.format # "missing"
  BY <1>2 DEF Counts, Takes
<1>4. \A n \in 1..Len(db.rows) : n \in counts <=> Counts(db, user, n)
  BY <1>3 DEF Counts, Takes, IsDatabase
<1>5. Len(db.rows) \in Nat
  BY DEF IsDatabase
<1>6. k \in counts /\ \A m \in counts : m <= k
  <2>1. ASSUME NEW m \in counts, ~(m <= k) PROVE FALSE
    <3>1. m \in 1..Len(db.rows) /\ m \in (k + 1)..Len(db.rows)
      BY <1>5, <2>1
    <3> QED
      BY <1>2, <1>4, <2>1, <3>1
  <2> QED
    BY <1>2, <1>4, <2>1
<1>7. ASSUME NEW n \in counts, \A m \in counts : m <= n PROVE n = k
  <2>1. n <= k /\ k <= n /\ n \in Nat /\ k \in Nat
    BY <1>5, <1>6, <1>7
  <2> QED
    BY <2>1
<1>8. (CHOOSE n \in counts : \A m \in counts : m <= n) = k
  <2> HIDE DEF counts
  <2> QED
    BY <1>6, <1>7
<1>9. db.rows[k][2] = Digest(login[2])
  BY <1>1, <1>2 DEF Stripped
<1> QED
  BY <1>3, <1>8, <1>9 DEF LastRow

\* Who gets SAILOR_OK from connect() while he is served has the password of his row.
LEMMA LetIn ==
  ASSUME LinkInv, LoginInv, ServerRests, [LinkNext]_allVars, NEW c \in Client,
         sdk[c].pc = "auth", sdk'[c].state = "AUTHENTICATED", srv.conn = K(c)
  PROVE  /\ srv.db.format # "missing"
         /\ LastRow(srv.db, sdk[c].req.login[1])[2]
              = Digest(sdk[c].req.login[2])
<1>1. /\ IsClient(sdk[c]) /\ DOMAIN sdk = Client /\ LoggingIn(c)
      /\ sdk[c].conn # 0
  BY DEF LinkInv, LoginInv, IsClient
<1>2. PICK k \in Conn : k = K(c)
  BY <1>1, OwnConnections
<1>3. Serves(k)
  <2>1. K(c) # << >>
    BY DEF K
  <2> QED
    BY <1>2, <2>1 DEF ServerRests, Serves
<1>4. Asks(c) /\ sdk[c].state = "CONNECTED_UNAUTHENTICATED"
  BY <1>1 DEF LoggingIn, Asks
<1>5. sdk'[c] # sdk[c]
  BY <1>4
<1>6. AuthAnswered(c)
  <2>1. ASSUME NEW e \in Client, ClientStep(e) \/ UserStep(e) \/ Crash(e), e # c
        PROVE  sdk'[c] = sdk[c]
    BY <1>1, <2>1, OthersKeep
  <2>2. CASE AuthLost(c) \/ Crash(c)
    <3>1. sdk'[c].state # "AUTHENTICATED"
      BY <1>1, <1>4, <2>2 DEF AuthLost, Crash, GoTo, NewClient, IsClient, ClientFields
    <3> QED
      BY <3>1
  <2>3. CASE ClientStep(c) \/ UserStep(c)
    BY <2>2, <2>3
       DEF ClientStep, UserStep, HandshakeDone, HandshakeFails, Call, Connect, Disconnect,
           CallLost, SendFails, SimpleAnswered, UploadBegun, UploadEnded, DownloadBegun,
           StreamReceived, SendChunk, SendEnd
  <2>4. CASE ServerStep \/ ServerDies \/ ServerStarts \/ UNCHANGED allVars
    BY <1>5, <2>4, ServerLeavesClients DEF allVars
  <2> QED
    BY <1>5, <2>1, <2>2, <2>3, <2>4 DEF LinkNext
<1>7. wire[k].down # << >> /\ Received(k).arg
  <2>1. CanReceive(k) /\ Received(k).arg
    <3>1. ~Return(c, "AUTH_FAILED")
      BY <1>1, <1>4 DEF Return, IsClient, ClientFields
    <3> QED
      BY <1>2, <1>6, <3>1 DEF AuthAnswered
  <2> QED
    BY <2>1 DEF CanReceive
<1>8. srv.authed
  <2>1. IsVerdict(wire[k].down)
    BY <1>2, <1>3, <1>4, <1>7 DEF Asks
  <2>2. IsSeq(wire[k].down)
    BY DEF LinkInv, IsSocket, IsWire
  <2>3. Received(k) = wire[k].down[1]
    BY <1>7, <2>2, AnySeq DEF Received
  <2> QED
    BY <1>7, <2>1, <2>3 DEF IsVerdict
<1>9. Authenticate(Load(srv.db), sdk[c].req.login[1], sdk[c].req.login[2])
  BY <1>2, <1>3, <1>4, <1>8 DEF Asks, Vouched, ServerRests
<1>10. IsDatabase(srv.db)
  BY DatabaseAssumption DEF ServerRests, IsDatabase
<1> QED
  BY <1>9, <1>10, VouchedIsLastRow

\* AuthManager::authenticate lets in who gives the password of the last row that
\* the database had of the user when the server started, and nobody else, and the
\* answer a client gets is about its own credentials.
THEOREM LoginsAreInDatabase == LinkSpec => LoginIsInDatabase
<1> DEFINE Step ==
      \A c \in Client :
        /\ sdk[c].pc = "auth" /\ sdk'[c].state = "AUTHENTICATED"
        /\ srv.conn = K(c)
        => /\ srv.db.format # "missing"
           /\ LastRow(srv.db, sdk[c].req.login[1])[2]
                = Digest(sdk[c].req.login[2])
<1>1. LinkInv /\ LoginInv /\ ServerRests /\ [LinkNext]_allVars => Step
  BY LetIn
<1>2. Step => [Step]_allVars
  OBVIOUS
<1>3. LinkInit => ServerRests
  BY DEF LinkInit, ServerRests
<1>4. LinkInv /\ TypeOK /\ ServerRests /\ [LinkNext]_allVars => ServerRests'
  BY ServerKeepsResting
<1>5. LinkInv /\ TypeOK /\ LoginInv /\ [LinkNext]_allVars => LoginInv'
  BY LoginNextInv
<1> QED
  BY <1>1, <1>2, <1>3, <1>4, <1>5, LinkIsSound, LoginInitInv, PTL DEF LinkSpec, LoginIsInDatabase

=============================================================================
