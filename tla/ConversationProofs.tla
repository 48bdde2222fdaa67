-------------------------- MODULE ConversationProofs --------------------------
(***************************************************************************)
(* What client and server say to each other, for every number of clients,  *)
(* connections, calls and files: each answer belongs to the call that      *)
(* waits for it, and an answer SAILOR_OK is true of the storage when the   *)
(* client reads it.                                                        *)
(*                                                                         *)
(* Two failures of the client and one of the disk break this, and the      *)
(* theorems exclude them: a local file that grows while it is uploaded, a  *)
(* download whose destination cannot be created, and a failed write to the *)
(* target of an upload.  The theorem about uploads also excludes a disk    *)
(* that is full when the server closes the file, which it does not notice. *)
(***************************************************************************)
EXTENDS LoginProofs

NoSpuriousReply ==
  /\ "file_grew" \notin LinkFaults /\ "no_destination" \notin LinkFaults
  /\ "write" \notin Faults

-----------------------------------------------------------------------------
(***************************************************************************)
(* The invariant.  Of a connection it sees the packets on their way to the *)
(* server (up) and all that are on their way to the client, the ones the   *)
(* server has still to send included (q).  r is the record of client c.    *)
(***************************************************************************)
Unsent(k) == IF Serves(k) THEN srv.out ELSE << >>

Replies(k) == wire[k].down \o Unsent(k)

Id(c, r) == << c, r.call >>

Asked(up, q, packet) == up = << packet >> /\ q = << >>

OneReply(r, up, q) ==
  up = << >> /\ Len(q) <= 1 /\ (q # << >> => q[1].call = r.call)

Begins(q, type) == q # << >> /\ q[1].type = type

Wants(op, r) == r.req \in Requests /\ r.req.op = op

InSimple(r, up, q) ==
  /\ r.req \in Requests /\ r.req.op \notin {"UPLOAD", "DOWNLOAD"}
  /\ Asked(up, q, Packet(r.req.op, r.call, r.req)) \/ OneReply(r, up, q)

InBegin(c, r, up, q) ==
  /\ Wants("UPLOAD", r)
  /\ \/ Asked(up, q, Packet("UPLOAD_BEGIN", r.call,
                            [id |-> Id(c, r), begin |-> Declared(r.req)]))
     \/ OneReply(r, up, q)

IsChunk(c, r, p, offset) ==
  /\ p.type = "UPLOAD_CHUNK" /\ p.arg.id = Id(c, r)
  /\ p.arg.offset = offset /\ Len(p.arg.chunk) = 1

InChunks(c, r, up, q) ==
  /\ Wants("UPLOAD", r)
  /\ q = << >> /\ r.sent <= Len(LocalFile)
  /\ \A n \in 1..Len(up) : IsChunk(c, r, up[n], r.sent - Len(up) + n - 1)

UploadEnd(c, r) == Packet("UPLOAD_END", r.call, [id |-> Id(c, r)])

InEnd(c, r, up, q) ==
  /\ Wants("UPLOAD", r) /\ r.sent <= Len(LocalFile)
  /\ \/ /\ q = << >> /\ up # << >> /\ up[Len(up)] = UploadEnd(c, r)
        /\ \A n \in 1..(Len(up) - 1) : IsChunk(c, r, up[n], r.sent - Len(up) + n)
     \/ OneReply(r, up, q)

\* The n-th packet after DOWNLOAD_BEGIN.
Piece(call, f, n) ==
  IF n <= Len(f)
  THEN Packet("DOWNLOAD_CHUNK", call,
              [id |-> call, offset |-> n - 1, chunk |-> << f[n] >>])
  ELSE Packet("DOWNLOAD_END", call, TRUE)

\* q is what follows the first l bytes of f, or a first part of it.
Follows(call, f, l, q) ==
  /\ l + Len(q) <= Len(f) + 1
  /\ \A n \in 1..Len(q) : q[n] = Piece(call, f, l + n)

InRequest(r, up, q) ==
  /\ Wants("DOWNLOAD", r)
  /\ \/ Asked(up, q, Packet("DOWNLOAD_REQUEST", r.call, r.req))
     \/ OneReply(r, up, q) /\ ~Begins(q, "DOWNLOAD_BEGIN")
     \/ /\ up = << >> /\ q # << >>
        /\ \E f \in Seq(Byte) :
             /\ q[1] = Packet("DOWNLOAD_BEGIN", r.call, [id |-> r.call, file |-> f])
             /\ Follows(r.call, f, 0, Tail(q))

InDownload(r, up, q) ==
  /\ Wants("DOWNLOAD", r)
  /\ up = << >> /\ r.meta.id = r.call
  /\ r.meta.file \in Seq(Byte) /\ r.local \in Seq(Byte)
  /\ Follows(r.call, r.meta.file, Len(r.local), q)

\* What is said.
Words(c, r, up, q) ==
  /\ r.pc \in {"idle", "handshake"} => up = << >> /\ q = << >>
  /\ r.pc = "auth"    => Len(up) + Len(q) <= 1
  /\ r.pc = "simple"  => InSimple(r, up, q)
  /\ r.pc = "begin"   => InBegin(c, r, up, q)
  /\ r.pc = "chunks"  => InChunks(c, r, up, q)
  /\ r.pc = "end"     => InEnd(c, r, up, q)
  /\ r.pc = "request" => InRequest(r, up, q)
  /\ r.pc = "stream"  => InDownload(r, up, q)

\* The server has taken `gone` bytes of the upload, and the file under the
\* target's name is the one they go to.
Uploading(c, r, gone) ==
  /\ Id(c, r) \in DOMAIN sessions
  /\ LET s == sessions[Id(c, r)] IN
     /\ s.target = Append(r.req.dir, r.req.name)
     /\ s.expected = Len(LocalFile) /\ s.digest = LocalFile /\ ~s.failed
     /\ Len(s.received) = gone /\ s.flushed <= Len(s.received)
     /\ IsFile(tree, s.target) /\ tree[s.target] = s.inode
     /\ data[s.inode] = SubSeq(s.received, 1, s.flushed)

Stored(r) ==
  LET target == Append(r.req.dir, r.req.name) IN
  IsFile(tree, target) /\ data[tree[target]] = LocalFile

IsCurrent(path, f) == CanDownload(path) /\ data[tree[path]] = f

\* What that means for the storage while the connection is served.
Facts(c, r, up, q) ==
  /\ r.pc = "simple" /\ r.req.op = "LIST" /\ Begins(q, "LIST") =>
       CanList(r.req.path) /\ q[1].arg = Listing(r.req.path)
  /\ r.pc = "begin" /\ Begins(q, "SUCCESS") => Uploading(c, r, 0)
  /\ r.pc = "chunks" => Uploading(c, r, r.sent - Len(up))
  /\ r.pc = "end" /\ up # << >> => Uploading(c, r, r.sent - (Len(up) - 1))
  /\ r.pc = "end" /\ Begins(q, "SUCCESS") /\ "close" \notin Faults => Stored(r)
  /\ r.pc = "request" /\ Begins(q, "DOWNLOAD_BEGIN") =>
       IsCurrent(r.req.path, q[1].arg.file)
  /\ r.pc = "stream" => IsCurrent(r.req.path, r.meta.file)

\* What holds of the record of a client by itself.
Tidy(r) ==
  /\ r.pc \notin {"chunks", "end"} => r.sent = 0
  /\ r.pc # "stream" => r.local = << >>
  /\ r.pc \in {"simple", "begin", "chunks", "end", "request", "stream"}
       => r.state = "AUTHENTICATED"
  /\ r.pc = "stuck" => r.state # "AUTHENTICATED"

Talks(c) ==
  /\ Tidy(sdk[c])
  /\ sdk[c].conn # 0 => Words(c, sdk[c], wire[K(c)].up, Replies(K(c)))
  /\ sdk[c].conn # 0 /\ Serves(K(c)) =>
       Facts(c, sdk[c], wire[K(c)].up, Replies(K(c)))

TalkInv ==
  /\ \A c \in Client : Talks(c)
  /\ srv.pc # "serve" => srv.conn = << >>

-----------------------------------------------------------------------------
(* Two sequences of packets in a row. *)

LEMMA Joined ==
  ASSUME NEW s, NEW t, IsSeq(s), IsSeq(t)
  PROVE  /\ IsSeq(s \o t) /\ Len(s \o t) = Len(s) + Len(t)
         /\ s \o t = << >> <=> s = << >> /\ t = << >>
         /\ s \o << >> = s /\ << >> \o t = t
         /\ s # << >> => Head(s) = (s \o t)[1] /\ Tail(s) \o t = Tail(s \o t)
         /\ t # << >> => Append(s, Head(t)) \o Tail(t) = s \o t
         /\ \A n \in 1..Len(s) : (s \o t)[n] = s[n]
<1> DEFINE S == { s[n] : n \in 1..Len(s) } \union { t[n] : n \in 1..Len(t) }
<1>1. s \in Seq(S) /\ t \in Seq(S)
  <2>1. s \in Seq({ s[n] : n \in 1..Len(s) }) /\ t \in Seq({ t[n] : n \in 1..Len(t) })
    BY DEF IsSeq
  <2>2. { s[n] : n \in 1..Len(s) } \subseteq S /\ { t[n] : n \in 1..Len(t) } \subseteq S
    OBVIOUS
  <2> HIDE DEF S
  <2> QED
    BY <2>1, <2>2, SeqMonotonic
<1> HIDE DEF S
<1>2. /\ s \o t \in Seq(S) /\ Len(s \o t) = Len(s) + Len(t)
      /\ \A n \in 1..Len(s) : (s \o t)[n] = s[n]
      /\ \A n \in 1..Len(t) : (s \o t)[Len(s) + n] = t[n]
  BY <1>1, Concatenation
<1>3. IsSeq(s \o t)
  BY <1>2, SeqFacts
<1>4. /\ s \o t = << >> <=> s = << >> /\ t = << >>
      /\ s \o << >> = s /\ << >> \o t = t
  BY <1>1, ConcatEqualIffEmpty, ConcatEmptySeq
<1>5. ASSUME s # << >>
      PROVE  Head(s) = (s \o t)[1] /\ Tail(s) \o t = Tail(s \o t)
  <2>1. /\ Head(s) \in S /\ Tail(s) \in Seq(S) /\ << Head(s) >> \in Seq(S)
        /\ s = << Head(s) >> \o Tail(s)
    BY <1>1, <1>5
  <2>2. s \o t = << Head(s) >> \o (Tail(s) \o t) /\ Tail(s) \o t \in Seq(S)
    BY <1>1, <2>1, ConcatAssociative, ConcatProperties
  <2> DEFINE u == Tail(s) \o t
             x == Head(s)
  <2>3. u \in Seq(S) /\ x \in S
    BY <2>1, <2>2
  <2> HIDE DEF u, x
  <2>4. Tail(<< x >> \o u) = u /\ (<< x >> \o u)[1] = x
    BY <2>3
  <2> QED
    BY <2>2, <2>4 DEF u, x
<1>6. ASSUME t # << >> PROVE Append(s, Head(t)) \o Tail(t) = s \o t
  <2>1. /\ Head(t) \in S /\ Tail(t) \in Seq(S) /\ << Head(t) >> \in Seq(S)
        /\ t = << Head(t) >> \o Tail(t)
    BY <1>1, <1>6
  <2>2. Append(s, Head(t)) = s \o << Head(t) >>
    BY <1>1, <2>1, AppendIsConcat
  <2>3. (s \o << Head(t) >>) \o Tail(t) = s \o (<< Head(t) >> \o Tail(t))
    <3>1. PICK x, u : x = << Head(t) >> /\ u = Tail(t) /\ x \in Seq(S) /\ u \in Seq(S)
      BY <2>1
    <3>2. (s \o x) \o u = s \o (x \o u)
      BY <1>1, <3>1, ConcatAssociative
    <3> QED
      BY <3>1, <3>2
  <2> QED
    BY <2>1, <2>2, <2>3
<1> QED
  BY <1>2, <1>3, <1>4, <1>5, <1>6

LEMMA JoinedHead ==
  ASSUME NEW s, NEW t, IsSeq(s), IsSeq(t), s # << >>
  PROVE  /\ IsSeq(s \o t) /\ s \o t # << >>
         /\ Head(s) = (s \o t)[1] /\ Tail(s) \o t = Tail(s \o t)
<1>1. IsSeq(s \o t)
  BY Joined
<1>2. s \o t # << >>
  BY Joined
<1>3. Head(s) = (s \o t)[1]
  BY Joined
<1>4. Tail(s) \o t = Tail(s \o t)
  BY Joined
<1> QED
  BY <1>1, <1>2, <1>3, <1>4

LEMMA Single ==
  ASSUME NEW s, IsSeq(s), s # << >>, Len(s) <= 1
  PROVE  Len(s) = 1 /\ Tail(s) = << >> /\ s[1] = Head(s)
<1>1. /\ Len(s) \in Nat /\ Len(s) # 0 /\ s[1] = Head(s)
      /\ IsSeq(Tail(s)) /\ Len(Tail(s)) = Len(s) - 1
  BY AnySeq
<1>2. Len(s) = 1 /\ Len(Tail(s)) = 0
  BY <1>1
<1> QED
  BY <1>1, <1>2, AnySeq

-----------------------------------------------------------------------------
\* A step of client c.
StepOf(c) == ClientStep(c) \/ UserStep(c) \/ Crash(c)

LEMMA OwnStep ==
  ASSUME LinkInv, NEW c \in Client, StepOf(c)
  PROVE  /\ UNCHANGED << srv, vars >>
         /\ \A e \in Client \ {c} : sdk'[e] = sdk[e]
         /\ \A j \in Conn : j[1] # c => wire'[j] = wire[j]
<1>1. DOMAIN sdk = Client /\ DOMAIN wire = Conn
  BY DEF LinkInv
<1>2. ASSUME NEW ks, NEW closed, wire' = Hangup(ks, closed), \A j \in ks : j[1] = c
      PROVE  \A j \in Conn : j[1] # c => wire'[j] = wire[j]
  BY <1>2, HangupEffect DEF LinkInv
<1>3. CASE \/ AuthAnswered(c) \/ SimpleAnswered(c) \/ UploadBegun(c)
           \/ UploadEnded(c) \/ DownloadBegun(c) \/ StreamReceived(c)
  <2>1. Consume(K(c)) /\ UNCHANGED << srv, vars >>
    BY <1>3 DEF AuthAnswered, SimpleAnswered, UploadBegun, UploadEnded,
                DownloadBegun, StreamReceived
  <2>2. \A e \in Client \ {c} : sdk'[e] = sdk[e]
    BY <1>1, <1>3 DEF AuthAnswered, SimpleAnswered, UploadBegun, UploadEnded,
                      DownloadBegun, StreamReceived, Return, GoTo
  <2> QED
    BY <1>1, <2>1, <2>2 DEF Consume, K
<1>4. CASE AuthLost(c) \/ CallLost(c) \/ SendFails(c)
  BY <1>1, <1>4 DEF AuthLost, CallLost, SendFails, Return, GoTo
<1>5. CASE SendChunk(c) \/ SendEnd(c)
  <2>1. \A e \in Client \ {c} : sdk'[e] = sdk[e]
    BY <1>1, <1>5 DEF SendChunk, SendEnd, GoTo
  <2>2. (\E p : Send(K(c), p)) /\ UNCHANGED << srv, vars >>
    BY <1>5 DEF SendChunk, SendEnd
  <2> QED
    BY <1>1, <2>1, <2>2 DEF Send, K
<1>6. ASSUME NEW req \in Requests, Call(c, req)
      PROVE  /\ UNCHANGED << srv, vars >>
             /\ \A e \in Client \ {c} : sdk'[e] = sdk[e]
             /\ \A j \in Conn : j[1] # c => wire'[j] = wire[j]
  <2>1. \A e \in Client \ {c} : sdk'[e] = sdk[e]
    BY <1>1, <1>6 DEF Call
  <2>2. UNCHANGED << srv, vars >> /\ (wire' = wire \/ Send(K(c), Opening(c, req)))
    BY <1>6 DEF Call
  <2>3. Send(K(c), Opening(c, req)) => \A j \in Conn : j[1] # c => wire'[j] = wire[j]
    BY <1>1 DEF Send, K
  <2> QED
    BY <2>1, <2>2, <2>3
<1>7. CASE Disconnect(c) \/ Crash(c) \/ HandshakeFails(c)
  <2>1. \A e \in Client \ {c} : sdk'[e] = sdk[e]
    BY <1>1, <1>7 DEF Disconnect, Crash, HandshakeFails
  <2>2. UNCHANGED << srv, vars >>
    BY <1>7 DEF Disconnect, Crash, HandshakeFails
  <2>3. \E ks, closed : wire' = Hangup(ks, closed) /\ \A j \in ks : j[1] = c
    BY <1>7 DEF Disconnect, Crash, ProcessEnds, HandshakeFails, K, Fresh
  <2> QED
    BY <1>2, <2>1, <2>2, <2>3
<1>8. CASE Connect(c)
  <2>1. \A e \in Client \ {c} : sdk'[e] = sdk[e]
    BY <1>1, <1>8 DEF Connect
  <2>2. wire' = wire \/ \E v : wire' = [wire EXCEPT ![<< c, sdk[c].opened + 1 >>] = v]
    BY <1>8 DEF Connect
  <2>3. \A j \in Conn : j[1] # c => wire'[j] = wire[j]
    BY <1>1, <2>2
  <2> QED
    BY <1>8, <2>1, <2>3 DEF Connect
<1>9. CASE HandshakeDone(c)
  <2>1. PICK k \in Conn : k = Fresh(c) /\ HandshakeOn(c, k)
    BY <1>9, HandshakeEffect
  <2>2. \A j \in Conn : j[1] # c => j # k /\ j # K(c)
    BY <2>1 DEF HandshakeOn, K
  <2>3. /\ \A e \in Client \ {c} : sdk'[e] = sdk[e]
        /\ \A j \in Conn : j[1] # c => wire'[j] = wire[j]
    BY <2>1, <2>2 DEF HandshakeOn
  <2> QED
    BY <1>9, <2>3 DEF HandshakeDone
<1> QED
  BY <1>3, <1>4, <1>5, <1>6, <1>7, <1>8, <1>9 DEF StepOf, ClientStep, UserStep

-----------------------------------------------------------------------------
(* What leaves a conversation as it is. *)

LEMMA FactsStay ==
  ASSUME NEW c, NEW r, NEW up, NEW q, Facts(c, r, up, q), UNCHANGED vars
  PROVE  Facts(c, r, up, q)'
BY DEF Facts, Uploading, Stored, IsCurrent, CanDownload, CanList, Listing, Entry,
       Children, IsFile, IsDirectory, Exists, vars

LEMMA TalksIf ==
  ASSUME NEW c \in Client, NEW k, k = << c, sdk'[c].conn >>, Tidy(sdk'[c]),
         NEW r, r = sdk'[c], NEW up, up = wire'[k].up, NEW q, q = Replies(k)',
         r.conn # 0 => Words(c, r, up, q),
         r.conn # 0 /\ Serves(k)' => Facts(c, r, up, q)'
  PROVE  Talks(c)'
<1>1. K(c)' = k
  BY DEF K
<1>2. Replies(K(c))' = q
  BY <1>1 DEF Replies, Unsent, Serves
<1>3. Serves(K(c))' <=> Serves(k)'
  BY <1>1 DEF Serves
<1> QED
  BY <1>1, <1>2, <1>3 DEF Talks

LEMMA TalksOn ==
  ASSUME NEW e \in Client, Talks(e), sdk'[e] = sdk[e], NEW k, k = K(e),
         sdk[e].conn # 0 =>
           /\ wire'[k].up = wire[k].up /\ Replies(k)' = Replies(k)
           /\ Serves(k)' => Serves(k) /\ UNCHANGED vars
  PROVE  Talks(e)'
<1>1. PICK r : r = sdk[e]
  OBVIOUS
<1>2. PICK up : up = wire'[k].up
  OBVIOUS
<1>3. PICK q : q = Replies(k)'
  OBVIOUS
<1>4. Tidy(r) /\ k = << e, r.conn >>
  BY <1>1 DEF Talks, K
<1>5. ASSUME r.conn # 0 PROVE Words(e, r, up, q) /\ (Serves(k)' => Facts(e, r, up, q)')
  <2>1. up = wire[k].up /\ q = Replies(k)
    BY <1>1, <1>2, <1>3, <1>5
  <2>2. Words(e, r, up, q) /\ (Serves(k) => Facts(e, r, up, q))
    BY <1>1, <1>5, <2>1 DEF Talks
  <2>3. Serves(k)' => Serves(k) /\ UNCHANGED vars
    BY <1>1, <1>5
  <2> QED
    BY <2>2, <2>3, FactsStay
<1> QED
  BY <1>1, <1>2, <1>3, <1>4, <1>5, TalksIf

LEMMA TalkApart ==
  ASSUME LinkInv, TalkInv, NEW c \in Client, UNCHANGED << srv, vars >>,
         \A e \in Client \ {c} : sdk'[e] = sdk[e],
         \A j \in Conn : j[1] # c => wire'[j] = wire[j],
         Talks(c)'
  PROVE  \A e \in Client : Talks(e)'
<1> SUFFICES ASSUME NEW e \in Client, e # c PROVE Talks(e)'
  OBVIOUS
<1>1. /\ UNCHANGED << srv, vars >> /\ sdk'[e] = sdk[e]
      /\ \A j \in Conn : j[1] # c => wire'[j] = wire[j]
  OBVIOUS
<1>2. PICK k : k = K(e)
  OBVIOUS
<1>3. ASSUME sdk[e].conn # 0
      PROVE  /\ wire'[k].up = wire[k].up /\ Replies(k)' = Replies(k)
             /\ Serves(k)' => Serves(k) /\ UNCHANGED vars
  <2>1. k \in Conn /\ k[1] = e
    BY <1>2, <1>3, OwnConnections DEF K
  <2>2. wire'[k] = wire[k]
    BY <1>1, <2>1
  <2> QED
    BY <1>1, <2>2 DEF Replies, Unsent, Serves
<1> QED
  BY <1>1, <1>2, <1>3, TalksOn DEF TalkInv

LEMMA TalkOfOthers ==
  ASSUME LinkInv, TalkInv, NEW c \in Client, StepOf(c), Talks(c)'
  PROVE  \A e \in Client : Talks(e)'
BY OwnStep, TalkApart

LEMMA TalkAtServer ==
  ASSUME LinkInv, TalkInv, UNCHANGED sdk, NEW k \in Conn,
         \A j \in Conn \ {k} :
           /\ wire'[j].up = wire[j].up /\ wire'[j].down = wire[j].down
           /\ ~Serves(j) /\ ~Serves(j)',
         \A e \in Client : sdk[e].conn # 0 /\ K(e) = k => Talks(e)'
  PROVE  \A e \in Client : Talks(e)'
<1> SUFFICES ASSUME NEW e \in Client, sdk[e].conn # 0 => K(e) # k PROVE Talks(e)'
  OBVIOUS
<1>1. PICK j : j = K(e)
  OBVIOUS
<1>2. ASSUME sdk[e].conn # 0
      PROVE  /\ wire'[j].up = wire[j].up /\ Replies(j)' = Replies(j)
             /\ Serves(j)' => Serves(j) /\ UNCHANGED vars
  <2>1. j \in Conn \ {k}
    BY <1>1, <1>2, OwnConnections
  <2>2. /\ wire'[j].up = wire[j].up /\ wire'[j].down = wire[j].down
        /\ ~Serves(j) /\ ~Serves(j)'
    BY <2>1
  <2> QED
    BY <2>2 DEF Replies, Unsent
<1> QED
  BY <1>1, <1>2, TalksOn DEF TalkInv

\* The packet a client receives is the first of all that are on their way.
LEMMA ReceivedIsFirst ==
  ASSUME LinkInv, NEW c \in Client, StepOf(c), NEW k \in Conn, k = K(c), CanReceive(k), Consume(k)
  PROVE  /\ IsSeq(Replies(k)) /\ Replies(k) # << >> /\ Received(k) = Replies(k)[1]
         /\ Replies(k)' = Tail(Replies(k)) /\ wire'[k].up = wire[k].up
<1>1. UNCHANGED srv
  BY OwnStep
<1>2. IsSeq(wire[k].down) /\ wire[k].down # << >>
  BY DEF LinkInv, IsSocket, IsWire, CanReceive
<1>3. IsSeq(Unsent(k)) /\ Unsent(k)' = Unsent(k)
  BY <1>1, SeqFacts DEF LinkInv, IsServer, Unsent, Serves
<1>4. wire'[k].down = Tail(wire[k].down) /\ wire'[k].up = wire[k].up
  BY ReceiveEffect
<1>5. /\ IsSeq(Replies(k)) /\ Replies(k) # << >>
      /\ Head(wire[k].down) = Replies(k)[1]
      /\ Tail(wire[k].down) \o Unsent(k) = Tail(Replies(k))
  <2>1. IsSeq(wire[k].down) /\ IsSeq(Unsent(k)) /\ wire[k].down # << >>
    BY <1>2, <1>3
  <2> QED
    BY <2>1, JoinedHead DEF Replies
<1>6. Replies(k)' = Tail(wire[k].down) \o Unsent(k)
  BY <1>3, <1>4 DEF Replies
<1> QED
  BY <1>4, <1>5, <1>6 DEF Received

LEMMA RepliesAre ==
  ASSUME LinkInv, NEW k \in Conn
  PROVE  /\ IsSeq(Replies(k)) /\ IsSeq(wire[k].down) /\ IsSeq(wire[k].up)
         /\ ~Serves(k) => Replies(k) = wire[k].down
         /\ Replies(k) = << >> <=> wire[k].down = << >> /\ Unsent(k) = << >>
<1>1. wire[k].up \in Seq(UpPacket(k[1])) /\ IsSeq(wire[k].down)
  BY DEF LinkInv, IsSocket, IsWire
<1>2. IsSeq(Unsent(k)) /\ (~Serves(k) => Unsent(k) = << >>)
  BY SeqFacts DEF LinkInv, IsServer, Unsent
<1>3. PICK up, down, out : up = wire[k].up /\ down = wire[k].down /\ out = Unsent(k)
  OBVIOUS
<1>4. IsSeq(up) /\ IsSeq(down) /\ IsSeq(out)
  BY <1>1, <1>2, <1>3, SeqFacts
<1>5. /\ IsSeq(down \o out) /\ down \o << >> = down
      /\ down \o out = << >> <=> down = << >> /\ out = << >>
  BY <1>4, Joined
<1> QED
  BY <1>2, <1>3, <1>4, <1>5 DEF Replies

-----------------------------------------------------------------------------
(* The steps of clients. *)

\* A call has returned: the record of the client as Return leaves it.
LEMMA ReturnTalks ==
  ASSUME LinkInv, TalkInv, NEW c \in Client, NEW status, Return(c, status),
         NEW k, k = K(c), sdk[c].pc # "stuck",
         sdk[c].conn # 0 => wire'[k].up = << >> /\ Replies(k)' = << >>
  PROVE  Talks(c)'
<1>1. DOMAIN sdk = Client /\ IsClient(sdk[c]) /\ Tidy(sdk[c])
  BY DEF LinkInv, TalkInv, Talks
<1>2. PICK r : r = sdk'[c]
  OBVIOUS
<1>3. /\ r.pc = "idle" /\ r.sent = 0 /\ r.local = << >>
      /\ r.conn = sdk[c].conn
  BY <1>1, <1>2 DEF Return, IsClient, ClientFields
<1>4. Tidy(r) /\ k = << c, r.conn >>
  BY <1>3 DEF Tidy, K
<1>5. PICK up : up = wire'[k].up
  OBVIOUS
<1>6. PICK q : q = Replies(k)'
  OBVIOUS
<1>7. r.conn # 0 => Words(c, r, up, q)
  BY <1>3, <1>5, <1>6 DEF Words
<1>8. Facts(c, r, up, q)'
  BY <1>3 DEF Facts
<1> QED
  BY <1>2, <1>4, <1>5, <1>6, <1>7, <1>8, TalksIf

\* What a client knows when it takes up the answer to its one request.
LEMMA OneAnswer ==
  ASSUME NEW r, NEW up, NEW q, NEW packet, IsSeq(q), q # << >>,
         Asked(up, q, packet) \/ OneReply(r, up, q)
  PROVE  up = << >> /\ Len(q) = 1 /\ Tail(q) = << >> /\ q[1].call = r.call
BY Single DEF Asked, OneReply

\* Client c has a connection, and says and hears on it what the invariant says.
LEMMA InTalk ==
  ASSUME LinkInv, TalkInv, NEW c \in Client, sdk[c].conn # 0
  PROVE  \E k \in Conn :
           /\ k = K(c) /\ k = << c, sdk[c].conn >> /\ k[1] = c
           /\ IsWire(k) /\ wire[k].cOpen
           /\ wire[k].sOpen <=> Serves(k)
           /\ ~wire[k].sOpen /\ sdk[c].pc # "stuck" => wire[k].up = << >>
           /\ IsClient(sdk[c]) /\ DOMAIN sdk = Client /\ Tidy(sdk[c])
           /\ Words(c, sdk[c], wire[k].up, Replies(k))
           /\ Serves(k) => Facts(c, sdk[c], wire[k].up, Replies(k))
<1>1. PICK k \in Conn : k = K(c) /\ IsWire(k)
  BY OwnConnections
<1>2. IsClient(sdk[c]) /\ DOMAIN sdk = Client /\ Talks(c) /\ Held(k) /\ Linked(c)
  BY DEF LinkInv, TalkInv
<1>3. /\ wire[k].cOpen /\ (wire[k].sOpen <=> Serves(k))
      /\ ~wire[k].sOpen /\ sdk[c].pc # "stuck" => wire[k].up = << >>
  BY <1>1, <1>2 DEF Linked, Held, IsSocket, IsWire
<1>4. k = << c, sdk[c].conn >> /\ k[1] = c
  BY <1>1 DEF K
<1> QED
  BY <1>1, <1>2, <1>3, <1>4 DEF Talks

LEMMA LastAnswerTalks ==
  ASSUME LinkInv, TalkInv, NEW c \in Client, SimpleAnswered(c) \/ UploadEnded(c)
  PROVE  Talks(c)'
<1>1. /\ sdk[c].pc \in {"simple", "end"} /\ CanReceive(K(c)) /\ Consume(K(c))
      /\ StepOf(c) /\ \E status : Return(c, status)
  BY DEF SimpleAnswered, UploadEnded, StepOf, ClientStep
<1>2. sdk[c].conn # 0
  BY <1>1 DEF LinkInv, IsClient
<1>3. PICK k \in Conn : k = K(c) /\ Words(c, sdk[c], wire[k].up, Replies(k))
  BY <1>2, InTalk
<1>4. /\ IsSeq(Replies(k)) /\ Replies(k) # << >>
      /\ Replies(k)' = Tail(Replies(k)) /\ wire'[k].up = wire[k].up
  BY <1>1, <1>3, ReceivedIsFirst
<1>5. wire[k].up = << >> /\ Tail(Replies(k)) = << >>
  <2>1. InSimple(sdk[c], wire[k].up, Replies(k)) \/ InEnd(c, sdk[c], wire[k].up, Replies(k))
    BY <1>1, <1>3 DEF Words
  <2>2. \/ \E packet : Asked(wire[k].up, Replies(k), packet)
        \/ OneReply(sdk[c], wire[k].up, Replies(k))
    BY <1>4, <2>1 DEF InSimple, InEnd
  <2> QED
    BY <1>4, <2>2, OneAnswer
<1> QED
  BY <1>1, <1>3, <1>4, <1>5, ReturnTalks

LEMMA UploadingStays ==
  ASSUME NEW c, NEW r, NEW s, s.call = r.call, s.req = r.req, NEW gone,
         Uploading(c, r, gone), UNCHANGED vars
  PROVE  Uploading(c, s, gone)'
BY DEF Uploading, Id, IsFile, Exists, vars

LEMMA UploadBegunTalks ==
  ASSUME LinkInv, TalkInv, NEW c \in Client, UploadBegun(c)
  PROVE  Talks(c)'
<1>1. /\ sdk[c].pc = "begin" /\ CanReceive(K(c)) /\ Consume(K(c)) /\ StepOf(c)
  BY DEF UploadBegun, StepOf, ClientStep
<1>2. sdk[c].conn # 0
  BY <1>1 DEF LinkInv, IsClient
<1>3. PICK k \in Conn :
        /\ k = K(c) /\ k = << c, sdk[c].conn >>
        /\ IsClient(sdk[c]) /\ DOMAIN sdk = Client /\ Tidy(sdk[c])
        /\ Words(c, sdk[c], wire[k].up, Replies(k))
        /\ Serves(k) => Facts(c, sdk[c], wire[k].up, Replies(k))
  BY <1>2, InTalk
<1>4. /\ IsSeq(Replies(k)) /\ Replies(k) # << >> /\ Received(k) = Replies(k)[1]
      /\ Replies(k)' = Tail(Replies(k)) /\ wire'[k].up = wire[k].up
  BY <1>1, <1>3, ReceivedIsFirst
<1>5. InBegin(c, sdk[c], wire[k].up, Replies(k))
  BY <1>1, <1>3 DEF Words
<1>6. wire[k].up = << >> /\ Tail(Replies(k)) = << >>
  <2>1. \/ \E packet : Asked(wire[k].up, Replies(k), packet)
        \/ OneReply(sdk[c], wire[k].up, Replies(k))
    BY <1>5 DEF InBegin
  <2> QED
    BY <1>4, <2>1, OneAnswer
<1>7. ASSUME NEW status, Return(c, status) PROVE Talks(c)'
  BY <1>1, <1>3, <1>4, <1>6, <1>7, ReturnTalks
<1>8. CASE Received(k).type = "SUCCESS" /\ GoTo(c, "chunks")
  <2>1. PICK r : r = sdk'[c]
    OBVIOUS
  <2>2. /\ r.pc = "chunks" /\ r.conn = sdk[c].conn /\ r.state = sdk[c].state
        /\ r.sent = sdk[c].sent /\ r.local = sdk[c].local
        /\ r.call = sdk[c].call /\ r.req = sdk[c].req
    BY <1>3, <1>8, <2>1 DEF GoTo, IsClient, ClientFields
  <2>3. Tidy(r) /\ r.sent = 0
    BY <1>1, <1>3, <2>2 DEF Tidy
  <2>4. Words(c, r, << >>, << >>)
    <3>1. Wants("UPLOAD", r)
      BY <1>5, <2>2 DEF InBegin, Wants
    <3>2. Len(LocalFile) \in Nat
      BY LinkAssumption
    <3>3. InChunks(c, r, << >>, << >>)
      BY <2>3, <3>1, <3>2, SeqFacts DEF InChunks
    <3> QED
      BY <2>2, <3>3 DEF Words
  <2>5. Serves(k)' => Facts(c, r, << >>, << >>)'
    <3> SUFFICES ASSUME Serves(k)' PROVE Facts(c, r, << >>, << >>)'
      OBVIOUS
    <3>1. Serves(k) /\ UNCHANGED vars
      BY <1>1, OwnStep DEF Serves
    <3>2. Uploading(c, sdk[c], 0)
      BY <1>1, <1>3, <1>4, <1>8, <3>1 DEF Facts, Begins
    <3>3. Uploading(c, r, 0)'
      BY <2>2, <3>1, <3>2, UploadingStays
    <3>4. PICK n : n = Len(<< >>)
      OBVIOUS
    <3>5. r.sent - Len(<< >>) = 0
      <4>1. n = 0
        BY <3>4, SeqFacts
      <4>2. r.sent - n = 0
        BY <2>3, <4>1
      <4> QED
        BY <3>4, <4>2
    <3> QED
      BY <2>2, <3>3, <3>5 DEF Facts
  <2> QED
    BY <1>3, <1>4, <1>6, <2>1, <2>2, <2>3, <2>4, <2>5, TalksIf
<1> QED
  BY <1>3, <1>7, <1>8 DEF UploadBegun

LEMMA DownloadBegunTalks ==
  ASSUME NoSpuriousReply, LinkInv, TalkInv, NEW c \in Client, DownloadBegun(c)
  PROVE  Talks(c)'
<1>1. /\ sdk[c].pc = "request" /\ CanReceive(K(c)) /\ Consume(K(c)) /\ StepOf(c)
  BY DEF DownloadBegun, StepOf, ClientStep
<1>2. sdk[c].conn # 0
  BY <1>1 DEF LinkInv, IsClient
<1>3. PICK k \in Conn :
        /\ k = K(c) /\ k = << c, sdk[c].conn >>
        /\ IsClient(sdk[c]) /\ DOMAIN sdk = Client /\ Tidy(sdk[c])
        /\ Words(c, sdk[c], wire[k].up, Replies(k))
        /\ Serves(k) => Facts(c, sdk[c], wire[k].up, Replies(k))
  BY <1>2, InTalk
<1>4. /\ IsSeq(Replies(k)) /\ Replies(k) # << >> /\ Received(k) = Replies(k)[1]
      /\ Replies(k)' = Tail(Replies(k)) /\ wire'[k].up = wire[k].up
  BY <1>1, <1>3, ReceivedIsFirst
<1>5. InRequest(sdk[c], wire[k].up, Replies(k))
  BY <1>1, <1>3 DEF Words
<1>6. CASE OneReply(sdk[c], wire[k].up, Replies(k)) /\ ~Begins(Replies(k), "DOWNLOAD_BEGIN")
  <2>1. \E status : Return(c, status)
    BY <1>3, <1>4, <1>6 DEF DownloadBegun, Begins
  <2>2. wire[k].up = << >> /\ Tail(Replies(k)) = << >>
    BY <1>4, <1>6, OneAnswer
  <2> QED
    BY <1>1, <1>3, <1>4, <2>1, <2>2, ReturnTalks
<1>7. ASSUME wire[k].up = << >>, NEW f \in Seq(Byte),
             Replies(k)[1] = Packet("DOWNLOAD_BEGIN", sdk[c].call,
                                    [id |-> sdk[c].call, file |-> f]),
             Follows(sdk[c].call, f, 0, Tail(Replies(k)))
      PROVE  Talks(c)'
  <2>1. PICK r : r = sdk'[c]
    OBVIOUS
  <2>2. PICK q : q = Tail(Replies(k))
    OBVIOUS
  <2>3. sdk' = [sdk EXCEPT ![c].pc = "stream", ![c].meta = Received(k).arg]
    BY <1>3, <1>4, <1>7 DEF DownloadBegun, NoSpuriousReply, Packet
  <2>4. /\ r.pc = "stream" /\ r.conn = sdk[c].conn /\ r.state = sdk[c].state
        /\ r.sent = sdk[c].sent /\ r.local = sdk[c].local
        /\ r.call = sdk[c].call /\ r.req = sdk[c].req /\ r.meta = Received(k).arg
    BY <1>3, <2>1, <2>3 DEF IsClient, ClientFields
  <2>5. Tidy(r) /\ r.local = << >>
    BY <1>1, <1>3, <2>4 DEF Tidy
  <2>6. r.meta.id = r.call /\ r.meta.file = f
    BY <1>4, <1>7, <2>4 DEF Packet
  <2>7. Words(c, r, << >>, q)
    <3>1. Wants("DOWNLOAD", r)
      BY <1>5, <2>4 DEF InRequest, Wants
    <3>2. PICK l : l = Len(r.local)
      OBVIOUS
    <3>3. l = 0 /\ r.local \in Seq(Byte)
      BY <2>5, <3>2, SeqFacts
    <3>4. Follows(r.call, r.meta.file, l, q)
      BY <1>7, <2>2, <2>4, <2>6, <3>3
    <3>5. InDownload(r, << >>, q)
      BY <2>6, <3>1, <3>2, <3>3, <3>4 DEF InDownload
    <3> QED
      BY <2>4, <3>5 DEF Words
  <2>8. Serves(k)' => Facts(c, r, << >>, q)'
    <3> SUFFICES ASSUME Serves(k)' PROVE Facts(c, r, << >>, q)'
      OBVIOUS
    <3>1. Serves(k) /\ UNCHANGED vars
      BY <1>1, OwnStep DEF Serves
    <3>2. IsCurrent(sdk[c].req.path, Replies(k)[1].arg.file)
      BY <1>1, <1>3, <1>4, <1>7, <3>1 DEF Facts, Begins, Packet
    <3>3. IsCurrent(r.req.path, r.meta.file)
      BY <1>4, <2>4, <3>2
    <3>4. IsCurrent(r.req.path, r.meta.file)'
      BY <3>1, <3>3 DEF IsCurrent, CanDownload, IsFile, Exists, vars
    <3> QED
      BY <2>4, <3>4 DEF Facts
  <2>9. wire'[k].up = << >> /\ Replies(k)' = q
    BY <1>4, <1>7, <2>2
  <2> QED
    BY <1>3, <2>1, <2>4, <2>5, <2>7, <2>8, <2>9, TalksIf
<1> QED
  BY <1>4, <1>5, <1>6, <1>7 DEF InRequest, Asked

\* The rest of a stream.
LEMMA FollowsOn ==
  ASSUME NEW call, NEW S, NEW f \in Seq(S), NEW l \in Nat, NEW q, IsSeq(q), q # << >>,
         Follows(call, f, l, q)
  PROVE  /\ q[1] = Piece(call, f, l + 1)
         /\ l + 1 <= Len(f) => Follows(call, f, l + 1, Tail(q))
         /\ l + 1 > Len(f) => Tail(q) = << >>
<1>1. /\ Len(q) \in Nat \ {0} /\ IsSeq(Tail(q)) /\ Len(Tail(q)) = Len(q) - 1
      /\ \A n \in 1..Len(Tail(q)) : Tail(q)[n] = q[n + 1]
  BY AnySeq
<1>2. Len(f) \in Nat
  OBVIOUS
<1>3. l + Len(q) <= Len(f) + 1 /\ \A n \in 1..Len(q) : q[n] = Piece(call, f, l + n)
  BY DEF Follows
<1>4. q[1] = Piece(call, f, l + 1)
  BY <1>1, <1>3
<1>5. ASSUME l + 1 <= Len(f) PROVE Follows(call, f, l + 1, Tail(q))
  <2>1. (l + 1) + Len(Tail(q)) <= Len(f) + 1
    BY <1>1, <1>2, <1>3
  <2>2. ASSUME NEW n \in 1..Len(Tail(q)) PROVE Tail(q)[n] = Piece(call, f, (l + 1) + n)
    <3>1. n + 1 \in 1..Len(q) /\ l + (n + 1) = (l + 1) + n
      BY <1>1, <2>2
    <3> QED
      BY <1>1, <1>3, <2>2, <3>1
  <2> QED
    BY <2>1, <2>2 DEF Follows
<1>6. ASSUME l + 1 > Len(f) PROVE Tail(q) = << >>
  <2>1. Len(Tail(q)) = 0
    BY <1>1, <1>2, <1>3, <1>6
  <2> QED
    BY <1>1, <2>1, AnySeq
<1> QED
  BY <1>4, <1>5, <1>6

LEMMA StreamReceivedTalks ==
  ASSUME LinkInv, TalkInv, NEW c \in Client, StreamReceived(c)
  PROVE  Talks(c)'
<1>1. /\ sdk[c].pc = "stream" /\ CanReceive(K(c)) /\ Consume(K(c)) /\ StepOf(c)
  BY DEF StreamReceived, StepOf, ClientStep
<1>2. sdk[c].conn # 0
  BY <1>1 DEF LinkInv, IsClient
<1>3. PICK k \in Conn :
        /\ k = K(c) /\ k = << c, sdk[c].conn >>
        /\ IsClient(sdk[c]) /\ DOMAIN sdk = Client /\ Tidy(sdk[c])
        /\ Words(c, sdk[c], wire[k].up, Replies(k))
        /\ Serves(k) => Facts(c, sdk[c], wire[k].up, Replies(k))
  BY <1>2, InTalk
<1>4. /\ IsSeq(Replies(k)) /\ Replies(k) # << >> /\ Received(k) = Replies(k)[1]
      /\ Replies(k)' = Tail(Replies(k)) /\ wire'[k].up = wire[k].up
  BY <1>1, <1>3, ReceivedIsFirst
<1>5. InDownload(sdk[c], wire[k].up, Replies(k))
  BY <1>1, <1>3 DEF Words
<1>6. PICK f \in Seq(Byte) : f = sdk[c].meta.file
  BY <1>5 DEF InDownload
<1>7. PICK l \in Nat : l = Len(sdk[c].local)
  BY <1>5 DEF InDownload
<1>8. /\ Received(k) = Piece(sdk[c].call, f, l + 1)
      /\ l + 1 <= Len(f) => Follows(sdk[c].call, f, l + 1, Tail(Replies(k)))
      /\ l + 1 > Len(f) => Tail(Replies(k)) = << >>
  <2>1. PICK q : q = Replies(k) /\ IsSeq(q) /\ q # << >> /\ Received(k) = q[1]
    BY <1>4
  <2>2. Follows(sdk[c].call, f, l, q)
    BY <1>5, <1>6, <1>7, <2>1 DEF InDownload
  <2>3. /\ q[1] = Piece(sdk[c].call, f, l + 1)
        /\ l + 1 <= Len(f) => Follows(sdk[c].call, f, l + 1, Tail(q))
        /\ l + 1 > Len(f) => Tail(q) = << >>
    <3>1. PICK call : call = sdk[c].call
      OBVIOUS
    <3>2. Follows(call, f, l, q)
      BY <2>2, <3>1, Zenon
    <3>3. /\ q[1] = Piece(call, f, l + 1)
          /\ l + 1 <= Len(f) => Follows(call, f, l + 1, Tail(q))
          /\ l + 1 > Len(f) => Tail(q) = << >>
      BY <2>1, <3>2, FollowsOn
    <3> QED
      BY <3>1, <3>3, Zenon
  <2> QED
    BY <2>1, <2>3, Zenon
<1>9. CASE l + 1 > Len(f)
  <2>1. Received(k).type = "DOWNLOAD_END"
    BY <1>6, <1>7, <1>8, <1>9 DEF Piece, Packet
  <2>2. \E status : Return(c, status)
    BY <1>3, <2>1 DEF StreamReceived, InStream
  <2>3. wire[k].up = << >> /\ Tail(Replies(k)) = << >>
    BY <1>5, <1>8, <1>9 DEF InDownload
  <2> QED
    BY <1>1, <1>3, <1>4, <2>2, <2>3, ReturnTalks
<1>10. CASE l + 1 <= Len(f)
  <2>1. Received(k) = Packet("DOWNLOAD_CHUNK", sdk[c].call,
              [id |-> sdk[c].call, offset |-> (l + 1) - 1, chunk |-> << f[l + 1] >>])
    BY <1>8, <1>10 DEF Piece
  <2>2. /\ Received(k).type = "DOWNLOAD_CHUNK" /\ Received(k).arg.id = sdk[c].call
        /\ Received(k).arg.offset = l /\ Received(k).arg.chunk = << f[l + 1] >>
    BY <2>1 DEF Packet
  <2>3. InStream(c, Received(k))
    BY <1>5, <1>7, <2>2 DEF InDownload, InStream
  <2>4. PICK bytes \in Landed(Received(k).arg.chunk) :
          sdk' = [sdk EXCEPT ![c].local = @ \o bytes]
    BY <1>3, <2>2, <2>3 DEF StreamReceived
  <2>5. bytes \in Seq(Byte) /\ Len(bytes) = 1
    <3>1. f[l + 1] \in Byte /\ Hole \in Byte
      BY <1>10, StorageAssumption
    <3>2. Len(<< f[l + 1] >>) = 1 /\ << f[l + 1] >> \in Seq(Byte)
      BY <3>1
    <3>3. [n \in 1..1 |-> Hole] \in Seq(Byte) /\ Len([n \in 1..1 |-> Hole]) = 1
      BY <3>1
    <3> QED
      BY <2>2, <2>4, <3>2, <3>3 DEF Landed
  <2>6. PICK r : r = sdk'[c]
    OBVIOUS
  <2>7. PICK q : q = Tail(Replies(k))
    OBVIOUS
  <2>8. /\ r.pc = "stream" /\ r.conn = sdk[c].conn /\ r.state = sdk[c].state
        /\ r.sent = sdk[c].sent /\ r.local = sdk[c].local \o bytes
        /\ r.call = sdk[c].call /\ r.req = sdk[c].req /\ r.meta = sdk[c].meta
    BY <1>1, <1>3, <2>4, <2>6 DEF IsClient, ClientFields
  <2>9. Tidy(r)
    BY <1>1, <1>3, <2>8 DEF Tidy
  <2>10. r.local \in Seq(Byte) /\ Len(r.local) = l + 1
    <3>1. sdk[c].local \in Seq(Byte)
      BY <1>5 DEF InDownload
    <3>2. /\ sdk[c].local \o bytes \in Seq(Byte)
          /\ Len(sdk[c].local \o bytes) = Len(sdk[c].local) + Len(bytes)
      BY <2>5, <3>1, Concatenation
    <3> QED
      BY <1>7, <2>5, <2>8, <3>2
  <2>11. Words(c, r, << >>, q)
    <3>1. Follows(r.call, r.meta.file, l + 1, q)
      BY <1>6, <1>8, <1>10, <2>7, <2>8
    <3>2. InDownload(r, << >>, q)
      BY <1>5, <1>6, <2>8, <2>10, <3>1 DEF InDownload, Wants
    <3> QED
      BY <2>8, <3>2 DEF Words
  <2>12. Serves(k)' => Facts(c, r, << >>, q)'
    <3> SUFFICES ASSUME Serves(k)' PROVE Facts(c, r, << >>, q)'
      OBVIOUS
    <3>1. Serves(k) /\ UNCHANGED vars
      BY <1>1, OwnStep DEF Serves
    <3>2. IsCurrent(sdk[c].req.path, sdk[c].meta.file)
      BY <1>1, <1>3, <3>1 DEF Facts
    <3>3. IsCurrent(r.req.path, r.meta.file)'
      BY <2>8, <3>1, <3>2 DEF IsCurrent, CanDownload, IsFile, Exists, vars
    <3> QED
      BY <2>8, <3>3 DEF Facts
  <2>13. wire'[k].up = << >> /\ Replies(k)' = q
    BY <1>4, <1>5, <2>7 DEF InDownload
  <2> QED
    BY <1>3, <2>6, <2>8, <2>9, <2>11, <2>12, <2>13, TalksIf
<1> QED
  BY <1>6, <1>7, <1>9, <1>10

\* A login, or the loss of the connection while it waits for its answer.
LEMMA LoginTalks ==
  ASSUME LinkInv, LoginInv, TalkInv, NEW c \in Client, AuthAnswered(c) \/ AuthLost(c)
  PROVE  Talks(c)'
<1>1. sdk[c].pc = "auth" /\ StepOf(c)
  BY DEF AuthAnswered, AuthLost, StepOf, ClientStep
<1>2. sdk[c].conn # 0
  BY <1>1 DEF LinkInv, IsClient
<1>3. PICK k \in Conn :
        /\ k = K(c) /\ k = << c, sdk[c].conn >>
        /\ IsClient(sdk[c]) /\ DOMAIN sdk = Client /\ Tidy(sdk[c])
        /\ Words(c, sdk[c], wire[k].up, Replies(k))
  BY <1>2, InTalk
<1>4. PICK r : r = sdk'[c]
  OBVIOUS
<1>5. CASE AuthAnswered(c)
  <2>1. CanReceive(k) /\ Consume(k)
    BY <1>3, <1>5 DEF AuthAnswered
  <2>2. /\ IsSeq(Replies(k)) /\ Replies(k) # << >>
        /\ Replies(k)' = Tail(Replies(k)) /\ wire'[k].up = wire[k].up
    BY <1>1, <1>3, <2>1, ReceivedIsFirst
  <2>3. wire[k].up = << >> /\ Tail(Replies(k)) = << >>
    <3>1. IsSeq(wire[k].up) /\ Len(wire[k].up) + Len(Replies(k)) <= 1
      BY <1>1, <1>3, RepliesAre DEF Words
    <3>2. /\ Len(wire[k].up) \in Nat /\ Len(Replies(k)) \in Nat \ {0}
          /\ wire[k].up = << >> <=> Len(wire[k].up) = 0
      BY <2>2, <3>1, AnySeq
    <3>3. wire[k].up = << >> /\ Len(Replies(k)) <= 1
      BY <3>1, <3>2
    <3> QED
      BY <2>2, <3>3, Single
  <2>4. CASE \E status : Return(c, status)
    BY <1>1, <1>3, <2>2, <2>3, <2>4, ReturnTalks
  <2>5. CASE sdk' = [sdk EXCEPT ![c].pc = "idle", ![c].state = "AUTHENTICATED",
                                ![c].req = NoRequest, ![c].status = "OK"]
    <3>1. /\ r.pc = "idle" /\ r.conn = sdk[c].conn
          /\ r.sent = sdk[c].sent /\ r.local = sdk[c].local
      BY <1>3, <1>4, <2>5 DEF IsClient, ClientFields
    <3>2. Tidy(r)
      BY <1>1, <1>3, <3>1 DEF Tidy
    <3>3. Words(c, r, << >>, << >>)
      BY <3>1 DEF Words
    <3>4. Facts(c, r, << >>, << >>)'
      BY <3>1 DEF Facts
    <3> QED
      BY <1>3, <1>4, <2>2, <2>3, <3>1, <3>2, <3>3, <3>4, TalksIf
  <2> QED
    BY <1>5, <2>4, <2>5 DEF AuthAnswered
<1>6. CASE AuthLost(c)
  <2>1. /\ r.pc = "stuck" /\ r.conn = sdk[c].conn /\ r.state = sdk[c].state
        /\ r.sent = sdk[c].sent /\ r.local = sdk[c].local
    BY <1>3, <1>4, <1>6 DEF AuthLost, GoTo, IsClient, ClientFields
  <2>2. sdk[c].state # "AUTHENTICATED"
    BY <1>1, <1>2 DEF LoginInv, LoggingIn, Asks
  <2>3. Tidy(r)
    BY <1>1, <1>3, <2>1, <2>2 DEF Tidy
  <2>4. \A up, q : Words(c, r, up, q)
    BY <2>1 DEF Words
  <2>5. \A up, q : Facts(c, r, up, q)'
    BY <2>1 DEF Facts
  <2> QED
    BY <1>3, <1>4, <2>1, <2>3, <2>4, <2>5, TalksIf
<1> QED
  BY <1>5, <1>6

\* The connection is gone, and the client has read all that came before.
LEMMA LossTalks ==
  ASSUME LinkInv, TalkInv, NEW c \in Client, CallLost(c)
  PROVE  Talks(c)'
<1>1. /\ sdk[c].pc \in {"simple", "begin", "end", "request", "stream"}
      /\ Lost(K(c)) /\ wire' = wire /\ StepOf(c) /\ \E status : Return(c, status)
  BY DEF CallLost, StepOf, ClientStep
<1>2. sdk[c].conn # 0
  BY <1>1 DEF LinkInv, IsClient
<1>3. PICK k \in Conn :
        /\ k = K(c) /\ (wire[k].sOpen <=> Serves(k))
        /\ ~wire[k].sOpen /\ sdk[c].pc # "stuck" => wire[k].up = << >>
  BY <1>2, InTalk
<1>4. ~Serves(k) /\ wire[k].up = << >> /\ wire[k].down = << >>
  BY <1>1, <1>3 DEF Lost
<1>5. Replies(k) = << >>
  BY <1>4, RepliesAre
<1>6. UNCHANGED srv
  BY <1>1, OwnStep
<1>7. Replies(k)' = Replies(k)
  BY <1>1, <1>6 DEF Replies, Unsent, Serves
<1> QED
  BY <1>1, <1>3, <1>4, <1>5, <1>7, ReturnTalks

LEMMA SendFailsTalks ==
  ASSUME LinkInv, TalkInv, NEW c \in Client, SendFails(c)
  PROVE  Talks(c)'
<1>1. /\ sdk[c].pc = "chunks" /\ ~wire[K(c)].sOpen
      /\ wire' = wire /\ StepOf(c) /\ \E status : Return(c, status)
  BY DEF SendFails, StepOf, ClientStep
<1>2. sdk[c].conn # 0
  BY <1>1 DEF LinkInv, IsClient
<1>3. PICK k \in Conn :
        /\ k = K(c) /\ Words(c, sdk[c], wire[k].up, Replies(k))
        /\ ~wire[k].sOpen /\ sdk[c].pc # "stuck" => wire[k].up = << >>
  BY <1>2, InTalk
<1>4. wire[k].up = << >> /\ Replies(k) = << >>
  BY <1>1, <1>3 DEF Words, InChunks
<1>5. UNCHANGED srv
  BY <1>1, OwnStep
<1>6. Replies(k)' = Replies(k)
  BY <1>1, <1>5 DEF Replies, Unsent, Serves
<1> QED
  BY <1>1, <1>3, <1>4, <1>6, ReturnTalks

\* A packet a client sends is the last of those on their way to the server.
LEMMA SentIsLast ==
  ASSUME LinkInv, NEW c \in Client, StepOf(c), NEW k \in Conn, NEW p, Send(k, p)
  PROVE  /\ wire'[k].up = Append(wire[k].up, p) /\ Replies(k)' = Replies(k)
         /\ Serves(k)' <=> Serves(k)
<1>1. UNCHANGED srv
  BY OwnStep
<1>2. wire'[k].up = Append(wire[k].up, p) /\ wire'[k].down = wire[k].down
  BY DEF LinkInv, IsSocket, IsWire, Send
<1> QED
  BY <1>1, <1>2 DEF Replies, Unsent, Serves

LEMMA ChunkIsOneByte ==
  ASSUME NoSpuriousReply, NEW n, NEW chunk \in ReadChunk(n)
  PROVE  Len(chunk) = 1
BY DEF NoSpuriousReply, ReadChunk

LEMMA SendChunkTalks ==
  ASSUME NoSpuriousReply, LinkInv, TalkInv, NEW c \in Client, SendChunk(c)
  PROVE  Talks(c)'
<1>1. /\ sdk[c].pc = "chunks" /\ StepOf(c) /\ sdk[c].sent < Len(LocalFile)
  BY DEF SendChunk, StepOf, ClientStep
<1>2. sdk[c].conn # 0
  BY <1>1 DEF LinkInv, IsClient
<1>3. PICK k \in Conn :
        /\ k = K(c) /\ k = << c, sdk[c].conn >> /\ IsWire(k)
        /\ IsClient(sdk[c]) /\ DOMAIN sdk = Client /\ Tidy(sdk[c])
        /\ Words(c, sdk[c], wire[k].up, Replies(k))
        /\ Serves(k) => Facts(c, sdk[c], wire[k].up, Replies(k))
  BY <1>2, InTalk
<1>4. PICK chunk \in ReadChunk(sdk[c].sent) :
        /\ Send(k, Packet("UPLOAD_CHUNK", sdk[c].call,
                          [ id     |-> << c, sdk[c].call >>,
                            offset |-> sdk[c].sent,
                            chunk  |-> chunk ]))
        /\ sdk' = [sdk EXCEPT ![c].sent = @ + Len(chunk)]
  BY <1>3 DEF SendChunk
<1>5. Len(chunk) = 1
  BY ChunkIsOneByte
<1>6. PICK p : p = Packet("UPLOAD_CHUNK", sdk[c].call,
                          [ id     |-> << c, sdk[c].call >>,
                            offset |-> sdk[c].sent,
                            chunk  |-> chunk ])
  OBVIOUS
<1>7. PICK r : r = sdk'[c]
  OBVIOUS
<1>8. PICK old : old = wire[k].up
  OBVIOUS
<1>9. PICK up : up = Append(old, p)
  OBVIOUS
<1>10. /\ wire'[k].up = up /\ Replies(k)' = Replies(k)
       /\ Serves(k)' <=> Serves(k)
  BY <1>1, <1>4, <1>6, <1>8, <1>9, SentIsLast
<1>11. /\ r.pc = "chunks" /\ r.conn = sdk[c].conn /\ r.state = sdk[c].state
       /\ r.sent = sdk[c].sent + 1 /\ r.local = sdk[c].local
       /\ r.call = sdk[c].call /\ r.req = sdk[c].req
  BY <1>1, <1>3, <1>4, <1>5, <1>7 DEF IsClient, ClientFields
<1>12. Tidy(r)
  BY <1>1, <1>3, <1>11 DEF Tidy
<1>13. PICK m \in Nat : m = Len(old)
  BY <1>3, <1>8 DEF IsSocket, IsWire
<1>14. /\ Len(up) = m + 1 /\ up[m + 1] = p /\ \A n \in 1..m : up[n] = old[n]
  BY <1>3, <1>8, <1>9, <1>13, AnySeq, RepliesAre
<1>15. InChunks(c, sdk[c], old, Replies(k))
  BY <1>1, <1>3, <1>8 DEF Words
<1>16. sdk[c].sent \in Nat /\ r.sent - Len(up) = sdk[c].sent - m
  <2>1. PICK sent \in Nat : sent = sdk[c].sent
    BY <1>3 DEF IsClient
  <2>2. r.sent = sent + 1 /\ Len(up) = m + 1
    BY <1>11, <1>14, <2>1
  <2> QED
    BY <1>13, <2>1, <2>2
<1>17. Words(c, r, up, Replies(k))
  <2>1. \A n \in 1..m : IsChunk(c, r, up[n], r.sent - Len(up) + n - 1)
    BY <1>11, <1>13, <1>14, <1>15, <1>16 DEF InChunks, IsChunk, Id
  <2>2. IsChunk(c, r, up[m + 1], r.sent - Len(up) + (m + 1) - 1)
    <3>1. r.sent - Len(up) + (m + 1) - 1 = sdk[c].sent
      BY <1>16
    <3> QED
      BY <1>5, <1>6, <1>11, <1>14, <3>1 DEF IsChunk, Id, Packet
  <2>3. \A n \in 1..Len(up) : n \in 1..m \/ n = m + 1
    BY <1>14
  <2>4. r.sent <= Len(LocalFile)
    BY <1>1, <1>11, <1>16, LinkAssumption
  <2>5. InChunks(c, r, up, Replies(k))
    BY <1>11, <1>15, <2>1, <2>2, <2>3, <2>4 DEF InChunks, Wants
  <2> QED
    BY <1>11, <2>5 DEF Words
<1>18. Serves(k)' => Facts(c, r, up, Replies(k))'
  <2> SUFFICES ASSUME Serves(k)' PROVE Facts(c, r, up, Replies(k))'
    OBVIOUS
  <2>1. Serves(k) /\ UNCHANGED vars
    BY <1>1, <1>10, OwnStep
  <2>2. Uploading(c, sdk[c], sdk[c].sent - m)
    BY <1>1, <1>3, <1>8, <1>13, <2>1 DEF Facts
  <2>3. Uploading(c, r, r.sent - Len(up))'
    BY <1>11, <1>16, <2>1, <2>2, UploadingStays
  <2> QED
    BY <1>11, <2>3 DEF Facts
<1> QED
  BY <1>3, <1>7, <1>10, <1>11, <1>12, <1>17, <1>18, TalksIf

LEMMA SendEndTalks ==
  ASSUME LinkInv, TalkInv, NEW c \in Client, SendEnd(c)
  PROVE  Talks(c)'
<1>1. /\ sdk[c].pc = "chunks" /\ StepOf(c) /\ GoTo(c, "end")
  BY DEF SendEnd, StepOf, ClientStep
<1>2. sdk[c].conn # 0
  BY <1>1 DEF LinkInv, IsClient
<1>3. PICK k \in Conn :
        /\ k = K(c) /\ k = << c, sdk[c].conn >> /\ IsWire(k)
        /\ IsClient(sdk[c]) /\ DOMAIN sdk = Client /\ Tidy(sdk[c])
        /\ Words(c, sdk[c], wire[k].up, Replies(k))
        /\ Serves(k) => Facts(c, sdk[c], wire[k].up, Replies(k))
  BY <1>2, InTalk
<1>4. PICK p : p = UploadEnd(c, sdk[c])
  OBVIOUS
<1>5. Send(k, p)
  BY <1>3, <1>4 DEF SendEnd, UploadEnd, Id
<1>6. PICK r : r = sdk'[c]
  OBVIOUS
<1>7. PICK old : old = wire[k].up
  OBVIOUS
<1>8. PICK up : up = Append(old, p)
  OBVIOUS
<1>9. PICK q : q = Replies(k)'
  OBVIOUS
<1>10. /\ wire'[k].up = up /\ q = Replies(k)
       /\ Serves(k)' <=> Serves(k)
  BY <1>1, <1>5, <1>7, <1>8, <1>9, SentIsLast
<1>11. /\ r.pc = "end" /\ r.conn = sdk[c].conn /\ r.state = sdk[c].state
       /\ r.sent = sdk[c].sent /\ r.local = sdk[c].local
       /\ r.call = sdk[c].call /\ r.req = sdk[c].req
  BY <1>1, <1>3, <1>6 DEF GoTo, IsClient, ClientFields
<1>12. Tidy(r)
  BY <1>1, <1>3, <1>11 DEF Tidy
<1>13. PICK m \in Nat : m = Len(old)
  BY <1>3, <1>7 DEF IsSocket, IsWire
<1>14. /\ IsSeq(up) /\ Len(up) = m + 1 /\ up[m + 1] = p
       /\ \A n \in 1..m : up[n] = old[n]
  BY <1>3, <1>7, <1>8, <1>13, AnySeq, RepliesAre
<1>15. InChunks(c, sdk[c], old, q)
  BY <1>1, <1>3, <1>7, <1>10 DEF Words
<1>16. sdk[c].sent \in Nat /\ r.sent - (Len(up) - 1) = sdk[c].sent - m
  BY <1>3, <1>11, <1>13, <1>14 DEF IsClient
<1>17. Words(c, r, up, q)
  <2>1. \A n \in 1..(Len(up) - 1) : IsChunk(c, r, up[n], r.sent - Len(up) + n)
    <3> SUFFICES ASSUME NEW n \in 1..m PROVE IsChunk(c, r, up[n], r.sent - Len(up) + n)
      BY <1>13, <1>14
    <3>1. r.sent - Len(up) + n = sdk[c].sent - m + n - 1
      BY <1>11, <1>13, <1>14, <1>16
    <3> QED
      BY <1>11, <1>13, <1>14, <1>15, <3>1 DEF InChunks, IsChunk, Id
  <2>2. up # << >> /\ up[Len(up)] = UploadEnd(c, r)
    BY <1>4, <1>11, <1>13, <1>14, AnySeq DEF UploadEnd, Id
  <2>3. InEnd(c, r, up, q)
    BY <1>11, <1>15, <2>1, <2>2 DEF InEnd, InChunks, Wants
  <2> QED
    BY <1>11, <2>3 DEF Words
<1>18. Serves(k)' => Facts(c, r, up, q)'
  <2> SUFFICES ASSUME Serves(k)' PROVE Facts(c, r, up, q)'
    OBVIOUS
  <2>1. Serves(k) /\ UNCHANGED vars
    BY <1>1, <1>10, OwnStep
  <2>2. Uploading(c, sdk[c], sdk[c].sent - m)
    BY <1>1, <1>3, <1>7, <1>13, <2>1 DEF Facts
  <2>3. Uploading(c, r, r.sent - (Len(up) - 1))'
    BY <1>11, <1>16, <2>1, <2>2, UploadingStays
  <2>4. ~Begins(q, "SUCCESS")
    BY <1>15 DEF InChunks, Begins
  <2> QED
    BY <1>11, <2>3, <2>4 DEF Facts
<1> QED
  BY <1>3, <1>6, <1>9, <1>10, <1>11, <1>12, <1>17, <1>18, TalksIf

\* What a call begins with.
LEMMA CallTalks ==
  ASSUME LinkInv, TalkInv, NEW c \in Client, NEW req \in Requests, Call(c, req)
  PROVE  Talks(c)'
<1>1. /\ sdk[c].pc = "idle" /\ sdk[c].state = "AUTHENTICATED" /\ StepOf(c)
      /\ sdk[c].call < MaxCalls
  BY DEF Call, StepOf, UserStep
<1>2. sdk[c].conn # 0
  BY <1>1 DEF LinkInv, IsClient
<1>3. PICK k \in Conn :
        /\ k = K(c) /\ k = << c, sdk[c].conn >> /\ IsWire(k)
        /\ IsClient(sdk[c]) /\ DOMAIN sdk = Client /\ Tidy(sdk[c])
        /\ Words(c, sdk[c], wire[k].up, Replies(k))
  BY <1>2, InTalk
<1>4. wire[k].up = << >> /\ Replies(k) = << >>
  BY <1>1, <1>3 DEF Words
<1>5. PICK r : r = sdk'[c]
  OBVIOUS
<1>6. CASE /\ Send(k, Opening(c, req))
           /\ sdk' = [sdk EXCEPT ![c].pc = Sdk(req.op), ![c].req = req,
                                 ![c].call = @ + 1]
  <2>1. PICK p : p = Opening(c, req)
    OBVIOUS
  <2>2. /\ wire'[k].up = << p >> /\ Replies(k)' = << >>
        /\ Serves(k)' <=> Serves(k)
    <3>1. Append(<< >>, p) = << p >>
      OBVIOUS
    <3> QED
      BY <1>1, <1>4, <1>6, <2>1, <3>1, SentIsLast
  <2>3. /\ r.pc = Sdk(req.op) /\ r.conn = sdk[c].conn /\ r.state = sdk[c].state
        /\ r.sent = sdk[c].sent /\ r.local = sdk[c].local
        /\ r.call = sdk[c].call + 1 /\ r.req = req
    BY <1>3, <1>5, <1>6 DEF IsClient, ClientFields
  <2>4. r.pc \in {"simple", "begin", "request"}
    BY <2>3 DEF Sdk
  <2>5. Tidy(r)
    BY <1>1, <1>3, <2>3, <2>4 DEF Tidy
  <2>6. Words(c, r, << p >>, << >>)
    <3>1. CASE req.op = "UPLOAD"
      <4>1. p = Packet("UPLOAD_BEGIN", r.call, [id |-> Id(c, r), begin |-> Declared(r.req)])
        BY <2>1, <2>3, <3>1 DEF Opening, NextId, Id
      <4>2. r.pc = "begin"
        BY <2>3, <3>1 DEF Sdk
      <4>3. InBegin(c, r, << p >>, << >>)
        BY <2>3, <3>1, <4>1 DEF InBegin, Wants, Asked
      <4> QED
        BY <4>2, <4>3 DEF Words
    <3>2. CASE req.op = "DOWNLOAD"
      <4>1. p = Packet("DOWNLOAD_REQUEST", r.call, r.req)
        BY <2>1, <2>3, <3>2 DEF Opening
      <4>2. r.pc = "request"
        BY <2>3, <3>2 DEF Sdk
      <4>3. InRequest(r, << p >>, << >>)
        BY <2>3, <3>2, <4>1 DEF InRequest, Wants, Asked
      <4> QED
        BY <4>2, <4>3 DEF Words
    <3>3. CASE req.op \notin {"UPLOAD", "DOWNLOAD"}
      <4>1. p = Packet(r.req.op, r.call, r.req)
        BY <2>1, <2>3, <3>3 DEF Opening
      <4>2. r.pc = "simple"
        BY <2>3, <3>3 DEF Sdk
      <4>3. InSimple(r, << p >>, << >>)
        BY <2>3, <3>3, <4>1 DEF InSimple, Asked
      <4> QED
        BY <4>2, <4>3 DEF Words
    <3> QED
      BY <3>1, <3>2, <3>3
  <2>7. Facts(c, r, << p >>, << >>)'
    <3>1. \A type : ~Begins(<< >>, type)
      BY DEF Begins
    <3> QED
      BY <2>4, <3>1 DEF Facts
  <2> QED
    BY <1>3, <1>5, <2>2, <2>3, <2>5, <2>6, <2>7, TalksIf
<1>7. CASE /\ sdk' = [sdk EXCEPT ![c].call = @ + 1, ![c].status = "CONNECTION_FAILED"]
           /\ UNCHANGED wire
  <2>1. /\ r.pc = "idle" /\ r.conn = sdk[c].conn /\ r.state = sdk[c].state
        /\ r.sent = sdk[c].sent /\ r.local = sdk[c].local
    BY <1>1, <1>3, <1>5, <1>7 DEF IsClient, ClientFields
  <2>2. Tidy(r)
    BY <1>1, <1>3, <2>1 DEF Tidy
  <2>3. Words(c, r, << >>, << >>) /\ Facts(c, r, << >>, << >>)'
    BY <2>1 DEF Words, Facts
  <2>4. wire'[k].up = << >> /\ Replies(k)' = << >>
    <3>1. UNCHANGED srv
      BY <1>1, OwnStep
    <3> QED
      BY <1>4, <1>7, <3>1 DEF Replies, Unsent, Serves
  <2> QED
    BY <1>3, <1>5, <2>1, <2>2, <2>3, <2>4, TalksIf
<1> QED
  BY <1>3, <1>6, <1>7 DEF Call

LEMMA ConnectingTalks ==
  ASSUME LinkInv, TalkInv, NEW c \in Client, Connect(c) \/ HandshakeFails(c)
  PROVE  Talks(c)'
<1>1. /\ sdk[c].pc \in {"idle", "handshake"} /\ sdk'[c].pc \in {"idle", "handshake"}
      /\ sdk'[c].conn = sdk[c].conn /\ sdk'[c].state = sdk[c].state
      /\ sdk'[c].sent = sdk[c].sent /\ sdk'[c].local = sdk[c].local
      /\ sdk[c].conn # 0 => wire'[K(c)] = wire[K(c)]
      /\ srv' = srv
  BY ConnectingFrame
<1>2. PICK r : r = sdk'[c]
  OBVIOUS
<1>3. PICK k : k = K(c)
  OBVIOUS
<1>4. Tidy(r) /\ k = << c, r.conn >>
  BY <1>1, <1>2, <1>3 DEF TalkInv, Talks, Tidy, K
<1>5. PICK up : up = wire'[k].up
  OBVIOUS
<1>6. PICK q : q = Replies(k)'
  OBVIOUS
<1>7. ASSUME r.conn # 0 PROVE Words(c, r, up, q)
  <2>1. up = wire[k].up /\ q = Replies(k)
    BY <1>1, <1>2, <1>3, <1>5, <1>6, <1>7 DEF Replies, Unsent, Serves
  <2>2. Words(c, sdk[c], up, q)
    BY <1>1, <1>2, <1>3, <1>7, <2>1 DEF TalkInv, Talks
  <2>3. up = << >> /\ q = << >>
    BY <1>1, <2>2 DEF Words
  <2> QED
    BY <1>1, <1>2, <2>3 DEF Words
<1>8. Facts(c, r, up, q)'
  BY <1>1, <1>2 DEF Facts
<1> QED
  BY <1>2, <1>4, <1>5, <1>6, <1>7, <1>8, TalksIf

LEMMA DroppingTalks ==
  ASSUME LinkInv, TalkInv, NEW c \in Client, Disconnect(c) \/ Crash(c)
  PROVE  Talks(c)'
<1>1. IsClient(sdk[c]) /\ DOMAIN sdk = Client /\ Tidy(sdk[c])
  BY DEF LinkInv, TalkInv, Talks
<1>2. PICK r : r = sdk'[c]
  OBVIOUS
<1>3. r.conn = 0 /\ Tidy(r)
  <2>1. CASE Disconnect(c)
    <3>1. /\ r.pc = "idle" /\ r.conn = 0 /\ sdk[c].pc = "idle"
          /\ r.sent = sdk[c].sent /\ r.local = sdk[c].local
      BY <1>1, <1>2, <2>1 DEF Disconnect, IsClient, ClientFields
    <3> QED
      BY <1>1, <3>1 DEF Tidy
  <2>2. CASE Crash(c)
    <3>1. r.pc = "dead" /\ r.conn = 0 /\ r.sent = 0 /\ r.local = << >>
      BY <1>1, <1>2, <2>2 DEF Crash, NewClient
    <3> QED
      BY <3>1 DEF Tidy
  <2> QED
    BY <2>1, <2>2
<1> QED
  BY <1>2, <1>3 DEF Talks

LEMMA HandshakeTalks ==
  ASSUME LinkInv, TalkInv, NEW c \in Client, HandshakeDone(c)
  PROVE  Talks(c)'
<1>1. PICK k \in Conn : k = Fresh(c) /\ HandshakeOn(c, k)
  BY HandshakeEffect
<1>2. /\ sdk[c].pc = "handshake" /\ Greets(c) /\ IsWire(k) /\ srv' = srv
      /\ IsClient(sdk[c]) /\ DOMAIN sdk = Client /\ Tidy(sdk[c])
  BY <1>1 DEF LinkInv, TalkInv, Talks, HandshakeDone, HandshakeOn
<1>3. PICK r : r = sdk'[c]
  OBVIOUS
<1>4. /\ r.sent = sdk[c].sent /\ r.local = sdk[c].local
      /\ r.conn = k[2] /\ r.state = "CONNECTED_UNAUTHENTICATED"
      /\ r.pc \in {"auth", "stuck"} /\ (r.pc = "stuck" <=> ~wire[k].sOpen)
  <2>1. /\ r.sent = sdk[c].sent /\ r.local = sdk[c].local
    BY <1>2, <1>3 DEF HandshakeDone, IsClient, ClientFields
  <2> QED
    BY <1>1, <1>3, <2>1 DEF HandshakeOn
<1>5. Tidy(r) /\ k = << c, r.conn >>
  <2>1. k = << c, sdk[c].socket >>
    BY <1>1 DEF Fresh
  <2> QED
    BY <1>2, <1>4, <2>1 DEF Tidy
<1>6. PICK up : up = wire'[k].up
  OBVIOUS
<1>7. PICK q : q = Replies(k)'
  OBVIOUS
<1>8. Words(c, r, up, q)
  <2> SUFFICES ASSUME r.pc = "auth" PROVE Len(up) + Len(q) <= 1
    BY <1>4 DEF Words
  <2>1. Len(up) = 1
    BY <1>1, <1>6, SeqFacts DEF HandshakeOn
  <2>2. Serves(k) /\ srv.out = << >> /\ Len(wire[k].down) = 1 /\ IsSeq(wire[k].down)
    BY <1>1, <1>2, <1>4 DEF Greets, HandshakeOn, IsSocket, IsWire
  <2>3. Tail(wire[k].down) = << >>
    <3>1. wire[k].down # << >>
      BY <1>1 DEF HandshakeOn
    <3> QED
      <4>1. Len(wire[k].down) <= 1
        BY <2>2
      <4> QED
        BY <2>2, <3>1, <4>1, Single
  <2>4. wire'[k].down = << >> /\ Unsent(k)' = << >>
    BY <1>1, <1>2, <2>2, <2>3 DEF HandshakeOn, Unsent, Serves
  <2>5. q = << >>
    BY <1>7, <2>4, Joined, SeqFacts DEF Replies
  <2>6. Len(q) = 0
    BY <2>5, SeqFacts
  <2> QED
    BY <2>1, <2>6
<1>9. Facts(c, r, up, q)'
  BY <1>4 DEF Facts
<1> QED
  BY <1>3, <1>5, <1>6, <1>7, <1>8, <1>9, TalksIf

LEMMA ClientTalks ==
  ASSUME NoSpuriousReply, LinkInv, LoginInv, TalkInv, NEW c \in Client, StepOf(c)
  PROVE  \A e \in Client : Talks(e)'
<1>1. CASE SimpleAnswered(c) \/ UploadEnded(c)
  BY <1>1, LastAnswerTalks, TalkOfOthers
<1>2. CASE UploadBegun(c) \/ DownloadBegun(c) \/ StreamReceived(c)
  BY <1>2, UploadBegunTalks, DownloadBegunTalks, StreamReceivedTalks, TalkOfOthers
<1>3. CASE AuthAnswered(c) \/ AuthLost(c)
  BY <1>3, LoginTalks, TalkOfOthers
<1>4. CASE CallLost(c) \/ SendFails(c)
  BY <1>4, LossTalks, SendFailsTalks, TalkOfOthers
<1>5. CASE SendChunk(c) \/ SendEnd(c)
  BY <1>5, SendChunkTalks, SendEndTalks, TalkOfOthers
<1>6. CASE \E req \in Requests : Call(c, req)
  BY <1>6, CallTalks, TalkOfOthers
<1>7. CASE Connect(c) \/ HandshakeFails(c)
  BY <1>7, ConnectingTalks, TalkOfOthers
<1>8. CASE Disconnect(c) \/ Crash(c)
  BY <1>8, DroppingTalks, TalkOfOthers
<1>9. CASE HandshakeDone(c)
  BY <1>9, HandshakeTalks, TalkOfOthers
<1> QED
  BY <1>1, <1>2, <1>3, <1>4, <1>5, <1>6, <1>7, <1>8, <1>9
     DEF StepOf, ClientStep, UserStep

-----------------------------------------------------------------------------
(* The server takes up a packet. *)

\* The server has taken packet p from connection k of client c: it had nothing to
\* send, and the client waits for an answer or sends an upload.
Hears(c, k, p) ==
  /\ k = srv.conn /\ k = << c, sdk[c].conn >> /\ Serves(k)
  /\ IsClient(sdk[c]) /\ Tidy(sdk[c]) /\ UNCHANGED sdk
  /\ IsSeq(wire[k].up) /\ wire[k].up # << >>
  /\ p = wire[k].up[1] /\ p \in UpPacket(c)
  /\ srv.authed /\ Replies(k) = << >>
  /\ sdk[c].pc \in {"simple", "begin", "chunks", "end", "request"}
  /\ Words(c, sdk[c], wire[k].up, << >>)
  /\ Facts(c, sdk[c], wire[k].up, << >>)

LEMMA Heard ==
  ASSUME LinkInv, LoginInv, TalkInv, NEW type, NEW p, Receives(type, p),
         p.type # "AUTH_REQUEST", NEW c \in Client, sdk[c].conn # 0, K(c) = srv.conn
  PROVE  \E k \in Conn : Hears(c, k, p)
<1>1. PICK k \in Conn :
        /\ k = K(c) /\ k = << c, sdk[c].conn >> /\ k[1] = c /\ (wire[k].sOpen <=> Serves(k))
        /\ IsClient(sdk[c]) /\ Tidy(sdk[c])
        /\ Words(c, sdk[c], wire[k].up, Replies(k))
        /\ Serves(k) => Facts(c, sdk[c], wire[k].up, Replies(k))
  BY InTalk
<1>2. /\ Serves(k) /\ srv.out = << >> /\ wire[k].up # << >>
      /\ p = Head(wire[k].up) /\ p \in UpPacket(k[1]) /\ p.type = type
      /\ UNCHANGED sdk
      /\ wire'[k].up = Tail(wire[k].up) /\ wire'[k].down = wire[k].down
  BY <1>1, ReceivesEffect
<1>3. IsSeq(wire[k].up) /\ IsSeq(Replies(k))
  BY RepliesAre
<1>4. /\ Len(wire[k].up) \in Nat \ {0} /\ p = wire[k].up[1]
  BY <1>2, <1>3, AnySeq
<1>5. sdk[c].pc # "auth"
  BY <1>1, <1>2, <1>4 DEF LoginInv, LoggingIn, Asks
<1>6. sdk[c].pc \in {"simple", "begin", "chunks", "end", "request"}
  <2>1. sdk[c].pc \notin {"idle", "handshake", "stream"}
    BY <1>1, <1>2 DEF Words, InDownload
  <2>2. sdk[c].pc # "stuck"
    BY <1>1, <1>2 DEF LinkInv, Linked
  <2>3. sdk[c].pc # "dead"
    BY <1>1 DEF IsClient
  <2> QED
    BY <1>1, <1>5, <2>1, <2>2, <2>3 DEF IsClient, Pc
<1>7. srv.authed
  <2>1. sdk[c].state = "AUTHENTICATED"
    BY <1>1, <1>6 DEF Tidy
  <2> QED
    BY <1>1, <1>2, <1>5, <2>1 DEF LoginInv, LoggingIn, Knows
<1>8. Replies(k) = << >>
  <2>1. \/ InSimple(sdk[c], wire[k].up, Replies(k))
        \/ InBegin(c, sdk[c], wire[k].up, Replies(k))
        \/ InChunks(c, sdk[c], wire[k].up, Replies(k))
        \/ InEnd(c, sdk[c], wire[k].up, Replies(k))
        \/ InRequest(sdk[c], wire[k].up, Replies(k))
    BY <1>1, <1>6 DEF Words
  <2> QED
    BY <1>2, <2>1 DEF InSimple, InBegin, InChunks, InEnd, InRequest, Asked, OneReply
<1>9. Hears(c, k, p)
  BY <1>1, <1>2, <1>3, <1>4, <1>6, <1>7, <1>8 DEF Hears
<1> QED
  BY <1>9

\* Once a handler has answered, its answer is all that is on the way back.
LEMMA AnsweredTalks ==
  ASSUME LinkInv, NEW type, NEW p, Receives(type, p),
         NEW packets, IsSeq(packets), Answers(packets),
         NEW c \in Client, NEW k \in Conn, k = srv.conn,
         NEW r, r = sdk[c], k = << c, r.conn >>, Tidy(r), UNCHANGED sdk,
         Replies(k) = << >>, NEW up, up = Tail(wire[k].up),
         Words(c, r, up, packets), Facts(c, r, up, packets)'
  PROVE  Talks(c)'
<1>1. wire'[k].up = Tail(wire[k].up) /\ wire'[k].down = wire[k].down /\ Serves(k)
  BY ReceivesEffect
<1>2. wire[k].down = << >>
  BY RepliesAre
<1>3. Serves(k)' /\ srv'.out = packets
  BY <1>1 DEF LinkInv, IsServer, Answers, Serves
<1>4. Replies(k)' = packets
  BY <1>1, <1>2, <1>3, Joined, SeqFacts DEF Replies, Unsent
<1> QED
  BY <1>1, <1>4, TalksIf

\* What a client says first while it is in a call.
LEMMA FirstWord ==
  ASSUME NEW c, NEW r, NEW up, IsSeq(up), up # << >>, Words(c, r, up, << >>)
  PROVE  /\ r.pc = "simple"  => up[1].type \in {"LIST", "DELETE", "RENAME", "MKDIR", "RMDIR"}
         /\ r.pc = "begin"   => up[1].type = "UPLOAD_BEGIN"
         /\ r.pc = "chunks"  => up[1].type = "UPLOAD_CHUNK"
         /\ r.pc = "end"     => up[1].type \in {"UPLOAD_CHUNK", "UPLOAD_END"}
         /\ r.pc = "request" => up[1].type = "DOWNLOAD_REQUEST"
<1>1. Len(up) \in Nat \ {0}
  BY AnySeq
<1>2. ASSUME r.pc = "simple"
      PROVE  up[1].type \in {"LIST", "DELETE", "RENAME", "MKDIR", "RMDIR"}
  <2>1. /\ r.req \in Requests /\ r.req.op \notin {"UPLOAD", "DOWNLOAD"}
        /\ up = << Packet(r.req.op, r.call, r.req) >>
    BY <1>2 DEF Words, InSimple, Asked, OneReply
  <2>2. up[1].type = r.req.op
    BY <2>1 DEF Packet
  <2> QED
    BY <2>1, <2>2, RequestAssumption
<1>3. r.pc = "begin" => up[1].type = "UPLOAD_BEGIN"
  BY DEF Words, InBegin, Asked, OneReply, Packet
<1>4. r.pc = "chunks" => up[1].type = "UPLOAD_CHUNK"
  BY <1>1 DEF Words, InChunks, IsChunk
<1>5. ASSUME r.pc = "end" PROVE up[1].type \in {"UPLOAD_CHUNK", "UPLOAD_END"}
  <2>1. /\ up[Len(up)] = UploadEnd(c, r)
        /\ \A n \in 1..(Len(up) - 1) : up[n].type = "UPLOAD_CHUNK"
    BY <1>5 DEF Words, InEnd, IsChunk, OneReply
  <2>2. CASE Len(up) = 1
    BY <2>1, <2>2 DEF UploadEnd, Packet
  <2>3. CASE Len(up) # 1
    <3>1. 1 \in 1..(Len(up) - 1)
      BY <1>1, <2>3
    <3> QED
      BY <2>1, <3>1
  <2> QED
    BY <2>2, <2>3
<1>6. r.pc = "request" => up[1].type = "DOWNLOAD_REQUEST"
  BY DEF Words, InRequest, Asked, OneReply, Packet
<1> QED
  BY <1>2, <1>3, <1>4, <1>5, <1>6

\* The handlers of list, deletePath, rename, mkdir and rmdir.
SimpleHandler(p) ==
  ServeList(p) \/ ServeDelete(p) \/ ServeRename(p) \/ ServeMkdir(p) \/ ServeRmdir(p)

LEMMA SimpleAnswer ==
  ASSUME NEW p, SimpleHandler(p), srv.authed
  PROVE  \E answer :
           /\ Answers(<< answer >>) /\ answer.call = p.call
           /\ p.type = "LIST" /\ answer.type = "LIST" =>
                /\ UNCHANGED vars
                /\ CanList(p.arg.path) /\ answer.arg = Listing(p.arg.path)
<1>1. CASE ServeList(p)
  <2>1. PICK answer :
          /\ answer = IF CanList(p.arg.path)
                      THEN Response(p, Listing(p.arg.path)) ELSE Error(p)
          /\ Answers(<< answer >>) /\ UNCHANGED vars
    BY <1>1 DEF ServeList, Guarded
  <2> QED
    BY <2>1 DEF Response, Error, Packet
<1>2. CASE ServeDelete(p) \/ ServeRename(p) \/ ServeMkdir(p) \/ ServeRmdir(p)
  <2>1. p.type # "LIST" /\ \E ok : Answers(<< Response(p, ok) >>)
    BY <1>2 DEF ServeDelete, ServeRename, ServeMkdir, ServeRmdir, Receives, Guarded
  <2> QED
    BY <2>1 DEF Response, Packet
<1> QED
  BY <1>1, <1>2 DEF SimpleHandler

\* What a listing says is still true when only the server's answer changed.
LEMMA ListingStays ==
  ASSUME UNCHANGED vars, NEW path, NEW entries, CanList(path), entries = Listing(path)
  PROVE  CanList(path)' /\ (entries = Listing(path))'
BY DEF CanList, Listing, Entry, Children, IsDirectory, Exists, vars

LEMMA SimpleTalks ==
  ASSUME LinkInv, LoginInv, TalkInv, NEW p, SimpleHandler(p),
         NEW c \in Client, sdk[c].conn # 0, K(c) = srv.conn
  PROVE  Talks(c)'
<1>1. PICK type : /\ Receives(type, p) /\ p.type = type
                  /\ type \in {"LIST", "DELETE", "RENAME", "MKDIR", "RMDIR"}
  BY DEF SimpleHandler, ServeList, ServeDelete, ServeRename, ServeMkdir, ServeRmdir,
         Receives
<1>2. PICK k \in Conn : Hears(c, k, p)
  BY <1>1, Heard
<1>3. PICK r : r = sdk[c]
  OBVIOUS
<1>4. PICK up : up = Tail(wire[k].up)
  OBVIOUS
<1>5. sdk[c].pc = "simple"
  BY <1>1, <1>2, FirstWord DEF Hears
<1>6. /\ r.req \in Requests /\ r.req.op \notin {"UPLOAD", "DOWNLOAD"}
      /\ wire[k].up = << Packet(r.req.op, r.call, r.req) >>
  BY <1>2, <1>3, <1>5 DEF Hears, Words, InSimple, Asked, OneReply
<1>7. p.type = r.req.op /\ p.call = r.call /\ p.arg = r.req /\ up = << >>
  BY <1>2, <1>4, <1>6 DEF Hears, Packet
<1>8. PICK answer :
        /\ Answers(<< answer >>) /\ answer.call = p.call
        /\ p.type = "LIST" /\ answer.type = "LIST" =>
             /\ UNCHANGED vars
             /\ CanList(p.arg.path) /\ answer.arg = Listing(p.arg.path)
  BY <1>2, SimpleAnswer DEF Hears
<1>9. Words(c, r, up, << answer >>)
  <2>1. OneReply(r, up, << answer >>)
    BY <1>7, <1>8, SeqFacts DEF OneReply
  <2> QED
    BY <1>3, <1>5, <1>6, <2>1 DEF Words, InSimple
<1>10. Facts(c, r, up, << answer >>)'
  <2>1. ASSUME r.req.op = "LIST", Begins(<< answer >>, "LIST")
        PROVE  (CanList(r.req.path) /\ answer.arg = Listing(r.req.path))'
    <3>1. answer.type = "LIST"
      BY <2>1 DEF Begins
    <3> QED
      BY <1>7, <1>8, <2>1, <3>1, ListingStays
  <2> QED
    BY <1>3, <1>5, <2>1 DEF Facts
<1>11. /\ k = srv.conn /\ k = << c, r.conn >> /\ Tidy(r)
       /\ UNCHANGED sdk /\ Replies(k) = << >>
  BY <1>2, <1>3 DEF Hears
<1> QED
  BY <1>1, <1>3, <1>4, <1>8, <1>9, <1>10, <1>11, AnsweredTalks, SeqFacts

\* What the server sends for a download is what the client expects.
LEMMA StreamFollows ==
  ASSUME NEW p, NEW f \in Seq(Byte)
  PROVE  /\ IsSeq(Stream(p, f)) /\ Stream(p, f) # << >>
         /\ Stream(p, f)[1] = Begin(p, f)
         /\ Follows(p.call, f, 0, Tail(Stream(p, f)))
         /\ Follows(p.call, f, 0, << >>)
<1>1. PICK s : s = Stream(p, f)
  OBVIOUS
<1>2. PICK m \in Nat : m = Len(f)
  OBVIOUS
<1>3. /\ IsSeq(s) /\ Len(s) = m + 2 /\ s[1] = Begin(p, f)
      /\ \A n \in 1..m : s[n + 1] = Chunks(p, f)[n]
      /\ s[m + 2] = End(p)
  BY <1>1, <1>2, StreamIsSeq
<1>4. s # << >>
  BY <1>3, AnySeq
<1>5. Len(Tail(s)) = m + 1 /\ \A n \in 1..(m + 1) : Tail(s)[n] = s[n + 1]
  BY <1>3, <1>4, AnySeq
<1>6. ASSUME NEW n \in 1..(m + 1) PROVE Tail(s)[n] = Piece(p.call, f, 0 + n)
  <2>1. CASE n \in 1..m
    <3>1. s[n + 1] = Packet("DOWNLOAD_CHUNK", p.call,
                            [id |-> p.call, offset |-> n - 1, chunk |-> << f[n] >>])
      BY <1>2, <1>3, <2>1 DEF Chunks
    <3>2. 0 + n = n /\ n <= m
      BY <2>1
    <3> QED
      BY <1>2, <1>5, <3>1, <3>2 DEF Piece
  <2>2. CASE n = m + 1
    <3>1. 0 + n = n /\ ~(n <= m) /\ n + 1 = m + 2
      BY <2>2
    <3> QED
      BY <1>2, <1>3, <1>5, <3>1 DEF Piece, End
  <2>3. n \in 1..m \/ n = m + 1
    OBVIOUS
  <2> QED
    BY <2>1, <2>2, <2>3
<1>7. Follows(p.call, f, 0, Tail(s))
  <2>1. 0 + Len(Tail(s)) <= Len(f) + 1
    BY <1>2, <1>5
  <2>2. \A n \in 1..Len(Tail(s)) : Tail(s)[n] = Piece(p.call, f, 0 + n)
    BY <1>5, <1>6
  <2> QED
    BY <2>1, <2>2 DEF Follows
<1>8. Follows(p.call, f, 0, << >>)
  <2>1. PICK l : l = Len(<< >>)
    OBVIOUS
  <2>2. l = 0
    BY <2>1, SeqFacts
  <2>3. 0 + l <= Len(f) + 1 /\ 1..l = {}
    BY <1>2, <2>2
  <2> QED
    BY <2>1, <2>3 DEF Follows
<1> QED
  BY <1>1, <1>3, <1>4, <1>7, <1>8

LEMMA DownloadTalks ==
  ASSUME LinkInv, TypeOK, LoginInv, TalkInv, NEW p, ServeDownload(p),
         NEW c \in Client, sdk[c].conn # 0, K(c) = srv.conn
  PROVE  Talks(c)'
<1>1. Receives("DOWNLOAD_REQUEST", p) /\ p.type = "DOWNLOAD_REQUEST"
  BY DEF ServeDownload, Receives
<1>2. PICK k \in Conn : Hears(c, k, p)
  BY <1>1, Heard
<1>3. PICK r : r = sdk[c]
  OBVIOUS
<1>4. PICK up : up = Tail(wire[k].up)
  OBVIOUS
<1>5. sdk[c].pc = "request"
  BY <1>1, <1>2, FirstWord DEF Hears
<1>6. /\ Wants("DOWNLOAD", r)
      /\ wire[k].up = << Packet("DOWNLOAD_REQUEST", r.call, r.req) >>
  BY <1>2, <1>3, <1>5 DEF Hears, Words, InRequest, Asked, OneReply
<1>7. p.call = r.call /\ p.arg = r.req /\ up = << >>
  BY <1>2, <1>4, <1>6 DEF Hears, Packet
<1>8. /\ k = srv.conn /\ k = << c, r.conn >> /\ Tidy(r) /\ srv.authed
      /\ UNCHANGED sdk /\ Replies(k) = << >>
  BY <1>2, <1>3 DEF Hears
<1>9. CASE ~CanDownload(p.arg.path)
  <2>1. PICK e : e = Error(p)
    OBVIOUS
  <2>2. Answers(<< e >>)
    BY <1>8, <1>9, <2>1 DEF ServeDownload, Guarded
  <2>3. e.call = r.call /\ ~Begins(<< e >>, "DOWNLOAD_BEGIN")
    BY <1>7, <2>1 DEF Error, Packet, Begins
  <2>4. OneReply(r, up, << e >>)
    BY <1>7, <2>3, SeqFacts DEF OneReply
  <2>5. Words(c, r, up, << e >>)
    BY <1>3, <1>5, <1>6, <2>3, <2>4 DEF Words, InRequest
  <2>6. Facts(c, r, up, << e >>)'
    BY <1>3, <1>5, <2>3 DEF Facts, Begins
  <2> QED
    BY <1>1, <1>3, <1>4, <1>8, <2>2, <2>5, <2>6, AnsweredTalks, SeqFacts
<1>10. CASE CanDownload(p.arg.path)
  <2>1. PICK f \in Seq(Byte) : f = data[tree[p.arg.path]]
    BY <1>10, StoredFile DEF CanDownload
  <2>2. /\ IsSeq(Stream(p, f)) /\ Stream(p, f) # << >>
        /\ Stream(p, f)[1] = Begin(p, f) /\ Head(Stream(p, f)) = Begin(p, f)
        /\ Follows(p.call, f, 0, Tail(Stream(p, f)))
        /\ Follows(p.call, f, 0, << >>)
    BY StreamFollows, StreamIsSeq
  <2>3. PICK packets :
          /\ Answers(packets) /\ UNCHANGED vars
          /\ packets = Stream(p, f) \/ packets = << Begin(p, f) >>
    BY <1>8, <1>10, <2>1, <2>2 DEF ServeDownload, Guarded
  <2>4. /\ IsSeq(packets) /\ packets # << >> /\ packets[1] = Begin(p, f)
        /\ Follows(p.call, f, 0, Tail(packets))
    <3>1. CASE packets = Stream(p, f)
      BY <2>2, <3>1
    <3>2. CASE packets = << Begin(p, f) >>
      <4>1. PICK x : x = Begin(p, f)
        OBVIOUS
      <4>2. IsSeq(<< x >>) /\ << x >> # << >> /\ << x >>[1] = x /\ Tail(<< x >>) = << >>
        BY SeqFacts
      <4> QED
        BY <2>2, <3>2, <4>1, <4>2
    <3> QED
      BY <2>3, <3>1, <3>2
  <2>5. packets[1] = Packet("DOWNLOAD_BEGIN", r.call, [id |-> r.call, file |-> f])
    BY <1>7, <2>4 DEF Begin
  <2>6. Words(c, r, up, packets)
    <3>1. Follows(r.call, f, 0, Tail(packets))
      BY <1>7, <2>4
    <3>2. InRequest(r, up, packets)
      BY <1>6, <1>7, <2>1, <2>4, <2>5, <3>1 DEF InRequest
    <3> QED
      BY <1>3, <1>5, <3>2 DEF Words
  <2>7. Facts(c, r, up, packets)'
    <3>1. IsCurrent(r.req.path, packets[1].arg.file)
      <4>1. packets[1].arg.file = f
        BY <2>5 DEF Packet
      <4> QED
        BY <1>7, <1>10, <2>1, <4>1 DEF IsCurrent
    <3>2. IsCurrent(r.req.path, packets[1].arg.file)'
      BY <2>3, <3>1 DEF IsCurrent, CanDownload, IsFile, Exists, vars
    <3> QED
      BY <1>3, <1>5, <3>2 DEF Facts
  <2> QED
    BY <1>1, <1>3, <1>4, <1>8, <2>3, <2>4, <2>6, <2>7, AnsweredTalks
<1> QED
  BY <1>9, <1>10

LEMMA AuthTalks ==
  ASSUME LinkInv, LoginInv, TalkInv, NEW p, ServeAuth(p),
         NEW c \in Client, sdk[c].conn # 0, K(c) = srv.conn
  PROVE  Talks(c)'
<1>1. Receives("AUTH_REQUEST", p) /\ p.type = "AUTH_REQUEST"
  BY DEF ServeAuth, Receives
<1>2. PICK k \in Conn : /\ k = K(c) /\ k = << c, sdk[c].conn >> /\ Tidy(sdk[c])
  BY InTalk
<1>3. /\ Serves(k) /\ srv.out = << >> /\ wire[k].up # << >> /\ UNCHANGED sdk
      /\ p = Head(wire[k].up)
      /\ wire'[k].up = Tail(wire[k].up) /\ wire'[k].down = wire[k].down
  BY <1>1, <1>2, ReceivesEffect
<1>4. IsSeq(wire[k].up)
  BY RepliesAre
<1>5. Len(wire[k].up) \in Nat \ {0} /\ wire[k].up[1].type = "AUTH_REQUEST"
  BY <1>1, <1>3, <1>4, AnySeq
<1>6. sdk[c].pc = "auth"
  <2>1. ~NoLogin(wire[k].up)
    BY <1>5 DEF NoLogin
  <2> QED
    BY <1>2, <1>3, <2>1 DEF LoginInv, LoggingIn, Knows
<1>7. wire[k].down = << >> /\ Len(wire[k].up) = 1
  BY <1>2, <1>3, <1>6 DEF LoginInv, LoggingIn, Asks
<1>8. wire'[k].up = << >>
  <2>1. Len(wire[k].up) <= 1
    BY <1>7
  <2> QED
    BY <1>3, <1>4, <2>1, Single
<1>9. PICK answer : srv'.out = << answer >>
  BY <1>3 DEF ServeAuth, LinkInv, IsServer
<1>10. Serves(k)'
  BY <1>3 DEF ServeAuth, LinkInv, IsServer, Serves
<1>11. Replies(k)' = << answer >>
  BY <1>3, <1>7, <1>9, <1>10, Joined, SeqFacts DEF Replies, Unsent
<1>12. PICK r : r = sdk[c]
  OBVIOUS
<1>13. Words(c, r, << >>, << answer >>)
  <2>1. PICK l : l = Len(<< >>)
    OBVIOUS
  <2>2. l = 0 /\ Len(<< answer >>) = 1
    BY <2>1, SeqFacts
  <2>3. l + Len(<< answer >>) <= 1
    BY <2>2
  <2> QED
    BY <1>6, <1>12, <2>1, <2>3 DEF Words
<1>14. Facts(c, r, << >>, << answer >>)'
  BY <1>6, <1>12 DEF Facts
<1>15. r = sdk'[c] /\ k = << c, r.conn >> /\ Tidy(r)
  BY <1>2, <1>3, <1>12
<1> QED
  BY <1>8, <1>11, <1>13, <1>14, <1>15, TalksIf

-----------------------------------------------------------------------------
(* The packets of an upload. *)

LEMMA BeginStarts ==
  ASSUME TypeOK, NEW c, NEW r, BeginUpload(Id(c, r), Declared(r.req)), reply'
  PROVE  Uploading(c, r, 0)'
<1> DEFINE u      == Id(c, r)
           made   == WithTargetDirectory(r.req.dir)
           target == Append(r.req.dir, r.req.name)
<1>1. /\ Declared(r.req).dir = r.req.dir /\ Declared(r.req).name = r.req.name
      /\ Declared(r.req).size = Len(LocalFile) /\ Declared(r.req).digest = LocalFile
  BY DEF Declared
<1>2. ~Refuse
  BY DEF Refuse, Returns
<1>3. PICK i \in InodesToOpen(made, target) :
        /\ tree' = PutFile(made, target, i)
        /\ data' = [data EXCEPT ![i] = << >>]
        /\ sessions' = OpenSession(u, target, i, Declared(r.req))
  <2>1. BeginOnDisk(u, Declared(r.req))
    BY <1>2 DEF BeginUpload, BeginRefused
  <2> QED
    BY <1>1, <2>1 DEF BeginOnDisk, Returns
<1>4. i \in Inode /\ i # Dir /\ DOMAIN data = Inode
  BY DirIsNoInode DEF InodesToOpen, TypeOK
<1>5. /\ u \in DOMAIN sessions'
      /\ sessions'[u] = [ target |-> target, inode |-> i,
                          expected |-> Len(LocalFile), digest |-> LocalFile,
                          received |-> << >>, flushed |-> 0, failed |-> FALSE,
                          alone |-> \A v \in DOMAIN sessions : sessions[v].inode # i ]
  <2> HIDE DEF u, target, made
  <2> QED
    BY <1>1, <1>3 DEF OpenSession
<1>6. target \in DOMAIN tree' /\ tree'[target] = i
  <2> HIDE DEF u, target, made
  <2> QED
    BY <1>3 DEF PutFile
<1>7. data'[i] = SubSeq(<< >>, 1, 0)
  <2>1. data'[i] = << >>
    BY <1>3, <1>4
  <2>2. SubSeq(<< >>, 1, 0) = << >>
    OBVIOUS
  <2> QED
    BY <2>1, <2>2
<1>8. Len(<< >>) = 0 /\ 0 <= 0
  BY SeqFacts
<1> HIDE DEF u, made
<1>9. PICK s : s = sessions'[u]
  OBVIOUS
<1>10. /\ s.target = Append(r.req.dir, r.req.name)
       /\ s.expected = Len(LocalFile) /\ s.digest = LocalFile /\ ~s.failed
       /\ s.received = << >> /\ s.flushed = 0 /\ s.inode = i
  BY <1>5, <1>9
<1>11. /\ Len(s.received) = 0 /\ s.flushed <= Len(s.received)
       /\ s.target \in DOMAIN tree' /\ tree'[s.target] = s.inode
       /\ tree'[s.target] # Dir
       /\ data'[s.inode] = SubSeq(s.received, 1, s.flushed)
  BY <1>4, <1>6, <1>7, <1>8, <1>10
<1> QED
  BY <1>5, <1>9, <1>10, <1>11 DEF Uploading, Id, u, IsFile, Exists

LEMMA ChunkContinues ==
  ASSUME TypeOK, "write" \notin Faults, NEW c, NEW r, NEW gone, Uploading(c, r, gone),
         gone < Len(LocalFile), NEW chunk \in Seq(Byte), Len(chunk) = 1,
         WriteChunk(Id(c, r), gone, chunk)
  PROVE  reply' /\ gone \in Nat /\ Uploading(c, r, gone + 1)'
<1>1. PICK u : u = Id(c, r)
  OBVIOUS
<1>2. PICK s : s = sessions[u]
  OBVIOUS
<1>3. u \in DOMAIN sessions /\ s \in Session
  BY <1>1, <1>2 DEF Uploading, TypeOK
<1>4. /\ s.received \in Seq(Byte) /\ s.flushed \in Nat /\ s.inode \in Inode
      /\ s.target = Append(r.req.dir, r.req.name)
      /\ s.expected = Len(LocalFile) /\ s.digest = LocalFile /\ ~s.failed
      /\ Len(s.received) = gone /\ s.flushed <= Len(s.received)
      /\ s.target \in DOMAIN tree /\ tree[s.target] # Dir /\ tree[s.target] = s.inode
      /\ data[s.inode] = SubSeq(s.received, 1, s.flushed)
  BY <1>1, <1>2, <1>3 DEF Uploading, Session, IsFile, Exists
<1>5. gone \in Nat /\ Len(LocalFile) \in Nat
  BY <1>4, LinkAssumption
<1>6. MayWrite(u, gone, chunk)
  BY <1>2, <1>3, <1>4, <1>5 DEF MayWrite
<1>7. PICK all : all = s.received \o chunk
  OBVIOUS
<1>8. all \in Seq(Byte) /\ Len(all) = gone + 1
  <2>1. PICK old \in Seq(Byte) : old = s.received
    BY <1>4
  <2>2. old \o chunk \in Seq(Byte) /\ Len(old \o chunk) = Len(old) + Len(chunk)
    BY Concatenation
  <2> QED
    BY <1>4, <1>5, <1>7, <2>1, <2>2
<1>9. PICK n \in s.flushed..Len(all) :
        /\ data' = [data EXCEPT ![s.inode] = WriteOut(@, all, s.flushed, n)]
        /\ sessions' = [sessions EXCEPT ![u] =
                          [@ EXCEPT !.received = all, !.flushed = n]]
        /\ Returns(TRUE) /\ UNCHANGED tree
  BY <1>1, <1>2, <1>6, <1>7 DEF WriteChunk
<1>10. data'[s.inode] = SubSeq(all, 1, n)
  <2>1. WriteOut(SubSeq(s.received, 1, s.flushed), s.received \o chunk, s.flushed, n)
          = SubSeq(s.received \o chunk, 1, n)
    <3>1. s.flushed \in 0..Len(s.received)
      BY <1>4, <1>5
    <3>2. n \in s.flushed..(Len(s.received) + Len(chunk))
      BY <1>4, <1>5, <1>8, <1>9
    <3> QED
      BY <1>4, <3>1, <3>2, WriteOutExtends
  <2>2. data'[s.inode] = WriteOut(data[s.inode], all, s.flushed, n)
    BY <1>4, <1>9 DEF TypeOK
  <2> QED
    BY <1>4, <1>7, <2>1, <2>2
<1>11. PICK t : t = sessions'[u]
  OBVIOUS
<1>12. /\ u \in DOMAIN sessions' /\ t.received = all /\ t.flushed = n
       /\ t.target = s.target /\ t.expected = s.expected /\ t.digest = s.digest
       /\ t.failed = s.failed /\ t.inode = s.inode
  BY <1>2, <1>3, <1>9, <1>11 DEF Session
<1>13. n <= Len(all)
  BY <1>4, <1>8, <1>9
<1>14. /\ t.target \in DOMAIN tree' /\ tree'[t.target] # Dir /\ tree'[t.target] = t.inode
       /\ data'[t.inode] = SubSeq(t.received, 1, t.flushed)
       /\ Len(t.received) = gone + 1 /\ t.flushed <= Len(t.received)
  BY <1>4, <1>8, <1>9, <1>10, <1>12, <1>13
<1>15. Uploading(c, r, gone + 1)'
  BY <1>1, <1>4, <1>11, <1>12, <1>14 DEF Uploading, Id, IsFile, Exists
<1> QED
  BY <1>5, <1>9, <1>15 DEF Returns

LEMMA EndStores ==
  ASSUME TypeOK, "close" \notin Faults, NEW c, NEW r, NEW gone, Uploading(c, r, gone),
         FinishUpload(Id(c, r)), reply'
  PROVE  Stored(r)'
<1>1. PICK u : u = Id(c, r)
  OBVIOUS
<1>2. PICK s : s = sessions[u]
  OBVIOUS
<1>3. u \in DOMAIN sessions /\ s \in Session
  BY <1>1, <1>2 DEF Uploading, TypeOK
<1>4. /\ s.received \in Seq(Byte) /\ s.flushed \in Nat /\ s.inode \in Inode
      /\ s.target = Append(r.req.dir, r.req.name)
      /\ s.expected = Len(LocalFile) /\ s.digest = LocalFile /\ ~s.failed
      /\ s.flushed <= Len(s.received)
      /\ s.target \in DOMAIN tree /\ tree[s.target] # Dir /\ tree[s.target] = s.inode
      /\ data[s.inode] = SubSeq(s.received, 1, s.flushed)
  BY <1>1, <1>2, <1>3 DEF Uploading, Session, IsFile, Exists
<1>5. PICK written \in Closed(s) : DigestMatches(s) /\ Commit(u, written)
  BY <1>1, <1>2, <1>3 DEF FinishUpload, Refuse, Returns, Abort
<1>6. s.received = LocalFile
  BY <1>4, <1>5, StorageAssumption, LinkAssumption DEF DigestMatches
<1>7. written[s.inode] = LocalFile
  <2>1. written = [data EXCEPT ![s.inode] =
                     WriteOut(@, s.received, s.flushed, Len(s.received))]
    BY <1>4, <1>5 DEF Closed
  <2>2. s.received \o << >> = s.received /\ Len(<< >>) = 0 /\ << >> \in Seq(Byte)
    BY <1>4, ConcatEmptySeq, EmptySeq
  <2>3. /\ s.flushed \in 0..Len(s.received)
        /\ Len(s.received) \in s.flushed..(Len(s.received) + Len(<< >>))
    BY <1>4, <2>2
  <2>4. WriteOut(SubSeq(s.received, 1, s.flushed), s.received \o << >>,
                 s.flushed, Len(s.received))
          = SubSeq(s.received \o << >>, 1, Len(s.received))
    BY <1>4, <2>2, <2>3, WriteOutExtends
  <2>5. SubSeq(s.received, 1, Len(s.received)) = s.received
    BY <1>4, SubSeqFull
  <2> QED
    BY <1>4, <1>6, <2>1, <2>2, <2>4, <2>5 DEF TypeOK
<1>8. data' = Reclaim(written, tree, sessions') /\ UNCHANGED tree
  BY <1>5 DEF Commit
<1>9. data'[s.inode] = LocalFile
  BY <1>4, <1>7, <1>8 DEF Reclaim, Used
<1> QED
  BY <1>4, <1>8, <1>9 DEF Stored, IsFile, Exists

LEMMA UploadBeginTalks ==
  ASSUME LinkInv, TypeOK, LoginInv, TalkInv, NEW p, ServeUploadBegin(p),
         NEW c \in Client, sdk[c].conn # 0, K(c) = srv.conn
  PROVE  Talks(c)'
<1>1. Receives("UPLOAD_BEGIN", p) /\ p.type = "UPLOAD_BEGIN"
  BY DEF ServeUploadBegin, Receives
<1>2. PICK k \in Conn : Hears(c, k, p)
  BY <1>1, Heard
<1>3. PICK r : r = sdk[c]
  OBVIOUS
<1>4. PICK up : up = Tail(wire[k].up)
  OBVIOUS
<1>5. sdk[c].pc = "begin"
  BY <1>1, <1>2, FirstWord DEF Hears
<1>6. /\ Wants("UPLOAD", r)
      /\ wire[k].up = << Packet("UPLOAD_BEGIN", r.call,
                                [id |-> Id(c, r), begin |-> Declared(r.req)]) >>
  BY <1>2, <1>3, <1>5 DEF Hears, Words, InBegin, Asked, OneReply
<1>7. /\ p.call = r.call /\ p.arg.id = Id(c, r) /\ p.arg.begin = Declared(r.req)
      /\ up = << >>
  BY <1>2, <1>4, <1>6 DEF Hears, Packet
<1>8. /\ k = srv.conn /\ k = << c, r.conn >> /\ Tidy(r) /\ srv.authed
      /\ UNCHANGED sdk /\ Replies(k) = << >>
  BY <1>2, <1>3 DEF Hears
<1>9. PICK answer : answer = Verdict(p, reply')
  OBVIOUS
<1>10. BeginUpload(Id(c, r), Declared(r.req)) /\ Answers(<< answer >>)
  BY <1>7, <1>8, <1>9 DEF ServeUploadBegin, Guarded
<1>11. answer.call = r.call /\ (answer.type = "SUCCESS" => reply')
  BY <1>7, <1>9 DEF Verdict, Error, Packet
<1>12. Words(c, r, up, << answer >>)
  <2>1. OneReply(r, up, << answer >>)
    BY <1>7, <1>11, SeqFacts DEF OneReply
  <2> QED
    BY <1>3, <1>5, <1>6, <2>1 DEF Words, InBegin
<1>13. Facts(c, r, up, << answer >>)'
  <2>1. Begins(<< answer >>, "SUCCESS") => Uploading(c, r, 0)'
    BY <1>10, <1>11, BeginStarts DEF Begins
  <2> QED
    BY <1>3, <1>5, <1>7, <2>1 DEF Facts, Begins
<1> QED
  BY <1>1, <1>3, <1>4, <1>8, <1>10, <1>12, <1>13, AnsweredTalks, SeqFacts

\* Every chunk fits, so none is answered.
LEMMA UploadChunkTalks ==
  ASSUME NoSpuriousReply, LinkInv, TypeOK, LoginInv, TalkInv, NEW p, ServeUploadChunk(p),
         NEW c \in Client, sdk[c].conn # 0, K(c) = srv.conn
  PROVE  Talks(c)'
<1>1. Receives("UPLOAD_CHUNK", p) /\ p.type = "UPLOAD_CHUNK"
  BY DEF ServeUploadChunk, Receives
<1>2. PICK k \in Conn : Hears(c, k, p)
  BY <1>1, Heard
<1>3. PICK r : r = sdk[c]
  OBVIOUS
<1>4. PICK old : old = wire[k].up
  OBVIOUS
<1>5. PICK up : up = Tail(old)
  OBVIOUS
<1>6. PICK m \in Nat : m = Len(up)
  BY <1>2, <1>4, <1>5, AnySeq DEF Hears
<1>7. /\ IsSeq(up) /\ Len(old) = m + 1 /\ p = old[1]
      /\ \A n \in 1..m : up[n] = old[n + 1]
  BY <1>2, <1>4, <1>5, <1>6, AnySeq DEF Hears
<1>8. /\ k = srv.conn /\ k = << c, r.conn >> /\ Tidy(r) /\ srv.authed
      /\ UNCHANGED sdk /\ Replies(k) = << >> /\ r.sent \in Nat
      /\ Words(c, r, old, << >>) /\ Facts(c, r, old, << >>)
      /\ old # << >> /\ p \in UpPacket(c)
  BY <1>2, <1>3, <1>4 DEF Hears, IsClient
<1>9. r.pc \in {"chunks", "end"}
  BY <1>1, <1>2, <1>3, FirstWord DEF Hears
<1>10. r.pc = "end" => m # 0
  <2>1. ASSUME r.pc = "end", m = 0 PROVE FALSE
    <3>1. old[Len(old)] = UploadEnd(c, r)
      BY <1>8, <2>1 DEF Words, InEnd, OneReply
    <3>2. p = UploadEnd(c, r)
      BY <1>7, <2>1, <3>1
    <3> QED
      BY <1>1, <3>2 DEF UploadEnd, Packet
  <2> QED
    BY <2>1
<1>11. PICK gone : gone = IF r.pc = "chunks" THEN r.sent - (m + 1) ELSE r.sent - m
  OBVIOUS
<1>12. IsChunk(c, r, p, gone)
  <2>1. CASE r.pc = "chunks"
    <3>1. IsChunk(c, r, old[1], r.sent - (m + 1) + 1 - 1)
      BY <1>6, <1>7, <1>8, <2>1 DEF Words, InChunks
    <3> QED
      BY <1>6, <1>7, <1>8, <1>11, <2>1, <3>1
  <2>2. CASE r.pc = "end"
    <3>1. IsChunk(c, r, old[1], r.sent - (m + 1) + 1)
      <4>1. 1 \in 1..(Len(old) - 1)
        BY <1>6, <1>7, <1>10, <2>2
      <4> QED
        BY <1>7, <1>8, <2>2, <4>1 DEF Words, InEnd, OneReply
    <3>2. r.sent - (m + 1) + 1 = gone
      BY <1>6, <1>8, <1>11, <2>2
    <3> QED
      BY <1>7, <3>1, <3>2
  <2> QED
    BY <1>9, <2>1, <2>2
<1>13. Uploading(c, r, gone)
  <2>1. CASE r.pc = "chunks"
    BY <1>7, <1>8, <1>11, <2>1 DEF Facts
  <2>2. CASE r.pc = "end"
    <3>1. r.sent - (Len(old) - 1) = gone
      BY <1>6, <1>7, <1>8, <1>11, <2>2
    <3> QED
      BY <1>8, <2>2, <3>1 DEF Facts
  <2> QED
    BY <1>9, <2>1, <2>2
<1>14. gone < Len(LocalFile)
  <2>1. r.sent <= Len(LocalFile)
    BY <1>8, <1>9 DEF Words, InChunks, InEnd
  <2> QED
    BY <1>6, <1>8, <1>9, <1>10, <1>11, <2>1, LinkAssumption
<1>15. WriteChunk(Id(c, r), gone, p.arg.chunk)
  BY <1>8, <1>12 DEF ServeUploadChunk, Guarded, IsChunk
<1>16. p.arg.chunk \in Seq(Byte) /\ Len(p.arg.chunk) = 1
  BY <1>1, <1>8, <1>12, PacketFacts, StorageAssumption DEF IsChunk
<1>17. reply' /\ gone \in Nat /\ Uploading(c, r, gone + 1)'
  BY <1>13, <1>14, <1>15, <1>16, ChunkContinues DEF NoSpuriousReply
<1>18. Answers(<< >>)
  BY <1>8, <1>17 DEF ServeUploadChunk, Guarded
<1>19. Words(c, r, up, << >>)
  <2>1. CASE r.pc = "chunks"
    <3>1. ASSUME NEW n \in 1..m PROVE IsChunk(c, r, up[n], r.sent - m + n - 1)
      <4>1. n \in Nat /\ n + 1 \in 1..(m + 1) /\ r.sent \in Nat
        BY <1>6, <1>8
      <4>2. r.sent - (m + 1) + (n + 1) - 1 = r.sent - m + n - 1
        BY <4>1
      <4>3. IsChunk(c, r, old[n + 1], r.sent - (m + 1) + (n + 1) - 1)
        BY <1>7, <1>8, <2>1, <4>1 DEF Words, InChunks
      <4> QED
        BY <1>7, <4>2, <4>3
    <3>2. InChunks(c, r, up, << >>)
      BY <1>6, <1>8, <2>1, <3>1 DEF Words, InChunks
    <3> QED
      BY <2>1, <3>2 DEF Words
  <2>2. CASE r.pc = "end"
    <3>1. ASSUME NEW n \in 1..(m - 1) PROVE IsChunk(c, r, up[n], r.sent - m + n)
      <4>1. n \in Nat /\ n \in 1..m /\ n + 1 \in 1..((m + 1) - 1) /\ r.sent \in Nat
        BY <1>6, <1>8
      <4>2. r.sent - (m + 1) + (n + 1) = r.sent - m + n
        BY <4>1
      <4>3. IsChunk(c, r, old[n + 1], r.sent - Len(old) + (n + 1))
        BY <1>7, <1>8, <2>2, <4>1 DEF Words, InEnd, OneReply
      <4> QED
        BY <1>7, <4>1, <4>2, <4>3
    <3>2. up # << >> /\ up[m] = UploadEnd(c, r)
      <4>1. m \in 1..m /\ m + 1 = Len(old)
        BY <1>6, <1>7, <1>10, <2>2
      <4>2. old[Len(old)] = UploadEnd(c, r)
        BY <1>8, <2>2 DEF Words, InEnd, OneReply
      <4>3. up # << >>
        BY <1>6, <1>7, <1>10, <2>2, AnySeq
      <4> QED
        BY <1>7, <4>1, <4>2, <4>3
    <3>3. InEnd(c, r, up, << >>)
      BY <1>6, <1>8, <2>2, <3>1, <3>2 DEF Words, InEnd
    <3> QED
      BY <2>2, <3>3 DEF Words
  <2> QED
    BY <1>9, <2>1, <2>2
<1>20. Facts(c, r, up, << >>)'
  <2>1. r.pc = "chunks" => r.sent - Len(up) = gone + 1
    BY <1>6, <1>8, <1>11
  <2>2. r.pc = "end" => r.sent - (Len(up) - 1) = gone + 1
    BY <1>6, <1>8, <1>11
  <2> QED
    BY <1>9, <1>17, <2>1, <2>2 DEF Facts, Begins
<1> QED
  BY <1>1, <1>3, <1>4, <1>5, <1>8, <1>18, <1>19, <1>20, AnsweredTalks, SeqFacts

\* UPLOAD_END comes after all the chunks, so it is the last the client says.
LEMMA UploadEndTalks ==
  ASSUME LinkInv, TypeOK, LoginInv, TalkInv, NEW p, ServeUploadEnd(p),
         NEW c \in Client, sdk[c].conn # 0, K(c) = srv.conn
  PROVE  Talks(c)'
<1>1. Receives("UPLOAD_END", p) /\ p.type = "UPLOAD_END"
  BY DEF ServeUploadEnd, Receives
<1>2. PICK k \in Conn : Hears(c, k, p)
  BY <1>1, Heard
<1>3. PICK r : r = sdk[c]
  OBVIOUS
<1>4. PICK old : old = wire[k].up
  OBVIOUS
<1>5. PICK m \in Nat : m = Len(old)
  BY <1>2, <1>4, AnySeq DEF Hears
<1>6. /\ k = srv.conn /\ k = << c, r.conn >> /\ Tidy(r) /\ srv.authed
      /\ UNCHANGED sdk /\ Replies(k) = << >> /\ r.sent \in Nat
      /\ Words(c, r, old, << >>) /\ Facts(c, r, old, << >>)
      /\ IsSeq(old) /\ old # << >> /\ p = old[1]
  BY <1>2, <1>3, <1>4 DEF Hears, IsClient
<1>7. r.pc = "end"
  BY <1>1, <1>2, <1>3, FirstWord DEF Hears
<1>8. /\ Wants("UPLOAD", r) /\ r.sent <= Len(LocalFile)
      /\ old[m] = UploadEnd(c, r)
      /\ \A n \in 1..(m - 1) : old[n].type = "UPLOAD_CHUNK"
  BY <1>5, <1>6, <1>7 DEF Words, InEnd, IsChunk, OneReply
<1>9. m = 1
  <2>1. m # 0
    BY <1>5, <1>6, AnySeq
  <2>2. 1 \notin 1..(m - 1)
    BY <1>1, <1>6, <1>8
  <2> QED
    BY <2>1, <2>2
<1>10. p = UploadEnd(c, r) /\ Tail(old) = << >>
  <2>1. Len(old) <= 1
    BY <1>5, <1>9
  <2> QED
    BY <1>6, <1>8, <1>9, <2>1, Single
<1>11. p.call = r.call /\ p.arg.id = Id(c, r)
  BY <1>10 DEF UploadEnd, Packet
<1>12. PICK answer : answer = Verdict(p, reply')
  OBVIOUS
<1>13. FinishUpload(Id(c, r)) /\ Answers(<< answer >>)
  BY <1>6, <1>11, <1>12 DEF ServeUploadEnd, Guarded
<1>14. answer.call = r.call /\ (answer.type = "SUCCESS" => reply')
  BY <1>11, <1>12 DEF Verdict, Error, Packet
<1>15. Words(c, r, << >>, << answer >>)
  <2>1. OneReply(r, << >>, << answer >>)
    BY <1>14, SeqFacts DEF OneReply
  <2> QED
    BY <1>7, <1>8, <2>1 DEF Words, InEnd
<1>16. Facts(c, r, << >>, << answer >>)'
  <2>1. Uploading(c, r, r.sent - (Len(old) - 1))
    BY <1>6, <1>7 DEF Facts
  <2>2. Begins(<< answer >>, "SUCCESS") /\ "close" \notin Faults => Stored(r)'
    BY <1>13, <1>14, <2>1, EndStores DEF Begins
  <2> QED
    BY <1>7, <2>2 DEF Facts, Begins
<1> QED
  BY <1>1, <1>3, <1>4, <1>6, <1>10, <1>13, <1>15, <1>16, AnsweredTalks, SeqFacts

-----------------------------------------------------------------------------
(* The other steps of the server. *)

LEMMA ServeTalks ==
  ASSUME NoSpuriousReply, LinkInv, TypeOK, LoginInv, TalkInv, Serve
  PROVE  \A c \in Client : Talks(c)'
<1>1. PICK p \in NextPacket :
        \/ ServeAuth(p) \/ ServeList(p) \/ ServeDelete(p) \/ ServeRename(p)
        \/ ServeMkdir(p) \/ ServeRmdir(p)
        \/ ServeUploadBegin(p) \/ ServeUploadChunk(p) \/ ServeUploadEnd(p)
        \/ ServeDownload(p)
  BY DEF Serve
<1>2. PICK type : Receives(type, p)
  BY <1>1 DEF ServeAuth, ServeList, ServeDelete, ServeRename, ServeMkdir,
              ServeRmdir, ServeUploadBegin, ServeUploadChunk, ServeUploadEnd,
              ServeDownload
<1>3. PICK k \in Conn : k = srv.conn
  BY <1>2 DEF Receives, LinkInv, IsServer
<1>4. /\ Serves(k) /\ UNCHANGED sdk /\ \A j \in Conn \ {k} : wire'[j] = wire[j]
  BY <1>2, <1>3, ReceivesEffect
<1>5. srv'.conn = k
  <2>1. \/ \E packets : Answers(packets)
        \/ ServeAuth(p)
    BY <1>1, HandlersAnswer
  <2> QED
    BY <1>3, <2>1 DEF Answers, ServeAuth, LinkInv, IsServer
<1>6. \A j \in Conn \ {k} : ~Serves(j) /\ ~Serves(j)'
  BY <1>3, <1>5 DEF Serves
<1>7. ASSUME NEW e \in Client, sdk[e].conn # 0, K(e) = k PROVE Talks(e)'
  <2>1. CASE ServeAuth(p)
    BY <1>3, <1>7, <2>1, AuthTalks
  <2>2. CASE SimpleHandler(p)
    BY <1>3, <1>7, <2>2, SimpleTalks
  <2>3. CASE ServeUploadBegin(p)
    BY <1>3, <1>7, <2>3, UploadBeginTalks
  <2>4. CASE ServeUploadChunk(p)
    BY <1>3, <1>7, <2>4, UploadChunkTalks
  <2>5. CASE ServeUploadEnd(p)
    BY <1>3, <1>7, <2>5, UploadEndTalks
  <2>6. CASE ServeDownload(p)
    BY <1>3, <1>7, <2>6, DownloadTalks
  <2> QED
    BY <1>1, <2>1, <2>2, <2>3, <2>4, <2>5, <2>6 DEF SimpleHandler
<1> QED
  BY <1>4, <1>6, <1>7, TalkAtServer

LEMMA AcceptTalks ==
  ASSUME LinkInv, TalkInv, Accept
  PROVE  \A c \in Client : Talks(c)'
<1>1. PICK k : k = Head(backlog)
  OBVIOUS
<1>2. /\ k \in Conn /\ \A j : ~Serves(j)
      /\ \A e \in Client : sdk[e].conn # 0 => K(e) # k
  BY <1>1, FirstInLine
<1>3. /\ UNCHANGED sdk /\ \A j \in Conn \ {k} : wire'[j] = wire[j]
      /\ srv'.conn = k \/ srv' = srv
  <2>1. DOMAIN wire = Conn /\ IsServer
    BY DEF LinkInv
  <2> QED
    BY <1>1, <1>2, <2>1 DEF Accept, IsServer
<1>4. \A j \in Conn \ {k} : ~Serves(j)'
  BY <1>2, <1>3 DEF Serves
<1> QED
  BY <1>2, <1>3, <1>4, TalkAtServer

LEMMA ClientGoneTalks ==
  ASSUME LinkInv, TalkInv, ClientGone
  PROVE  \A c \in Client : Talks(c)'
<1>1. PICK k \in Conn : k = srv.conn
  BY DEF LinkInv, IsServer, ClientGone
<1>2. UNCHANGED sdk /\ \A j \in Conn \ {k} : wire'[j] = wire[j]
  BY <1>1 DEF LinkInv, ClientGone
<1>3. \A j : ~Serves(j)'
  BY DEF LinkInv, IsServer, ClientGone, Serves
<1>4. \A e \in Client : sdk[e].conn # 0 => K(e) # k
  <2>1. ~wire[k].cOpen
    BY <1>1 DEF ClientGone
  <2> QED
    BY <2>1 DEF LinkInv, Linked
<1>5. \A j \in Conn \ {k} : ~Serves(j)
  BY <1>1 DEF Serves
<1> QED
  BY <1>2, <1>3, <1>4, <1>5, TalkAtServer

\* A packet leaves the server for the channel: what is on its way is the same.
LEMMA SendOutTalks ==
  ASSUME LinkInv, TalkInv, SendOut
  PROVE  \A c \in Client : Talks(c)'
<1>1. PICK k \in Conn : k = srv.conn
  BY DEF LinkInv, IsServer, SendOut
<1>2. /\ Serves(k) /\ IsWire(k) /\ IsServer /\ DOMAIN wire = Conn
      /\ srv.out # << >> /\ UNCHANGED << sdk, vars >>
  BY <1>1 DEF LinkInv, Serves, SendOut
<1>3. /\ \A j \in Conn \ {k} : wire'[j] = wire[j]
      /\ srv'.pc = "serve" /\ srv'.conn = k
  BY <1>1, <1>2 DEF SendOut, IsServer
<1>4. \A j \in Conn \ {k} : ~Serves(j) /\ ~Serves(j)'
  BY <1>1, <1>3 DEF Serves
<1>5. ASSUME NEW e \in Client, sdk[e].conn # 0, K(e) = k PROVE Talks(e)'
  <2>1. wire[k].cOpen /\ Talks(e)
    BY <1>2, <1>5 DEF LinkInv, Linked, TalkInv
  <2>2. /\ wire' = [wire EXCEPT ![k].down = Append(@, Head(srv.out))]
        /\ srv' = [srv EXCEPT !.out = Tail(@)]
    BY <1>1, <1>2, <2>1 DEF SendOut, IsSocket, IsWire
  <2>3. wire'[k].up = wire[k].up /\ srv'.out = Tail(srv.out)
        /\ wire'[k].down = Append(wire[k].down, Head(srv.out))
    BY <1>2, <2>2 DEF IsSocket, IsWire, IsServer
  <2>4. Serves(k)'
    BY <1>3 DEF Serves
  <2>5. Append(wire[k].down, Head(srv.out)) \o Tail(srv.out) = wire[k].down \o srv.out
    <3>1. PICK s : s = wire[k].down
      OBVIOUS
    <3>2. PICK t : t = srv.out
      OBVIOUS
    <3>3. IsSeq(s) /\ IsSeq(t) /\ t # << >>
      BY <1>2, <3>1, <3>2 DEF IsSocket, IsWire, IsServer
    <3>4. Append(s, Head(t)) \o Tail(t) = s \o t
      BY <3>3, Joined
    <3> QED
      BY <3>1, <3>2, <3>4
  <2>6. Replies(k)' = Replies(k)
    BY <1>2, <2>3, <2>4, <2>5 DEF Replies, Unsent
  <2> QED
    BY <1>2, <1>5, <2>1, <2>3, <2>6, TalksOn
<1> QED
  BY <1>2, <1>3, <1>4, <1>5, TalkAtServer

LEMMA FollowsCut ==
  ASSUME NEW call, NEW f \in Seq(Byte), NEW l \in Nat, NEW s, NEW t, IsSeq(s), IsSeq(t),
         Follows(call, f, l, s \o t)
  PROVE  Follows(call, f, l, s)
<1>1. PICK q : q = s \o t
  OBVIOUS
<1>2. Len(q) = Len(s) + Len(t) /\ \A n \in 1..Len(s) : q[n] = s[n]
  BY <1>1, Joined
<1>3. Len(s) \in Nat /\ Len(t) \in Nat /\ Len(f) \in Nat
  BY AnySeq
<1>4. l + Len(q) <= Len(f) + 1 /\ \A n \in 1..Len(q) : q[n] = Piece(call, f, l + n)
  BY <1>1 DEF Follows
<1>5. l + Len(s) <= Len(f) + 1
  BY <1>2, <1>3, <1>4
<1>6. ASSUME NEW n \in 1..Len(s) PROVE s[n] = Piece(call, f, l + n)
  <2>1. n \in 1..Len(q)
    BY <1>2, <1>3
  <2> QED
    BY <1>2, <1>4, <2>1
<1> QED
  BY <1>5, <1>6 DEF Follows

LEMMA ReplyCut ==
  ASSUME NEW r, NEW up, NEW packet, NEW s, NEW t, IsSeq(s), IsSeq(t),
         Asked(up, s \o t, packet) \/ OneReply(r, up, s \o t)
  PROVE  OneReply(r, << >>, s)
<1>1. PICK q : q = s \o t
  OBVIOUS
<1>2. /\ Len(q) = Len(s) + Len(t) /\ (q = << >> => s = << >>)
      /\ s # << >> => q # << >> /\ s[1] = q[1]
  <2>1. Len(q) = Len(s) + Len(t) /\ \A n \in 1..Len(s) : q[n] = s[n]
    BY <1>1, Joined
  <2>2. q = << >> <=> s = << >> /\ t = << >>
    BY <1>1, Joined
  <2>3. s # << >> => 1 \in 1..Len(s)
    BY AnySeq
  <2> QED
    BY <2>1, <2>2, <2>3
<1>3. Len(s) \in Nat /\ Len(t) \in Nat
  BY AnySeq
<1>4. CASE q = << >>
  <2>1. s = << >>
    BY <1>2, <1>4
  <2>2. PICK n : n = Len(<< >>)
    OBVIOUS
  <2>3. n <= 1
    BY <2>2, SeqFacts
  <2> QED
    BY <2>1, <2>2, <2>3 DEF OneReply
<1>5. CASE q # << >>
  <2>1. Len(q) <= 1 /\ q[1].call = r.call
    BY <1>1, <1>5 DEF Asked, OneReply
  <2>2. Len(s) <= 1
    BY <1>2, <1>3, <2>1
  <2> QED
    BY <1>2, <2>1, <2>2 DEF OneReply
<1> QED
  BY <1>4, <1>5

\* What is left of a conversation when the server is gone: what it has sent.
LEMMA WordsCut ==
  ASSUME NEW c, NEW r, NEW up, NEW s, NEW t, IsSeq(up), IsSeq(s), IsSeq(t),
         Words(c, r, up, s \o t)
  PROVE  Words(c, r, << >>, s)
<1>1. PICK q : q = s \o t
  OBVIOUS
<1>2. Words(c, r, up, q)
  BY <1>1
<1>3. PICK z : z = Len(<< >>)
  OBVIOUS
<1>4. z = 0
  BY <1>3, SeqFacts
<1>5. q = << >> => s = << >>
  BY <1>1, Joined
<1>6. r.pc \in {"idle", "handshake"} => s = << >>
  BY <1>2, <1>5 DEF Words
<1>7. r.pc = "auth" => Len(<< >>) + Len(s) <= 1
  <2>1. Len(q) = Len(s) + Len(t)
    BY <1>1, Joined
  <2>2. Len(up) \in Nat /\ Len(s) \in Nat /\ Len(t) \in Nat
    BY AnySeq
  <2>3. r.pc = "auth" => Len(up) + Len(q) <= 1
    BY <1>2 DEF Words
  <2>4. r.pc = "auth" => z + Len(s) <= 1
    BY <1>4, <2>1, <2>2, <2>3
  <2> QED
    BY <1>3, <2>4
<1>8. r.pc = "simple" => InSimple(r, << >>, s)
  BY <1>1, <1>2, ReplyCut DEF Words, InSimple
<1>9. r.pc = "begin" => InBegin(c, r, << >>, s)
  BY <1>1, <1>2, ReplyCut DEF Words, InBegin
<1>10. r.pc = "chunks" => InChunks(c, r, << >>, s)
  <2>1. 1..z = {}
    BY <1>4
  <2> QED
    BY <1>2, <1>3, <1>5, <2>1 DEF Words, InChunks
<1>11. r.pc = "end" => InEnd(c, r, << >>, s)
  <2> SUFFICES ASSUME r.pc = "end" PROVE InEnd(c, r, << >>, s)
    OBVIOUS
  <2>1. InEnd(c, r, up, q)
    BY <1>2 DEF Words
  <2>2. CASE OneReply(r, up, q)
    <3>1. OneReply(r, << >>, s)
      BY <1>1, <2>2, ReplyCut
    <3> QED
      BY <2>1, <3>1 DEF InEnd
  <2>3. CASE q = << >>
    <3>1. OneReply(r, << >>, s)
      BY <1>3, <1>4, <1>5, <2>3 DEF OneReply
    <3> QED
      BY <2>1, <3>1 DEF InEnd
  <2> QED
    BY <2>1, <2>2, <2>3 DEF InEnd
<1>12. s # << >> => q # << >> /\ q[1] = s[1] /\ IsSeq(Tail(s)) /\ Tail(s) \o t = Tail(q)
  <2> SUFFICES ASSUME s # << >>
               PROVE  q # << >> /\ q[1] = s[1] /\ IsSeq(Tail(s)) /\ Tail(s) \o t = Tail(q)
    OBVIOUS
  <2>1. s[1] = Head(s) /\ IsSeq(Tail(s))
    BY AnySeq
  <2>2. q # << >> /\ Head(s) = q[1] /\ Tail(s) \o t = Tail(q)
    BY <1>1, JoinedHead
  <2> QED
    BY <2>1, <2>2
<1>13. r.pc = "request" => InRequest(r, << >>, s)
  <2> SUFFICES ASSUME r.pc = "request" PROVE InRequest(r, << >>, s)
    OBVIOUS
  <2>1. InRequest(r, up, q)
    BY <1>2 DEF Words
  <2>2. CASE s = << >>
    <3>1. OneReply(r, << >>, s) /\ ~Begins(s, "DOWNLOAD_BEGIN")
      BY <1>3, <1>4, <2>2 DEF OneReply, Begins
    <3> QED
      BY <2>1, <3>1 DEF InRequest
  <2>3. CASE s # << >> /\ OneReply(r, up, q) /\ ~Begins(q, "DOWNLOAD_BEGIN")
    <3>1. OneReply(r, << >>, s) /\ ~Begins(s, "DOWNLOAD_BEGIN")
      BY <1>1, <1>12, <2>3, ReplyCut DEF Begins
    <3> QED
      BY <2>1, <3>1 DEF InRequest
  <2>4. ASSUME s # << >>, NEW f \in Seq(Byte),
               q[1] = Packet("DOWNLOAD_BEGIN", r.call, [id |-> r.call, file |-> f]),
               Follows(r.call, f, 0, Tail(q))
        PROVE  InRequest(r, << >>, s)
    <3>1. Follows(r.call, f, 0, Tail(s) \o t) /\ IsSeq(Tail(s))
      BY <1>12, <2>4
    <3>2. Follows(r.call, f, 0, Tail(s))
      BY <3>1, FollowsCut
    <3> QED
      BY <1>12, <2>1, <2>4, <3>2 DEF InRequest
  <2> QED
    BY <1>12, <2>1, <2>2, <2>3, <2>4 DEF InRequest, Asked
<1>14. r.pc = "stream" => InDownload(r, << >>, s)
  <2> SUFFICES ASSUME r.pc = "stream" PROVE InDownload(r, << >>, s)
    OBVIOUS
  <2>1. InDownload(r, up, q)
    BY <1>2 DEF Words
  <2>2. /\ r.meta.file \in Seq(Byte) /\ Len(r.local) \in Nat
        /\ Follows(r.call, r.meta.file, Len(r.local), s \o t)
    BY <1>1, <2>1 DEF InDownload
  <2>3. Follows(r.call, r.meta.file, Len(r.local), s)
    BY <2>2, FollowsCut
  <2> QED
    BY <2>1, <2>3 DEF InDownload
<1> QED
  BY <1>6, <1>7, <1>8, <1>9, <1>10, <1>11, <1>13, <1>14 DEF Words

LEMMA RestartTalks ==
  ASSUME LinkInv, TalkInv, ServerDies \/ ServerStarts
  PROVE  \A c \in Client : Talks(c)'
<1>1. UNCHANGED sdk /\ (\A j : ~Serves(j)') /\ srv'.conn = << >>
  BY DEF LinkInv, TalkInv, IsServer, ServerDies, ServerStarts, Serves
<1> SUFFICES ASSUME NEW e \in Client PROVE Talks(e)'
  OBVIOUS
<1>2. CASE sdk[e].conn = 0
  BY <1>1, <1>2 DEF TalkInv, Talks
<1>3. CASE sdk[e].conn # 0
  <2>1. PICK k \in Conn :
          /\ k = K(e) /\ k = << e, sdk[e].conn >> /\ IsWire(k) /\ Tidy(sdk[e])
          /\ Words(e, sdk[e], wire[k].up, Replies(k))
    BY <1>3, InTalk
  <2>2. PICK r : r = sdk[e]
    OBVIOUS
  <2>3. PICK s : s = wire[k].down
    OBVIOUS
  <2>4. IsSeq(wire[k].up) /\ IsSeq(s) /\ IsSeq(Unsent(k))
    BY <2>3, RepliesAre, SeqFacts DEF LinkInv, IsServer, Unsent
  <2>5. wire'[k].down = s /\ Replies(k)' = s
    <3>1. wire'[k].down = s
      <4>1. CASE ServerDies
        BY <2>1, <2>3, <4>1 DEF ServerDies, IsSocket, IsWire
      <4>2. CASE ServerStarts
        BY <2>3, <4>2 DEF ServerStarts
      <4> QED
        BY <4>1, <4>2
    <3>2. s \o << >> = s
      BY <2>4, Joined, SeqFacts
    <3> QED
      BY <1>1, <3>1, <3>2 DEF Replies, Unsent
  <2>6. r = sdk'[e] /\ k = << e, r.conn >> /\ Tidy(r)
    BY <1>1, <2>1, <2>2
  <2>7. CASE ServerDies
    <3>1. wire'[k].up = << >>
      BY <2>1, <2>7 DEF ServerDies, IsSocket, IsWire
    <3>2. Words(e, r, << >>, s)
      BY <2>1, <2>2, <2>3, <2>4, WordsCut DEF Replies
    <3> QED
      BY <1>1, <2>5, <2>6, <3>1, <3>2, TalksIf
  <2>8. CASE ServerStarts
    <3>1. wire'[k].up = wire[k].up /\ Unsent(k) = << >>
      BY <2>8 DEF ServerStarts, Unsent, Serves
    <3>2. Replies(k) = s
      BY <2>3, <2>4, <3>1, Joined, SeqFacts DEF Replies
    <3>3. Words(e, r, wire'[k].up, s)
      BY <2>1, <2>2, <3>1, <3>2
    <3> QED
      BY <1>1, <2>5, <2>6, <3>3, TalksIf
  <2> QED
    BY <2>7, <2>8
<1> QED
  BY <1>2, <1>3

-----------------------------------------------------------------------------
LEMMA TalkInitInv == LinkInit => TalkInv
BY DEF LinkInit, TalkInv, Talks, Tidy, NewClient

LEMMA TalkNextInv ==
  ASSUME NoSpuriousReply, LinkInv, TypeOK, LoginInv, TalkInv, [LinkNext]_allVars
  PROVE  TalkInv'
<1>1. ASSUME NEW c \in Client, StepOf(c) PROVE \A e \in Client : Talks(e)'
  BY <1>1, ClientTalks
<1>2. ASSUME ServerStep PROVE \A e \in Client : Talks(e)'
  BY <1>2, AcceptTalks, ClientGoneTalks, SendOutTalks, ServeTalks DEF ServerStep
<1>3. ASSUME ServerDies \/ ServerStarts PROVE \A e \in Client : Talks(e)'
  BY <1>3, RestartTalks
<1>4. ASSUME UNCHANGED allVars PROVE \A e \in Client : Talks(e)'
  <2>1. UNCHANGED << sdk, wire, srv, vars >>
    BY <1>4 DEF allVars
  <2> SUFFICES ASSUME NEW e \in Client PROVE Talks(e)'
    OBVIOUS
  <2>2. PICK k : k = K(e)
    OBVIOUS
  <2> QED
    BY <2>1, <2>2, TalksOn DEF TalkInv, Replies, Unsent, Serves
<1>5. (srv.pc # "serve" => srv.conn = << >>)'
  <2>1. CASE srv' = srv
    BY <2>1 DEF TalkInv
  <2>2. ASSUME NEW c \in Client, StepOf(c) PROVE srv' = srv
    BY <2>2, OwnStep
  <2>3. CASE Accept
    BY <2>3 DEF TalkInv, LinkInv, IsServer, Accept
  <2>4. CASE ClientGone \/ SendOut
    BY <2>4 DEF LinkInv, IsServer, ClientGone, SendOut
  <2>5. CASE ServerDies \/ ServerStarts
    BY <2>5 DEF TalkInv, LinkInv, IsServer, ServerDies, ServerStarts
  <2>6. CASE Serve
    <3>1. PICK p \in NextPacket :
            \/ ServeAuth(p) \/ ServeList(p) \/ ServeDelete(p) \/ ServeRename(p)
            \/ ServeMkdir(p) \/ ServeRmdir(p)
            \/ ServeUploadBegin(p) \/ ServeUploadChunk(p) \/ ServeUploadEnd(p)
            \/ ServeDownload(p)
      BY <2>6 DEF Serve
    <3>2. srv.pc = "serve"
      BY <2>6 DEF Serve, NextPacket
    <3>3. ServeAuth(p) \/ \E packets : Answers(packets)
      BY <3>1, HandlersAnswer
    <3> QED
      BY <3>2, <3>3 DEF ServeAuth, Answers, LinkInv, IsServer
  <2>7. CASE UNCHANGED allVars
    BY <2>1, <2>7 DEF allVars
  <2> QED
    BY <2>1, <2>2, <2>3, <2>4, <2>5, <2>6, <2>7 DEF LinkNext, ServerStep, StepOf
<1> QED
  BY <1>1, <1>2, <1>3, <1>4, <1>5 DEF LinkNext, StepOf, TalkInv

LEMMA TalkIsSound ==
  ASSUME NoSpuriousReply
  PROVE  LinkSpec => [](LinkInv /\ TypeOK /\ LoginInv /\ TalkInv)
<1>1. LinkInit => LoginInv /\ TalkInv
  BY LoginInitInv, TalkInitInv
<1>2. LinkInv /\ TypeOK /\ LoginInv /\ TalkInv /\ [LinkNext]_allVars
        => LoginInv' /\ TalkInv'
  BY LoginNextInv, TalkNextInv
<1> QED
  BY <1>1, <1>2, LinkIsSound, PTL DEF LinkSpec

-----------------------------------------------------------------------------
(* What follows for the client that takes up an answer. *)

LEMMA CallsAgree ==
  ASSUME NEW c, NEW r, NEW up, NEW q, IsSeq(q), Words(c, r, up, q), q # << >>,
         r.pc \in {"idle", "handshake", "simple", "begin", "chunks", "end", "request",
                   "stream"}
  PROVE  r.pc # "idle" /\ \A n \in 1..Len(q) : q[n].call = r.call
<1>1. r.pc \notin {"idle", "handshake", "chunks"}
  BY DEF Words, InChunks
<1>2. Len(q) \in Nat \ {0}
  BY AnySeq
<1>3. ASSUME Len(q) <= 1, q[1].call = r.call
      PROVE  \A n \in 1..Len(q) : q[n].call = r.call
  <2> TAKE n \in 1..Len(q)
  <2>1. n = 1
    BY <1>2, <1>3
  <2> QED
    BY <1>3, <2>1
<1>4. ASSUME NEW f, NEW l, NEW t, Follows(r.call, f, l, t)
      PROVE  \A n \in 1..Len(t) : t[n].call = r.call
  <2>1. \A n : Piece(r.call, f, n).call = r.call
    BY DEF Piece, Packet
  <2>2. \A n \in 1..Len(t) : t[n] = Piece(r.call, f, l + n)
    BY <1>4 DEF Follows
  <2> QED
    BY <2>1, <2>2
<1>5. CASE r.pc \in {"simple", "begin", "end"}
  <2>1. OneReply(r, up, q)
    BY <1>5 DEF Words, InSimple, InBegin, InEnd, Asked
  <2> QED
    BY <1>1, <1>3, <2>1 DEF OneReply
<1>6. CASE r.pc = "stream"
  BY <1>1, <1>4, <1>6 DEF Words, InDownload
<1>7. CASE r.pc = "request"
  <2>1. InRequest(r, up, q)
    BY <1>7 DEF Words
  <2>2. CASE OneReply(r, up, q)
    BY <1>1, <1>3, <2>2 DEF OneReply
  <2>3. ASSUME NEW f, q[1] = Packet("DOWNLOAD_BEGIN", r.call, [id |-> r.call, file |-> f]),
               Follows(r.call, f, 0, Tail(q))
        PROVE  \A n \in 1..Len(q) : q[n].call = r.call
    <3>1. /\ Len(Tail(q)) = Len(q) - 1
          /\ \A n \in 1..Len(Tail(q)) : Tail(q)[n] = q[n + 1]
      BY AnySeq
    <3>2. \A n \in 1..Len(Tail(q)) : Tail(q)[n].call = r.call
      BY <1>4, <2>3
    <3>3. ASSUME NEW n \in 1..Len(q), n # 1 PROVE q[n].call = r.call
      <4>1. n - 1 \in 1..Len(Tail(q)) /\ (n - 1) + 1 = n
        BY <1>2, <3>1, <3>3
      <4> QED
        BY <3>1, <3>2, <4>1
    <3>4. q[1].call = r.call
      BY <2>3 DEF Packet
    <3> QED
      BY <3>3, <3>4
  <2> QED
    BY <1>1, <1>7, <2>1, <2>2, <2>3 DEF InRequest, Asked
<1> QED
  BY <1>1, <1>5, <1>6, <1>7

LEMMA TalkIsInSync == LinkInv /\ LoginInv /\ TalkInv => RepliesInSync
<1> SUFFICES ASSUME LinkInv, LoginInv, TalkInv, NEW c \in Client,
                    sdk[c].state = "AUTHENTICATED",
                    NEW n \in 1..Len(wire[K(c)].down)
             PROVE  sdk[c].pc # "idle" /\ wire[K(c)].down[n].call = sdk[c].call
  BY DEF RepliesInSync
<1>1. sdk[c].conn # 0
  BY DEF LinkInv, IsClient
<1>2. PICK k \in Conn :
        /\ k = K(c) /\ IsWire(k) /\ IsClient(sdk[c]) /\ Tidy(sdk[c])
        /\ Words(c, sdk[c], wire[k].up, Replies(k))
  BY <1>1, InTalk
<1>3. PICK s : s = wire[k].down
  OBVIOUS
<1>4. PICK t : t = Unsent(k)
  OBVIOUS
<1>5. IsSeq(s) /\ IsSeq(t) /\ Replies(k) = s \o t
  BY <1>3, <1>4, RepliesAre, SeqFacts DEF LinkInv, IsServer, Unsent, Replies
<1>6. /\ IsSeq(s \o t) /\ Len(s \o t) = Len(s) + Len(t)
      /\ \A i \in 1..Len(s) : (s \o t)[i] = s[i]
      /\ s \o t = << >> => s = << >>
  BY <1>5, Joined
<1>7. Len(s) \in Nat /\ Len(t) \in Nat /\ n \in 1..Len(s)
  BY <1>2, <1>3, <1>5, AnySeq
<1>8. s \o t # << >>
  <2>1. s # << >>
    BY <1>5, <1>7, AnySeq
  <2> QED
    BY <1>6, <2>1
<1>9. sdk[c].pc \in {"idle", "handshake", "simple", "begin", "chunks", "end",
                     "request", "stream"}
  <2>1. sdk[c].pc # "auth"
    BY <1>1 DEF LoginInv, LoggingIn, Asks
  <2>2. sdk[c].pc \notin {"stuck", "dead"}
    BY <1>1, <1>2 DEF Tidy, IsClient
  <2> QED
    BY <1>2, <2>1, <2>2 DEF IsClient, Pc
<1>10. sdk[c].pc # "idle" /\ \A i \in 1..Len(s \o t) : (s \o t)[i].call = sdk[c].call
  <2>1. PICK q : q = s \o t
    OBVIOUS
  <2>2. PICK r : r = sdk[c]
    OBVIOUS
  <2>3. PICK up : up = wire[k].up
    OBVIOUS
  <2>4. Words(c, r, up, q) /\ IsSeq(q) /\ q # << >>
    BY <1>2, <1>5, <1>6, <1>8, <2>1, <2>2, <2>3
  <2>5. r.pc \in {"idle", "handshake", "simple", "begin", "chunks", "end",
                  "request", "stream"}
    BY <1>9, <2>2
  <2>6. r.pc # "idle" /\ \A i \in 1..Len(q) : q[i].call = r.call
    BY <2>4, <2>5, CallsAgree
  <2> QED
    BY <2>1, <2>2, <2>6
<1>11. n \in 1..Len(s \o t)
  BY <1>6, <1>7
<1> QED
  BY <1>2, <1>3, <1>6, <1>7, <1>10, <1>11

\* InternalClient takes the next packet for the answer to what it asked last, and
\* packets carry no call number: while a client is logged in, whatever is on its
\* way to it belongs to the call it is in, and a call leaves nothing behind.
THEOREM RepliesStayInSync ==
  ASSUME NoSpuriousReply
  PROVE  LinkSpec => []RepliesInSync
<1>1. LinkInv /\ LoginInv /\ TalkInv => RepliesInSync
  BY TalkIsInSync
<1> QED
  BY <1>1, TalkIsSound, PTL

\* What a client that is served reads, and what is then true of the storage.
LEMMA AnswerRead ==
  ASSUME LinkInv, TalkInv, NEW c \in Client, srv.conn = K(c), sdk[c].conn # 0,
         CanReceive(K(c))
  PROVE  \E q : /\ IsSeq(q) /\ q # << >> /\ q[1] = Received(K(c))
                /\ Words(c, sdk[c], wire[K(c)].up, q)
                /\ Facts(c, sdk[c], wire[K(c)].up, q)
<1>1. PICK k \in Conn :
        /\ k = K(c) /\ IsWire(k)
        /\ Words(c, sdk[c], wire[k].up, Replies(k))
        /\ Serves(k) => Facts(c, sdk[c], wire[k].up, Replies(k))
  BY InTalk
<1>2. Serves(k)
  <2>1. srv.conn # << >>
    BY <1>1 DEF K
  <2> QED
    BY <1>1, <2>1 DEF TalkInv, Serves
<1>3. IsSeq(wire[k].down) /\ wire[k].down # << >> /\ IsSeq(Unsent(k))
  BY <1>1, SeqFacts DEF LinkInv, IsSocket, IsWire, IsServer, Unsent, CanReceive
<1>4. /\ IsSeq(Replies(k)) /\ Replies(k) # << >>
      /\ Received(k) = Replies(k)[1]
  BY <1>3, JoinedHead DEF Replies, Received
<1> QED
  BY <1>1, <1>2, <1>4

\* The steps in which a call returns SAILOR_OK.
LEMMA ReturnedSteps ==
  ASSUME LinkInv, TypeOK, [LinkNext]_allVars, NEW c \in Client, NEW pc,
         pc \in {"simple", "end", "stream"}, Returned(c, pc)
  PROVE  /\ sdk[c].conn # 0 /\ sdk[c].pc = pc /\ CanReceive(K(c)) /\ UNCHANGED vars
         /\ pc = "simple" =>
              /\ SimpleAnswered(c)
              /\ sdk[c].req.op = "LIST" => Received(K(c)).type = "LIST"
         /\ pc = "end" => UploadEnded(c) /\ Received(K(c)).type = "SUCCESS"
         /\ pc = "stream" => StreamReceived(c) /\ sdk[c].local = sdk[c].meta.file
<1>1. /\ sdk[c].pc = pc /\ sdk'[c].pc = "idle" /\ sdk'[c].status = "OK"
      /\ IsClient(sdk[c]) /\ DOMAIN sdk = Client /\ sdk[c].conn # 0
  BY DEF Returned, LinkInv, IsClient
<1>2. ASSUME NEW e \in Client, StepOf(e) PROVE e = c
  BY <1>1, <1>2, OwnStep
<1>3. ~(ServerStep \/ ServerDies \/ ServerStarts)
  <2>1. sdk' # sdk
    BY <1>1
  <2>2. ServerStep => UNCHANGED sdk
    BY DEF ServerStep, Accept, ClientGone, SendOut, Serve, ServeAuth, ServeList,
           ServeDelete, ServeRename, ServeMkdir, ServeRmdir, ServeUploadBegin,
           ServeUploadChunk, ServeUploadEnd, ServeDownload, Receives
  <2>3. ServerDies \/ ServerStarts => UNCHANGED sdk
    BY DEF ServerDies, ServerStarts
  <2> QED
    BY <2>1, <2>2, <2>3
<1>4. StepOf(c)
  BY <1>1, <1>2, <1>3 DEF LinkNext, StepOf, allVars
<1>5. ~UserStep(c) /\ ~Crash(c)
  <2>1. ~Crash(c)
    BY <1>1 DEF Crash, NewClient
  <2> QED
    BY <1>1, <2>1 DEF UserStep, Connect, Disconnect, Call
<1>6. ASSUME NEW status, Return(c, status) PROVE status = "OK"
  BY <1>1, <1>6 DEF Return, IsClient, ClientFields
<1>7. ~CallLost(c)
  BY <1>1, <1>6 DEF CallLost, LostStatus
<1>8. SimpleAnswered(c) \/ UploadEnded(c) \/ StreamReceived(c)
  BY <1>1, <1>4, <1>5, <1>7
     DEF StepOf, ClientStep, HandshakeDone, HandshakeFails, AuthAnswered, AuthLost,
         UploadBegun, SendChunk, SendEnd, SendFails, DownloadBegun
<1>9. CanReceive(K(c)) /\ UNCHANGED vars
  BY <1>8 DEF SimpleAnswered, UploadEnded, StreamReceived
<1>10. ASSUME pc = "simple"
       PROVE  /\ SimpleAnswered(c)
              /\ sdk[c].req.op = "LIST" => Received(K(c)).type = "LIST"
  <2>1. SimpleAnswered(c)
    BY <1>1, <1>8, <1>10 DEF UploadEnded, StreamReceived
  <2>2. PICK ok \in Verdicts(sdk[c].req.op, Received(K(c))) :
          Return(c, IF ok THEN "OK" ELSE "OPERATION_FAILED")
    BY <2>1 DEF SimpleAnswered
  <2>3. ok
    BY <1>6, <2>2
  <2> QED
    BY <2>1, <2>2, <2>3 DEF Verdicts
<1>11. ASSUME pc = "end" PROVE UploadEnded(c) /\ Received(K(c)).type = "SUCCESS"
  <2>1. UploadEnded(c)
    BY <1>1, <1>8, <1>11 DEF SimpleAnswered, StreamReceived
  <2> QED
    BY <1>6, <2>1 DEF UploadEnded
<1>12. ASSUME pc = "stream" PROVE StreamReceived(c) /\ sdk[c].local = sdk[c].meta.file
  <2>1. StreamReceived(c)
    BY <1>1, <1>8, <1>12 DEF SimpleAnswered, UploadEnded
  <2>2. ASSUME NEW bytes, sdk' = [sdk EXCEPT ![c].local = @ \o bytes] PROVE FALSE
    BY <1>1, <1>12, <2>2 DEF IsClient, ClientFields
  <2> QED
    BY <1>6, <2>1, <2>2 DEF StreamReceived
<1> QED
  BY <1>1, <1>9, <1>10, <1>11, <1>12

LEMMA LastName ==
  ASSUME NEW S, NEW q \in Seq(S), q # << >>
  PROVE  q[Len(q)] \in S /\ q = Append(SubSeq(q, 1, Len(q) - 1), q[Len(q)])
OBVIOUS

LEMMA NameAppended ==
  ASSUME NEW S, NEW path \in Seq(S), NEW n \in S
  PROVE  /\ Append(path, n) # << >>
         /\ SubSeq(Append(path, n), 1, Len(Append(path, n)) - 1) = path
         /\ Append(path, n)[Len(Append(path, n))] = n
<1>1. PICK q \in Seq(S) : q = Append(path, n)
  <2>1. Append(path, n) \in Seq(S)
    OBVIOUS
  <2> QED
    BY <2>1
<1>2. PICK m \in Nat : m = Len(path)
  OBVIOUS
<1>3. Len(q) = m + 1 /\ q[m + 1] = n /\ \A i \in 1..m : q[i] = path[i]
  BY <1>1, <1>2
<1>4. q # << >> /\ Len(q) - 1 = m
  BY <1>3
<1>5. SubSeq(q, 1, m) = path
  BY <1>2, <1>3
<1> QED
  BY <1>1, <1>3, <1>4, <1>5

\* What OkListIsCurrent says of a directory, in three parts.
Named(path) == { n \in Name : Append(path, n) \in DOMAIN tree }

SizeAt(path, n) ==
  LET i == tree[Append(path, n)] IN IF i = Dir THEN Dir ELSE Len(data[i])

Entries(names, size) == { [name |-> n, size |-> size[n]] : n \in names }

LEMMA ListingIs ==
  ASSUME TypeOK, NEW path, CanList(path), NEW names, names = Named(path),
         NEW size, \A n \in names : size[n] = SizeAt(path, n)
  PROVE  Listing(path) = Entries(names, size)
<1>1. path \in Path /\ DOMAIN tree \subseteq Path
  BY DEF TypeOK, CanList, IsDirectory, Exists
<1>2. \A n \in Name :
        /\ Append(path, n) # Root /\ Parent(Append(path, n)) = path
        /\ Append(path, n)[Len(Append(path, n))] = n
  BY <1>1, NameAppended DEF Path, Root, Parent
<1>3. ASSUME NEW q \in Children(tree, path)
      PROVE  \E n \in names : q = Append(path, n)
  <2>1. q \in Seq(Name) /\ q # << >> /\ path = SubSeq(q, 1, Len(q) - 1)
    BY <1>1 DEF Children, Parent, Root, Path
  <2>2. q[Len(q)] \in Name /\ q = Append(path, q[Len(q)])
    BY <2>1, LastName
  <2> QED
    BY <2>2 DEF Children, Named
<1>4. ASSUME NEW n \in names
      PROVE  /\ Append(path, n) \in Children(tree, path)
             /\ Entry(Append(path, n)) = [name |-> n, size |-> size[n]]
  <2>1. PICK q : q = Append(path, n)
    OBVIOUS
  <2>2. q \in DOMAIN tree /\ q # Root /\ Parent(q) = path /\ q[Len(q)] = n
    BY <1>2, <2>1 DEF Named
  <2>3. size[n] = IF IsDirectory(tree, q) THEN Dir ELSE Len(data[tree[q]])
    BY <2>1, <2>2 DEF IsDirectory, Exists, SizeAt
  <2>4. Entry(q) = [name |-> n, size |-> size[n]]
    BY <2>2, <2>3 DEF Entry
  <2> QED
    BY <2>1, <2>2, <2>4 DEF Children
<1>5. Children(tree, path) = { Append(path, n) : n \in names }
  BY <1>3, <1>4
<1>6. ASSUME NEW e
      PROVE  e \in Listing(path) <=> \E n \in names : e = [name |-> n, size |-> size[n]]
  <2>1. e \in Listing(path) <=> \E q \in Children(tree, path) : e = Entry(q)
    BY DEF Listing
  <2>2. e \in Listing(path) <=> \E n \in names : e = Entry(Append(path, n))
    BY <1>5, <2>1
  <2> QED
    BY <1>4, <2>2
<1> QED
  BY <1>6 DEF Entries

\* What the entries of list() are when it returns SAILOR_OK.
LEMMA ListRead ==
  ASSUME LinkInv, TypeOK, TalkInv, [LinkNext]_allVars, NEW c \in Client,
         Returned(c, "simple"), sdk[c].req.op = "LIST", srv.conn = K(c)
  PROVE  LET path  == sdk[c].req.path
             names == { n \in Name : Append(path, n) \in DOMAIN tree }
             size  == [ n \in names |-> LET i == tree[Append(path, n)] IN
                          IF i = Dir THEN Dir ELSE Len(data[i]) ]
         IN  Received(K(c)).arg =
               { [name |-> n, size |-> size[n]] : n \in names }
<1> DEFINE path  == sdk[c].req.path
           names == { n \in Name : Append(path, n) \in DOMAIN tree }
           size  == [ n \in names |-> LET i == tree[Append(path, n)] IN
                        IF i = Dir THEN Dir ELSE Len(data[i]) ]
<1> SUFFICES Received(K(c)).arg = { [name |-> n, size |-> size[n]] : n \in names }
  BY Zenon
<1>0. /\ names = Named(path) /\ \A n \in names : size[n] = SizeAt(path, n)
      /\ Entries(names, size) = { [name |-> n, size |-> size[n]] : n \in names }
  BY DEF Named, SizeAt, Entries
<1> HIDE DEF names, size
<1>1. /\ sdk[c].conn # 0 /\ sdk[c].pc = "simple" /\ CanReceive(K(c))
      /\ Received(K(c)).type = "LIST"
  BY ReturnedSteps
<1>2. PICK q : /\ q # << >> /\ q[1] = Received(K(c))
               /\ Facts(c, sdk[c], wire[K(c)].up, q)
  BY <1>1, AnswerRead
<1>3. CanList(path) /\ q[1].arg = Listing(path)
  BY <1>1, <1>2 DEF Facts, Begins
<1>4. Listing(path) = Entries(names, size)
  BY <1>0, <1>3, ListingIs
<1> QED
  BY <1>0, <1>2, <1>3, <1>4

\* The entries list() returns with SAILOR_OK are those of the directory when the
\* client reads them: no request of another client and no restart has come
\* between the listing the server made and the client that reads it.
THEOREM OkListsAreCurrent ==
  ASSUME NoSpuriousReply
  PROVE  LinkSpec => OkListIsCurrent
<1> DEFINE Step ==
      \A c \in Client :
        Returned(c, "simple") /\ sdk[c].req.op = "LIST" /\ srv.conn = K(c)
        => LET path  == sdk[c].req.path
               names == { n \in Name : Append(path, n) \in DOMAIN tree }
               size  == [ n \in names |-> LET i == tree[Append(path, n)] IN
                            IF i = Dir THEN Dir ELSE Len(data[i]) ]
           IN  Received(K(c)).arg = { [name |-> n, size |-> size[n]] : n \in names }
<1>1. LinkInv /\ TypeOK /\ TalkInv /\ [LinkNext]_allVars => Step
  BY ListRead
<1>2. Step => [Step]_allVars
  OBVIOUS
<1> QED
  BY <1>1, <1>2, TalkIsSound, PTL DEF LinkSpec, OkListIsCurrent

LEMMA DownloadRead ==
  ASSUME LinkInv, TypeOK, TalkInv, [LinkNext]_allVars, NEW c \in Client,
         Returned(c, "stream"), srv.conn = K(c)
  PROVE  LET path == sdk[c].req.path IN
         IsFile(tree, path) /\ data[tree[path]] = sdk[c].local
<1>1. /\ sdk[c].conn # 0 /\ sdk[c].pc = "stream" /\ CanReceive(K(c))
      /\ sdk[c].local = sdk[c].meta.file
  BY ReturnedSteps
<1>2. PICK q : Facts(c, sdk[c], wire[K(c)].up, q)
  BY <1>1, AnswerRead
<1> QED
  BY <1>1, <1>2 DEF Facts, IsCurrent, CanDownload

\* When download() returns SAILOR_OK, what it has written is the file that has the
\* requested path when the client reads DOWNLOAD_END, also when other clients
\* wait for the server and whatever has become of earlier connections.
THEOREM OkDownloadsAreCurrent ==
  ASSUME NoSpuriousReply
  PROVE  LinkSpec => OkDownloadIsCurrent
<1> DEFINE Step ==
      \A c \in Client :
        Returned(c, "stream") /\ srv.conn = K(c)
        => LET path == sdk[c].req.path IN
           IsFile(tree, path) /\ data[tree[path]] = sdk[c].local
<1>1. LinkInv /\ TypeOK /\ TalkInv /\ [LinkNext]_allVars => Step
  BY DownloadRead
<1>2. Step => [Step]_allVars
  OBVIOUS
<1> QED
  BY <1>1, <1>2, TalkIsSound, PTL DEF LinkSpec, OkDownloadIsCurrent

LEMMA UploadAcknowledged ==
  ASSUME LinkInv, TypeOK, TalkInv, [LinkNext]_allVars, "close" \notin Faults,
         NEW c \in Client, Returned(c, "end"), srv.conn = K(c)
  PROVE  Stored(sdk[c])
<1>1. /\ sdk[c].conn # 0 /\ sdk[c].pc = "end" /\ CanReceive(K(c))
      /\ Received(K(c)).type = "SUCCESS"
  BY ReturnedSteps
<1>2. PICK q : /\ q # << >> /\ q[1] = Received(K(c))
               /\ Facts(c, sdk[c], wire[K(c)].up, q)
  BY <1>1, AnswerRead
<1> QED
  BY <1>1, <1>2 DEF Facts, Begins

\* When upload() returns SAILOR_OK and the disk took what the server had buffered
\* when it closed the file, the local file is in the storage under its name.
THEOREM OkUploadsAreStored ==
  ASSUME NoSpuriousReply, "close" \notin Faults
  PROVE  LinkSpec => OkUploadIsStored
<1> DEFINE Step ==
      \A c \in Client :
        Returned(c, "end") /\ srv.conn = K(c)
        => LET target == Append(sdk[c].req.dir, sdk[c].req.name) IN
           IsFile(tree, target) /\ data[tree[target]] = LocalFile
<1>1. LinkInv /\ TypeOK /\ TalkInv /\ [LinkNext]_allVars => Step
  BY UploadAcknowledged DEF Stored
<1>2. Step => [Step]_allVars
  OBVIOUS
<1> QED
  BY <1>1, <1>2, TalkIsSound, PTL DEF LinkSpec, OkUploadIsStored

=============================================================================
