--------------------------- MODULE CommandLineProofs ---------------------------
(***************************************************************************)
(* Theorems about the command line client, for every number of commands.   *)
(* What is proved of the link is proved of LinkNext, which has the steps   *)
(* of a process that goes on.  The process of a command ends, and the next *)
(* one begins with a new InternalClient: the invariants of the link        *)
(* survive that too, so what client and server promise each other holds    *)
(* between commands as it does within one session.                         *)
(***************************************************************************)
EXTENDS CommandLine, ConversationProofs

-----------------------------------------------------------------------------
(***************************************************************************)
(* The invariant of main().  A client sits idle before it connects and     *)
(* after it has exited; while it connects it is idle again only with the   *)
(* verdict; and a command that has exited has no connection.               *)
(***************************************************************************)
Progress(c) ==
  /\ cli[c].stage \in Stage
  /\ cli[c].stage = "start" => sdk[c].pc \in {"idle", "dead"}
  /\ cli[c].stage = "connecting" =>
       /\ sdk[c].pc \in {"idle", "handshake", "auth", "stuck", "dead"}
       /\ sdk[c].pc = "idle" /\ sdk[c].status = "OK" => sdk[c].state = "AUTHENTICATED"
  /\ cli[c].stage = "exited" =>
       sdk[c].pc \in {"idle", "dead"} /\ sdk[c].conn = 0 /\ sdk[c].socket = 0

CliInv ==
  /\ DOMAIN cli = Client
  /\ \A c \in Client : DOMAIN cli[c] = {"stage", "code"} /\ Progress(c)

-----------------------------------------------------------------------------
(* The steps of a command are those of a client, but for the last. *)

Exits(c) == sdk[c].pc = "idle" /\ \E code : Exit(c, code)

LEMMA CliStepIs ==
  ASSUME [CliNext]_cliVars
  PROVE  [LinkNext]_allVars \/ \E c \in Client : Exits(c)
<1>1. ASSUME NEW c \in Client, MainStep(c)
      PROVE  UserStep(c) \/ Exits(c)
  BY <1>1 DEF MainStep, MainConnects, MainCannotConnect, MainPrintsUsage, MainCalls,
              MainExits, At, Exits, UserStep
<1>2. CASE UNCHANGED cliVars
  BY <1>2 DEF cliVars
<1>3. CASE CliNext
  BY <1>1, <1>3 DEF CliNext, LinkNext
<1> QED
  BY <1>2, <1>3

LEMMA ExitEffect ==
  ASSUME LinkInv, NEW c \in Client, Exits(c)
  PROVE  /\ DOMAIN sdk' = Client /\ \A e \in Client \ {c} : sdk'[e] = sdk[e]
         /\ IsClient(sdk'[c]) /\ sdk'[c].pc = "idle" /\ sdk'[c].conn = 0
         /\ sdk'[c].socket = 0 /\ sdk'[c].opened = sdk[c].opened
         /\ sdk'[c].sent = 0 /\ sdk'[c].local = << >>
         /\ \E ks \in SUBSET Conn :
              /\ wire' = Hangup(ks, ks) /\ \A j \in Conn : j \in ks <=> j[1] = c
         /\ UNCHANGED << backlog, srv, vars >>
         /\ \A j \in Conn : j[1] # c => wire'[j] = wire[j]
<1>1. IsClient(sdk[c]) /\ DOMAIN sdk = Client
  BY DEF LinkInv
<1>2. PICK r : r = [NewClient EXCEPT !.opened = sdk[c].opened, !.call = sdk[c].call]
  OBVIOUS
<1>0. PICK ks \in SUBSET Conn : ks = { j \in Conn : j[1] = c }
  OBVIOUS
<1>3. /\ sdk' = [sdk EXCEPT ![c] = r]
      /\ wire' = Hangup(ks, ks) /\ UNCHANGED << backlog, srv, vars >>
  BY <1>0, <1>2 DEF Exits, Exit, ProcessEnds
<1>4. DOMAIN sdk' = Client /\ sdk'[c] = r /\ \A e \in Client \ {c} : sdk'[e] = sdk[e]
  BY <1>1, <1>3
<1>5. /\ DOMAIN r = ClientFields /\ r.pc = "idle" /\ r.state = "DISCONNECTED"
      /\ r.conn = 0 /\ r.socket = 0 /\ r.opened = sdk[c].opened /\ r.call = sdk[c].call
      /\ r.sent = 0 /\ r.local = << >> /\ r.status = "OK"
  BY <1>2 DEF NewClient, ClientFields
<1>6. IsClient(r)
  BY <1>1, <1>5, LinkAssumption DEF IsClient, Pc, Status
<1>7. ASSUME NEW j \in Conn, j[1] # c PROVE wire'[j] = wire[j]
  <2>1. j \notin ks
    BY <1>0, <1>7
  <2> QED
    BY <1>3, <2>1, HangupEffect DEF LinkInv
<1> QED
  BY <1>0, <1>3, <1>4, <1>5, <1>6, <1>7

LEMMA ExitKeepsLinkInv ==
  ASSUME LinkInv, NEW c \in Client, Exits(c)
  PROVE  LinkInv'
<1>2. PICK ks \in SUBSET Conn :
        wire' = Hangup(ks, ks) /\ \A j \in Conn : j \in ks <=> j[1] = c
  BY ExitEffect
<1>3. sdk[c].pc = "idle"
  BY DEF Exits
<1> QED
  BY <1>2, <1>3, ExitEffect, HangingUpKeepsLinkInv

LEMMA ExitKeepsLogin ==
  ASSUME LinkInv, LoginInv, NEW c \in Client, Exits(c)
  PROVE  LoginInv'
<1>1. LoggingIn(c)'
  BY ExitEffect DEF LoggingIn
<1> QED
  BY <1>1, ExitEffect, LoginOfOthers

LEMMA ExitForgetsNobody ==
  ASSUME LinkInv, NoPeerIsForgotten, NEW c \in Client, Exits(c)
  PROVE  NoPeerIsForgotten'
<1>1. PICK ks \in SUBSET Conn :
        wire' = Hangup(ks, ks) /\ \A j \in Conn : j \in ks <=> j[1] = c
  BY ExitEffect
<1>2. \A j \in Conn : wire'[j].cOpen => wire[j].cOpen /\ j \notin ks
  BY <1>1, HangupEffect DEF LinkInv
<1>3. \A j \in Conn : j[1] = c => ~wire'[j].cOpen
  BY <1>1, <1>2
<1> QED
  BY <1>3, ExitEffect, HoldingOfOne

LEMMA ExitKeepsTalk ==
  ASSUME LinkInv, TalkInv, NEW c \in Client, Exits(c)
  PROVE  TalkInv'
<1>1. Talks(c)'
  BY ExitEffect DEF Talks, Tidy
<1> QED
  BY <1>1, ExitEffect, TalkApart DEF TalkInv

-----------------------------------------------------------------------------
(* How far main() is, and what the client is then in the middle of. *)

LEMMA CallsMoveOn ==
  ASSUME LinkInv, NEW c \in Client, ClientStep(c), Progress(c), cli' = cli
  PROVE  Progress(c)'
<1>1. IsClient(sdk[c]) /\ DOMAIN sdk = Client
  BY DEF LinkInv
<1>2. sdk[c].pc \notin {"idle", "dead"}
  BY DEF ClientStep, HandshakeDone, HandshakeFails, AuthAnswered, AuthLost, SimpleAnswered,
         CallLost, UploadBegun, SendChunk, SendEnd, SendFails, UploadEnded, DownloadBegun,
         StreamReceived
<1>3. CASE cli[c].stage = "connecting"
  <2>1. sdk[c].pc \in {"handshake", "auth", "stuck"}
    BY <1>2, <1>3 DEF Progress
  <2>2. HandshakeDone(c) \/ HandshakeFails(c) \/ AuthAnswered(c) \/ AuthLost(c)
    BY <2>1
       DEF ClientStep, SimpleAnswered, CallLost, UploadBegun, SendChunk, SendEnd, SendFails,
           UploadEnded, DownloadBegun, StreamReceived
  <2>3. /\ sdk'[c].pc \in {"idle", "auth", "stuck"}
        /\ sdk'[c].pc = "idle" /\ sdk'[c].status = "OK" => sdk'[c].state = "AUTHENTICATED"
    <3>1. CASE HandshakeDone(c)
      BY <3>1, HandshakeEffect DEF HandshakeOn
    <3>2. CASE HandshakeFails(c)
      BY <1>1, <3>2 DEF HandshakeFails, IsClient, ClientFields
    <3>3. CASE AuthAnswered(c)
      <4>1. CASE Return(c, "AUTH_FAILED")
        BY <1>1, <4>1 DEF Return, IsClient, ClientFields
      <4>2. CASE sdk' = [sdk EXCEPT ![c].pc = "idle", ![c].state = "AUTHENTICATED",
                                    ![c].req = NoRequest, ![c].status = "OK"]
        BY <1>1, <4>2 DEF IsClient, ClientFields
      <4> QED
        BY <3>3, <4>1, <4>2 DEF AuthAnswered
    <3>4. CASE AuthLost(c)
      BY <1>1, <3>4 DEF AuthLost, GoTo, IsClient, ClientFields
    <3> QED
      BY <2>2, <3>1, <3>2, <3>3, <3>4
  <2> QED
    BY <1>3, <2>3 DEF Progress
<1>4. CASE cli[c].stage # "connecting"
  BY <1>2, <1>4 DEF Progress
<1> QED
  BY <1>3, <1>4

\* What main() itself does.
LEMMA MainMovesOn ==
  ASSUME LinkInv, CliInv, NEW c \in Client, MainStep(c)
  PROVE  /\ DOMAIN cli' = Client /\ \A e \in Client \ {c} : cli'[e] = cli[e]
         /\ DOMAIN cli'[c] = {"stage", "code"} /\ Progress(c)'
<1>1. IsClient(sdk[c]) /\ DOMAIN sdk = Client /\ DOMAIN cli = Client
      /\ DOMAIN cli[c] = {"stage", "code"}
  BY DEF LinkInv, CliInv
<1>2. CASE MainConnects(c)
  <2>1. Connect(c) /\ GoesTo(c, "connecting")
    BY <1>2 DEF MainConnects
  <2>2. /\ DOMAIN cli' = Client /\ \A e \in Client \ {c} : cli'[e] = cli[e]
        /\ DOMAIN cli'[c] = {"stage", "code"} /\ cli'[c].stage = "connecting"
    BY <1>1, <2>1 DEF GoesTo
  <2>3. \/ sdk'[c].pc = "handshake"
        \/ sdk'[c].pc = "idle" /\ sdk'[c].status = "CONNECTION_FAILED"
    <3>1. sdk[c].pc = "idle"
      BY <2>1 DEF Connect
    <3>2. \/ sdk' = [sdk EXCEPT ![c].call = @ + 1, ![c].socket = 0,
                                ![c].status = "CONNECTION_FAILED"]
          \/ \E n : sdk' = [sdk EXCEPT ![c].pc = "handshake", ![c].call = @ + 1,
                                       ![c].opened = @ + 1, ![c].socket = n]
      BY <2>1 DEF Connect
    <3> QED
      BY <1>1, <3>1, <3>2 DEF IsClient, ClientFields
  <2> QED
    BY <2>2, <2>3 DEF Progress, Stage
<1>3. CASE MainCalls(c)
  <2>1. GoesTo(c, "calling")
    BY <1>3 DEF MainCalls
  <2>2. /\ DOMAIN cli' = Client /\ \A e \in Client \ {c} : cli'[e] = cli[e]
        /\ DOMAIN cli'[c] = {"stage", "code"} /\ cli'[c].stage = "calling"
    BY <1>1, <2>1 DEF GoesTo
  <2> QED
    BY <2>2 DEF Progress, Stage
<1>4. CASE MainCannotConnect(c) \/ MainPrintsUsage(c) \/ MainExits(c)
  <2>1. PICK code : Exit(c, code) /\ Exits(c)
    BY <1>4 DEF MainCannotConnect, MainPrintsUsage, MainExits, At, Exits
  <2>2. /\ DOMAIN cli' = Client /\ \A e \in Client \ {c} : cli'[e] = cli[e]
        /\ DOMAIN cli'[c] = {"stage", "code"} /\ cli'[c].stage = "exited"
    BY <1>1, <2>1 DEF Exit
  <2>3. sdk'[c].pc = "idle" /\ sdk'[c].conn = 0 /\ sdk'[c].socket = 0
    BY <2>1, ExitEffect
  <2> QED
    BY <2>2, <2>3 DEF Progress, Stage
<1> QED
  BY <1>2, <1>3, <1>4 DEF MainStep

LEMMA CliNextInv ==
  ASSUME LinkInv, CliInv, [CliNext]_cliVars
  PROVE  CliInv'
<1>1. DOMAIN sdk = Client /\ DOMAIN cli = Client
  BY DEF LinkInv, CliInv
<1>2. ASSUME NEW c \in Client, MainStep(c) PROVE CliInv'
  <2>1. /\ DOMAIN cli' = Client /\ \A e \in Client \ {c} : cli'[e] = cli[e]
        /\ DOMAIN cli'[c] = {"stage", "code"} /\ Progress(c)'
    BY <1>2, MainMovesOn
  <2>2. ASSUME NEW e \in Client, e # c PROVE sdk'[e] = sdk[e]
    <3>1. UserStep(c) \/ Exits(c)
      BY <1>2
         DEF MainStep, MainConnects, MainCannotConnect, MainPrintsUsage, MainCalls,
             MainExits, At, Exits, UserStep
    <3> QED
      BY <1>1, <2>2, <3>1, OthersKeep, ExitEffect
  <2>3. ASSUME NEW e \in Client, e # c PROVE DOMAIN cli'[e] = {"stage", "code"} /\ Progress(e)'
    <3>1. cli'[e] = cli[e] /\ sdk'[e] = sdk[e]
      BY <2>1, <2>2, <2>3
    <3> QED
      BY <3>1 DEF CliInv, Progress
  <2> QED
    BY <2>1, <2>3 DEF CliInv
<1>3. ASSUME cli' = cli, NEW c \in Client, \A e \in Client \ {c} : sdk'[e] = sdk[e], Progress(c)'
      PROVE  CliInv'
  <2>1. ASSUME NEW e \in Client, e # c PROVE Progress(e)'
    <3>1. sdk'[e] = sdk[e]
      BY <1>3, <2>1
    <3> QED
      BY <1>3, <3>1 DEF CliInv, Progress
  <2> QED
    BY <1>3, <2>1 DEF CliInv
<1>4. ASSUME NEW c \in Client, ClientStep(c) \/ Crash(c), cli' = cli PROVE CliInv'
  <2>1. \A e \in Client \ {c} : sdk'[e] = sdk[e]
    BY <1>1, <1>4, OthersKeep
  <2>2. CASE ClientStep(c)
    BY <1>3, <1>4, <2>1, <2>2, CallsMoveOn DEF CliInv
  <2>3. CASE Crash(c)
    <3>1. sdk'[c].pc = "dead" /\ sdk'[c].conn = 0 /\ sdk'[c].socket = 0
      BY <1>1, <2>3 DEF Crash, NewClient
    <3>2. Progress(c)'
      BY <1>4, <3>1 DEF CliInv, Progress
    <3> QED
      BY <1>3, <1>4, <2>1, <3>2
  <2> QED
    BY <1>4, <2>2, <2>3
<1>5. ASSUME sdk' = sdk, cli' = cli PROVE CliInv'
  BY <1>5 DEF CliInv, Progress
<1>6. CASE UNCHANGED cliVars
  BY <1>5, <1>6 DEF cliVars, allVars
<1> QED
  BY <1>2, <1>4, <1>5, <1>6, ServerLeavesClients DEF CliNext

-----------------------------------------------------------------------------
(* The invariants of the link hold of commands. *)

LEMMA CliInitInv ==
  ASSUME CliInit
  PROVE  LinkInv /\ TypeOK /\ LoginInv /\ NoPeerIsForgotten /\ ServerRests /\ CliInv
<1>1. LinkInit
  BY DEF CliInit
<1>2. TypeOK
  BY <1>1 DEF LinkInit, Init, TypeOK, Path, Root
<1>3. NoPeerIsForgotten
  BY <1>1 DEF LinkInit, NoPeerIsForgotten, Closed0
<1>4. ServerRests
  BY <1>1 DEF LinkInit, ServerRests
<1>5. CliInv
  <2>1. /\ cli = [c \in Client |-> [stage |-> "start", code |-> 0]]
        /\ sdk = [c \in Client |-> NewClient]
    BY <1>1 DEF CliInit, LinkInit
  <2>2. \A c \in Client : sdk[c].pc = "idle" /\ cli[c].stage = "start"
                           /\ DOMAIN cli[c] = {"stage", "code"}
    BY <2>1 DEF NewClient
  <2> QED
    BY <2>1, <2>2 DEF CliInv, Progress, Stage
<1> QED
  BY <1>1, <1>2, <1>3, <1>4, <1>5, LinkInitInv, LoginInitInv

LEMMA CliNextKeeps ==
  ASSUME LinkInv, TypeOK, LoginInv, NoPeerIsForgotten, ServerRests, [CliNext]_cliVars
  PROVE  /\ LinkInv' /\ TypeOK' /\ LoginInv' /\ NoPeerIsForgotten' /\ ServerRests'
         /\ [Next]_vars
<1>1. CASE [LinkNext]_allVars
  BY <1>1, LinkNextInv, LinkStepIsStorageStep, NextTypeOK, LoginNextInv, NextForgetsNobody,
     ServerKeepsResting
<1>2. ASSUME NEW c \in Client, Exits(c)
      PROVE  /\ LinkInv' /\ TypeOK' /\ LoginInv' /\ NoPeerIsForgotten' /\ ServerRests'
             /\ [Next]_vars
  <2>1. UNCHANGED << srv, vars >>
    BY <1>2, ExitEffect
  <2>2. TypeOK' /\ ServerRests'
    BY <2>1, NextTypeOK DEF ServerRests
  <2> QED
    BY <1>2, <2>1, <2>2, ExitKeepsLinkInv, ExitKeepsLogin, ExitForgetsNobody
<1> QED
  BY <1>1, <1>2, CliStepIs

LEMMA CliIsSound ==
  CliSpec => [](LinkInv /\ TypeOK /\ LoginInv /\ NoPeerIsForgotten /\ ServerRests /\ CliInv)
<1>1. LinkInv /\ TypeOK /\ LoginInv /\ NoPeerIsForgotten /\ ServerRests /\ CliInv
        /\ [CliNext]_cliVars
        => (LinkInv /\ TypeOK /\ LoginInv /\ NoPeerIsForgotten /\ ServerRests /\ CliInv)'
  BY CliNextKeeps, CliNextInv
<1>2. CliInit => LinkInv /\ TypeOK /\ LoginInv /\ NoPeerIsForgotten /\ ServerRests /\ CliInv
  BY CliInitInv
<1> QED
  BY <1>1, <1>2, PTL DEF CliSpec

\* main() calls sailor_list, sailor_upload and the others on nothing but the
\* SAILOR_OK of sailor_connect: the client is then logged in and has a transport,
\* whatever has happened to the server, the connection and the other commands.
THEOREM ConnectReportsLogin == CliSpec => []OkConnectIsLogin
<1>1. LinkInv /\ CliInv => OkConnectIsLogin
  BY DEF LinkInv, CliInv, Progress, IsClient, OkConnectIsLogin, At
<1> QED
  BY <1>1, CliIsSound, PTL

\* The types hold for commands as they do for one session.
THEOREM CommandsKeepTypes == CliSpec => []LinkTypeOK
<1>1. LinkInv /\ TypeOK => LinkTypeOK
  BY DEF LinkInv, LinkTypeOK, IsClient, IsSocket, IsWire, IsServer
<1> QED
  BY <1>1, CliIsSound, PTL

\* Commands, and processes that end at any point of them, make the services do
\* nothing but what Storage allows.
THEOREM CommandsImplementStorage == CliSpec => StorageSpec
<1>1. CliInit => Init
  BY DEF CliInit, LinkInit
<1>2. LinkInv /\ TypeOK /\ LoginInv /\ NoPeerIsForgotten /\ ServerRests /\ [CliNext]_cliVars
        => [Next]_vars
  BY CliNextKeeps
<1> QED
  BY <1>1, <1>2, CliIsSound, PTL DEF CliSpec, StorageSpec, Spec

\* The login of one command is never the login of the next: state and session of
\* handleClient agree with the client it serves, whichever process that is.
THEOREM CommandsAgreeOnLogin == CliSpec => []BothEndsAgreeOnLogin
BY LoginAgrees, CliIsSound, PTL

\* Between commands as within one session: the server of a connection nobody holds
\* any more has been told, so no command that is over keeps the one thread.
THEOREM CommandsForgetNobody == CliSpec => []NoPeerIsForgotten
BY CliIsSound, PTL

\* Nobody is let in on what an earlier command typed.
THEOREM CommandsLogInByDatabase == CliSpec => LoginIsInDatabase
<1> DEFINE Step ==
      \A c \in Client :
        /\ sdk[c].pc = "auth" /\ sdk'[c].state = "AUTHENTICATED"
        /\ srv.conn = K(c)
        => /\ srv.db.format # "missing"
           /\ LastRow(srv.db, sdk[c].req.login[1])[2]
                = Digest(sdk[c].req.login[2])
<1>1. ASSUME LinkInv, LoginInv, ServerRests, [CliNext]_cliVars PROVE Step
  <2> SUFFICES ASSUME NEW c \in Client,
                      sdk[c].pc = "auth", sdk'[c].state = "AUTHENTICATED", srv.conn = K(c)
               PROVE  /\ srv.db.format # "missing"
                      /\ LastRow(srv.db, sdk[c].req.login[1])[2]
                           = Digest(sdk[c].req.login[2])
    BY Zenon
  <2>1. sdk[c].state = "CONNECTED_UNAUTHENTICATED"
    <3>1. IsClient(sdk[c]) /\ LoggingIn(c)
      BY <1>1 DEF LinkInv, LoginInv
    <3> QED
      BY <3>1 DEF IsClient, LoggingIn, Asks
  <2>2. ~\E e \in Client : Exits(e)
    <3>1. ASSUME NEW e \in Client, Exits(e) PROVE FALSE
      <4>1. e # c
        BY <3>1 DEF Exits
      <4>2. sdk'[c] = sdk[c]
        BY <1>1, <3>1, <4>1, ExitEffect
      <4> QED
        BY <2>1, <4>2
    <3> QED
      BY <3>1
  <2>3. [LinkNext]_allVars
    BY <1>1, <2>2, CliStepIs
  <2> QED
    BY <1>1, <2>3, LetIn
<1>2. Step => [Step]_allVars
  OBVIOUS
<1>3. LinkInv /\ LoginInv /\ ServerRests /\ [CliNext]_cliVars => [Step]_allVars
  BY <1>1, <1>2
<1> QED
  BY <1>3, CliIsSound, PTL DEF CliSpec, LoginIsInDatabase

-----------------------------------------------------------------------------
(***************************************************************************)
(* What commands are told.  The failures excluded are those of             *)
(* NoSpuriousReply, and for uploads the disk that is full at close.        *)
(***************************************************************************)
LEMMA CliTalks ==
  ASSUME NoSpuriousReply
  PROVE  CliSpec => []TalkInv
<1>1. ASSUME LinkInv, TypeOK, LoginInv, TalkInv, [CliNext]_cliVars PROVE TalkInv'
  BY <1>1, CliStepIs, TalkNextInv, ExitKeepsTalk
<1>2. CliInit => TalkInv
  BY TalkInitInv DEF CliInit
<1>3. LinkInv /\ TypeOK /\ LoginInv /\ TalkInv /\ [CliNext]_cliVars => TalkInv'
  BY <1>1
<1> QED
  BY <1>2, <1>3, CliIsSound, PTL DEF CliSpec

\* No answer is left for the next command to take for its own.
THEOREM CommandsStayInSync ==
  ASSUME NoSpuriousReply
  PROVE  CliSpec => []RepliesInSync
BY TalkIsInSync, CliTalks, CliIsSound, PTL

\* The end of a process returns no call.
LEMMA ReturningIsALinkStep ==
  ASSUME LinkInv, [CliNext]_cliVars, NEW c \in Client, NEW pc, pc # "idle", Returned(c, pc)
  PROVE  [LinkNext]_allVars
<1>1. ASSUME NEW e \in Client, Exits(e) PROVE FALSE
  <2>1. e # c
    BY <1>1 DEF Exits, Returned
  <2>2. sdk'[c] = sdk[c]
    BY <1>1, <2>1, ExitEffect
  <2> QED
    BY <2>2 DEF Returned
<1> QED
  BY <1>1, CliStepIs

\* sailor list prints what the directory holds when it reads the answer.
THEOREM CommandsListWhatIsThere ==
  ASSUME NoSpuriousReply
  PROVE  CliSpec => OkListIsCurrent
<1> DEFINE Step ==
      \A c \in Client :
        Returned(c, "simple") /\ sdk[c].req.op = "LIST" /\ srv.conn = K(c)
        => LET path  == sdk[c].req.path
               names == { n \in Name : Append(path, n) \in DOMAIN tree }
               size  == [ n \in names |-> LET i == tree[Append(path, n)] IN
                            IF i = Dir THEN Dir ELSE Len(data[i]) ]
           IN  Received(K(c)).arg = { [name |-> n, size |-> size[n]] : n \in names }
<1>1. LinkInv /\ TypeOK /\ TalkInv /\ [CliNext]_cliVars => Step
  BY ListRead, ReturningIsALinkStep
<1>2. Step => [Step]_allVars
  OBVIOUS
<1> QED
  BY <1>1, <1>2, CliIsSound, CliTalks, PTL DEF CliSpec, OkListIsCurrent

\* A download that returned SAILOR_OK to its command is the file of that moment.
THEOREM CommandsDownloadTheFile ==
  ASSUME NoSpuriousReply
  PROVE  CliSpec => OkDownloadIsCurrent
<1> DEFINE Step ==
      \A c \in Client :
        Returned(c, "stream") /\ srv.conn = K(c)
        => LET path == sdk[c].req.path IN
           IsFile(tree, path) /\ data[tree[path]] = sdk[c].local
<1>1. LinkInv /\ TypeOK /\ TalkInv /\ [CliNext]_cliVars => Step
  BY DownloadRead, ReturningIsALinkStep
<1>2. Step => [Step]_allVars
  OBVIOUS
<1> QED
  BY <1>1, <1>2, CliIsSound, CliTalks, PTL DEF CliSpec, OkDownloadIsCurrent

\* An upload that returned SAILOR_OK to its command is in the storage, whatever
\* uploads commands before it have abandoned on the same name.
THEOREM CommandsStoreTheirUploads ==
  ASSUME NoSpuriousReply, "close" \notin Faults
  PROVE  CliSpec => OkUploadIsStored
<1> DEFINE Step ==
      \A c \in Client :
        Returned(c, "end") /\ srv.conn = K(c)
        => LET target == Append(sdk[c].req.dir, sdk[c].req.name) IN
           IsFile(tree, target) /\ data[tree[target]] = LocalFile
<1>1. LinkInv /\ TypeOK /\ TalkInv /\ [CliNext]_cliVars => Step
  BY UploadAcknowledged, ReturningIsALinkStep DEF Stored
<1>2. Step => [Step]_allVars
  OBVIOUS
<1> QED
  BY <1>1, <1>2, CliIsSound, CliTalks, PTL DEF CliSpec, OkUploadIsStored

=============================================================================
