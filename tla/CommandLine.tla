----------------------------- MODULE CommandLine -----------------------------
(***************************************************************************)
(* The command line client: main() over the C interface of the SDK.  A     *)
(* client of SailorLink is the process of one command at a time.  It       *)
(* connects, makes one call and disconnects, whatever the call returned.   *)
(***************************************************************************)
EXTENDS SailorLink

VARIABLE cli  \* for each client how far main() is, and its last exit code

cliVars == << cli, allVars >>

Stage == {"start", "connecting", "calling", "exited"}

CliInit ==
  /\ LinkInit
  /\ cli = [c \in Client |-> [stage |-> "start", code |-> 0]]

At(c, stage) == cli[c].stage = stage /\ sdk[c].pc = "idle"

GoesTo(c, stage) == cli' = [cli EXCEPT ![c].stage = stage]

MainConnects(c) ==
  /\ At(c, "start")
  /\ Connect(c)
  /\ GoesTo(c, "connecting")

\* sailor_disconnect and the return from main().  Where main() does not call it
\* the destructor of g_client does.
Exit(c, code) ==
  /\ ProcessEnds(c)
  /\ sdk' = [sdk EXCEPT ![c] = [NewClient EXCEPT !.opened = sdk[c].opened,
                                                 !.call   = sdk[c].call]]
  /\ cli' = [cli EXCEPT ![c] = [stage |-> "exited", code |-> code]]
  /\ UNCHANGED << backlog, srv, vars >>

\* sailor_connect did not return SAILOR_OK.
MainCannotConnect(c) ==
  /\ At(c, "connecting") /\ sdk[c].status # "OK"
  /\ Exit(c, 1)

\* The arguments are looked at only now.
MainPrintsUsage(c) ==
  /\ At(c, "connecting") /\ sdk[c].status = "OK"
  /\ Exit(c, 1)

MainCalls(c) ==
  /\ At(c, "connecting") /\ sdk[c].status = "OK"
  /\ \E req \in Requests : Call(c, req)
  /\ GoesTo(c, "calling")

\* A mutant of MainExits: the process waits with its connection open.
MainStays(c) ==
  /\ At(c, "calling") /\ sdk[c].status # "OK"
  /\ Exit(c, 0)

MainExits(c) ==
  /\ At(c, "calling")
  /\ Exit(c, 0)

MainStep(c) ==
  \/ MainConnects(c) \/ MainCannotConnect(c) \/ MainPrintsUsage(c)
  \/ MainCalls(c) \/ MainExits(c)

CliNext ==
  \/ \E c \in Client : MainStep(c)
  \/ /\ \/ \E c \in Client : ClientStep(c) \/ Crash(c)
        \/ ServerStep \/ ServerDies \/ ServerStarts
     /\ UNCHANGED cli

\* The processes run, and the server does.  That somebody starts the server again
\* is not assumed.
CliSpec ==
  /\ CliInit /\ [][CliNext]_cliVars
  /\ WF_cliVars(ServerStep /\ UNCHANGED cli)
  /\ \A c \in Client : WF_cliVars(MainStep(c) \/ (ClientStep(c) /\ UNCHANGED cli))

-----------------------------------------------------------------------------
\* main() makes its call on nothing but the SAILOR_OK of sailor_connect, whatever
\* has become of the server and of the connection meanwhile: the client is then
\* logged in and has a transport, so that the call is one the SDK sends.
OkConnectIsLogin ==
  \A c \in Client :
    At(c, "connecting") /\ sdk[c].status = "OK"
    => sdk[c].state = "AUTHENTICATED" /\ sdk[c].conn # 0

\* Every command ends, however many others share the one thread of the server
\* and whatever becomes of them and of the server; but for a connect() that has
\* locked itself out (LossIsReported).
EveryCommandExits ==
  \A c \in Client :
    cli[c].stage \in {"connecting", "calling"}
    ~> (cli[c].stage = "exited" \/ sdk[c].pc \in {"dead", "stuck"})

\* The server comes back to accept(): no connection holds it for ever.
ServerComesFree == srv.pc = "serve" ~> srv.pc # "serve"
=============================================================================
