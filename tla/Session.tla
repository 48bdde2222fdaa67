------------------------------- MODULE Session -------------------------------
(***************************************************************************)
(* Sessions of the desktop application: ConnectionNotifier, the connect    *)
(* screen and the explorer, with the queue, the remote browser and the     *)
(* worker they share.  A disconnect waits its turn behind what the worker  *)
(* has to do, and the queue goes on when it has been done.                 *)
(*                                                                         *)
(* The Navigator is a stack of routes.  What a screen awaited replaces the *)
(* route on top, which may be a menu, a dialog or another screen; the      *)
(* screen that awaited it then stays mounted beneath.  One that is mounted *)
(* no more replaces nothing, so that requests carry the screen they come   *)
(* from.  A replaced screen is taken to leave at once, without the time of *)
(* the animation.                                                          *)
(***************************************************************************)
EXTENDS TransferQueue

CONSTANTS
  MaxSubmits, \* bound on the times users connect or disconnect
  Extents     \* bounds on what happens together: each behaviour is within one

ASSUME SessionAssumption ==
  /\ MaxSubmits \in Nat
  /\ Extents \subseteq [tasks : Nat, ticks : Nat, requests : Nat, retries : Nat,
                        submits : Nat, popups : Nat]

VARIABLES
  state,     \* state_ of the native client
  connected, \* ConnectionStateData.isConnected
  screens,   \* the screens of the Navigator, the one on top last
  shown,     \* how many screens were shown, which numbers them
  popup,     \* whether a dialog is on top that is none of the remote pane's
  popups,    \* how many of those there were
  left,      \* whether users left the last explorer by its back arrow
  submits    \* how often users connected or disconnected

routeVars == << screens, shown, popup, popups, left >>
sessionVars == << state, connected, routeVars, submits >>
allVars == << sessionVars, vars >>

Screen == [kind : {"form", "explorer"}, number : Nat]
Form(n) == [kind |-> "form", number |-> n]
Explorer(n) == [kind |-> "explorer", number |-> n]

Top == Last(screens)
Mounted(screen) == screen \in ToSet(screens)

\* The screen that has the user's input, but for the menus of the remote pane.
InForm == Top.kind = "form" /\ ~popup
InExplorer == Top.kind = "explorer" /\ ~popup

Connect == [kind |-> "connect", from |-> Top]
Disconnect == [kind |-> "disconnect", from |-> Top]
\* The listing of the root that connect() awaits.
Opening(from) == [kind |-> "list", path |-> Root, from |-> from]

SessionInit ==
  /\ WorkerInit /\ QueueInit
  /\ currentPath = Root /\ listing = {} /\ isLoading = FALSE /\ error = FALSE
  /\ dialog = Closed /\ requests = 0
  /\ state = "DISCONNECTED" /\ connected = FALSE
  /\ screens = << Form(0) >> /\ shown = 0 /\ popup = FALSE /\ popups = 0 /\ left = FALSE
  /\ submits = 0

SessionTypeOK ==
  /\ TypeOK
  /\ state \in {"DISCONNECTED", "CONNECTED_UNAUTHENTICATED", "AUTHENTICATED"}
  /\ connected \in BOOLEAN
  /\ screens \in Seq(Screen) /\ screens # << >>
  /\ shown \in Nat /\ popup \in BOOLEAN /\ popups \in Nat /\ left \in BOOLEAN
  /\ submits \in 0..MaxSubmits

-----------------------------------------------------------------------------
(* The native calls, on the worker *)

Answer(ok) ==
  /\ inbox' = Append(inbox, Response(Head(commands), ok))
  /\ commands' = Tail(commands)
  /\ UNCHANGED << relay, running, ticks, connected, routeVars, submits, queueVars, browserVars >>

\* A connect that fails before or in the TLS handshake leaves state_ as it was.
\* It need not return: it blocks when the connection is lost while it logs in,
\* and when the server still serves the connection of an earlier one.
ConnectCall ==
  /\ NextIs("connect")
  /\ \/ Answer(TRUE) /\ state' = "AUTHENTICATED"
     \/ Answer(FALSE) /\ state' \in {state, "CONNECTED_UNAUTHENTICATED"}

DisconnectCall ==
  /\ NextIs("disconnect")
  /\ Answer(TRUE)
  /\ state' = "DISCONNECTED"

\* Every other call fails unless state_ is AUTHENTICATED.
Judged == inbox' # inbox /\ state # "AUTHENTICATED" => ~Last(inbox').ok

TransferCall ==
  /\ StartTransfer \/ TransferReturns
  /\ Judged
  /\ UNCHANGED << sessionVars, queueVars, browserVars >>

OtherCall ==
  /\ ShortCall
  /\ Judged
  /\ UNCHANGED << sessionVars, queueVars, browserVars >>

-----------------------------------------------------------------------------
(* The main isolate *)

\* Navigator.pushReplacement.
PushReplacement(screen) ==
  /\ screens' = IF popup \/ dialog # Closed THEN Append(screens, screen)
                ELSE Append(Front(screens), screen)
  /\ shown' = shown + 1
  /\ popup' = FALSE /\ dialog' = Closed
  /\ left' = (left /\ screen.kind = "form")
  /\ UNCHANGED popups

\* A mutant of Connected: a failure only shows its message.
ConnectedUnlessRefused(m) ==
  /\ m.request.kind = "connect"
  /\ \/ /\ m.ok
        /\ connected' = TRUE
        /\ StartLoading(Root)
        /\ commands' = Append(commands, Opening(m.request.from))
        /\ UNCHANGED requests
     \/ /\ ~m.ok
        /\ UNCHANGED << connected, browserVars, commands >>
  /\ UNCHANGED routeVars

\* connect() after its first await.
Connected(m) ==
  /\ m.request.kind = "connect"
  /\ connected' = m.ok
  /\ \/ /\ m.ok
        /\ StartLoading(Root)
        /\ commands' = Append(commands, Opening(m.request.from))
        /\ UNCHANGED requests
     \/ /\ ~m.ok
        /\ UNCHANGED << browserVars, commands >>
  /\ UNCHANGED routeVars

\* A mutant of Opened: the explorer is shown if its listing has succeeded.
OpenedIfListed(m) ==
  /\ Listed(m)
  /\ IF m.ok /\ Mounted(m.request.from) THEN PushReplacement(Explorer(shown + 1))
     ELSE ListStays(m) /\ UNCHANGED routeVars
  /\ UNCHANGED connected

\* loadPath has no failure that connect() would see: the explorer is shown.
Opened(m) ==
  /\ Listed(m)
  /\ IF Mounted(m.request.from) THEN PushReplacement(Explorer(shown + 1))
     ELSE ListStays(m) /\ UNCHANGED routeVars
  /\ UNCHANGED connected

\* disconnect() after its await, and the connect screen that is shown then.
Disconnected(m) ==
  /\ m.request.kind = "disconnect"
  /\ connected' = FALSE
  /\ ResetPane
  /\ IF Mounted(m.request.from) THEN PushReplacement(Form(shown + 1))
     ELSE ListLeavesScreen /\ UNCHANGED routeVars
  /\ UNCHANGED << requests, commands >>

AwaitedByScreen(m) == m.kind = "response" /\ "from" \in DOMAIN m.request

SessionStep ==
  /\ inbox # << >>
  /\ LET m == Head(inbox) IN
     \/ /\ ~AwaitedByScreen(m)
        /\ MainStep
        /\ UNCHANGED << connected, routeVars >>
     \/ /\ AwaitedByScreen(m)
        /\ Connected(m) \/ Opened(m) \/ Disconnected(m)
        /\ inbox' = Tail(inbox)
        /\ UNCHANGED << relay, running, ticks, queueVars >>
  /\ UNCHANGED << state, submits >>

-----------------------------------------------------------------------------
(* The user *)

\* Enter in the password field submits the form as often as it is pressed; the
\* disabled button does not keep it from that.
Submit ==
  /\ InForm /\ submits < MaxSubmits
  /\ commands' = Append(commands, Connect)
  /\ submits' = submits + 1
  /\ UNCHANGED << state, connected, routeVars, relay, running, inbox, ticks, queueVars, browserVars >>

\* The question whether to disconnect is answered at once; `popup` is one that
\* stays open.
AskToDisconnect ==
  /\ InExplorer /\ dialog = Closed /\ submits < MaxSubmits
  /\ commands' = Append(commands, Disconnect)
  /\ submits' = submits + 1
  /\ UNCHANGED << state, connected, routeVars, relay, running, inbox, ticks, queueVars, browserVars >>

\* The settings and the questions of either screen.
OpenPopup ==
  /\ ~popup /\ dialog = Closed
  /\ popup' = TRUE /\ popups' = popups + 1
  /\ UNCHANGED << screens, left >>

ClosePopup == popup /\ popup' = FALSE /\ UNCHANGED << screens, left, popups >>

\* The AppBar of an explorer has a back arrow if there is a screen beneath.
GoBack ==
  /\ InExplorer /\ dialog = Closed /\ Len(screens) > 1
  /\ screens' = Front(screens)
  /\ left' = TRUE
  /\ UNCHANGED << popup, popups >>

Navigate ==
  /\ OpenPopup \/ ClosePopup \/ GoBack
  /\ UNCHANGED << state, connected, shown, submits, vars >>

\* Native file dialogs belong to an explorer that may be covered by now.
PickFiles ==
  /\ \E n \in DOMAIN screens : screens[n].kind = "explorer"
  /\ \E t \in Task : Enqueue(t)
  /\ UNCHANGED << sessionVars, relay, running, inbox, ticks >>

UserInput ==
  \/ Submit \/ AskToDisconnect \/ Navigate \/ PickFiles
  \/ InExplorer /\ UserStep /\ UNCHANGED sessionVars

-----------------------------------------------------------------------------
PassedOn == (RelayStep \/ CallbackStep) /\ UNCHANGED sessionVars

Within(extent) ==
  /\ Cardinality({ t \in Task : status'[t] # "absent" }) <= extent.tasks
  /\ ticks' <= extent.ticks /\ requests' <= extent.requests
  /\ retries' <= extent.retries /\ submits' <= extent.submits
  /\ popups' <= extent.popups

SessionNext ==
  /\ \/ ConnectCall \/ DisconnectCall \/ TransferCall \/ OtherCall
     \/ SessionStep \/ PassedOn \/ UserInput
  /\ \E extent \in Extents : Within(extent)

\* The event loops run, and the calls return but for connect and the transfers:
\* a download whose file the server cannot read waits for ever.
SessionSpec ==
  /\ SessionInit /\ [][SessionNext]_allVars
  /\ WF_allVars(DisconnectCall) /\ WF_allVars(OtherCall)
  /\ WF_allVars(TransferCall /\ running = << >>)
  /\ WF_allVars(SessionStep)
  /\ WF_allVars(RelayStep /\ UNCHANGED sessionVars)

-----------------------------------------------------------------------------
(* What the sessions promise. *)

\* When nothing that changes it is on its way, the application is connected only
\* if the native client is: a form submitted twice, a refusal and a disconnect
\* behind a transfer join the two.
ConnectedMeansOnline ==
  connected /\ Outstanding("connect") + Outstanding("disconnect") = 0
  => state = "AUTHENTICATED"

\* No answer loses the explorer of an open connection: with nothing on its way
\* there is one, on top or beneath, unless users went back from it to the form.
\* A form submitted twice, popups that are replaced in the place of a screen, and
\* disconnects of covered explorers join the two.
ConnectionHasExplorer ==
  /\ connected /\ ~left
  /\ Outstanding("connect") + Outstanding("disconnect") + Outstanding("list") = 0
  => \E n \in DOMAIN screens : screens[n].kind = "explorer"

\* Whatever fails on the way, and whatever session it falls in, a queued task is
\* taken up in the end, but for a connect that the worker cannot get out of, and
\* if no transfer keeps it for ever.
EveryTaskIsSettled ==
  \A t \in Task :
    []<>(running = << >>)
    => ( status[t] \in {"queued", "inProgress"}
         ~> status[t] \notin {"queued", "inProgress"} \/ NextIs("connect") )
=============================================================================
