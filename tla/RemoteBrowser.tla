---------------------------- MODULE RemoteBrowser ----------------------------
(***************************************************************************)
(* The remote pane of the desktop application: RemoteBrowserNotifier, and  *)
(* the menus and dialogs of explorer_screen.dart that act through it.      *)
(*                                                                         *)
(* A handler runs up to its next await without interruption.  loadPath     *)
(* changes the path at once and the listing when the response arrives, so  *)
(* listings of several paths may be on their way.  Menus and dialogs are   *)
(* modal for the user, not for responses.                                  *)
(*                                                                         *)
(* A path is the sequence of its names, which is what normalizeRemotePath  *)
(* makes of it; names of a listing are neither "." nor "..".  What a       *)
(* directory holds is up to the server: any name may be a file or a        *)
(* directory, and any call may fail.                                       *)
(***************************************************************************)
EXTENDS Worker, SequencesExt

CONSTANTS
  Name,       \* the names entries have
  MaxDepth,   \* bound on the depth of the directories that are browsed
  MaxRequests \* bound on what the user asks of the browser

ASSUME BrowserAssumption == MaxDepth \in Nat /\ MaxRequests \in Nat

VARIABLES
  currentPath,
  listing,   \* whose entries `entries` are: {} for none, or one path
  isLoading,
  error,     \* whether there is one
  dialog,    \* the open menu or dialog, with the entry it was opened on
  requests   \* how many requests there were

browserVars == << currentPath, listing, isLoading, error, dialog, requests >>

Root == << >>

Path == SeqOf(Name, MaxDepth)

Closed == [stage |-> "closed", path |-> Root, mounted |-> TRUE]

\* The explorer opens after connect() has awaited loadPath('/').
BrowserInit ==
  /\ currentPath = Root /\ isLoading = FALSE
  /\ error \in BOOLEAN /\ listing = IF error THEN {} ELSE {Root}
  /\ dialog = Closed /\ requests = 0

BrowserTypeOK ==
  /\ currentPath \in Path /\ listing \subseteq Path /\ Cardinality(listing) <= 1
  /\ isLoading \in BOOLEAN /\ error \in BOOLEAN
  /\ dialog.stage \in {"closed", "menu", "dialog"} /\ dialog.path \in Seq(Name) /\ dialog.mounted \in BOOLEAN
  /\ requests \in 0..MaxRequests

\* The pane shows entries, and not a spinner or an error.
ShowsEntries == ~isLoading /\ ~error /\ listing # {}

\* The list of entries leaves the screen with the next frame, and with it the
\* context of a menu that was opened on it.
ListLeavesScreen ==
  \/ UNCHANGED dialog
  \/ /\ dialog.stage = "menu"
     /\ dialog' = [dialog EXCEPT !.mounted = FALSE]

\* loadPath up to its await, but for the request itself.
StartLoading(path) ==
  /\ currentPath' = path /\ isLoading' = TRUE /\ error' = FALSE
  /\ UNCHANGED listing
  /\ ListLeavesScreen

\* reset(), which a disconnect ends with.
ResetPane ==
  currentPath' = Root /\ listing' = {} /\ isLoading' = FALSE /\ error' = FALSE

\* A mutant of Listed: the path is left as the last loadPath set it.
ListedInPlace(m) ==
  /\ m.request.kind = "list"
  /\ isLoading' = FALSE
  /\ \/ /\ m.ok
        /\ listing' = {m.request.path} /\ error' = FALSE
        /\ UNCHANGED currentPath
     \/ /\ ~m.ok
        /\ error' = TRUE
        /\ UNCHANGED << currentPath, listing >>
  /\ UNCHANGED << requests, commands >>

\* A mutant of Listed: an error leaves the spinner.
ListedStillLoading(m) ==
  /\ m.request.kind = "list"
  /\ error' = ~m.ok
  /\ \/ /\ m.ok
        /\ currentPath' = m.request.path /\ listing' = {m.request.path}
        /\ isLoading' = FALSE
     \/ /\ ~m.ok
        /\ UNCHANGED << currentPath, listing, isLoading >>
  /\ UNCHANGED << requests, commands >>

\* loadPath after its await, but for what it means to the menu that is open.
Listed(m) ==
  /\ m.request.kind = "list"
  /\ isLoading' = FALSE
  /\ \/ /\ m.ok
        /\ currentPath' = m.request.path /\ listing' = {m.request.path}
        /\ error' = FALSE
     \/ /\ ~m.ok
        /\ error' = TRUE
        /\ UNCHANGED << currentPath, listing >>
  /\ UNCHANGED << requests, commands >>

\* An error takes the place of the list of entries.
ListStays(m) == IF m.ok THEN UNCHANGED dialog ELSE ListLeavesScreen

\* mkdir, deletePath and rename after their await: an exception only makes a
\* snack bar, otherwise the directory that is current by now is loaded.
Changed(m) ==
  /\ m.request.kind = "change"
  /\ \/ /\ m.ok
        /\ StartLoading(currentPath)
        /\ commands' = Append(commands, List(currentPath))
        /\ UNCHANGED requests
     \/ /\ ~m.ok
        /\ UNCHANGED << browserVars, commands >>

-----------------------------------------------------------------------------
(* The user.  An open menu or dialog takes all the input. *)

MayAsk == dialog = Closed /\ requests < MaxRequests

\* loadPath as the user's input calls it.
LoadPath(path) ==
  /\ dialog = Closed
  /\ StartLoading(path)
  /\ commands' = Append(commands, List(path))

Refresh == MayAsk /\ LoadPath(currentPath) /\ requests' = requests + 1

\* Not counted: only listings of deeper directories make it possible again.
NavigateUp ==
  currentPath # Root /\ LoadPath(Front(currentPath)) /\ UNCHANGED requests

OpenFolder(name) ==
  /\ MayAsk /\ ShowsEntries /\ Len(currentPath) < MaxDepth
  /\ LoadPath(Append(currentPath, name))
  /\ requests' = requests + 1

\* The dialog of "New Folder" holds a name only.
Mkdir(name) ==
  /\ MayAsk
  /\ commands' = Append(commands, Change(Append(currentPath, name)))
  /\ requests' = requests + 1
  /\ UNCHANGED << currentPath, listing, isLoading, error, dialog >>

\* showMenu, on an entry the user sees.
OpenMenu(name) ==
  /\ MayAsk /\ ShowsEntries
  /\ dialog' = [stage |-> "menu", path |-> Append(currentPath, name), mounted |-> TRUE]
  /\ requests' = requests + 1
  /\ UNCHANGED << currentPath, listing, isLoading, error, commands >>

\* The choice of "rename" or "delete" opens a dialog if the list is still there.
Choose ==
  /\ dialog.stage = "menu"
  /\ dialog' = IF dialog.mounted THEN [dialog EXCEPT !.stage = "dialog"] ELSE Closed
  /\ UNCHANGED << currentPath, listing, isLoading, error, requests, commands >>

\* deletePath and rename up to their await: the dialog passes the entry, and the
\* directory is the current one.
Confirm ==
  /\ dialog.stage = "dialog"
  /\ commands' = Append(commands, Change(Append(currentPath, Last(dialog.path))))
  /\ dialog' = Closed
  /\ UNCHANGED << currentPath, listing, isLoading, error, requests >>

Dismiss ==
  /\ dialog.stage # "closed"
  /\ dialog' = Closed
  /\ UNCHANGED << currentPath, listing, isLoading, error, requests, commands >>

Browse ==
  /\ \/ Refresh \/ NavigateUp
     \/ \E name \in Name : OpenFolder(name) \/ Mkdir(name) \/ OpenMenu(name)
     \/ Choose \/ Confirm \/ Dismiss
  /\ UNCHANGED << relay, running, inbox, ticks >>

-----------------------------------------------------------------------------
(* What the pane promises. *)

\* The entries on the screen are those of the path above them, whichever
\* listings are on their way: a double click, a menu and a download join the two.
EntriesAreOfCurrentPath == ShowsEntries => listing = {currentPath}

\* A spinner waits for something: whichever of several listings answers first,
\* and whether it succeeds, no spinner stays when the last one has answered.
SpinnerAwaitsListing == isLoading => Outstanding("list") > 0

\* What a dialog changes is the entry it was opened on and asks about.
DialogActsOnItsEntry ==
  [][ dialog.stage = "dialog" /\ dialog' = Closed /\ commands' # commands
      => Last(commands').path = dialog.path ]_<< browserVars, commands >>
=============================================================================
