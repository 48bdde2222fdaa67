------------------------------ MODULE MCSession ------------------------------
(* A small instance of Session for TLC. *)
EXTENDS Session

CONSTANTS up1, down1, name

MCTask == {up1, down1}
MCDownload == {down1}
MCName == {name}

Extent(tasksOf, ticksOf, requestsOf, retriesOf, submitsOf, popupsOf) ==
  [tasks |-> tasksOf, ticks |-> ticksOf, requests |-> requestsOf,
   retries |-> retriesOf, submits |-> submitsOf, popups |-> popupsOf]

\* Two transfers with what the queue and the pane do in a session and after it,
\* and the screens of longer sequences of sessions, with menus or popups.
MCExtents ==
  { Extent(2, 1, 0, 1, 1, 0), Extent(2, 0, 1, 1, 1, 0), Extent(1, 1, 1, 0, 1, 0),
    Extent(2, 1, 0, 0, 2, 0), Extent(1, 0, 1, 0, 2, 0), Extent(2, 0, 0, 1, 2, 0),
    Extent(1, 0, 0, 0, 3, 1), Extent(0, 0, 1, 0, 4, 1) }
=============================================================================
