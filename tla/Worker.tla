------------------------------- MODULE Worker -------------------------------
(***************************************************************************)
(* SailorClient: the main isolate of the desktop application sends         *)
(* requests to a worker isolate, which makes the calls of the native       *)
(* library and answers.                                                    *)
(*                                                                         *)
(* An isolate is one thread with one FIFO of messages and handles one      *)
(* message after the other.  The worker is blocked in a native call while  *)
(* it transfers.  The progress callback is a NativeCallable.listener: it   *)
(* leaves a message in the FIFO of the isolate that created it.            *)
(*                                                                         *)
(* clientProvider calls init() and does not await it, so the first request *)
(* calls it again and there are two workers.  They share the library.  One *)
(* gets all requests, the one whose init() ended last; the callback is the *)
(* one that either of them installed last.  If it is the serving worker's, *)
(* progress is passed on once the call has returned and the commands that  *)
(* came before are handled; otherwise the other worker does it at any      *)
(* time.  The second covers the first, so it is the one modelled.          *)
(* Start-up is taken to be over before a second request is made.           *)
(***************************************************************************)
EXTENDS Naturals, Sequences, FiniteSets

CONSTANT MaxTicks \* bound on the progress callbacks of all transfers

ASSUME TicksAssumption == MaxTicks \in Nat

VARIABLES
  commands, \* the FIFO of the worker isolate that serves
  relay,    \* the FIFO of the worker isolate with the progress callback
  running,  \* << >>, or the request the worker is busy with
  inbox,    \* the FIFO of the main isolate
  ticks     \* how many progress callbacks there were

workerVars == << commands, relay, running, inbox, ticks >>

\* The messages: requests of the main isolate, progress, and responses.
Transfer(t) == [kind |-> "transfer", task |-> t]
List(path) == [kind |-> "list", path |-> path]
Change(path) == [kind |-> "change", path |-> path]
Progress(t) == [kind |-> "progress", task |-> t]
Response(request, ok) == [kind |-> "response", request |-> request, ok |-> ok]

WorkerInit ==
  /\ commands = << >> /\ relay = << >> /\ running = << >> /\ inbox = << >> /\ ticks = 0

NextIs(kind) == running = << >> /\ commands # << >> /\ Head(commands).kind = kind

StartTransfer ==
  /\ NextIs("transfer")
  /\ running' = << Head(commands) >>
  /\ commands' = Tail(commands)
  /\ UNCHANGED << relay, inbox, ticks >>

\* The progress callback inside upload() or download().
ProgressCallback ==
  /\ running # << >> /\ ticks < MaxTicks
  /\ ticks' = ticks + 1
  /\ relay' = Append(relay, Progress(running[1].task))
  /\ UNCHANGED << commands, running, inbox >>

TransferReturns ==
  /\ running # << >>
  /\ \E ok \in BOOLEAN : inbox' = Append(inbox, Response(running[1], ok))
  /\ running' = << >>
  /\ UNCHANGED << commands, relay, ticks >>

ForwardProgress ==
  /\ relay # << >>
  /\ inbox' = Append(inbox, Head(relay))
  /\ relay' = Tail(relay)
  /\ UNCHANGED << commands, running, ticks >>

\* list, delete, rename, mkdir and rmdir report no progress, so that nothing
\* tells the beginning of the call from its end.
ShortCall ==
  /\ NextIs("list") \/ NextIs("change")
  /\ \E ok \in BOOLEAN : inbox' = Append(inbox, Response(Head(commands), ok))
  /\ commands' = Tail(commands)
  /\ UNCHANGED << relay, running, ticks >>

WorkerStep == StartTransfer \/ TransferReturns \/ ShortCall

\* All that is on its way to the worker, in it, or on its way back.
Outstanding(kind) ==
  Cardinality({ n \in DOMAIN commands : commands[n].kind = kind })
  + Cardinality({ n \in DOMAIN running : running[n].kind = kind })
  + Cardinality({ n \in DOMAIN inbox :
                    inbox[n].kind = "response" /\ inbox[n].request.kind = kind })
=============================================================================
