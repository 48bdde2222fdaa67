---------------------------- MODULE TransferQueue ----------------------------
(***************************************************************************)
(* The transfer queue of the desktop application (TransferNotifier), with  *)
(* the remote browser, which it refreshes, and the worker isolate, which   *)
(* both use.                                                               *)
(*                                                                         *)
(* The main isolate runs _processQueue up to its next await inside the     *)
(* handler that called or resumed it, so that is one step here.            *)
(***************************************************************************)
EXTENDS RemoteBrowser

CONSTANTS
  Task,      \* the transfers users enqueue, each at most once
  Download,  \* those of them that are downloads
  NoTask,
  MaxRetries \* bound on the retries of all tasks

ASSUME QueueAssumption ==
  /\ Download \subseteq Task /\ NoTask \notin Task
  /\ MaxRetries \in Nat

VARIABLES
  tasks,    \* `state`: the list of tasks, in the order the user sees
  status,   \* TransferTask.status; "absent" before the task exists
  progress, \* TransferTask.transferredBytes, by whose bytes they are
  waiting,  \* the tasks that runs of _processQueue await
  retries   \* how many retries there were

queueVars == << tasks, status, progress, waiting, retries >>

vars == << queueVars, browserVars, workerVars >>

Status == {"absent", "queued", "inProgress", "completed", "failed", "cancelled"}

QueueInit ==
  /\ tasks = << >>
  /\ status = [t \in Task |-> "absent"]
  /\ progress = [t \in Task |-> NoTask]
  /\ waiting = {}
  /\ retries = 0

Init == WorkerInit /\ BrowserInit /\ QueueInit

ListedTasks == ToSet(tasks)

TypeOK ==
  /\ tasks \in Seq(Task) /\ Cardinality(ListedTasks) = Len(tasks)
  /\ status \in [Task -> Status]
  /\ \A t \in Task : progress[t] \in Task \union {NoTask}
  /\ waiting \subseteq Task
  /\ retries \in 0..MaxRetries /\ ticks \in 0..MaxTicks
  /\ BrowserTypeOK

-----------------------------------------------------------------------------
(* The main isolate: TransferNotifier *)

\* The places in the list whose tasks have a status; indexWhere takes the first.
Places(list, now, wanted) == { i \in DOMAIN list : now[list[i]] = wanted }

\* The loop of _processQueue from its condition to its next await, on the tasks
\* `list` with the statuses `now`.  Downloads whose local directory cannot be
\* created fail at once, and the loop goes on to the next task.  Every task that
\* has ended, the one before this part of the loop (`ended` is 1) included,
\* refreshes the remote browser.
Loop(list, now, others, ended) ==
  LET queued == Places(list, now, "queued") IN
  \E failed \in SUBSET queued :
    LET left      == queued \ failed
        after     == [t \in Task |-> IF \E i \in failed : list[i] = t THEN "failed" ELSE now[t]]
        refreshes == [m \in 1..(ended + Cardinality(failed)) |-> List(currentPath)]
    IN
    /\ \A i \in failed : list[i] \in Download /\ \A j \in left : i < j
    /\ IF refreshes = << >> THEN UNCHANGED browserVars
       ELSE StartLoading(currentPath) /\ UNCHANGED requests
    /\ \/ /\ left = {}
          /\ status' = after
          /\ waiting' = others
          /\ commands' = commands \o refreshes
       \/ /\ left # {}
          /\ LET next == list[Min(left)] IN
             /\ status' = [after EXCEPT ![next] = "inProgress"]
             /\ waiting' = others \union {next}
             /\ commands' = Append(commands \o refreshes, Transfer(next))

\* A mutant of ProcessQueue: _isProcessing is not tested.
ProcessQueueAgain(list, now) == Loop(list, now, waiting, 0)

\* _isProcessing is true exactly while a run awaits a transfer.
ProcessQueue(list, now) ==
  \/ /\ waiting # {}
     /\ status' = now
     /\ UNCHANGED << waiting, commands, browserVars >>
  \/ /\ waiting = {}
     /\ Loop(list, now, {}, 0)

\* A task comes from a native file dialog, which no menu or dialog of the
\* application excludes, or from a menu, whose end is Dismiss.
Enqueue(t) ==
  /\ status[t] = "absent"
  /\ tasks' = Append(tasks, t)
  /\ ProcessQueue(tasks', [status EXCEPT ![t] = "queued"])
  /\ UNCHANGED << progress, retries >>

CancelTask(t) ==
  /\ dialog = Closed
  /\ t \in ListedTasks /\ status[t] \in {"queued", "inProgress"}
  /\ status' = [status EXCEPT ![t] = "cancelled"]
  /\ UNCHANGED << tasks, progress, waiting, retries, commands, browserVars >>

\* where(...), which keeps the order: SelectSeq, as a function on the places.
Unfinished(list) ==
  LET kept[n \in 0..Len(list)] ==
        IF n = 0 THEN << >>
        ELSE IF status[list[n]] \in {"completed", "cancelled"} THEN kept[n - 1]
        ELSE Append(kept[n - 1], list[n])
  IN kept[Len(list)]

ClearCompleted ==
  /\ dialog = Closed
  /\ tasks' = Unfinished(tasks)
  /\ UNCHANGED << status, progress, waiting, retries, commands, browserVars >>

\* A mutant of MayRetry: a cancelled task can be retried, too.
MayRetryCancelled(t) ==
  /\ dialog = Closed
  /\ t \in ListedTasks /\ status[t] \in {"failed", "cancelled"} /\ retries < MaxRetries

MayRetry(t) ==
  dialog = Closed /\ t \in ListedTasks /\ status[t] = "failed" /\ retries < MaxRetries

\* A mutant of RetryTask: a retry is a task of its own at the end of the list.
RetryAtTheEnd(t) ==
  /\ MayRetry(t)
  /\ retries' = retries + 1
  /\ tasks' = Append(tasks, t)
  /\ progress' = [progress EXCEPT ![t] = NoTask]
  /\ ProcessQueue(tasks', [status EXCEPT ![t] = "queued"])

\* A mutant of RetryTask: the queue is not started again.
RetryLater(t) ==
  /\ MayRetry(t)
  /\ retries' = retries + 1
  /\ progress' = [progress EXCEPT ![t] = NoTask]
  /\ status' = [status EXCEPT ![t] = "queued"]
  /\ UNCHANGED << tasks, waiting, commands, browserVars >>

RetryTask(t) ==
  /\ MayRetry(t)
  /\ retries' = retries + 1
  /\ progress' = [progress EXCEPT ![t] = NoTask]
  /\ ProcessQueue(tasks, [status EXCEPT ![t] = "queued"])
  /\ UNCHANGED tasks

Ended(m) == IF m.ok THEN "completed" ELSE "failed"

\* A mutant of Resume: an error ends the run.
ResumeOnSuccess(m) ==
  /\ m.request.kind = "transfer"
  /\ LET t == m.request.task IN
     \/ /\ m.ok
        /\ progress' = [progress EXCEPT ![t] = t]
        /\ Loop(tasks, [status EXCEPT ![t] = "completed"], waiting \ {t}, 1)
     \/ /\ ~m.ok
        /\ status' = [status EXCEPT ![t] = "failed"]
        /\ waiting' = waiting \ {t}
        /\ UNCHANGED << progress, commands, browserVars >>

\* The await is over: the result is written whatever became of the task in the
\* meantime, the browser is refreshed, and the loop goes on.
Resume(m) ==
  /\ m.request.kind = "transfer"
  /\ LET t == m.request.task IN
     /\ progress' = IF m.ok THEN [progress EXCEPT ![t] = t] ELSE progress
     /\ Loop(tasks, [status EXCEPT ![t] = Ended(m)], waiting \ {t}, 1)

\* A mutant of ShowProgress: the bytes go to the last task that has begun.
ShowProgressOfLast(m) ==
  /\ LET begun == DOMAIN tasks \ Places(tasks, status, "queued") IN
     progress' = IF begun = {} THEN progress
                 ELSE [progress EXCEPT ![tasks[Max(begun)]] = m.task]
  /\ UNCHANGED << status, waiting, commands, browserVars >>

\* The listener of progressStream gives the bytes to the first task in progress.
ShowProgress(m) ==
  /\ LET active == Places(tasks, status, "inProgress") IN
     progress' = IF active = {} THEN progress
                 ELSE [progress EXCEPT ![tasks[Min(active)]] = m.task]
  /\ UNCHANGED << status, waiting, commands, browserVars >>

-----------------------------------------------------------------------------
\* The event loop of the main isolate.
MainStep ==
  /\ inbox # << >>
  /\ LET m == Head(inbox) IN
     \/ m.kind = "progress" /\ ShowProgress(m)
     \/ m.kind = "response" /\ Resume(m)
     \/ /\ m.kind = "response"
        /\ \/ Listed(m) /\ ListStays(m)
           \/ Changed(m)
        /\ UNCHANGED << status, progress, waiting >>
  /\ inbox' = Tail(inbox)
  /\ UNCHANGED << tasks, relay, running, ticks, retries >>

UserStep ==
  \/ /\ \/ \E t \in Task : Enqueue(t) \/ CancelTask(t) \/ RetryTask(t)
        \/ ClearCompleted
     /\ UNCHANGED << relay, running, inbox, ticks >>
  \/ Browse /\ UNCHANGED queueVars

WorkerSteps == WorkerStep /\ UNCHANGED << queueVars, browserVars >>

RelayStep == ForwardProgress /\ UNCHANGED << queueVars, browserVars >>

CallbackStep == ProgressCallback /\ UNCHANGED << queueVars, browserVars >>

Next == MainStep \/ WorkerSteps \/ RelayStep \/ CallbackStep \/ UserStep

Spec == Init /\ [][Next]_vars

-----------------------------------------------------------------------------
(* What the queue promises. *)

\* The library has one connection and one transfer uses it at a time, however
\* often users enqueue, retry and cancel: all that is on its way to the worker,
\* in it or on its way back belongs to the one task _processQueue awaits.
OneTransferAtATime ==
  Cardinality(waiting) <= 1 /\ Outstanding("transfer") = Cardinality(waiting)

\* No wake-up is lost: while a task is queued some run of _processQueue is under
\* way that will look at the list again.  The flag is tested and reset in other
\* handlers than those that append to the list.
NoTaskForgotten ==
  (\E t \in Task : status[t] = "queued") => waiting # {}

\* What the list says of a task is what becomes of it: a task is shown in progress
\* only while its transfer is awaited, and the one that is awaited is shown in
\* progress or cancelled, so that no transfer runs behind a task that waits, has
\* ended or can be retried.  Cancel, retry and the loop write the same status.
StatusFollowsTransfer ==
  /\ \A t \in Task : status[t] = "inProgress" => t \in waiting
  /\ \A t \in waiting : status[t] \in {"inProgress", "cancelled"}

\* A completed task shows the bytes it has, whichever progress messages of it or
\* of others arrive after its response.
CompletedShowsItsOwn ==
  \A t \in Task : status[t] = "completed" => progress[t] = t

\* A task the user cancelled stays cancelled.
CancelIsFinal ==
  [][ \A t \in Task : status[t] = "cancelled" => status'[t] = "cancelled" ]_vars
=============================================================================
