---------------------------- MODULE SessionProofs ----------------------------
(***************************************************************************)
(* Proofs about the sessions of the desktop application: the transfer      *)
(* queue, the remote pane and the connection state, whatever the tasks,    *)
(* the names and the bounds are.                                           *)
(*                                                                         *)
(* DesktopInv says what may be on its way between the isolates, in which   *)
(* order, and what that means for the tasks, the pane and the connection.  *)
(***************************************************************************)
EXTENDS Session, FiniteSetTheorems, InductionLemmas

(* The messages. *)
TransferRequest == [kind : {"transfer"}, task : Task]
ListRequest == [kind : {"list"}, path : Path]
ChangeRequest == [kind : {"change"}, path : Seq(Name)]
OpeningRequest == [kind : {"list"}, path : {Root}, from : Screen]
SessionRequest == [kind : {"connect", "disconnect"}, from : Screen]

\* What the queue and the pane ask, and what the sessions ask.
Everyday == TransferRequest \union ListRequest \union ChangeRequest
Request == Everyday \union OpeningRequest \union SessionRequest

ProgressMessage == [kind : {"progress"}, task : Task]
ResponseMessage == [kind : {"response"}, request : Request, ok : BOOLEAN]
Message == ProgressMessage \union ResponseMessage

MessagesOK ==
  /\ commands \in Seq(Request)
  /\ relay \in Seq(ProgressMessage)
  /\ running = << >> \/ \E r \in TransferRequest : running = << r >>
  /\ inbox \in Seq(Message)
  /\ ticks \in Nat

(* The queue. *)
Distinct(list) == \A i, j \in DOMAIN list : list[i] = list[j] => i = j

\* A queue of the tasks in `list` with the statuses `now`, which show `bytes`.
Queue(list, now, bytes) ==
  /\ list \in Seq(Task) /\ Distinct(list)
  /\ now \in [Task -> Status]
  /\ bytes \in [Task -> Task \union {NoTask}]
  /\ \A i \in DOMAIN list : now[list[i]] # "absent"
  /\ \A t \in Task : now[t] = "queued" => \E i \in DOMAIN list : list[i] = t
  /\ \A t \in Task : now[t] = "completed" => bytes[t] = t

QueueOK ==
  /\ Queue(tasks, status, progress)
  /\ retries \in 0..MaxRetries /\ ticks \in 0..MaxTicks

\* Whatever is on its way is on its way for a task that is awaited.
TransfersAreAwaited ==
  /\ waiting = {} \/ \E t \in Task : waiting = {t}
  /\ \A n \in DOMAIN commands : commands[n].kind = "transfer" => commands[n].task \in waiting
  /\ \A n \in DOMAIN running : running[n].task \in waiting
  /\ \A n \in DOMAIN inbox :
       inbox[n].kind = "response" /\ inbox[n].request.kind = "transfer"
       => inbox[n].request.task \in waiting

(* The remote pane. *)
PaneOK ==
  /\ currentPath \in Path /\ listing \subseteq Path
  /\ listing = {} \/ \E p \in Path : listing = {p}
  /\ isLoading \in BOOLEAN /\ error \in BOOLEAN
  /\ dialog \in [stage : {"closed", "menu", "dialog"}, path : Seq(Name), mounted : BOOLEAN]
  /\ dialog.stage # "closed" => dialog.path # << >>
  /\ requests \in 0..MaxRequests
  /\ isLoading \/ error \/ listing = {} \/ listing = {currentPath}

(* The connection. *)
IsSession(r) == r.kind \in {"connect", "disconnect"}
IsOpening(r) == r.kind = "list" /\ "from" \in DOMAIN r

ConnectionOK ==
  /\ state \in {"DISCONNECTED", "CONNECTED_UNAUTHENTICATED", "AUTHENTICATED"}
  /\ connected \in BOOLEAN
  /\ submits \in 0..MaxSubmits

RoutesOK ==
  /\ screens \in Seq(Screen) /\ screens # << >>
  /\ shown \in Nat /\ popup \in BOOLEAN /\ popups \in Nat /\ left \in BOOLEAN

\* The answer to connect or disconnect that is applied last tells the state.
Decides(n) == inbox[n].kind = "response" /\ IsSession(inbox[n].request)
Grants(m) == m.request.kind = "connect" /\ m.ok

LastAnswerTells ==
  /\ connected /\ (\A n \in DOMAIN inbox : ~Decides(n)) => state = "AUTHENTICATED"
  /\ \A n \in DOMAIN inbox :
       /\ Decides(n) /\ \A k \in DOMAIN inbox : n < k => ~Decides(k)
       /\ Grants(inbox[n])
       => state = "AUTHENTICATED"

TransfersOK == TransfersAreAwaited /\ OneTransferAtATime

\* Statuses `now` that tell which tasks are awaited.
Follows(now, awaited) ==
  /\ \A t \in Task : now[t] = "inProgress" => t \in awaited
  /\ \A t \in awaited : now[t] \in {"inProgress", "cancelled"}

\* The requests that a screen awaits, from asking to the answer's turn, and the
\* last one of them that changes the connection.
Awaited == SessionRequest \union OpeningRequest
AnswersOf(r) == { m \in ResponseMessage : m.request = r }
SessionAnswer == { m \in ResponseMessage : m.request \in SessionRequest }

Has(s, S) == \E n \in DOMAIN s : s[n] \in S
EndsOn(s, X, S) ==
  \E n \in DOMAIN s : s[n] \in X /\ \A k \in DOMAIN s : n < k => s[k] \notin S

Pending(r) == Has(commands, {r}) \/ Has(inbox, AnswersOf(r))
LastAsked(r) ==
  \/ EndsOn(commands, {r}, SessionRequest)
  \/ ~Has(commands, SessionRequest) /\ EndsOn(inbox, AnswersOf(r), SessionAnswer)

\* A new screen has a number of its own, which no request carries.
NumbersOK ==
  /\ \A n \in DOMAIN screens : screens[n].number <= shown
  /\ \A r \in Awaited :
       Pending(r) => /\ r.from.number <= shown
                     /\ r.kind = "connect" => r.from.kind = "form"
                     /\ r.kind = "disconnect" => r.from.kind = "explorer"

HasExplorer == \E n \in DOMAIN screens : screens[n].kind = "explorer"
Covered == \E n \in DOMAIN screens : n < Len(screens) /\ screens[n].kind = "explorer"

\* When the last connect comes from a form that is gone there is an explorer, and
\* no disconnect takes it away.
ExplorerStays ==
  \A r \in SessionRequest :
    LastAsked(r) /\ r.kind = "connect" /\ ~left /\ ~Mounted(r.from)
    => /\ HasExplorer
       /\ \/ Covered
          \/ \A d \in SessionRequest : Pending(d) /\ d.kind = "disconnect" => ~Mounted(d.from)

\* A connection without an explorer awaits one, or its end.
ExplorerComes ==
  connected /\ ~left /\ ~HasExplorer
  => \E r \in Awaited : Pending(r) /\ (r \in SessionRequest \/ Mounted(r.from))

ExplorersOK == NumbersOK /\ ExplorerStays /\ ExplorerComes

SessionsOK == ConnectionOK /\ RoutesOK /\ LastAnswerTells /\ ExplorersOK

DesktopInv ==
  /\ MessagesOK /\ QueueOK /\ NoTaskForgotten /\ StatusFollowsTransfer /\ TransfersOK
  /\ PaneOK /\ SpinnerAwaitsListing
  /\ SessionsOK

-----------------------------------------------------------------------------
(* Sequences and counting. *)

LEMMA MinFacts ==
  ASSUME NEW T, T \subseteq Nat, T # {}
  PROVE  Min(T) \in T /\ \A m \in T : Min(T) <= m
BY LeastNumber DEF Min

Hits(s, S) == { n \in DOMAIN s : s[n] \in S }
Count(s, S) == Cardinality(Hits(s, S))
One(x, S) == IF x \in S THEN 1 ELSE 0

LEMMA HitsFinite ==
  ASSUME NEW U, NEW s \in Seq(U), NEW S
  PROVE  /\ IsFiniteSet(Hits(s, S)) /\ Count(s, S) \in Nat
         /\ Count(s, S) > 0 <=> \E n \in 1..Len(s) : s[n] \in S
<1>1. IsFiniteSet(1..Len(s))
  BY FS_Interval
<1>2. Hits(s, S) \in SUBSET (1..Len(s))
  BY DEF Hits
<1>3. IsFiniteSet(Hits(s, S))
  BY <1>1, <1>2, FS_Subset
<1>4. Count(s, S) \in Nat /\ (Count(s, S) = 0 <=> Hits(s, S) = {})
  BY <1>3, FS_CardinalityType, FS_EmptySet DEF Count
<1> QED
  BY <1>3, <1>4 DEF Hits

LEMMA HitsInNat ==
  ASSUME NEW U, NEW s \in Seq(U), NEW S
  PROVE  Hits(s, S) \in SUBSET Nat
BY DEF Hits

LEMMA CountEmpty == \A S : Count(<< >>, S) = 0
<1>1. \A S : Hits(<< >>, S) = {}
  BY DEF Hits
<1> QED
  BY <1>1, FS_EmptySet DEF Count

LEMMA CountOne ==
  ASSUME NEW x, NEW S
  PROVE  Count(<< x >>, S) = One(x, S)
<1>1. CASE x \in S
  <2>1. Hits(<< x >>, S) = {1}
    BY <1>1 DEF Hits
  <2> QED
    BY <2>1, <1>1, FS_Singleton DEF Count, One
<1>2. CASE x \notin S
  <2>1. Hits(<< x >>, S) = {}
    BY <1>2 DEF Hits
  <2> QED
    BY <2>1, <1>2, FS_EmptySet DEF Count, One
<1> QED
  BY <1>1, <1>2

LEMMA CountAppend ==
  ASSUME NEW U, NEW s \in Seq(U), NEW x \in U, NEW S
  PROVE  Count(Append(s, x), S) = Count(s, S) + One(x, S)
<1>1. IsFiniteSet(Hits(s, S)) /\ Count(s, S) \in Nat
  BY HitsFinite
<1>2. CASE x \in S
  <2>1. Hits(Append(s, x), S) = Hits(s, S) \union {Len(s) + 1}
    BY <1>2 DEF Hits
  <2>2. Len(s) + 1 \notin Hits(s, S)
    BY DEF Hits
  <2> QED
    BY <1>1, <1>2, <2>1, <2>2, FS_AddElement DEF Count, One
<1>3. CASE x \notin S
  <2>1. Hits(Append(s, x), S) = Hits(s, S)
    BY <1>3 DEF Hits
  <2> QED
    BY <1>1, <1>3, <2>1 DEF Count, One
<1> QED
  BY <1>2, <1>3

LEMMA AppendConcat ==
  ASSUME NEW U, NEW s \in Seq(U), NEW t \in Seq(U), NEW x \in U
  PROVE  Append(s \o t, x) = s \o Append(t, x)
<1>1. PICK a : a = Append(s \o t, x)
  OBVIOUS
<1>2. PICK b : b = s \o Append(t, x)
  OBVIOUS
<1>3. a \in Seq(U) /\ b \in Seq(U) /\ Len(a) = Len(s) + Len(t) + 1 /\ Len(b) = Len(s) + Len(t) + 1
  BY <1>1, <1>2
<1>4. ASSUME NEW n \in 1..(Len(s) + Len(t) + 1) PROVE a[n] = b[n]
  <2>1. CASE n <= Len(s)
    BY <1>1, <1>2, <2>1
  <2>2. CASE n > Len(s) /\ n <= Len(s) + Len(t)
    <3>1. a[n] = (s \o t)[n] /\ (s \o t)[n] = t[n - Len(s)]
      BY <1>1, <2>2
    <3>2. b[n] = Append(t, x)[n - Len(s)]
      BY <1>2, <2>2
    <3> QED
      BY <3>1, <3>2, <2>2
  <2>3. CASE n = Len(s) + Len(t) + 1
    <3>1. Len(s \o t) = Len(s) + Len(t) /\ s \o t \in Seq(U)
      OBVIOUS
    <3>2. a[n] = x
      BY <1>1, <2>3, <3>1
    <3>3. b[n] = Append(t, x)[Len(t) + 1]
      BY <1>2, <2>3
    <3> QED
      BY <3>2, <3>3
  <2> QED
    BY <2>1, <2>2, <2>3
<1>5. a = b
  BY <1>3, <1>4
<1> QED
  BY <1>1, <1>2, <1>5

\* The places of a sequence, moved by k.
Moved(T, k) == { n + k : n \in T }

LEMMA MovedCount ==
  ASSUME NEW T \in SUBSET Nat, IsFiniteSet(T), NEW k \in Nat
  PROVE  IsFiniteSet(Moved(T, k)) /\ Cardinality(Moved(T, k)) = Cardinality(T)
<1> DEFINE f == [n \in T |-> n + k]
<1>1. f \in [T -> Moved(T, k)]
  BY DEF Moved
<1>2. \A a, b \in T : f[a] = f[b] => a = b
  OBVIOUS
<1>3. \A y \in Moved(T, k) : \E x \in T : f[x] = y
  BY DEF Moved
<1> HIDE DEF f
<1>4. f \in Bijection(T, Moved(T, k))
  <2>1. f \in Injection(T, Moved(T, k))
    BY <1>1, <1>2 DEF Injection, IsInjective
  <2>2. f \in Surjection(T, Moved(T, k))
    BY <1>1, <1>3 DEF Surjection
  <2> QED
    BY <2>1, <2>2 DEF Bijection
<1>5. ExistsBijection(T, Moved(T, k))
  BY <1>4 DEF ExistsBijection
<1> QED
  BY <1>5, FS_Bijection

LEMMA CountTail ==
  ASSUME NEW U, NEW s \in Seq(U), s # << >>, NEW S
  PROVE  Count(s, S) = Count(Tail(s), S) + One(Head(s), S)
<1>1. IsFiniteSet(Hits(Tail(s), S)) /\ Count(Tail(s), S) \in Nat /\ Hits(Tail(s), S) \in SUBSET Nat
  <2>1. Tail(s) \in Seq(U)
    OBVIOUS
  <2> QED
    BY <2>1, HitsFinite, HitsInNat
<1> DEFINE M == Moved(Hits(Tail(s), S), 1)
<1>2. IsFiniteSet(M) /\ Cardinality(M) = Count(Tail(s), S)
  BY <1>1, MovedCount DEF Count
<1>3. 1 \notin M
  BY DEF Moved, Hits
<1>4. ASSUME NEW n \in Nat PROVE n \in M <=> n \in Hits(s, S) /\ n # 1
  <2>1. n \in M <=> n > 0 /\ n - 1 \in Hits(Tail(s), S)
    BY <1>1 DEF Moved
  <2>2. n > 1 /\ n <= Len(s) => Tail(s)[n - 1] = s[n]
    OBVIOUS
  <2>3. n > 0 => (n - 1 \in DOMAIN Tail(s) <=> n \in DOMAIN s /\ n # 1)
    OBVIOUS
  <2>4. n > 0 => (n - 1 \in Hits(Tail(s), S) <=> n - 1 \in DOMAIN Tail(s) /\ Tail(s)[n - 1] \in S)
    BY DEF Hits
  <2>5. n \in Hits(s, S) <=> n \in DOMAIN s /\ s[n] \in S
    BY DEF Hits
  <2>6. n \in DOMAIN s <=> n > 0 /\ n <= Len(s)
    OBVIOUS
  <2> QED
    BY <2>1, <2>2, <2>3, <2>4, <2>5, <2>6
<1>5. M \subseteq Nat /\ Hits(s, S) \subseteq Nat
  BY <1>1 DEF Moved, Hits
<1>6. 1 \in Hits(s, S) <=> Head(s) \in S
  BY DEF Hits
<1>7. CASE Head(s) \in S
  <2>1. Hits(s, S) = M \union {1}
    BY <1>4, <1>5, <1>6, <1>7
  <2> QED
    <3>1. Cardinality(M \union {1}) = Cardinality(M) + 1
      BY <1>2, <1>3, FS_AddElement
    <3> QED
      BY <1>1, <1>2, <1>7, <2>1, <3>1 DEF Count, One
<1>8. CASE Head(s) \notin S
  <2>1. Hits(s, S) = M
    BY <1>4, <1>5, <1>6, <1>8
  <2> QED
    BY <1>1, <1>2, <1>8, <2>1 DEF Count, One
<1> QED
  BY <1>7, <1>8

LEMMA CountConcat ==
  ASSUME NEW U, NEW s \in Seq(U), NEW t \in Seq(U), NEW S
  PROVE  Count(s \o t, S) = Count(s, S) + Count(t, S)
<1>1. /\ IsFiniteSet(Hits(s, S)) /\ Count(s, S) \in Nat /\ Hits(s, S) \in SUBSET Nat
      /\ IsFiniteSet(Hits(t, S)) /\ Count(t, S) \in Nat /\ Hits(t, S) \in SUBSET Nat
  BY HitsFinite, HitsInNat
<1> DEFINE M == Moved(Hits(t, S), Len(s))
<1>2. IsFiniteSet(M) /\ Cardinality(M) = Count(t, S)
  BY <1>1, MovedCount DEF Count
<1>3. Hits(s, S) \cap M = {}
  BY <1>1 DEF Moved, Hits
<1>4. ASSUME NEW n \in Nat PROVE n \in Hits(s \o t, S) <=> n \in Hits(s, S) \/ n \in M
  <2>1. n \in M <=> n - Len(s) \in Hits(t, S)
    BY <1>1 DEF Moved
  <2>2. CASE n > Len(s)
    <3>1. n <= Len(s) + Len(t) => (s \o t)[n] = t[n - Len(s)]
      BY <2>2
    <3> QED
      BY <2>1, <2>2, <3>1 DEF Hits
  <2>3. CASE n <= Len(s)
    <3>1. n > 0 => (s \o t)[n] = s[n]
      BY <2>3
    <3>2. n \notin M
      BY <2>1, <2>3 DEF Hits
    <3> QED
      BY <2>3, <3>1, <3>2 DEF Hits
  <2> QED
    BY <2>2, <2>3
<1>5. Hits(s \o t, S) = Hits(s, S) \union M
  <2>1. Hits(s \o t, S) \subseteq Nat /\ M \subseteq Nat
    BY <1>1 DEF Hits, Moved
  <2> QED
    BY <1>1, <1>4, <2>1
<1>6. Cardinality(Hits(s, S) \cap M) = 0
  BY <1>3, FS_EmptySet
<1>7. Cardinality(Hits(s, S) \union M)
        = Cardinality(Hits(s, S)) + Cardinality(M) - Cardinality(Hits(s, S) \cap M)
  BY <1>1, <1>2, FS_Union
<1> QED
  BY <1>1, <1>2, <1>5, <1>6, <1>7 DEF Count

-----------------------------------------------------------------------------
(* The messages. *)

LEMMA PathFacts ==
  /\ Path = { p \in Seq(Name) : Len(p) <= MaxDepth }
  /\ Root \in Path
<1>1. ASSUME NEW p \in Path PROVE p \in Seq(Name) /\ Len(p) <= MaxDepth
  <2>1. PICK m \in 0..MaxDepth : p \in [1..m -> Name]
    BY DEF Path, SeqOf
  <2>2. m \in Nat /\ m <= MaxDepth
    BY BrowserAssumption
  <2>3. p \in Seq(Name) /\ Len(p) = m
    BY <2>1, <2>2
  <2> QED
    BY <2>2, <2>3
<1>2. ASSUME NEW p \in Seq(Name), Len(p) <= MaxDepth PROVE p \in Path
  <2>1. PICK m \in Nat : m = Len(p)
    OBVIOUS
  <2>2. m \in 0..MaxDepth /\ p \in [1..m -> Name]
    BY <1>2, <2>1, BrowserAssumption
  <2> QED
    BY <2>2 DEF Path, SeqOf
<1>3. Root \in Seq(Name) /\ Len(Root) <= MaxDepth
  BY BrowserAssumption DEF Root
<1> QED
  BY <1>1, <1>2, <1>3

LEMMA RequestFacts ==
  ASSUME NEW r \in Request
  PROVE  /\ r.kind \in {"transfer", "list", "change", "connect", "disconnect"}
         /\ r.kind = "transfer" => r \in TransferRequest /\ r.task \in Task
         /\ r.kind = "list" => r.path \in Path
         /\ IsSession(r) \/ IsOpening(r) => r.from \in Screen /\ r \notin Everyday
         /\ "from" \in DOMAIN r => IsSession(r) \/ IsOpening(r)
         /\ IsSession(r) \/ IsOpening(r) => "from" \in DOMAIN r
         /\ r \in Everyday \/ IsSession(r) \/ IsOpening(r)
<1>1. CASE r \in TransferRequest
  BY <1>1 DEF TransferRequest, IsSession, IsOpening, Everyday
<1>2. CASE r \in ListRequest
  BY <1>2 DEF ListRequest, IsSession, IsOpening, Everyday
<1>3. CASE r \in ChangeRequest
  BY <1>3 DEF ChangeRequest, IsSession, IsOpening, Everyday
<1>4. CASE r \in OpeningRequest
  <2>1. r \notin Everyday
    BY <1>4 DEF OpeningRequest, Everyday, TransferRequest, ListRequest, ChangeRequest
  <2> QED
    BY <1>4, <2>1, PathFacts DEF OpeningRequest, IsSession, IsOpening
<1>5. CASE r \in SessionRequest
  <2>1. r \notin Everyday
    BY <1>5 DEF SessionRequest, Everyday, TransferRequest, ListRequest, ChangeRequest
  <2> QED
    BY <1>5, <2>1 DEF SessionRequest, IsSession, IsOpening
<1> QED
  BY <1>1, <1>2, <1>3, <1>4, <1>5 DEF Request, Everyday

LEMMA Requests ==
  /\ \A t \in Task : /\ Transfer(t) \in Everyday /\ Transfer(t) \in TransferRequest
                     /\ Transfer(t).kind = "transfer" /\ Transfer(t).task = t
  /\ \A p \in Path : List(p) \in Everyday /\ List(p).kind = "list" /\ List(p).path = p
  /\ \A p \in Seq(Name) : Change(p) \in Everyday /\ Change(p).kind = "change"
  /\ \A f \in Screen : LET o == Opening(f) IN
                       o \in Request /\ o.kind = "list" /\ IsOpening(o)
  /\ Top \in Screen =>
       /\ Connect \in Request /\ Connect.kind = "connect"
       /\ Disconnect \in Request /\ Disconnect.kind = "disconnect"
  /\ Everyday \subseteq Request
<1>1. \A t \in Task : Transfer(t) \in TransferRequest
  BY DEF TransferRequest, Transfer
<1>2. \A p \in Path : List(p) \in ListRequest
  BY DEF ListRequest, List
<1>3. \A p \in Seq(Name) : Change(p) \in ChangeRequest
  BY DEF ChangeRequest, Change
<1>4. \A f \in Screen : Opening(f) \in OpeningRequest /\ IsOpening(Opening(f))
  BY DEF OpeningRequest, Opening, IsOpening
<1>5. Top \in Screen => Connect \in SessionRequest /\ Disconnect \in SessionRequest
  BY DEF SessionRequest, Connect, Disconnect
<1>6. /\ \A t : Transfer(t).kind = "transfer" /\ Transfer(t).task = t
      /\ \A p : List(p).kind = "list" /\ List(p).path = p
      /\ \A p : Change(p).kind = "change"
      /\ \A f : Opening(f).kind = "list"
      /\ Connect.kind = "connect" /\ Disconnect.kind = "disconnect"
  BY DEF Transfer, List, Change, Opening, Connect, Disconnect
<1> QED
  BY <1>1, <1>2, <1>3, <1>4, <1>5, <1>6 DEF Request, Everyday

LEMMA MessageFacts ==
  ASSUME NEW m \in Message
  PROVE  /\ m.kind \in {"progress", "response"}
         /\ m.kind = "progress" => m \in ProgressMessage /\ m.task \in Task
         /\ m.kind = "response" => m \in ResponseMessage /\ m.request \in Request /\ m.ok \in BOOLEAN
BY DEF Message, ProgressMessage, ResponseMessage

LEMMA Messages ==
  /\ \A t \in Task : Progress(t) \in ProgressMessage /\ Progress(t).kind = "progress"
  /\ ProgressMessage \subseteq Message /\ ResponseMessage \subseteq Message
  /\ \A r \in Request, ok \in BOOLEAN :
       LET m == Response(r, ok) IN
       m \in ResponseMessage /\ m.kind = "response" /\ m.request = r /\ m.ok = ok
BY DEF Message, ProgressMessage, ResponseMessage, Progress, Response

-----------------------------------------------------------------------------
(* The list of tasks. *)

Over(t) == status[t] \in {"completed", "cancelled"}

\* f is what the recursion of Unfinished defines, up to the n-th task.
IsKept(list, f, n) ==
  f = [m \in 0..n |-> IF m = 0 THEN << >>
                      ELSE IF status[list[m]] \in {"completed", "cancelled"} THEN f[m - 1]
                      ELSE Append(f[m - 1], list[m])]

\* kept is what is left of the first n tasks.
Keeps(list, kept, n) ==
  /\ kept \in Seq(Task) /\ Distinct(kept)
  /\ \A i \in DOMAIN kept : \E j \in 1..n : kept[i] = list[j]
  /\ \A j \in 1..n : ~Over(list[j]) => \E i \in DOMAIN kept : kept[i] = list[j]

LEMMA KeptExists ==
  ASSUME NEW list \in Seq(Task)
  PROVE  \E f : IsKept(list, f, Len(list))
<1> DEFINE Bad == { n \in 0..Len(list) : ~ \E f : IsKept(list, f, n) }
<1>1. SUFFICES Bad = {}
  OBVIOUS
<1>2. ASSUME Bad # {} PROVE FALSE
  <2>1. Bad \subseteq Nat
    OBVIOUS
  <2>2. PICK n \in Bad : \A m \in Bad : n <= m
    BY <1>2, <2>1, LeastNumber
  <2>3. n \in Nat /\ n <= Len(list)
    OBVIOUS
  <2>4. CASE n = 0
    <3> DEFINE g == [m \in 0..0 |-> << >>]
    <3>1. IsKept(list, g, 0)
      BY DEF IsKept
    <3> QED
      BY <2>4, <3>1
  <2>5. CASE n # 0
    <3>1. n - 1 \in 0..Len(list) /\ n - 1 \notin Bad
      BY <2>2, <2>3, <2>5
    <3>2. PICK f : IsKept(list, f, n - 1)
      BY <3>1
    <3> DEFINE last == IF status[list[n]] \in {"completed", "cancelled"} THEN f[n - 1]
                       ELSE Append(f[n - 1], list[n])
    <3> DEFINE g == [m \in 0..n |-> IF m = n THEN last ELSE f[m]]
    <3>3. \A m \in 0..(n - 1) :
            f[m] = IF m = 0 THEN << >>
                   ELSE IF status[list[m]] \in {"completed", "cancelled"} THEN f[m - 1]
                   ELSE Append(f[m - 1], list[m])
      BY <3>2, Zenon DEF IsKept
    <3>4. \A m \in 0..(n - 1) : m \in 0..n /\ m # n /\ g[m] = f[m]
      BY <2>3, <2>5
    <3>5. g[n] = last
      BY <2>3
    <3>6. \A m \in 0..n :
            g[m] = IF m = 0 THEN << >>
                   ELSE IF status[list[m]] \in {"completed", "cancelled"} THEN g[m - 1]
                   ELSE Append(g[m - 1], list[m])
      <4> HIDE DEF g
      <4>1. TAKE m \in 0..n
      <4>2. CASE m = n
        <5>1. n - 1 \in 0..(n - 1)
          BY <2>3, <2>5
        <5> QED
          BY <4>2, <3>4, <3>5, <5>1, <2>5
      <4>3. CASE m # n /\ m # 0
        <5>1. m \in 0..(n - 1) /\ m - 1 \in 0..(n - 1)
          BY <2>3, <4>3
        <5> QED
          BY <4>3, <3>3, <3>4, <5>1
      <4>4. CASE m = 0
        <5>1. 0 \in 0..(n - 1)
          BY <2>3, <2>5
        <5> QED
          BY <4>4, <3>3, <3>4, <5>1
      <4> QED
        BY <4>2, <4>3, <4>4
    <3>7. IsKept(list, g, n)
      <4>1. g = [m \in 0..n |-> g[m]]
        OBVIOUS
      <4> HIDE DEF g
      <4> QED
        BY <3>6, <4>1 DEF IsKept
    <3> QED
      BY <3>7
  <2> QED
    BY <2>4, <2>5
<1> QED
  BY <1>2

LEMMA UnfinishedKeeps ==
  ASSUME NEW list \in Seq(Task), Distinct(list)
  PROVE  Keeps(list, Unfinished(list), Len(list))
<1>1. PICK f : IsKept(list, f, Len(list)) /\ Unfinished(list) = f[Len(list)]
  <2> DEFINE k == CHOOSE f : IsKept(list, f, Len(list))
  <2>1. IsKept(list, k, Len(list))
    BY KeptExists
  <2>2. Unfinished(list) = k[Len(list)]
    BY Zenon DEF Unfinished, IsKept
  <2> QED
    BY <2>1, <2>2
<1> DEFINE Bad == { n \in 0..Len(list) : ~Keeps(list, f[n], n) }
<1>2. ASSUME Bad # {} PROVE FALSE
  <2>1. Bad \subseteq Nat
    OBVIOUS
  <2>2. PICK n \in Bad : \A m \in Bad : n <= m
    BY <1>2, <2>1, LeastNumber
  <2>3. n \in Nat /\ n <= Len(list)
    OBVIOUS
  <2>4. \A m \in 0..Len(list) :
            f[m] = IF m = 0 THEN << >>
                   ELSE IF status[list[m]] \in {"completed", "cancelled"} THEN f[m - 1]
                   ELSE Append(f[m - 1], list[m])
    BY <1>1, Zenon DEF IsKept
  <2>5. CASE n = 0
    <3>1. f[n] = << >>
      BY <2>4, <2>5
    <3> QED
      <4>1. << >> \in Seq(Task) /\ DOMAIN << >> = {} /\ 1..0 = {}
        OBVIOUS
      <4>2. Keeps(list, << >>, 0)
        BY <4>1 DEF Keeps, Distinct
      <4> QED
        BY <3>1, <2>5, <4>2
  <2>6. CASE n # 0
    <3>1. n - 1 \in 0..Len(list) /\ n - 1 \notin Bad
      BY <2>2, <2>3, <2>6
    <3>2. PICK u : u = f[n - 1]
      OBVIOUS
    <3>3. Keeps(list, u, n - 1)
      BY <3>1, <3>2
    <3>4. list[n] \in Task /\ n \in DOMAIN list
      BY <2>3, <2>6
    <3>5. CASE Over(list[n])
      <4>1. f[n] = u
        BY <2>4, <2>6, <3>2, <3>5 DEF Over
      <4> QED
        BY <2>3, <2>6, <3>3, <3>5, <4>1 DEF Keeps
    <3>6. CASE ~Over(list[n])
      <4>1. f[n] = Append(u, list[n])
        BY <2>4, <2>6, <3>2, <3>6 DEF Over
      <4>2. u \in Seq(Task)
        BY <3>3 DEF Keeps
      <4>3. PICK v : v = Append(u, list[n])
        OBVIOUS
      <4>4. v \in Seq(Task) /\ DOMAIN v = 1..(Len(u) + 1) /\ v[Len(u) + 1] = list[n]
            /\ DOMAIN u = 1..Len(u) /\ \A i \in 1..Len(u) : v[i] = u[i]
        BY <3>4, <4>2, <4>3
      <4>5. \A i \in DOMAIN u : u[i] # list[n]
        BY <3>3, <3>4, <2>3, <2>6 DEF Keeps, Distinct
      <4>6. Distinct(v)
        BY <3>3, <4>2, <4>4, <4>5 DEF Keeps, Distinct
      <4>7. \A i \in DOMAIN v : \E j \in 1..n : v[i] = list[j]
        BY <3>3, <4>2, <4>4, <2>3, <2>6 DEF Keeps
      <4>8. \A j \in 1..n : ~Over(list[j]) => \E i \in DOMAIN v : v[i] = list[j]
        <5> TAKE j \in 1..n
        <5>1. CASE j = n
          BY <4>2, <4>4, <5>1
        <5>2. CASE j # n
          <6>1. j \in 1..(n - 1)
            BY <5>2, <2>3
          <6> QED
            BY <3>3, <4>2, <4>4, <6>1 DEF Keeps
        <5> QED
          BY <5>1, <5>2
      <4> QED
        <5>1. Keeps(list, v, n)
          BY <4>4, <4>6, <4>7, <4>8 DEF Keeps
        <5> QED
          BY <4>1, <4>3, <5>1
    <3> QED
      BY <3>5, <3>6
  <2> QED
    BY <2>5, <2>6
<1>3. Len(list) \in 0..Len(list)
  OBVIOUS
<1> QED
  BY <1>1, <1>2, <1>3

-----------------------------------------------------------------------------
(* What a part of _processQueue does. *)

Refreshed(r) ==
  \/ r = << >> /\ UNCHANGED browserVars
  \/ r # << >> /\ StartLoading(currentPath) /\ UNCHANGED requests

\* Nothing is left to do, or one task is awaited.
Turn(r, new, others) ==
  \/ /\ new = r /\ waiting' = others
     /\ \A t \in Task : status'[t] # "queued"
  \/ \E t \in Task : new = Append(r, Transfer(t)) /\ waiting' = others \union {t}

LoopDoes(now, others) ==
  /\ status' \in [Task -> Status]
  /\ \A t \in Task :
       status'[t] # now[t] => now[t] = "queued" /\ status'[t] \in {"failed", "inProgress"}
  /\ \/ waiting' = others /\ \A t \in Task : status'[t] \in {now[t], "failed"}
     \/ \E t \in Task :
          /\ waiting' = others \union {t} /\ status'[t] = "inProgress"
          /\ \A u \in Task : u # t => status'[u] \in {now[u], "failed"}
  /\ \E r \in Seq({List(currentPath)}), new \in Seq(Everyday) :
       commands' = commands \o new /\ Turn(r, new, others) /\ Refreshed(r)

LEMMA LoopEffect ==
  ASSUME commands \in Seq(Request), currentPath \in Path,
         NEW list \in Seq(Task), NEW now \in [Task -> Status], NEW others, NEW ended \in {0, 1},
         \A t \in Task : now[t] = "queued" => \E i \in DOMAIN list : list[i] = t,
         Loop(list, now, others, ended)
  PROVE  LoopDoes(now, others)
<1> DEFINE queued == Places(list, now, "queued")
<1> DEFINE After(failed) ==
             [t \in Task |-> IF \E i \in failed : list[i] = t THEN "failed" ELSE now[t]]
<1> DEFINE Refreshes(failed) == [m \in 1..(ended + Cardinality(failed)) |-> List(currentPath)]
<1>1. PICK failed \in SUBSET queued :
        /\ IF Refreshes(failed) = << >> THEN UNCHANGED browserVars
           ELSE StartLoading(currentPath) /\ UNCHANGED requests
        /\ \/ /\ queued \ failed = {}
              /\ status' = After(failed)
              /\ waiting' = others
              /\ commands' = commands \o Refreshes(failed)
           \/ /\ queued \ failed # {}
              /\ status' = [After(failed) EXCEPT ![list[Min(queued \ failed)]] = "inProgress"]
              /\ waiting' = others \union {list[Min(queued \ failed)]}
              /\ commands' = Append(commands \o Refreshes(failed), Transfer(list[Min(queued \ failed)]))
  BY Zenon DEF Loop
<1> DEFINE r == Refreshes(failed)
<1>2. queued \subseteq Nat /\ queued \subseteq DOMAIN list /\ \A i \in queued : now[list[i]] = "queued"
  BY DEF Places
<1>3. r \in Seq({List(currentPath)}) /\ r \in Seq(Everyday)
  <2>1. IsFiniteSet(1..Len(list)) /\ failed \in SUBSET (1..Len(list))
    <3>1. DOMAIN list = 1..Len(list) /\ Len(list) \in Nat
      OBVIOUS
    <3>2. IsFiniteSet(1..Len(list))
      BY <3>1, FS_Interval
    <3> QED
      BY <1>2, <3>1, <3>2
  <2>2. Cardinality(failed) \in Nat
    BY <2>1, FS_Subset, FS_CardinalityType
  <2>3. List(currentPath) \in Everyday
    BY Requests
  <2>4. PICK k \in Nat : k = ended + Cardinality(failed)
    BY <2>2
  <2> PICK x : x = List(currentPath)
    OBVIOUS
  <2>5. r = [m \in 1..k |-> x]
    BY <2>4
  <2>6. [m \in 1..k |-> x] \in Seq({x}) /\ (x \in Everyday => [m \in 1..k |-> x] \in Seq(Everyday))
    OBVIOUS
  <2> QED
    BY <2>3, <2>4, <2>5, <2>6
<1>4. Refreshed(r)
  BY <1>1, Zenon DEF Refreshed
<1>5. /\ After(failed) \in [Task -> Status]
      /\ \A t \in Task :
           After(failed)[t] # now[t] => now[t] = "queued" /\ After(failed)[t] = "failed"
  <2>1. "failed" \in Status
    BY DEF Status
  <2> QED
    BY <1>2, <2>1
<1>6. CASE queued \ failed = {}
  <2>1. status' = After(failed) /\ waiting' = others /\ commands' = commands \o r
    BY <1>1, <1>6
  <2>2. \A t \in Task : After(failed)[t] # "queued"
    <3> SUFFICES ASSUME NEW t \in Task, now[t] = "queued" PROVE \E i \in failed : list[i] = t
      OBVIOUS
    <3>1. PICK i \in DOMAIN list : list[i] = t
      OBVIOUS
    <3> QED
      BY <3>1, <1>6 DEF Places
  <2>3. Turn(r, r, others)
    BY <2>1, <2>2, Zenon DEF Turn
  <2> HIDE DEF r, After
  <2>4. \A t \in Task : status'[t] \in {now[t], "failed"}
    BY <2>1, <1>5
  <2> QED
    BY <2>1, <2>3, <2>4, <1>3, <1>4, <1>5 DEF LoopDoes
<1>7. CASE queued \ failed # {}
  <2>1. PICK i \in queued \ failed : i = Min(queued \ failed)
    BY <1>2, <1>7, MinFacts
  <2>2. PICK t \in Task : t = list[i] /\ now[t] = "queued"
    BY <1>2
  <2>3. /\ status' = [After(failed) EXCEPT ![t] = "inProgress"]
        /\ waiting' = others \union {t}
        /\ commands' = Append(commands \o r, Transfer(t))
    BY <1>1, <1>7, <2>1, <2>2
  <2>4. Append(commands \o r, Transfer(t)) = commands \o Append(r, Transfer(t))
        /\ Append(r, Transfer(t)) \in Seq(Everyday)
    <3>1. Transfer(t) \in Everyday /\ Everyday \subseteq Request
      BY Requests
    <3> HIDE DEF r
    <3>3. r \in Seq(Request) /\ Transfer(t) \in Request
      BY <3>1, <1>3
    <3>4. Append(commands \o r, Transfer(t)) = commands \o Append(r, Transfer(t))
      BY <3>3, AppendConcat
    <3>5. Append(r, Transfer(t)) \in Seq(Everyday)
      BY <3>1, <1>3
    <3> QED
      BY <3>4, <3>5
  <2>5. Turn(r, Append(r, Transfer(t)), others)
    BY <2>3, Zenon DEF Turn
  <2>6. "inProgress" \in Status
    BY DEF Status
  <2> HIDE DEF r, After
  <2>7. status' \in [Task -> Status]
        /\ \A u \in Task :
             status'[u] # now[u] => now[u] = "queued" /\ status'[u] \in {"failed", "inProgress"}
    BY <2>2, <2>3, <2>6, <1>5
  <2>8. /\ waiting' = others \union {t} /\ status'[t] = "inProgress"
        /\ \A u \in Task : u # t => status'[u] \in {now[u], "failed"}
    BY <2>3, <1>5
  <2> QED
    BY <2>3, <2>4, <2>5, <2>7, <2>8, <1>3, <1>4 DEF LoopDoes
<1> QED
  BY <1>6, <1>7

-----------------------------------------------------------------------------
(* How messages move. *)

\* The main isolate asks for new requests, in a handler of the user's input or of
\* the first message of its FIFO.
Sends(new) ==
  commands' = commands \o new /\ UNCHANGED << relay, running, inbox, ticks >>
Handles(new) ==
  /\ inbox # << >> /\ inbox' = Tail(inbox)
  /\ commands' = commands \o new /\ UNCHANGED << relay, running, ticks >>

\* The worker answers a request that is no transfer.
Answers(ok) ==
  /\ commands # << >> /\ Head(commands).kind # "transfer"
  /\ inbox' = Append(inbox, Response(Head(commands), ok)) /\ commands' = Tail(commands)
  /\ UNCHANGED << relay, running, ticks >>

\* The others take a transfer to the worker and back, and progress to the inbox.
Carries == StartTransfer \/ TransferReturns \/ ForwardProgress \/ ProgressCallback

\* The messages keep their types.
LEMMA SendsTyped ==
  ASSUME MessagesOK, NEW new \in Seq(Request), Sends(new) \/ Handles(new)
  PROVE  MessagesOK'
<1>1. commands' \in Seq(Request)
  <2>1. commands' = commands \o new
    BY DEF Sends, Handles
  <2> QED
    BY <2>1 DEF MessagesOK
<1>2. inbox' \in Seq(Message)
  <2>1. inbox' = inbox \/ (inbox # << >> /\ inbox' = Tail(inbox))
    BY DEF Sends, Handles
  <2>2. inbox \in Seq(Message)
    BY DEF MessagesOK
  <2>3. inbox # << >> => Tail(inbox) \in Seq(Message)
    BY <2>2
  <2> QED
    BY <2>1, <2>2, <2>3
<1> QED
  BY <1>1, <1>2 DEF MessagesOK, Sends, Handles

LEMMA AnswersTyped ==
  ASSUME MessagesOK, NEW ok \in BOOLEAN, Answers(ok)
  PROVE  /\ MessagesOK' /\ Head(commands) \in Request
         /\ Response(Head(commands), ok) \in ResponseMessage
<1>1. Head(commands) \in Request /\ commands' \in Seq(Request)
  BY DEF MessagesOK, Answers
<1>2. Response(Head(commands), ok) \in ResponseMessage /\ ResponseMessage \subseteq Message
  BY <1>1, Messages
<1>3. inbox' \in Seq(Message)
  BY <1>2 DEF MessagesOK, Answers
<1> QED
  BY <1>1, <1>2, <1>3 DEF MessagesOK, Answers

LEMMA RunningTyped ==
  ASSUME MessagesOK, running # << >>
  PROVE  /\ running[1] \in TransferRequest /\ running = << running[1] >>
         /\ running[1] \in Request /\ running[1].task \in Task
         /\ running[1].kind = "transfer"
<1>1. PICK r \in TransferRequest : running = << r >>
  BY DEF MessagesOK
<1>2. r \in Request /\ r.task \in Task /\ r.kind = "transfer"
  BY DEF Request, Everyday, TransferRequest
<1> QED
  BY <1>1, <1>2

LEMMA CarriesTyped ==
  ASSUME MessagesOK, Carries
  PROVE  MessagesOK'
<1>1. CASE StartTransfer
  <2>1. Head(commands) \in Request /\ Head(commands).kind = "transfer" /\ commands' \in Seq(Request)
    BY <1>1 DEF MessagesOK, StartTransfer, NextIs
  <2>2. Head(commands) \in TransferRequest
    BY <2>1, RequestFacts
  <2> QED
    BY <1>1, <2>1, <2>2 DEF MessagesOK, StartTransfer
<1>2. CASE TransferReturns
  <2>1. running[1] \in Request
    BY <1>2, RunningTyped DEF TransferReturns
  <2>2. PICK ok \in BOOLEAN : inbox' = Append(inbox, Response(running[1], ok))
    BY <1>2 DEF TransferReturns
  <2>3. Response(running[1], ok) \in Message
    BY <2>1, Messages
  <2>4. inbox' \in Seq(Message)
    BY <2>2, <2>3 DEF MessagesOK
  <2> QED
    BY <1>2, <2>4 DEF MessagesOK, TransferReturns
<1>3. CASE ForwardProgress
  <2>1. Head(relay) \in Message
    BY <1>3, Messages DEF MessagesOK, ForwardProgress
  <2>2. inbox' \in Seq(Message) /\ relay' \in Seq(ProgressMessage)
    BY <1>3, <2>1 DEF MessagesOK, ForwardProgress
  <2> QED
    BY <1>3, <2>2 DEF MessagesOK, ForwardProgress
<1>4. CASE ProgressCallback
  <2>1. running[1].task \in Task
    BY <1>4, RunningTyped DEF ProgressCallback
  <2>2. Progress(running[1].task) \in ProgressMessage
    BY <2>1, Messages
  <2>3. relay' \in Seq(ProgressMessage) /\ ticks' \in Nat
    BY <1>4, <2>2 DEF MessagesOK, ProgressCallback
  <2> QED
    BY <1>4, <2>3 DEF MessagesOK, ProgressCallback
<1> QED
  BY <1>1, <1>2, <1>3, <1>4 DEF Carries

(* How many messages are on their way. *)
OfKind(kind) == { r \in Request : r.kind = kind }
AnswersTo(kind) == { m \in ResponseMessage : m.request.kind = kind }

OnTheWay(asked, under, answered, kind) ==
  Count(asked, OfKind(kind)) + Count(under, OfKind(kind)) + Count(answered, AnswersTo(kind))

LEMMA OutstandingIs ==
  ASSUME NEW asked \in Seq(Request), NEW under \in Seq(Request), NEW answered \in Seq(Message),
         NEW kind
  PROVE  /\ Cardinality({ n \in DOMAIN asked : asked[n].kind = kind })
            + Cardinality({ n \in DOMAIN under : under[n].kind = kind })
            + Cardinality({ n \in DOMAIN answered :
                              answered[n].kind = "response" /\ answered[n].request.kind = kind })
            = OnTheWay(asked, under, answered, kind)
         /\ OnTheWay(asked, under, answered, kind) \in Nat
<1>1. ASSUME NEW s \in Seq(Request)
      PROVE  { n \in DOMAIN s : s[n].kind = kind } = Hits(s, OfKind(kind))
  BY DEF Hits, OfKind
<1>2. \A n \in DOMAIN answered :
        answered[n].kind = "response" /\ answered[n].request.kind = kind
        <=> answered[n] \in AnswersTo(kind)
  <2> TAKE n \in DOMAIN answered
  <2>1. answered[n] \in Message
    OBVIOUS
  <2>2. answered[n].kind = "response" => answered[n] \in ResponseMessage
    BY <2>1, MessageFacts
  <2>3. answered[n] \in ResponseMessage => answered[n].kind = "response"
    BY DEF ResponseMessage
  <2> QED
    BY <2>2, <2>3 DEF AnswersTo
<1>3. { n \in DOMAIN answered : answered[n].kind = "response" /\ answered[n].request.kind = kind }
      = Hits(answered, AnswersTo(kind))
  BY <1>2 DEF Hits
<1>4. /\ Count(asked, OfKind(kind)) \in Nat /\ Count(under, OfKind(kind)) \in Nat
      /\ Count(answered, AnswersTo(kind)) \in Nat
  BY HitsFinite
<1>5. /\ Cardinality({ n \in DOMAIN asked : asked[n].kind = kind }) = Count(asked, OfKind(kind))
      /\ Cardinality({ n \in DOMAIN under : under[n].kind = kind }) = Count(under, OfKind(kind))
  BY <1>1, Zenon DEF Count
<1>6. Cardinality({ n \in DOMAIN answered :
                      answered[n].kind = "response" /\ answered[n].request.kind = kind })
      = Count(answered, AnswersTo(kind))
  BY <1>3, Zenon DEF Count
<1> QED
  BY <1>4, <1>5, <1>6 DEF OnTheWay

LEMMA MessagesAreSeqs ==
  ASSUME MessagesOK
  PROVE  commands \in Seq(Request) /\ running \in Seq(Request) /\ inbox \in Seq(Message)
<1>1. running \in Seq(Request)
  <2>1. CASE running = << >>
    BY <2>1
  <2>2. CASE running # << >>
    <3>1. PICK r \in Request : running = << r >>
      BY <2>2, RunningTyped
    <3> QED
      BY <3>1
  <2> QED
    BY <2>1, <2>2
<1> QED
  BY <1>1 DEF MessagesOK

LEMMA OutstandingNow ==
  ASSUME MessagesOK, NEW kind
  PROVE  Outstanding(kind) = OnTheWay(commands, running, inbox, kind) /\ Outstanding(kind) \in Nat
<1>1. PICK c \in Seq(Request) : c = commands
  BY MessagesAreSeqs
<1>2. PICK u \in Seq(Request) : u = running
  BY MessagesAreSeqs
<1>3. PICK i \in Seq(Message) : i = inbox
  BY MessagesAreSeqs
<1>4. Outstanding(kind) =
        Cardinality({ n \in DOMAIN c : c[n].kind = kind })
        + Cardinality({ n \in DOMAIN u : u[n].kind = kind })
        + Cardinality({ n \in DOMAIN i : i[n].kind = "response" /\ i[n].request.kind = kind })
  BY <1>1, <1>2, <1>3 DEF Outstanding
<1>5. Outstanding(kind) = OnTheWay(c, u, i, kind)
  BY <1>4, OutstandingIs
<1>6. OnTheWay(c, u, i, kind) \in Nat
  BY OutstandingIs
<1> QED
  BY <1>1, <1>2, <1>3, <1>5, <1>6

LEMMA OutstandingNext ==
  ASSUME MessagesOK', NEW kind
  PROVE  Outstanding(kind)' = OnTheWay(commands', running', inbox', kind)
<1>1. /\ commands' \in Seq(Request)
      /\ inbox' \in Seq(Message)
      /\ running' = << >> \/ \E r \in TransferRequest : running' = << r >>
  BY DEF MessagesOK
<1>2. running' \in Seq(Request)
  <2>1. TransferRequest \subseteq Request
    BY DEF Request, Everyday
  <2>2. \A r \in Request : << r >> \in Seq(Request)
    OBVIOUS
  <2>3. << >> \in Seq(Request)
    OBVIOUS
  <2> QED
    BY <1>1, <2>1, <2>2, <2>3
<1>3. PICK c \in Seq(Request) : c = commands'
  BY <1>1
<1>4. PICK u \in Seq(Request) : u = running'
  BY <1>2
<1>5. PICK i \in Seq(Message) : i = inbox'
  BY <1>1
<1>6. Outstanding(kind)' =
        Cardinality({ n \in DOMAIN c : c[n].kind = kind })
        + Cardinality({ n \in DOMAIN u : u[n].kind = kind })
        + Cardinality({ n \in DOMAIN i : i[n].kind = "response" /\ i[n].request.kind = kind })
  BY <1>3, <1>4, <1>5 DEF Outstanding
<1> QED
  BY <1>3, <1>4, <1>5, <1>6, OutstandingIs

LEMMA AnswerHits ==
  ASSUME NEW r \in Request, NEW ok \in BOOLEAN, NEW kind
  PROVE  One(Response(r, ok), AnswersTo(kind)) = One(r, OfKind(kind))
BY Messages DEF One, AnswersTo, OfKind

LEMMA ProgressHitsNot ==
  ASSUME NEW m \in ProgressMessage, NEW kind
  PROVE  One(m, AnswersTo(kind)) = 0
BY DEF One, AnswersTo, ProgressMessage, ResponseMessage

LEMMA CountsAreNat ==
  ASSUME MessagesOK, NEW kind
  PROVE  /\ Count(commands, OfKind(kind)) \in Nat /\ Count(running, OfKind(kind)) \in Nat
         /\ Count(inbox, AnswersTo(kind)) \in Nat
BY MessagesAreSeqs, HitsFinite

LEMMA OneIsNat == \A x, S : One(x, S) \in {0, 1}
BY DEF One

\* A step asks for what is new and, in a handler of a response, is done with one.
LEMMA SendsCount ==
  ASSUME MessagesOK, NEW new \in Seq(Request), NEW kind, Sends(new)
  PROVE  Outstanding(kind)' = Outstanding(kind) + Count(new, OfKind(kind))
<1>1. MessagesOK'
  BY SendsTyped
<1>2. Count(commands \o new, OfKind(kind)) = Count(commands, OfKind(kind)) + Count(new, OfKind(kind))
  BY MessagesAreSeqs, CountConcat
<1>3. Count(new, OfKind(kind)) \in Nat
  BY HitsFinite
<1>4. commands' = commands \o new /\ running' = running /\ inbox' = inbox
  BY DEF Sends
<1>5. Count(commands', OfKind(kind)) = Count(commands, OfKind(kind)) + Count(new, OfKind(kind))
  BY <1>2, <1>4
<1>6. /\ Count(running', OfKind(kind)) = Count(running, OfKind(kind))
      /\ Count(inbox', AnswersTo(kind)) = Count(inbox, AnswersTo(kind))
  BY <1>4
<1>10. /\ Outstanding(kind) = Count(commands, OfKind(kind)) + Count(running, OfKind(kind))
                                + Count(inbox, AnswersTo(kind))
       /\ Outstanding(kind)' = Count(commands', OfKind(kind)) + Count(running', OfKind(kind))
                                 + Count(inbox', AnswersTo(kind))
  BY <1>1, OutstandingNow, OutstandingNext DEF OnTheWay
<1>11. /\ Count(commands, OfKind(kind)) \in Nat /\ Count(running, OfKind(kind)) \in Nat
       /\ Count(inbox, AnswersTo(kind)) \in Nat
  BY CountsAreNat
<1> QED
  BY <1>3, <1>5, <1>6, <1>10, <1>11

LEMMA HandlesCount ==
  ASSUME MessagesOK, NEW new \in Seq(Request), NEW kind, Handles(new)
  PROVE  Outstanding(kind)'
         = Outstanding(kind) + Count(new, OfKind(kind)) - One(Head(inbox), AnswersTo(kind))
<1>1. MessagesOK'
  BY SendsTyped
<1>2. Count(commands \o new, OfKind(kind)) = Count(commands, OfKind(kind)) + Count(new, OfKind(kind))
  BY MessagesAreSeqs, CountConcat
<1>3. Count(new, OfKind(kind)) \in Nat
  BY HitsFinite
<1>4. commands' = commands \o new /\ running' = running /\ inbox # << >> /\ inbox' = Tail(inbox)
  BY DEF Handles
<1>5. Count(commands', OfKind(kind)) = Count(commands, OfKind(kind)) + Count(new, OfKind(kind))
  BY <1>2, <1>4
<1>6. Count(running', OfKind(kind)) = Count(running, OfKind(kind))
  BY <1>4
<1>7. Count(inbox, AnswersTo(kind)) = Count(Tail(inbox), AnswersTo(kind)) + One(Head(inbox), AnswersTo(kind))
  BY <1>4, MessagesAreSeqs, CountTail
<1>8. Count(inbox', AnswersTo(kind)) = Count(Tail(inbox), AnswersTo(kind))
      /\ Count(Tail(inbox), AnswersTo(kind)) \in Nat
  <2>1. Tail(inbox) \in Seq(Message)
    BY <1>4, MessagesAreSeqs
  <2> QED
    BY <1>4, <2>1, HitsFinite
<1>10. /\ Outstanding(kind) = Count(commands, OfKind(kind)) + Count(running, OfKind(kind))
                                + Count(inbox, AnswersTo(kind))
       /\ Outstanding(kind)' = Count(commands', OfKind(kind)) + Count(running', OfKind(kind))
                                 + Count(inbox', AnswersTo(kind))
  BY <1>1, OutstandingNow, OutstandingNext DEF OnTheWay
<1>11. /\ Count(commands, OfKind(kind)) \in Nat /\ Count(running, OfKind(kind)) \in Nat
       /\ Count(inbox, AnswersTo(kind)) \in Nat
  BY CountsAreNat
<1>12. One(Head(inbox), AnswersTo(kind)) \in Nat
  BY OneIsNat
<1> QED
  BY <1>3, <1>5, <1>6, <1>7, <1>8, <1>10, <1>11, <1>12

LEMMA AnswersCount ==
  ASSUME MessagesOK, NEW ok \in BOOLEAN, NEW kind, Answers(ok)
  PROVE  Outstanding(kind)' = Outstanding(kind)
<1>1. MessagesOK' /\ Head(commands) \in Request
      /\ Response(Head(commands), ok) \in ResponseMessage
  BY AnswersTyped
<1>2. /\ commands # << >> /\ running' = running /\ commands' = Tail(commands)
      /\ inbox' = Append(inbox, Response(Head(commands), ok))
  BY DEF Answers
<1>3. Count(commands, OfKind(kind)) = Count(Tail(commands), OfKind(kind)) + One(Head(commands), OfKind(kind))
  BY <1>2, MessagesAreSeqs, CountTail
<1>4. Count(Append(inbox, Response(Head(commands), ok)), AnswersTo(kind))
      = Count(inbox, AnswersTo(kind)) + One(Response(Head(commands), ok), AnswersTo(kind))
  <2>1. Response(Head(commands), ok) \in Message
    BY <1>1, Messages
  <2> QED
    BY <2>1, MessagesAreSeqs, CountAppend
<1>5. One(Response(Head(commands), ok), AnswersTo(kind)) = One(Head(commands), OfKind(kind))
  BY <1>1, AnswerHits
<1>6. Count(Tail(commands), OfKind(kind)) \in Nat
  <2>1. Tail(commands) \in Seq(Request)
    BY <1>2, MessagesAreSeqs
  <2> QED
    BY <2>1, HitsFinite
<1>7. /\ Count(commands', OfKind(kind)) = Count(Tail(commands), OfKind(kind))
      /\ Count(running', OfKind(kind)) = Count(running, OfKind(kind))
      /\ Count(inbox', AnswersTo(kind)) = Count(inbox, AnswersTo(kind)) + One(Head(commands), OfKind(kind))
  BY <1>2, <1>4, <1>5
<1>10. /\ Outstanding(kind) = Count(commands, OfKind(kind)) + Count(running, OfKind(kind))
                                + Count(inbox, AnswersTo(kind))
       /\ Outstanding(kind)' = Count(commands', OfKind(kind)) + Count(running', OfKind(kind))
                                 + Count(inbox', AnswersTo(kind))
  BY <1>1, OutstandingNow, OutstandingNext DEF OnTheWay
<1>11. /\ Count(commands, OfKind(kind)) \in Nat /\ Count(running, OfKind(kind)) \in Nat
       /\ Count(inbox, AnswersTo(kind)) \in Nat
  BY CountsAreNat
<1>12. One(Head(commands), OfKind(kind)) \in Nat
  BY OneIsNat
<1> QED
  BY <1>3, <1>6, <1>7, <1>10, <1>11, <1>12

LEMMA CarriesCount ==
  ASSUME MessagesOK, NEW kind, Carries
  PROVE  Outstanding(kind)' = Outstanding(kind)
<1> MessagesOK'
  BY CarriesTyped
<1>1. CASE StartTransfer
  <2>1. /\ commands # << >> /\ running = << >> /\ commands' = Tail(commands)
        /\ running' = << Head(commands) >> /\ inbox' = inbox
    BY <1>1 DEF StartTransfer, NextIs
  <2>2. Count(commands, OfKind(kind)) = Count(Tail(commands), OfKind(kind)) + One(Head(commands), OfKind(kind))
    BY <2>1, MessagesAreSeqs, CountTail
  <2>3. Count(running', OfKind(kind)) = One(Head(commands), OfKind(kind)) /\ Count(running, OfKind(kind)) = 0
    BY <2>1, CountOne, CountEmpty
  <2>4. Count(Tail(commands), OfKind(kind)) \in Nat
    <3>1. Tail(commands) \in Seq(Request)
      BY <2>1, MessagesAreSeqs
    <3> QED
      BY <3>1, HitsFinite
  <2>5. /\ Count(commands', OfKind(kind)) = Count(Tail(commands), OfKind(kind))
        /\ Count(inbox', AnswersTo(kind)) = Count(inbox, AnswersTo(kind))
    BY <2>1
  <2>10. /\ Outstanding(kind) = Count(commands, OfKind(kind)) + Count(running, OfKind(kind))
                                  + Count(inbox, AnswersTo(kind))
         /\ Outstanding(kind)' = Count(commands', OfKind(kind)) + Count(running', OfKind(kind))
                                   + Count(inbox', AnswersTo(kind))
    BY OutstandingNow, OutstandingNext DEF OnTheWay
  <2>11. /\ Count(commands, OfKind(kind)) \in Nat /\ Count(running, OfKind(kind)) \in Nat
         /\ Count(inbox, AnswersTo(kind)) \in Nat
    BY CountsAreNat
  <2>12. One(Head(commands), OfKind(kind)) \in Nat
    BY OneIsNat
  <2> QED
    BY <2>2, <2>3, <2>4, <2>5, <2>10, <2>11, <2>12
<1>2. CASE TransferReturns
  <2>1. PICK ok \in BOOLEAN : inbox' = Append(inbox, Response(running[1], ok))
    BY <1>2 DEF TransferReturns
  <2>2. running # << >> /\ running' = << >> /\ commands' = commands
    BY <1>2 DEF TransferReturns
  <2>3. PICK r \in Request : r = running[1] /\ running = << r >>
    BY <2>2, RunningTyped
  <2>4. Count(Append(inbox, Response(r, ok)), AnswersTo(kind))
        = Count(inbox, AnswersTo(kind)) + One(Response(r, ok), AnswersTo(kind))
    <3>1. Response(r, ok) \in Message
      BY Messages
    <3> QED
      BY <3>1, MessagesAreSeqs, CountAppend
  <2>5. Count(running, OfKind(kind)) = One(r, OfKind(kind)) /\ Count(running', OfKind(kind)) = 0
    BY <2>2, <2>3, CountOne, CountEmpty
  <2>6. /\ Count(commands', OfKind(kind)) = Count(commands, OfKind(kind))
        /\ Count(inbox', AnswersTo(kind)) = Count(inbox, AnswersTo(kind)) + One(r, OfKind(kind))
    BY <2>1, <2>2, <2>3, <2>4, AnswerHits
  <2>10. /\ Outstanding(kind) = Count(commands, OfKind(kind)) + Count(running, OfKind(kind))
                                  + Count(inbox, AnswersTo(kind))
         /\ Outstanding(kind)' = Count(commands', OfKind(kind)) + Count(running', OfKind(kind))
                                   + Count(inbox', AnswersTo(kind))
    BY OutstandingNow, OutstandingNext DEF OnTheWay
  <2>11. /\ Count(commands, OfKind(kind)) \in Nat /\ Count(running, OfKind(kind)) \in Nat
         /\ Count(inbox, AnswersTo(kind)) \in Nat
    BY CountsAreNat
  <2>12. One(r, OfKind(kind)) \in Nat
    BY OneIsNat
  <2> QED
    BY <2>5, <2>6, <2>10, <2>11, <2>12
<1>3. CASE ForwardProgress
  <2>1. relay # << >> /\ inbox' = Append(inbox, Head(relay)) /\ running' = running /\ commands' = commands
    BY <1>3 DEF ForwardProgress
  <2>2. Head(relay) \in ProgressMessage /\ Head(relay) \in Message
    BY <2>1, Messages DEF MessagesOK
  <2>3. Count(Append(inbox, Head(relay)), AnswersTo(kind))
        = Count(inbox, AnswersTo(kind)) + One(Head(relay), AnswersTo(kind))
    BY <2>2, MessagesAreSeqs, CountAppend
  <2>4. One(Head(relay), AnswersTo(kind)) = 0
    BY <2>2, ProgressHitsNot
  <2>5. /\ Count(commands', OfKind(kind)) = Count(commands, OfKind(kind))
        /\ Count(running', OfKind(kind)) = Count(running, OfKind(kind))
        /\ Count(inbox', AnswersTo(kind)) = Count(inbox, AnswersTo(kind)) + 0
    BY <2>1, <2>3, <2>4
  <2>10. /\ Outstanding(kind) = Count(commands, OfKind(kind)) + Count(running, OfKind(kind))
                                  + Count(inbox, AnswersTo(kind))
         /\ Outstanding(kind)' = Count(commands', OfKind(kind)) + Count(running', OfKind(kind))
                                   + Count(inbox', AnswersTo(kind))
    BY OutstandingNow, OutstandingNext DEF OnTheWay
  <2>11. /\ Count(commands, OfKind(kind)) \in Nat /\ Count(running, OfKind(kind)) \in Nat
         /\ Count(inbox, AnswersTo(kind)) \in Nat
    BY CountsAreNat
  <2> QED
    BY <2>5, <2>10, <2>11
<1>4. CASE ProgressCallback
  <2>1. UNCHANGED << commands, running, inbox >>
    BY <1>4 DEF ProgressCallback
  <2> QED
    BY <2>1, OutstandingNow, OutstandingNext DEF OnTheWay
<1> QED
  BY <1>1, <1>2, <1>3, <1>4 DEF Carries

-----------------------------------------------------------------------------
(* What is in a FIFO after a step. *)

LEMMA ConcatHolds ==
  ASSUME NEW U, NEW s \in Seq(U), NEW t \in Seq(U)
  PROVE  /\ \A n \in DOMAIN (s \o t) :
              \/ n \in DOMAIN s /\ (s \o t)[n] = s[n]
              \/ n > Len(s) /\ n - Len(s) \in DOMAIN t /\ (s \o t)[n] = t[n - Len(s)]
         /\ \A n \in DOMAIN s : n \in DOMAIN (s \o t) /\ (s \o t)[n] = s[n]
OBVIOUS

LEMMA TailHolds ==
  ASSUME NEW U, NEW s \in Seq(U), s # << >>
  PROVE  /\ \A n \in DOMAIN Tail(s) : n + 1 \in DOMAIN s /\ Tail(s)[n] = s[n + 1]
         /\ \A n \in DOMAIN s : n # 1 => n - 1 \in DOMAIN Tail(s) /\ Tail(s)[n - 1] = s[n]
         /\ 1 \in DOMAIN s /\ Head(s) = s[1] /\ Head(s) \in U
OBVIOUS

LEMMA AppendHolds ==
  ASSUME NEW U, NEW s \in Seq(U), NEW x \in U
  PROVE  /\ \A n \in DOMAIN Append(s, x) :
              \/ n \in DOMAIN s /\ Append(s, x)[n] = s[n]
              \/ n = Len(s) + 1 /\ Append(s, x)[n] = x
         /\ \A n \in DOMAIN s : n \in DOMAIN Append(s, x) /\ Append(s, x)[n] = s[n]
         /\ Len(s) + 1 \in DOMAIN Append(s, x) /\ Append(s, x)[Len(s) + 1] = x
OBVIOUS

LEMMA NothingOnTheWay ==
  ASSUME NEW asked \in Seq(Request), NEW under \in Seq(Request), NEW answered \in Seq(Message),
         NEW kind, OnTheWay(asked, under, answered, kind) = 0
  PROVE  /\ \A n \in DOMAIN asked : asked[n].kind # kind
         /\ \A n \in DOMAIN under : under[n].kind # kind
         /\ \A n \in DOMAIN answered :
              answered[n].kind = "response" => answered[n].request.kind # kind
<1>1. /\ Count(asked, OfKind(kind)) \in Nat /\ Count(under, OfKind(kind)) \in Nat
      /\ Count(answered, AnswersTo(kind)) \in Nat
  BY HitsFinite
<1>2. /\ Count(asked, OfKind(kind)) = 0 /\ Count(under, OfKind(kind)) = 0
      /\ Count(answered, AnswersTo(kind)) = 0
  BY <1>1 DEF OnTheWay
<1>3. /\ \A n \in 1..Len(asked) : asked[n] \notin OfKind(kind)
      /\ \A n \in 1..Len(under) : under[n] \notin OfKind(kind)
      /\ \A n \in 1..Len(answered) : answered[n] \notin AnswersTo(kind)
  <2>1. ~(0 > 0)
    OBVIOUS
  <2> QED
    BY <1>2, <2>1, HitsFinite
<1>4. ASSUME NEW n \in DOMAIN answered, answered[n].kind = "response"
      PROVE  answered[n].request.kind # kind
  <2>1. answered[n] \in Message /\ n \in 1..Len(answered)
    OBVIOUS
  <2>2. answered[n] \in ResponseMessage
    BY <2>1, <1>4, MessageFacts
  <2> QED
    BY <2>1, <2>2, <1>3 DEF AnswersTo
<1> QED
  BY <1>3, <1>4 DEF OfKind

-----------------------------------------------------------------------------
(* The transfers. *)

NoTransfer(new) == \A n \in DOMAIN new : new[n].kind # "transfer"

LEMMA NoTransferCount ==
  ASSUME NEW new \in Seq(Request), NoTransfer(new)
  PROVE  Count(new, OfKind("transfer")) = 0
<1>1. Hits(new, OfKind("transfer")) = {}
  BY DEF NoTransfer, Hits, OfKind
<1> QED
  BY <1>1, FS_EmptySet DEF Count

\* What a turn of the loop asks for, after all that was awaited has come back.
LEMMA TurnTransfers ==
  ASSUME currentPath \in Path, NEW r \in Seq({List(currentPath)}), NEW new \in Seq(Everyday),
         Turn(r, new, {})
  PROVE  /\ waiting' = {} \/ \E t \in Task : waiting' = {t}
         /\ Cardinality(waiting') <= 1
         /\ Count(new, OfKind("transfer")) = Cardinality(waiting')
         /\ \A n \in DOMAIN new : new[n].kind = "transfer" => new[n].task \in waiting'
         /\ (\E t \in Task : status'[t] = "queued") => waiting' # {}
<1>0. List(currentPath) \in Request /\ List(currentPath).kind = "list"
  BY Requests
<1>1. r \in Seq(Request) /\ NoTransfer(r)
  BY <1>0 DEF NoTransfer
<1>2. Count(r, OfKind("transfer")) = 0
  BY <1>1, NoTransferCount
<1>3. CASE new = r /\ waiting' = {} /\ \A t \in Task : status'[t] # "queued"
  BY <1>1, <1>2, <1>3, FS_EmptySet DEF NoTransfer
<1>4. ASSUME NEW t \in Task, new = Append(r, Transfer(t)), waiting' = {t}
      PROVE  /\ Cardinality(waiting') <= 1
             /\ Count(new, OfKind("transfer")) = Cardinality(waiting')
             /\ \A n \in DOMAIN new : new[n].kind = "transfer" => new[n].task \in waiting'
             /\ waiting' # {}
  <2>1. Transfer(t) \in Request /\ Transfer(t).kind = "transfer" /\ Transfer(t).task = t
    BY Requests
  <2>2. Count(new, OfKind("transfer")) = 0 + One(Transfer(t), OfKind("transfer"))
    BY <1>1, <1>2, <1>4, <2>1, CountAppend
  <2>3. Count(new, OfKind("transfer")) = 1
    BY <2>1, <2>2 DEF One, OfKind
  <2>4. Cardinality(waiting') = 1
    BY <1>4, FS_Singleton
  <2>5. ASSUME NEW n \in DOMAIN new, new[n].kind = "transfer" PROVE new[n].task \in waiting'
    <3>1. r[n].kind # "transfer" \/ n \notin DOMAIN r
      BY <1>1 DEF NoTransfer
    <3>2. (n \in DOMAIN r /\ new[n] = r[n]) \/ new[n] = Transfer(t)
      BY <1>1, <1>4, <2>1, AppendHolds
    <3> QED
      BY <1>4, <2>1, <2>5, <3>1, <3>2
  <2> QED
    BY <1>4, <2>3, <2>4, <2>5
<1> QED
  BY <1>3, <1>4 DEF Turn

LEMMA TransfersStay ==
  ASSUME MessagesOK, TransfersOK, waiting' = waiting, NEW new \in Seq(Request), NoTransfer(new),
         \/ Sends(new)
         \/ /\ Handles(new)
            /\ Head(inbox).kind = "response" => Head(inbox).request.kind # "transfer"
  PROVE  TransfersOK'
<1>1. Count(new, OfKind("transfer")) = 0
  BY NoTransferCount
<1>2. Outstanding("transfer")' = Outstanding("transfer")
  <2>1. CASE Sends(new)
    BY <1>1, <2>1, SendsCount, OutstandingNow
  <2>2. CASE Handles(new) /\ (Head(inbox).kind = "response" => Head(inbox).request.kind # "transfer")
    <3>1. Head(inbox) \notin AnswersTo("transfer")
      BY <2>2 DEF AnswersTo, ResponseMessage
    <3>2. One(Head(inbox), AnswersTo("transfer")) = 0
      BY <3>1 DEF One
    <3> QED
      BY <1>1, <2>2, <3>2, HandlesCount, OutstandingNow
  <2> QED
    BY <2>1, <2>2
<1>3. /\ commands' = commands \o new /\ running' = running
      /\ inbox' = inbox \/ (inbox # << >> /\ inbox' = Tail(inbox))
  <2>1. CASE Sends(new)
    BY <2>1 DEF Sends
  <2>2. CASE Handles(new)
    BY <2>2 DEF Handles
  <2> QED
    BY <2>1, <2>2
<1>4. ASSUME NEW n \in DOMAIN commands', commands'[n].kind = "transfer"
      PROVE  commands'[n].task \in waiting'
  <2>1. (n \in DOMAIN commands /\ commands'[n] = commands[n])
        \/ (n - Len(commands) \in DOMAIN new /\ commands'[n] = new[n - Len(commands)])
    BY <1>3, MessagesAreSeqs, ConcatHolds
  <2> QED
    BY <2>1, <1>4 DEF NoTransfer, TransfersOK, TransfersAreAwaited
<1>5. ASSUME NEW n \in DOMAIN inbox',
             inbox'[n].kind = "response" /\ inbox'[n].request.kind = "transfer"
      PROVE  inbox'[n].request.task \in waiting'
  <2>1. \E k \in DOMAIN inbox : inbox'[n] = inbox[k]
    <3>1. CASE inbox' = inbox
      BY <3>1
    <3>2. CASE inbox # << >> /\ inbox' = Tail(inbox)
      BY <3>2, MessagesAreSeqs, TailHolds
    <3> QED
      BY <1>3, <3>1, <3>2
  <2> QED
    BY <2>1, <1>5 DEF TransfersOK, TransfersAreAwaited
<1>6. \A n \in DOMAIN running' : running'[n].task \in waiting'
  BY <1>3 DEF TransfersOK, TransfersAreAwaited
<1>7. TransfersAreAwaited'
  <2>1. waiting' = {} \/ \E t \in Task : waiting' = {t}
    BY DEF TransfersOK, TransfersAreAwaited
  <2> QED
    BY <1>4, <1>5, <1>6, <2>1 DEF TransfersAreAwaited
<1> QED
  BY <1>2, <1>7 DEF TransfersOK, OneTransferAtATime

LEMMA TransfersMove ==
  ASSUME MessagesOK, TransfersOK, waiting' = waiting, (\E ok \in BOOLEAN : Answers(ok)) \/ Carries
  PROVE  TransfersOK'
<1>1. Outstanding("transfer")' = Outstanding("transfer")
  BY AnswersCount, CarriesCount
<1>2. CASE \E ok \in BOOLEAN : Answers(ok)
  <2>1. PICK ok \in BOOLEAN : Answers(ok)
    BY <1>2
  <2>2. Head(commands) \in Request /\ Response(Head(commands), ok) \in ResponseMessage
        /\ Response(Head(commands), ok) \in Message
    BY <2>1, AnswersTyped, Messages
  <2>3. /\ commands # << >> /\ commands' = Tail(commands) /\ running' = running
        /\ inbox' = Append(inbox, Response(Head(commands), ok)) /\ Head(commands).kind # "transfer"
    BY <2>1 DEF Answers
  <2>4. \A n \in DOMAIN commands' : \E k \in DOMAIN commands : commands'[n] = commands[k]
    BY <2>3, MessagesAreSeqs, TailHolds
  <2>5. \A n \in DOMAIN inbox' :
          (n \in DOMAIN inbox /\ inbox'[n] = inbox[n]) \/ inbox'[n] = Response(Head(commands), ok)
    BY <2>2, <2>3, MessagesAreSeqs, AppendHolds
  <2>6. Response(Head(commands), ok).request = Head(commands)
    BY DEF Response
  <2>7. \A n \in DOMAIN commands' : commands'[n].kind = "transfer" => commands'[n].task \in waiting'
    BY <2>4 DEF TransfersOK, TransfersAreAwaited
  <2>8. \A n \in DOMAIN inbox' :
          inbox'[n].kind = "response" /\ inbox'[n].request.kind = "transfer"
          => inbox'[n].request.task \in waiting'
    BY <2>3, <2>5, <2>6 DEF TransfersOK, TransfersAreAwaited
  <2>9. \A n \in DOMAIN running' : running'[n].task \in waiting'
    BY <2>3 DEF TransfersOK, TransfersAreAwaited
  <2> QED
    BY <1>1, <2>7, <2>8, <2>9 DEF TransfersOK, TransfersAreAwaited, OneTransferAtATime
<1>3. CASE StartTransfer
  <2>1. /\ commands # << >> /\ commands' = Tail(commands) /\ running' = << Head(commands) >>
        /\ inbox' = inbox /\ Head(commands).kind = "transfer"
    BY <1>3 DEF StartTransfer, NextIs
  <2>2. \A n \in DOMAIN commands' : \E k \in DOMAIN commands : commands'[n] = commands[k]
    BY <2>1, MessagesAreSeqs, TailHolds
  <2>3. 1 \in DOMAIN commands /\ Head(commands) = commands[1]
    BY <2>1, MessagesAreSeqs, TailHolds
  <2>4. \A n \in DOMAIN running' : running'[n] = Head(commands)
    BY <2>1
  <2>5. \A n \in DOMAIN running' : running'[n].task \in waiting'
    BY <2>1, <2>3, <2>4 DEF TransfersOK, TransfersAreAwaited
  <2>6. \A n \in DOMAIN commands' : commands'[n].kind = "transfer" => commands'[n].task \in waiting'
    BY <2>2 DEF TransfersOK, TransfersAreAwaited
  <2> QED
    BY <1>1, <2>1, <2>5, <2>6 DEF TransfersOK, TransfersAreAwaited, OneTransferAtATime
<1>4. CASE TransferReturns
  <2>1. PICK ok \in BOOLEAN : inbox' = Append(inbox, Response(running[1], ok))
    BY <1>4 DEF TransferReturns
  <2>2. running # << >> /\ running' = << >> /\ commands' = commands
    BY <1>4 DEF TransferReturns
  <2>3. PICK r \in Request : r = running[1] /\ running = << r >>
    BY <2>2, RunningTyped
  <2>4. Response(r, ok) \in Message /\ Response(r, ok).request = r
    BY Messages
  <2>5. \A n \in DOMAIN inbox' : (n \in DOMAIN inbox /\ inbox'[n] = inbox[n]) \/ inbox'[n] = Response(r, ok)
    BY <2>1, <2>3, <2>4, MessagesAreSeqs, AppendHolds
  <2>6. r.task \in waiting
    BY <2>3 DEF TransfersOK, TransfersAreAwaited
  <2>7. \A n \in DOMAIN inbox' :
          inbox'[n].kind = "response" /\ inbox'[n].request.kind = "transfer"
          => inbox'[n].request.task \in waiting'
    BY <2>4, <2>5, <2>6 DEF TransfersOK, TransfersAreAwaited
  <2>8. DOMAIN running' = {}
    BY <2>2
  <2> QED
    BY <1>1, <2>2, <2>7, <2>8 DEF TransfersOK, TransfersAreAwaited, OneTransferAtATime
<1>5. CASE ForwardProgress
  <2>1. relay # << >> /\ inbox' = Append(inbox, Head(relay)) /\ running' = running /\ commands' = commands
    BY <1>5 DEF ForwardProgress
  <2>2. Head(relay) \in ProgressMessage /\ Head(relay) \in Message /\ Head(relay).kind = "progress"
    <3>1. Head(relay) \in ProgressMessage
      BY <2>1 DEF MessagesOK
    <3> QED
      BY <3>1, Messages DEF ProgressMessage
  <2>3. \A n \in DOMAIN inbox' : (n \in DOMAIN inbox /\ inbox'[n] = inbox[n]) \/ inbox'[n] = Head(relay)
    BY <2>1, <2>2, MessagesAreSeqs, AppendHolds
  <2>4. \A n \in DOMAIN inbox' :
          inbox'[n].kind = "response" /\ inbox'[n].request.kind = "transfer"
          => inbox'[n].request.task \in waiting'
    BY <2>2, <2>3 DEF TransfersOK, TransfersAreAwaited
  <2> QED
    BY <1>1, <2>1, <2>4 DEF TransfersOK, TransfersAreAwaited, OneTransferAtATime
<1>6. CASE ProgressCallback
  <2>1. UNCHANGED << commands, running, inbox >>
    BY <1>6 DEF ProgressCallback
  <2> QED
    BY <1>1, <2>1 DEF TransfersOK, TransfersAreAwaited, OneTransferAtATime
<1> QED
  BY <1>2, <1>3, <1>4, <1>5, <1>6 DEF Carries

\* A run of the loop begins with nothing under way.
LEMMA TransfersBegin ==
  ASSUME MessagesOK, TransfersOK, waiting = {}, currentPath \in Path,
         NEW r \in Seq({List(currentPath)}), NEW new \in Seq(Everyday), Turn(r, new, {}), Sends(new)
  PROVE  TransfersOK'
<1>1. new \in Seq(Request)
  BY Requests
<1>2. Outstanding("transfer") = 0
  BY FS_EmptySet DEF TransfersOK, OneTransferAtATime
<1>3. Outstanding("transfer")' = Cardinality(waiting') /\ Cardinality(waiting') <= 1
  <2>1. Outstanding("transfer")' = 0 + Count(new, OfKind("transfer"))
    BY <1>1, <1>2, SendsCount
  <2>2. Count(new, OfKind("transfer")) \in Nat
    BY <1>1, HitsFinite
  <2> QED
    <3>1. Count(new, OfKind("transfer")) = Cardinality(waiting') /\ Cardinality(waiting') <= 1
      BY TurnTransfers
    <3> QED
      BY <2>1, <2>2, <3>1
<1>4. /\ \A n \in DOMAIN commands : commands[n].kind # "transfer"
      /\ \A n \in DOMAIN running : running[n].kind # "transfer"
      /\ \A n \in DOMAIN inbox : inbox[n].kind = "response" => inbox[n].request.kind # "transfer"
  <2>1. OnTheWay(commands, running, inbox, "transfer") = 0
    BY <1>2, OutstandingNow
  <2>2. PICK c \in Seq(Request) : c = commands
    BY MessagesAreSeqs
  <2>3. PICK u \in Seq(Request) : u = running
    BY MessagesAreSeqs
  <2>4. PICK i \in Seq(Message) : i = inbox
    BY MessagesAreSeqs
  <2>5. OnTheWay(c, u, i, "transfer") = 0
    BY <2>1, <2>2, <2>3, <2>4
  <2> QED
    BY <2>2, <2>3, <2>4, <2>5, NothingOnTheWay
<1>5. commands' = commands \o new /\ running' = running /\ inbox' = inbox
  BY DEF Sends
<1>6. \A n \in DOMAIN commands' : commands'[n].kind = "transfer" => commands'[n].task \in waiting'
  <2>1. \A n \in DOMAIN commands' :
          \/ n \in DOMAIN commands /\ commands'[n] = commands[n]
          \/ n - Len(commands) \in DOMAIN new /\ commands'[n] = new[n - Len(commands)]
    BY <1>1, <1>5, MessagesAreSeqs, ConcatHolds
  <2>2. \A n \in DOMAIN new : new[n].kind = "transfer" => new[n].task \in waiting'
    BY TurnTransfers
  <2> QED
    BY <1>4, <2>1, <2>2
<1>7. DOMAIN running = {}
  <2>1. running # << >> => 1 \in DOMAIN running /\ running[1].kind = "transfer"
    BY RunningTyped
  <2> QED
    BY <1>4, <2>1
<1>8. waiting' = {} \/ \E t \in Task : waiting' = {t}
  BY TurnTransfers
<1> QED
  BY <1>3, <1>4, <1>5, <1>6, <1>7, <1>8 DEF TransfersOK, TransfersAreAwaited, OneTransferAtATime

\* The awaited transfer has come back, and the loop goes on.
LEMMA TransfersGoOn ==
  ASSUME MessagesOK, TransfersOK, waiting \subseteq Task, currentPath \in Path,
         NEW t \in Task, NEW r \in Seq({List(currentPath)}), NEW new \in Seq(Everyday),
         Turn(r, new, waiting \ {t}), Handles(new), Head(inbox).kind = "response",
         Head(inbox).request.kind = "transfer", Head(inbox).request.task = t
  PROVE  TransfersOK' /\ waiting = {t} /\ Turn(r, new, {})
<1>1. new \in Seq(Request) /\ inbox # << >>
  BY Requests DEF Handles
<1>2. 1 \in DOMAIN inbox /\ Head(inbox) = inbox[1] /\ Head(inbox) \in Message
  BY <1>1, MessagesAreSeqs, TailHolds
<1>3. Head(inbox) \in AnswersTo("transfer")
  BY <1>2, MessageFacts DEF AnswersTo
<1>4. t \in waiting
  BY <1>2 DEF TransfersOK, TransfersAreAwaited
<1>5. Outstanding("transfer") = 1 /\ waiting = {t}
  <2>1. waiting = {t}
    BY <1>4 DEF TransfersOK, TransfersAreAwaited
  <2> QED
    BY <2>1, FS_Singleton DEF TransfersOK, OneTransferAtATime
<1>6. waiting \ {t} = {}
  BY <1>5
<1>7. Turn(r, new, {})
  BY <1>6
<1>8. commands' = commands \o new /\ running' = running /\ inbox' = Tail(inbox)
  BY DEF Handles
<1>9. OnTheWay(commands, running, Tail(inbox), "transfer") = 0 /\ Tail(inbox) \in Seq(Message)
  <2>1. Tail(inbox) \in Seq(Message)
    BY <1>1, MessagesAreSeqs
  <2>2. Count(Tail(inbox), AnswersTo("transfer")) \in Nat
    BY <2>1, HitsFinite
  <2>3. Count(inbox, AnswersTo("transfer"))
        = Count(Tail(inbox), AnswersTo("transfer")) + One(Head(inbox), AnswersTo("transfer"))
    BY <1>1, MessagesAreSeqs, CountTail
  <2>4. One(Head(inbox), AnswersTo("transfer")) = 1
    BY <1>3 DEF One
  <2> QED
    BY <1>5, <2>1, <2>2, <2>3, <2>4, OutstandingNow, CountsAreNat DEF OnTheWay
<1>10. Outstanding("transfer")' = Cardinality(waiting') /\ Cardinality(waiting') <= 1
  <2>1. Outstanding("transfer")' = 1 + Count(new, OfKind("transfer")) - One(Head(inbox), AnswersTo("transfer"))
    BY <1>1, <1>5, HandlesCount
  <2>2. Count(new, OfKind("transfer")) \in Nat
    BY <1>1, HitsFinite
  <2>3. One(Head(inbox), AnswersTo("transfer")) = 1
    BY <1>3 DEF One
  <2>4. Count(new, OfKind("transfer")) = Cardinality(waiting') /\ Cardinality(waiting') <= 1
    BY <1>7, TurnTransfers
  <2> QED
    BY <2>1, <2>2, <2>3, <2>4
<1>11. /\ \A n \in DOMAIN commands : commands[n].kind # "transfer"
       /\ \A n \in DOMAIN running : running[n].kind # "transfer"
       /\ \A n \in DOMAIN inbox' : inbox'[n].kind = "response" => inbox'[n].request.kind # "transfer"
  <2>2. PICK c \in Seq(Request) : c = commands
    BY MessagesAreSeqs
  <2>3. PICK u \in Seq(Request) : u = running
    BY MessagesAreSeqs
  <2>4. PICK i \in Seq(Message) : i = Tail(inbox)
    BY <1>9
  <2>5. OnTheWay(c, u, i, "transfer") = 0
    BY <1>9, <2>2, <2>3, <2>4
  <2>6. inbox' = i
    BY <1>8, <2>4
  <2> QED
    BY <2>2, <2>3, <2>5, <2>6, NothingOnTheWay
<1>12. \A n \in DOMAIN commands' : commands'[n].kind = "transfer" => commands'[n].task \in waiting'
  <2>1. \A n \in DOMAIN commands' :
          \/ n \in DOMAIN commands /\ commands'[n] = commands[n]
          \/ n - Len(commands) \in DOMAIN new /\ commands'[n] = new[n - Len(commands)]
    BY <1>1, <1>8, MessagesAreSeqs, ConcatHolds
  <2>2. \A n \in DOMAIN new : new[n].kind = "transfer" => new[n].task \in waiting'
    BY <1>7, TurnTransfers
  <2> QED
    BY <1>11, <2>1, <2>2
<1>13. DOMAIN running = {}
  <2>1. running # << >> => 1 \in DOMAIN running /\ running[1].kind = "transfer"
    BY RunningTyped
  <2> QED
    BY <1>11, <2>1
<1>14. waiting' = {} \/ \E u \in Task : waiting' = {u}
  BY <1>7, TurnTransfers
<1>15. TransfersAreAwaited'
  BY <1>8, <1>11, <1>12, <1>13, <1>14 DEF TransfersAreAwaited
<1> QED
  BY <1>5, <1>7, <1>10, <1>15 DEF TransfersOK, OneTransferAtATime

-----------------------------------------------------------------------------
(* What the last answer tells. *)

IsDeciding(m) == m.kind = "response" /\ IsSession(m.request)

LEMMA LastAnswerTakenOff ==
  ASSUME MessagesOK, LastAnswerTells, inbox # << >>, inbox' = Tail(inbox), state' = state,
         \/ ~IsDeciding(Head(inbox)) /\ connected' = connected
         \/ IsDeciding(Head(inbox)) /\ (connected' => Grants(Head(inbox)))
  PROVE  LastAnswerTells'
<1>1. /\ \A n \in DOMAIN inbox' : n \in Nat /\ n > 0 /\ n + 1 \in DOMAIN inbox /\ inbox'[n] = inbox[n + 1]
      /\ \A n \in DOMAIN inbox : n # 1 => n \in Nat /\ n > 1 /\ n - 1 \in DOMAIN inbox' /\ inbox'[n - 1] = inbox[n]
      /\ 1 \in DOMAIN inbox /\ Head(inbox) = inbox[1]
  BY MessagesAreSeqs, TailHolds
<1>2. \A n \in DOMAIN inbox : Decides(n) <=> IsDeciding(inbox[n])
  BY DEF Decides, IsDeciding
<1>3. \A n \in DOMAIN inbox' : Decides(n)' <=> IsDeciding(inbox'[n])
  BY DEF Decides, IsDeciding
<1>4. ASSUME connected', \A n \in DOMAIN inbox' : ~IsDeciding(inbox'[n])
      PROVE  state = "AUTHENTICATED"
  <2>1. \A n \in DOMAIN inbox : n # 1 => ~Decides(n)
    BY <1>1, <1>2, <1>4
  <2>2. CASE ~IsDeciding(Head(inbox)) /\ connected' = connected
    <3>1. \A n \in DOMAIN inbox : ~Decides(n)
      BY <1>1, <1>2, <2>1, <2>2
    <3> QED
      BY <1>4, <2>2, <3>1 DEF LastAnswerTells
  <2>3. CASE IsDeciding(Head(inbox)) /\ (connected' => Grants(Head(inbox)))
    <3>1. Decides(1) /\ \A k \in DOMAIN inbox : 1 < k => ~Decides(k)
      BY <1>1, <1>2, <2>1, <2>3
    <3> QED
      BY <1>1, <1>4, <2>3, <3>1 DEF LastAnswerTells
  <2> QED
    BY <2>2, <2>3
<1>5. ASSUME NEW n \in DOMAIN inbox', IsDeciding(inbox'[n]),
             \A k \in DOMAIN inbox' : n < k => ~IsDeciding(inbox'[k]), Grants(inbox'[n])
      PROVE  state = "AUTHENTICATED"
  <2>1. n \in Nat /\ n + 1 \in DOMAIN inbox /\ Decides(n + 1) /\ Grants(inbox[n + 1])
    BY <1>1, <1>2, <1>5
  <2>2. ASSUME NEW k \in DOMAIN inbox, n + 1 < k PROVE ~Decides(k)
    <3>1. k # 1 /\ k \in Nat
      BY <1>1, <2>2
    <3>2. k - 1 \in DOMAIN inbox' /\ inbox'[k - 1] = inbox[k] /\ n < k - 1
      BY <1>1, <2>1, <2>2, <3>1
    <3> QED
      BY <1>2, <1>5, <3>2
  <2> QED
    BY <2>1, <2>2 DEF LastAnswerTells
<1> QED
  BY <1>3, <1>4, <1>5 DEF LastAnswerTells

LEMMA LastAnswerAdded ==
  ASSUME MessagesOK, LastAnswerTells, connected' = connected, NEW m \in Message, inbox' = Append(inbox, m),
         \/ ~IsDeciding(m) /\ state' = state
         \/ IsDeciding(m) /\ (Grants(m) => state' = "AUTHENTICATED")
  PROVE  LastAnswerTells'
<1>1. /\ \A n \in DOMAIN inbox' :
            (n \in DOMAIN inbox /\ inbox'[n] = inbox[n]) \/ (n = Len(inbox) + 1 /\ inbox'[n] = m)
      /\ \A n \in DOMAIN inbox : n \in DOMAIN inbox' /\ inbox'[n] = inbox[n]
      /\ Len(inbox) + 1 \in DOMAIN inbox' /\ inbox'[Len(inbox) + 1] = m
  BY MessagesAreSeqs, AppendHolds
<1>2. \A n \in DOMAIN inbox : n < Len(inbox) + 1
  BY MessagesAreSeqs
<1>3. \A n \in DOMAIN inbox : Decides(n) <=> IsDeciding(inbox[n])
  BY DEF Decides, IsDeciding
<1>4. \A n \in DOMAIN inbox' : Decides(n)' <=> IsDeciding(inbox'[n])
  BY DEF Decides, IsDeciding
<1>5. ASSUME connected', \A n \in DOMAIN inbox' : ~IsDeciding(inbox'[n])
      PROVE  state' = "AUTHENTICATED"
  BY <1>1, <1>3, <1>5 DEF LastAnswerTells
<1>6. ASSUME NEW n \in DOMAIN inbox', IsDeciding(inbox'[n]),
             \A k \in DOMAIN inbox' : n < k => ~IsDeciding(inbox'[k]), Grants(inbox'[n])
      PROVE  state' = "AUTHENTICATED"
  <2>1. CASE n = Len(inbox) + 1
    BY <1>1, <1>6, <2>1
  <2>2. CASE n # Len(inbox) + 1
    <3>1. n \in DOMAIN inbox /\ inbox'[n] = inbox[n] /\ n < Len(inbox) + 1
      BY <1>1, <1>2, <2>2
    <3>2. ~IsDeciding(m)
      BY <1>1, <1>6, <3>1
    <3>3. \A k \in DOMAIN inbox : n < k => ~Decides(k)
      BY <1>1, <1>3, <1>6
    <3>4. Decides(n) /\ Grants(inbox[n])
      BY <1>3, <1>6, <3>1
    <3> QED
      BY <3>1, <3>2, <3>3, <3>4 DEF LastAnswerTells
  <2> QED
    BY <2>1, <2>2
<1> QED
  BY <1>4, <1>5, <1>6 DEF LastAnswerTells

LEMMA LastAnswerSame ==
  ASSUME LastAnswerTells, UNCHANGED << inbox, connected, state >>
  PROVE  LastAnswerTells'
BY DEF LastAnswerTells, Decides

(* The sessions, one kind of step after the other. *)

LEMMA EverydayIsNoSession ==
  ASSUME NEW r \in Everyday
  PROVE  r \in Request /\ ~IsSession(r) /\ ~IsOpening(r) /\ "from" \notin DOMAIN r
<1>1. r \in Request
  BY Requests
<1> QED
  BY <1>1, RequestFacts

LEMMA EverydayElements ==
  ASSUME NEW new \in Seq(Everyday)
  PROVE  new \in Seq(Request)
BY Requests

(* The requests that screens await. *)

LEMMA HasAppend ==
  ASSUME NEW U, NEW s \in Seq(U), NEW x \in U, NEW X, NEW S, X \subseteq S
  PROVE  /\ Has(Append(s, x), X) <=> Has(s, X) \/ x \in X
         /\ EndsOn(Append(s, x), X, S) => x \in X \/ (x \notin S /\ EndsOn(s, X, S))
<1>1. PICK t : t = Append(s, x)
  OBVIOUS
<1>2. PICK l \in Nat : l = Len(s)
  OBVIOUS
<1>3. /\ \A n \in DOMAIN t : (n \in DOMAIN s /\ t[n] = s[n]) \/ (n = l + 1 /\ t[n] = x)
      /\ \A n \in DOMAIN s : n \in DOMAIN t /\ t[n] = s[n]
      /\ l + 1 \in DOMAIN t /\ t[l + 1] = x
  BY <1>1, <1>2, AppendHolds
<1>4. \A n \in DOMAIN s : n < l + 1
  BY <1>2
<1>5. Has(t, X) <=> Has(s, X) \/ x \in X
  BY <1>3 DEF Has
<1>6. ASSUME EndsOn(t, X, S), x \notin X PROVE x \notin S /\ EndsOn(s, X, S)
  <2>1. PICK n \in DOMAIN t : t[n] \in X /\ \A k \in DOMAIN t : n < k => t[k] \notin S
    BY <1>6 DEF EndsOn
  <2>2. n \in DOMAIN s /\ t[n] = s[n] /\ n < l + 1
    BY <1>3, <1>4, <1>6, <2>1
  <2> QED
    BY <1>3, <2>1, <2>2 DEF EndsOn
<1> QED
  BY <1>1, <1>5, <1>6

LEMMA HasTail ==
  ASSUME NEW U, NEW s \in Seq(U), s # << >>, NEW X, NEW S
  PROVE  /\ Has(s, X) <=> Head(s) \in X \/ Has(Tail(s), X)
         /\ EndsOn(Tail(s), X, S) => EndsOn(s, X, S)
         /\ Head(s) \in X /\ ~Has(Tail(s), S) => EndsOn(s, X, S)
<1>1. PICK t, h : t = Tail(s) /\ h = Head(s)
  OBVIOUS
<1>2. /\ \A n \in DOMAIN t : n + 1 \in DOMAIN s /\ t[n] = s[n + 1]
      /\ \A n \in DOMAIN s : n # 1 => n - 1 \in DOMAIN t /\ t[n - 1] = s[n]
      /\ 1 \in DOMAIN s /\ h = s[1]
  BY <1>1, TailHolds
<1>3. DOMAIN s \subseteq Nat /\ DOMAIN t \subseteq Nat /\ \A n \in DOMAIN t : 0 < n
  <2>1. t \in Seq(U)
    BY <1>1
  <2> QED
    BY <2>1
<1>4. Has(s, X) <=> h \in X \/ Has(t, X)
  BY <1>2 DEF Has
<1>5. ASSUME EndsOn(t, X, S) PROVE EndsOn(s, X, S)
  <2>1. PICK n \in DOMAIN t : t[n] \in X /\ \A k \in DOMAIN t : n < k => t[k] \notin S
    BY <1>5 DEF EndsOn
  <2>2. n + 1 \in DOMAIN s /\ s[n + 1] \in X
    BY <1>2, <2>1
  <2>3. ASSUME NEW k \in DOMAIN s, n + 1 < k PROVE s[k] \notin S
    <3>1. k # 1 /\ n < k - 1
      BY <1>3, <2>3
    <3>2. k - 1 \in DOMAIN t /\ t[k - 1] = s[k]
      BY <1>2, <3>1
    <3> QED
      BY <2>1, <3>1, <3>2
  <2> QED
    BY <2>2, <2>3 DEF EndsOn
<1>6. ASSUME h \in X, ~Has(t, S) PROVE EndsOn(s, X, S)
  <2>1. \A k \in DOMAIN s : 1 < k => s[k] \notin S
    BY <1>2, <1>3, <1>6 DEF Has
  <2> QED
    BY <1>2, <1>6, <2>1 DEF EndsOn
<1> QED
  BY <1>1, <1>4, <1>5, <1>6

LEMMA HasConcat ==
  ASSUME NEW U, NEW s \in Seq(U), NEW t \in Seq(U), NEW X, NEW S, X \subseteq S, ~Has(t, S)
  PROVE  /\ Has(s \o t, X) <=> Has(s, X)
         /\ EndsOn(s \o t, X, S) => EndsOn(s, X, S)
<1>1. PICK b : b = s \o t
  OBVIOUS
<1>2. /\ \A n \in DOMAIN b :
           \/ n \in DOMAIN s /\ b[n] = s[n]
           \/ n - Len(s) \in DOMAIN t /\ b[n] = t[n - Len(s)]
      /\ \A n \in DOMAIN s : n \in DOMAIN b /\ b[n] = s[n]
  BY <1>1, ConcatHolds
<1>3. \A n \in DOMAIN b : b[n] \in S => n \in DOMAIN s /\ b[n] = s[n]
  BY <1>2 DEF Has
<1>4. Has(b, X) <=> Has(s, X)
  BY <1>2, <1>3 DEF Has
<1>5. EndsOn(b, X, S) => EndsOn(s, X, S)
  BY <1>2, <1>3 DEF EndsOn
<1> QED
  BY <1>1, <1>4, <1>5

LEMMA AnswerOf ==
  ASSUME NEW r \in Request, NEW ok \in BOOLEAN
  PROVE  /\ Response(r, ok) \in Message
         /\ \A q : Response(r, ok) \in AnswersOf(q) <=> q = r
         /\ Response(r, ok) \in SessionAnswer <=> r \in SessionRequest
BY Messages DEF AnswersOf, SessionAnswer

LEMMA AnswersAreOf == \A r \in SessionRequest : AnswersOf(r) \subseteq SessionAnswer
BY DEF AnswersOf, SessionAnswer

LEMMA EverydayIsNotAwaited == Everyday \cap Awaited = {} /\ SessionRequest \subseteq Awaited
<1>1. ASSUME NEW r \in Everyday PROVE r \notin Awaited
  <2>1. r.kind \notin {"connect", "disconnect"} /\ "from" \notin DOMAIN r
    BY EverydayIsNoSession DEF IsSession
  <2> QED
    BY <2>1 DEF Awaited, SessionRequest, OpeningRequest
<1> QED
  BY <1>1 DEF Awaited


\* A step that asks for nothing a screen awaits, and takes no such answer.
Carried ==
  /\ \A r \in Awaited : Pending(r)' <=> Pending(r)
  /\ \A r \in SessionRequest : LastAsked(r)' => LastAsked(r)

LEMMA PendingNext ==
  ASSUME NEW r
  PROVE  /\ Pending(r)' <=> Has(commands', {r}) \/ Has(inbox', AnswersOf(r))
         /\ LastAsked(r)' <=>
              \/ EndsOn(commands', {r}, SessionRequest)
              \/ ~Has(commands', SessionRequest) /\ EndsOn(inbox', AnswersOf(r), SessionAnswer)
BY DEF Pending, LastAsked

LEMMA EverydayIsCarried ==
  ASSUME MessagesOK, NEW new \in Seq(Everyday),
         \/ Sends(new)
         \/ /\ Handles(new)
            /\ Head(inbox).kind = "response" => Head(inbox).request \in Everyday
  PROVE  Carried
<1>1. commands \in Seq(Request) /\ inbox \in Seq(Message) /\ commands' = commands \o new
  BY MessagesAreSeqs DEF Sends, Handles
<1>2. new \in Seq(Request) /\ ~Has(new, Awaited) /\ ~Has(new, SessionRequest)
  BY EverydayElements, EverydayIsNotAwaited DEF Has
<1>3. ASSUME NEW r \in Awaited PROVE Has(commands', {r}) <=> Has(commands, {r})
  <2>1. PICK X : X = {r}
    OBVIOUS
  <2>2. X \subseteq Awaited
    BY <2>1
  <2>3. Has(commands', X) <=> Has(commands, X)
    BY <1>1, <1>2, <2>2, HasConcat
  <2> QED
    BY <2>1, <2>3
<1>4. Has(commands', SessionRequest) <=> Has(commands, SessionRequest)
  BY <1>1, <1>2, HasConcat
<1>5. ASSUME NEW r \in SessionRequest
      PROVE  EndsOn(commands', {r}, SessionRequest) => EndsOn(commands, {r}, SessionRequest)
  <2>1. PICK X : X = {r}
    OBVIOUS
  <2>2. X \subseteq SessionRequest
    BY <1>5, <2>1
  <2>3. EndsOn(commands', X, SessionRequest) => EndsOn(commands, X, SessionRequest)
    BY <1>1, <1>2, <2>2, HasConcat
  <2> QED
    BY <2>1, <2>3
<1>6. CASE inbox' = inbox
  <2>1. \A r \in Awaited : Pending(r)' <=> Pending(r)
    BY <1>3, <1>6, PendingNext DEF Pending
  <2>2. \A r \in SessionRequest : LastAsked(r)' => LastAsked(r)
    BY <1>4, <1>5, <1>6, PendingNext DEF LastAsked
  <2> QED
    BY <2>1, <2>2 DEF Carried
<1>7. CASE /\ inbox # << >> /\ inbox' = Tail(inbox)
           /\ Head(inbox).kind = "response" => Head(inbox).request \in Everyday
  <2>1. \A r \in Awaited : Head(inbox) \notin AnswersOf(r)
    BY <1>7, EverydayIsNotAwaited DEF AnswersOf, ResponseMessage
  <2>2. \A r \in Awaited : Has(inbox', AnswersOf(r)) <=> Has(inbox, AnswersOf(r))
    BY <1>1, <1>7, <2>1, HasTail
  <2>3. \A r \in SessionRequest :
          EndsOn(inbox', AnswersOf(r), SessionAnswer) => EndsOn(inbox, AnswersOf(r), SessionAnswer)
    BY <1>1, <1>7, HasTail
  <2>4. \A r \in Awaited : Pending(r)' <=> Pending(r)
    BY <1>3, <2>2, PendingNext DEF Pending
  <2>5. \A r \in SessionRequest : LastAsked(r)' => LastAsked(r)
    BY <1>4, <1>5, <2>3, PendingNext DEF LastAsked
  <2> QED
    BY <2>4, <2>5 DEF Carried
<1> QED
  BY <1>6, <1>7 DEF Sends, Handles

LEMMA AnswerIsCarried ==
  ASSUME MessagesOK, NEW ok \in BOOLEAN, Answers(ok)
  PROVE  Carried
<1>1. commands \in Seq(Request) /\ inbox \in Seq(Message) /\ commands # << >>
  BY MessagesAreSeqs DEF Answers
<1>2. PICK h \in Request : h = Head(commands)
  BY <1>1
<1>3. PICK m \in Message :
        /\ m = Response(h, ok)
        /\ \A q : m \in AnswersOf(q) <=> q = h
        /\ m \in SessionAnswer <=> h \in SessionRequest
  BY AnswerOf
<1>4. inbox' = Append(inbox, m) /\ commands' = Tail(commands)
  BY <1>2, <1>3 DEF Answers
<1>5. \A X : Has(commands, X) <=> h \in X \/ Has(commands', X)
  BY <1>1, <1>2, <1>4, HasTail
<1>6. ASSUME NEW r PROVE Has(inbox', AnswersOf(r)) <=> Has(inbox, AnswersOf(r)) \/ h = r
  <2>1. AnswersOf(r) \subseteq AnswersOf(r) /\ (m \in AnswersOf(r) <=> h = r)
    BY <1>3
  <2> QED
    BY <1>1, <1>4, <2>1, HasAppend
<1>7. ASSUME NEW r \in SessionRequest, LastAsked(r)' PROVE LastAsked(r)
  <2>1. CASE EndsOn(commands', {r}, SessionRequest)
    BY <1>1, <1>4, <2>1, HasTail DEF LastAsked
  <2>2. CASE ~Has(commands', SessionRequest) /\ EndsOn(inbox', AnswersOf(r), SessionAnswer)
    <3>1. m \in AnswersOf(r) \/ (m \notin SessionAnswer /\ EndsOn(inbox, AnswersOf(r), SessionAnswer))
      BY <1>1, <1>4, <2>2, AnswersAreOf, HasAppend
    <3>2. CASE m \in AnswersOf(r)
      <4>1. h \in {r}
        BY <1>3, <3>2
      <4> QED
        BY <1>1, <1>2, <1>4, <2>2, <4>1, HasTail DEF LastAsked
    <3>3. CASE m \notin SessionAnswer /\ EndsOn(inbox, AnswersOf(r), SessionAnswer)
      BY <1>3, <1>5, <2>2, <3>3 DEF LastAsked
    <3> QED
      BY <3>1, <3>2, <3>3
  <2> QED
    BY <1>7, <2>1, <2>2, PendingNext
<1>8. \A r \in Awaited : Pending(r)' <=> Pending(r)
  BY <1>5, <1>6, PendingNext DEF Pending
<1> QED
  BY <1>7, <1>8 DEF Carried

\* A transfer is taken to the worker, or some other message to the inbox.
LEMMA OtherIsCarried ==
  ASSUME MessagesOK,
         \/ UNCHANGED inbox /\ commands # << >> /\ Head(commands) \in Everyday /\ commands' = Tail(commands)
         \/ /\ UNCHANGED commands
            /\ \E m \in Message \ SessionAnswer :
                 inbox' = Append(inbox, m) /\ \A r \in Awaited : m \notin AnswersOf(r)
         \/ UNCHANGED << commands, inbox >>
  PROVE  Carried
<1>1. commands \in Seq(Request) /\ inbox \in Seq(Message)
  BY MessagesAreSeqs
<1>2. CASE UNCHANGED inbox /\ commands # << >> /\ Head(commands) \in Everyday /\ commands' = Tail(commands)
  <2>1. \A r \in Awaited : Head(commands) \notin {r}
    BY <1>2, EverydayIsNotAwaited
  <2>2. Head(commands) \notin SessionRequest
    BY <1>2, EverydayIsNotAwaited
  <2>3. \A r \in Awaited : Has(commands', {r}) <=> Has(commands, {r})
    BY <1>1, <1>2, <2>1, HasTail
  <2>4. Has(commands', SessionRequest) <=> Has(commands, SessionRequest)
    BY <1>1, <1>2, <2>2, HasTail
  <2>5. \A r \in SessionRequest :
          EndsOn(commands', {r}, SessionRequest) => EndsOn(commands, {r}, SessionRequest)
    BY <1>1, <1>2, HasTail
  <2>6. \A r \in Awaited : Pending(r)' <=> Pending(r)
    BY <1>2, <2>3, PendingNext DEF Pending
  <2>7. \A r \in SessionRequest : LastAsked(r)' => LastAsked(r)
    BY <1>2, <2>4, <2>5, PendingNext DEF LastAsked
  <2> QED
    BY <2>6, <2>7 DEF Carried
<1>3. ASSUME UNCHANGED commands, NEW m \in Message, m \notin SessionAnswer, inbox' = Append(inbox, m),
             \A r \in Awaited : m \notin AnswersOf(r)
      PROVE  Carried
  <2>1. \A r \in Awaited : Has(inbox', AnswersOf(r)) <=> Has(inbox, AnswersOf(r))
    BY <1>1, <1>3, HasAppend
  <2>2. ASSUME NEW r \in SessionRequest, EndsOn(inbox', AnswersOf(r), SessionAnswer)
        PROVE  EndsOn(inbox, AnswersOf(r), SessionAnswer)
    <3>1. AnswersOf(r) \subseteq SessionAnswer /\ m \notin AnswersOf(r)
      BY <1>3, AnswersAreOf
    <3> QED
      BY <1>1, <1>3, <2>2, <3>1, HasAppend
  <2>3. \A r \in Awaited : Pending(r)' <=> Pending(r)
    BY <1>3, <2>1, PendingNext DEF Pending
  <2>4. \A r \in SessionRequest : LastAsked(r)' => LastAsked(r)
    BY <1>3, <2>2, PendingNext DEF LastAsked
  <2> QED
    BY <2>3, <2>4 DEF Carried
<1>4. CASE UNCHANGED << commands, inbox >>
  BY <1>4, PendingNext DEF Carried, Pending, LastAsked
<1> QED
  BY <1>2, <1>3, <1>4

LEMMA CarriesIsCarried ==
  ASSUME MessagesOK, Carries
  PROVE  Carried
<1>1. ASSUME NEW m \in Message, inbox' = Append(inbox, m), UNCHANGED commands,
             m.kind = "response" => m.request \in Everyday
      PROVE  Carried
  <2>1. m \notin SessionAnswer /\ \A r \in Awaited : m \notin AnswersOf(r)
    BY <1>1, EverydayIsNotAwaited DEF AnswersOf, SessionAnswer, ResponseMessage
  <2> QED
    BY <1>1, <2>1, OtherIsCarried
<1>2. CASE StartTransfer
  <2>1. /\ UNCHANGED inbox /\ commands # << >> /\ Head(commands).kind = "transfer"
        /\ commands' = Tail(commands)
    BY <1>2 DEF StartTransfer, NextIs
  <2>2. Head(commands) \in Request
    BY <2>1, MessagesAreSeqs
  <2>3. Head(commands) \in Everyday
    BY <2>1, <2>2, RequestFacts DEF Everyday
  <2> QED
    BY <2>1, <2>3, OtherIsCarried
<1>3. CASE ProgressCallback
  BY <1>3, OtherIsCarried DEF ProgressCallback
<1>4. CASE TransferReturns
  <2>1. PICK ok \in BOOLEAN : inbox' = Append(inbox, Response(running[1], ok))
    BY <1>4 DEF TransferReturns
  <2>2. PICK r \in Request : r = running[1] /\ r.kind = "transfer"
    BY <1>4, RunningTyped DEF TransferReturns
  <2>3. r \in Everyday
    BY <2>2, RequestFacts DEF Everyday
  <2>4. Response(r, ok) \in Message /\ Response(r, ok).request = r
    BY <2>2, Messages
  <2> QED
    BY <1>1, <1>4, <2>1, <2>2, <2>3, <2>4 DEF TransferReturns
<1>5. CASE ForwardProgress
  <2>1. relay # << >> /\ inbox' = Append(inbox, Head(relay)) /\ UNCHANGED commands
    BY <1>5 DEF ForwardProgress
  <2>2. Head(relay) \in ProgressMessage
    BY <2>1 DEF MessagesOK
  <2>3. Head(relay) \in Message /\ Head(relay).kind # "response"
    BY <2>2, Messages DEF ProgressMessage
  <2> QED
    BY <1>1, <2>1, <2>3
<1> QED
  BY <1>2, <1>3, <1>4, <1>5 DEF Carries

LEMMA ExplorersCarried ==
  ASSUME ExplorersOK, Carried, UNCHANGED << connected, screens, shown, left >>
  PROVE  ExplorersOK'
<1>1. screens' = screens /\ shown' = shown /\ left' = left
  OBVIOUS
<1>2. (HasExplorer' <=> HasExplorer) /\ (Covered' <=> Covered) /\ \A s : Mounted(s)' <=> Mounted(s)
  BY <1>1 DEF HasExplorer, Covered, Mounted
<1>3. NumbersOK'
  BY <1>1 DEF ExplorersOK, NumbersOK, Carried
<1>4. ExplorerStays'
  <2>1. SessionRequest \subseteq Awaited
    BY DEF Awaited
  <2> QED
    BY <1>1, <1>2, <2>1 DEF ExplorersOK, ExplorerStays, Carried
<1>5. ExplorerComes'
  BY <1>1, <1>2 DEF ExplorersOK, ExplorerComes, Carried
<1> QED
  BY <1>3, <1>4, <1>5 DEF ExplorersOK

\* Of the answers, the one that a screen has awaited is taken.
LEMMA AwaitedRequest ==
  ASSUME NEW r \in Request
  PROVE  /\ "from" \in DOMAIN r => r \in Awaited
         /\ r.kind \in {"connect", "disconnect"} => r \in SessionRequest
         /\ r.kind = "list" /\ "from" \in DOMAIN r => r \in OpeningRequest /\ r \notin SessionRequest
<1>1. r \in SessionRequest => r.kind # "list"
  BY DEF SessionRequest
<1>2. r.kind \in {"connect", "disconnect"} => r \in SessionRequest
  BY DEF Request, Everyday, TransferRequest, ListRequest, ChangeRequest, OpeningRequest
<1>3. "from" \in DOMAIN r => r \in SessionRequest \union OpeningRequest
  BY EverydayIsNoSession DEF Request
<1> QED
  BY <1>1, <1>2, <1>3 DEF Awaited

LEMMA HasEither ==
  ASSUME NEW U, NEW s \in Seq(U), NEW t \in Seq(U), NEW X
  PROVE  Has(s \o t, X) <=> Has(s, X) \/ Has(t, X)
<1>1. PICK b : b = s \o t
  OBVIOUS
<1>2. PICK l \in Nat : l = Len(s)
  OBVIOUS
<1>3. /\ \A n \in DOMAIN b :
           \/ n \in DOMAIN s /\ b[n] = s[n]
           \/ n - l \in DOMAIN t /\ b[n] = t[n - l]
      /\ \A n \in DOMAIN s : n \in DOMAIN b /\ b[n] = s[n]
  BY <1>1, <1>2, ConcatHolds
<1>4. \A n \in DOMAIN t : n + l \in DOMAIN b /\ b[n + l] = t[n]
  BY <1>1, <1>2
<1> QED
  BY <1>1, <1>3, <1>4 DEF Has

LEMMA TakenAnswer ==
  ASSUME MessagesOK, NEW new \in Seq(OpeningRequest), Handles(new),
         NEW a \in Awaited, Head(inbox) \in AnswersOf(a)
  PROVE  /\ Pending(a)
         /\ \A q \in Awaited : Pending(q)' => Pending(q) \/ Has(new, {q})
         /\ \A q \in Awaited : Has(new, {q}) \/ (Pending(q) /\ q # a) => Pending(q)'
         /\ \A q \in SessionRequest : LastAsked(q)' => LastAsked(q)
         /\ a \in SessionRequest /\ (\A q \in SessionRequest : ~Pending(q)') => LastAsked(a)
<1>1. /\ commands \in Seq(Request) /\ inbox \in Seq(Message) /\ inbox # << >>
      /\ commands' = commands \o new /\ inbox' = Tail(inbox)
  BY MessagesAreSeqs DEF Handles
<1>2. new \in Seq(Request) /\ ~Has(new, SessionRequest)
  <2>1. \A o \in OpeningRequest : o \in Request /\ o \notin SessionRequest
    BY DEF Request, OpeningRequest, SessionRequest
  <2> QED
    BY <2>1 DEF Has
<1>3. \A X : Has(commands', X) <=> Has(commands, X) \/ Has(new, X)
  BY <1>1, <1>2, HasEither
<1>4. \A X : Has(inbox, X) <=> Head(inbox) \in X \/ Has(inbox', X)
  BY <1>1, HasTail
<1>5. \A q : q # a => Head(inbox) \notin AnswersOf(q)
  BY DEF AnswersOf
<1>6. Pending(a)
  BY <1>4 DEF Pending
<1>7. \A q \in Awaited : Pending(q)' => Pending(q) \/ Has(new, {q})
  BY <1>3, <1>4, PendingNext DEF Pending
<1>8. \A q \in Awaited : Has(new, {q}) \/ (Pending(q) /\ q # a) => Pending(q)'
  BY <1>3, <1>4, <1>5, PendingNext DEF Pending
<1>9. ASSUME NEW q \in SessionRequest, LastAsked(q)' PROVE LastAsked(q)
  <2>1. {q} \subseteq SessionRequest
    BY <1>9
  <2>2. /\ EndsOn(commands', {q}, SessionRequest) => EndsOn(commands, {q}, SessionRequest)
        /\ EndsOn(inbox', AnswersOf(q), SessionAnswer) => EndsOn(inbox, AnswersOf(q), SessionAnswer)
    BY <1>1, <1>2, <2>1, HasConcat, HasTail
  <2> QED
    BY <1>3, <1>9, <2>2, PendingNext DEF LastAsked
<1>10. ASSUME a \in SessionRequest, \A q \in SessionRequest : ~Pending(q)' PROVE LastAsked(a)
  <2>1. ~Has(commands, SessionRequest)
    <3>1. \A q \in SessionRequest : ~Has(commands', {q})
      BY <1>10, PendingNext
    <3>2. ~Has(commands', SessionRequest)
      BY <3>1 DEF Has
    <3> QED
      BY <1>3, <3>2
  <2>2. ~Has(inbox', SessionAnswer)
    <3>1. \A q \in SessionRequest : ~Has(inbox', AnswersOf(q))
      BY <1>10, PendingNext
    <3> QED
      BY <3>1 DEF Has, SessionAnswer, AnswersOf
  <2>3. EndsOn(inbox, AnswersOf(a), SessionAnswer)
    BY <1>1, <2>2, HasTail
  <2> QED
    BY <2>1, <2>3 DEF LastAsked
<1> QED
  BY <1>6, <1>7, <1>8, <1>9, <1>10

\* No screen is shown for it, as when the one that awaited it is gone.
LEMMA ExplorersTaken ==
  ASSUME MessagesOK, ExplorersOK, NEW new \in Seq(OpeningRequest), Handles(new),
         NEW a \in Awaited, Head(inbox) \in AnswersOf(a), UNCHANGED routeVars,
         \A o \in OpeningRequest : Has(new, {o}) => o.from = a.from,
         connected' => \/ connected /\ a \notin SessionRequest /\ ~Mounted(a.from)
                       \/ /\ a \in SessionRequest /\ a.kind = "connect"
                          /\ Opening(a.from) \in OpeningRequest /\ Has(new, {Opening(a.from)})
  PROVE  ExplorersOK'
<1>1. screens' = screens /\ shown' = shown /\ left' = left
  BY DEF routeVars
<1>2. (HasExplorer' <=> HasExplorer) /\ (Covered' <=> Covered) /\ \A s : Mounted(s)' <=> Mounted(s)
  BY <1>1 DEF HasExplorer, Covered, Mounted
<1>3. SessionRequest \subseteq Awaited /\ OpeningRequest \subseteq Awaited
  BY DEF Awaited
<1>4. \A q \in Awaited : Has(new, {q}) => q \in OpeningRequest /\ q.kind = "list" /\ q.from = a.from
  <2>1. \A q : Has(new, {q}) => q \in OpeningRequest
    BY DEF Has
  <2> QED
    BY <2>1 DEF OpeningRequest
<1>5. NumbersOK'
  <2>1. ASSUME NEW q \in Awaited, Pending(q)'
        PROVE  /\ q.from.number <= shown
               /\ q.kind = "connect" => q.from.kind = "form"
               /\ q.kind = "disconnect" => q.from.kind = "explorer"
    <3>1. CASE Pending(q)
      BY <3>1 DEF ExplorersOK, NumbersOK
    <3>2. CASE Has(new, {q})
      <4>1. q.kind = "list" /\ q.from = a.from
        BY <1>4, <3>2
      <4>2. a.from.number <= shown
        BY TakenAnswer DEF ExplorersOK, NumbersOK
      <4> QED
        BY <4>1, <4>2
    <3> QED
      BY <2>1, <3>1, <3>2, TakenAnswer
  <2> QED
    BY <1>1, <2>1 DEF ExplorersOK, NumbersOK
<1>6. ExplorerStays'
  <2>1. ASSUME NEW d \in SessionRequest, Pending(d)' PROVE Pending(d)
    <3>1. d.kind # "list"
      BY DEF SessionRequest
    <3> QED
      BY <1>3, <1>4, <2>1, <3>1, TakenAnswer
  <2> QED
    BY <1>1, <1>2, <2>1, TakenAnswer DEF ExplorersOK, ExplorerStays
<1>7. ExplorerComes'
  <2> SUFFICES ASSUME connected', ~left, ~HasExplorer
               PROVE  \E r \in Awaited : Pending(r)' /\ (r \in SessionRequest \/ Mounted(r.from))
    BY <1>1, <1>2 DEF ExplorerComes
  <2>1. CASE connected /\ a \notin SessionRequest /\ ~Mounted(a.from)
    <3>1. PICK r \in Awaited : Pending(r) /\ (r \in SessionRequest \/ Mounted(r.from))
      BY <2>1 DEF ExplorersOK, ExplorerComes
    <3>2. r # a
      BY <2>1, <3>1
    <3>3. Pending(r)'
      BY <3>1, <3>2, TakenAnswer
    <3> QED
      BY <3>1, <3>3
  <2>2. CASE /\ a \in SessionRequest /\ a.kind = "connect"
             /\ Opening(a.from) \in OpeningRequest /\ Has(new, {Opening(a.from)})
    <3>1. CASE Mounted(a.from)
      <4>1. PICK o \in OpeningRequest : o = Opening(a.from) /\ Has(new, {o})
        BY <2>2
      <4>2. o.from = a.from /\ o \in Awaited
        BY <1>3, <4>1
      <4>3. Pending(o)'
        BY <4>1, <4>2, TakenAnswer
      <4> QED
        BY <3>1, <4>2, <4>3
    <3>2. CASE \E q \in SessionRequest : Pending(q)'
      BY <1>3, <3>2
    <3>3. CASE ~Mounted(a.from) /\ \A q \in SessionRequest : ~Pending(q)'
      <4>1. LastAsked(a)
        BY <2>2, <3>3, TakenAnswer
      <4> QED
        BY <2>2, <3>3, <4>1 DEF ExplorersOK, ExplorerStays
    <3> QED
      BY <3>1, <3>2, <3>3
  <2> QED
    BY <2>1, <2>2
<1> QED
  BY <1>5, <1>6, <1>7 DEF ExplorersOK

\* The screens after a push: the new one, and beneath it those that were there, but
\* perhaps for the one that was on top.
LEMMA PushedScreens ==
  ASSUME RoutesOK, NEW new \in Screen, PushReplacement(new)
  PROVE  \E l \in Nat, top \in Nat :
           /\ Len(screens') = l /\ Len(screens) = top /\ top \in DOMAIN screens
           /\ l \in DOMAIN screens' /\ screens'[l] = new
           /\ \A n \in DOMAIN screens' :
                n # l => n < l /\ n \in DOMAIN screens /\ screens'[n] = screens[n]
           /\ \A n \in DOMAIN screens :
                n # top \/ l # top => n < l /\ n \in DOMAIN screens' /\ screens'[n] = screens[n]
<1>1. PICK top \in Nat : top = Len(screens) /\ top # 0 /\ DOMAIN screens = 1..top
  BY DEF RoutesOK
<1>2. screens \in Seq(Screen)
  BY DEF RoutesOK
<1>3. CASE screens' = Append(screens, new)
  <2>1. PICK l \in Nat : l = top + 1
    OBVIOUS
  <2>2. /\ Len(screens') = l /\ DOMAIN screens' = 1..l /\ screens'[l] = new
        /\ \A n \in 1..top : screens'[n] = screens[n]
    BY <1>1, <1>2, <1>3, <2>1
  <2>3. l \in 1..l /\ \A n \in 1..l : n # l => n < l /\ n \in 1..top
    BY <2>1
  <2>4. \A n \in 1..top : n < l /\ n \in 1..l
    BY <2>1
  <2>5. top \in 1..top
    BY <1>1
  <2> QED
    BY <1>1, <2>2, <2>3, <2>4, <2>5
<1>4. CASE screens' = Append(Front(screens), new)
  <2>1. PICK k \in Nat : k = top - 1
    BY <1>1
  <2>2. PICK rest : rest = Front(screens)
    OBVIOUS
  <2>3. rest = [i \in 1..k |-> screens[i]]
    BY <1>1, <2>1, <2>2 DEF Front
  <2>4. \A i \in 1..k : screens[i] \in Screen
    BY <1>1, <1>2, <2>1
  <2>5. rest \in Seq(Screen) /\ Len(rest) = k /\ \A i \in 1..k : rest[i] = screens[i]
    BY <2>3, <2>4
  <2>6. k + 1 = top
    BY <2>1
  <2>7. screens' = Append(rest, new)
    BY <1>4, <2>2
  <2>8. /\ Len(screens') = k + 1 /\ DOMAIN screens' = 1..(k + 1) /\ screens'[k + 1] = new
        /\ \A n \in 1..k : screens'[n] = rest[n]
    BY <2>5, <2>7
  <2>9. /\ Len(screens') = top /\ DOMAIN screens' = 1..top /\ screens'[top] = new
        /\ \A n \in 1..k : screens'[n] = screens[n]
    BY <2>5, <2>6, <2>8
  <2>10. top \in 1..top /\ \A n \in 1..top : n # top => n < top /\ n \in 1..k
    BY <1>1, <2>1
  <2> QED
    BY <1>1, <2>9, <2>10
<1> QED
  BY <1>3, <1>4 DEF PushReplacement

\* A screen is shown for it.
LEMMA ExplorersReplaced ==
  ASSUME MessagesOK, ExplorersOK, RoutesOK, Handles(<< >>),
         NEW a \in Awaited, Head(inbox) \in AnswersOf(a), Mounted(a.from),
         NEW new \in Screen, PushReplacement(new), new.number = shown + 1,
         \/ /\ new.kind = "form" /\ ~connected'
            /\ a \in SessionRequest /\ a.kind = "disconnect"
         \/ new.kind = "explorer"
  PROVE  ExplorersOK'
<1>1. shown \in Nat /\ shown' = shown + 1 /\ (left' => left /\ new.kind = "form")
      /\ (left /\ new.kind = "form" => left')
  <2>1. shown' = shown + 1 /\ left' = (left /\ new.kind = "form")
    BY DEF PushReplacement
  <2>2. shown \in Nat
    BY DEF RoutesOK
  <2>3. (left' => left /\ new.kind = "form") /\ (left /\ new.kind = "form" => left')
    BY <2>1, Zenon
  <2> QED
    BY <2>1, <2>2, <2>3
<1>2. PICK l \in Nat, top \in Nat :
        /\ Len(screens') = l /\ Len(screens) = top /\ top \in DOMAIN screens
        /\ l \in DOMAIN screens' /\ screens'[l] = new
        /\ \A n \in DOMAIN screens' :
             n # l => n < l /\ n \in DOMAIN screens /\ screens'[n] = screens[n]
        /\ \A n \in DOMAIN screens :
             n # top \/ l # top => n < l /\ n \in DOMAIN screens' /\ screens'[n] = screens[n]
  BY PushedScreens
<1>3. /\ \A n \in DOMAIN screens : screens[n] \in Screen
      /\ \A s \in Screen : s.number \in Nat
  <2>1. \A n \in DOMAIN screens : screens[n] \in Screen
    BY DEF RoutesOK
  <2>2. \A s \in Screen : s.number \in Nat
    BY DEF Screen
  <2> QED
    BY <2>1, <2>2
<1>4. SessionRequest \subseteq Awaited /\ \A r \in Awaited : r.from \in Screen
  BY DEF Awaited, SessionRequest, OpeningRequest
<1>5. \A s : Mounted(s) <=> \E n \in DOMAIN screens : screens[n] = s
  BY DEF Mounted, ToSet
<1>6. \A s : Mounted(s)' <=> \E n \in DOMAIN screens' : screens'[n] = s
  BY DEF Mounted, ToSet
<1>7. << >> \in Seq(OpeningRequest) /\ \A X : ~Has(<< >>, X)
  BY DEF Has
<1>8. /\ \A q \in Awaited : Pending(q)' => Pending(q)
      /\ \A q \in SessionRequest : LastAsked(q)' => LastAsked(q)
      /\ Pending(a)
  BY <1>7, TakenAnswer
<1>9. \A q \in Awaited : Pending(q) => q.from.number <= shown
  BY DEF ExplorersOK, NumbersOK
<1>10. NumbersOK'
  <2>1. ASSUME NEW n \in DOMAIN screens' PROVE screens'[n].number <= shown + 1
    <3>1. CASE n = l
      BY <1>1, <1>2, <3>1
    <3>2. CASE n # l
      <4>1. PICK i \in Nat : i = screens[n].number /\ i <= shown
        BY <1>2, <1>3, <3>2 DEF ExplorersOK, NumbersOK
      <4>2. screens'[n].number = i
        BY <1>2, <3>2, <4>1
      <4> QED
        BY <1>1, <4>1, <4>2
    <3> QED
      BY <3>1, <3>2
  <2>2. ASSUME NEW q \in Awaited, Pending(q)'
        PROVE  /\ q.from.number <= shown + 1
               /\ q.kind = "connect" => q.from.kind = "form"
               /\ q.kind = "disconnect" => q.from.kind = "explorer"
    <3>1. Pending(q)
      BY <1>8, <2>2
    <3>2. PICK i \in Nat : i = q.from.number
      BY <1>3, <1>4
    <3>3. i <= shown
      BY <1>9, <3>1, <3>2
    <3>4. q.from.number <= shown + 1
      BY <1>1, <3>2, <3>3
    <3> QED
      BY <3>1, <3>4 DEF ExplorersOK, NumbersOK
  <2> QED
    BY <1>1, <2>1, <2>2 DEF NumbersOK
\* A pending request comes from no new screen.
<1>11. \A q \in Awaited : Pending(q) => q.from # new
  <2>1. ASSUME NEW q \in Awaited, Pending(q), q.from = new PROVE FALSE
    BY <1>1, <1>9, <2>1
  <2> QED
    BY <2>1
<1>12. CASE new.kind = "explorer"
  <2>1. HasExplorer'
    BY <1>2, <1>12 DEF HasExplorer
  <2>2. ASSUME NEW d \in SessionRequest, Pending(d)', d.kind = "disconnect", Mounted(d.from)'
        PROVE  Covered'
    <3>1. Pending(d) /\ d.from # new /\ d.from.kind = "explorer"
      BY <1>4, <1>8, <1>11, <2>2 DEF ExplorersOK, NumbersOK
    <3>2. PICK n \in DOMAIN screens' : screens'[n] = d.from
      BY <1>6, <2>2
    <3>3. n < l /\ screens'[n].kind = "explorer"
      BY <1>2, <3>1, <3>2
    <3> QED
      BY <1>2, <3>3 DEF Covered
  <2>3. ExplorerStays'
    BY <2>1, <2>2 DEF ExplorerStays
  <2>4. ExplorerComes'
    BY <2>1 DEF ExplorerComes
  <2> QED
    BY <1>10, <2>3, <2>4 DEF ExplorersOK
<1>13. CASE new.kind = "form" /\ ~connected' /\ a \in SessionRequest /\ a.kind = "disconnect"
  <2>1. ExplorerComes'
    BY <1>13 DEF ExplorerComes
  \* An explorer that was not on top, or is not replaced, is covered now.
  <2>2. ASSUME NEW n \in DOMAIN screens, screens[n].kind = "explorer", n # top \/ l # top
        PROVE  HasExplorer' /\ Covered'
    <3>1. n < l /\ n \in DOMAIN screens' /\ screens'[n].kind = "explorer"
      BY <1>2, <2>2
    <3> QED
      BY <1>2, <3>1 DEF HasExplorer, Covered
  <2>3. ASSUME NEW r \in SessionRequest, LastAsked(r)', r.kind = "connect", ~left', ~Mounted(r.from)',
               Pending(r)'
        PROVE  HasExplorer' /\ Covered'
    <3>1. LastAsked(r) /\ ~left /\ Pending(r) /\ r.from.kind = "form"
      BY <1>1, <1>4, <1>8, <1>13, <2>3 DEF ExplorersOK, NumbersOK
    <3>2. CASE ~Mounted(r.from)
      <4>1. Covered
        BY <1>8, <1>13, <2>3, <3>1, <3>2 DEF ExplorersOK, ExplorerStays
      <4>2. PICK n \in DOMAIN screens : n < top /\ screens[n].kind = "explorer"
        BY <1>2, <4>1 DEF Covered
      <4> QED
        BY <1>2, <2>2, <4>2
    <3>3. CASE Mounted(r.from)
      <4>1. PICK n \in DOMAIN screens : screens[n] = r.from
        BY <1>5, <3>3
      <4>2. n = top /\ l = top
        BY <1>2, <1>6, <2>3, <4>1
      <4>3. PICK k \in DOMAIN screens : screens[k] = a.from
        BY <1>5
      <4>4. a.from.kind = "explorer"
        BY <1>4, <1>8, <1>13 DEF ExplorersOK, NumbersOK
      <4>5. k # top
        BY <3>1, <4>1, <4>2, <4>3, <4>4
      <4> QED
        BY <2>2, <4>3, <4>4, <4>5
    <3> QED
      BY <3>2, <3>3
  <2>4. ASSUME NEW r \in SessionRequest, LastAsked(r)' PROVE Pending(r)'
    BY <2>4, PendingNext DEF EndsOn, Has
  <2>5. ExplorerStays'
    BY <2>3, <2>4 DEF ExplorerStays
  <2> QED
    BY <1>10, <2>1, <2>5 DEF ExplorersOK
<1> QED
  BY <1>12, <1>13

\* Users connect from a form, and disconnect from an explorer.
LEMMA ExplorersAsked ==
  ASSUME MessagesOK, ExplorersOK, RoutesOK, NEW r \in SessionRequest, r.from = Top,
         \/ r.kind = "connect" /\ Top.kind = "form"
         \/ r.kind = "disconnect" /\ Top.kind = "explorer",
         commands' = Append(commands, r), UNCHANGED << inbox, connected >>, UNCHANGED routeVars
  PROVE  ExplorersOK'
<1>1. screens' = screens /\ shown' = shown /\ left' = left
  BY DEF routeVars
<1>2. (HasExplorer' <=> HasExplorer) /\ (Covered' <=> Covered) /\ \A s : Mounted(s)' <=> Mounted(s)
  BY <1>1 DEF HasExplorer, Covered, Mounted
<1>3. r \in Awaited /\ r \in Request /\ commands \in Seq(Request) /\ inbox' = inbox
  BY MessagesAreSeqs DEF Awaited, Request
<1>4. Len(screens) \in DOMAIN screens /\ Top = screens[Len(screens)]
  BY DEF RoutesOK, Top, Last
<1>5. Mounted(r.from) /\ r.from.number <= shown
  BY <1>4 DEF Mounted, ToSet, ExplorersOK, NumbersOK
<1>6. ASSUME NEW X PROVE Has(commands', X) <=> Has(commands, X) \/ r \in X
  <2>1. X \subseteq X
    OBVIOUS
  <2> QED
    BY <1>3, <2>1, HasAppend
<1>7. \A q \in Awaited : Pending(q)' <=> Pending(q) \/ q = r
  BY <1>3, <1>6, PendingNext DEF Pending
<1>8. ASSUME NEW q \in SessionRequest, LastAsked(q)' PROVE q = r
  <2>1. {q} \subseteq SessionRequest
    BY <1>8
  <2>2. EndsOn(commands', {q}, SessionRequest)
    BY <1>6, <1>8, PendingNext
  <2> QED
    BY <1>3, <2>1, <2>2, HasAppend
<1>9. NumbersOK'
  BY <1>1, <1>5, <1>7 DEF ExplorersOK, NumbersOK
<1>10. ExplorerStays'
  BY <1>2, <1>5, <1>8 DEF ExplorerStays
<1>11. ExplorerComes'
  BY <1>1, <1>2, <1>7 DEF ExplorersOK, ExplorerComes
<1> QED
  BY <1>9, <1>10, <1>11 DEF ExplorersOK

\* The user goes back from an explorer.
LEMMA ExplorersLeft ==
  ASSUME ExplorersOK, Carried, left', shown' = shown,
         \A n \in DOMAIN screens' : n \in DOMAIN screens /\ screens'[n] = screens[n]
  PROVE  ExplorersOK'
<1>1. NumbersOK'
  BY DEF ExplorersOK, NumbersOK, Carried
<1>2. ExplorerStays' /\ ExplorerComes'
  BY DEF ExplorerStays, ExplorerComes
<1> QED
  BY <1>1, <1>2 DEF ExplorersOK

\* The queue and the pane ask, or take an answer.
LEMMA SessionsNotConcerned ==
  ASSUME MessagesOK, SessionsOK, UNCHANGED sessionVars, NEW new \in Seq(Everyday),
         \/ Sends(new)
         \/ /\ Handles(new)
            /\ Head(inbox).kind = "response" => Head(inbox).request \in Everyday
  PROVE  SessionsOK'
<1>1. state' = state /\ connected' = connected /\ submits' = submits /\ UNCHANGED routeVars
  BY DEF sessionVars
<1>2. LastAnswerTells'
  <2>1. CASE Sends(new)
    BY <2>1, <1>1, LastAnswerSame DEF SessionsOK, Sends
  <2>2. CASE Handles(new) /\ (Head(inbox).kind = "response" => Head(inbox).request \in Everyday)
    <3>1. ~IsDeciding(Head(inbox))
      BY <2>2, EverydayIsNoSession DEF IsDeciding
    <3> QED
      BY <2>2, <3>1, <1>1, LastAnswerTakenOff DEF SessionsOK, Handles
  <2> QED
    BY <2>1, <2>2
<1>3. ExplorersOK'
  BY <1>1, EverydayIsCarried, ExplorersCarried DEF SessionsOK, routeVars
<1> QED
  BY <1>1, <1>2, <1>3 DEF SessionsOK, ConnectionOK, RoutesOK, routeVars

\* The worker handles a listing, a change or a transfer.
LEMMA SessionsWait ==
  ASSUME MessagesOK, SessionsOK, UNCHANGED sessionVars,
         \/ (\E ok \in BOOLEAN : Answers(ok)) /\ Head(commands).kind \in {"list", "change"}
         \/ Carries
  PROVE  SessionsOK'
<1>1. state' = state /\ connected' = connected /\ submits' = submits /\ UNCHANGED routeVars
  BY DEF sessionVars
<1>2. LastAnswerTells'
  <2>1. ASSUME NEW ok \in BOOLEAN, Answers(ok), Head(commands).kind \in {"list", "change"}
        PROVE  LastAnswerTells'
    <3>1. Head(commands) \in Request /\ Response(Head(commands), ok) \in Message
      BY <2>1, AnswersTyped, Messages
    <3>2. ~IsDeciding(Response(Head(commands), ok))
      BY <2>1, <3>1, Messages DEF IsDeciding, IsSession
    <3>3. inbox' = Append(inbox, Response(Head(commands), ok))
      BY <2>1 DEF Answers
    <3> QED
      BY <1>1, <3>1, <3>2, <3>3, LastAnswerAdded DEF SessionsOK
  <2>2. CASE StartTransfer \/ ProgressCallback
    <3>1. inbox' = inbox
      BY <2>2 DEF StartTransfer, ProgressCallback
    <3> QED
      BY <1>1, <3>1, LastAnswerSame DEF SessionsOK
  <2>3. CASE TransferReturns
    <3>1. PICK ok \in BOOLEAN : inbox' = Append(inbox, Response(running[1], ok))
      BY <2>3 DEF TransferReturns
    <3>2. running[1] \in Request /\ running[1].kind = "transfer"
      BY <2>3, RunningTyped DEF TransferReturns
    <3>3. Response(running[1], ok) \in Message /\ ~IsDeciding(Response(running[1], ok))
      BY <3>2, Messages DEF IsDeciding, IsSession
    <3> QED
      BY <1>1, <3>1, <3>3, LastAnswerAdded DEF SessionsOK
  <2>4. CASE ForwardProgress
    <3>1. relay # << >> /\ inbox' = Append(inbox, Head(relay))
      BY <2>4 DEF ForwardProgress
    <3>2. Head(relay) \in ProgressMessage
      BY <3>1 DEF MessagesOK
    <3>3. Head(relay) \in Message /\ ~IsDeciding(Head(relay))
      BY <3>2, Messages DEF IsDeciding, ProgressMessage
    <3> QED
      BY <1>1, <3>1, <3>3, LastAnswerAdded DEF SessionsOK
  <2> QED
    BY <2>1, <2>2, <2>3, <2>4 DEF Carries
<1>3. ExplorersOK'
  BY <1>1, AnswerIsCarried, CarriesIsCarried, ExplorersCarried DEF SessionsOK, routeVars
<1> QED
  BY <1>1, <1>2, <1>3 DEF SessionsOK, ConnectionOK, RoutesOK, routeVars

\* It connects or disconnects.
LEMMA SessionsAnswered ==
  ASSUME MessagesOK, SessionsOK, UNCHANGED << connected, submits >>, UNCHANGED routeVars,
         NEW ok \in BOOLEAN, Answers(ok),
         \/ /\ Head(commands).kind = "connect"
            /\ IF ok THEN state' = "AUTHENTICATED" ELSE state' \in {state, "CONNECTED_UNAUTHENTICATED"}
         \/ Head(commands).kind = "disconnect" /\ state' = "DISCONNECTED"
  PROVE  SessionsOK'
<1>1. Head(commands) \in Request /\ Response(Head(commands), ok) \in Message
  BY AnswersTyped, Messages
<1>2. PICK m \in Message : m = Response(Head(commands), ok)
  BY <1>1
<1>3. m.kind = "response" /\ m.request = Head(commands) /\ m.ok = ok
  BY <1>1, <1>2, Messages
<1>4. IsDeciding(m) /\ (Grants(m) => state' = "AUTHENTICATED")
  BY <1>3 DEF IsDeciding, IsSession, Grants
<1>5. inbox' = Append(inbox, m)
  BY <1>2 DEF Answers
<1>6. LastAnswerTells'
  BY <1>4, <1>5, LastAnswerAdded DEF SessionsOK
<1>7. ExplorersOK'
  BY AnswerIsCarried, ExplorersCarried DEF SessionsOK, routeVars
<1> QED
  BY <1>6, <1>7 DEF SessionsOK, ConnectionOK, RoutesOK, routeVars

LEMMA NothingNew ==
  ASSUME MessagesOK, commands' = commands
  PROVE  commands' = commands \o << >> /\ << >> \in Seq(Request) /\ << >> \in Seq(Everyday)
BY MessagesAreSeqs

\* A screen is shown on top of the others, or in the place of the one on top.
LEMMA ScreenShown ==
  ASSUME RoutesOK, NEW new \in Screen, PushReplacement(new)
  PROVE  RoutesOK'
<1>1. PICK rest : rest = Front(screens)
  OBVIOUS
<1>2. screens' = Append(screens, new) \/ screens' = Append(rest, new)
  BY <1>1 DEF PushReplacement
<1>3. rest \in Seq(Screen)
  <2>1. screens \in Seq(Screen) /\ Len(screens) \in Nat /\ Len(screens) # 0
    BY DEF RoutesOK
  <2>2. PICK n \in Nat : n = Len(screens) - 1
    BY <2>1
  <2>3. rest = [i \in 1..n |-> screens[i]]
    BY <1>1, <2>2 DEF Front
  <2>4. \A i \in 1..n : screens[i] \in Screen
    BY <2>1, <2>2
  <2> QED
    BY <2>2, <2>3, <2>4
<1>4. screens' \in Seq(Screen) /\ screens' # << >>
  <2>1. PICK old \in Seq(Screen) : screens' = Append(old, new)
    BY <1>2, <1>3 DEF RoutesOK
  <2>2. Len(old) + 1 \in DOMAIN screens' /\ screens' \in Seq(Screen)
    BY <2>1
  <2> QED
    BY <2>2
<1>5. left' \in BOOLEAN /\ popup' \in BOOLEAN
  BY Zenon DEF PushReplacement
<1>6. shown' \in Nat /\ popups' \in Nat
  <2>1. shown' = shown + 1 /\ popups' = popups
    BY DEF PushReplacement
  <2> QED
    BY <2>1 DEF RoutesOK
<1> QED
  BY <1>4, <1>5, <1>6 DEF RoutesOK

LEMMA TopIsScreen ==
  ASSUME RoutesOK
  PROVE  Top \in Screen
<1>1. screens \in Seq(Screen) /\ Len(screens) \in DOMAIN screens
  BY DEF RoutesOK
<1> QED
  BY <1>1 DEF Top, Last

\* The answer a screen awaits is taken; only the one to connect or disconnect
\* tells something of the connection.
LEMMA SessionsGoOn ==
  ASSUME MessagesOK, SessionsOK, inbox # << >>, inbox' = Tail(inbox), RoutesOK', ExplorersOK',
         UNCHANGED << state, submits >>, connected' \in BOOLEAN,
         \/ ~IsDeciding(Head(inbox)) /\ connected' = connected
         \/ IsDeciding(Head(inbox)) /\ (connected' => Grants(Head(inbox)))
  PROVE  SessionsOK'
<1>1. LastAnswerTells'
  BY LastAnswerTakenOff DEF SessionsOK
<1> QED
  BY <1>1 DEF SessionsOK, ConnectionOK

\* Users connect or disconnect.
LEMMA SessionsAsked ==
  ASSUME MessagesOK, SessionsOK, submits < MaxSubmits, submits' = submits + 1,
         UNCHANGED << state, connected, inbox >>, UNCHANGED routeVars,
         NEW r, commands' = Append(commands, r),
         \/ r = Connect /\ Top.kind = "form"
         \/ r = Disconnect /\ Top.kind = "explorer"
  PROVE  SessionsOK'
<1>1. submits' \in 0..MaxSubmits
  BY SessionAssumption DEF SessionsOK, ConnectionOK
<1>2. LastAnswerTells'
  BY LastAnswerSame DEF SessionsOK
<1>3. /\ r \in SessionRequest /\ r.from = Top
      /\ \/ r.kind = "connect" /\ Top.kind = "form"
         \/ r.kind = "disconnect" /\ Top.kind = "explorer"
  <2>1. Top \in Screen
    BY TopIsScreen DEF SessionsOK
  <2> QED
    BY <2>1 DEF Connect, Disconnect, SessionRequest
<1>4. ExplorersOK'
  BY <1>3, ExplorersAsked DEF SessionsOK
<1> QED
  BY <1>1, <1>2, <1>4 DEF SessionsOK, ConnectionOK, RoutesOK, routeVars

-----------------------------------------------------------------------------
(* The remote pane. *)

LEMMA DialogTyped ==
  ASSUME PaneOK, ListLeavesScreen
  PROVE  /\ dialog' \in [stage : {"closed", "menu", "dialog"}, path : Seq(Name), mounted : BOOLEAN]
         /\ dialog'.stage # "closed" => dialog'.path # << >>
BY DEF PaneOK, ListLeavesScreen

LEMMA ClosedTyped ==
  /\ Closed \in [stage : {"closed", "menu", "dialog"}, path : Seq(Name), mounted : BOOLEAN]
  /\ Closed.stage = "closed"
BY PathFacts DEF Closed

LEMMA PaneLoads ==
  ASSUME PaneOK, NEW path \in Path, StartLoading(path), requests' \in 0..MaxRequests
  PROVE  PaneOK' /\ isLoading'
<1>1. /\ dialog' \in [stage : {"closed", "menu", "dialog"}, path : Seq(Name), mounted : BOOLEAN]
      /\ dialog'.stage # "closed" => dialog'.path # << >>
  BY DialogTyped DEF StartLoading
<1> QED
  BY <1>1 DEF PaneOK, StartLoading

LEMMA PaneSame ==
  ASSUME PaneOK, UNCHANGED << currentPath, listing, isLoading, error, dialog >>,
         requests' \in 0..MaxRequests
  PROVE  PaneOK'
BY DEF PaneOK

LEMMA PaneRefreshed ==
  ASSUME PaneOK, NEW r, Refreshed(r)
  PROVE  PaneOK' /\ (isLoading' => isLoading \/ r # << >>)
<1>1. currentPath \in Path /\ requests \in 0..MaxRequests
  BY DEF PaneOK
<1>2. CASE r = << >> /\ UNCHANGED browserVars
  BY <1>1, <1>2, PaneSame DEF browserVars
<1>3. CASE r # << >> /\ StartLoading(currentPath) /\ UNCHANGED requests
  BY <1>1, <1>3, PaneLoads
<1> QED
  BY <1>2, <1>3 DEF Refreshed

\* A listing arrives.
LEMMA PaneListed ==
  ASSUME PaneOK, NEW m, m.request.kind = "list" => m.request.path \in Path, Listed(m),
         ListStays(m) \/ dialog' = Closed
  PROVE  PaneOK' /\ ~isLoading'
<1>3. /\ dialog' \in [stage : {"closed", "menu", "dialog"}, path : Seq(Name), mounted : BOOLEAN]
      /\ dialog'.stage # "closed" => dialog'.path # << >>
  <2>1. CASE dialog' = Closed
    BY <2>1, ClosedTyped
  <2>2. CASE UNCHANGED dialog
    BY <2>2 DEF PaneOK
  <2>3. CASE ListLeavesScreen
    BY <2>3, DialogTyped
  <2> QED
    BY <2>1, <2>2, <2>3 DEF ListStays
<1>1. CASE m.ok
  BY <1>1, <1>3 DEF PaneOK, Listed
<1>2. CASE ~m.ok
  BY <1>2, <1>3 DEF PaneOK, Listed
<1> QED
  BY <1>1, <1>2

LEMMA PaneReset ==
  ASSUME PaneOK, ResetPane, ListLeavesScreen \/ dialog' = Closed, UNCHANGED requests
  PROVE  PaneOK' /\ ~isLoading'
<1>1. /\ dialog' \in [stage : {"closed", "menu", "dialog"}, path : Seq(Name), mounted : BOOLEAN]
      /\ dialog'.stage # "closed" => dialog'.path # << >>
  BY DialogTyped, ClosedTyped
<1> QED
  BY <1>1, PathFacts DEF PaneOK, ResetPane

LEMMA SpinnerKept ==
  ASSUME MessagesOK, SpinnerAwaitsListing, NEW new \in Seq(Request),
         \/ Sends(new)
         \/ Handles(new) /\ (Head(inbox).kind = "response" => Head(inbox).request.kind # "list"),
         isLoading' => isLoading \/ \E n \in DOMAIN new : new[n].kind = "list"
  PROVE  SpinnerAwaitsListing'
<1>1. Count(new, OfKind("list")) \in Nat
      /\ (Count(new, OfKind("list")) > 0 <=> \E n \in DOMAIN new : new[n] \in OfKind("list"))
  BY HitsFinite
<1>2. Outstanding("list")' = Outstanding("list") + Count(new, OfKind("list"))
  <2>1. CASE Sends(new)
    BY <2>1, SendsCount
  <2>2. CASE Handles(new) /\ (Head(inbox).kind = "response" => Head(inbox).request.kind # "list")
    <3>1. Head(inbox) \notin AnswersTo("list")
      BY <2>2 DEF AnswersTo, ResponseMessage
    <3>2. One(Head(inbox), AnswersTo("list")) = 0
      BY <3>1 DEF One
    <3> QED
      BY <1>1, <2>2, <3>2, HandlesCount, OutstandingNow
  <2> QED
    BY <2>1, <2>2
<1>3. ASSUME \E n \in DOMAIN new : new[n].kind = "list"
      PROVE  Count(new, OfKind("list")) > 0
  BY <1>1, <1>3 DEF OfKind
<1> QED
  BY <1>1, <1>2, <1>3, OutstandingNow DEF SpinnerAwaitsListing

LEMMA SpinnerMoves ==
  ASSUME MessagesOK, SpinnerAwaitsListing, (\E ok \in BOOLEAN : Answers(ok)) \/ Carries,
         isLoading' = isLoading
  PROVE  SpinnerAwaitsListing'
BY AnswersCount, CarriesCount DEF SpinnerAwaitsListing

-----------------------------------------------------------------------------
(* The queue. *)

LEMMA LoopKeepsQueue ==
  ASSUME NEW list, NEW now, NEW bytes, Queue(list, now, bytes), NEW others, LoopDoes(now, others)
  PROVE  Queue(list, status', bytes)
<1>1. /\ status' \in [Task -> Status]
      /\ \A t \in Task :
           status'[t] # now[t] => now[t] = "queued" /\ status'[t] \in {"failed", "inProgress"}
  BY DEF LoopDoes
<1> QED
  BY <1>1 DEF Queue

LEMMA LoopFollows ==
  ASSUME NEW now \in [Task -> Status], NEW others, others \subseteq Task, Follows(now, others),
         LoopDoes(now, others)
  PROVE  StatusFollowsTransfer'
<1>1. \A u \in others : now[u] # "queued"
  BY DEF Follows
<1>2. \A u \in others : status'[u] = now[u]
  BY <1>1 DEF LoopDoes
<1>3. CASE waiting' = others /\ \A t \in Task : status'[t] \in {now[t], "failed"}
  BY <1>2, <1>3 DEF Follows, StatusFollowsTransfer
<1>4. ASSUME NEW t \in Task, waiting' = others \union {t}, status'[t] = "inProgress",
             \A u \in Task : u # t => status'[u] \in {now[u], "failed"}
      PROVE  StatusFollowsTransfer'
  BY <1>2, <1>4 DEF Follows, StatusFollowsTransfer
<1> QED
  BY <1>3, <1>4 DEF LoopDoes

-----------------------------------------------------------------------------
(* The steps of the desktop application. *)

LEMMA InvTyped ==
  ASSUME DesktopInv
  PROVE  /\ MessagesOK /\ QueueOK /\ NoTaskForgotten /\ TransfersOK
         /\ StatusFollowsTransfer /\ Follows(status, waiting)
         /\ PaneOK /\ SpinnerAwaitsListing /\ SessionsOK
         /\ tasks \in Seq(Task) /\ status \in [Task -> Status]
         /\ commands \in Seq(Request) /\ currentPath \in Path
         /\ waiting \subseteq Task
BY DEF DesktopInv, QueueOK, Queue, MessagesOK, PaneOK, TransfersOK, TransfersAreAwaited,
       StatusFollowsTransfer, Follows

\* A refresh of the pane asks for a listing.
LEMMA TurnLists ==
  ASSUME currentPath \in Path, NEW r \in Seq({List(currentPath)}), r # << >>,
         NEW new \in Seq(Everyday), NEW others, Turn(r, new, others)
  PROVE  \E n \in DOMAIN new : new[n].kind = "list"
<1>1. 1 \in DOMAIN r /\ r[1] = List(currentPath) /\ List(currentPath) \in Everyday
      /\ List(currentPath).kind = "list"
  BY Requests
<1>2. r \in Seq(Everyday)
  BY <1>1
<1>3. CASE new = r
  BY <1>1, <1>3
<1>4. ASSUME NEW t \in Task, new = Append(r, Transfer(t)) PROVE \E n \in DOMAIN new : new[n].kind = "list"
  <2>1. 1 \in DOMAIN new /\ new[1] = r[1]
    BY <1>1, <1>2, <1>4, Requests, AppendHolds
  <2> QED
    BY <1>1, <2>1
<1> QED
  BY <1>3, <1>4 DEF Turn

\* A turn of the loop in a handler of the user's input.
LEMMA StartKeepsInv ==
  ASSUME DesktopInv, NEW list, NEW now, NEW bytes, Queue(list, now, bytes), Follows(now, waiting),
         ProcessQueue(list, now), tasks' = list, progress' = bytes, retries' \in 0..MaxRetries,
         UNCHANGED << relay, running, inbox, ticks >>, UNCHANGED sessionVars
  PROVE  DesktopInv'
<1>0. list \in Seq(Task) /\ now \in [Task -> Status]
      /\ \A t \in Task : now[t] = "queued" => \E i \in DOMAIN list : list[i] = t
  BY DEF Queue
<1>1. CASE waiting # {} /\ status' = now /\ UNCHANGED << waiting, commands, browserVars >>
  <2>1. Sends(<< >>) /\ << >> \in Seq(Request) /\ << >> \in Seq(Everyday) /\ NoTransfer(<< >>)
    BY <1>1, InvTyped, NothingNew DEF Sends, NoTransfer
  <2>2. MessagesOK'
    BY <2>1, InvTyped, SendsTyped
  <2>3. QueueOK'
    BY <1>1, InvTyped DEF QueueOK
  <2>4. NoTaskForgotten'
    BY <1>1 DEF NoTaskForgotten
  <2>5. TransfersOK'
    BY <1>1, <2>1, InvTyped, TransfersStay
  <2>6. PaneOK' /\ isLoading' = isLoading
    BY <1>1, InvTyped, PaneSame DEF browserVars, PaneOK
  <2>7. SpinnerAwaitsListing'
    BY <2>1, <2>6, InvTyped, SpinnerKept
  <2>8. SessionsOK'
    BY <2>1, InvTyped, SessionsNotConcerned
  <2>9. StatusFollowsTransfer'
    BY <1>1 DEF StatusFollowsTransfer, Follows
  <2> QED
    BY <2>2, <2>3, <2>4, <2>5, <2>6, <2>7, <2>8, <2>9 DEF DesktopInv
<1>2. CASE waiting = {} /\ Loop(list, now, {}, 0)
  <2>1. LoopDoes(now, {})
    BY <1>0, <1>2, InvTyped, LoopEffect
  <2>2. PICK r \in Seq({List(currentPath)}), new \in Seq(Everyday) :
          commands' = commands \o new /\ Turn(r, new, {}) /\ Refreshed(r)
    BY <2>1 DEF LoopDoes
  <2>3. Sends(new) /\ new \in Seq(Request)
    BY <2>2, EverydayElements DEF Sends
  <2>4. MessagesOK'
    BY <2>3, InvTyped, SendsTyped
  <2>5. Queue(list, status', bytes)
    BY <2>1, LoopKeepsQueue
  <2>6. QueueOK'
    BY <2>5, InvTyped DEF QueueOK
  <2>7. NoTaskForgotten'
    BY <2>2, InvTyped, TurnTransfers DEF NoTaskForgotten
  <2>8. TransfersOK'
    BY <1>2, <2>2, <2>3, InvTyped, TransfersBegin
  <2>9. PaneOK' /\ (isLoading' => isLoading \/ r # << >>)
    BY <2>2, InvTyped, PaneRefreshed
  <2>10. r # << >> => \E n \in DOMAIN new : new[n].kind = "list"
    BY <2>2, InvTyped, TurnLists
  <2>11. SpinnerAwaitsListing'
    BY <2>3, <2>9, <2>10, InvTyped, SpinnerKept
  <2>12. SessionsOK'
    BY <2>3, InvTyped, SessionsNotConcerned
  <2>13. StatusFollowsTransfer'
    <3>1. Follows(now, {})
      BY <1>2
    <3> QED
      BY <1>0, <2>1, <3>1, LoopFollows
  <2> QED
    BY <2>4, <2>6, <2>7, <2>8, <2>9, <2>11, <2>12, <2>13 DEF DesktopInv
<1> QED
  BY <1>1, <1>2 DEF ProcessQueue

LEMMA EnqueueKeepsInv ==
  ASSUME DesktopInv, NEW t \in Task, Enqueue(t),
         UNCHANGED << relay, running, inbox, ticks >>, UNCHANGED sessionVars
  PROVE  DesktopInv'
<1>1. PICK list, now : list = Append(tasks, t) /\ now = [status EXCEPT ![t] = "queued"]
  OBVIOUS
<1>2. PICK bytes : bytes = progress
  OBVIOUS
<1>3. status[t] = "absent" /\ tasks' = list /\ ProcessQueue(tasks', now) /\ progress' = bytes
      /\ retries' = retries
  BY <1>1, <1>2 DEF Enqueue
<1>4. ProcessQueue(list, now)
  BY <1>3
<1>5. Queue(tasks, status, progress) /\ retries \in 0..MaxRetries
  BY InvTyped DEF QueueOK
<1>6. /\ list \in Seq(Task) /\ Len(tasks) \in Nat
      /\ \A i \in DOMAIN list :
           \/ i \in DOMAIN tasks /\ list[i] = tasks[i]
           \/ i = Len(tasks) + 1 /\ list[i] = t
      /\ \A i \in DOMAIN tasks : i \in DOMAIN list /\ list[i] = tasks[i]
      /\ Len(tasks) + 1 \in DOMAIN list /\ list[Len(tasks) + 1] = t
  BY <1>1, InvTyped, AppendHolds
<1>7. \A i \in DOMAIN tasks : tasks[i] # t
  BY <1>3, <1>5 DEF Queue
<1>8. Distinct(list)
  BY <1>5, <1>6, <1>7 DEF Queue, Distinct
<1>9. "queued" \in Status
  BY DEF Status
<1>10. now \in [Task -> Status] /\ now[t] = "queued" /\ \A u \in Task : u # t => now[u] = status[u]
  BY <1>1, <1>5, <1>9 DEF Queue
<1>11. \A i \in DOMAIN list : list[i] \in Task
  BY <1>6
<1>12. Queue(list, now, bytes)
  <2>1. \A i \in DOMAIN list : now[list[i]] # "absent"
    BY <1>5, <1>6, <1>7, <1>10, <1>11 DEF Queue
  <2>2. ASSUME NEW u \in Task, now[u] = "queued" PROVE \E i \in DOMAIN list : list[i] = u
    <3>1. CASE u = t
      BY <3>1, <1>6
    <3>2. CASE u # t
      <4>1. PICK i \in DOMAIN tasks : tasks[i] = u
        BY <1>5, <1>10, <2>2, <3>2 DEF Queue
      <4> QED
        BY <1>6, <4>1
    <3> QED
      BY <3>1, <3>2
  <2>3. \A u \in Task : now[u] = "completed" => bytes[u] = u
    BY <1>2, <1>5, <1>10 DEF Queue
  <2> QED
    BY <1>2, <1>5, <1>6, <1>8, <1>10, <2>1, <2>2, <2>3 DEF Queue
<1>13. Follows(now, waiting)
  BY <1>3, <1>10, InvTyped DEF Follows
<1> QED
  BY <1>3, <1>4, <1>5, <1>12, <1>13, StartKeepsInv

LEMMA RetryKeepsInv ==
  ASSUME DesktopInv, NEW t \in Task, RetryTask(t),
         UNCHANGED << relay, running, inbox, ticks >>, UNCHANGED sessionVars
  PROVE  DesktopInv'
<1>1. PICK now, bytes : now = [status EXCEPT ![t] = "queued"] /\ bytes = [progress EXCEPT ![t] = NoTask]
  OBVIOUS
<1>2. PICK list : list = tasks
  OBVIOUS
<1>3. /\ t \in ListedTasks /\ status[t] = "failed" /\ retries < MaxRetries
      /\ retries' = retries + 1 /\ progress' = bytes /\ ProcessQueue(list, now) /\ tasks' = list
  BY <1>1, <1>2 DEF RetryTask, MayRetry
<1>4. Queue(tasks, status, progress) /\ retries \in 0..MaxRetries
  BY InvTyped DEF QueueOK
<1>5. \E i \in DOMAIN tasks : tasks[i] = t
  BY <1>3 DEF ListedTasks, ToSet
<1>6. "queued" \in Status
  BY DEF Status
<1>7. now \in [Task -> Status] /\ now[t] = "queued" /\ \A u \in Task : u # t => now[u] = status[u]
  BY <1>1, <1>4, <1>6 DEF Queue
<1>8. bytes \in [Task -> Task \union {NoTask}] /\ \A u \in Task : u # t => bytes[u] = progress[u]
  BY <1>1, <1>4 DEF Queue
<1>9. \A i \in DOMAIN list : list[i] \in Task
  BY <1>2, InvTyped
<1>10. Queue(list, now, bytes)
  <2>1. \A i \in DOMAIN list : now[list[i]] # "absent"
    BY <1>2, <1>4, <1>7, <1>9 DEF Queue
  <2>2. \A u \in Task : now[u] = "queued" => \E i \in DOMAIN list : list[i] = u
    BY <1>2, <1>4, <1>5, <1>7 DEF Queue
  <2>3. \A u \in Task : now[u] = "completed" => bytes[u] = u
    BY <1>4, <1>7, <1>8 DEF Queue
  <2> QED
    BY <1>2, <1>4, <1>7, <1>8, <2>1, <2>2, <2>3 DEF Queue
<1>11. retries' \in 0..MaxRetries
  BY <1>3, <1>4, QueueAssumption
<1>12. Follows(now, waiting)
  BY <1>3, <1>7, InvTyped DEF Follows
<1> QED
  BY <1>3, <1>10, <1>11, <1>12, StartKeepsInv

\* A handler of the user's input that starts no loop: what the queue and the pane
\* keep is left to show.
LEMMA InputKeepsInv ==
  ASSUME DesktopInv, NEW new \in Seq(Everyday), Sends(new), NoTransfer(new),
         waiting' = waiting, UNCHANGED sessionVars,
         QueueOK', NoTaskForgotten', StatusFollowsTransfer', PaneOK',
         isLoading' => isLoading \/ \E n \in DOMAIN new : new[n].kind = "list"
  PROVE  DesktopInv'
<1>1. new \in Seq(Request)
  BY EverydayElements
<1>2. MessagesOK' /\ TransfersOK' /\ SpinnerAwaitsListing'
  BY <1>1, InvTyped, SendsTyped, TransfersStay, SpinnerKept
<1>3. SessionsOK'
  BY InvTyped, SessionsNotConcerned
<1> QED
  BY <1>2, <1>3 DEF DesktopInv

LEMMA CancelKeepsInv ==
  ASSUME DesktopInv, NEW t \in Task, CancelTask(t),
         UNCHANGED << relay, running, inbox, ticks >>, UNCHANGED sessionVars
  PROVE  DesktopInv'
<1>1. PICK now : now = [status EXCEPT ![t] = "cancelled"]
  OBVIOUS
<1>2. /\ status' = now
      /\ UNCHANGED << tasks, progress, waiting, retries, commands, browserVars >>
  BY <1>1 DEF CancelTask
<1>3. Queue(tasks, status, progress) /\ retries \in 0..MaxRetries /\ ticks \in 0..MaxTicks
  BY InvTyped DEF QueueOK
<1>4. "cancelled" \in Status
  BY DEF Status
<1>5. now \in [Task -> Status] /\ now[t] = "cancelled" /\ \A u \in Task : u # t => now[u] = status[u]
  BY <1>1, <1>3, <1>4 DEF Queue
<1>6. \A i \in DOMAIN tasks : tasks[i] \in Task
  BY InvTyped
<1>7. Queue(tasks, now, progress)
  <2>1. \A i \in DOMAIN tasks : now[tasks[i]] # "absent"
    BY <1>3, <1>5, <1>6 DEF Queue
  <2>2. \A u \in Task : now[u] = "queued" => \E i \in DOMAIN tasks : tasks[i] = u
    BY <1>3, <1>5 DEF Queue
  <2>3. \A u \in Task : now[u] = "completed" => progress[u] = u
    BY <1>3, <1>5 DEF Queue
  <2> QED
    BY <1>3, <1>5, <2>1, <2>2, <2>3 DEF Queue
<1>8. QueueOK'
  BY <1>2, <1>3, <1>7 DEF QueueOK
<1>9. NoTaskForgotten'
  BY <1>2, <1>5, InvTyped DEF NoTaskForgotten
<1>10. PaneOK' /\ isLoading' = isLoading
  BY <1>2, InvTyped, PaneSame DEF browserVars, PaneOK
<1>11. /\ Sends(<< >>) /\ << >> \in Seq(Everyday) /\ NoTransfer(<< >>)
  BY <1>2, InvTyped, NothingNew DEF Sends, NoTransfer
<1>12. status[t] \in {"queued", "inProgress"} /\ waiting' = waiting
  BY DEF CancelTask
<1>13. StatusFollowsTransfer'
  BY <1>2, <1>5, <1>12, InvTyped DEF StatusFollowsTransfer
<1> QED
  BY <1>2, <1>8, <1>9, <1>10, <1>11, <1>13, InputKeepsInv

LEMMA ClearKeepsInv ==
  ASSUME DesktopInv, ClearCompleted,
         UNCHANGED << relay, running, inbox, ticks >>, UNCHANGED sessionVars
  PROVE  DesktopInv'
<1>1. PICK list : list = Unfinished(tasks)
  OBVIOUS
<1>2. /\ tasks' = list
      /\ UNCHANGED << status, progress, waiting, retries, commands, browserVars >>
  BY <1>1 DEF ClearCompleted
<1>3. Queue(tasks, status, progress) /\ retries \in 0..MaxRetries /\ ticks \in 0..MaxTicks
  BY InvTyped DEF QueueOK
<1>4. Keeps(tasks, list, Len(tasks))
  BY <1>1, <1>3, InvTyped, UnfinishedKeeps DEF Queue
<1>5. DOMAIN tasks = 1..Len(tasks)
  BY InvTyped
<1>6. Queue(list, status, progress)
  <2>1. ASSUME NEW i \in DOMAIN list PROVE status[list[i]] # "absent"
    <3>1. PICK j \in 1..Len(tasks) : list[i] = tasks[j]
      BY <1>4 DEF Keeps
    <3> QED
      BY <1>3, <1>5, <3>1 DEF Queue
  <2>2. ASSUME NEW u \in Task, status[u] = "queued" PROVE \E i \in DOMAIN list : list[i] = u
    <3>1. PICK j \in DOMAIN tasks : tasks[j] = u
      BY <1>3, <2>2 DEF Queue
    <3>2. ~Over(tasks[j])
      BY <2>2, <3>1 DEF Over
    <3> QED
      BY <1>4, <1>5, <3>1, <3>2 DEF Keeps
  <2> QED
    BY <1>3, <1>4, <2>1, <2>2 DEF Queue, Keeps
<1>8. QueueOK'
  BY <1>2, <1>3, <1>6 DEF QueueOK
<1>9. NoTaskForgotten' /\ StatusFollowsTransfer'
  BY <1>2, InvTyped DEF NoTaskForgotten, StatusFollowsTransfer
<1>10. PaneOK' /\ isLoading' = isLoading
  BY <1>2, InvTyped, PaneSame DEF browserVars, PaneOK
<1>11. /\ Sends(<< >>) /\ << >> \in Seq(Everyday) /\ NoTransfer(<< >>)
  BY <1>2, InvTyped, NothingNew DEF Sends, NoTransfer
<1> QED
  BY <1>2, <1>8, <1>9, <1>10, <1>11, InputKeepsInv

\* The user's input in the pane: it touches no task and asks for what `new` holds.
LEMMA PaneInputKeepsInv ==
  ASSUME DesktopInv, NEW new \in Seq(Everyday), commands' = commands \o new, NoTransfer(new),
         UNCHANGED << relay, running, inbox, ticks >>, UNCHANGED queueVars, UNCHANGED sessionVars,
         PaneOK',
         isLoading' => isLoading \/ \E n \in DOMAIN new : new[n].kind = "list"
  PROVE  DesktopInv'
<1>1. Sends(new) /\ waiting' = waiting
  BY DEF Sends, queueVars
<1>2. QueueOK' /\ NoTaskForgotten' /\ StatusFollowsTransfer'
  BY InvTyped DEF queueVars, QueueOK, NoTaskForgotten, StatusFollowsTransfer
<1> QED
  BY <1>1, <1>2, InputKeepsInv

LEMMA LoadPathKeepsInv ==
  ASSUME DesktopInv, NEW path \in Path, LoadPath(path), requests' \in 0..MaxRequests,
         UNCHANGED << relay, running, inbox, ticks >>, UNCHANGED queueVars, UNCHANGED sessionVars
  PROVE  DesktopInv'
<1>1. PICK r : r = List(path) /\ r \in Everyday /\ r.kind = "list"
  BY Requests
<1>2. StartLoading(path) /\ commands' = Append(commands, r)
  BY <1>1 DEF LoadPath
<1>3. r \in Request /\ commands \in Seq(Request)
  BY <1>1, InvTyped, Requests
<1>4. commands' = commands \o << r >>
  BY <1>2, <1>3
<1>5. << r >> \in Seq(Everyday) /\ NoTransfer(<< r >>) /\ \E n \in DOMAIN << r >> : << r >>[n].kind = "list"
  BY <1>1 DEF NoTransfer
<1>6. PaneOK'
  BY <1>2, InvTyped, PaneLoads
<1> QED
  BY <1>4, <1>5, <1>6, PaneInputKeepsInv

LEMMA ChangeKeepsInv ==
  ASSUME DesktopInv, NEW path \in Seq(Name), commands' = Append(commands, Change(path)),
         UNCHANGED << relay, running, inbox, ticks >>, UNCHANGED queueVars, UNCHANGED sessionVars,
         PaneOK', isLoading' = isLoading
  PROVE  DesktopInv'
<1>1. PICK r : r = Change(path) /\ r \in Everyday /\ r.kind = "change"
  BY Requests
<1>3. r \in Request /\ commands \in Seq(Request)
  BY <1>1, InvTyped, Requests
<1>4. commands' = commands \o << r >>
  BY <1>1, <1>3
<1>5. << r >> \in Seq(Everyday) /\ NoTransfer(<< r >>)
  BY <1>1 DEF NoTransfer
<1> QED
  BY <1>4, <1>5, PaneInputKeepsInv

LEMMA PathsAround ==
  ASSUME NEW path \in Path
  PROVE  /\ path \in Seq(Name)
         /\ \A name \in Name : Append(path, name) \in Seq(Name) /\ Append(path, name) # << >>
         /\ \A name \in Name : Len(path) < MaxDepth => Append(path, name) \in Path
         /\ path # Root => Front(path) \in Path
<1>1. path \in Seq(Name) /\ Len(path) <= MaxDepth /\ Len(path) \in Nat /\ MaxDepth \in Nat
  BY PathFacts, BrowserAssumption
<1>2. ASSUME NEW name \in Name
      PROVE  /\ Append(path, name) \in Seq(Name) /\ Append(path, name) # << >>
             /\ Len(Append(path, name)) = Len(path) + 1
  BY <1>1
<1>3. ASSUME NEW name \in Name, Len(path) < MaxDepth PROVE Append(path, name) \in Path
  <2>1. Len(path) + 1 <= MaxDepth
    BY <1>1, <1>3
  <2> QED
    BY <1>2, <2>1, PathFacts
<1>4. path # Root => Front(path) \in Seq(Name) /\ Len(Front(path)) = Len(path) - 1
  <2>1. SUFFICES ASSUME path # << >>
                 PROVE  Front(path) \in Seq(Name) /\ Len(Front(path)) = Len(path) - 1
    BY DEF Root
  <2>2. Len(path) # 0
    BY <1>1, <2>1
  <2>3. Len(path) - 1 \in Nat /\ Len(path) - 1 <= Len(path)
    BY <1>1, <2>2
  <2>4. PICK n \in Nat : n = Len(path) - 1 /\ n <= Len(path)
    BY <2>3
  <2>5. Front(path) = [i \in 1..n |-> path[i]]
    BY <1>1, <2>4 DEF Front
  <2>6. \A i \in 1..n : path[i] \in Name
    BY <1>1, <2>4
  <2> QED
    BY <2>4, <2>5, <2>6
<1>5. path # Root => Front(path) \in Path
  BY <1>1, <1>4, PathFacts
<1> QED
  BY <1>1, <1>2, <1>3, <1>5

LEMMA BrowseKeepsInv ==
  ASSUME DesktopInv, Browse, UNCHANGED queueVars, UNCHANGED sessionVars
  PROVE  DesktopInv'
<1>1. UNCHANGED << relay, running, inbox, ticks >>
  BY DEF Browse
<1>2. /\ currentPath \in Path /\ requests \in 0..MaxRequests /\ MaxRequests \in Nat
      /\ requests < MaxRequests => requests + 1 \in 0..MaxRequests
  BY InvTyped, BrowserAssumption DEF PaneOK
<1>3. PICK path : path = currentPath
  OBVIOUS
<1>4. << >> \in Seq(Everyday) /\ NoTransfer(<< >>) /\ (commands' = commands => commands' = commands \o << >>)
  BY InvTyped, NothingNew DEF NoTransfer
<1>5. ASSUME PaneOK', isLoading' = isLoading, commands' = commands PROVE DesktopInv'
  BY <1>1, <1>4, <1>5, PaneInputKeepsInv
<1>6. CASE Refresh
  <2>1. LoadPath(path) /\ requests' \in 0..MaxRequests
    BY <1>2, <1>3, <1>6 DEF Refresh, MayAsk
  <2> QED
    BY <1>1, <1>2, <1>3, <2>1, LoadPathKeepsInv
<1>7. CASE NavigateUp
  <2>1. PICK up \in Path : up = Front(currentPath)
    BY <1>2, <1>7, PathsAround DEF NavigateUp
  <2>2. LoadPath(up) /\ requests' \in 0..MaxRequests
    BY <1>2, <1>7, <2>1 DEF NavigateUp
  <2> QED
    BY <1>1, <2>2, LoadPathKeepsInv
<1>8. ASSUME NEW name \in Name, OpenFolder(name) PROVE DesktopInv'
  <2>1. PICK below \in Path : below = Append(currentPath, name)
    BY <1>2, <1>8, PathsAround DEF OpenFolder
  <2>2. LoadPath(below) /\ requests' \in 0..MaxRequests
    BY <1>2, <1>8, <2>1 DEF OpenFolder, MayAsk
  <2> QED
    BY <1>1, <2>2, LoadPathKeepsInv
<1>9. ASSUME NEW name \in Name, Mkdir(name) PROVE DesktopInv'
  <2>1. PICK below \in Seq(Name) : below = Append(currentPath, name)
    BY <1>2, PathsAround
  <2>2. /\ commands' = Append(commands, Change(below)) /\ requests' \in 0..MaxRequests
        /\ UNCHANGED << currentPath, listing, isLoading, error, dialog >>
    BY <1>2, <1>9, <2>1 DEF Mkdir, MayAsk
  <2>3. PaneOK'
    BY <2>2, InvTyped, PaneSame
  <2> QED
    BY <1>1, <2>2, <2>3, ChangeKeepsInv
<1>10. ASSUME NEW name \in Name, OpenMenu(name) PROVE DesktopInv'
  <2>1. PICK below \in Seq(Name) : below = Append(currentPath, name) /\ below # << >>
    BY <1>2, PathsAround
  <2>2. /\ dialog' = [stage |-> "menu", path |-> below, mounted |-> TRUE] /\ requests' \in 0..MaxRequests
        /\ UNCHANGED << currentPath, listing, isLoading, error, commands >>
    BY <1>2, <1>10, <2>1 DEF OpenMenu, MayAsk
  <2>3. PaneOK'
    BY <2>1, <2>2, InvTyped DEF PaneOK
  <2> QED
    BY <1>5, <2>2, <2>3
<1>11. CASE Choose
  <2>1. UNCHANGED << currentPath, listing, isLoading, error, requests, commands >>
    BY <1>11 DEF Choose
  <2>2. /\ dialog' \in [stage : {"closed", "menu", "dialog"}, path : Seq(Name), mounted : BOOLEAN]
        /\ dialog'.stage # "closed" => dialog'.path # << >>
    <3>1. CASE dialog.mounted
      BY <1>11, <3>1, InvTyped DEF Choose, PaneOK
    <3>2. CASE ~dialog.mounted
      BY <1>11, <3>2 DEF Choose, Closed, Root
    <3> QED
      BY <3>1, <3>2
  <2>3. PaneOK'
    BY <2>1, <2>2, InvTyped DEF PaneOK
  <2> QED
    BY <1>5, <2>1, <2>3
<1>12. CASE Confirm
  <2>1. dialog.path \in Seq(Name) /\ dialog.path # << >>
    BY <1>12, InvTyped DEF Confirm, PaneOK
  <2>2. PICK name \in Name : name = Last(dialog.path)
    <3>1. Len(dialog.path) \in DOMAIN dialog.path
      BY <2>1
    <3> QED
      BY <2>1, <3>1 DEF Last
  <2>3. PICK below \in Seq(Name) : below = Append(currentPath, name)
    BY <1>2, PathsAround
  <2>4. /\ commands' = Append(commands, Change(below)) /\ dialog' = Closed
        /\ UNCHANGED << currentPath, listing, isLoading, error, requests >>
    BY <1>12, <2>2, <2>3 DEF Confirm
  <2>5. PaneOK'
    BY <2>4, InvTyped DEF PaneOK, Closed, Root
  <2> QED
    BY <1>1, <2>4, <2>5, ChangeKeepsInv
<1>13. CASE Dismiss
  <2>1. dialog' = Closed /\ UNCHANGED << currentPath, listing, isLoading, error, requests, commands >>
    BY <1>13 DEF Dismiss
  <2>2. PaneOK'
    BY <2>1, InvTyped DEF PaneOK, Closed, Root
  <2> QED
    BY <1>5, <2>1, <2>2
<1> QED
  BY <1>6, <1>7, <1>8, <1>9, <1>10, <1>11, <1>12, <1>13 DEF Browse

\* What the main isolate takes from its inbox.
LEMMA FirstInInbox ==
  ASSUME MessagesOK, inbox # << >>
  PROVE  /\ Head(inbox) \in Message
         /\ Head(inbox).kind \in {"progress", "response"}
         /\ Head(inbox).kind = "progress" => Head(inbox).task \in Task
         /\ Head(inbox).kind = "response" =>
              /\ Head(inbox).request \in Request /\ Head(inbox).ok \in BOOLEAN
              /\ Head(inbox).request.kind = "transfer" =>
                   Head(inbox).request \in Everyday /\ Head(inbox).request.task \in Task
              /\ Head(inbox).request.kind = "change" => Head(inbox).request \in Everyday
              /\ Head(inbox).request.kind = "list" =>
                   /\ Head(inbox).request.path \in Path
                   /\ Head(inbox).request \in Everyday \/ IsOpening(Head(inbox).request)
<1>1. PICK m \in Message : m = Head(inbox)
  BY TailHolds DEF MessagesOK
<1>2. /\ m.kind \in {"progress", "response"}
      /\ m.kind = "progress" => m.task \in Task
      /\ m.kind = "response" => m.request \in Request /\ m.ok \in BOOLEAN
  BY MessageFacts
<1>3. ASSUME NEW r \in Request
      PROVE  /\ r.kind = "transfer" => r \in Everyday /\ r.task \in Task
             /\ r.kind = "change" => r \in Everyday
             /\ r.kind = "list" => r.path \in Path /\ (r \in Everyday \/ IsOpening(r))
  <2>1. r.kind = "transfer" => r \in Everyday /\ r.task \in Task
    BY RequestFacts DEF Everyday
  <2>2. r \in Everyday \/ r.kind \in {"connect", "disconnect"} \/ (IsOpening(r) /\ r.kind = "list")
    BY RequestFacts DEF IsSession, IsOpening
  <2>3. r.kind = "list" => r.path \in Path
    BY RequestFacts
  <2> QED
    BY <2>1, <2>2, <2>3
<1> QED
  BY <1>1, <1>2, <1>3

LEMMA ProgressKeepsInv ==
  ASSUME DesktopInv, inbox # << >>, Head(inbox).kind = "progress", ShowProgress(Head(inbox)),
         inbox' = Tail(inbox), UNCHANGED << tasks, relay, running, ticks, retries >>,
         UNCHANGED sessionVars
  PROVE  DesktopInv'
<1>1. PICK t \in Task : t = Head(inbox).task
  BY InvTyped, FirstInInbox
<1>2. PICK active : active = Places(tasks, status, "inProgress")
  OBVIOUS
<1>3. /\ progress' = IF active = {} THEN progress ELSE [progress EXCEPT ![tasks[Min(active)]] = t]
      /\ UNCHANGED << status, waiting, commands, browserVars >>
  BY <1>1, <1>2 DEF ShowProgress
<1>4. Queue(tasks, status, progress) /\ retries \in 0..MaxRetries /\ ticks \in 0..MaxTicks
  BY InvTyped DEF QueueOK
<1>5. Queue(tasks, status, progress')
  <2>1. CASE active = {}
    BY <1>3, <1>4, <2>1
  <2>2. CASE active # {}
    <3>1. active \subseteq DOMAIN tasks /\ active \subseteq Nat
      BY <1>2, InvTyped DEF Places
    <3>6. PICK i \in active : i = Min(active)
      BY <2>2, <3>1, MinFacts
    <3>7. i \in DOMAIN tasks /\ status[tasks[i]] = "inProgress"
      BY <1>2, <3>6 DEF Places
    <3>8. tasks[i] \in Task
      BY <3>7, InvTyped
    <3>2. PICK u \in Task : u = tasks[Min(active)] /\ status[u] = "inProgress"
      BY <3>6, <3>7, <3>8
    <3>3. progress' = [progress EXCEPT ![u] = t]
      BY <1>3, <2>2, <3>2
    <3>4. progress' \in [Task -> Task \union {NoTask}] /\ \A v \in Task : v # u => progress'[v] = progress[v]
      BY <1>4, <3>3 DEF Queue
    <3>5. \A v \in Task : status[v] = "completed" => progress'[v] = v
      BY <1>4, <3>2, <3>4 DEF Queue
    <3> QED
      BY <1>4, <3>4, <3>5 DEF Queue
  <2> QED
    BY <2>1, <2>2
<1>6. Handles(<< >>) /\ << >> \in Seq(Request) /\ << >> \in Seq(Everyday) /\ NoTransfer(<< >>)
  BY <1>3, InvTyped, NothingNew DEF Handles, NoTransfer
<1>7. MessagesOK' /\ TransfersOK'
  BY <1>3, <1>6, InvTyped, SendsTyped, TransfersStay
<1>8. QueueOK'
  BY <1>3, <1>4, <1>5 DEF QueueOK
<1>9. NoTaskForgotten' /\ StatusFollowsTransfer'
  BY <1>3, InvTyped DEF NoTaskForgotten, StatusFollowsTransfer
<1>10. PaneOK' /\ isLoading' = isLoading
  BY <1>3, InvTyped, PaneSame DEF browserVars, PaneOK
<1>11. SpinnerAwaitsListing'
  BY <1>6, <1>10, InvTyped, SpinnerKept
<1>12. SessionsOK'
  BY <1>6, InvTyped, SessionsNotConcerned
<1> QED
  BY <1>7, <1>8, <1>9, <1>10, <1>11, <1>12 DEF DesktopInv

LEMMA ResumeKeepsInv ==
  ASSUME DesktopInv, inbox # << >>, Head(inbox).kind = "response", Resume(Head(inbox)),
         inbox' = Tail(inbox), UNCHANGED << tasks, relay, running, ticks, retries >>,
         UNCHANGED sessionVars
  PROVE  DesktopInv'
<1>1. Head(inbox).request.kind = "transfer"
  BY DEF Resume
<1>22. /\ Head(inbox).request \in Everyday /\ Head(inbox).request.task \in Task
       /\ Head(inbox).ok \in BOOLEAN
  BY <1>1, InvTyped, FirstInInbox
<1>23. PICK t \in Task : t = Head(inbox).request.task
  BY <1>22
<1>24. PICK ok : ok = Head(inbox).ok
  OBVIOUS
<1>2. PICK now : now = [status EXCEPT ![t] = IF ok THEN "completed" ELSE "failed"]
  OBVIOUS
<1>3. PICK bytes : bytes = IF ok THEN [progress EXCEPT ![t] = t] ELSE progress
  OBVIOUS
<1>4. progress' = bytes /\ Loop(tasks, now, waiting \ {t}, 1)
  BY <1>23, <1>24, <1>2, <1>3 DEF Resume, Ended
<1>5. Queue(tasks, status, progress) /\ retries \in 0..MaxRetries /\ ticks \in 0..MaxTicks
  BY InvTyped DEF QueueOK
<1>6. /\ now \in [Task -> Status] /\ \A u \in Task : u # t => now[u] = status[u]
      /\ now[t] \in {"completed", "failed"} /\ (now[t] = "completed" => ok)
  BY <1>2, <1>5 DEF Queue, Status
<1>7. /\ bytes \in [Task -> Task \union {NoTask}] /\ \A u \in Task : u # t => bytes[u] = progress[u]
      /\ ok => bytes[t] = t
  BY <1>3, <1>5 DEF Queue
<1>8. \A i \in DOMAIN tasks : tasks[i] \in Task
  BY InvTyped
<1>9. Queue(tasks, now, bytes)
  <2>1. \A i \in DOMAIN tasks : now[tasks[i]] # "absent"
    BY <1>5, <1>6, <1>8 DEF Queue
  <2>2. \A u \in Task : now[u] = "queued" => \E i \in DOMAIN tasks : tasks[i] = u
    BY <1>5, <1>6 DEF Queue
  <2>3. \A u \in Task : now[u] = "completed" => bytes[u] = u
    BY <1>5, <1>6, <1>7 DEF Queue
  <2> QED
    BY <1>5, <1>6, <1>7, <2>1, <2>2, <2>3 DEF Queue
<1>10. LoopDoes(now, waiting \ {t})
  <2>1. \A u \in Task : now[u] = "queued" => \E i \in DOMAIN tasks : tasks[i] = u
    BY <1>9 DEF Queue
  <2> QED
    BY <1>4, <1>6, <2>1, InvTyped, LoopEffect
<1>11. PICK r \in Seq({List(currentPath)}), new \in Seq(Everyday) :
         commands' = commands \o new /\ Turn(r, new, waiting \ {t}) /\ Refreshed(r)
  BY <1>10 DEF LoopDoes
<1>12. Handles(new) /\ new \in Seq(Request)
  BY <1>11, EverydayElements DEF Handles
<1>13. MessagesOK'
  BY <1>12, InvTyped, SendsTyped
<1>14. Queue(tasks, status', bytes)
  BY <1>9, <1>10, LoopKeepsQueue
<1>15. QueueOK'
  BY <1>4, <1>5, <1>14 DEF QueueOK
<1>16. TransfersOK' /\ Turn(r, new, {})
  BY <1>1, <1>23, <1>11, <1>12, InvTyped, TransfersGoOn
<1>17. NoTaskForgotten'
  BY <1>16, InvTyped, TurnTransfers DEF NoTaskForgotten
<1>18. PaneOK' /\ (isLoading' => isLoading \/ r # << >>)
  BY <1>11, InvTyped, PaneRefreshed
<1>19. r # << >> => \E n \in DOMAIN new : new[n].kind = "list"
  BY <1>16, InvTyped, TurnLists
<1>20. SpinnerAwaitsListing'
  BY <1>1, <1>12, <1>18, <1>19, InvTyped, SpinnerKept
<1>21. SessionsOK'
  BY <1>22, <1>12, InvTyped, SessionsNotConcerned
<1>25. StatusFollowsTransfer'
  <2>1. Follows(now, waiting \ {t})
    BY <1>6, InvTyped DEF Follows
  <2> QED
    BY <1>6, <1>10, <2>1, InvTyped, LoopFollows
<1> QED
  BY <1>13, <1>15, <1>16, <1>17, <1>18, <1>20, <1>21, <1>25 DEF DesktopInv

\* A listing ends a wait of the pane, and, when connect() awaits it, shows the
\* explorer: what that does to the screens is left to show.
LEMMA ListedKeepsInv ==
  ASSUME DesktopInv, inbox # << >>, Head(inbox).kind = "response", Listed(Head(inbox)),
         ListStays(Head(inbox)) \/ dialog' = Closed,
         inbox' = Tail(inbox), UNCHANGED << relay, running, ticks >>, UNCHANGED queueVars,
         RoutesOK', ExplorersOK', UNCHANGED << state, connected, submits >>
  PROVE  DesktopInv'
<1>1. Head(inbox).request.kind = "list" /\ commands' = commands
  BY DEF Listed
<1>2. Head(inbox).request.path \in Path
  BY <1>1, InvTyped, FirstInInbox
<1>3. Handles(<< >>) /\ << >> \in Seq(Request) /\ NoTransfer(<< >>)
  BY <1>1, InvTyped, NothingNew DEF Handles, NoTransfer
<1>4. waiting' = waiting
  BY DEF queueVars
<1>5. MessagesOK' /\ TransfersOK'
  BY <1>1, <1>3, <1>4, InvTyped, SendsTyped, TransfersStay
<1>6. QueueOK' /\ NoTaskForgotten' /\ StatusFollowsTransfer'
  BY InvTyped DEF queueVars, QueueOK, NoTaskForgotten, StatusFollowsTransfer
<1>7. PaneOK' /\ ~isLoading'
  BY <1>2, InvTyped, PaneListed
<1>8. SpinnerAwaitsListing'
  BY <1>7 DEF SpinnerAwaitsListing
<1>9. SessionsOK'
  <2>1. ~IsDeciding(Head(inbox))
    BY <1>1 DEF IsDeciding, IsSession
  <2>2. connected' \in BOOLEAN
    BY InvTyped DEF SessionsOK, ConnectionOK
  <2> QED
    BY <2>1, <2>2, InvTyped, SessionsGoOn
<1> QED
  BY <1>5, <1>6, <1>7, <1>8, <1>9 DEF DesktopInv

LEMMA ChangedKeepsInv ==
  ASSUME DesktopInv, inbox # << >>, Head(inbox).kind = "response", Changed(Head(inbox)),
         inbox' = Tail(inbox), UNCHANGED << relay, running, ticks >>, UNCHANGED queueVars,
         UNCHANGED sessionVars
  PROVE  DesktopInv'
<1>1. Head(inbox).request.kind = "change"
  BY DEF Changed
<1>2. Head(inbox).request \in Everyday
  BY <1>1, InvTyped, FirstInInbox
<1>4. PICK new \in Seq(Everyday) :
        /\ commands' = commands \o new /\ NoTransfer(new) /\ PaneOK'
        /\ isLoading' => isLoading \/ \E n \in DOMAIN new : new[n].kind = "list"
  <2>1. CASE UNCHANGED << browserVars, commands >>
    <3>1. commands' = commands \o << >> /\ << >> \in Seq(Everyday) /\ NoTransfer(<< >>)
      BY <2>1, InvTyped, NothingNew DEF NoTransfer
    <3>2. PaneOK' /\ isLoading' = isLoading
      BY <2>1, InvTyped, PaneSame DEF browserVars, PaneOK
    <3> QED
      BY <3>1, <3>2
  <2>2. CASE /\ StartLoading(currentPath)
             /\ commands' = Append(commands, List(currentPath)) /\ UNCHANGED requests
    <3>1. PICK path \in Path : path = currentPath
      BY InvTyped
    <3>2. PICK r \in Everyday : r = List(path) /\ r.kind = "list"
      BY Requests
    <3>3. commands' = commands \o << r >>
      BY <2>2, <3>1, <3>2, InvTyped, Requests
    <3>4. /\ << r >> \in Seq(Everyday) /\ NoTransfer(<< r >>)
          /\ \E n \in DOMAIN << r >> : << r >>[n].kind = "list"
      BY <3>2 DEF NoTransfer
    <3>5. requests' \in 0..MaxRequests
      BY <2>2, InvTyped DEF PaneOK
    <3>6. PaneOK'
      BY <2>2, <3>1, <3>5, InvTyped, PaneLoads
    <3> QED
      BY <3>3, <3>4, <3>6
  <2> QED
    BY <2>1, <2>2 DEF Changed
<1>5. Handles(new) /\ new \in Seq(Request)
  BY <1>4, EverydayElements DEF Handles
<1>6. waiting' = waiting
  BY DEF queueVars
<1>7. MessagesOK' /\ TransfersOK'
  BY <1>1, <1>4, <1>5, <1>6, InvTyped, SendsTyped, TransfersStay
<1>8. QueueOK' /\ NoTaskForgotten' /\ StatusFollowsTransfer'
  BY InvTyped DEF queueVars, QueueOK, NoTaskForgotten, StatusFollowsTransfer
<1>9. SpinnerAwaitsListing'
  BY <1>1, <1>4, <1>5, InvTyped, SpinnerKept
<1>10. SessionsOK'
  BY <1>2, <1>5, InvTyped, SessionsNotConcerned
<1> QED
  BY <1>4, <1>7, <1>8, <1>9, <1>10 DEF DesktopInv

\* The answer that a screen has awaited.
LEMMA HeadAnswers ==
  ASSUME MessagesOK, inbox # << >>, AwaitedByScreen(Head(inbox))
  PROVE  \E a \in Awaited :
           /\ a = Head(inbox).request /\ a \in Request
           /\ Head(inbox) \in AnswersOf(a) /\ Head(inbox).kind = "response"
<1>1. Head(inbox) \in Message /\ Head(inbox).kind = "response"
  BY FirstInInbox DEF AwaitedByScreen
<1>2. Head(inbox) \in ResponseMessage /\ Head(inbox).request \in Request
  BY <1>1, MessageFacts
<1>3. Head(inbox).request \in Awaited
  BY <1>2, AwaitedRequest DEF AwaitedByScreen
<1> QED
  BY <1>1, <1>2, <1>3 DEF AnswersOf

LEMMA ConnectedKeepsInv ==
  ASSUME DesktopInv, inbox # << >>, AwaitedByScreen(Head(inbox)), Connected(Head(inbox)),
         inbox' = Tail(inbox), UNCHANGED << relay, running, ticks >>, UNCHANGED queueVars,
         UNCHANGED << state, submits >>
  PROVE  DesktopInv'
<1>1. Head(inbox).request.kind = "connect" /\ connected' = Head(inbox).ok
      /\ UNCHANGED routeVars /\ Head(inbox).kind = "response"
  BY DEF Connected, AwaitedByScreen
<1>2. Head(inbox).request \in Request /\ Head(inbox).request.from \in Screen
  <2>1. Head(inbox).request \in Request
    BY <1>1, InvTyped, FirstInInbox
  <2>2. IsSession(Head(inbox).request)
    BY <1>1 DEF IsSession
  <2> QED
    BY <2>1, <2>2, RequestFacts
<1>10. PICK o \in OpeningRequest : o = Opening(Head(inbox).request.from) /\ o.kind = "list"
  <2>1. \A f \in Screen : Opening(f) \in OpeningRequest /\ Opening(f).kind = "list"
    BY DEF OpeningRequest, Opening
  <2> QED
    BY <1>2, <2>1
<1>3. PICK new \in Seq(Request) :
        /\ commands' = commands \o new /\ NoTransfer(new) /\ PaneOK'
        /\ new = IF Head(inbox).ok THEN << o >> ELSE << >>
        /\ isLoading' => isLoading \/ \E n \in DOMAIN new : new[n].kind = "list"
  <2>1. CASE ~Head(inbox).ok
    <3>1. UNCHANGED << browserVars, commands >>
      BY <2>1 DEF Connected
    <3>2. commands' = commands \o << >> /\ << >> \in Seq(Request) /\ NoTransfer(<< >>)
      BY <3>1, InvTyped, NothingNew DEF NoTransfer
    <3>3. PaneOK' /\ isLoading' = isLoading
      BY <3>1, InvTyped, PaneSame DEF browserVars, PaneOK
    <3> QED
      BY <2>1, <3>2, <3>3
  <2>2. CASE Head(inbox).ok
    <3>1. /\ StartLoading(Root) /\ requests' = requests
          /\ commands' = Append(commands, Opening(Head(inbox).request.from))
      BY <2>2 DEF Connected
    <3>2. PICK r \in Request : r = Opening(Head(inbox).request.from) /\ r.kind = "list" /\ r = o
      BY <1>2, <1>10, Requests
    <3>3. commands' = commands \o << r >>
      BY <3>1, <3>2, InvTyped
    <3>4. /\ << r >> \in Seq(Request) /\ NoTransfer(<< r >>)
          /\ \E n \in DOMAIN << r >> : << r >>[n].kind = "list"
      BY <3>2 DEF NoTransfer
    <3>5. requests' \in 0..MaxRequests /\ Root \in Path
      BY <3>1, InvTyped, PathFacts DEF PaneOK
    <3>6. PaneOK'
      BY <3>1, <3>5, InvTyped, PaneLoads
    <3> QED
      BY <2>2, <3>2, <3>3, <3>4, <3>6
  <2> QED
    BY <2>1, <2>2
<1>4. Handles(new)
  BY <1>3 DEF Handles
<1>5. waiting' = waiting
  BY DEF queueVars
<1>6. MessagesOK' /\ TransfersOK'
  BY <1>1, <1>3, <1>4, <1>5, InvTyped, SendsTyped, TransfersStay
<1>7. QueueOK' /\ NoTaskForgotten' /\ StatusFollowsTransfer'
  BY InvTyped DEF queueVars, QueueOK, NoTaskForgotten, StatusFollowsTransfer
<1>8. SpinnerAwaitsListing'
  BY <1>1, <1>3, <1>4, InvTyped, SpinnerKept
<1>9. SessionsOK'
  <2>1. IsDeciding(Head(inbox)) /\ (connected' => Grants(Head(inbox)))
    BY <1>1 DEF IsDeciding, IsSession, Grants
  <2>2. connected' \in BOOLEAN
    BY <1>1, InvTyped, FirstInInbox
  <2>3. RoutesOK'
    BY <1>1, InvTyped DEF SessionsOK, RoutesOK, routeVars
  <2>4. PICK a \in Awaited : a = Head(inbox).request /\ a \in Request /\ Head(inbox) \in AnswersOf(a)
    BY InvTyped, HeadAnswers
  <2>5. a \in SessionRequest /\ o.from = a.from /\ o = Opening(a.from)
    BY <1>1, <1>10, <2>4, AwaitedRequest DEF Opening
  <2>6. new \in Seq(OpeningRequest) /\ \A X : Has(new, X) <=> Head(inbox).ok /\ o \in X
    <3>1. CASE Head(inbox).ok
      BY <1>3, <3>1 DEF Has
    <3>2. CASE ~Head(inbox).ok
      BY <1>3, <3>2 DEF Has
    <3> QED
      BY <3>1, <3>2
  <2>7. ExplorersOK'
    <3>1. \A q \in OpeningRequest : Has(new, {q}) => q.from = a.from
      BY <2>5, <2>6
    <3>2. connected' => /\ a \in SessionRequest /\ a.kind = "connect"
                        /\ Opening(a.from) \in OpeningRequest /\ Has(new, {Opening(a.from)})
      BY <1>1, <2>4, <2>5, <2>6
    <3> QED
      BY <1>1, <1>4, <2>4, <2>6, <3>1, <3>2, InvTyped, ExplorersTaken DEF SessionsOK
  <2> QED
    BY <2>1, <2>2, <2>3, <2>7, InvTyped, SessionsGoOn
<1> QED
  BY <1>3, <1>6, <1>7, <1>8, <1>9 DEF DesktopInv

LEMMA DisconnectedKeepsInv ==
  ASSUME DesktopInv, inbox # << >>, AwaitedByScreen(Head(inbox)), Disconnected(Head(inbox)),
         inbox' = Tail(inbox), UNCHANGED << relay, running, ticks >>, UNCHANGED queueVars,
         UNCHANGED << state, submits >>
  PROVE  DesktopInv'
<1>1. /\ Head(inbox).request.kind = "disconnect" /\ connected' = FALSE
      /\ ResetPane /\ UNCHANGED << requests, commands >>
      /\ \/ Mounted(Head(inbox).request.from) /\ PushReplacement(Form(shown + 1))
         \/ ListLeavesScreen /\ UNCHANGED routeVars
      /\ Head(inbox).kind = "response"
  BY DEF Disconnected, AwaitedByScreen
<1>2. Handles(<< >>) /\ << >> \in Seq(Request) /\ NoTransfer(<< >>)
  BY <1>1, InvTyped, NothingNew DEF Handles, NoTransfer
<1>3. waiting' = waiting
  BY DEF queueVars
<1>4. MessagesOK' /\ TransfersOK'
  BY <1>1, <1>2, <1>3, InvTyped, SendsTyped, TransfersStay
<1>5. QueueOK' /\ NoTaskForgotten' /\ StatusFollowsTransfer'
  BY InvTyped DEF queueVars, QueueOK, NoTaskForgotten, StatusFollowsTransfer
<1>6. PaneOK' /\ ~isLoading'
  <2>1. ListLeavesScreen \/ dialog' = Closed
    BY <1>1 DEF PushReplacement
  <2> QED
    BY <1>1, <2>1, InvTyped, PaneReset
<1>7. SpinnerAwaitsListing'
  BY <1>6 DEF SpinnerAwaitsListing
<1>8. SessionsOK'
  <2>1. RoutesOK /\ Form(shown + 1) \in Screen
    BY InvTyped DEF SessionsOK, RoutesOK, Form, Screen
  <2>2. RoutesOK'
    <3>1. CASE PushReplacement(Form(shown + 1))
      BY <2>1, <3>1, ScreenShown
    <3>2. CASE UNCHANGED routeVars
      BY <2>1, <3>2 DEF RoutesOK, routeVars
    <3> QED
      BY <1>1, <3>1, <3>2
  <2>3. IsDeciding(Head(inbox)) /\ connected' = FALSE
    BY <1>1 DEF IsDeciding, IsSession
  <2>4. PICK a \in Awaited : a = Head(inbox).request /\ a \in Request /\ Head(inbox) \in AnswersOf(a)
    BY InvTyped, HeadAnswers
  <2>5. a \in SessionRequest /\ a.kind = "disconnect"
    BY <1>1, <2>4, AwaitedRequest
  <2>6. ExplorersOK'
    <3>1. CASE Mounted(a.from) /\ PushReplacement(Form(shown + 1))
      <4>1. PICK new \in Screen : new = Form(shown + 1)
        BY <2>1
      <4>2. new.kind = "form" /\ new.number = shown + 1
        BY <4>1 DEF Form
      <4> QED
        BY <1>2, <2>1, <2>3, <2>4, <2>5, <3>1, <4>1, <4>2, InvTyped, ExplorersReplaced DEF SessionsOK
    <3>2. CASE UNCHANGED routeVars
      <4>1. << >> \in Seq(OpeningRequest) /\ \A q \in OpeningRequest : ~Has(<< >>, {q})
        BY DEF Has
      <4> QED
        BY <1>1, <1>2, <2>4, <3>2, <4>1, InvTyped, ExplorersTaken DEF SessionsOK
    <3> QED
      BY <1>1, <2>4, <3>1, <3>2
  <2> QED
    BY <2>2, <2>3, <2>6, InvTyped, SessionsGoOn
<1> QED
  BY <1>4, <1>5, <1>6, <1>7, <1>8 DEF DesktopInv

LEMMA OpenedKeepsInv ==
  ASSUME DesktopInv, inbox # << >>, AwaitedByScreen(Head(inbox)), Opened(Head(inbox)),
         inbox' = Tail(inbox), UNCHANGED << relay, running, ticks >>, UNCHANGED queueVars,
         UNCHANGED << state, submits >>
  PROVE  DesktopInv'
<1>1. /\ Listed(Head(inbox)) /\ UNCHANGED connected
      /\ \/ Mounted(Head(inbox).request.from) /\ PushReplacement(Explorer(shown + 1))
         \/ /\ ~Mounted(Head(inbox).request.from)
            /\ ListStays(Head(inbox)) /\ UNCHANGED routeVars
      /\ Head(inbox).kind = "response"
  BY DEF Opened, AwaitedByScreen
<1>2. RoutesOK /\ Explorer(shown + 1) \in Screen
  BY InvTyped DEF SessionsOK, RoutesOK, Explorer, Screen
<1>3. RoutesOK'
  <2>1. CASE PushReplacement(Explorer(shown + 1))
    BY <1>2, <2>1, ScreenShown
  <2>2. CASE UNCHANGED routeVars
    BY <1>2, <2>2 DEF RoutesOK, routeVars
  <2> QED
    BY <1>1, <2>1, <2>2
<1>4. ListStays(Head(inbox)) \/ dialog' = Closed
  BY <1>1 DEF PushReplacement
<1>5. PICK a \in Awaited : a = Head(inbox).request /\ a \in Request /\ Head(inbox) \in AnswersOf(a)
  BY InvTyped, HeadAnswers
<1>6. a \notin SessionRequest /\ commands' = commands
  BY <1>1, <1>5, AwaitedRequest DEF AwaitedByScreen, Listed
<1>7. Handles(<< >>)
  BY <1>6, InvTyped, NothingNew DEF Handles
<1>8. ExplorersOK'
  <2>1. CASE Mounted(a.from) /\ PushReplacement(Explorer(shown + 1))
    <3>1. PICK new \in Screen : new = Explorer(shown + 1)
      BY <1>2
    <3>2. new.kind = "explorer" /\ new.number = shown + 1
      BY <3>1 DEF Explorer
    <3> QED
      BY <1>2, <1>5, <1>7, <2>1, <3>1, <3>2, InvTyped, ExplorersReplaced DEF SessionsOK
  <2>2. CASE ~Mounted(a.from) /\ UNCHANGED routeVars
    <3>1. << >> \in Seq(OpeningRequest) /\ \A q \in OpeningRequest : ~Has(<< >>, {q})
      BY DEF Has
    <3>2. connected' = connected
      BY <1>1
    <3> QED
      BY <1>5, <1>6, <1>7, <2>2, <3>1, <3>2, InvTyped, ExplorersTaken DEF SessionsOK
  <2> QED
    BY <1>1, <1>5, <2>1, <2>2
<1> QED
  BY <1>1, <1>3, <1>4, <1>8, ListedKeepsInv

LEMMA MainStepKeepsInv ==
  ASSUME DesktopInv, MainStep, ~AwaitedByScreen(Head(inbox)), UNCHANGED sessionVars
  PROVE  DesktopInv'
<1>1. /\ inbox # << >> /\ inbox' = Tail(inbox) /\ UNCHANGED << relay, running, ticks >>
      /\ UNCHANGED << tasks, retries >>
  BY DEF MainStep
<1>2. CASE Head(inbox).kind = "progress" /\ ShowProgress(Head(inbox))
  BY <1>1, <1>2, ProgressKeepsInv
<1>3. CASE Head(inbox).kind = "response" /\ Resume(Head(inbox))
  BY <1>1, <1>3, ResumeKeepsInv
<1>4. CASE /\ Head(inbox).kind = "response" /\ Listed(Head(inbox)) /\ ListStays(Head(inbox))
           /\ UNCHANGED << status, progress, waiting >>
  <2>1. UNCHANGED queueVars /\ UNCHANGED << state, connected, submits >>
    BY <1>1, <1>4 DEF queueVars, sessionVars
  <2>2. RoutesOK'
    BY InvTyped DEF SessionsOK, RoutesOK, sessionVars, routeVars
  <2>3. Head(inbox).request \in Everyday /\ commands' = commands
    <3>1. Head(inbox).request.kind = "list" /\ "from" \notin DOMAIN Head(inbox).request
      BY <1>4 DEF Listed, AwaitedByScreen
    <3> QED
      BY <1>1, <1>4, <3>1, InvTyped, FirstInInbox DEF IsOpening, Listed
  <2>4. Handles(<< >>) /\ << >> \in Seq(Everyday)
    BY <1>1, <2>3, InvTyped, NothingNew DEF Handles
  <2>5. ExplorersOK'
    <3>1. Carried
      BY <2>3, <2>4, InvTyped, EverydayIsCarried
    <3> QED
      BY <2>1, <3>1, InvTyped, ExplorersCarried DEF SessionsOK, sessionVars, routeVars
  <2> QED
    BY <1>1, <1>4, <2>1, <2>2, <2>5, ListedKeepsInv
<1>5. CASE /\ Head(inbox).kind = "response" /\ Changed(Head(inbox))
           /\ UNCHANGED << status, progress, waiting >>
  <2>1. UNCHANGED queueVars
    BY <1>1, <1>5 DEF queueVars
  <2> QED
    BY <1>1, <1>5, <2>1, ChangedKeepsInv
<1> QED
  BY <1>2, <1>3, <1>4, <1>5 DEF MainStep

LEMMA SessionStepKeepsInv ==
  ASSUME DesktopInv, SessionStep
  PROVE  DesktopInv'
<1>1. inbox # << >> /\ UNCHANGED << state, submits >>
  BY DEF SessionStep
<1>2. CASE ~AwaitedByScreen(Head(inbox)) /\ MainStep /\ UNCHANGED << connected, routeVars >>
  <2>1. UNCHANGED sessionVars
    BY <1>1, <1>2 DEF sessionVars
  <2> QED
    BY <1>2, <2>1, MainStepKeepsInv
<1>3. CASE /\ AwaitedByScreen(Head(inbox))
           /\ Connected(Head(inbox)) \/ Opened(Head(inbox)) \/ Disconnected(Head(inbox))
           /\ inbox' = Tail(inbox)
           /\ UNCHANGED << relay, running, ticks, queueVars >>
  <2>1. UNCHANGED << relay, running, ticks >> /\ UNCHANGED queueVars
    BY <1>3
  <2> QED
    BY <1>1, <1>3, <2>1, ConnectedKeepsInv, OpenedKeepsInv, DisconnectedKeepsInv
<1> QED
  BY <1>2, <1>3 DEF SessionStep

\* The steps that the desktop isolate does not see.
LEMMA UnseenKeepsInv ==
  ASSUME DesktopInv, (\E ok \in BOOLEAN : Answers(ok)) \/ Carries, MessagesOK', SessionsOK',
         UNCHANGED queueVars, UNCHANGED browserVars, ticks' \in 0..MaxTicks
  PROVE  DesktopInv'
<1>1. waiting' = waiting
  BY DEF queueVars
<1>2. TransfersOK'
  BY <1>1, InvTyped, TransfersMove
<1>3. QueueOK' /\ NoTaskForgotten' /\ StatusFollowsTransfer'
  BY InvTyped DEF queueVars, QueueOK, NoTaskForgotten, StatusFollowsTransfer
<1>4. PaneOK' /\ isLoading' = isLoading
  BY InvTyped, PaneSame DEF browserVars, PaneOK
<1>5. SpinnerAwaitsListing'
  BY <1>4, InvTyped, SpinnerMoves
<1> QED
  BY <1>2, <1>3, <1>4, <1>5 DEF DesktopInv

LEMMA AnswerIsAnswer ==
  ASSUME NEW ok \in BOOLEAN, commands # << >>, Head(commands).kind # "transfer", Answer(ok)
  PROVE  Answers(ok) /\ UNCHANGED << connected, submits >> /\ UNCHANGED routeVars
         /\ UNCHANGED queueVars /\ UNCHANGED browserVars
BY DEF Answer, Answers

LEMMA ConnectCallKeepsInv ==
  ASSUME DesktopInv, ConnectCall \/ DisconnectCall
  PROVE  DesktopInv'
<1>1. PICK ok \in BOOLEAN :
        /\ Answer(ok) /\ commands # << >>
        /\ \/ /\ Head(commands).kind = "connect"
              /\ IF ok THEN state' = "AUTHENTICATED" ELSE state' \in {state, "CONNECTED_UNAUTHENTICATED"}
           \/ Head(commands).kind = "disconnect" /\ state' = "DISCONNECTED"
  <2>1. CASE ConnectCall
    <3>1. NextIs("connect")
      BY <2>1 DEF ConnectCall
    <3>2. CASE Answer(TRUE) /\ state' = "AUTHENTICATED"
      BY <3>1, <3>2 DEF NextIs
    <3>3. CASE Answer(FALSE) /\ state' \in {state, "CONNECTED_UNAUTHENTICATED"}
      BY <3>1, <3>3 DEF NextIs
    <3> QED
      BY <2>1, <3>2, <3>3 DEF ConnectCall
  <2>2. CASE DisconnectCall
    BY <2>2 DEF DisconnectCall, NextIs
  <2> QED
    BY <2>1, <2>2
<1>2. Head(commands).kind # "transfer"
  BY <1>1
<1>3. /\ Answers(ok) /\ UNCHANGED << connected, submits >> /\ UNCHANGED routeVars
      /\ UNCHANGED queueVars /\ UNCHANGED browserVars
  BY <1>1, <1>2, AnswerIsAnswer
<1>4. MessagesOK'
  BY <1>3, InvTyped, AnswersTyped
<1>5. SessionsOK'
  BY <1>1, <1>3, InvTyped, SessionsAnswered
<1>6. ticks' \in 0..MaxTicks
  BY <1>3, InvTyped DEF Answers, QueueOK
<1> QED
  BY <1>3, <1>4, <1>5, <1>6, UnseenKeepsInv

LEMMA OtherCallKeepsInv ==
  ASSUME DesktopInv, TransferCall \/ OtherCall
  PROVE  DesktopInv'
<1>1. /\ StartTransfer \/ TransferReturns \/ ShortCall
      /\ UNCHANGED queueVars /\ UNCHANGED browserVars /\ UNCHANGED sessionVars
  BY DEF OtherCall, TransferCall
<1>2. ticks' = ticks
  BY <1>1 DEF StartTransfer, TransferReturns, ShortCall
<1>3. ticks' \in 0..MaxTicks
  BY <1>2, InvTyped DEF QueueOK
<1>4. CASE ShortCall
  <2>1. PICK ok \in BOOLEAN : Answers(ok) /\ Head(commands).kind \in {"list", "change"}
    <3>1. Head(commands).kind \in {"list", "change"} /\ commands # << >>
      BY <1>4 DEF ShortCall, NextIs
    <3>2. Head(commands).kind # "transfer"
      BY <3>1
    <3> QED
      BY <1>4, <3>1, <3>2 DEF ShortCall, Answers
  <2>2. MessagesOK'
    BY <2>1, InvTyped, AnswersTyped
  <2>3. SessionsOK'
    BY <1>1, <2>1, InvTyped, SessionsWait
  <2> QED
    BY <1>1, <1>3, <2>1, <2>2, <2>3, UnseenKeepsInv
<1>5. CASE StartTransfer \/ TransferReturns
  <2>1. Carries
    BY <1>5 DEF Carries
  <2>2. MessagesOK'
    BY <2>1, InvTyped, CarriesTyped
  <2>3. SessionsOK'
    BY <1>1, <2>1, InvTyped, SessionsWait
  <2> QED
    BY <1>1, <1>3, <2>1, <2>2, <2>3, UnseenKeepsInv
<1> QED
  BY <1>1, <1>4, <1>5

LEMMA PassedOnKeepsInv ==
  ASSUME DesktopInv, PassedOn
  PROVE  DesktopInv'
<1>1. /\ ForwardProgress \/ ProgressCallback
      /\ UNCHANGED queueVars /\ UNCHANGED browserVars /\ UNCHANGED sessionVars
  BY DEF PassedOn, RelayStep, CallbackStep
<1>2. ticks' \in 0..MaxTicks
  <2>1. ticks \in 0..MaxTicks /\ MaxTicks \in Nat
    BY InvTyped, TicksAssumption DEF QueueOK
  <2> QED
    BY <1>1, <2>1 DEF ForwardProgress, ProgressCallback
<1>3. Carries
  BY <1>1 DEF Carries
<1>4. MessagesOK'
  BY <1>3, InvTyped, CarriesTyped
<1>5. SessionsOK'
  BY <1>1, <1>3, InvTyped, SessionsWait
<1> QED
  BY <1>1, <1>2, <1>3, <1>4, <1>5, UnseenKeepsInv

LEMMA NavigateKeepsInv ==
  ASSUME DesktopInv, Navigate
  PROVE  DesktopInv'
<1>1. /\ UNCHANGED << state, connected, submits >> /\ shown' = shown
      /\ UNCHANGED << relay, running, inbox, ticks >> /\ commands' = commands
      /\ UNCHANGED queueVars /\ UNCHANGED browserVars
  BY DEF Navigate, vars, workerVars
<1>2. RoutesOK'
  <2>1. RoutesOK
    BY InvTyped DEF SessionsOK
  <2>2. CASE OpenPopup \/ ClosePopup
    <3>1. popup' \in BOOLEAN
      BY <2>2, Zenon DEF OpenPopup, ClosePopup
    <3>2. UNCHANGED << screens, left >> /\ (popups' = popups + 1 \/ popups' = popups)
      BY <2>2 DEF OpenPopup, ClosePopup
    <3> QED
      BY <1>1, <2>1, <3>1, <3>2 DEF RoutesOK
  <2>3. CASE GoBack
    <3>1. screens \in Seq(Screen) /\ Len(screens) \in Nat /\ Len(screens) > 1
      BY <2>1, <2>3 DEF RoutesOK, GoBack
    <3>2. PICK n \in Nat : n = Len(screens) - 1 /\ n # 0
      BY <3>1
    <3>3. screens' = [i \in 1..n |-> screens[i]]
      BY <2>3, <3>2 DEF GoBack, Front
    <3>4. \A i \in 1..n : screens[i] \in Screen
      BY <3>1, <3>2
    <3>5. screens' \in Seq(Screen) /\ 1 \in DOMAIN screens'
      BY <3>2, <3>3, <3>4
    <3>6. screens' # << >>
      BY <3>5
    <3> QED
      BY <1>1, <2>1, <2>3, <3>5, <3>6 DEF RoutesOK, GoBack
  <2> QED
    BY <2>2, <2>3 DEF Navigate
<1>10. ExplorersOK'
  <2>1. Carried
    BY <1>1, InvTyped, OtherIsCarried
  <2>2. CASE OpenPopup \/ ClosePopup
    <3>1. screens' = screens /\ shown' = shown /\ left' = left /\ connected' = connected
      BY <1>1, <2>2 DEF OpenPopup, ClosePopup
    <3> QED
      BY <2>1, <3>1, InvTyped, ExplorersCarried DEF SessionsOK
  <2>3. CASE GoBack
    <3>1. screens \in Seq(Screen) /\ Len(screens) > 1 /\ left'
      BY <2>3, InvTyped DEF SessionsOK, RoutesOK, GoBack
    <3>2. PICK n \in Nat : n = Len(screens) - 1
      BY <3>1
    <3>3. screens' = [i \in 1..n |-> screens[i]]
      BY <2>3, <3>2 DEF GoBack, Front
    <3>4. \A i \in DOMAIN screens' : i \in DOMAIN screens /\ screens'[i] = screens[i]
      BY <3>1, <3>2, <3>3
    <3> QED
      BY <1>1, <2>1, <3>1, <3>4, InvTyped, ExplorersLeft DEF SessionsOK
  <2> QED
    BY <2>2, <2>3 DEF Navigate
<1>3. SessionsOK'
  <2>1. LastAnswerTells'
    BY <1>1, InvTyped, LastAnswerSame DEF SessionsOK
  <2> QED
    BY <1>1, <1>2, <1>10, <2>1, InvTyped DEF SessionsOK, ConnectionOK
<1>4. Sends(<< >>) /\ << >> \in Seq(Request) /\ NoTransfer(<< >>)
  BY <1>1, InvTyped, NothingNew DEF Sends, NoTransfer
<1>5. waiting' = waiting
  BY <1>1 DEF queueVars
<1>6. MessagesOK' /\ TransfersOK'
  BY <1>4, <1>5, InvTyped, SendsTyped, TransfersStay
<1>7. QueueOK' /\ NoTaskForgotten' /\ StatusFollowsTransfer'
  BY <1>1, InvTyped DEF queueVars, QueueOK, NoTaskForgotten, StatusFollowsTransfer
<1>8. PaneOK' /\ isLoading' = isLoading
  BY <1>1, InvTyped, PaneSame DEF browserVars, PaneOK
<1>9. SpinnerAwaitsListing'
  BY <1>4, <1>8, InvTyped, SpinnerKept
<1> QED
  BY <1>3, <1>6, <1>7, <1>8, <1>9 DEF DesktopInv

LEMMA UserKeepsInv ==
  ASSUME DesktopInv, UserInput
  PROVE  DesktopInv'
<1>1. ASSUME NEW r, r \in {Connect, Disconnect},
             \/ r = Connect /\ Top.kind = "form"
             \/ r = Disconnect /\ Top.kind = "explorer",
             commands' = Append(commands, r), submits < MaxSubmits, submits' = submits + 1,
             UNCHANGED << state, connected, routeVars, relay, running, inbox, ticks, queueVars, browserVars >>
      PROVE  DesktopInv'
  <2>1. /\ UNCHANGED << state, connected, inbox >> /\ UNCHANGED routeVars
        /\ UNCHANGED << relay, running, inbox, ticks >>
        /\ UNCHANGED queueVars /\ UNCHANGED browserVars /\ waiting' = waiting
    BY <1>1 DEF queueVars
  <2>2. r.kind # "transfer" /\ r \in Request
    <3>1. Top \in Screen
      BY InvTyped, TopIsScreen DEF SessionsOK
    <3> QED
      BY <1>1, <3>1, Requests
  <2>3. Sends(<< r >>) /\ << r >> \in Seq(Request) /\ NoTransfer(<< r >>)
    <3>1. commands' = commands \o << r >>
      BY <1>1, <2>2, InvTyped
    <3> QED
      BY <2>1, <2>2, <3>1 DEF Sends, NoTransfer
  <2>4. SessionsOK'
    BY <1>1, <2>1, InvTyped, SessionsAsked
  <2>5. MessagesOK' /\ TransfersOK'
    BY <2>1, <2>3, InvTyped, SendsTyped, TransfersStay
  <2>6. QueueOK' /\ NoTaskForgotten' /\ StatusFollowsTransfer'
    BY <2>1, InvTyped DEF queueVars, QueueOK, NoTaskForgotten, StatusFollowsTransfer
  <2>7. PaneOK' /\ isLoading' = isLoading
    BY <2>1, InvTyped, PaneSame DEF browserVars, PaneOK
  <2>8. SpinnerAwaitsListing'
    BY <2>3, <2>7, InvTyped, SpinnerKept
  <2> QED
    BY <2>4, <2>5, <2>6, <2>7, <2>8 DEF DesktopInv
<1>2. CASE Submit
  BY <1>1, <1>2 DEF Submit, InForm
<1>3. CASE AskToDisconnect
  BY <1>1, <1>3 DEF AskToDisconnect, InExplorer
<1>4. CASE Navigate
  BY <1>4, NavigateKeepsInv
<1>5. CASE PickFiles
  <2>1. UNCHANGED sessionVars /\ UNCHANGED << relay, running, inbox, ticks >>
        /\ \E t \in Task : Enqueue(t)
    BY <1>5 DEF PickFiles
  <2> QED
    BY <2>1, EnqueueKeepsInv
<1>6. CASE UserStep /\ UNCHANGED sessionVars
  <2>1. CASE Browse /\ UNCHANGED queueVars
    BY <1>6, <2>1, BrowseKeepsInv
  <2>2. CASE /\ (\E t \in Task : Enqueue(t) \/ CancelTask(t) \/ RetryTask(t)) \/ ClearCompleted
             /\ UNCHANGED << relay, running, inbox, ticks >>
    BY <1>6, <2>2, EnqueueKeepsInv, CancelKeepsInv, RetryKeepsInv, ClearKeepsInv
  <2> QED
    BY <1>6, <2>1, <2>2 DEF UserStep
<1> QED
  BY <1>2, <1>3, <1>4, <1>5, <1>6 DEF UserInput

LEMMA NothingKeepsInv ==
  ASSUME DesktopInv, UNCHANGED allVars
  PROVE  DesktopInv'
<1>1. /\ UNCHANGED << relay, running, inbox, ticks >> /\ commands' = commands
      /\ UNCHANGED queueVars /\ UNCHANGED sessionVars /\ UNCHANGED browserVars
  BY DEF allVars, vars, workerVars
<1>2. commands' = commands \o << >> /\ << >> \in Seq(Everyday) /\ NoTransfer(<< >>)
  BY <1>1, InvTyped, NothingNew DEF NoTransfer
<1>3. PaneOK' /\ isLoading' = isLoading
  BY <1>1, InvTyped, PaneSame DEF browserVars, PaneOK
<1> QED
  BY <1>1, <1>2, <1>3, PaneInputKeepsInv

LEMMA StepKeepsInv == DesktopInv /\ [SessionNext]_allVars => DesktopInv'
<1> SUFFICES ASSUME DesktopInv, [SessionNext]_allVars PROVE DesktopInv'
  OBVIOUS
<1>1. CASE ConnectCall \/ DisconnectCall
  BY <1>1, ConnectCallKeepsInv
<1>2. CASE TransferCall \/ OtherCall
  BY <1>2, OtherCallKeepsInv
<1>3. CASE SessionStep
  BY <1>3, SessionStepKeepsInv
<1>4. CASE PassedOn
  BY <1>4, PassedOnKeepsInv
<1>5. CASE UserInput
  BY <1>5, UserKeepsInv
<1>6. CASE UNCHANGED allVars
  BY <1>6, NothingKeepsInv
<1> QED
  BY <1>1, <1>2, <1>3, <1>4, <1>5, <1>6 DEF SessionNext

LEMMA InvAtStart == SessionInit => DesktopInv
<1> SUFFICES ASSUME SessionInit PROVE DesktopInv
  OBVIOUS
<1>1. /\ commands = << >> /\ relay = << >> /\ running = << >> /\ inbox = << >> /\ ticks = 0
      /\ tasks = << >> /\ status = [t \in Task |-> "absent"] /\ progress = [t \in Task |-> NoTask]
      /\ waiting = {} /\ retries = 0
      /\ currentPath = Root /\ listing = {} /\ isLoading = FALSE /\ error = FALSE
      /\ dialog = Closed /\ requests = 0
      /\ state = "DISCONNECTED" /\ connected = FALSE /\ submits = 0
      /\ screens = << Form(0) >> /\ shown = 0 /\ popup = FALSE /\ popups = 0 /\ left = FALSE
  BY DEF SessionInit, WorkerInit, QueueInit
<1>2. << >> \in Seq(Request) /\ << >> \in Seq(ProgressMessage) /\ << >> \in Seq(Message)
  OBVIOUS
<1>3. MessagesOK
  BY <1>1, <1>2 DEF MessagesOK
<1>4. QueueOK
  <2>1. status \in [Task -> Status] /\ progress \in [Task -> Task \union {NoTask}]
    BY <1>1 DEF Status
  <2>2. tasks \in Seq(Task) /\ Distinct(tasks) /\ DOMAIN tasks = {}
    BY <1>1 DEF Distinct
  <2>3. \A t \in Task : status[t] = "absent"
    BY <1>1
  <2>4. retries \in 0..MaxRetries /\ ticks \in 0..MaxTicks
    BY <1>1, QueueAssumption, TicksAssumption
  <2> QED
    BY <2>1, <2>2, <2>3, <2>4 DEF QueueOK, Queue
<1>5. NoTaskForgotten /\ StatusFollowsTransfer
  BY <1>1 DEF NoTaskForgotten, StatusFollowsTransfer
<1>6. TransfersOK
  <2>1. Outstanding("transfer") = 0
    <3>1. Outstanding("transfer") = OnTheWay(<< >>, << >>, << >>, "transfer")
      BY <1>1, <1>3, OutstandingNow
    <3> QED
      BY <3>1, CountEmpty DEF OnTheWay
  <2>2. OneTransferAtATime
    BY <1>1, <2>1, FS_EmptySet DEF OneTransferAtATime
  <2>3. DOMAIN commands = {} /\ DOMAIN running = {} /\ DOMAIN inbox = {}
    BY <1>1
  <2>4. TransfersAreAwaited
    BY <1>1, <2>3 DEF TransfersAreAwaited
  <2> QED
    BY <2>2, <2>4 DEF TransfersOK
<1>7. PaneOK
  <2>1. requests \in 0..MaxRequests
    BY <1>1, BrowserAssumption
  <2>2. dialog \in [stage : {"closed", "menu", "dialog"}, path : Seq(Name), mounted : BOOLEAN]
        /\ dialog.stage = "closed"
    BY <1>1 DEF Closed, Root
  <2> QED
    BY <1>1, <2>1, <2>2, PathFacts DEF PaneOK
<1>8. SpinnerAwaitsListing
  BY <1>1 DEF SpinnerAwaitsListing
<1>9. SessionsOK
  <2>1. DOMAIN inbox = {}
    BY <1>1
  <2>2. ConnectionOK
    <3>1. submits \in 0..MaxSubmits
      BY <1>1, SessionAssumption
    <3>2. connected \in BOOLEAN
      BY <1>1, Zenon
    <3> QED
      BY <1>1, <3>1, <3>2 DEF ConnectionOK
  <2>3. RoutesOK
    <3>1. popup \in BOOLEAN /\ left \in BOOLEAN
      BY <1>1, Zenon
    <3>2. Form(0) \in Screen
      BY DEF Form, Screen
    <3>3. screens \in Seq(Screen) /\ screens # << >>
      BY <1>1, <3>2
    <3> QED
      BY <1>1, <3>1, <3>3 DEF RoutesOK
  <2>4. LastAnswerTells
    BY <1>1, <2>1 DEF LastAnswerTells
  <2>5. ExplorersOK
    <3>1. \A X : ~Has(commands, X) /\ ~Has(inbox, X)
      BY <1>1 DEF Has
    <3>2. \A X, S : ~EndsOn(commands, X, S) /\ ~EndsOn(inbox, X, S)
      BY <1>1 DEF EndsOn
    <3>3. NumbersOK
      <4>1. \A n \in DOMAIN screens : screens[n] = Form(0)
        BY <1>1
      <4>2. Form(0).number = 0
        BY DEF Form
      <4> QED
        BY <1>1, <3>1, <4>1, <4>2 DEF NumbersOK, Pending
    <3>4. ExplorerStays
      BY <3>2 DEF ExplorerStays, LastAsked
    <3>5. ExplorerComes
      BY <1>1 DEF ExplorerComes
    <3> QED
      BY <3>3, <3>4, <3>5 DEF ExplorersOK
  <2> QED
    BY <2>2, <2>3, <2>4, <2>5 DEF SessionsOK
<1> QED
  BY <1>3, <1>4, <1>5, <1>6, <1>7, <1>8, <1>9 DEF DesktopInv

LEMMA DesktopIsSound == SessionSpec => []DesktopInv
BY InvAtStart, StepKeepsInv, PTL DEF SessionSpec

-----------------------------------------------------------------------------
(* What the desktop application keeps to. *)

LEMMA ListedOnce ==
  ASSUME NEW list \in Seq(Task), Distinct(list)
  PROVE  Cardinality(ToSet(list)) = Len(list)
<1> DEFINE f == [n \in 1..Len(list) |-> list[n]]
<1>1. f \in [1..Len(list) -> ToSet(list)]
  BY DEF ToSet
<1>2. \A a, b \in 1..Len(list) : f[a] = f[b] => a = b
  BY DEF Distinct
<1>3. \A y \in ToSet(list) : \E x \in 1..Len(list) : f[x] = y
  BY DEF ToSet
<1> HIDE DEF f
<1>4. f \in Bijection(1..Len(list), ToSet(list))
  <2>1. f \in Injection(1..Len(list), ToSet(list))
    BY <1>1, <1>2 DEF Injection, IsInjective
  <2>2. f \in Surjection(1..Len(list), ToSet(list))
    BY <1>1, <1>3 DEF Surjection
  <2> QED
    BY <2>1, <2>2 DEF Bijection
<1>5. ExistsBijection(1..Len(list), ToSet(list))
  BY <1>4 DEF ExistsBijection
<1>6. IsFiniteSet(1..Len(list)) /\ Cardinality(1..Len(list)) = Len(list)
  <2>1. Len(list) \in Nat
    OBVIOUS
  <2>2. IsFiniteSet(1..Len(list)) /\ Cardinality(1..Len(list))
          = IF 1 > Len(list) THEN 0 ELSE Len(list) - 1 + 1
    BY <2>1, FS_Interval
  <2> QED
    BY <2>1, <2>2
<1> QED
  BY <1>5, <1>6, FS_Bijection

\* The queue, the pane, the dialog and the connection state keep their types: no
\* task is listed twice, however it was enqueued, retried and cleared.
THEOREM SessionTyping == SessionSpec => []SessionTypeOK
<1>1. DesktopInv => SessionTypeOK
  <2> SUFFICES ASSUME DesktopInv PROVE SessionTypeOK
    OBVIOUS
  <2>1. Queue(tasks, status, progress) /\ retries \in 0..MaxRetries /\ ticks \in 0..MaxTicks
    BY InvTyped DEF QueueOK
  <2>2. Cardinality(ListedTasks) = Len(tasks)
    BY <2>1, ListedOnce DEF Queue, ListedTasks
  <2>3. BrowserTypeOK
    <3>1. Cardinality(listing) <= 1
      <4>1. CASE listing = {}
        BY <4>1, FS_EmptySet
      <4>2. ASSUME NEW p \in Path, listing = {p} PROVE Cardinality(listing) <= 1
        BY <4>2, FS_Singleton
      <4> QED
        BY <4>1, <4>2, InvTyped DEF PaneOK
    <3> QED
      BY <3>1, InvTyped DEF PaneOK, BrowserTypeOK
  <2>4. TypeOK
    BY <2>1, <2>2, <2>3, InvTyped DEF TypeOK, Queue
  <2> QED
    BY <2>4, InvTyped DEF SessionTypeOK, SessionsOK, ConnectionOK, RoutesOK
<1> QED
  BY <1>1, DesktopIsSound, PTL

\* _isProcessing and the await of _processQueue: however often users enqueue,
\* retry and cancel, and in whatever session, at most one transfer is on its way
\* to the worker, in it or on its way back.
THEOREM TransfersOneByOne == SessionSpec => []OneTransferAtATime
<1>1. DesktopInv => OneTransferAtATime
  BY DEF DesktopInv, TransfersOK
<1> QED
  BY <1>1, DesktopIsSound, PTL

\* enqueue(), retryTask() and the loop of _processQueue: a queued task is never
\* left without a run that will look at the list again.
THEOREM NoWakeUpIsLost == SessionSpec => []NoTaskForgotten
<1>1. DesktopInv => NoTaskForgotten
  BY DEF DesktopInv
<1> QED
  BY <1>1, DesktopIsSound, PTL

\* The listener of progressStream and _processQueue: progress that comes late or
\* belongs to another task never changes what a completed task shows.
THEOREM CompletedKeepsItsBytes == SessionSpec => []CompletedShowsItsOwn
<1>1. DesktopInv => CompletedShowsItsOwn
  BY DEF DesktopInv, QueueOK, Queue, CompletedShowsItsOwn
<1> QED
  BY <1>1, DesktopIsSound, PTL

\* loadPath() sets the path at once and the entries after its await: the entries
\* on the screen are those of the path above them, whichever answers are late.
THEOREM EntriesFollowThePath == SessionSpec => []EntriesAreOfCurrentPath
<1>1. DesktopInv => EntriesAreOfCurrentPath
  BY DEF DesktopInv, PaneOK, EntriesAreOfCurrentPath, ShowsEntries
<1> QED
  BY <1>1, DesktopIsSound, PTL

\* loadPath(): while the pane shows a spinner a listing is on its way.
THEOREM SpinnersEnd == SessionSpec => []SpinnerAwaitsListing
<1>1. DesktopInv => SpinnerAwaitsListing
  BY DEF DesktopInv
<1> QED
  BY <1>1, DesktopIsSound, PTL

\* connect() and disconnect() of ConnectionNotifier: with none of them on its way
\* the application is connected only if the native client is.
THEOREM ConnectedIsOnline == SessionSpec => []ConnectedMeansOnline
<1>1. DesktopInv => ConnectedMeansOnline
  <2> SUFFICES ASSUME DesktopInv, connected,
                      Outstanding("connect") + Outstanding("disconnect") = 0
               PROVE  state = "AUTHENTICATED"
    BY DEF ConnectedMeansOnline
  <2>1. commands \in Seq(Request) /\ running \in Seq(Request) /\ inbox \in Seq(Message)
    BY InvTyped, MessagesAreSeqs
  <2>2. /\ Outstanding("connect") = OnTheWay(commands, running, inbox, "connect")
        /\ Outstanding("disconnect") = OnTheWay(commands, running, inbox, "disconnect")
        /\ Outstanding("connect") \in Nat /\ Outstanding("disconnect") \in Nat
    BY InvTyped, OutstandingNow
  <2>3. /\ OnTheWay(commands, running, inbox, "connect") = 0
        /\ OnTheWay(commands, running, inbox, "disconnect") = 0
    BY <2>2
  <2>4. \A n \in DOMAIN inbox :
          inbox[n].kind = "response" => inbox[n].request.kind \notin {"connect", "disconnect"}
    BY <2>1, <2>3, NothingOnTheWay
  <2>5. \A n \in DOMAIN inbox : ~Decides(n)
    BY <2>4 DEF Decides, IsSession
  <2> QED
    BY <2>5, InvTyped DEF SessionsOK, LastAnswerTells
<1> QED
  BY <1>1, DesktopIsSound, PTL

\* The screens that connect() and disconnect() of the two screens lead to: with
\* nothing on its way an open connection has its explorer, whatever routes were
\* replaced, unless users went back from it.
THEOREM ConnectionsGetTheirExplorer == SessionSpec => []ConnectionHasExplorer
<1>1. DesktopInv => ConnectionHasExplorer
  <2> SUFFICES ASSUME DesktopInv, connected, ~left, ~HasExplorer,
                      Outstanding("connect") + Outstanding("disconnect") + Outstanding("list") = 0
               PROVE  FALSE
    BY DEF ConnectionHasExplorer, HasExplorer
  <2>1. commands \in Seq(Request) /\ running \in Seq(Request) /\ inbox \in Seq(Message)
    BY InvTyped, MessagesAreSeqs
  <2>2. \A k \in {"connect", "disconnect", "list"} :
          Outstanding(k) = OnTheWay(commands, running, inbox, k) /\ Outstanding(k) \in Nat
    BY InvTyped, OutstandingNow
  <2>3. PICK c \in Nat, d \in Nat, i \in Nat :
          /\ c = Outstanding("connect") /\ d = Outstanding("disconnect") /\ i = Outstanding("list")
    BY <2>2
  <2>4. c = 0 /\ d = 0 /\ i = 0
    <3>1. c + d + i = 0
      BY <2>3
    <3> QED
      BY <3>1
  <2>5. \A k \in {"connect", "disconnect", "list"} : OnTheWay(commands, running, inbox, k) = 0
    BY <2>2, <2>3, <2>4
  <2>6. PICK r \in Awaited : Pending(r)
    BY InvTyped DEF SessionsOK, ExplorersOK, ExplorerComes
  <2>7. r.kind \in {"connect", "disconnect", "list"}
    BY DEF Awaited, SessionRequest, OpeningRequest
  <2>8. /\ \A n \in DOMAIN commands : commands[n].kind # r.kind
        /\ \A n \in DOMAIN inbox : inbox[n].kind = "response" => inbox[n].request.kind # r.kind
    BY <2>1, <2>5, <2>7, NothingOnTheWay
  <2>9. ~Has(commands, {r}) /\ ~Has(inbox, AnswersOf(r))
    BY <2>8 DEF Has, AnswersOf, ResponseMessage
  <2> QED
    BY <2>6, <2>9 DEF Pending
<1> QED
  BY <1>1, DesktopIsSound, PTL

\* cancelTask(), retryTask() and the loop of _processQueue: the task that is
\* awaited, and no other, is in progress, or was cancelled meanwhile, in whatever
\* order users cancel and retry and answers arrive.
THEOREM StatusTellsTransfer == SessionSpec => []StatusFollowsTransfer
<1>1. DesktopInv => StatusFollowsTransfer
  BY DEF DesktopInv
<1> QED
  BY <1>1, DesktopIsSound, PTL

=============================================================================
