--------------------------- MODULE DownloadQueue ----------------------------
(***************************************************************************)
(* The download queue, queue.go: rows in the database, the DownloadAll     *)
(* loop that claims them (NextDownload) and feeds a buffered channel, the  *)
(* downloadWorkers that drain it, Clear, and WaitForEmpty.  The process    *)
(* may crash and start again, the database may refuse a call, a download   *)
(* may never return.                                                       *)
(*                                                                         *)
(* QueuedDownload.Download is here one step that returns nil or an error;  *)
(* InboundTransfers models what happens inside it.                         *)
(***************************************************************************)
EXTENDS Naturals, Sequences, FiniteSets

CONSTANTS
    Downloads,      \* row IDs
    None,           \* no row
    Workers,        \* download workers; as many as the channel has room for
    MayAdd,         \* bound, for each value of ExitOnEmpty: the downloads that are added
    Budget          \* bounds, for each value of ExitOnEmpty: calls the database refuses
                    \* (db), crashes of the process (crash), downloads that never return
                    \* (hung), calls of Clear (clears) and of WaitForEmpty (waits)

ASSUME NoneAssumption == None \notin Downloads
ASSUME WorkersAssumption == IsFiniteSet(Workers) /\ Workers # {}
ASSUME BoundsAssumption ==
    /\ MayAdd \in [BOOLEAN -> SUBSET Downloads]
    /\ Budget \in [BOOLEAN -> [db : Nat, crash : Nat, hung : Nat, clears : Nat, waits : Nat]]

VARIABLES
    exitOnEmpty,    \* DownloadAll returns when the queue is empty
    row,            \* the status column, "absent" before Create, "deleted" after Delete
    added,          \* the downloads in the order of AddedAt, which is their priority
    feeder,         \* the DownloadAll loop
    pool,           \* the channel workerPool
    worker,         \* each downloadWorker
    active,         \* keys of ActiveDownloads
    wg,             \* the counter of waitForComplete
    waiter,         \* a caller of WaitForEmpty
    clear,          \* a call of Clear
    attempts,       \* history: how often each download was started
    started,        \* history: the downloads in the order they were started
    seenAt,         \* history: how many downloads had been added when each was found
    budget          \* how much of each bound is left

vars == <<exitOnEmpty, row, added, feeder, pool, worker, active, wg, waiter, clear, attempts, started, seenAt, budget>>
memory == <<feeder, pool, worker, active, wg, waiter, clear>>
history == <<attempts, started, seenAt>>

PoolSize == Cardinality(Workers)

Status == {"absent", "idle", "pending", "downloading", "completed", "failed", "deleted"}
Free == [at |-> "free", item |-> None, ok |-> FALSE]
Searching(seen) == [at |-> "next", item |-> None, seen |-> seen]
NoClear == [at |-> "off", ids |-> {}, before |-> {}]

TypeOK ==
    /\ exitOnEmpty \in BOOLEAN
    /\ row \in [Downloads -> Status]
    /\ added \in Seq(Downloads)
    /\ feeder \in [at : {"next", "claim", "push", "empty", "drain", "returned"},
                   item : Downloads \cup {None}, seen : Nat]
    /\ feeder.at \in {"claim", "push"} => feeder.item \in Downloads
    /\ pool \in Seq(Downloads)
    /\ Len(pool) <= PoolSize
    /\ worker \in [Workers -> [at : {"free", "download", "hung", "save", "settle"},
                               item : Downloads \cup {None}, ok : BOOLEAN]]
    /\ \A w \in Workers : worker[w].at # "free" => worker[w].item \in Downloads
    /\ active \subseteq Downloads
    /\ wg \in Nat
    /\ waiter \in {"off", "waiting", "released"}
    /\ clear \in [at : {"off", "idle", "pending", "completed", "delete"},
                  ids : SUBSET Downloads, before : SUBSET Downloads]
    /\ attempts \in [Downloads -> Nat]
    /\ started \in Seq(Downloads)
    /\ seenAt \in [Downloads -> Nat]
    /\ budget \in [db : Nat, crash : Nat, hung : Nat, clears : Nat, waits : Nat]

Init ==
    /\ exitOnEmpty \in BOOLEAN
    /\ row = [d \in Downloads |-> "absent"]
    /\ added = <<>>
    /\ feeder = Searching(0)
    /\ pool = <<>>
    /\ worker = [w \in Workers |-> Free]
    /\ active = {}
    /\ wg = 0
    /\ waiter = "off"
    /\ clear = NoClear
    /\ attempts = [d \in Downloads |-> 0]
    /\ started = <<>>
    /\ seenAt = [d \in Downloads |-> 0]
    /\ budget = Budget[exitOnEmpty]

Spend(k) == budget[k] > 0 /\ budget' = [budget EXCEPT ![k] = @ - 1]

Rows(s) == {d \in Downloads : row[d] = s}
\* Slip: an update of a missing row creates it.
Update_Upserts(d, s) == row' = [row EXCEPT ![d] = s]

Update(d, s) == row' = IF row[d] = "deleted" THEN row ELSE [row EXCEPT ![d] = s]

\* Slip: the sort order is ascending.
Newest_Ascending(D, seq, d) ==
    \E i \in 1..Len(seq) : seq[i] = d /\ d \in D /\ \A j \in 1..i-1 : seq[j] \notin D

\* The row that Find returns: idle, highest priority first, the newest.
Newest(D, seq, d) ==
    \E i \in 1..Len(seq) : seq[i] = d /\ d \in D /\ \A j \in i+1..Len(seq) : seq[j] \notin D

-----------------------------------------------------------------------------
Enqueue(d) ==
    /\ row[d] = "absent"
    /\ d \in MayAdd[exitOnEmpty]
    /\ row' = [row EXCEPT ![d] = "idle"]
    /\ added' = Append(added, d)
    /\ UNCHANGED <<memory, history, budget>>

\* NextDownload, first half: db.Downloads.Find.
Find(d) ==
    /\ feeder.at = "next"
    /\ Newest(Rows("idle"), added, d)
    /\ feeder' = [feeder EXCEPT !.at = "claim", !.item = d]
    /\ seenAt' = [seenAt EXCEPT ![d] = Len(added)]
    /\ UNCHANGED <<row, added, pool, worker, active, wg, waiter, clear, attempts, started, budget>>

\* Slip: the queue is taken for empty without a look at it.
FindsNothing_Early ==
    /\ feeder.at = "next"
    /\ feeder' = [feeder EXCEPT !.at = "empty", !.seen = Len(added)]
    /\ UNCHANGED <<row, added, pool, worker, active, wg, waiter, clear, history, budget>>

FindsNothing ==
    /\ feeder.at = "next"
    /\ Rows("idle") = {}
    /\ feeder' = [feeder EXCEPT !.at = "empty", !.seen = Len(added)]
    /\ UNCHANGED <<row, added, pool, worker, active, wg, waiter, clear, history, budget>>

FindFails ==
    /\ feeder.at = "next"
    /\ Spend("db")
    /\ feeder' = [feeder EXCEPT !.at = "empty", !.seen = Len(added)]
    /\ UNCHANGED <<row, added, pool, worker, active, wg, waiter, clear, history>>

\* NextDownload, second half: the row is marked pending, then handed out.
Claim ==
    /\ feeder.at = "claim"
    /\ Update(feeder.item, "pending")
    /\ feeder' = [feeder EXCEPT !.at = "push"]
    /\ wg' = wg + 1
    /\ UNCHANGED <<added, pool, worker, active, waiter, clear, history, budget>>

\* Slip: NextDownload hands out the download although it could not be marked.
ClaimFails_HandedOut ==
    /\ feeder.at = "claim"
    /\ Spend("db")
    /\ feeder' = [feeder EXCEPT !.at = "push"]
    /\ wg' = wg + 1
    /\ UNCHANGED <<row, added, pool, worker, active, waiter, clear, history>>

\* The row stays idle, NextDownload returns nil.
ClaimFails ==
    /\ feeder.at = "claim"
    /\ Spend("db")
    /\ feeder' = [feeder EXCEPT !.at = "empty", !.item = None, !.seen = Len(added)]
    /\ UNCHANGED <<row, added, pool, worker, active, wg, waiter, clear, history>>

\* self.workerPool <- download, which blocks while the channel is full.
Push ==
    /\ feeder.at = "push"
    /\ Len(pool) < PoolSize
    /\ pool' = Append(pool, feeder.item)
    /\ feeder' = Searching(feeder.seen)
    /\ UNCHANGED <<row, added, worker, active, wg, waiter, clear, history, budget>>

\* Slip: the loop leaves whether or not it was asked to exit.
Empty_Leaves ==
    /\ feeder.at = "empty"
    /\ waiter' = IF waiter = "waiting" THEN "released" ELSE waiter
    /\ feeder' = [feeder EXCEPT !.at = "drain"]
    /\ UNCHANGED <<row, added, pool, worker, active, wg, clear, history, budget>>

\* NextDownload returned nil: tell a waiter if there is one, then leave or sleep.
Empty ==
    /\ feeder.at = "empty"
    /\ waiter' = IF waiter = "waiting" THEN "released" ELSE waiter
    /\ feeder' = IF exitOnEmpty THEN [feeder EXCEPT !.at = "drain"] ELSE Searching(feeder.seen)
    /\ UNCHANGED <<row, added, pool, worker, active, wg, clear, history, budget>>

\* waitForComplete.Wait()
Return ==
    /\ feeder.at = "drain"
    /\ wg = 0
    /\ feeder' = [feeder EXCEPT !.at = "returned"]
    /\ UNCHANGED <<row, added, pool, worker, active, wg, waiter, clear, history, budget>>

WaitForEmpty ==
    /\ waiter # "waiting"
    /\ Spend("waits")
    /\ waiter' = "waiting"
    /\ UNCHANGED <<row, added, feeder, pool, worker, active, wg, clear, history>>

-----------------------------------------------------------------------------
\* downloadWorker: take, Download, save the row, settle.
Take(w) ==
    /\ worker[w].at = "free"
    /\ pool # <<>>
    /\ pool' = Tail(pool)
    /\ worker' = [worker EXCEPT ![w] = [at |-> "download", item |-> Head(pool), ok |-> FALSE]]
    /\ active' = active \cup {Head(pool)}
    /\ attempts' = [attempts EXCEPT ![Head(pool)] = @ + 1]
    /\ started' = Append(started, Head(pool))
    /\ UNCHANGED <<row, added, feeder, wg, waiter, clear, seenAt, budget>>

DownloadReturns(w, ok) ==
    /\ worker[w].at = "download"
    /\ worker' = [worker EXCEPT ![w].at = "save", ![w].ok = ok]
    /\ UNCHANGED <<row, added, feeder, pool, active, wg, waiter, clear, history, budget>>

\* Transfer.Wait may never return (InboundTransfers).
DownloadHangs(w) ==
    /\ worker[w].at = "download"
    /\ Spend("hung")
    /\ worker' = [worker EXCEPT ![w].at = "hung"]
    /\ UNCHANGED <<row, added, feeder, pool, active, wg, waiter, clear, history>>

\* What the download's status says.  The receive loop may set it to "downloading" after
\* the worker has set it to "failed" (DownloadFiles).
Outcomes(w) == IF worker[w].ok THEN {"completed"} ELSE {"failed", "downloading"}

Save(w) ==
    /\ worker[w].at = "save"
    /\ \E s \in Outcomes(w) : Update(worker[w].item, s)
    /\ worker' = [worker EXCEPT ![w].at = "settle"]
    /\ UNCHANGED <<added, feeder, pool, active, wg, waiter, clear, history, budget>>

\* The error is logged and the row keeps what it had.
SaveFails(w) ==
    /\ worker[w].at = "save"
    /\ Spend("db")
    /\ worker' = [worker EXCEPT ![w].at = "settle"]
    /\ UNCHANGED <<row, added, feeder, pool, active, wg, waiter, clear, history>>

\* Slip: Done is called on success only.
Settle_OnSuccess(w) ==
    /\ worker[w].at = "settle"
    /\ worker' = [worker EXCEPT ![w] = Free]
    /\ active' = active \ {worker[w].item}
    /\ wg' = IF worker[w].ok THEN wg - 1 ELSE wg
    /\ UNCHANGED <<row, added, feeder, pool, waiter, clear, history, budget>>

Settle(w) ==
    /\ worker[w].at = "settle"
    /\ worker' = [worker EXCEPT ![w] = Free]
    /\ active' = active \ {worker[w].item}
    /\ wg' = wg - 1
    /\ UNCHANGED <<row, added, feeder, pool, waiter, clear, history, budget>>

-----------------------------------------------------------------------------
\* Clear with its default statuses: one query for each, then one Delete.
Live == Downloads \ (Rows("absent") \cup Rows("deleted"))

ClearStarts ==
    /\ clear.at = "off"
    /\ Spend("clears")
    /\ clear' = [at |-> "idle", ids |-> {}, before |-> Live]
    /\ UNCHANGED <<row, added, feeder, pool, worker, active, wg, waiter, history>>

\* Slip: the completed downloads are asked for before the pending ones.
ScanAfter_Swapped == [idle |-> "completed", completed |-> "pending", pending |-> "delete"]

ScanAfter == [idle |-> "pending", pending |-> "completed", completed |-> "delete"]

ClearScans ==
    /\ clear.at \in DOMAIN ScanAfter
    /\ clear' = [clear EXCEPT !.ids = @ \cup Rows(clear.at), !.at = ScanAfter[clear.at]]
    /\ UNCHANGED <<row, added, feeder, pool, worker, active, wg, waiter, history, budget>>

\* A query that fails ends the call with its error, a Delete that fails is not
\* even reported; either way nothing is deleted.
ClearFails ==
    /\ clear.at # "off"
    /\ Spend("db")
    /\ clear' = NoClear
    /\ UNCHANGED <<row, added, feeder, pool, worker, active, wg, waiter, history>>

ClearDeletes ==
    /\ clear.at = "delete"
    /\ row' = [d \in Downloads |-> IF d \in clear.ids THEN "deleted" ELSE row[d]]
    /\ clear' = NoClear
    /\ UNCHANGED <<added, feeder, pool, worker, active, wg, waiter, history, budget>>

-----------------------------------------------------------------------------
\* Only the database survives; Application.Run starts DownloadAll again.
CrashAndRestart ==
    /\ Spend("crash")
    /\ feeder' = Searching(0)
    /\ pool' = <<>>
    /\ worker' = [w \in Workers |-> Free]
    /\ active' = {}
    /\ wg' = 0
    /\ waiter' = "off"
    /\ clear' = NoClear
    /\ UNCHANGED <<row, added, history>>

Feeder ==
    \/ \E d \in Downloads : Find(d)
    \/ FindsNothing \/ FindFails
    \/ Claim \/ ClaimFails
    \/ Push \/ Empty \/ Return

Worker(w) ==
    \/ Take(w)
    \/ \E ok \in BOOLEAN : DownloadReturns(w, ok)
    \/ DownloadHangs(w)
    \/ Save(w) \/ SaveFails(w)
    \/ Settle(w)

Clear == ClearStarts \/ ClearScans \/ ClearFails \/ ClearDeletes

Next ==
    /\ \/ \E d \in Downloads : Enqueue(d)
       \/ Feeder
       \/ \E w \in Workers : Worker(w)
       \/ Clear
       \/ WaitForEmpty
       \/ CrashAndRestart
    /\ UNCHANGED exitOnEmpty

\* The goroutines run; a download that does not hang returns.
Fairness ==
    /\ WF_vars(Feeder /\ UNCHANGED exitOnEmpty)
    /\ \A w \in Workers : WF_vars(Worker(w) /\ UNCHANGED exitOnEmpty)

Spec == Init /\ [][Next]_vars /\ Fairness

-----------------------------------------------------------------------------
Busy == {w \in Workers : worker[w].at # "free"}
Held == {worker[w].item : w \in Busy}
Pooled == {pool[i] : i \in 1..Len(pool)}
Handing == IF feeder.at \in {"claim", "push"} THEN {feeder.item} ELSE {}

\* No download is in two hands at once: it is being claimed or pushed, or in the
\* channel once, or with one worker (queue.go:165-215, 228-232, 248-278).
OneOwner ==
    /\ \A i, j \in 1..Len(pool) : pool[i] = pool[j] => i = j
    /\ \A v, w \in Busy : worker[v].item = worker[w].item => v = w
    /\ Pooled \cap Held = {}
    /\ Handing \cap (Pooled \cup Held) = {}

\* No download is ever started twice, whatever Clear deletes, the database
\* refuses or a crash forgets (queue.go:257-269).
AtMostOnce == \A d \in Downloads : attempts[d] <= 1

\* Whoever is idle, or about to be started, has not been started.
NotYetStarted ==
    /\ \A d \in Rows("absent") \cup Rows("idle") : attempts[d] = 0 /\ d \notin Pooled \cup Held
    /\ \A d \in Pooled \cup Handing : attempts[d] = 0
    /\ \A d \in Rows("absent") : d \notin Handing

\* ActiveDownloads lists the downloads the workers have (queue.go:174, 205).
ActiveIsHeld == active = Held

\* waitForComplete counts every download that was handed out and has not been
\* settled: Wait cannot return early and Done cannot make it negative
\* (queue.go:206, 230-231, 239).
WaitGroupCounts ==
    wg = (IF feeder.at = "push" THEN 1 ELSE 0) + Len(pool) + Cardinality(Busy)

\* When DownloadAll has returned, nothing is in the channel or with a worker: each
\* download that was claimed has been settled (queue.go:238-241).
QuiescentOnReturn == feeder.at = "returned" => pool = <<>> /\ Busy = {}

Inv ==
    /\ TypeOK
    /\ OneOwner
    /\ AtMostOnce
    /\ NotYetStarted
    /\ ActiveIsHeld
    /\ WaitGroupCounts
    /\ QuiescentOnReturn

\* Downloads start newest first: one that starts before a newer one was found
\* before that one was added (queue.go:109-131, 252; queue_test.go asserts the
\* order 5, 4, 3, 2, 1).
Position(d) == CHOOSE i \in 1..Len(added) : added[i] = d
NewestFirst ==
    \A i, j \in 1..Len(started) :
        i < j => \/ Position(started[j]) < Position(started[i])
                 \/ Position(started[j]) > seenAt[started[i]]

\* A Clear that reaches its Delete leaves no row that was there when it began,
\* except those of downloads that have failed: its queries follow the life of a
\* download, so none slips from a status not yet asked for into one already asked for
\* (queue.go:283-316).
ClearSweeps ==
    [][ClearDeletes => \A d \in clear.before : row'[d] \in {"failed", "downloading", "deleted"}]_vars

\* The comment of queue.go:217, "Downloads all files in the queue": when
\* DownloadAll returns, no file that was in the queue when it last looked is idle,
\* unless the database refused.
ReturnedMeansAllTried ==
    feeder.at = "returned" /\ budget.db = Budget[exitOnEmpty].db => \A i \in 1..feeder.seen : row[added[i]] # "idle"

\* As long as one worker is not hung, every idle download is claimed or cleared, if
\* the queue is one that polls for ever (queue.go:222-246).
IdleIsClaimed ==
    \A d \in Downloads : row[d] = "idle" /\ ~exitOnEmpty ~> row[d] # "idle"

\* With ExitOnEmpty and downloads that return, DownloadAll returns (queue.go:238-241).
DownloadAllReturns == exitOnEmpty => <>(feeder.at = "returned")

Life == INSTANCE DownloadLifecycle

\* DownloadQueue implements DownloadLifecycle: rows only move forward, through
\* races with Clear, database errors and crashes.
ImplementsLifecycle == Life!Spec
=============================================================================
