-------------------- MODULE QueueAndSubscriptions_proofs --------------------
(***************************************************************************)
(* Two components that meet in the rows of downloads.                      *)
(*                                                                         *)
(* DownloadQueue: IInv, an invariant that every step keeps, for any        *)
(* downloads, workers and budgets of failures, and what follows from it:   *)
(* the invariant Inv of the run queue, the order in which downloads start, *)
(* what a returned DownloadAll has tried, what Clear sweeps, and that the  *)
(* queue implements DownloadLifecycle.                                     *)
(*                                                                         *)
(* Subscriptions, which fill the queue: SubIInv, for any peers, groups,    *)
(* sessions and offers, and what follows: that what is queued was offered  *)
(* by the subscription's source, and that nothing offered is left out.     *)
(***************************************************************************)
EXTENDS DownloadQueue, Subscriptions, FiniteSetTheorems, SequenceTheorems, TLAPS

\* The status of the row of whatever is between NextDownload and its last Save.
RowsAgree ==
    /\ feeder.at = "claim" => row[feeder.item] \in {"idle", "deleted"}
    /\ feeder.at = "push" => row[feeder.item] \in {"pending", "deleted"}
    /\ \A i \in 1..Len(pool) : row[pool[i]] \in {"pending", "deleted"}
    /\ \A w \in Workers : worker[w].at \in {"download", "hung", "save"}
                              => row[worker[w].item] \in {"pending", "deleted"}

\* A row is added once, and in `added` ever after.
AddedAgrees ==
    /\ \A i, j \in 1..Len(added) : added[i] = added[j] => i = j
    /\ \A i \in 1..Len(added) : row[added[i]] # "absent"
    /\ \A d \in Downloads : row[d] # "absent" => \E i \in 1..Len(added) : added[i] = d

\* What the feeder has seen, and what it makes of it when it finds nothing.
FeederAgrees ==
    /\ feeder.seen <= Len(added)
    /\ budget.db <= Budget[exitOnEmpty].db
    /\ feeder.at \in {"empty", "drain", "returned"} /\ budget.db = Budget[exitOnEmpty].db
           => \A i \in 1..feeder.seen : row[added[i]] # "idle"

\* While Clear asks for one status after the other, a row that was there when it
\* began is among its results or past the statuses it has asked for.
Past == [idle |-> Status \ {"absent"}, pending |-> {"pending", "downloading", "completed", "failed", "deleted"},
         completed |-> {"downloading", "completed", "failed", "deleted"},
         delete |-> {"downloading", "failed", "deleted"}]
ClearAgrees ==
    clear.at # "off" =>
        /\ \A d \in clear.ids : row[d] # "absent"
        /\ \A d \in clear.before : d \in clear.ids \/ row[d] \in Past[clear.at]

\* e may start after d: it is older, or was not there when d was found.
MayFollow(d, e) == Position(e) < Position(d) \/ Position(e) > seenAt[d]

\* Whatever was found, is in the hands of the feeder, in the channel or was started.
Started == {started[i] : i \in 1..Len(started)}

OrderAgrees ==
    /\ \A i, j \in 1..Len(started) : i < j => MayFollow(started[i], started[j])
    /\ \A d \in Started : attempts[d] > 0
    /\ \A i, j \in 1..Len(pool) : i < j => MayFollow(pool[i], pool[j])
    /\ \A d \in Started, e \in Pooled \cup Handing : MayFollow(d, e)
    /\ \A d \in Pooled, e \in Handing : MayFollow(d, e)
    /\ \A d \in Started \cup Pooled \cup Handing, e \in Rows("idle") :
          Position(e) <= Position(d) \/ Position(e) > seenAt[d]
    /\ \A d \in Downloads : seenAt[d] <= Len(added)

\* Inv is not inductive: that a Push adds no second owner needs the status of the
\* row that is pushed (RowsAgree), that Clear sweeps needs what it has collected
\* (ClearAgrees), and the order of starts what is still on its way (OrderAgrees).
IInv ==
    /\ Inv
    /\ RowsAgree
    /\ AddedAgrees
    /\ FeederAgrees
    /\ ClearAgrees
    /\ OrderAgrees

-----------------------------------------------------------------------------
\* What the operators on records leave of them, field by field.
FeederAt == {"next", "claim", "push", "empty", "drain", "returned"}
FeederType ==
    /\ feeder \in [at : FeederAt, item : Downloads \cup {None}, seen : Nat]
    /\ feeder.at \in {"claim", "push"} => feeder.item \in Downloads

WorkerAt == {"free", "download", "hung", "save", "settle"}
WorkerRecord == [at : WorkerAt, item : Downloads \cup {None}, ok : BOOLEAN]
WorkerType ==
    /\ worker \in [Workers -> WorkerRecord]
    /\ \A w \in Workers : worker[w].at # "free" => worker[w].item \in Downloads

Bounds == [db : Nat, crash : Nat, hung : Nat, clears : Nat, waits : Nat]
LEMMA Spent ==
    ASSUME budget \in Bounds, NEW k \in {"db", "crash", "hung", "clears", "waits"}, Spend(k)
    PROVE  /\ budget' \in Bounds
           /\ budget'.db = IF k = "db" THEN budget.db - 1 ELSE budget.db
           /\ budget'.db <= budget.db /\ (k = "db" => budget.db > 0)
BY DEF Bounds, Spend

ClearAt == {"off", "idle", "pending", "completed", "delete"}
ClearType == clear \in [at : ClearAt, ids : SUBSET Downloads, before : SUBSET Downloads]

LEMMA Updated ==
    ASSUME row \in [Downloads -> Status], NEW d \in Downloads, NEW s \in Status, Update(d, s)
    PROVE  /\ row' \in [Downloads -> Status]
           /\ row'[d] = IF row[d] = "deleted" THEN "deleted" ELSE s
           /\ \A e \in Downloads \ {d} : row'[e] = row[e]
BY DEF Update

RestType ==
    /\ exitOnEmpty \in BOOLEAN
    /\ row \in [Downloads -> Status]
    /\ added \in Seq(Downloads)
    /\ pool \in Seq(Downloads)
    /\ Len(pool) <= PoolSize
    /\ active \subseteq Downloads
    /\ wg \in Nat
    /\ waiter \in {"off", "waiting", "released"}
    /\ attempts \in [Downloads -> Nat]
    /\ started \in Seq(Downloads)
    /\ seenAt \in [Downloads -> Nat]

LEMMA TypeParts ==
    /\ TypeOK <=> RestType /\ FeederType /\ WorkerType /\ ClearType /\ budget \in Bounds
    /\ TypeOK' <=> RestType' /\ FeederType' /\ WorkerType' /\ ClearType' /\ budget' \in Bounds
BY DEF TypeOK, RestType, FeederType, FeederAt, WorkerType, WorkerRecord, WorkerAt, ClearType, ClearAt, Bounds

LEMMA Types ==
    ASSUME TypeOK
    PROVE  /\ RestType /\ FeederType /\ WorkerType /\ ClearType /\ budget \in Bounds
           /\ Len(added) \in Nat /\ Len(pool) \in Nat
           /\ pool # <<>> => Head(pool) \in Downloads
BY TypeParts DEF RestType

LEMMA PoolSizeNat == PoolSize \in Nat
BY WorkersAssumption, FS_CardinalityType DEF PoolSize

LEMMA BusyWorkers ==
    /\ Busy \subseteq Workers /\ IsFiniteSet(Busy) /\ Cardinality(Busy) \in Nat
    /\ \A w \in Busy : Cardinality(Busy) > 0
<1>1. Busy \subseteq Workers
      BY DEF Busy
<1> QED BY <1>1, WorkersAssumption, FS_Subset, FS_CardinalityType, FS_EmptySet

\* What each step of the feeder makes of it.
FeederIs(at, item, seen) ==
    FeederType' /\ feeder'.at = at /\ feeder'.item = item /\ feeder'.seen = seen

LEMMA FeederFields ==
    ASSUME TypeOK
    PROVE  /\ \A d \in Downloads : Find(d) => FeederIs("claim", d, feeder.seen)
           /\ FindsNothing \/ FindFails => FeederIs("empty", feeder.item, Len(added))
           /\ Claim => FeederIs("push", feeder.item, feeder.seen)
           /\ ClaimFails => FeederIs("empty", None, Len(added))
           /\ Push => FeederIs("next", None, feeder.seen)
           /\ Empty => FeederIs(IF exitOnEmpty THEN "drain" ELSE "next",
                                IF exitOnEmpty THEN feeder.item ELSE None, feeder.seen)
           /\ Return => FeederIs("returned", feeder.item, feeder.seen)
           /\ CrashAndRestart => FeederIs("next", None, 0)
<1> USE DEF FeederIs, FeederAt, Searching
<1>1. FeederType /\ Len(added) \in Nat
      BY Types
<1>2. ASSUME NEW d \in Downloads, Find(d) PROVE FeederIs("claim", d, feeder.seen)
      <2>1. feeder' = [feeder EXCEPT !.at = "claim", !.item = d]
            BY <1>2 DEF Find
      <2> QED BY <1>1, <2>1 DEF FeederType
<1>3. ASSUME FindsNothing \/ FindFails PROVE FeederIs("empty", feeder.item, Len(added))
      <2>1. feeder' = [feeder EXCEPT !.at = "empty", !.seen = Len(added)]
            BY <1>3 DEF FindsNothing, FindFails
      <2> QED BY <1>1, <2>1 DEF FeederType
<1>4. ASSUME Claim PROVE FeederIs("push", feeder.item, feeder.seen)
      <2>1. feeder.at = "claim" /\ feeder' = [feeder EXCEPT !.at = "push"]
            BY <1>4 DEF Claim
      <2> QED BY <1>1, <2>1 DEF FeederType
<1>5. ASSUME ClaimFails PROVE FeederIs("empty", None, Len(added))
      <2>1. feeder' = [feeder EXCEPT !.at = "empty", !.item = None, !.seen = Len(added)]
            BY <1>5 DEF ClaimFails
      <2> QED BY <1>1, <2>1 DEF FeederType
<1>6. ASSUME Push PROVE FeederIs("next", None, feeder.seen)
      <2>1. feeder' = [at |-> "next", item |-> None, seen |-> feeder.seen]
            BY <1>6 DEF Push
      <2> QED BY <1>1, <2>1 DEF FeederType
<1>7. ASSUME Empty PROVE FeederIs(IF exitOnEmpty THEN "drain" ELSE "next",
                             IF exitOnEmpty THEN feeder.item ELSE None, feeder.seen)
      <2>1. feeder' = IF exitOnEmpty THEN [feeder EXCEPT !.at = "drain"]
                      ELSE [at |-> "next", item |-> None, seen |-> feeder.seen]
            BY <1>7 DEF Empty
      <2> QED BY <1>1, <2>1 DEF FeederType
<1>8. ASSUME Return PROVE FeederIs("returned", feeder.item, feeder.seen)
      <2>1. feeder' = [feeder EXCEPT !.at = "returned"]
            BY <1>8 DEF Return
      <2> QED BY <1>1, <2>1 DEF FeederType
<1>9. ASSUME CrashAndRestart PROVE FeederIs("next", None, 0)
      <2>1. feeder' = [at |-> "next", item |-> None, seen |-> 0]
            BY <1>9 DEF CrashAndRestart
      <2> QED BY <1>1, <2>1 DEF FeederType
<1> QED BY <1>2, <1>3, <1>4, <1>5, <1>6, <1>7, <1>8, <1>9

\* What each step of a worker makes of it.
WorkerIs(w, at, item) ==
    /\ WorkerType'
    /\ worker'[w].at = at /\ worker'[w].item = item
    /\ \A v \in Workers \ {w} : worker'[v] = worker[v]

LEMMA WorkerFields ==
    ASSUME TypeOK, NEW w \in Workers
    PROVE  /\ Take(w) => WorkerIs(w, "download", Head(pool))
           /\ \A ok \in BOOLEAN : DownloadReturns(w, ok) => WorkerIs(w, "save", worker[w].item)
           /\ DownloadHangs(w) => WorkerIs(w, "hung", worker[w].item)
           /\ Save(w) \/ SaveFails(w) => WorkerIs(w, "settle", worker[w].item)
           /\ Settle(w) => WorkerIs(w, "free", None)
<1> USE DEF WorkerIs, WorkerAt, Free
<1>1. WorkerType /\ (pool # <<>> => Head(pool) \in Downloads)
      BY Types
<1>2. ASSUME Take(w) PROVE WorkerIs(w, "download", Head(pool))
      <2>1. pool # <<>> /\ worker' = [worker EXCEPT ![w] = [at |-> "download", item |-> Head(pool), ok |-> FALSE]]
            BY <1>2 DEF Take
      <2> QED BY <1>1, <2>1 DEF WorkerType, WorkerRecord
<1>3. ASSUME NEW ok \in BOOLEAN, DownloadReturns(w, ok) PROVE WorkerIs(w, "save", worker[w].item)
      <2>1. worker[w].at = "download" /\ worker' = [worker EXCEPT ![w].at = "save", ![w].ok = ok]
            BY <1>3 DEF DownloadReturns
      <2> QED BY <1>1, <2>1 DEF WorkerType, WorkerRecord
<1>4. ASSUME DownloadHangs(w) PROVE WorkerIs(w, "hung", worker[w].item)
      <2>1. worker[w].at = "download" /\ worker' = [worker EXCEPT ![w].at = "hung"]
            BY <1>4 DEF DownloadHangs
      <2> QED BY <1>1, <2>1 DEF WorkerType, WorkerRecord
<1>5. ASSUME Save(w) \/ SaveFails(w) PROVE WorkerIs(w, "settle", worker[w].item)
      <2>1. worker[w].at = "save" /\ worker' = [worker EXCEPT ![w].at = "settle"]
            BY <1>5 DEF Save, SaveFails
      <2> QED BY <1>1, <2>1 DEF WorkerType, WorkerRecord
<1>6. ASSUME Settle(w) PROVE WorkerIs(w, "free", None)
      <2>1. worker' = [worker EXCEPT ![w] = [at |-> "free", item |-> None, ok |-> FALSE]]
            BY <1>6 DEF Settle
      <2> QED BY <1>1, <2>1 DEF WorkerType, WorkerRecord
<1> QED BY <1>2, <1>3, <1>4, <1>5, <1>6

-----------------------------------------------------------------------------
\* A step of each actor keeps the types.
LEMMA TypesOfFeeder ==
    ASSUME TypeOK, Feeder, UNCHANGED exitOnEmpty
    PROVE  TypeOK'
<1>0. /\ RestType /\ FeederType /\ WorkerType /\ ClearType /\ budget \in Bounds
      /\ Len(added) \in Nat /\ Len(pool) \in Nat
      BY Types
<1>1. UNCHANGED <<worker, clear>> /\ WorkerType' /\ ClearType'
      <2>1. UNCHANGED <<worker, clear>>
            BY DEF Feeder, Find, FindsNothing, FindFails, Claim, ClaimFails, Push, Empty, Return
      <2> QED BY <1>0, <2>1 DEF WorkerType, ClearType
<1>2. FeederType'
      BY FeederFields DEF Feeder, FeederIs
<1>3. budget' \in Bounds
      BY <1>0, Spent DEF Feeder, Find, FindsNothing, FindFails, Claim, ClaimFails, Push, Empty, Return
<1>4. RestType'
      <2>1. ASSUME NEW d \in Downloads, Find(d) PROVE RestType'
            BY <1>0, <2>1 DEF Find, RestType
      <2>2. ASSUME FindsNothing \/ FindFails \/ ClaimFails \/ Return PROVE RestType'
            BY <1>0, <2>2 DEF FindsNothing, FindFails, ClaimFails, Return, RestType, history
      <2>3. ASSUME Claim PROVE RestType'
            <3>1. feeder.item \in Downloads
                  BY <1>0, <2>3 DEF Claim, FeederType
            <3>2. row' \in [Downloads -> Status]
                  BY <1>0, <2>3, <3>1, Updated DEF Claim, RestType, Status
            <3> QED BY <1>0, <2>3, <3>2 DEF Claim, RestType, history
      <2>4. ASSUME Push PROVE RestType'
            <3>1. feeder.item \in Downloads
                  BY <1>0, <2>4 DEF Push, FeederType
            <3>3. pool' \in Seq(Downloads) /\ Len(pool') <= PoolSize
                  BY <1>0, <2>4, <3>1, PoolSizeNat DEF Push, RestType
            <3> QED BY <1>0, <2>4, <3>3 DEF Push, RestType, history
      <2>5. ASSUME Empty PROVE RestType'
            BY <1>0, <2>5 DEF Empty, RestType, history
      <2> QED BY <2>1, <2>2, <2>3, <2>4, <2>5 DEF Feeder
<1> QED BY <1>1, <1>2, <1>3, <1>4, TypeParts

LEMMA TypesOfWorker ==
    ASSUME TypeOK, Inv, NEW w \in Workers, Worker(w), UNCHANGED exitOnEmpty
    PROVE  TypeOK'
<1>0. /\ RestType /\ FeederType /\ WorkerType /\ ClearType /\ budget \in Bounds
      /\ Len(added) \in Nat /\ Len(pool) \in Nat
      BY Types
<1>1. UNCHANGED <<feeder, clear>> /\ FeederType' /\ ClearType'
      <2>1. UNCHANGED <<feeder, clear>>
            BY DEF Worker, Take, DownloadReturns, DownloadHangs, Save, SaveFails, Settle
      <2> QED BY <1>0, <2>1 DEF FeederType, ClearType
<1>2. WorkerType'
      BY WorkerFields DEF Worker, WorkerIs
<1>3. budget' \in Bounds
      BY <1>0, Spent DEF Worker, Take, DownloadReturns, DownloadHangs, Save, SaveFails, Settle
<1>4. RestType'
      <2>1. ASSUME Take(w) PROVE RestType'
            <3>1. Head(pool) \in Downloads /\ pool # <<>>
                  BY <2>1, Types DEF Take
            <3>3. pool' \in Seq(Downloads) /\ Len(pool') <= PoolSize
                  BY <1>0, <2>1, <3>1, PoolSizeNat DEF Take, RestType
            <3>4. started' \in Seq(Downloads) /\ active' \subseteq Downloads /\ attempts' \in [Downloads -> Nat]
                  BY <1>0, <2>1, <3>1 DEF Take, RestType
            <3> QED BY <1>0, <2>1, <3>3, <3>4 DEF Take, RestType, history
      <2>2. ASSUME \/ \E ok \in BOOLEAN : DownloadReturns(w, ok)
                   \/ DownloadHangs(w) \/ SaveFails(w)
            PROVE  RestType'
            BY <1>0, <2>2 DEF DownloadReturns, DownloadHangs, SaveFails, RestType, history
      <2>3. ASSUME Save(w) PROVE RestType'
            <3>1. worker[w].item \in Downloads
                  BY <1>0, <2>3 DEF Save, WorkerType
            <3>2. row' \in [Downloads -> Status]
                  <4>1. PICK s \in {"downloading", "completed", "failed"} : Update(worker[w].item, s)
                        BY <2>3 DEF Save, Outcomes
                  <4>2. s \in Status
                        BY DEF Status
                  <4> QED BY <1>0, <3>1, <4>1, <4>2, Updated DEF RestType
            <3> QED BY <1>0, <2>3, <3>2 DEF Save, RestType, history
      <2>4. ASSUME Settle(w) PROVE RestType'
            <3>1. wg' \in Nat
                  BY <1>0, <2>4, BusyWorkers DEF Settle, Inv, WaitGroupCounts, Busy
            <3> QED BY <1>0, <2>4, <3>1 DEF Settle, RestType, history
      <2> QED BY <2>1, <2>2, <2>3, <2>4 DEF Worker
<1> QED BY <1>1, <1>2, <1>3, <1>4, TypeParts

LEMMA TypesOfOthers ==
    ASSUME TypeOK, UNCHANGED exitOnEmpty,
           (\E d \in Downloads : Enqueue(d)) \/ Clear \/ WaitForEmpty \/ CrashAndRestart
    PROVE  TypeOK'
<1>0. /\ RestType /\ FeederType /\ WorkerType /\ ClearType /\ budget \in Bounds
      BY Types
<1>1. ASSUME NEW d \in Downloads, Enqueue(d) PROVE TypeOK'
      <2>1. RestType'
            BY <1>0, <1>1 DEF Enqueue, RestType, Status, memory, history
      <2>2. FeederType' /\ WorkerType' /\ ClearType' /\ budget' \in Bounds
            BY <1>0, <1>1 DEF Enqueue, FeederType, WorkerType, ClearType, memory
      <2> QED BY <2>1, <2>2, TypeParts
<1>2. ASSUME Clear PROVE TypeOK'
      <2>1. FeederType' /\ WorkerType'
            BY <1>0, <1>2 DEF Clear, ClearStarts, ClearScans, ClearFails, ClearDeletes, FeederType, WorkerType
      <2>2. budget' \in Bounds
            BY <1>0, <1>2, Spent DEF Clear, ClearStarts, ClearScans, ClearFails, ClearDeletes
      <2>3. RestType'
            <3>1. CASE ClearDeletes
                  BY <1>0, <3>1 DEF ClearDeletes, RestType, Status, history
            <3> QED BY <1>0, <1>2, <3>1 DEF Clear, ClearStarts, ClearScans, ClearFails, RestType, history
      <2>4. ClearType'
            <3>1. CASE ClearScans
                  <4>1. /\ clear.at \in {"idle", "pending", "completed"}
                        /\ clear' = [clear EXCEPT !.ids = @ \cup Rows(clear.at), !.at = ScanAfter[clear.at]]
                        BY <3>1 DEF ClearScans, ScanAfter
                  <4>2. Rows(clear.at) \subseteq Downloads /\ ScanAfter[clear.at] \in ClearAt
                        BY <4>1 DEF Rows, ScanAfter, ClearAt
                  <4> QED BY <1>0, <4>1, <4>2 DEF ClearType
            <3>2. CASE ClearStarts
                  BY <1>0, <3>2 DEF ClearStarts, ClearType, ClearAt, Live
            <3> QED BY <1>0, <1>2, <3>1, <3>2 DEF Clear, ClearFails, ClearDeletes, ClearType, ClearAt, NoClear
      <2> QED BY <2>1, <2>2, <2>3, <2>4, TypeParts
<1>3. ASSUME WaitForEmpty PROVE TypeOK'
      <2>1. RestType'
            BY <1>0, <1>3 DEF WaitForEmpty, RestType, history
      <2>2. FeederType' /\ WorkerType' /\ ClearType' /\ budget' \in Bounds
            BY <1>0, <1>3, Spent DEF WaitForEmpty, FeederType, WorkerType, ClearType
      <2> QED BY <2>1, <2>2, TypeParts
<1>4. ASSUME CrashAndRestart PROVE TypeOK'
      <2>1. RestType'
            BY <1>0, <1>4, PoolSizeNat DEF CrashAndRestart, RestType, history
      <2>2. FeederType'
            BY <1>4, FeederFields DEF FeederIs
      <2>3. WorkerType' /\ ClearType'
            BY <1>0, <1>4 DEF CrashAndRestart, WorkerType, WorkerRecord, WorkerAt, Free, ClearType, ClearAt, NoClear
      <2>4. budget' \in Bounds
            BY <1>0, <1>4, Spent DEF CrashAndRestart
      <2> QED BY <2>1, <2>2, <2>3, <2>4, TypeParts
<1> QED BY <1>1, <1>2, <1>3, <1>4

-----------------------------------------------------------------------------
(* Who has which download.                                                 *)

Hands == OneOwner /\ AtMostOnce /\ NotYetStarted /\ ActiveIsHeld /\ RowsAgree

\* What a step of the feeder does to the sets of downloads in hand.
LEMMA FeederViews ==
    ASSUME TypeOK
    PROVE  /\ UNCHANGED worker => UNCHANGED <<Busy, Held>>
           /\ UNCHANGED pool => UNCHANGED Pooled
           /\ \A d \in Downloads : Find(d) => Handing = {} /\ Handing' = {d}
           /\ FindsNothing \/ FindFails \/ Empty \/ Return => Handing = {} /\ Handing' = {}
           /\ Claim => feeder.item \in Downloads /\ Handing = {feeder.item} /\ Handing' = {feeder.item}
           /\ ClaimFails => feeder.item \in Downloads /\ Handing = {feeder.item} /\ Handing' = {}
           /\ Push => /\ feeder.item \in Downloads /\ Handing = {feeder.item} /\ Handing' = {}
                      /\ Pooled' = Pooled \cup {feeder.item}
<1>0. FeederType /\ Len(pool) \in Nat /\ pool \in Seq(Downloads)
      BY Types DEF RestType
<1>1. (UNCHANGED worker => UNCHANGED <<Busy, Held>>) /\ (UNCHANGED pool => UNCHANGED Pooled)
      BY DEF Busy, Held, Pooled
<1>2. ASSUME NEW d \in Downloads, Find(d) PROVE Handing = {} /\ Handing' = {d}
      BY <1>0, <1>2, FeederFields DEF FeederIs, Find, Handing
<1>3. ASSUME FindsNothing \/ FindFails \/ Empty \/ Return PROVE Handing = {} /\ Handing' = {}
      BY <1>0, <1>3, FeederFields DEF FeederIs, FindsNothing, FindFails, Empty, Return, Handing
<1>4. ASSUME Claim PROVE feeder.item \in Downloads /\ Handing = {feeder.item} /\ Handing' = {feeder.item}
      BY <1>0, <1>4, FeederFields DEF FeederIs, FeederType, Claim, Handing
<1>5. ASSUME ClaimFails PROVE feeder.item \in Downloads /\ Handing = {feeder.item} /\ Handing' = {}
      BY <1>0, <1>5, FeederFields DEF FeederIs, FeederType, ClaimFails, Handing
<1>6. ASSUME Push
      PROVE  /\ feeder.item \in Downloads /\ Handing = {feeder.item} /\ Handing' = {}
             /\ Pooled' = Pooled \cup {feeder.item}
      <2>1. feeder.item \in Downloads /\ Handing = {feeder.item} /\ Handing' = {}
            BY <1>0, <1>6, FeederFields DEF FeederIs, FeederType, Push, Handing
      <2>2. pool' = Append(pool, feeder.item)
            BY <1>6 DEF Push
      <2>3. /\ Len(pool') = Len(pool) + 1
            /\ \A i \in 1..Len(pool) : pool'[i] = pool[i]
            /\ pool'[Len(pool) + 1] = feeder.item
            BY <1>0, <2>1, <2>2, AppendProperties
      <2> QED BY <1>0, <2>1, <2>3 DEF Pooled
<1> QED BY <1>1, <1>2, <1>3, <1>4, <1>5, <1>6

LEMMA WorkerViews ==
    ASSUME TypeOK, OneOwner, NEW w \in Workers
    PROVE  /\ UNCHANGED feeder => UNCHANGED Handing
           /\ Take(w) => LET d == Head(pool) IN
                  /\ d \in Pooled /\ w \notin Busy
                  /\ Pooled' = Pooled \ {d} /\ Busy' = Busy \cup {w} /\ Held' = Held \cup {d}
           /\ (\E ok \in BOOLEAN : DownloadReturns(w, ok)) \/ DownloadHangs(w) \/ Save(w) \/ SaveFails(w)
                  => /\ worker[w].item \in Downloads /\ w \in Busy
                     /\ UNCHANGED <<Busy, Held>>
                     /\ \A v \in Workers : worker'[v].item = worker[v].item
           /\ Settle(w) =>
                  /\ worker[w].item \in Held /\ w \in Busy
                  /\ Busy' = Busy \ {w} /\ Held' = Held \ {worker[w].item}
<1>0. WorkerType /\ Len(pool) \in Nat /\ pool \in Seq(Downloads) /\ (pool # <<>> => Head(pool) \in Downloads)
      BY Types DEF RestType
<1>1. UNCHANGED feeder => UNCHANGED Handing
      BY DEF Handing
<1>2. ASSUME Take(w)
      PROVE  /\ Head(pool) \in Pooled /\ w \notin Busy
             /\ Pooled' = Pooled \ {Head(pool)} /\ Busy' = Busy \cup {w} /\ Held' = Held \cup {Head(pool)}
      <2>1. w \notin Busy /\ WorkerIs(w, "download", Head(pool)) /\ pool # <<>> /\ pool' = Tail(pool)
            BY <1>2, WorkerFields DEF Take, Busy
      <2>2. Busy' = Busy \cup {w} /\ Held' = Held \cup {Head(pool)}
            <3>1. Busy' = Busy \cup {w}
                  BY <2>1 DEF WorkerIs, Busy
            <3> QED BY <2>1, <3>1 DEF WorkerIs, Held, Busy
      <2>3. /\ Len(pool) > 0 /\ Head(pool) = pool[1] /\ Len(pool') = Len(pool) - 1
            /\ \A i \in 1..Len(pool') : pool'[i] = pool[i + 1]
            BY <1>0, <2>1, HeadTailProperties
      <2>4. \A i, j \in 1..Len(pool) : pool[i] = pool[j] => i = j
            BY DEF OneOwner
      <2>5. Pooled' = Pooled \ {Head(pool)}
            <3>1. ASSUME NEW d \in Pooled' PROVE d \in Pooled \ {Head(pool)}
                  <4>1. PICK i \in 1..Len(pool') : d = pool'[i]
                        BY DEF Pooled
                  <4>2. i + 1 \in 1..Len(pool) /\ d = pool[i + 1] /\ i + 1 # 1 /\ 1 \in 1..Len(pool)
                        BY <1>0, <2>3, <4>1
                  <4>3. d # pool[1]
                        BY <2>4, <4>2
                  <4> QED BY <2>3, <4>2, <4>3 DEF Pooled
            <3>2. ASSUME NEW d \in Pooled, d # Head(pool) PROVE d \in Pooled'
                  <4>1. PICK i \in 1..Len(pool) : d = pool[i]
                        BY DEF Pooled
                  <4>2. i # 1
                        BY <2>3, <3>2, <4>1
                  <4>3. i - 1 \in 1..Len(pool') /\ d = pool'[i - 1]
                        BY <1>0, <2>3, <4>1, <4>2
                  <4> QED BY <4>3 DEF Pooled
            <3> QED BY <3>1, <3>2
      <2> QED BY <1>0, <2>1, <2>2, <2>3, <2>5 DEF Pooled
<1>3. ASSUME (\E ok \in BOOLEAN : DownloadReturns(w, ok)) \/ DownloadHangs(w) \/ Save(w) \/ SaveFails(w)
      PROVE  /\ worker[w].item \in Downloads /\ w \in Busy
             /\ UNCHANGED <<Busy, Held>>
             /\ \A v \in Workers : worker'[v].item = worker[v].item
      <2>1. worker[w].at # "free" /\ worker[w].item \in Downloads
            BY <1>0, <1>3 DEF DownloadReturns, DownloadHangs, Save, SaveFails, WorkerType
      <2>2. PICK at \in {"save", "hung", "settle"} : WorkerIs(w, at, worker[w].item)
            BY <1>3, WorkerFields
      <2>3. UNCHANGED Busy /\ \A v \in Workers : worker'[v].item = worker[v].item
            BY <2>1, <2>2 DEF WorkerIs, Busy
      <2> QED BY <2>1, <2>3 DEF Held, Busy
<1>4. ASSUME Settle(w)
      PROVE  /\ worker[w].item \in Held /\ w \in Busy
             /\ Busy' = Busy \ {w} /\ Held' = Held \ {worker[w].item}
      <2>1. w \in Busy /\ WorkerIs(w, "free", None)
            BY <1>4, WorkerFields DEF Settle, Busy
      <2>2. Busy' = Busy \ {w}
            BY <2>1 DEF WorkerIs, Busy
      <2>3. \A v \in Busy : worker[v].item = worker[w].item => v = w
            BY <2>1 DEF OneOwner
      <2>4. \A v \in Busy' : worker'[v] = worker[v]
            BY <2>1, <2>2 DEF WorkerIs, Busy
      <2> QED BY <2>1, <2>2, <2>3, <2>4 DEF Held
<1> QED BY <1>1, <1>2, <1>3, <1>4

LEMMA HandsOfFeeder ==
    ASSUME TypeOK, Hands, Feeder
    PROVE  Hands'
<1> USE DEF Hands, OneOwner, AtMostOnce, NotYetStarted, ActiveIsHeld, RowsAgree, Rows
<1>0. /\ RestType /\ FeederType /\ WorkerType
      /\ Len(pool) \in Nat /\ pool \in Seq(Downloads) /\ row \in [Downloads -> Status]
      BY Types DEF RestType
<1>1. ASSUME NEW d \in Downloads, Find(d) PROVE Hands'
      <2>1. row[d] = "idle" /\ UNCHANGED <<row, pool, worker, active, attempts>> /\ FeederIs("claim", d, feeder.seen)
            BY <1>1, FeederFields DEF Find, Newest
      <2>2. Handing' = {d} /\ UNCHANGED <<Busy, Held, Pooled>>
            BY <1>1, <2>1, FeederViews
      <2> QED BY <2>1, <2>2 DEF FeederIs
<1>2. ASSUME FindsNothing \/ FindFails \/ Empty \/ Return PROVE Hands'
      <2>1. /\ UNCHANGED <<row, pool, worker, active, attempts>>
            /\ feeder'.at \in {"empty", "drain", "next", "returned"}
            BY <1>2, FeederFields DEF FindsNothing, FindFails, Empty, Return, FeederIs, history
      <2>2. Handing' = {} /\ Handing = {} /\ UNCHANGED <<Busy, Held, Pooled>>
            BY <1>2, <2>1, FeederViews
      <2> QED BY <2>1, <2>2
<1>3. ASSUME Claim PROVE Hands'
      <2>1. /\ UNCHANGED <<pool, worker, active, attempts>> /\ FeederIs("push", feeder.item, feeder.seen)
            /\ feeder.at = "claim" /\ Update(feeder.item, "pending")
            BY <1>3, FeederFields DEF Claim, history
      <2>2. /\ Handing' = {feeder.item} /\ Handing = {feeder.item} /\ UNCHANGED <<Busy, Held, Pooled>>
            /\ feeder.item \in Downloads
            BY <1>3, <2>1, FeederViews
      <2>3. /\ row'[feeder.item] \in {"pending", "deleted"}
            /\ \A d \in Downloads \ {feeder.item} : row'[d] = row[d]
            BY <1>0, <2>1, <2>2, Updated DEF Status
      <2>4. \A i \in 1..Len(pool) : pool[i] # feeder.item /\ pool[i] \in Downloads
            BY <1>0, <2>2 DEF Pooled
      <2>5. \A w \in Workers : worker[w].at \in {"download", "hung", "save"}
                                   => worker[w].item # feeder.item /\ worker[w].item \in Downloads
            BY <1>0, <2>2 DEF Held, Busy, WorkerType
      <2> QED BY <2>1, <2>2, <2>3, <2>4, <2>5 DEF FeederIs
<1>4. ASSUME ClaimFails PROVE Hands'
      <2>1. UNCHANGED <<row, pool, worker, active, attempts>> /\ feeder'.at = "empty"
            BY <1>4, FeederFields DEF ClaimFails, FeederIs, history
      <2>2. Handing' = {} /\ UNCHANGED <<Busy, Held, Pooled>>
            BY <1>4, <2>1, FeederViews
      <2> QED BY <2>1, <2>2
<1>5. ASSUME Push PROVE Hands'
      <2>1. /\ UNCHANGED <<row, worker, active, attempts>> /\ feeder'.at = "next" /\ feeder.at = "push"
            /\ pool' = Append(pool, feeder.item)
            BY <1>5, FeederFields DEF Push, FeederIs, history
      <2>2. /\ Handing' = {} /\ Handing = {feeder.item} /\ Pooled' = Pooled \cup {feeder.item}
            /\ UNCHANGED <<Busy, Held>> /\ feeder.item \in Downloads
            BY <1>5, <2>1, FeederViews
      <2>3. /\ Len(pool') = Len(pool) + 1
            /\ \A i \in 1..Len(pool) : pool'[i] = pool[i] /\ pool[i] # feeder.item
            /\ pool'[Len(pool) + 1] = feeder.item
            BY <1>0, <2>1, <2>2, AppendProperties DEF Pooled
      <2>4. \A i, j \in 1..Len(pool') : pool'[i] = pool'[j] => i = j
            BY <1>0, <2>3
      <2>5. \A i \in 1..Len(pool') : row'[pool'[i]] \in {"pending", "deleted"}
            BY <1>0, <2>1, <2>3
      <2> QED BY <2>1, <2>2, <2>4, <2>5
<1> QED BY <1>1, <1>2, <1>3, <1>4, <1>5 DEF Feeder

LEMMA HandsOfWorker ==
    ASSUME TypeOK, Hands, NEW w \in Workers, Worker(w)
    PROVE  Hands'
<1> USE DEF Hands, OneOwner, AtMostOnce, NotYetStarted, ActiveIsHeld, RowsAgree, Rows
<1>0. /\ RestType /\ FeederType /\ WorkerType
      /\ Len(pool) \in Nat /\ pool \in Seq(Downloads) /\ row \in [Downloads -> Status]
      BY Types DEF RestType
<1>1. ASSUME Take(w) PROVE Hands'
      <2> DEFINE d == Head(pool)
      <2>1. /\ UNCHANGED <<row, feeder>> /\ WorkerIs(w, "download", d) /\ active' = active \cup {d}
            /\ pool # <<>> /\ pool' = Tail(pool) /\ attempts' = [attempts EXCEPT ![d] = @ + 1]
            BY <1>1, WorkerFields DEF Take
      <2>2. /\ d \in Pooled /\ w \notin Busy /\ UNCHANGED Handing
            /\ Pooled' = Pooled \ {d} /\ Busy' = Busy \cup {w} /\ Held' = Held \cup {d}
            BY <1>1, <2>1, WorkerViews
      <2>3. /\ d = pool[1] /\ Len(pool) > 0 /\ Len(pool') = Len(pool) - 1
            /\ \A i \in 1..Len(pool') : pool'[i] = pool[i + 1]
            /\ d \in Downloads
            BY <1>0, <2>1, HeadTailProperties
      <2>4. \A i, j \in 1..Len(pool') : pool'[i] = pool'[j] => i = j
            <3>1. \A i \in 1..Len(pool') : i + 1 \in 1..Len(pool)
                  BY <1>0, <2>3
            <3> QED BY <2>3, <3>1
      <2>5. \A i \in 1..Len(pool') : row'[pool'[i]] \in {"pending", "deleted"}
            BY <1>0, <2>1, <2>3
      <2>6. \A v \in Busy : worker[v].item # d
            BY <2>2 DEF Held
      <2>7. \A u, v \in Busy' : worker'[u].item = worker'[v].item => u = v
            BY <2>1, <2>2, <2>6 DEF WorkerIs, Busy
      <2>8. attempts[d] = 0 /\ row[d] \in {"pending", "deleted"} /\ d \notin Handing
            BY <1>0, <2>2, <2>3
      <2>9. attempts'[d] = 1 /\ \A e \in Downloads \ {d} : attempts'[e] = attempts[e]
            BY <1>0, <2>1, <2>3, <2>8 DEF RestType
      <2>10. (\A e \in Downloads : attempts'[e] <= 1) /\ active' = Held'
            BY <2>1, <2>2, <2>9
      <2>11. NotYetStarted'
            <3>1. Pooled \subseteq Downloads /\ Handing \subseteq Downloads
                  BY <1>0 DEF Pooled, Handing, FeederType
            <3> QED BY <2>1, <2>2, <2>8, <2>9, <3>1
      <2>12. RowsAgree'
            <3>1. \A v \in Workers : worker'[v].at \in {"download", "hung", "save"}
                                         => row'[worker'[v].item] \in {"pending", "deleted"}
                  BY <2>1, <2>8 DEF WorkerIs
            <3> QED BY <2>1, <2>5, <3>1
      <2>13. OneOwner'
            BY <2>2, <2>4, <2>7, <2>8
      <2> QED BY <2>10, <2>11, <2>12, <2>13
<1>2. ASSUME (\E ok \in BOOLEAN : DownloadReturns(w, ok)) \/ DownloadHangs(w) \/ SaveFails(w) PROVE Hands'
      <2>1. /\ UNCHANGED <<row, pool, feeder, active, attempts>>
            /\ worker[w].at \in {"download", "save"} /\ \A v \in Workers \ {w} : worker'[v] = worker[v]
            BY <1>2, WorkerFields DEF DownloadReturns, DownloadHangs, SaveFails, WorkerIs, history
      <2>2. /\ UNCHANGED <<Busy, Held, Handing, Pooled>> /\ (\A v \in Workers : worker'[v].item = worker[v].item)
            /\ Busy \subseteq Workers
            BY <1>2, <2>1, WorkerViews, FeederViews, BusyWorkers
      <2>3. \A v \in Workers : worker'[v].at \in {"download", "hung", "save"}
                                   => row[worker[v].item] \in {"pending", "deleted"}
            BY <2>1
      <2>4. RowsAgree'
            BY <2>1, <2>2, <2>3
      <2> QED BY <2>1, <2>2, <2>4
<1>3. ASSUME Save(w) PROVE Hands'
      <2> DEFINE d == worker[w].item
      <2>1. /\ UNCHANGED <<pool, feeder, active, attempts>> /\ WorkerIs(w, "settle", d) /\ worker[w].at = "save"
            BY <1>3, WorkerFields DEF Save, history
      <2>2. /\ UNCHANGED <<Busy, Held, Handing, Pooled>> /\ (\A v \in Workers : worker'[v].item = worker[v].item)
            /\ d \in Downloads /\ w \in Busy /\ Busy \subseteq Workers
            BY <1>3, <2>1, WorkerViews, FeederViews, BusyWorkers
      <2>3. row'[d] \in {"downloading", "completed", "failed", "deleted"} /\ \A e \in Downloads \ {d} : row'[e] = row[e]
            <3>1. PICK s \in {"downloading", "completed", "failed"} : Update(d, s)
                  BY <1>3 DEF Save, Outcomes
            <3>2. s \in Status
                  BY DEF Status
            <3> QED BY <1>0, <2>2, <3>1, <3>2, Updated
      <2>4. d \in Held /\ d \notin Pooled /\ d \notin Handing
            BY <2>2 DEF Held
      <2>5. \A i \in 1..Len(pool) : pool[i] # d /\ pool[i] \in Downloads
            BY <1>0, <2>4 DEF Pooled
      <2>6. \A v \in Workers \ {w} : worker[v].at \in {"download", "hung", "save"}
                                   => worker[v].item # d /\ worker[v].item \in Downloads
            BY <1>0, <2>2 DEF Busy, WorkerType
      <2>7. feeder.at \in {"claim", "push"} => feeder.item # d /\ feeder.item \in Downloads
            BY <1>0, <2>4 DEF Handing, FeederType
      <2>8. \A i \in 1..Len(pool') : row'[pool'[i]] \in {"pending", "deleted"}
            BY <2>1, <2>3, <2>5
      <2>9. \A v \in Workers : worker'[v].at \in {"download", "hung", "save"}
                                   => row'[worker'[v].item] \in {"pending", "deleted"}
            BY <2>1, <2>3, <2>6 DEF WorkerIs
      <2>10. /\ feeder'.at = "claim" => row'[feeder'.item] \in {"idle", "deleted"}
             /\ feeder'.at = "push" => row'[feeder'.item] \in {"pending", "deleted"}
            BY <2>1, <2>3, <2>7
      <2>11. RowsAgree'
            BY <2>8, <2>9, <2>10
      <2>12. NotYetStarted'
            BY <2>1, <2>2, <2>3
      <2> QED BY <2>1, <2>2, <2>11, <2>12
<1>4. ASSUME Settle(w) PROVE Hands'
      <2>1. /\ UNCHANGED <<row, pool, feeder, attempts>> /\ WorkerIs(w, "free", None)
            /\ active' = active \ {worker[w].item}
            BY <1>4, WorkerFields DEF Settle, history
      <2>2. /\ UNCHANGED <<Handing, Pooled>> /\ worker[w].item \in Held /\ w \in Busy
            /\ Busy' = Busy \ {w} /\ Held' = Held \ {worker[w].item}
            BY <1>4, <2>1, WorkerViews, FeederViews
      <2>3. \A u, v \in Busy' : worker'[u].item = worker'[v].item => u = v
            BY <2>1, <2>2 DEF WorkerIs, Busy
      <2>4. RowsAgree'
            BY <2>1 DEF WorkerIs
      <2> QED BY <2>1, <2>2, <2>3, <2>4
<1> QED BY <1>1, <1>2, <1>3, <1>4 DEF Worker

\* Nobody's hands: the rows change, and a crash takes everything away.
LEMMA HandsOfOthers ==
    ASSUME TypeOK, Hands,
           (\E d \in Downloads : Enqueue(d)) \/ Clear \/ WaitForEmpty \/ CrashAndRestart
    PROVE  Hands'
<1> USE DEF Hands, OneOwner, AtMostOnce, NotYetStarted, ActiveIsHeld, RowsAgree, Rows
<1>0. /\ RestType /\ FeederType /\ WorkerType
      /\ Len(pool) \in Nat /\ pool \in Seq(Downloads) /\ row \in [Downloads -> Status]
      BY Types DEF RestType
<1>1. Pooled \subseteq Downloads /\ Held \subseteq Downloads
      BY <1>0 DEF Pooled, Held, Busy, WorkerType
<1>2. UNCHANGED <<feeder, pool, worker>> => UNCHANGED <<Busy, Held, Pooled, Handing>>
      BY DEF Busy, Held, Pooled, Handing
<1>3. ASSUME NEW d \in Downloads, Enqueue(d) PROVE Hands'
      <2>1. /\ UNCHANGED <<feeder, pool, worker, active, attempts>>
            /\ row[d] = "absent" /\ row'[d] = "idle" /\ \A e \in Downloads \ {d} : row'[e] = row[e]
            BY <1>0, <1>3 DEF Enqueue, memory, history
      <2>2. UNCHANGED <<Busy, Held, Pooled, Handing>>
            BY <1>2, <2>1
      <2>3. d \notin Pooled \cup Held \cup Handing
            BY <2>1
      <2>4. \A i \in 1..Len(pool) : pool[i] # d /\ pool[i] \in Downloads
            BY <1>0, <2>3 DEF Pooled
      <2>5. \A w \in Workers : worker[w].at \in {"download", "hung", "save"}
                                   => worker[w].item # d /\ worker[w].item \in Downloads
            BY <1>0, <2>3 DEF Held, Busy, WorkerType
      <2>6. feeder.at \in {"claim", "push"} => feeder.item # d /\ feeder.item \in Downloads
            BY <1>0, <2>3 DEF Handing, FeederType
      <2>7. RowsAgree'
            BY <2>1, <2>4, <2>5, <2>6
      <2>8. NotYetStarted'
            BY <2>1, <2>2
      <2> QED BY <2>1, <2>2, <2>7, <2>8
<1>4. ASSUME ClearDeletes PROVE Hands'
      <2>1. UNCHANGED <<feeder, pool, worker, active, attempts>>
            BY <1>4 DEF ClearDeletes, history
      <2>2. UNCHANGED <<Busy, Held, Pooled, Handing>>
            BY <1>2, <2>1
      <2>3. \A e \in Downloads : row'[e] = row[e] \/ row'[e] = "deleted"
            BY <1>0, <1>4 DEF ClearDeletes
      <2>4. RowsAgree'
            BY <1>0, <2>1, <2>3 DEF FeederType, WorkerType
      <2>5. NotYetStarted'
            BY <2>1, <2>2, <2>3
      <2> QED BY <2>1, <2>2, <2>4, <2>5
<1>5. ASSUME ClearStarts \/ ClearScans \/ ClearFails \/ WaitForEmpty PROVE Hands'
      <2>1. UNCHANGED <<row, feeder, pool, worker, active, attempts>>
            BY <1>5 DEF ClearStarts, ClearScans, ClearFails, WaitForEmpty, history
      <2>2. UNCHANGED <<Busy, Held, Pooled, Handing>>
            BY <1>2, <2>1
      <2> QED BY <2>1, <2>2
<1>6. ASSUME CrashAndRestart PROVE Hands'
      <2>1. UNCHANGED <<row, attempts>> /\ feeder'.at = "next" /\ pool' = <<>> /\ active' = {}
            BY <1>6, FeederFields DEF CrashAndRestart, FeederIs, history
      <2>2. \A w \in Workers : worker'[w].at = "free"
            BY <1>6 DEF CrashAndRestart, Free
      <2>3. Handing' = {} /\ Pooled' = {} /\ Busy' = {} /\ Held' = {}
            BY <2>1, <2>2 DEF Handing, Pooled, Busy, Held
      <2>4. RowsAgree'
            BY <2>1, <2>2
      <2> QED BY <2>1, <2>3, <2>4
<1> QED BY <1>3, <1>4, <1>5, <1>6 DEF Clear

-----------------------------------------------------------------------------
(* The counter of waitForComplete.                                         *)

Counts == WaitGroupCounts /\ QuiescentOnReturn

LEMMA CountsOfFeeder ==
    ASSUME TypeOK, Counts, Feeder
    PROVE  Counts'
<1> USE DEF Counts, WaitGroupCounts, QuiescentOnReturn
<1>0. /\ Len(pool) \in Nat /\ pool \in Seq(Downloads) /\ wg \in Nat
      /\ IsFiniteSet(Busy) /\ Cardinality(Busy) \in Nat
      BY Types, BusyWorkers DEF RestType
<1>1. UNCHANGED Busy
      <2>1. UNCHANGED worker
            BY DEF Feeder, Find, FindsNothing, FindFails, Claim, ClaimFails, Push, Empty, Return
      <2> QED BY <2>1, FeederViews
<1>2. ASSUME \/ \E d \in Downloads : Find(d)
             \/ FindsNothing \/ FindFails \/ ClaimFails \/ Empty
      PROVE  Counts'
      <2>1. feeder.at \in {"next", "claim", "empty"} /\ UNCHANGED <<wg, pool>>
            BY <1>2 DEF Find, FindsNothing, FindFails, ClaimFails, Empty, history
      <2>2. feeder'.at \in {"next", "claim", "empty", "drain"}
            BY <1>2, FeederFields DEF FeederIs
      <2> QED BY <1>1, <2>1, <2>2
<1>3. ASSUME Claim PROVE Counts'
      <2>1. feeder.at = "claim" /\ wg' = wg + 1 /\ UNCHANGED pool /\ feeder'.at = "push"
            BY <1>3, FeederFields DEF Claim, FeederIs
      <2> QED BY <1>0, <1>1, <2>1
<1>4. ASSUME Push PROVE Counts'
      <2>1. /\ feeder.at = "push" /\ UNCHANGED wg /\ pool' = Append(pool, feeder.item)
            /\ feeder'.at = "next" /\ feeder.item \in Downloads
            BY <1>4, FeederFields, Types DEF Push, FeederIs, FeederType
      <2>2. Len(pool') = Len(pool) + 1
            BY <1>0, <2>1, AppendProperties
      <2> QED BY <1>0, <1>1, <2>1, <2>2
<1>5. ASSUME Return PROVE Counts'
      <2>1. feeder.at = "drain" /\ wg = 0 /\ UNCHANGED <<wg, pool>> /\ feeder'.at = "returned"
            BY <1>5, FeederFields DEF Return, FeederIs
      <2>2. Len(pool) = 0 /\ Cardinality(Busy) = 0
            BY <1>0, <2>1
      <2>3. pool = <<>> /\ Busy = {}
            BY <1>0, <2>2, FS_EmptySet, EmptySeq
      <2> QED BY <1>1, <2>1, <2>3
<1> QED BY <1>2, <1>3, <1>4, <1>5 DEF Feeder

LEMMA CountsOfWorker ==
    ASSUME TypeOK, OneOwner, Counts, NEW w \in Workers, Worker(w)
    PROVE  Counts'
<1> USE DEF Counts, WaitGroupCounts, QuiescentOnReturn
<1>0. /\ Len(pool) \in Nat /\ pool \in Seq(Downloads) /\ wg \in Nat
      /\ IsFiniteSet(Busy) /\ Cardinality(Busy) \in Nat
      BY Types, BusyWorkers DEF RestType
<1>1. UNCHANGED feeder
      BY DEF Worker, Take, DownloadReturns, DownloadHangs, Save, SaveFails, Settle
<1>2. ASSUME Take(w) PROVE Counts'
      <2>1. pool # <<>> /\ pool' = Tail(pool) /\ UNCHANGED wg
            BY <1>2 DEF Take
      <2>2. w \notin Busy /\ Busy' = Busy \cup {w}
            BY <1>2, WorkerViews
      <2>3. Cardinality(Busy') = Cardinality(Busy) + 1
            BY <1>0, <2>2, FS_AddElement
      <2>4. Len(pool') = Len(pool) - 1
            BY <1>0, <2>1, HeadTailProperties
      <2>5. feeder'.at # "returned"
            BY <1>1, <2>1
      <2> QED BY <1>0, <1>1, <2>1, <2>3, <2>4, <2>5
<1>3. ASSUME (\E ok \in BOOLEAN : DownloadReturns(w, ok)) \/ DownloadHangs(w) \/ Save(w) \/ SaveFails(w)
      PROVE  Counts'
      <2>1. UNCHANGED <<wg, pool>>
            BY <1>3 DEF DownloadReturns, DownloadHangs, Save, SaveFails, history
      <2>2. UNCHANGED Busy
            BY <1>3, WorkerViews
      <2> QED BY <1>1, <2>1, <2>2
<1>4. ASSUME Settle(w) PROVE Counts'
      <2>1. UNCHANGED pool /\ wg' = wg - 1
            BY <1>4 DEF Settle
      <2>2. w \in Busy /\ Busy' = Busy \ {w}
            BY <1>4, WorkerViews
      <2>3. Cardinality(Busy') = Cardinality(Busy) - 1
            BY <1>0, <2>2, FS_RemoveElement
      <2>4. feeder'.at # "returned"
            BY <1>1, <2>2
      <2> QED BY <1>0, <1>1, <2>1, <2>3, <2>4
<1> QED BY <1>2, <1>3, <1>4 DEF Worker

LEMMA CountsOfOthers ==
    ASSUME TypeOK, Counts,
           (\E d \in Downloads : Enqueue(d)) \/ Clear \/ WaitForEmpty \/ CrashAndRestart
    PROVE  Counts'
<1> USE DEF Counts, WaitGroupCounts, QuiescentOnReturn
<1>1. ASSUME (\E d \in Downloads : Enqueue(d)) \/ Clear \/ WaitForEmpty PROVE Counts'
      <2>1. UNCHANGED <<feeder, pool, worker, wg>>
            BY <1>1 DEF Enqueue, Clear, ClearStarts, ClearScans, ClearFails, ClearDeletes, WaitForEmpty, memory
      <2> QED BY <2>1 DEF Busy
<1>2. ASSUME CrashAndRestart PROVE Counts'
      <2>1. wg' = 0 /\ pool' = <<>> /\ feeder'.at = "next" /\ \A w \in Workers : worker'[w].at = "free"
            BY <1>2, FeederFields DEF CrashAndRestart, FeederIs, Free
      <2>2. Len(pool') = 0 /\ Busy' = {} /\ Cardinality(Busy') = 0
            BY <2>1, FS_EmptySet DEF Busy
      <2> QED BY <2>1, <2>2
<1> QED BY <1>1, <1>2

-----------------------------------------------------------------------------
(* The rows, which only move forward.                                      *)

Forward(d) ==
    \/ row'[d] = row[d]
    \/ row[d] = "absent" /\ row'[d] = "idle" /\ Enqueue(d)
    \/ row[d] = "idle" /\ row'[d] = "pending"
    \/ row[d] = "pending" /\ row'[d] \in {"downloading", "completed", "failed"}
    \/ row[d] # "absent" /\ row'[d] = "deleted"

LEMMA RowsMoveForward ==
    ASSUME TypeOK, Hands, ClearAgrees, [Next]_vars
    PROVE  \A d \in Downloads : Forward(d)
<1>0. FeederType /\ WorkerType /\ ClearType /\ row \in [Downloads -> Status]
      BY Types DEF RestType
<1>1. CASE UNCHANGED row
      BY <1>1 DEF Forward
<1>2. ASSUME NEW d \in Downloads, Enqueue(d) PROVE \A e \in Downloads : Forward(e)
      <2>1. row[d] = "absent" /\ row'[d] = "idle" /\ \A e \in Downloads \ {d} : row'[e] = row[e]
            BY <1>0, <1>2 DEF Enqueue
      <2> QED BY <1>2, <2>1 DEF Forward
<1>3. ASSUME Claim PROVE \A e \in Downloads : Forward(e)
      <2> DEFINE d == feeder.item
      <2>1. d \in Downloads /\ Update(d, "pending") /\ row[d] \in {"idle", "deleted"}
            BY <1>0, <1>3 DEF Claim, FeederType, Hands, RowsAgree
      <2>2. row'[d] = (IF row[d] = "deleted" THEN "deleted" ELSE "pending") /\ \A e \in Downloads \ {d} : row'[e] = row[e]
            BY <1>0, <2>1, Updated DEF Status
      <2> QED BY <2>1, <2>2 DEF Forward
<1>4. ASSUME NEW w \in Workers, Save(w) PROVE \A e \in Downloads : Forward(e)
      <2> DEFINE d == worker[w].item
      <2>0. PICK s \in {"downloading", "completed", "failed"} : Update(d, s)
            BY <1>4 DEF Save, Outcomes
      <2>1. d \in Downloads /\ Update(d, s) /\ row[d] \in {"pending", "deleted"}
            BY <1>0, <1>4, <2>0 DEF Save, WorkerType, Hands, RowsAgree
      <2>2. s \in Status /\ s \in {"downloading", "completed", "failed"}
            BY DEF Status
      <2>3. row'[d] = (IF row[d] = "deleted" THEN "deleted" ELSE s) /\ \A e \in Downloads \ {d} : row'[e] = row[e]
            BY <1>0, <2>1, <2>2, Updated
      <2> QED BY <2>1, <2>2, <2>3 DEF Forward
<1>5. ASSUME ClearDeletes PROVE \A e \in Downloads : Forward(e)
      <2>1. clear.at = "delete" /\ \A e \in Downloads : row'[e] = IF e \in clear.ids THEN "deleted" ELSE row[e]
            BY <1>5 DEF ClearDeletes
      <2>2. \A e \in clear.ids : row[e] # "absent"
            BY <2>1 DEF ClearAgrees
      <2> QED BY <2>1, <2>2 DEF Forward
<1>6. Feeder => Claim \/ UNCHANGED row
      BY DEF Feeder, Find, FindsNothing, FindFails, ClaimFails, Push, Empty, Return
<1>7. \A w \in Workers : Worker(w) => Save(w) \/ UNCHANGED row
      BY DEF Worker, Take, DownloadReturns, DownloadHangs, SaveFails, Settle
<1>8. Clear \/ WaitForEmpty \/ CrashAndRestart => ClearDeletes \/ UNCHANGED row
      BY DEF Clear, ClearStarts, ClearScans, ClearFails, WaitForEmpty, CrashAndRestart
<1> QED BY <1>1, <1>2, <1>3, <1>4, <1>5, <1>6, <1>7, <1>8 DEF Next, vars

\* Rows are added to `added` when they are created and at no other time.
LEMMA AddedStep ==
    ASSUME TypeOK, Hands, ClearAgrees, AddedAgrees, [Next]_vars
    PROVE  /\ AddedAgrees'
           /\ Len(added) <= Len(added') /\ Len(added) \in Nat /\ Len(added') \in Nat
           /\ \A i \in 1..Len(added) : added'[i] = added[i] /\ added[i] \in Downloads
           /\ UNCHANGED added \/ \E d \in Downloads : Enqueue(d)
<1> USE DEF AddedAgrees
<1>0. added \in Seq(Downloads) /\ Len(added) \in Nat /\ row \in [Downloads -> Status]
      BY Types DEF RestType
<1>1. \A i \in 1..Len(added) : added[i] \in Downloads
      BY <1>0
<1>2. ASSUME NEW d \in Downloads, Enqueue(d)
      PROVE  /\ AddedAgrees' /\ Len(added') = Len(added) + 1
             /\ \A i \in 1..Len(added) : added'[i] = added[i]
      <2>1. row[d] = "absent" /\ row'[d] = "idle" /\ \A e \in Downloads \ {d} : row'[e] = row[e]
            BY <1>0, <1>2 DEF Enqueue
      <2>2. /\ Len(added') = Len(added) + 1
            /\ \A i \in 1..Len(added) : added'[i] = added[i]
            /\ added'[Len(added) + 1] = d
            BY <1>0, <1>2, AppendProperties DEF Enqueue
      <2>3. \A i \in 1..Len(added) : added[i] # d
            BY <2>1
      <2>4. \A i, j \in 1..Len(added') : added'[i] = added'[j] => i = j
            BY <1>0, <2>2, <2>3
      <2>5. \A i \in 1..Len(added') : row'[added'[i]] # "absent"
            BY <1>0, <1>1, <2>1, <2>2, <2>3
      <2>6. \A e \in Downloads : row'[e] # "absent" => \E i \in 1..Len(added') : added'[i] = e
            <3>1. \A i \in 1..Len(added) : i \in 1..Len(added')
                  BY <1>0, <2>2
            <3>2. Len(added) + 1 \in 1..Len(added')
                  BY <1>0, <2>2
            <3> QED BY <2>1, <2>2, <3>1, <3>2
      <2> QED BY <2>2, <2>4, <2>5, <2>6
<1>3. CASE UNCHANGED added
      <2>1. \A d \in Downloads : row[d] = "absent" <=> row'[d] = "absent"
            <3>1. \A d \in Downloads : row[d] # "absent" => row'[d] # "absent"
                  BY RowsMoveForward DEF Forward
            <3>2. ASSUME NEW d \in Downloads, row[d] = "absent", row'[d] # "absent" PROVE FALSE
                  <4>1. Enqueue(d)
                        BY <3>2, RowsMoveForward DEF Forward
                  <4>2. added' = Append(added, d)
                        BY <4>1 DEF Enqueue
                  <4> QED BY <1>0, <1>3, <4>2, AppendProperties
            <3> QED BY <3>1, <3>2
      <2> QED BY <1>0, <1>1, <1>3, <2>1
<1>4. UNCHANGED added \/ \E d \in Downloads : Enqueue(d)
      BY DEF Next, vars, Feeder, Find, FindsNothing, FindFails, Claim, ClaimFails, Push, Empty, Return,
         Worker, Take, DownloadReturns, DownloadHangs, Save, SaveFails, Settle,
         Clear, ClearStarts, ClearScans, ClearFails, ClearDeletes, WaitForEmpty, CrashAndRestart
<1> QED BY <1>0, <1>1, <1>2, <1>3, <1>4

\* The bound on refusals is only used up.
LEMMA BudgetStep ==
    ASSUME TypeOK, [Next]_vars
    PROVE  /\ UNCHANGED exitOnEmpty
           /\ budget.db \in Nat /\ budget'.db \in Nat /\ budget'.db <= budget.db
           /\ FindFails \/ ClaimFails => budget'.db < budget.db
<1>0. budget \in Bounds
      BY Types
<1>1. UNCHANGED exitOnEmpty
      BY DEF Next, vars
<1>2. budget'.db \in Nat /\ budget.db \in Nat /\ budget'.db <= budget.db
      <2>1. UNCHANGED budget \/ \E k \in {"db", "crash", "hung", "clears", "waits"} : Spend(k)
            BY DEF Next, vars, Enqueue, Feeder, Find, FindsNothing, FindFails, Claim, ClaimFails, Push, Empty, Return,
               Worker, Take, DownloadReturns, DownloadHangs, Save, SaveFails, Settle,
               Clear, ClearStarts, ClearScans, ClearFails, ClearDeletes, WaitForEmpty, CrashAndRestart
      <2> QED BY <1>0, <2>1, Spent DEF Bounds
<1>3. FindFails \/ ClaimFails => budget'.db < budget.db
      <2>1. FindFails \/ ClaimFails => Spend("db")
            BY DEF FindFails, ClaimFails
      <2> QED BY <1>0, <2>1, Spent DEF Bounds
<1> QED BY <1>1, <1>2, <1>3

LEMMA FeederAgreesStep ==
    ASSUME TypeOK, Hands, AddedAgrees, ClearAgrees, FeederAgrees, [Next]_vars
    PROVE  FeederAgrees'
<1> DEFINE full == Budget[exitOnEmpty].db
<1>0. /\ FeederType /\ row \in [Downloads -> Status]
      /\ full \in Nat /\ budget.db <= full /\ feeder.seen <= Len(added) /\ feeder.seen \in Nat
      BY Types, BoundsAssumption DEF RestType, FeederAgrees, FeederType
<1>1. /\ full' = full /\ budget.db \in Nat /\ budget'.db \in Nat /\ budget'.db <= budget.db
      /\ FindFails \/ ClaimFails => budget'.db < budget.db
      BY BudgetStep
<1>2. /\ Len(added) <= Len(added') /\ Len(added) \in Nat /\ Len(added') \in Nat
      /\ \A i \in 1..Len(added) : added'[i] = added[i] /\ added[i] \in Downloads /\ row[added[i]] # "absent"
      BY AddedStep DEF AddedAgrees
<1>3. \A i \in 1..Len(added) : row[added[i]] # "idle" => row'[added'[i]] # "idle"
      BY <1>2, RowsMoveForward DEF Forward
<1>4. ASSUME feeder'.seen = feeder.seen, feeder.at # "next" \/ feeder'.at \in {"next", "claim", "push"},
             \/ feeder'.at = feeder.at
             \/ feeder'.at \in {"next", "claim", "push"}
             \/ feeder.at \in {"empty", "drain"}
      PROVE  FeederAgrees'
      <2>1. feeder'.at \in {"empty", "drain", "returned"} => feeder.at \in {"empty", "drain", "returned"}
            BY <1>4
      <2>2. ASSUME feeder'.at \in {"empty", "drain", "returned"}, budget'.db = full'
            PROVE  \A i \in 1..feeder'.seen : row'[added'[i]] # "idle"
            <3>1. budget.db = full
                  BY <1>0, <1>1, <2>2
            <3>2. \A i \in 1..feeder.seen : row[added[i]] # "idle" /\ i \in 1..Len(added)
                  BY <1>0, <1>2, <2>1, <2>2, <3>1 DEF FeederAgrees
            <3> QED BY <1>3, <1>4, <3>2
      <2>3. feeder'.seen <= Len(added') /\ budget'.db <= full'
            BY <1>0, <1>1, <1>2, <1>4
      <2> QED BY <2>2, <2>3 DEF FeederAgrees
<1>5. ASSUME FindFails \/ ClaimFails PROVE FeederAgrees'
      <2>1. feeder'.seen = Len(added) /\ budget'.db < full
            BY <1>0, <1>1, <1>5, FeederFields DEF FeederIs
      <2> QED BY <1>1, <1>2, <1>0, <2>1 DEF FeederAgrees
<1>6. ASSUME FindsNothing PROVE FeederAgrees'
      <2>1. feeder'.seen = Len(added) /\ Rows("idle") = {} /\ UNCHANGED <<row, added>>
            BY <1>6, FeederFields DEF FeederIs, FindsNothing
      <2>2. \A i \in 1..Len(added) : row[added[i]] # "idle"
            BY <1>2, <2>1 DEF Rows
      <2>3. \A i \in 1..feeder'.seen : row'[added'[i]] # "idle"
            BY <1>2, <1>3, <2>1, <2>2
      <2> QED BY <1>0, <1>1, <1>2, <2>1, <2>3 DEF FeederAgrees
<1>7. ASSUME CrashAndRestart PROVE FeederAgrees'
      <2>1. feeder'.at = "next" /\ feeder'.seen = 0
            BY <1>7, FeederFields DEF FeederIs
      <2> QED BY <1>0, <1>1, <1>2, <2>1 DEF FeederAgrees
<1>8. ASSUME \/ \E d \in Downloads : Find(d)
             \/ Claim \/ Push \/ Empty \/ Return
      PROVE  FeederAgrees'
      <2>1. /\ feeder'.seen = feeder.seen
            /\ feeder'.at \in {"next", "claim", "push"} \/ (feeder.at = "empty" \/ feeder.at = "drain")
            BY <1>8, FeederFields DEF FeederIs, Empty, Return
      <2> QED BY <1>4, <2>1
<1>9. ASSUME UNCHANGED feeder PROVE FeederAgrees'
      <2>1. feeder.at \in FeederAt
            BY <1>0 DEF FeederType
      <2> QED BY <1>4, <1>9, <2>1 DEF FeederAt
<1> QED BY <1>5, <1>6, <1>7, <1>8, <1>9 DEF Next, vars, Enqueue, memory, Feeder, Worker, Take, DownloadReturns,
           DownloadHangs, Save, SaveFails, Settle, Clear, ClearStarts, ClearScans, ClearFails, ClearDeletes,
           WaitForEmpty

\* A row that is past the statuses Clear has asked for stays past them.
LEMMA ClearAgreesStep ==
    ASSUME TypeOK, Hands, ClearAgrees, [Next]_vars
    PROVE  ClearAgrees'
<1>0. ClearType /\ row \in [Downloads -> Status]
      BY Types DEF RestType
<1>1. \A d \in Downloads : Forward(d)
      BY RowsMoveForward
<1>2. \A d \in Downloads : row[d] # "absent" => row'[d] # "absent" /\ row'[d] \in Status
      BY <1>0, <1>1 DEF Forward, Status
<1>3. ASSUME UNCHANGED clear PROVE ClearAgrees'
      <2>1. ASSUME NEW d \in clear.before, clear.at # "off" PROVE d \in clear.ids \/ row'[d] \in Past[clear.at]
            <3>1. d \in clear.ids \/ row[d] \in Past[clear.at]
                  BY <2>1 DEF ClearAgrees
            <3>2. Forward(d) /\ clear.at \in {"idle", "pending", "completed", "delete"} /\ row'[d] \in Status
                  <4>1. Forward(d) /\ d \in Downloads /\ clear.at \in {"idle", "pending", "completed", "delete"}
                        BY <1>0, <1>1, <2>1 DEF ClearType, ClearAt
                  <4> QED BY <1>0, <4>1 DEF Forward, Status
            <3>3. row[d] \in Past[clear.at] => row'[d] \in Past[clear.at]
                  BY <3>2 DEF Past, Forward, Status
            <3> QED BY <3>1, <3>3
      <2>2. \A d \in clear.ids : clear.at # "off" => row'[d] # "absent"
            BY <1>0, <1>2 DEF ClearAgrees, ClearType
      <2> QED BY <1>3, <2>1, <2>2 DEF ClearAgrees
<1>4. ASSUME ClearStarts PROVE ClearAgrees'
      <2>1. clear' = [at |-> "idle", ids |-> {}, before |-> Live] /\ UNCHANGED row
            BY <1>4 DEF ClearStarts
      <2>2. clear'.at = "idle" /\ clear'.ids = {} /\ clear'.before = Live
            BY <2>1
      <2>3. \A d \in Live : row[d] \in Past["idle"]
            BY <1>0 DEF Live, Rows, Past
      <2> QED BY <2>1, <2>2, <2>3 DEF ClearAgrees
<1>5. ASSUME ClearScans PROVE ClearAgrees'
      <2> DEFINE s == clear.at
      <2>1. s \in {"idle", "pending", "completed"} /\ UNCHANGED row
            BY <1>5 DEF ClearScans, ScanAfter
      <2>2. clear'.at = ScanAfter[s] /\ clear'.ids = clear.ids \cup Rows(s) /\ clear'.before = clear.before
            BY <1>0, <1>5 DEF ClearScans, ClearType
      <2>3. ASSUME NEW d \in clear.before PROVE d \in clear'.ids \/ row'[d] \in Past[clear'.at]
            <3>1. d \in Downloads /\ (d \in clear.ids \/ row[d] \in Past[s])
                  BY <1>0, <2>1 DEF ClearAgrees, ClearType
            <3>2. row[d] = s \/ (row[d] \in Past[s] => row[d] \in Past[ScanAfter[s]])
                  BY <2>1 DEF Past, ScanAfter, Status
            <3> QED BY <2>1, <2>2, <3>1, <3>2 DEF Rows
      <2>4. \A d \in clear'.ids : row'[d] # "absent"
            BY <2>1, <2>2 DEF ClearAgrees, Rows
      <2> QED BY <2>2, <2>3, <2>4 DEF ClearAgrees
<1>6. ASSUME clear' = NoClear PROVE ClearAgrees'
      <2>1. clear'.at = "off"
            BY <1>6 DEF NoClear
      <2> QED BY <2>1 DEF ClearAgrees
<1> QED BY <1>3, <1>4, <1>5, <1>6 DEF Next, vars, Enqueue, memory, Feeder, Find, FindsNothing, FindFails, Claim,
           ClaimFails, Push, Empty, Return, Worker, Take, DownloadReturns, DownloadHangs, Save, SaveFails, Settle,
           Clear, ClearFails, ClearDeletes, WaitForEmpty, CrashAndRestart

-----------------------------------------------------------------------------
(* The order in which downloads start.                                     *)

\* A row that was added has its place in `added`, and keeps it.
LEMMA Positions ==
    ASSUME TypeOK, Hands, ClearAgrees, AddedAgrees, [Next]_vars, NEW d \in Downloads
    PROVE  /\ row[d] # "absent" => /\ Position(d) \in 1..Len(added) /\ added[Position(d)] = d
                                   /\ Position(d)' = Position(d)
           /\ Enqueue(d) => Position(d)' = Len(added) + 1
<1>0. added \in Seq(Downloads) /\ Len(added) \in Nat
      BY Types DEF RestType
<1>1. AddedAgrees' /\ Len(added) <= Len(added') /\ Len(added') \in Nat /\ \A i \in 1..Len(added) : added'[i] = added[i]
      BY AddedStep
<1>2. ASSUME row[d] # "absent"
      PROVE  Position(d) \in 1..Len(added) /\ added[Position(d)] = d /\ Position(d)' = Position(d)
      <2>1. PICK i \in 1..Len(added) : added[i] = d
            BY <1>2 DEF AddedAgrees
      <2>2. i \in 1..Len(added') /\ added'[i] = d
            BY <1>0, <1>1, <2>1
      <2>3. Position(d) \in 1..Len(added) /\ added[Position(d)] = d
            BY <2>1 DEF Position
      <2>4. Position(d)' \in 1..Len(added') /\ added'[Position(d)'] = d
            BY <2>2 DEF Position
      <2>5. Position(d) = i /\ Position(d)' = i
            BY <1>1, <2>1, <2>2, <2>3, <2>4 DEF AddedAgrees
      <2> QED BY <2>3, <2>5
<1>3. ASSUME Enqueue(d) PROVE Position(d)' = Len(added) + 1
      <2> DEFINE n == Len(added) + 1
      <2>1. Len(added') = n /\ added'[n] = d /\ n \in 1..Len(added')
            BY <1>0, <1>3, AppendProperties DEF Enqueue
      <2>2. Position(d)' \in 1..Len(added') /\ added'[Position(d)'] = d
            BY <2>1 DEF Position
      <2> QED BY <1>1, <2>1, <2>2 DEF AddedAgrees
<1> QED BY <1>2, <1>3

\* Every download that was found, and every idle one, has a row.
LEMMA InLine ==
    ASSUME TypeOK, Hands, OrderAgrees
    PROVE  /\ Started \subseteq Downloads /\ Pooled \subseteq Downloads /\ Handing \subseteq Downloads
           /\ \A d \in Started \cup Pooled \cup Handing \cup Rows("idle") : d \in Downloads /\ row[d] # "absent"
           /\ \A d \in Started : d \notin Rows("idle") \cup Pooled \cup Handing
<1>0. RestType /\ FeederType
      BY Types
<1>1. Started \subseteq Downloads /\ Pooled \subseteq Downloads /\ Handing \subseteq Downloads /\ Rows("idle") \subseteq Downloads
      BY <1>0 DEF RestType, FeederType, Started, Pooled, Handing, Rows
<1>2. \A d \in Started : attempts[d] > 0 /\ attempts[d] # 0
      BY <1>0, <1>1 DEF OrderAgrees, RestType
<1>3. \A d \in Started : row[d] # "absent" /\ d \notin Rows("idle") \cup Pooled \cup Handing
      BY <1>1, <1>2 DEF Hands, NotYetStarted, Rows
<1>4. \A d \in Pooled : row[d] # "absent"
      BY DEF Hands, RowsAgree, Pooled
<1>5. \A d \in Handing : row[d] # "absent"
      BY DEF Hands, RowsAgree, Handing
<1> QED BY <1>1, <1>3, <1>4, <1>5 DEF Rows

LEMMA OrderAgreesStep ==
    ASSUME TypeOK, Hands, ClearAgrees, AddedAgrees, OrderAgrees, [Next]_vars
    PROVE  OrderAgrees'
<1> DEFINE idle == Rows("idle")
           line == Started \cup Pooled \cup Handing
<1>0. /\ started \in Seq(Downloads) /\ pool \in Seq(Downloads) /\ seenAt \in [Downloads -> Nat]
      /\ attempts \in [Downloads -> Nat] /\ row \in [Downloads -> Status]
      /\ Len(started) \in Nat /\ Len(pool) \in Nat /\ Len(added) \in Nat
      BY Types DEF RestType
<1>1. /\ \A d \in line \cup idle :
            /\ d \in Downloads /\ row[d] # "absent"
            /\ Position(d) \in 1..Len(added) /\ added[Position(d)] = d /\ Position(d)' = Position(d)
      /\ \A d \in Downloads : Enqueue(d) => Position(d)' = Len(added) + 1
      BY InLine, Positions
<1>2. Len(added) <= Len(added') /\ Len(added') \in Nat
      BY AddedStep
<1>3. ASSUME NEW d \in line, NEW e \in line, seenAt'[d] = seenAt[d], MayFollow(d, e)
      PROVE  MayFollow(d, e)'
      BY <1>1, <1>3 DEF MayFollow
<1>4. \A i \in 1..Len(started) : started[i] \in Started
      BY DEF Started
<1>5. \A i \in 1..Len(pool) : pool[i] \in Pooled
      BY DEF Pooled
<1>6. \A e \in idle' : e \in idle \/ (e \in Downloads /\ Enqueue(e) /\ Position(e)' = Len(added) + 1)
      BY RowsMoveForward, <1>1 DEF Forward, Rows
<1>7. ASSUME UNCHANGED <<started, attempts, seenAt>>, pool' = pool \/ pool' = <<>>, Handing' \subseteq Handing
      PROVE  OrderAgrees'
      <2>1. Started' = Started /\ Len(started') = Len(started) /\ Pooled' \subseteq Pooled
            BY <1>7 DEF Started, Pooled
      <2>2. \A i, j \in 1..Len(started') : i < j => MayFollow(started[i], started[j])'
            BY <1>3, <1>4, <1>7, <1>1, <2>1 DEF OrderAgrees
      <2>3. \A i, j \in 1..Len(pool') : i < j => MayFollow(pool[i], pool[j])'
            <3>1. CASE pool' = pool
                  BY <1>3, <1>5, <1>7, <1>1, <3>1 DEF OrderAgrees
            <3> QED BY <1>7, <3>1
      <2>4. \A d \in Started', e \in Pooled' \cup Handing' : MayFollow(d, e)'
            BY <1>3, <1>7, <2>1 DEF OrderAgrees
      <2>5. \A d \in Pooled', e \in Handing' : MayFollow(d, e)'
            BY <1>3, <1>7, <2>1 DEF OrderAgrees
      <2>6. ASSUME NEW d \in line', NEW e \in idle'
            PROVE  Position(e)' <= Position(d)' \/ Position(e)' > seenAt'[d]
            <3>1. d \in line /\ d \in Downloads
                  BY <1>1, <1>7, <2>1
            <3>2. CASE e \in idle
                  BY <1>1, <1>7, <3>1, <3>2 DEF OrderAgrees
            <3>3. CASE Position(e)' = Len(added) + 1
                  BY <1>0, <1>7, <3>1, <3>3 DEF OrderAgrees
            <3> QED BY <1>6, <3>2, <3>3
      <2>7. (\A d \in Started' : attempts'[d] > 0) /\ \A d \in Downloads : seenAt'[d] <= Len(added')
            BY <1>0, <1>2, <1>7, <2>1 DEF OrderAgrees
      <2> QED BY <2>2, <2>3, <2>4, <2>5, <2>6, <2>7 DEF OrderAgrees
<1>8. ASSUME NEW d \in Downloads, Find(d) PROVE OrderAgrees'
      <2>1. /\ UNCHANGED <<row, added, pool, attempts, started>> /\ d \in idle
            /\ seenAt'[d] = Len(added) /\ \A e \in Downloads \ {d} : seenAt'[e] = seenAt[e]
            BY <1>0, <1>8 DEF Find, Newest
      <2>2. Handing = {} /\ Handing' = {d} /\ UNCHANGED <<Pooled, Started, idle>>
            BY <1>8, <2>1, FeederViews DEF Started, Rows
      <2>3. \A e \in line : e # d /\ seenAt'[e] = seenAt[e] /\ e \in Downloads
            <3>1. d \notin Started /\ d \notin Pooled
                  BY <2>1, InLine DEF Hands, NotYetStarted
            <3> QED BY <1>1, <2>1, <2>2, <3>1
      <2>4. \A e \in Started \cup Pooled : MayFollow(e, d)'
            <3>1. ASSUME NEW e \in Started \cup Pooled PROVE MayFollow(e, d)'
                  <4>1. Position(d) <= Position(e) \/ Position(d) > seenAt[e]
                        BY <2>1 DEF OrderAgrees
                  <4>2. Position(d) # Position(e)
                        BY <1>1, <2>1, <2>3
                  <4> QED BY <1>1, <2>1, <2>3, <4>1, <4>2 DEF MayFollow
            <3> QED BY <3>1
      <2>5. \A e \in idle : Position(e) <= Position(d)
            <3>1. PICK i \in 1..Len(added) : added[i] = d /\ \A j \in i+1..Len(added) : added[j] \notin idle
                  BY <1>8 DEF Find, Newest
            <3>2. Position(d) = i
                  BY <1>1, <2>1, <3>1 DEF AddedAgrees
            <3>3. ASSUME NEW e \in idle PROVE Position(e) <= Position(d)
                  <4>1. Position(e) \in 1..Len(added) /\ added[Position(e)] = e
                        BY <1>1
                  <4>2. Position(e) \notin i+1..Len(added)
                        BY <3>1, <4>1
                  <4> QED BY <1>0, <3>2, <4>1, <4>2
            <3> QED BY <3>3
      <2>6. \A i, j \in 1..Len(started) : i < j => MayFollow(started[i], started[j])'
            BY <1>1, <1>3, <1>4, <2>1, <2>3 DEF OrderAgrees
      <2>7. \A i, j \in 1..Len(pool) : i < j => MayFollow(pool[i], pool[j])'
            BY <1>1, <1>3, <1>5, <2>1, <2>3 DEF OrderAgrees
      <2>8. \A e \in Started, f \in Pooled : MayFollow(e, f)'
            BY <1>3, <2>3 DEF OrderAgrees
      <2>9. \A e \in line \cup {d}, f \in idle : Position(f)' <= Position(e)' \/ Position(f)' > seenAt'[e]
            <3>1. ASSUME NEW e \in line, NEW f \in idle PROVE Position(f)' <= Position(e)' \/ Position(f)' > seenAt'[e]
                  BY <1>1, <2>3, <3>1 DEF OrderAgrees
            <3>2. ASSUME NEW f \in idle PROVE Position(f)' <= Position(d)'
                  BY <1>1, <2>1, <2>5
            <3> QED BY <3>1, <3>2
      <2>10. (\A e \in Started : attempts[e] > 0) /\ \A e \in Downloads : seenAt'[e] <= Len(added)
            <3>1. \A e \in Started : attempts[e] > 0
                  BY DEF OrderAgrees
            <3>2. \A e \in Downloads : seenAt[e] <= Len(added)
                  BY DEF OrderAgrees
            <3>3. \A e \in Downloads : seenAt'[e] <= Len(added)
                  <4>1. ASSUME NEW e \in Downloads PROVE seenAt'[e] <= Len(added)
                        <5>1. CASE e = d
                              BY <1>0, <2>1, <5>1
                        <5>2. CASE e # d
                              BY <2>1, <3>2, <5>2
                        <5> QED BY <5>1, <5>2
                  <4> QED BY <4>1
            <3> QED BY <3>1, <3>3
      <2> QED BY <2>1, <2>2, <2>4, <2>6, <2>7, <2>8, <2>9, <2>10 DEF OrderAgrees
<1>9. ASSUME Push PROVE OrderAgrees'
      <2> DEFINE d == feeder.item
      <2>1. UNCHANGED <<row, added, attempts, started, seenAt>> /\ pool' = Append(pool, d)
            BY <1>9 DEF Push, history
      <2>2. /\ d \in Downloads /\ Handing = {d} /\ Handing' = {} /\ Pooled' = Pooled \cup {d}
            /\ UNCHANGED <<Started, idle>>
            BY <1>9, <2>1, FeederViews DEF Started, Rows
      <2>3. /\ Len(pool') = Len(pool) + 1 /\ pool'[Len(pool) + 1] = d
            /\ \A i \in 1..Len(pool) : pool'[i] = pool[i]
            /\ 1..Len(pool') = (1..Len(pool)) \cup {Len(pool) + 1}
            BY <1>0, <2>1, <2>2, AppendProperties
      <2>4. \A e, f \in line : MayFollow(e, f) => MayFollow(e, f)'
            BY <1>1, <1>3, <2>1
      <2>5. \A i, j \in 1..Len(started) : i < j => MayFollow(started[i], started[j])'
            BY <1>4, <2>1, <2>4 DEF OrderAgrees
      <2>6. \A i, j \in 1..Len(pool') : i < j => MayFollow(pool[i], pool[j])'
            <3>1. ASSUME NEW i \in 1..Len(pool'), NEW j \in 1..Len(pool'), i < j
                  PROVE  MayFollow(pool[i], pool[j])'
                  <4> DEFINE n == Len(pool)
                  <4>1. i \in 1..n /\ (j \in 1..n \/ j = n + 1)
                        <5>1. n \in Nat /\ i \in (1..n) \cup {n + 1} /\ j \in (1..n) \cup {n + 1}
                              BY <1>0, <2>3
                        <5> HIDE DEF n
                        <5> QED BY <3>1, <5>1
                  <4>2. CASE j \in 1..Len(pool)
                        BY <1>5, <2>3, <2>4, <3>1, <4>1, <4>2 DEF OrderAgrees
                  <4>3. CASE j = Len(pool) + 1
                        BY <1>5, <2>2, <2>3, <2>4, <4>1, <4>3 DEF OrderAgrees
                  <4> QED BY <4>1, <4>2, <4>3
            <3> QED BY <3>1
      <2>7. \A e \in Started, f \in Pooled' : MayFollow(e, f)'
            BY <2>2, <2>4 DEF OrderAgrees
      <2>8. \A e \in line, f \in idle : Position(f)' <= Position(e)' \/ Position(f)' > seenAt'[e]
            BY <1>1, <2>1 DEF OrderAgrees
      <2>9. (\A e \in Started : attempts[e] > 0) /\ \A e \in Downloads : seenAt[e] <= Len(added)
            BY DEF OrderAgrees
      <2> QED BY <2>1, <2>2, <2>5, <2>6, <2>7, <2>8, <2>9 DEF OrderAgrees
<1>10. ASSUME NEW w \in Workers, Take(w) PROVE OrderAgrees'
      <2>0. PICK d \in Downloads : d = Head(pool)
            BY <1>10, Types DEF Take
      <2>1. /\ UNCHANGED <<row, added, seenAt>> /\ pool # <<>> /\ pool' = Tail(pool)
            /\ started' = Append(started, d) /\ attempts' = [attempts EXCEPT ![d] = @ + 1]
            BY <1>10, <2>0 DEF Take
      <2>2. d \in Pooled /\ Pooled' \subseteq Pooled /\ UNCHANGED <<Handing, idle>>
            BY <1>10, <2>0, <2>1, WorkerViews DEF Hands, Take, Rows
      <2>3. /\ d = pool[1] /\ Len(pool) > 0 /\ Len(pool') = Len(pool) - 1
            /\ \A i \in 1..Len(pool') : pool'[i] = pool[i + 1]
            BY <1>0, <2>0, <2>1, HeadTailProperties
      <2>4. /\ Len(started') = Len(started) + 1 /\ started'[Len(started) + 1] = d
            /\ \A i \in 1..Len(started) : started'[i] = started[i]
            /\ 1..Len(started') = (1..Len(started)) \cup {Len(started) + 1}
            BY <1>0, <2>1, AppendProperties
      <2>5. Started' = Started \cup {d}
            BY <1>0, <2>4 DEF Started
      <2>6. \A e, f \in line : MayFollow(e, f) => MayFollow(e, f)'
            BY <1>1, <1>3, <2>1
      <2>7. \A i, j \in 1..Len(started') : i < j => MayFollow(started[i], started[j])'
            <3>1. ASSUME NEW i \in 1..Len(started'), NEW j \in 1..Len(started'), i < j
                  PROVE  MayFollow(started[i], started[j])'
                  <4> DEFINE n == Len(started)
                  <4>1. i \in 1..n /\ (j \in 1..n \/ j = n + 1)
                        <5>1. n \in Nat /\ i \in (1..n) \cup {n + 1} /\ j \in (1..n) \cup {n + 1}
                              BY <1>0, <2>4
                        <5> HIDE DEF n
                        <5> QED BY <3>1, <5>1
                  <4>2. CASE j \in 1..Len(started)
                        BY <1>4, <2>4, <2>6, <3>1, <4>1, <4>2 DEF OrderAgrees
                  <4>3. CASE j = Len(started) + 1
                        BY <1>4, <2>2, <2>4, <2>6, <4>1, <4>3 DEF OrderAgrees
                  <4> QED BY <4>1, <4>2, <4>3
            <3> QED BY <3>1
      <2>8. \A i, j \in 1..Len(pool') : i < j => MayFollow(pool[i], pool[j])'
            <3>1. ASSUME NEW i \in 1..Len(pool'), NEW j \in 1..Len(pool'), i < j
                  PROVE  MayFollow(pool[i], pool[j])'
                  <4> DEFINE n == Len(pool)
                  <4>1. i + 1 \in 1..n /\ j + 1 \in 1..n /\ i + 1 < j + 1
                        <5>1. n \in Nat /\ i \in 1..n-1 /\ j \in 1..n-1
                              BY <1>0, <2>3
                        <5> HIDE DEF n
                        <5> QED BY <3>1, <5>1
                  <4>2. MayFollow(pool[i + 1], pool[j + 1])
                        BY <4>1 DEF OrderAgrees
                  <4>3. pool[i + 1] \in line /\ pool[j + 1] \in line
                        BY <1>5, <4>1
                  <4>4. pool'[i] = pool[i + 1] /\ pool'[j] = pool[j + 1]
                        BY <2>3, <3>1
                  <4> QED BY <2>6, <4>2, <4>3, <4>4
            <3> QED BY <3>1
      <2>9. \A e \in Pooled' : MayFollow(d, e)'
            <3>1. ASSUME NEW e \in Pooled' PROVE MayFollow(d, e)'
                  <4>1. PICK i \in 1..Len(pool') : e = pool'[i]
                        BY DEF Pooled
                  <4> DEFINE n == Len(pool)
                  <4>2. 1 \in 1..n /\ i + 1 \in 1..n /\ 1 < i + 1 /\ e = pool[i + 1]
                        <5>1. n \in Nat /\ n > 0 /\ Len(pool') = n - 1 /\ i \in 1..n-1
                              BY <1>0, <2>3
                        <5>2. e = pool[i + 1]
                              BY <2>3, <4>1
                        <5> HIDE DEF n
                        <5> QED BY <5>1, <5>2
                  <4>3. MayFollow(d, e)
                        BY <2>3, <4>2 DEF OrderAgrees
                  <4> QED BY <2>2, <2>6, <4>3
            <3> QED BY <3>1
      <2>10. /\ \A e \in Started, f \in Pooled' \cup Handing' : MayFollow(e, f)'
             /\ \A e \in Pooled' \cup {d}, f \in Handing' : MayFollow(e, f)'
            BY <2>2, <2>6 DEF OrderAgrees
      <2>11. \A e \in line, f \in idle : Position(f)' <= Position(e)' \/ Position(f)' > seenAt'[e]
            BY <1>1, <2>1 DEF OrderAgrees
      <2>12. (\A e \in Started' : attempts'[e] > 0) /\ \A e \in Downloads : seenAt[e] <= Len(added)
            BY <1>0, <1>1, <2>1, <2>3, <2>5 DEF OrderAgrees
      <2> QED BY <2>1, <2>2, <2>5, <2>7, <2>8, <2>9, <2>10, <2>11, <2>12 DEF OrderAgrees
<1>11. ASSUME UNCHANGED vars \/ (\E d \in Downloads : Enqueue(d)) \/ Clear \/ WaitForEmpty \/ CrashAndRestart
       PROVE OrderAgrees'
      <2>1. CASE UNCHANGED <<feeder, pool, started, attempts, seenAt>>
            <3>1. UNCHANGED Handing
                  BY <2>1 DEF Handing
            <3> QED BY <1>7, <2>1, <3>1
      <2>2. CASE CrashAndRestart
            <3>1. feeder'.at = "next" /\ pool' = <<>> /\ UNCHANGED <<started, attempts, seenAt>>
                  BY <2>2, FeederFields DEF CrashAndRestart, FeederIs, history
            <3>2. Handing' = {}
                  BY <3>1 DEF Handing
            <3> QED BY <1>7, <3>1, <3>2
      <2> QED BY <1>11, <2>1, <2>2 DEF vars, Enqueue, Clear, ClearStarts, ClearScans, ClearFails, ClearDeletes,
                 WaitForEmpty, memory, history
<1>12. ASSUME FindsNothing \/ FindFails \/ Claim \/ ClaimFails \/ Empty \/ Return
       PROVE OrderAgrees'
      <2>1. Handing' \subseteq Handing
            BY <1>12, FeederViews
      <2> QED BY <1>7, <1>12, <2>1 DEF FindsNothing, FindFails, Claim, ClaimFails, Empty, Return, history
<1>13. ASSUME NEW w \in Workers, Worker(w), ~Take(w) PROVE OrderAgrees'
      <2>1. UNCHANGED <<feeder, pool, started, attempts, seenAt>>
            BY <1>13 DEF Worker, DownloadReturns, DownloadHangs, Save, SaveFails, Settle, history
      <2>2. UNCHANGED Handing
            BY <2>1 DEF Handing
      <2> QED BY <1>7, <2>1, <2>2
<1> QED BY <1>8, <1>9, <1>10, <1>11, <1>12, <1>13 DEF Next, Feeder

-----------------------------------------------------------------------------
(* The invariant.                                                          *)

\* IInv holds at first, and every step keeps it.
LEMMA InitIInv == Init => IInv
<1> SUFFICES ASSUME Init PROVE IInv
    OBVIOUS
<1>0. /\ exitOnEmpty \in BOOLEAN /\ row = [d \in Downloads |-> "absent"] /\ added = <<>>
      /\ feeder = [at |-> "next", item |-> None, seen |-> 0] /\ pool = <<>>
      /\ worker = [w \in Workers |-> [at |-> "free", item |-> None, ok |-> FALSE]]
      /\ active = {} /\ wg = 0 /\ waiter = "off" /\ clear = [at |-> "off", ids |-> {}, before |-> {}]
      /\ attempts = [d \in Downloads |-> 0] /\ started = <<>> /\ seenAt = [d \in Downloads |-> 0]
      /\ budget = Budget[exitOnEmpty]
      BY DEF Init, Searching, Free, NoClear
<1>1. TypeOK
      <2>1. RestType
            BY <1>0, PoolSizeNat DEF RestType, Status
      <2>2. FeederType /\ WorkerType /\ ClearType
            BY <1>0 DEF FeederType, FeederAt, WorkerType, WorkerRecord, WorkerAt, ClearType, ClearAt
      <2>3. budget \in Bounds
            BY <1>0, BoundsAssumption DEF Bounds
      <2> QED BY <2>1, <2>2, <2>3, TypeParts
<1>2. Busy = {} /\ Held = {} /\ Pooled = {} /\ Handing = {} /\ Started = {} /\ Len(pool) = 0 /\ Cardinality(Busy) = 0
      <2>1. Busy = {} /\ Handing = {} /\ Len(pool) = 0 /\ Len(started) = 0
            BY <1>0 DEF Busy, Handing
      <2>2. Held = {} /\ Pooled = {} /\ Started = {}
            BY <2>1 DEF Held, Pooled, Started
      <2> QED BY <2>1, <2>2, FS_EmptySet
<1>3. \A d \in Downloads : row[d] = "absent" /\ attempts[d] = 0 /\ seenAt[d] = 0
      BY <1>0
<1>4. Hands
      BY <1>0, <1>2, <1>3 DEF Hands, OneOwner, AtMostOnce, NotYetStarted, ActiveIsHeld, RowsAgree, Rows
<1>5. Counts
      BY <1>0, <1>2 DEF Counts, WaitGroupCounts, QuiescentOnReturn
<1>6. AddedAgrees /\ ClearAgrees
      BY <1>0, <1>3 DEF AddedAgrees, ClearAgrees
<1>7. FeederAgrees
      BY <1>0, BoundsAssumption DEF FeederAgrees
<1>8. OrderAgrees
      BY <1>0, <1>2, <1>3 DEF OrderAgrees
<1> QED BY <1>1, <1>4, <1>5, <1>6, <1>7, <1>8 DEF IInv, Inv, Hands, Counts

LEMMA NextIInv == IInv /\ [Next]_vars => IInv'
<1> SUFFICES ASSUME IInv, [Next]_vars PROVE IInv'
    OBVIOUS
<1>0. TypeOK /\ Inv /\ Hands /\ Counts /\ AddedAgrees /\ FeederAgrees /\ ClearAgrees /\ OrderAgrees /\ OneOwner
      BY DEF IInv, Inv, Hands, Counts
<1>1. TypeOK' /\ Hands' /\ Counts'
      <2>1. CASE Feeder /\ UNCHANGED exitOnEmpty
            BY <1>0, <2>1, TypesOfFeeder, HandsOfFeeder, CountsOfFeeder
      <2>2. CASE (\E w \in Workers : Worker(w)) /\ UNCHANGED exitOnEmpty
            BY <1>0, <2>2, TypesOfWorker, HandsOfWorker, CountsOfWorker
      <2>3. CASE /\ (\E d \in Downloads : Enqueue(d)) \/ Clear \/ WaitForEmpty \/ CrashAndRestart
                 /\ UNCHANGED exitOnEmpty
            <3>1. TypeOK'
                  BY <1>0, <2>3, TypesOfOthers
            <3>2. Hands'
                  BY <1>0, <2>3, HandsOfOthers
            <3>3. Counts'
                  BY <1>0, <2>3, CountsOfOthers
            <3> QED BY <3>1, <3>2, <3>3
      <2>4. CASE UNCHANGED vars
            <3>1. UNCHANGED <<Busy, Held, Pooled, Handing>> /\ \A s : UNCHANGED Rows(s)
                  BY <2>4 DEF vars, Rows, Busy, Held, Pooled, Handing
            <3>2. TypeOK'
                  BY <1>0, <2>4 DEF vars, TypeOK
            <3>3. Hands'
                  BY <1>0, <2>4, <3>1 DEF vars, Hands, OneOwner, AtMostOnce, NotYetStarted, ActiveIsHeld, RowsAgree
            <3>4. Counts'
                  BY <1>0, <2>4, <3>1 DEF vars, Counts, WaitGroupCounts, QuiescentOnReturn
            <3> QED BY <3>2, <3>3, <3>4
      <2> QED BY <2>1, <2>2, <2>3, <2>4 DEF Next
<1>2. AddedAgrees' /\ FeederAgrees' /\ ClearAgrees' /\ OrderAgrees'
      BY <1>0, AddedStep, FeederAgreesStep, ClearAgreesStep, OrderAgreesStep
<1> QED BY <1>1, <1>2 DEF IInv, Inv, Hands, Counts

\* IInv holds in every state the queue reaches.
THEOREM Invariance == Spec => []IInv
BY InitIInv, NextIInv, PTL DEF Spec

\* The invariant of the run queue: a download has one owner and is started at most
\* once, and waitForComplete counts what was handed out (queue.go:165-278).
THEOREM QueueSafe == Spec => []Inv
<1>1. IInv => Inv
      BY DEF IInv
<1> QED BY <1>1, Invariance, PTL

\* Downloads start newest first (queue.go:109-131, 252).
THEOREM StartedNewestFirst == Spec => []NewestFirst
<1>1. IInv => NewestFirst
      BY DEF IInv, OrderAgrees, MayFollow, NewestFirst
<1> QED BY <1>1, Invariance, PTL

\* When DownloadAll returns, nothing it last saw in the queue is idle, unless the
\* database refused a call (queue.go:217-246).
THEOREM ReturnedTriedAll == Spec => []ReturnedMeansAllTried
<1>1. IInv => ReturnedMeansAllTried
      BY DEF IInv, FeederAgrees, ReturnedMeansAllTried
<1> QED BY <1>1, Invariance, PTL

\* A Clear that deletes leaves, of the rows it found, only those of failed downloads (queue.go:283-316).
THEOREM ClearSweepsAll == Spec => ClearSweeps
<1>1. IInv /\ [Next]_vars => [ClearDeletes => \A d \in clear.before : row'[d] \in {"failed", "downloading", "deleted"}]_vars
      <2> SUFFICES ASSUME IInv, ClearDeletes, NEW d \in clear.before PROVE row'[d] \in {"failed", "downloading", "deleted"}
          OBVIOUS
      <2>1. ClearType /\ ClearAgrees
            BY Types DEF IInv, Inv
      <2>2. d \in Downloads /\ clear.at = "delete" /\ row'[d] = IF d \in clear.ids THEN "deleted" ELSE row[d]
            BY <2>1 DEF ClearDeletes, ClearType
      <2>3. d \in clear.ids \/ row[d] \in {"failed", "downloading", "deleted"}
            BY <2>1, <2>2 DEF ClearAgrees, Past
      <2> QED BY <2>2, <2>3
<1> QED BY <1>1, Invariance, PTL DEF Spec, ClearSweeps

-----------------------------------------------------------------------------
\* Each step of the queue is a step of DownloadLifecycle, or changes neither a row
\* nor an attempt.
LEMMA InitLife == Init => Life!Init
BY DEF Init, Life!Init

LEMMA NextLife == IInv /\ [Next]_vars => [Life!Next]_(Life!lifeVars)
<1> SUFFICES ASSUME IInv, [Next]_vars PROVE Life!Next \/ UNCHANGED <<row, attempts>>
    BY DEF Life!lifeVars
<1>0. /\ TypeOK /\ Hands /\ ClearAgrees /\ FeederType /\ WorkerType /\ ClearType
      /\ row \in [Downloads -> Status] /\ attempts \in [Downloads -> Nat]
      /\ pool # <<>> => Head(pool) \in Downloads
      BY Types DEF IInv, Inv, Hands, RestType
<1>1. ASSUME NEW d \in Downloads, Enqueue(d) PROVE Life!Next
      <2>1. Life!Add(d)
            BY <1>1 DEF Enqueue, history, Life!Add, Life!Becomes
      <2> QED BY <2>1 DEF Life!Next
<1>2. ASSUME Claim PROVE Life!Next \/ UNCHANGED <<row, attempts>>
      <2> DEFINE d == feeder.item
      <2>1. d \in Downloads /\ row[d] \in {"idle", "deleted"} /\ Update(d, "pending") /\ UNCHANGED attempts
            BY <1>0, <1>2 DEF Claim, FeederType, Hands, RowsAgree, history
      <2>2. CASE row[d] = "idle"
            <3>1. Life!Claim(d)
                  BY <2>1, <2>2 DEF Update, Life!Claim, Life!Becomes
            <3> QED BY <2>1, <3>1 DEF Life!Next
      <2> QED BY <2>1, <2>2 DEF Update
<1>3. ASSUME NEW w \in Workers, Save(w) PROVE Life!Next \/ UNCHANGED <<row, attempts>>
      <2> DEFINE d == worker[w].item
      <2>1. /\ d \in Downloads /\ row[d] \in {"pending", "deleted"} /\ UNCHANGED attempts
            /\ \E s \in {"downloading", "completed", "failed"} : Update(d, s)
            BY <1>0, <1>3 DEF Save, Outcomes, WorkerType, Hands, RowsAgree, history
      <2>2. CASE row[d] = "pending"
            <3>1. Life!Finish(d)
                  BY <2>1, <2>2 DEF Update, Life!Finish, Life!Becomes
            <3> QED BY <2>1, <3>1 DEF Life!Next
      <2> QED BY <2>1, <2>2 DEF Update
<1>4. ASSUME NEW w \in Workers, Take(w) PROVE Life!Next
      <2> DEFINE d == Head(pool)
      <2>1. d \in Downloads /\ d \in Pooled
            BY <1>0, <1>4, WorkerViews DEF Take, Hands
      <2>2. row[d] # "idle" /\ attempts[d] = 0
            BY <1>0, <2>1 DEF Hands, NotYetStarted, Rows
      <2>3. Life!Begin(d)
            BY <1>4, <2>2 DEF Take, Life!Begin
      <2> QED BY <2>1, <2>3 DEF Life!Next
<1>5. ASSUME ClearDeletes PROVE Life!Next \/ UNCHANGED <<row, attempts>>
      <2>1. clear.ids \in SUBSET Downloads /\ \A d \in clear.ids : row[d] # "absent"
            BY <1>0, <1>5 DEF ClearDeletes, ClearType, ClearAgrees
      <2>2. row' = [d \in Downloads |-> IF d \in clear.ids THEN "deleted" ELSE row[d]] /\ UNCHANGED attempts
            BY <1>5 DEF ClearDeletes, history
      <2>3. CASE clear.ids # {}
            <3>1. Life!Delete(clear.ids)
                  BY <2>1, <2>2, <2>3 DEF Life!Delete
            <3> QED BY <2>1, <3>1 DEF Life!Next
      <2>4. CASE clear.ids = {}
            BY <1>0, <2>2, <2>4
      <2> QED BY <2>3, <2>4
<1>6. Feeder => Claim \/ UNCHANGED <<row, attempts>>
      BY DEF Feeder, Find, FindsNothing, FindFails, ClaimFails, Push, Empty, Return, history
<1>7. \A w \in Workers : Worker(w) => Take(w) \/ Save(w) \/ UNCHANGED <<row, attempts>>
      BY DEF Worker, DownloadReturns, DownloadHangs, SaveFails, Settle, history
<1>8. Clear \/ WaitForEmpty \/ CrashAndRestart => ClearDeletes \/ UNCHANGED <<row, attempts>>
      BY DEF Clear, ClearStarts, ClearScans, ClearFails, WaitForEmpty, CrashAndRestart, history
<1> QED BY <1>1, <1>2, <1>3, <1>4, <1>5, <1>6, <1>7, <1>8 DEF Next, vars

\* The queue implements DownloadLifecycle: a row moves as a download's life does,
\* and its Download is begun at most once (queued_download.go:21-33).
THEOREM QueueImplementsLifecycle == Spec => ImplementsLifecycle
BY InitLife, NextLife, Invariance, PTL DEF Spec, ImplementsLifecycle, Life!Spec

-----------------------------------------------------------------------------
(* What fills the queue: the syncs of subscriptions.                       *)

InSync == {"asking", "adding"}

\* What a sync asks and wants, and from whom.
WantsFromSource(r) ==
    /\ r.pc \in InSync => r.sub \in Subs
    /\ \A s \in r.ask : Covers(r.sub, PeerOf[s])
    /\ r.pc = "adding" => r.ask = {}
    /\ r.pc \notin InSync => r.ask = {} /\ r.items = {}
    /\ \A i \in r.items : /\ i.path \in Offers[PeerOf[i.session]][r.sub]
                          /\ Covers(r.sub, PeerOf[i.session])
                          /\ \A j \in r.items : i.path = j.path => i = j

\* Path p of a subscription is a directory, or in place, queued, or about to be.
Provided(r, p) ==
    \/ Contents[p] # {}
    \/ p \in have[TargetPath[r.sub]]
    \/ \E entry \in rows : entry.sub = r.sub /\ entry.path = p
    \/ \E i \in r.items : i.path = p

\* Whoever is owed and has been asked has all it offers provided.
Serves(r) ==
    r.pc \in InSync /\ SourceGroup[r.sub] \notin Groups =>
        \A s \in r.owed : s \in r.ask \/ \A p \in Offers[PeerOf[s]][r.sub] : Provided(r, p)

SubIInv ==
    /\ SubTypeOK
    /\ RowsHaveSource
    /\ \A x \in Syncers : WantsFromSource(sync[x])
    /\ \A x \in Syncers : Serves(sync[x])

\* A step of one sync, or of none, that takes nothing from the rows and the files.
LEMMA OneSync ==
    ASSUME SubIInv, NEW x \in Syncers, NEW r \in Syncing,
           sync' = [sync EXCEPT ![x] = r],
           used' = used, listed' = listed, announcing' = announcing, leaving' = leaving,
           event' \in Event \cup {NoEvent}, faults' \in 0..MaxFaults,
           rows \subseteq rows', rows' \subseteq Row, have' = have,
           RowsHaveSource', WantsFromSource(r), Serves(r)'
    PROVE  SubIInv'
<1>1. sync \in [Syncers -> Syncing]
      BY DEF SubIInv, SubTypeOK
<1>2. /\ sync' \in [Syncers -> Syncing] /\ sync'[x] = r
      /\ \A y \in Syncers \ {x} : sync'[y] = sync[y]
      BY <1>1
<1>3. SubTypeOK'
      BY <1>2 DEF SubIInv, SubTypeOK
<1>4. ASSUME NEW y \in Syncers PROVE WantsFromSource(sync[y])'
      BY <1>2 DEF SubIInv, WantsFromSource, InSync
<1>5. ASSUME NEW y \in Syncers PROVE Serves(sync[y])'
      <2>1. CASE y = x
            BY <2>1, <1>2 DEF Serves, Provided
      <2>2. CASE y # x
            <3>1. sync'[y] = sync[y] /\ Serves(sync[y])
                  BY <2>2, <1>2 DEF SubIInv
            <3>2. \A p : Provided(sync[y], p) => Provided(sync[y], p)'
                  BY <3>1 DEF Provided
            <3> QED BY <3>1, <3>2 DEF Serves
      <2> QED BY <2>1, <2>2
<1> QED BY <1>3, <1>4, <1>5 DEF SubIInv

\* A sync that has ended, or has not begun.
LEMMA NotInSync ==
    ASSUME SubIInv, NEW x \in Syncers, NEW r \in Syncing,
           r.pc \notin InSync, r.ask = {}, r.items = {},
           sync' = [sync EXCEPT ![x] = r],
           UNCHANGED <<used, listed, announcing, leaving, rows, have>>,
           event' \in Event \cup {NoEvent}, faults' \in 0..MaxFaults
    PROVE  SubIInv'
<1>1. WantsFromSource(r) /\ Serves(r)'
      BY DEF WantsFromSource, Serves, InSync
<1>2. RowsHaveSource' /\ rows' \subseteq Row
      BY DEF SubIInv, SubTypeOK, RowsHaveSource
<1> QED BY <1>1, <1>2, OneSync

LEMMA AfterIs ==
    ASSUME SubIInv, NEW x \in Syncers
    PROVE  After(x) \in Syncing /\ After(x).pc \notin InSync /\ After(x).ask = {} /\ After(x).items = {}
<1>1. sync[x] \in Syncing
      BY DEF SubIInv, SubTypeOK
<1> QED BY <1>1 DEF After, Idle, Syncing, InSync

\* Sync asks the sessions of its source (subscription.go:59-66), which for a name or
\* everyone are all those it owes.
LEMMA BeginStep ==
    ASSUME SubIInv, NEW x \in Syncers, NEW sub \in Subs, NEW todo \in SUBSET Subs,
           Begin(x, sub, todo), UNCHANGED <<used, listed, announcing, leaving, event, rows, have, faults>>
    PROVE  SubIInv'
<1> DEFINE ask == Sources(sub)
           owed == {s \in listed : Covers(sub, PeerOf[s])}
           b == [Idle EXCEPT !.pc = "asking", !.todo = todo, !.sub = sub, !.ask = ask, !.owed = owed]
<1>1. ask \subseteq Sessions /\ owed \subseteq Sessions
      BY DEF Sources, GetPeersInGroup, SubIInv, SubTypeOK
<1>2. sync' = [sync EXCEPT ![x] = Asked(b)]
      BY DEF Begin
<1>3. ASSUME NEW s \in ask PROVE Covers(sub, PeerOf[s])
      BY <1>3 DEF Sources, GetPeersInGroup, FindAuthorized, Covers, IsMemberOf
<1>4. SourceGroup[sub] \notin Groups => owed \subseteq ask
      BY SubscriptionsAssumption DEF Sources, GetPeersInGroup, FindAuthorized, Covers, IsMemberOf,
         SubIInv, SubTypeOK
<1> PICK r : r = Asked(b)
    OBVIOUS
<1>5. /\ r.pc \in InSync /\ r.sub = sub /\ r.ask = ask /\ r.items = {} /\ r.owed = owed
      /\ r.pc = "adding" => ask = {}
      BY DEF Asked, InSync, Idle
<1>6. r \in Syncing
      BY <1>1 DEF Asked, Syncing, Idle
<1> HIDE DEF ask, owed, b
<1>7. WantsFromSource(r)
      BY <1>3, <1>5 DEF WantsFromSource
<1>8. Serves(r)'
      BY <1>4, <1>5 DEF Serves
<1>9. RowsHaveSource' /\ rows' \subseteq Row
      BY DEF SubIInv, SubTypeOK, RowsHaveSource
<1>10. event' \in Event \cup {NoEvent} /\ faults' \in 0..MaxFaults
      BY DEF SubIInv, SubTypeOK
<1>11. sync' = [sync EXCEPT ![x] = r]
      BY <1>2
<1> QED BY <1>6, <1>7, <1>8, <1>9, <1>10, <1>11, OneSync

\* A manifest has come, or will not (subscription.go:67-100).
LEMMA GetManifestStep ==
    ASSUME SubIInv, NEW x \in Syncers, NEW s \in Sessions, GetManifest(x, s) \/ GetManifestFails(x, s)
    PROVE  SubIInv'
<1> PICK a : a = sync[x]
    OBVIOUS
<1>1. /\ a \in Syncing /\ WantsFromSource(a) /\ Serves(a)
      BY DEF SubIInv, SubTypeOK
<1>2. a.pc = "asking" /\ s \in a.ask /\ UNCHANGED <<used, listed, announcing, leaving, event, rows, have, faults>>
      BY DEF GetManifest, GetManifestFails, tableVars
<1>3. /\ a.sub \in Subs /\ Covers(a.sub, PeerOf[s]) /\ PeerOf[s] \in Peers
      /\ Offers[PeerOf[s]][a.sub] \subseteq Paths
      BY <1>1, <1>2, SubscriptionsAssumption DEF WantsFromSource, InSync
<1>4. PICK new \in SUBSET Item, owed \in SUBSET a.owed :
          /\ sync' = [sync EXCEPT ![x] = Asked([a EXCEPT !.ask = @ \ {s}, !.owed = owed,
                                                         !.items = @ \cup new])]
          /\ \A i \in new : /\ i.session = s /\ i.path \in Offers[PeerOf[s]][a.sub]
                            /\ \A j \in a.items \cup new : i.path = j.path => i = j
          /\ s \in owed => \A p \in Offers[PeerOf[s]][a.sub] :
                p \in have[TargetPath[a.sub]] \/ \E i \in a.items \cup new : i.path = p
      <2>1. CASE GetManifest(x, s)
            <3>1. PICK got \in SUBSET Updates(a.sub, s) :
                     LET new == {[session |-> s, path |-> p] : p \in got \ {i.path : i \in a.items}}
                         owed == IF got = Updates(a.sub, s) THEN a.owed ELSE a.owed \ {s}
                     IN  sync' = [sync EXCEPT ![x] = Asked([a EXCEPT !.ask = @ \ {s}, !.owed = owed,
                                                                     !.items = @ \cup new])]
                  BY <2>1 DEF GetManifest
            <3> DEFINE new == {[session |-> s, path |-> p] : p \in got \ {i.path : i \in a.items}}
                       owed == IF got = Updates(a.sub, s) THEN a.owed ELSE a.owed \ {s}
            <3>2. got \subseteq Offers[PeerOf[s]][a.sub]
                  BY DEF Updates
            <3>3. new \in SUBSET Item /\ owed \in SUBSET a.owed
                  BY <1>3, <3>2 DEF Item
            <3>4. \A i \in new : /\ i.session = s /\ i.path \in Offers[PeerOf[s]][a.sub]
                                 /\ \A j \in a.items \cup new : i.path = j.path => i = j
                  BY <3>2
            <3>5. ASSUME s \in owed, NEW p \in Offers[PeerOf[s]][a.sub], p \notin have[TargetPath[a.sub]]
                  PROVE  \E i \in a.items \cup new : i.path = p
                  <4>1. p \in got
                        BY <3>5 DEF Updates
                  <4>2. (\E i \in a.items : i.path = p) \/ [session |-> s, path |-> p] \in new
                        BY <4>1
                  <4> HIDE DEF new
                  <4> QED BY <4>2
            <3> QED BY <3>1, <3>3, <3>4, <3>5
      <2>2. CASE GetManifestFails(x, s)
            <3>1. sync' = [sync EXCEPT ![x] = Asked([a EXCEPT !.ask = @ \ {s}, !.owed = @ \ {s}])]
                  BY <2>2 DEF GetManifestFails
            <3>2. [a EXCEPT !.ask = @ \ {s}, !.owed = a.owed \ {s}, !.items = @ \cup {}]
                     = [a EXCEPT !.ask = @ \ {s}, !.owed = @ \ {s}]
                  BY <1>1 DEF Syncing
            <3>3. {} \in SUBSET Item /\ a.owed \ {s} \in SUBSET a.owed
                  OBVIOUS
            <3> QED BY <3>1, <3>2, <3>3
      <2> QED BY <2>1, <2>2
<1> PICK r : r = Asked([a EXCEPT !.ask = @ \ {s}, !.owed = owed, !.items = @ \cup new])
    OBVIOUS
<1>5. /\ r.pc \in InSync /\ r.sub = a.sub /\ r.ask = a.ask \ {s} /\ r.owed = owed
      /\ r.items = a.items \cup new
      /\ r.pc = "adding" => r.ask = {}
      BY <1>1, <1>2 DEF Asked, Syncing, InSync
<1>6. r \in Syncing
      BY <1>1, <1>4 DEF Asked, Syncing
<1>7. WantsFromSource(r)
      <2>1. \A i \in a.items : \A j \in new : i.path = j.path => i = j
            BY <1>4
      <2>2. \A i \in a.items : /\ i.path \in Offers[PeerOf[i.session]][r.sub] /\ Covers(r.sub, PeerOf[i.session])
                               /\ \A j \in a.items : i.path = j.path => i = j
            BY <1>1, <1>5 DEF WantsFromSource
      <2>3. \A i \in new : /\ i.path \in Offers[PeerOf[i.session]][r.sub] /\ Covers(r.sub, PeerOf[i.session])
            BY <1>3, <1>4, <1>5
      <2>4. \A i \in r.items : \A j \in r.items : i.path = j.path => i = j
            BY <2>1, <2>2, <1>4, <1>5
      <2>5. \A y \in r.ask : Covers(r.sub, PeerOf[y])
            BY <1>1, <1>5 DEF WantsFromSource
      <2>6. \A i \in r.items : i.path \in Offers[PeerOf[i.session]][r.sub] /\ Covers(r.sub, PeerOf[i.session])
            BY <2>2, <2>3, <1>5
      <2> QED BY <2>4, <2>5, <2>6, <1>3, <1>5 DEF WantsFromSource
<1>8. Serves(r)'
      <2> SUFFICES ASSUME SourceGroup[a.sub] \notin Groups, NEW y \in owed, y \notin r.ask,
                          NEW p \in Offers[PeerOf[y]][a.sub]
                   PROVE  Provided(r, p)'
          BY <1>5 DEF Serves
      <2>1. CASE y = s
            BY <2>1, <1>2, <1>4, <1>5 DEF Provided
      <2>2. CASE y # s
            <3>1. y \in a.owed /\ y \notin a.ask
                  BY <2>2, <1>5
            <3>2. Provided(a, p)
                  BY <3>1, <1>1, <1>2 DEF Serves, InSync
            <3> QED BY <3>2, <1>2, <1>5 DEF Provided
      <2> QED BY <2>1, <2>2
<1>9. RowsHaveSource' /\ rows' \subseteq Row /\ event' \in Event \cup {NoEvent} /\ faults' \in 0..MaxFaults
      BY <1>2 DEF SubIInv, SubTypeOK, RowsHaveSource
<1>10. sync' = [sync EXCEPT ![x] = r]
       BY <1>4
<1> QED BY <1>2, <1>6, <1>7, <1>8, <1>9, <1>10, OneSync

\* An item is queued (subscription.go:102-121, queue.go:63-107).
LEMMA AddStep ==
    ASSUME SubIInv, NEW x \in Syncers, NEW i \in sync[x].items, Add(x, i)
    PROVE  SubIInv'
<1> PICK a : a = sync[x]
    OBVIOUS
<1>1. /\ a \in Syncing /\ WantsFromSource(a) /\ Serves(a)
      BY DEF SubIInv, SubTypeOK
<1>2. /\ a.pc = "adding" /\ i \in a.items /\ sync' = [sync EXCEPT ![x].items = @ \ {i}]
      /\ UNCHANGED <<used, listed, announcing, leaving, event, have, faults>>
      BY DEF Add, tableVars
<1>3. PICK found \in Added(i) :
          rows' = rows \cup {[peer |-> PeerOf[i.session], path |-> p, sub |-> a.sub] : p \in found}
      BY DEF Add
<1>4. /\ i.session \in Sessions /\ i.path \in Paths /\ a.sub \in Subs
      /\ PeerOf[i.session] \in Peers /\ Contents[i.path] \subseteq Paths
      BY <1>1, <1>2, SubscriptionsAssumption DEF Syncing, Item, WantsFromSource, InSync
<1>5. /\ i.path \in Offers[PeerOf[i.session]][a.sub] /\ Covers(a.sub, PeerOf[i.session])
      BY <1>1, <1>2 DEF WantsFromSource
<1>6. /\ found \subseteq {i.path} \cup Contents[i.path]
      /\ Contents[i.path] = {} => i.path \in found
      BY DEF Added
<1> PICK r : r = [a EXCEPT !.items = @ \ {i}]
    OBVIOUS
<1>7. /\ r.pc = "adding" /\ r.sub = a.sub /\ r.ask = a.ask /\ r.owed = a.owed /\ r.items = a.items \ {i}
      /\ r \in Syncing
      BY <1>1, <1>2 DEF Syncing
<1>8. sync' = [sync EXCEPT ![x] = r]
      BY <1>2
<1>9. rows \subseteq rows' /\ rows' \subseteq Row
      BY <1>3, <1>4, <1>6 DEF SubIInv, SubTypeOK, Row
<1>10. RowsHaveSource'
      <2> SUFFICES ASSUME NEW entry \in rows'
                   PROVE  /\ Covers(entry.sub, entry.peer)
                          /\ entry.path \in Offers[entry.peer][entry.sub]
                                \cup UNION {Contents[p] : p \in Offers[entry.peer][entry.sub]}
          BY DEF RowsHaveSource
      <2>1. CASE entry \in rows
            BY <2>1 DEF SubIInv, RowsHaveSource
      <2>2. CASE entry \notin rows
            <3>1. PICK p \in found : entry = [peer |-> PeerOf[i.session], path |-> p, sub |-> a.sub]
                  BY <2>2, <1>3
            <3> QED BY <3>1, <1>5, <1>6
      <2> QED BY <2>1, <2>2
<1>11. WantsFromSource(r)
      BY <1>1, <1>2, <1>7 DEF WantsFromSource, InSync
<1>12. Serves(r)'
      <2> SUFFICES ASSUME SourceGroup[a.sub] \notin Groups, NEW y \in a.owed, y \notin a.ask,
                          NEW p \in Offers[PeerOf[y]][a.sub]
                   PROVE  Provided(r, p)'
          BY <1>7 DEF Serves
      <2>1. Provided(a, p)
            BY <1>1, <1>2 DEF Serves, InSync
      <2>2. CASE i.path = p /\ Contents[p] = {}
            <3>1. [peer |-> PeerOf[i.session], path |-> p, sub |-> a.sub] \in rows'
                  BY <2>2, <1>3, <1>6
            <3> QED BY <3>1, <1>7 DEF Provided
      <2>3. CASE ~(i.path = p /\ Contents[p] = {})
            BY <2>1, <2>3, <1>2, <1>7, <1>9 DEF Provided
      <2> QED BY <2>2, <2>3
<1>13. event' \in Event \cup {NoEvent} /\ faults' \in 0..MaxFaults
       BY <1>2 DEF SubIInv, SubTypeOK
<1> QED BY <1>2, <1>7, <1>8, <1>9, <1>10, <1>11, <1>12, <1>13, OneSync

\* Every other way in which a sync goes on or ends.
LEMMA SyncEnds ==
    ASSUME SubIInv, NEW x \in Syncers,
           \/ GetUpdateManifestFails(x)
           \/ \E i \in sync[x].items : AddFails(x, i)
           \/ SyncReturns(x)
    PROVE  SubIInv'
<1>1. /\ sync' = [sync EXCEPT ![x] = After(x)]
      /\ UNCHANGED <<used, listed, announcing, leaving, event, rows, have>>
      /\ faults' = faults \/ (faults < MaxFaults /\ faults' = faults + 1)
      BY DEF GetUpdateManifestFails, AddFails, SyncReturns, tableVars
<1>2. event' \in Event \cup {NoEvent} /\ faults' \in 0..MaxFaults
      BY <1>1, SubscriptionsAssumption DEF SubIInv, SubTypeOK
<1>3. PICK r : r = After(x)
      OBVIOUS
<1>4. r \in Syncing /\ r.pc \notin InSync /\ r.ask = {} /\ r.items = {}
      BY <1>3, AfterIs
<1> QED BY <1>1, <1>2, <1>3, <1>4, NotInSync

LEMMA SubscriptionSyncStep ==
    ASSUME SubIInv, NEW x \in Syncers, SubscriptionSync(x)
    PROVE  SubIInv'
BY GetManifestStep, AddStep, SyncEnds DEF SubscriptionSync

\* The monitor takes an event, goes through the subscriptions and is back
\* (application.go:303-346); the API has one synced.
LEMMA MonitorStep ==
    ASSUME SubIInv, HandleEvent \/ HandleEventFails \/ NextSubscription \/ ApplicationSyncReturns
    PROVE  SubIInv'
<1> PICK a : a = sync[Monitor]
    OBVIOUS
<1>1. /\ Monitor \in Syncers /\ a \in Syncing /\ WantsFromSource(a) /\ MaxFaults \in Nat
      /\ event \in Event \cup {NoEvent} /\ faults \in 0..MaxFaults
      BY SubscriptionsAssumption DEF SubIInv, SubTypeOK, Syncers
<1>2. CASE HandleEvent
      <2>1. PICK todo \in SUBSET Subs :
               sync' = [sync EXCEPT ![Monitor] = IF event.type = "connected"
                                                 THEN [Idle EXCEPT !.pc = "subs", !.todo = todo] ELSE Idle]
            <3> DEFINE name == NameOf[PeerOf[event.session]]
                       todo == IF GetSession(name) = NoSession THEN {}
                               ELSE {sub \in Subs : name \in ExpandPeerGroup(SourceGroup[sub])}
            <3>1. sync' = [sync EXCEPT ![Monitor] = IF event.type = "connected"
                                                    THEN [Idle EXCEPT !.pc = "subs", !.todo = todo] ELSE Idle]
                  BY <1>2 DEF HandleEvent
            <3>2. todo \in SUBSET Subs
                  OBVIOUS
            <3> HIDE DEF todo
            <3> QED BY <3>1, <3>2
      <2>2. PICK r : r = IF event.type = "connected" THEN [Idle EXCEPT !.pc = "subs", !.todo = todo] ELSE Idle
            OBVIOUS
      <2>3. r \in Syncing /\ r.pc \notin InSync /\ r.ask = {} /\ r.items = {}
            BY <2>2 DEF Idle, Syncing, InSync
      <2>4. /\ UNCHANGED <<used, listed, announcing, leaving, rows, have>>
            /\ event' \in Event \cup {NoEvent} /\ faults' \in 0..MaxFaults
            BY <1>1, <1>2 DEF HandleEvent, tableVars
      <2> QED BY <1>1, <2>1, <2>2, <2>3, <2>4, NotInSync
<1>3. CASE HandleEventFails \/ ApplicationSyncReturns
      <2>1. /\ sync' = [sync EXCEPT ![Monitor] = Idle]
            /\ UNCHANGED <<used, listed, announcing, leaving, rows, have>>
            /\ event' \in Event \cup {NoEvent} /\ faults' \in 0..MaxFaults
            BY <1>1, <1>3 DEF HandleEventFails, ApplicationSyncReturns, tableVars
      <2>2. Idle \in Syncing /\ Idle.pc \notin InSync /\ Idle.ask = {} /\ Idle.items = {}
            BY DEF Idle, Syncing, InSync
      <2> QED BY <1>1, <2>1, <2>2, NotInSync
<1>4. CASE NextSubscription
      <2>1. /\ a.pc = "subs" /\ UNCHANGED <<used, listed, announcing, leaving, event, rows, have>>
            BY <1>4 DEF NextSubscription, tableVars
      <2>2. PICK sub \in a.todo :
               \/ Begin(Monitor, sub, a.todo \ {sub}) /\ UNCHANGED faults
               \/ BeginFails(Monitor, a.todo \ {sub})
            BY <1>4 DEF NextSubscription
      <2>3. sub \in Subs /\ a.todo \ {sub} \in SUBSET Subs
            BY <1>1 DEF Syncing
      <2>4. CASE Begin(Monitor, sub, a.todo \ {sub}) /\ UNCHANGED faults
            BY <1>1, <2>1, <2>3, <2>4, BeginStep
      <2>5. CASE BeginFails(Monitor, a.todo \ {sub})
            <3>1. PICK r : r = [a EXCEPT !.todo = a.todo \ {sub}]
                  OBVIOUS
            <3>2. sync' = [sync EXCEPT ![Monitor] = r] /\ faults' \in 0..MaxFaults
                  BY <1>1, <2>5, <3>1 DEF BeginFails
            <3>3. r \in Syncing /\ r.pc \notin InSync /\ r.ask = {} /\ r.items = {}
                  BY <1>1, <2>1, <2>3, <3>1 DEF Syncing, InSync, WantsFromSource
            <3> QED BY <1>1, <2>1, <3>2, <3>3, NotInSync
      <2> QED BY <2>2, <2>4, <2>5
<1> QED BY <1>2, <1>3, <1>4

LEMMA CallStep ==
    ASSUME SubIInv, NEW x \in Calls, handleActionSubscription(x)
    PROVE  SubIInv'
<1>1. /\ x \in Syncers /\ x # Monitor /\ MaxFaults \in Nat /\ faults \in 0..MaxFaults
      /\ event \in Event \cup {NoEvent}
      BY SubscriptionsAssumption DEF Syncers, SubIInv, SubTypeOK
<1>2. UNCHANGED <<used, listed, announcing, leaving, event, rows, have>>
      BY DEF handleActionSubscription, tableVars
<1>3. CASE (\E sub \in Subs : Begin(x, sub, {})) /\ UNCHANGED faults
      <2>1. {} \in SUBSET Subs
            OBVIOUS
      <2> QED BY <1>1, <1>2, <1>3, <2>1, BeginStep
<1>4. CASE BeginFails(x, {})
      <2>1. PICK r : r = [Idle EXCEPT !.pc = "returned"]
            OBVIOUS
      <2>2. sync' = [sync EXCEPT ![x] = r] /\ faults' \in 0..MaxFaults
            BY <1>1, <1>4, <2>1 DEF BeginFails
      <2>3. r \in Syncing /\ r.pc \notin InSync /\ r.ask = {} /\ r.items = {}
            BY <2>1 DEF Syncing, Idle, InSync
      <2> QED BY <1>1, <1>2, <2>2, <2>3, NotInSync
<1> QED BY <1>3, <1>4 DEF handleActionSubscription

\* Sessions come and go, and the monitor may hear of it (local_peer.go:385-545).
LEMMA SessionStep ==
    ASSUME SubIInv, NEW s \in Sessions, RegisterPeer(s) \/ Announce(s) \/ RemovePeer(s) \/ Removed(s)
    PROVE  SubIInv'
<1>1. /\ used \subseteq Sessions /\ listed \subseteq used /\ announcing \subseteq used /\ leaving \subseteq listed
      /\ event \in Event \cup {NoEvent} /\ sync \in [Syncers -> Syncing] /\ Monitor \in Syncers
      BY DEF SubIInv, SubTypeOK, Syncers
<1>2. UNCHANGED <<rows, have, faults>>
      BY DEF RegisterPeer, Announce, RemovePeer, Removed
<1>3. used' \subseteq Sessions /\ listed' \subseteq used' /\ announcing' \subseteq used' /\ leaving' \subseteq listed'
      BY <1>1 DEF RegisterPeer, Announce, RemovePeer, Removed
<1>4. \/ UNCHANGED <<event, sync>>
      \/ /\ event' \in Event /\ sync[Monitor].pc = "idle"
         /\ sync' = [sync EXCEPT ![Monitor].pc = "event"]
      BY DEF RegisterPeer, Announce, RemovePeer, Removed, broadcastPeerEvent, Event
<1>5. event' \in Event \cup {NoEvent}
      BY <1>1, <1>4
<1>6. /\ sync' \in [Syncers -> Syncing]
      /\ \A x \in Syncers : \/ sync'[x] = sync[x]
                            \/ /\ sync[x].pc \notin InSync /\ sync'[x].pc \notin InSync
                               /\ sync'[x].ask = sync[x].ask /\ sync'[x].items = sync[x].items
      <2>1. CASE UNCHANGED <<event, sync>>
            BY <1>1, <2>1
      <2>2. CASE sync[Monitor].pc = "idle" /\ sync' = [sync EXCEPT ![Monitor].pc = "event"]
            <3> PICK r : r = [sync[Monitor] EXCEPT !.pc = "event"]
                OBVIOUS
            <3>1. /\ r \in Syncing /\ r.pc = "event" /\ r.ask = sync[Monitor].ask
                  /\ r.items = sync[Monitor].items
                  BY <1>1 DEF Syncing
            <3>2. sync' = [sync EXCEPT ![Monitor] = r]
                  BY <2>2
            <3> QED BY <1>1, <2>2, <3>1, <3>2 DEF InSync
      <2> QED BY <1>4, <2>1, <2>2
<1>7. SubTypeOK'
      BY <1>2, <1>3, <1>5, <1>6 DEF SubIInv, SubTypeOK
<1>8. RowsHaveSource'
      BY <1>2 DEF SubIInv, RowsHaveSource
<1>9. ASSUME NEW x \in Syncers PROVE WantsFromSource(sync[x])' /\ Serves(sync[x])'
      <2>1. WantsFromSource(sync[x]) /\ Serves(sync[x])
            BY DEF SubIInv
      <2>2. CASE sync'[x] = sync[x]
            BY <1>2, <2>1, <2>2 DEF WantsFromSource, Serves, Provided
      <2>3. CASE /\ sync[x].pc \notin InSync /\ sync'[x].pc \notin InSync
                 /\ sync'[x].ask = sync[x].ask /\ sync'[x].items = sync[x].items
            BY <2>1, <2>3 DEF WantsFromSource, Serves, InSync
      <2> QED BY <1>6, <2>2, <2>3
<1> QED BY <1>7, <1>8, <1>9 DEF SubIInv

\* A file more is in place.
LEMMA ArrivesStep ==
    ASSUME SubIInv, NEW entry \in rows, Arrives(entry)
    PROVE  SubIInv'
<1>1. /\ have' = [have EXCEPT ![TargetPath[entry.sub]] = @ \cup {entry.path}]
      /\ UNCHANGED <<used, listed, announcing, leaving, event, sync, rows, faults>>
      BY DEF Arrives, tableVars
<1>2. /\ have \in [{TargetPath[sub] : sub \in Subs} -> SUBSET Paths]
      /\ entry.path \in Paths
      BY DEF SubIInv, SubTypeOK, Row
<1>3. /\ have' \in [{TargetPath[sub] : sub \in Subs} -> SUBSET Paths]
      /\ \A sub \in Subs : have[TargetPath[sub]] \subseteq have'[TargetPath[sub]]
      BY <1>1, <1>2
<1>4. SubTypeOK' /\ RowsHaveSource'
      BY <1>1, <1>3 DEF SubIInv, SubTypeOK, RowsHaveSource
<1>5. ASSUME NEW x \in Syncers PROVE WantsFromSource(sync[x])' /\ Serves(sync[x])'
      <2>1. WantsFromSource(sync[x]) /\ Serves(sync[x]) /\ sync'[x] = sync[x]
            BY <1>1 DEF SubIInv
      <2>2. ASSUME sync[x].sub \in Subs, NEW p, Provided(sync[x], p) PROVE Provided(sync[x], p)'
            BY <1>1, <1>3, <2>2 DEF Provided
      <2>3. Serves(sync[x])'
            BY <1>1, <2>1, <2>2 DEF Serves, WantsFromSource
      <2> QED BY <1>1, <2>1, <2>3 DEF WantsFromSource
<1> QED BY <1>4, <1>5 DEF SubIInv

LEMMA SubInitInv == SubInit => SubIInv
<1> SUFFICES ASSUME SubInit PROVE SubIInv
    OBVIOUS
<1>1. Idle \in Syncing /\ Idle.pc = "idle" /\ Idle.ask = {} /\ Idle.items = {}
      BY DEF Idle, Syncing
<1>2. /\ sync \in [Syncers -> Syncing] /\ \A x \in Syncers : sync[x] = Idle
      BY <1>1 DEF SubInit
<1>3. SubTypeOK /\ RowsHaveSource
      <2>1. faults \in 0..MaxFaults
            BY SubscriptionsAssumption DEF SubInit
      <2>2. /\ used \subseteq Sessions /\ listed \subseteq used /\ announcing \subseteq used
            /\ leaving \subseteq listed /\ event \in Event \cup {NoEvent} /\ rows \subseteq Row
            BY DEF SubInit
      <2>3. have \in [{TargetPath[sub] : sub \in Subs} -> SUBSET Paths]
            BY DEF SubInit
      <2>4. RowsHaveSource
            BY DEF SubInit, RowsHaveSource
      <2> QED BY <1>2, <2>1, <2>2, <2>3, <2>4 DEF SubTypeOK
<1>4. \A x \in Syncers : WantsFromSource(sync[x]) /\ Serves(sync[x])
      BY <1>1, <1>2 DEF WantsFromSource, Serves, InSync
<1> QED BY <1>3, <1>4 DEF SubIInv

LEMMA SubNextInv == SubIInv /\ [SubNext]_subVars => SubIInv'
<1> SUFFICES ASSUME SubIInv, [SubNext]_subVars PROVE SubIInv'
    OBVIOUS
<1>1. Monitor \in Syncers /\ Calls \subseteq Syncers
      BY DEF Syncers
<1>2. CASE monitorPeerEvents
      BY <1>1, <1>2, MonitorStep, SubscriptionSyncStep DEF monitorPeerEvents
<1>3. ASSUME NEW x \in Calls, handleActionSubscription(x) \/ SubscriptionSync(x) PROVE SubIInv'
      BY <1>1, <1>3, CallStep, SubscriptionSyncStep
<1>4. CASE UNCHANGED subVars
      <2>1. UNCHANGED <<used, listed, announcing, leaving, event, sync, rows, have, faults>>
            BY <1>4 DEF subVars
      <2>2. SubTypeOK' /\ RowsHaveSource'
            BY <2>1 DEF SubIInv, SubTypeOK, RowsHaveSource
      <2>3. ASSUME NEW x \in Syncers PROVE WantsFromSource(sync[x])' /\ Serves(sync[x])'
            BY <2>1 DEF SubIInv, WantsFromSource, Serves, Provided
      <2> QED BY <2>2, <2>3 DEF SubIInv
<1> QED BY <1>2, <1>3, <1>4, SessionStep, ArrivesStep DEF SubNext

THEOREM SubInvariance == SubSpec => []SubIInv
BY SubInitInv, SubNextInv, PTL DEF SubSpec

\* Whatever sessions come and go, manifests arrive in whatever order or not at all:
\* what a sync wants and what it has queued is offered by a peer of the subscription's
\* source, and no path is asked of two of them (subscription.go:59-121).
THEOREM QueuedFromSource == SubSpec => []SubInv
<1>1. SubIInv => SubInv
      BY DEF SubIInv, SubInv, ItemsHaveSource, WantsFromSource
<1> QED BY <1>1, SubInvariance, PTL

\* A sync of a named source, or of everyone, that is about to return without an error
\* has all that each member offered at its start in place or queued, unless that
\* peer's manifest did not come: no answer keeps another's items from being queued
\* (subscription.go:67-121).
THEOREM NamedSourcesServed == SubSpec => []SyncServesNamedSources
<1>1. SubIInv => SyncServesNamedSources
      <2> SUFFICES ASSUME SubIInv, NEW x \in Syncers, AboutToReturn(x),
                          SourceGroup[sync[x].sub] \notin Groups,
                          NEW s \in sync[x].owed, NEW p \in Offers[PeerOf[s]][sync[x].sub]
                   PROVE  \/ Contents[p] # {}
                          \/ p \in have[TargetPath[sync[x].sub]]
                          \/ \E entry \in rows : entry.sub = sync[x].sub /\ entry.path = p
          BY DEF SyncServesNamedSources, Served
      <2>1. sync[x].pc = "adding" /\ sync[x].items = {} /\ sync[x].ask = {}
            BY DEF AboutToReturn, SubIInv, WantsFromSource
      <2> QED BY <2>1 DEF SubIInv, Serves, Provided, InSync
<1> QED BY <1>1, SubInvariance, PTL
=============================================================================
