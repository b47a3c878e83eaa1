-------------------------- MODULE InboundTransfers --------------------------
(***************************************************************************)
(* The receiving side of file transfers on one session: the downloads that *)
(* wait for data (queued_download.go:158-232), the Transfer objects with   *)
(* their data timers (peer/transfer.go), the table inboundTransfers and    *)
(* the receive loop that feeds them, up to the Disconnect that ends it, and *)
(* the Disconnects that other goroutines call beside it                    *)
(* (peer/remote_peer.go:189-202, 315-338, 428-451, 494-574;                *)
(* peer/local_peer.go:524-533, 598-604).                                   *)
(*                                                                         *)
(* A file is a sequence of blocks, a block is one unit of size, and the    *)
(* SHA-256 of a sequence of blocks is that sequence (no collisions).  The  *)
(* remote peer is anyone who speaks the message set; FileTransfer puts the *)
(* repository's own sender in its place.                                   *)
(***************************************************************************)
EXTENDS Naturals, Sequences, FiniteSets

CONSTANTS
    Transfers,     \* transfer IDs
    None,          \* the empty GroupID, and a DataFinalize without data
    Expected,      \* Expected[t]: ExpectedSize of t, 0 for unbounded
    Requested,     \* the transfers asked for with a ServiceRequest
    Block,         \* payloads
    Shard,         \* Shard[t]: the shard of the concurrent map that holds t
    Closers,       \* other goroutines that disconnect: RemovePeer, the monitor
    DiskMayFail,   \* a write to the destination may fail
    MaxWire,       \* bound: the remote sends only while no more are unread
    MaxReceived    \* bound: most blocks the remote sends for one transfer

ASSUME TransfersAssumption == None \notin Transfers
ASSUME NoDataAssumption == None \notin Seq(Block)
ASSUME ExpectedAssumption == Expected \in [Transfers -> Nat]
ASSUME RequestedAssumption == Requested \subseteq Transfers
ASSUME DiskAssumption == DiskMayFail \in BOOLEAN
ASSUME BoundAssumption == MaxWire \in Nat /\ MaxReceived \in Nat

VARIABLES
    xfer,          \* each Transfer object and the goroutines that own it
    table,         \* keys of inboundTransfers
    loop,          \* the receive loop's position
    closer,        \* where the Disconnect of the loop and of each closer is
    toLocal,       \* messages on their way to this peer
    toRemote,      \* messages on their way to the remote peer
    up             \* the connection carries data

vars == <<xfer, table, loop, closer, toLocal, toRemote, up>>

\* Where a download stands, and where the loop stands.
Active == {"created", "asking", "agreed", "waiting", "leaving"}
LoopAt == {"read", "write", "append", "reset", "arm", "signal", "finish", "ended", "stuck"}
CloserAt == {"none", "sweep", "signal", "finish", "stuck", "removing", "closed"}

Shards == {Shard[t] : t \in Transfers}
Disconnecters == Closers \cup {"loop"}

Transfer == [
    worker   : {"idle", "done"} \cup Active,
    result   : {"none", "ok", "failed"},
    received : Nat,                       \* BytesReceived
    hashed   : Seq(Block),                \* what the rolling checksum has seen
    file     : Seq(Block),                \* what reached the destination
    accepted : Seq(Block) \cup {None},    \* history: what was there when Verify passed,
    against  : Seq(Block) \cup {None},    \*   and the checksum it was compared with, if any
    finished : BOOLEAN,
    timer    : {"none", "armed", "spent"},          \* dataTimer: nil, running, fired or stopped
    expiry   : {"none", "signal", "finish", "leaked"}]   \* the fired timer's goroutine

NewTransfer == [
    worker |-> "idle", result |-> "none", received |-> 0, hashed |-> <<>>, file |-> <<>>,
    accepted |-> None, against |-> None, finished |-> FALSE, timer |-> "none", expiry |-> "none"]

Reading == [at |-> "read", id |-> None, ok |-> TRUE, after |-> "read", data |-> None]

Msg(type, t) == [type |-> type, id |-> t]
Start(t, n) == [type |-> "DataStart", id |-> t, size |-> n]
DataBlock(t, b) == [type |-> "DataBlock", id |-> t, data |-> b]
Finalize(t, sum) == [type |-> "DataFinalize", id |-> t, sum |-> sum]

Message ==
    [type : {"DataStart"}, id : Transfers, size : Nat]
    \cup [type : {"DataBlock"}, id : Transfers, data : Block]
    \cup [type : {"DataFinalize"}, id : Transfers, sum : Seq(Block) \cup {None}]
    \cup [type : {"DataFailed", "ServiceOK", "ServiceError"}, id : Transfers]

ReplyMessage ==
    [type : {"ServiceRequest", "DataProceed", "DataTerminate", "Acknowledgment", "DataFailed"},
     id : Transfers \cup {None}]

TypeOK ==
    /\ xfer \in [Transfers -> Transfer]
    /\ table \subseteq Transfers
    /\ loop \in [at : LoopAt, id : Transfers \cup {None}, ok : BOOLEAN,
                 after : {"read", "terminate"}, data : Block \cup {None}]
    /\ loop.at \in {"write", "append", "reset", "arm", "signal", "finish"} => loop.id \in Transfers
    /\ loop.at = "append" => loop.data \in Block
    /\ loop.at = "write" => loop.data \in Block
    /\ closer \in [Disconnecters ->
                    [at : CloserAt, id : Transfers \cup {None}, unseen : SUBSET Shards]]
    /\ \A c \in Disconnecters :
          closer[c].at \in {"signal", "finish", "stuck", "removing"} => closer[c].id \in Transfers
    /\ toLocal \in Seq(Message)
    /\ toRemote \in Seq(ReplyMessage)
    /\ up \in BOOLEAN

Init ==
    /\ xfer = [t \in Transfers |-> NewTransfer]
    /\ table = {}
    /\ loop = Reading
    /\ closer = [c \in Disconnecters |-> [at |-> "none", id |-> None, unseen |-> Shards]]
    /\ toLocal = <<>>
    /\ toRemote = <<>>
    /\ up = TRUE

-----------------------------------------------------------------------------
\* The download's goroutine.  Disconnect's IterCb holds the read lock of the
\* shard it is in, and Set and Remove want the write lock.
Holds(c, t) ==
    /\ closer[c].at \in {"signal", "finish", "stuck", "removing"}
    /\ Shard[closer[c].id] = Shard[t]

ShardFree(t) == \A c \in Disconnecters : ~Holds(c, t)

\* Get and IterCb want the read lock, which is not given while a writer waits: a
\* Disconnect that hangs in Remove is one.
MayRead(t) == \A c \in Disconnecters : ~(closer[c].at = "removing" /\ Holds(c, t))

Reply(m) == toRemote' = IF up THEN Append(toRemote, m) ELSE toRemote

CreateInboundTransfer(t) ==
    /\ xfer[t].worker = "idle"
    /\ ShardFree(t)
    /\ table' = table \cup {t}
    /\ xfer' = [xfer EXCEPT ![t].worker = IF t \in Requested THEN "created" ELSE "agreed"]
    /\ UNCHANGED <<loop, toLocal, toRemote, up>>

SendServiceRequest(t) ==
    /\ xfer[t].worker = "created"
    /\ xfer' = [xfer EXCEPT ![t].worker = "asking"]
    /\ Reply(Msg("ServiceRequest", t))
    /\ UNCHANGED <<table, loop, toLocal, up>>

\* The reply did not come in time, or was dropped (CheckedMessages).
ServiceRequestTimesOut(t) ==
    /\ xfer[t].worker = "asking"
    /\ xfer' = [xfer EXCEPT ![t].worker = "leaving", ![t].result = "failed"]
    /\ UNCHANGED <<table, loop, toLocal, toRemote, up>>

EnterWait(t) ==
    /\ xfer[t].worker = "agreed"
    /\ xfer' = [xfer EXCEPT ![t].worker = "waiting"]
    /\ UNCHANGED <<table, loop, toLocal, toRemote, up>>

\* Slip: the deferred removal is forgotten.
RemoveInboundTransfer_Forgotten(t) ==
    /\ xfer[t].worker = "leaving"
    /\ xfer' = [xfer EXCEPT ![t].worker = "done"]
    /\ UNCHANGED <<table, loop, toLocal, toRemote, up>>

RemoveInboundTransfer(t) ==
    /\ xfer[t].worker = "leaving"
    /\ ShardFree(t)
    /\ table' = table \ {t}
    /\ xfer' = [xfer EXCEPT ![t].worker = "done"]
    /\ UNCHANGED <<loop, toLocal, toRemote, up>>

-----------------------------------------------------------------------------
\* Transfer.Complete: a send on the unbuffered channel that finds the waiter
\* or is lost, then finished = true, then clearDataTimer.
\* Slip: the result is stored in the download instead of handed over once.
Signalled_Stored(x, ok) ==
    IF x.worker \in {"waiting", "leaving"}
    THEN [x EXCEPT !.worker = "leaving", !.result = IF ok THEN "ok" ELSE "failed"]
    ELSE x

Signalled(x, ok) ==
    IF x.worker = "waiting"
    THEN [x EXCEPT !.worker = "leaving", !.result = IF ok THEN "ok" ELSE "failed"]
    ELSE x

Stopped(x) == IF x.timer = "armed" THEN "spent" ELSE x.timer

\* Slip: the channel is drained when Stop() returns true.
ClearBlocks_Inverted(x) == x.timer = "armed"

\* Stop() returns false and the channel of an AfterFunc timer is nil: the
\* receive in clearDataTimer never returns.
ClearBlocks(x) == x.timer = "spent"

DataTimerFires(t) ==
    /\ xfer[t].timer = "armed"
    /\ xfer' = [xfer EXCEPT ![t].timer = "spent", ![t].expiry = "signal"]
    /\ UNCHANGED <<table, loop, toLocal, toRemote, up>>

ExpirySignals(t) ==
    /\ xfer[t].expiry = "signal"
    /\ xfer' = [xfer EXCEPT ![t] = [Signalled(xfer[t], FALSE) EXCEPT !.expiry = "finish"]]
    /\ UNCHANGED <<table, loop, toLocal, toRemote, up>>

\* Its own timer has fired: the goroutine stays in clearDataTimer for ever.
ExpiryFinishes(t) ==
    /\ xfer[t].expiry = "finish"
    /\ xfer' = [xfer EXCEPT ![t].finished = TRUE, ![t].expiry = "leaked"]
    /\ UNCHANGED <<table, loop, toLocal, toRemote, up>>

-----------------------------------------------------------------------------
\* The receive loop takes the next message.
Receives(type) ==
    /\ loop.at = "read"
    /\ toLocal # <<>>
    /\ Head(toLocal).type = type
    /\ toLocal' = Tail(toLocal)

\* Continue with Complete(err) on transfer t.
Completing(t, ok, after) ==
    loop' = [Reading EXCEPT !.at = "signal", !.id = t, !.ok = ok, !.after = after]

HandleDataStart ==
    LET m == Head(toLocal) IN
    /\ Receives("DataStart")
    /\ MayRead(m.id)
    /\ IF m.id \in table /\ Expected[m.id] \notin {0, m.size}
       THEN /\ Completing(m.id, FALSE, "terminate")
            /\ UNCHANGED toRemote
       ELSE /\ Reply(Msg(IF m.id \in table THEN "DataProceed" ELSE "DataTerminate", m.id))
            /\ UNCHANGED loop
    /\ UNCHANGED <<xfer, table, up>>

HandleDataBlock ==
    LET m == Head(toLocal) IN
    /\ Receives("DataBlock")
    /\ MayRead(m.id)
    /\ loop' = IF m.id \in table
               THEN [Reading EXCEPT !.at = "write", !.id = m.id, !.data = m.data]
               ELSE Reading
    /\ UNCHANGED <<xfer, table, toRemote, up>>

WriteChecks_Counts(t, n, fits) ==
    /\ loop.at = "write"
    /\ loop' = [loop EXCEPT !.at = IF fits THEN "append" ELSE "reset", !.ok = fits]
    /\ xfer' = [xfer EXCEPT ![t].received = n]
    /\ UNCHANGED <<table, toLocal, toRemote, up>>

\* Slip: Write does not look at finished.
WriteChecks_EvenFinished ==
    LET n == xfer[loop.id].received + 1 IN
    WriteChecks_Counts(loop.id, n, Expected[loop.id] = 0 \/ n <= Expected[loop.id])

\* Slip: the size is verified before the block is counted.
WriteChecks_SizeFirst ==
    LET n == xfer[loop.id].received IN
    /\ loop.at = "write"
    /\ ~xfer[loop.id].finished
    /\ WriteChecks_Counts(loop.id, n + 1, Expected[loop.id] = 0 \/ n <= Expected[loop.id])

\* Transfer.Write up to verifySize: the bytes count even when they are refused.
WriteChecks ==
    LET t == loop.id
        n == xfer[t].received + 1
        fits == Expected[t] = 0 \/ n <= Expected[t]
    IN
    /\ loop.at = "write"
    /\ IF xfer[t].finished
       THEN /\ loop' = [loop EXCEPT !.at = "reset", !.ok = FALSE]
            /\ UNCHANGED xfer
       ELSE /\ loop' = [loop EXCEPT !.at = IF fits THEN "append" ELSE "reset", !.ok = fits]
            /\ xfer' = [xfer EXCEPT ![t].received = n]
    /\ UNCHANGED <<table, toLocal, toRemote, up>>

\* The checksum is updated first; the destination may then refuse the block.
WriteAppends(diskOK) ==
    LET t == loop.id IN
    /\ loop.at = "append"
    /\ loop' = [loop EXCEPT !.at = "reset", !.ok = diskOK]
    /\ xfer' = [xfer EXCEPT ![t].hashed = Append(@, loop.data),
                            ![t].file = IF diskOK THEN Append(@, loop.data) ELSE @]
    /\ UNCHANGED <<table, toLocal, toRemote, up>>

\* The deferred resetDataTimer first stops the timer.
ResetClears ==
    LET t == loop.id IN
    /\ loop.at = "reset"
    /\ IF ClearBlocks(xfer[t])
       THEN /\ loop' = [loop EXCEPT !.at = "stuck"]
            /\ UNCHANGED xfer
       ELSE /\ loop' = [loop EXCEPT !.at = "arm"]
            /\ xfer' = [xfer EXCEPT ![t].timer = Stopped(xfer[t])]
    /\ UNCHANGED <<table, toLocal, toRemote, up>>

\* Slip: the timer is stopped but started again for the first block only.
ResetArms_Once ==
    LET t == loop.id IN
    /\ loop.at = "arm"
    /\ loop' = Reading
    /\ xfer' = [xfer EXCEPT ![t].timer = IF @ = "none" THEN "armed" ELSE "spent"]
    /\ UNCHANGED <<table, toLocal, toRemote, up>>

\* Then it starts a new one, and a failed Write is answered with a DataTerminate
\* that carries no GroupID.
ResetArms ==
    /\ loop.at = "arm"
    /\ loop' = Reading
    /\ xfer' = [xfer EXCEPT ![loop.id].timer = "armed"]
    /\ IF loop.ok THEN UNCHANGED toRemote ELSE Reply(Msg("DataTerminate", None))
    /\ UNCHANGED <<table, toLocal, up>>

\* Slip: the checksum is not compared at all.
Verifies_SizeOnly(t, sum) == Expected[t] = 0 \/ xfer[t].received <= Expected[t]

\* verifyChecksum compares nothing when the DataFinalize came without data.
Verifies(t, sum) ==
    /\ Expected[t] = 0 \/ xfer[t].received <= Expected[t]
    /\ sum \in {None, xfer[t].hashed}

HandleDataFinalize ==
    LET m == Head(toLocal)
        ok == Verifies(m.id, m.sum)
    IN
    /\ Receives("DataFinalize")
    /\ MayRead(m.id)
    /\ IF m.id \in table
       THEN /\ Reply(Msg(IF ok THEN "Acknowledgment" ELSE "DataFailed", m.id))
            /\ Completing(m.id, ok, "read")
            /\ xfer' = [xfer EXCEPT ![m.id].accepted = IF ok THEN xfer[m.id].hashed ELSE @,
                                    ![m.id].against = IF ok THEN m.sum ELSE @]
       ELSE UNCHANGED <<xfer, loop, toRemote>>
    /\ UNCHANGED <<table, up>>

\* There is no case for DataFailed.
IgnoreDataFailed ==
    /\ Receives("DataFailed")
    /\ UNCHANGED <<xfer, table, loop, toRemote, up>>

\* The dispatch of a ServiceResponse to the download that asked; one that comes
\* before it waits is dropped (CheckedMessages).
HandleServiceResponse(taken) ==
    LET m == Head(toLocal)
        ok == m.type = "ServiceOK"
    IN
    /\ Receives("ServiceOK") \/ Receives("ServiceError")
    /\ taken => xfer[m.id].worker = "asking"
    /\ xfer' = IF ~taken THEN xfer
               ELSE IF ok THEN [xfer EXCEPT ![m.id].worker = "agreed"]
               ELSE [xfer EXCEPT ![m.id].worker = "leaving", ![m.id].result = "failed"]
    /\ UNCHANGED <<table, loop, toRemote, up>>

CompleteSignals ==
    /\ loop.at = "signal"
    /\ xfer' = [xfer EXCEPT ![loop.id] = Signalled(@, loop.ok)]
    /\ loop' = [loop EXCEPT !.at = "finish"]
    /\ UNCHANGED <<table, toLocal, toRemote, up>>

CompleteFinishes ==
    LET t == loop.id IN
    /\ loop.at = "finish"
    /\ xfer' = [xfer EXCEPT ![t].finished = TRUE, ![t].timer = Stopped(xfer[t])]
    /\ loop' = IF ClearBlocks(xfer[t]) THEN [loop EXCEPT !.at = "stuck"]
               ELSE Reading
    /\ IF ~ClearBlocks(xfer[t]) /\ loop.after = "terminate"
       THEN Reply(Msg("DataTerminate", t))
       ELSE UNCHANGED toRemote
    /\ UNCHANGED <<table, toLocal, up>>

-----------------------------------------------------------------------------
ConnectionBreaks ==
    /\ up
    /\ up' = FALSE
    /\ UNCHANGED <<xfer, table, loop, toLocal, toRemote>>

-----------------------------------------------------------------------------
\* Disconnect, called by the loop when ReceiveMessage has failed, and by
\* RemovePeer or a monitor while the loop goes on.  IterCb visits one shard after
\* the other.  It completes the first transfer it finds and then calls Remove on
\* the shard that IterCb has locked: no action leaves "stuck" or "removing".
Moves(c, at, t) == closer' = [closer EXCEPT ![c].at = at, ![c].id = t]

ReceiveFails ==
    /\ loop.at = "read"
    /\ ~up
    /\ loop' = [loop EXCEPT !.at = "ended"]
    /\ Moves("loop", "sweep", None)
    /\ UNCHANGED <<xfer, up>>

CallDisconnect(c) ==
    /\ closer[c].at = "none"
    /\ Moves(c, "sweep", None)
    /\ UNCHANGED <<xfer, loop, up>>

DisconnectPasses(c, s) ==
    /\ closer[c].at = "sweep"
    /\ s \in closer[c].unseen
    /\ \A t \in table : Shard[t] # s
    /\ closer' = [closer EXCEPT ![c].unseen = @ \ {s}]
    /\ UNCHANGED <<xfer, loop, up>>

DisconnectFinds(c, t) ==
    /\ closer[c].at = "sweep"
    /\ t \in table
    /\ Shard[t] \in closer[c].unseen
    /\ MayRead(t)
    /\ Moves(c, "signal", t)
    /\ UNCHANGED <<xfer, loop, up>>

DisconnectSignals(c) ==
    /\ closer[c].at = "signal"
    /\ xfer' = [xfer EXCEPT ![closer[c].id] = Signalled(@, FALSE)]
    /\ Moves(c, "finish", closer[c].id)
    /\ UNCHANGED <<loop, up>>

DisconnectFinishes(c) ==
    LET t == closer[c].id IN
    /\ closer[c].at = "finish"
    /\ xfer' = [xfer EXCEPT ![t].finished = TRUE, ![t].timer = Stopped(xfer[t])]
    /\ Moves(c, IF ClearBlocks(xfer[t]) THEN "stuck" ELSE "removing", t)
    /\ UNCHANGED <<loop, up>>

CloseConnection(c) ==
    /\ closer[c].at = "sweep"
    /\ closer[c].unseen = {}
    /\ Moves(c, "closed", None)
    /\ up' = FALSE
    /\ UNCHANGED <<xfer, loop>>

Disconnect(c) ==
    \/ \E s \in Shards : DisconnectPasses(c, s)
    \/ \E t \in Transfers : DisconnectFinds(c, t)
    \/ DisconnectSignals(c)
    \/ DisconnectFinishes(c)
    \/ CloseConnection(c)

Ends ==
    /\ \/ ReceiveFails
       \/ \E c \in Closers : CallDisconnect(c)
       \/ \E c \in Disconnecters : Disconnect(c)
    /\ UNCHANGED <<table, toLocal, toRemote>>

-----------------------------------------------------------------------------
\* The remote peer, for this module on its own.
RemoteSends(m) ==
    /\ up
    /\ Len(toLocal) < MaxWire /\ Len(toRemote) < MaxWire
    /\ toLocal' = Append(toLocal, m)
    /\ UNCHANGED <<xfer, table, loop, toRemote, up>>

RemoteReads ==
    /\ toRemote # <<>>
    /\ toRemote' = Tail(toRemote)
    /\ UNCHANGED <<xfer, table, loop, toLocal, up>>

\* The remote answers a request before it sends data, and sends no more than
\* MaxReceived blocks.
RemoteMaySend(m) ==
    /\ m.type = "DataBlock" =>
          Len(SelectSeq(toLocal, LAMBDA q : q.type = "DataBlock" /\ q.id = m.id))
             + xfer[m.id].received < MaxReceived
    /\ m.type \in {"ServiceOK", "ServiceError"} => xfer[m.id].worker = "asking"

Sums == UNION {[1..n -> Block] : n \in 0..MaxReceived}

RemoteMessage ==
    {Start(t, n) : t \in Transfers, n \in 0..MaxReceived}
    \cup {DataBlock(t, b) : t \in Transfers, b \in Block}
    \cup {Finalize(t, sum) : t \in Transfers, sum \in Sums \cup {None}}
    \cup {Msg(k, t) : k \in {"DataFailed", "ServiceOK", "ServiceError"}, t \in Transfers}

Remote == (\E m \in RemoteMessage : RemoteMaySend(m) /\ RemoteSends(m)) \/ RemoteReads

-----------------------------------------------------------------------------
Worker(t) ==
    \/ SendServiceRequest(t)
    \/ ServiceRequestTimesOut(t)
    \/ EnterWait(t)
    \/ RemoveInboundTransfer(t)

Timer(t) == DataTimerFires(t) \/ ExpirySignals(t) \/ ExpiryFinishes(t)

Loop ==
    \/ HandleDataStart
    \/ HandleDataBlock
    \/ HandleDataFinalize
    \/ IgnoreDataFailed
    \/ \E taken \in BOOLEAN : HandleServiceResponse(taken)
    \/ WriteChecks
    \/ \E diskOK \in {TRUE, ~DiskMayFail} : WriteAppends(diskOK)
    \/ ResetClears
    \/ ResetArms
    \/ CompleteSignals
    \/ CompleteFinishes

Local ==
    \/ Loop
    \/ \E t \in Transfers : CreateInboundTransfer(t) \/ Worker(t) \/ Timer(t)
    \/ ConnectionBreaks

Beside(A) == A /\ UNCHANGED closer

Next == Beside(Local) \/ Beside(Remote) \/ Ends

\* The goroutines that can run do, and timers fire.  Nothing is asked of the loop
\* while a Disconnect holds a shard, for which a writer may be waiting, and
\* nothing of the Disconnects.
LoopRuns == loop.at = "read" => \A t \in Transfers : ShardFree(t)

Fairness ==
    /\ WF_vars(Beside(LoopRuns /\ Loop))
    /\ \A t \in Transfers : /\ WF_vars(Beside(Worker(t)))
                            /\ WF_vars(Beside(DataTimerFires(t)))
                            /\ WF_vars(Beside(ExpirySignals(t)))
                            /\ WF_vars(Beside(ExpiryFinishes(t)))

Spec == Init /\ [][Next]_vars /\ Fairness

-----------------------------------------------------------------------------
\* A transfer is in the table exactly while its download is running
\* (queued_download.go:160-167).
TableMatchesDownloads == table = {t \in Transfers : xfer[t].worker \in Active}

\* A download succeeds only with the very data that Verify accepted, which is the
\* data of the checksum the remote gave, if it gave one: nothing is appended
\* between the verification and the end of the download, nor after it, whatever
\* the remote sends (transfer.go:90-155, remote_peer.go:552-571).
SuccessIsVerified ==
    \A t \in Transfers : xfer[t].result = "ok" =>
        /\ xfer[t].accepted = xfer[t].hashed
        /\ xfer[t].against \in {None, xfer[t].hashed}

\* No more than the expected amount ever enters the checksum or the file, even
\* after a refused block (transfer.go:19-22, 97-104, 135-143).
NeverTooMuch ==
    \A t \in Transfers : Expected[t] > 0 => Len(xfer[t].hashed) <= Expected[t]

\* The loop hangs in clearDataTimer only for a transfer that has timed out or
\* was completed before: data that arrives in time never stops the session
\* (transfer.go:157-171).
StuckOnlyOnDeadTransfer ==
    loop.at = "stuck" => xfer[loop.id].finished \/ xfer[loop.id].expiry # "none"

\* The facts that make the above inductive.
LoopAgrees ==
    LET x == xfer[loop.id] IN
    /\ loop.at = "append" =>
          /\ Len(x.hashed) < x.received
          /\ Expected[loop.id] > 0 => x.received <= Expected[loop.id]
          /\ x.result # "ok"
    /\ loop.at = "signal" /\ loop.ok =>
          x.accepted = x.hashed /\ x.against \in {None, x.hashed}
    /\ loop.at \in {"write", "append", "reset", "arm"} => loop.after = "read"
    /\ loop.at \in {"write", "append"} => xfer[loop.id].worker # "idle"

TransfersAgree ==
    \A t \in Transfers : LET x == xfer[t] IN
        /\ Len(x.hashed) <= x.received
        /\ x.timer = "spent" =>
              x.finished \/ x.expiry # "none" \/ (loop.at = "arm" /\ loop.id = t)
        /\ x.result = "ok" => x.finished \/ (loop.at = "finish" /\ loop.id = t)
        /\ x.result = "none" <=> x.worker \in {"idle", "created", "asking", "agreed", "waiting"}
        /\ ~DiskMayFail => x.file = x.hashed

Inv ==
    /\ TypeOK
    /\ TableMatchesDownloads
    /\ SuccessIsVerified
    /\ NeverTooMuch
    /\ StuckOnlyOnDeadTransfer
    /\ LoopAgrees
    /\ TransfersAgree

\* A download's result never changes, though the loop, the timer's goroutine and
\* every Disconnect may complete the same transfer (transfer.go:70-86).
ResultIsFinal ==
    [][\A t \in Transfers : xfer[t].result # "none" => xfer'[t].result = xfer[t].result]_vars

\* A remote that falls silent is given up: once data has come, a waiting download
\* that nobody has completed before it waited returns, unless more comes or the
\* loop or a Disconnect is about to complete it (transfer.go:90-91, 157-171).
SilentRemoteIsGivenUp ==
    \A t \in Transfers : LET x == xfer[t] IN
        (/\ x.worker = "waiting" /\ x.received > 0
         /\ ~x.finished /\ x.expiry \in {"none", "signal"}
         /\ loop.id # t /\ \A c \in Disconnecters : closer[c].id # t)
            ~> x.worker # "waiting" \/ loop.id = t
=============================================================================
