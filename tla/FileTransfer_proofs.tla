------------------------- MODULE FileTransfer_proofs -------------------------
(***************************************************************************)
(* Transfers, for any files, sizes, payloads and shards.                   *)
(*                                                                         *)
(* First the receiver alone, whatever a remote sends: Inv is an inductive  *)
(* invariant of InboundTransfers, and with it a download succeeds only     *)
(* with the data that Verify accepted, never takes too much, and keeps its *)
(* result.  Sound is what Inv says of one transfer.  The steps of the      *)
(* goroutines beside the receive loop share one argument (BesideTheLoop),  *)
(* and so do those of the loop (TheLoop).                                  *)
(*                                                                         *)
(* Then both ends of a session: the receiver's invariant survives this     *)
(* code's own sender, a completed download holds the file unless that was  *)
(* cut short meanwhile (ReadsSource is what the sender has read of it),    *)
(* and a download asked for with a ServiceRequest never completes.         *)
(***************************************************************************)
EXTENDS FileTransfer, SequenceTheorems, TLAPS

\* The positions of a download that has no result yet.
Open == {"idle", "created", "asking", "agreed", "waiting"}

Sound(t, x, l) ==
    /\ x.result = "ok" => x.accepted = x.hashed /\ x.against \in {None, x.hashed}
    /\ Expected[t] > 0 => Len(x.hashed) <= Expected[t]
    /\ Len(x.hashed) <= x.received
    /\ x.timer = "spent" => x.finished \/ x.expiry # "none" \/ (l.at = "arm" /\ l.id = t)
    /\ x.result = "ok" => x.finished \/ (l.at = "finish" /\ l.id = t)
    /\ x.result = "none" <=> x.worker \in Open
    /\ ~DiskMayFail => x.file = x.hashed

LEMMA InvOfParts ==
    Inv <=> /\ TypeOK
            /\ TableMatchesDownloads
            /\ \A t \in Transfers : Sound(t, xfer[t], loop)
            /\ StuckOnlyOnDeadTransfer
            /\ LoopAgrees
BY DEF Inv, Sound, Open, SuccessIsVerified, NeverTooMuch, TransfersAgree

-----------------------------------------------------------------------------
\* Messages.

\* The receive loop takes a message: it is one, and so are those that are left.
LEMMA Received ==
    ASSUME TypeOK, NEW type, Receives(type)
    PROVE  /\ Head(toLocal) \in Message
           /\ Head(toLocal).type = type
           /\ toLocal' \in Seq(Message)
           /\ loop.at = "read"
BY DEF TypeOK, Receives

\* A message carries what its type calls for.
LEMMA Carried ==
    ASSUME NEW m \in Message
    PROVE  /\ m.id \in Transfers
           /\ m.type = "DataBlock" => m.data \in Block
           /\ m.type = "DataFinalize" => m.sum \in Seq(Block) \cup {None}
BY DEF Message

\* A reply is queued for the remote, or lost with the connection.
LEMMA Replied ==
    ASSUME TypeOK, NEW m \in ReplyMessage, Reply(m)
    PROVE  toRemote' \in Seq(ReplyMessage)
BY DEF TypeOK, Reply

-----------------------------------------------------------------------------
LEMMA InitInv == Init => Inv
<1> SUFFICES ASSUME Init PROVE Inv
    OBVIOUS
<1>1. NewTransfer \in Transfer
      BY DEF NewTransfer, Transfer
<1>2. TypeOK
      <2>1. [c \in Disconnecters |-> [at |-> "none", id |-> None, unseen |-> Shards]]
               \in [Disconnecters ->
                        [at : CloserAt, id : Transfers \cup {None}, unseen : SUBSET Shards]]
            BY DEF CloserAt
      <2> QED BY <1>1, <2>1 DEF Init, TypeOK, Reading, LoopAt
<1>3. TableMatchesDownloads /\ StuckOnlyOnDeadTransfer /\ LoopAgrees
      BY DEF Init, TableMatchesDownloads, StuckOnlyOnDeadTransfer, LoopAgrees, NewTransfer,
         Reading, Active
<1>4. \A t \in Transfers : Sound(t, xfer[t], loop)
      BY ExpectedAssumption DEF Init, Sound, Open, NewTransfer
<1> QED BY <1>2, <1>3, <1>4, InvOfParts

-----------------------------------------------------------------------------
\* The goroutines beside the loop.

\* They touch neither the data nor the checksum of a transfer, complete it with a
\* failure at best, and never undo a completion.
Spares(x, y) ==
    /\ y.received = x.received /\ y.hashed = x.hashed
    /\ y.file = x.file /\ y.accepted = x.accepted /\ y.against = x.against
    /\ y.result = "ok" <=> x.result = "ok"
    /\ x.finished => y.finished
    /\ x.expiry # "none" => y.expiry # "none"
    /\ y.timer = "spent" => x.timer = "spent" \/ y.expiry # "none" \/ y.finished
    /\ y.result = "none" <=> y.worker \in Open
    /\ x.worker # "idle" => y.worker # "idle"

LEMMA BesideTheLoop ==
    ASSUME Inv, NEW t \in Transfers, NEW y \in Transfer, Spares(xfer[t], y),
           xfer' = [xfer EXCEPT ![t] = y],
           table' = {u \in Transfers : xfer'[u].worker \in Active}, UNCHANGED loop, TypeOK'
    PROVE  Inv'
<1>1. /\ xfer'[t] = y
      /\ \A u \in Transfers \ {t} : xfer'[u] = xfer[u]
      BY DEF Inv, TypeOK
<1>2. TableMatchesDownloads'
      BY DEF TableMatchesDownloads
<1>3. SuccessIsVerified' /\ NeverTooMuch'
      BY <1>1 DEF Inv, Spares, SuccessIsVerified, NeverTooMuch
<1>4. TransfersAgree'
      BY <1>1 DEF Inv, Spares, TransfersAgree, Open
<1>5. StuckOnlyOnDeadTransfer'
      BY <1>1 DEF Inv, TypeOK, Spares, StuckOnlyOnDeadTransfer
<1>6. LoopAgrees'
      BY <1>1 DEF Inv, TypeOK, LoopAgrees, Spares
<1> QED BY <1>2, <1>3, <1>4, <1>5, <1>6 DEF Inv

LEMMA GoroutineStep ==
    ASSUME Inv, NEW t \in Transfers, NEW y \in Transfer, Spares(xfer[t], y),
           xfer' = [xfer EXCEPT ![t] = y],
           table' = {u \in Transfers : xfer'[u].worker \in Active},
           toLocal' \in Seq(Message), toRemote' \in Seq(ReplyMessage), UNCHANGED <<loop, closer, up>>
    PROVE  Inv'
<1>1. TypeOK'
      BY DEF Inv, TypeOK
<1> QED BY <1>1, BesideTheLoop

\* A step of a download's goroutine (queued_download.go:158-225) keeps the invariant.
LEMMA WorkerStep ==
    ASSUME Inv, UNCHANGED closer, NEW t \in Transfers, CreateInboundTransfer(t) \/ Worker(t)
    PROVE  Inv'
<1> DEFINE x == xfer[t]
<1>1. /\ x \in Transfer
      /\ x.result = "none" <=> x.worker \in Open
      /\ x.worker \in Active <=> t \in table
      /\ table = {u \in Transfers : xfer[u].worker \in Active}
      /\ xfer \in [Transfers -> Transfer]
      /\ toLocal \in Seq(Message) /\ toRemote \in Seq(ReplyMessage)
      BY DEF Inv, TypeOK, TransfersAgree, TableMatchesDownloads, Open
<1>2. CASE CreateInboundTransfer(t)
      <2> DEFINE y == [x EXCEPT !.worker = IF t \in Requested THEN "created" ELSE "agreed"]
      <2>1. y \in Transfer /\ Spares(x, y)
            BY <1>1, <1>2 DEF CreateInboundTransfer, Transfer, Active, Open, Spares
      <2>2. xfer' = [xfer EXCEPT ![t] = y]
            BY <1>1, <1>2 DEF CreateInboundTransfer
      <2>3. table' = {u \in Transfers : xfer'[u].worker \in Active}
            BY <1>1, <1>2, <2>1, <2>2 DEF CreateInboundTransfer, Active
      <2> QED BY <1>1, <1>2, <2>1, <2>2, <2>3, GoroutineStep DEF CreateInboundTransfer
<1>3. CASE SendServiceRequest(t)
      <2> DEFINE y == [x EXCEPT !.worker = "asking"]
      <2>1. y \in Transfer /\ Spares(x, y)
            BY <1>1, <1>3 DEF SendServiceRequest, Transfer, Active, Open, Spares
      <2>2. xfer' = [xfer EXCEPT ![t] = y]
            BY <1>1, <1>3 DEF SendServiceRequest
      <2>3. table' = {u \in Transfers : xfer'[u].worker \in Active}
            BY <1>1, <1>3, <2>1, <2>2 DEF SendServiceRequest, Active
      <2>4. toRemote' \in Seq(ReplyMessage)
            BY <1>3, Replied DEF Inv, SendServiceRequest, Msg, ReplyMessage
      <2> QED BY <1>1, <1>3, <2>1, <2>2, <2>3, <2>4, GoroutineStep DEF SendServiceRequest
<1>4. CASE ServiceRequestTimesOut(t)
      <2> DEFINE y == [x EXCEPT !.worker = "leaving", !.result = "failed"]
      <2>1. y \in Transfer /\ Spares(x, y)
            BY <1>1, <1>4 DEF ServiceRequestTimesOut, Transfer, Active, Open, Spares
      <2>2. xfer' = [xfer EXCEPT ![t] = y]
            BY <1>1, <1>4 DEF ServiceRequestTimesOut
      <2>3. table' = {u \in Transfers : xfer'[u].worker \in Active}
            BY <1>1, <1>4, <2>1, <2>2 DEF ServiceRequestTimesOut, Active
      <2> QED BY <1>1, <1>4, <2>1, <2>2, <2>3, GoroutineStep DEF ServiceRequestTimesOut
<1>5. CASE EnterWait(t)
      <2> DEFINE y == [x EXCEPT !.worker = "waiting"]
      <2>1. y \in Transfer /\ Spares(x, y)
            BY <1>1, <1>5 DEF EnterWait, Transfer, Active, Open, Spares
      <2>2. xfer' = [xfer EXCEPT ![t] = y]
            BY <1>1, <1>5 DEF EnterWait
      <2>3. table' = {u \in Transfers : xfer'[u].worker \in Active}
            BY <1>1, <1>5, <2>1, <2>2 DEF EnterWait, Active
      <2> QED BY <1>1, <1>5, <2>1, <2>2, <2>3, GoroutineStep DEF EnterWait
<1>6. CASE RemoveInboundTransfer(t)
      <2> DEFINE y == [x EXCEPT !.worker = "done"]
      <2>1. y \in Transfer /\ Spares(x, y)
            BY <1>1, <1>6 DEF RemoveInboundTransfer, Transfer, Active, Open, Spares
      <2>2. xfer' = [xfer EXCEPT ![t] = y]
            BY <1>1, <1>6 DEF RemoveInboundTransfer
      <2>3. table' = {u \in Transfers : xfer'[u].worker \in Active}
            BY <1>1, <1>6, <2>1, <2>2 DEF RemoveInboundTransfer, Active
      <2> QED BY <1>1, <1>6, <2>1, <2>2, <2>3, GoroutineStep DEF RemoveInboundTransfer
<1> QED BY <1>2, <1>3, <1>4, <1>5, <1>6 DEF Worker

\* A step of a data timer and its goroutine (transfer.go:70-86, 157-171) keeps
\* the invariant.
LEMMA TimerStep ==
    ASSUME Inv, UNCHANGED closer, NEW t \in Transfers, Timer(t)
    PROVE  Inv'
<1> DEFINE x == xfer[t]
<1>1. /\ x \in Transfer
      /\ x.result = "none" <=> x.worker \in Open
      /\ x.worker \in Active <=> t \in table
      /\ table = {u \in Transfers : xfer[u].worker \in Active}
      /\ xfer \in [Transfers -> Transfer]
      /\ toLocal \in Seq(Message) /\ toRemote \in Seq(ReplyMessage)
      BY DEF Inv, TypeOK, TransfersAgree, TableMatchesDownloads, Open
<1>2. CASE DataTimerFires(t)
      <2> DEFINE y == [x EXCEPT !.timer = "spent", !.expiry = "signal"]
      <2>1. y \in Transfer /\ Spares(x, y)
            BY <1>1, <1>2 DEF DataTimerFires, Transfer, Active, Open, Spares
      <2>2. xfer' = [xfer EXCEPT ![t] = y]
            BY <1>1, <1>2 DEF DataTimerFires
      <2>3. table' = {u \in Transfers : xfer'[u].worker \in Active}
            BY <1>1, <1>2, <2>1, <2>2 DEF DataTimerFires, Active
      <2> QED BY <1>1, <1>2, <2>1, <2>2, <2>3, GoroutineStep DEF DataTimerFires
<1>3. CASE ExpirySignals(t)
      <2> DEFINE y == [Signalled(x, FALSE) EXCEPT !.expiry = "finish"]
      <2>1. y \in Transfer /\ Spares(x, y)
            BY <1>1, <1>3 DEF ExpirySignals, Signalled, Transfer, Active, Open, Spares
      <2>2. xfer' = [xfer EXCEPT ![t] = y]
            BY <1>1, <1>3 DEF ExpirySignals, Signalled
      <2>3. table' = {u \in Transfers : xfer'[u].worker \in Active}
            BY <1>1, <1>3, <2>1, <2>2 DEF ExpirySignals, Signalled, Active
      <2> QED BY <1>1, <1>3, <2>1, <2>2, <2>3, GoroutineStep DEF ExpirySignals
<1>4. CASE ExpiryFinishes(t)
      <2> DEFINE y == [x EXCEPT !.finished = TRUE, !.expiry = "leaked"]
      <2>1. y \in Transfer /\ Spares(x, y)
            BY <1>1, <1>4 DEF ExpiryFinishes, Transfer, Active, Open, Spares
      <2>2. xfer' = [xfer EXCEPT ![t] = y]
            BY <1>1, <1>4 DEF ExpiryFinishes
      <2>3. table' = {u \in Transfers : xfer'[u].worker \in Active}
            BY <1>1, <1>4, <2>1, <2>2 DEF ExpiryFinishes, Active
      <2> QED BY <1>1, <1>4, <2>1, <2>2, <2>3, GoroutineStep DEF ExpiryFinishes
<1> QED BY <1>2, <1>3, <1>4 DEF Timer

-----------------------------------------------------------------------------
\* The receive loop.

LEMMA LoopAlone ==
    ASSUME Inv, TypeOK', UNCHANGED <<xfer, table>>, loop.at \notin {"finish", "arm"},
           StuckOnlyOnDeadTransfer', LoopAgrees'
    PROVE  Inv'
BY DEF Inv, TableMatchesDownloads, SuccessIsVerified, NeverTooMuch, TransfersAgree

LEMMA TheLoop ==
    ASSUME Inv, TypeOK', NEW t \in Transfers, NEW y \in Transfer,
           xfer' = [xfer EXCEPT ![t] = y], table' = table,
           y.worker \in Active <=> xfer[t].worker \in Active,
           loop.at \in {"finish", "arm"} => loop.id = t,
           Sound(t, y, loop'), StuckOnlyOnDeadTransfer', LoopAgrees'
    PROVE  Inv'
<1>1. /\ xfer'[t] = y
      /\ \A u \in Transfers \ {t} : xfer'[u] = xfer[u]
      BY DEF Inv, TypeOK
<1>2. TableMatchesDownloads'
      BY <1>1 DEF Inv, TableMatchesDownloads
<1>3. \A u \in Transfers : Sound(u, xfer'[u], loop')
      BY <1>1, InvOfParts DEF Sound
<1>4. SuccessIsVerified' /\ NeverTooMuch'
      BY <1>3 DEF Sound, SuccessIsVerified, NeverTooMuch
<1>5. TransfersAgree'
      BY <1>3 DEF Sound, Open, TransfersAgree
<1> QED BY <1>2, <1>4, <1>5 DEF Inv

\* The loop goes on to complete a transfer: with success only if it is verified.
LEMMA Completes ==
    ASSUME Inv, NEW t \in Transfers, NEW ok \in BOOLEAN,
           NEW after \in {"read", "terminate"}, Completing(t, ok, after)
    PROVE  /\ loop' \in [at : LoopAt, id : Transfers \cup {None}, ok : BOOLEAN,
                         after : {"read", "terminate"}, data : Block \cup {None}]
           /\ loop'.at = "signal" /\ loop'.id = t /\ loop'.ok = ok /\ loop'.after = after
BY DEF Completing, Reading, LoopAt

\* Messages that do not touch a transfer: DataStart and DataBlock hand it on,
\* DataFailed is ignored (remote_peer.go:494-550).
LEMMA MessageStep ==
    ASSUME Inv, UNCHANGED closer, HandleDataStart \/ HandleDataBlock \/ IgnoreDataFailed
    PROVE  Inv'
<1> DEFINE m == Head(toLocal)
<1>1. CASE HandleDataStart
      <2>1. /\ m.id \in Transfers /\ toLocal' \in Seq(Message) /\ loop.at = "read"
            BY <1>1, Received, Carried DEF Inv, HandleDataStart
      <2>2. CASE m.id \in table /\ Expected[m.id] \notin {0, m.size}
            <3>1. Completing(m.id, FALSE, "terminate") /\ UNCHANGED <<xfer, table, toRemote, up>>
                  BY <1>1, <2>2 DEF HandleDataStart
            <3>2. /\ loop' \in [at : LoopAt, id : Transfers \cup {None}, ok : BOOLEAN,
                                after : {"read", "terminate"}, data : Block \cup {None}]
                  /\ loop'.at = "signal" /\ loop'.id = m.id /\ loop'.ok = FALSE
                  BY <2>1, <3>1, Completes
            <3>3. TypeOK'
                  BY <2>1, <3>1, <3>2 DEF Inv, TypeOK
            <3>4. StuckOnlyOnDeadTransfer' /\ LoopAgrees'
                  BY <3>2 DEF StuckOnlyOnDeadTransfer, LoopAgrees
            <3> QED BY <2>1, <3>1, <3>3, <3>4, LoopAlone
      <2>3. CASE ~(m.id \in table /\ Expected[m.id] \notin {0, m.size})
            <3>1. /\ Reply(Msg(IF m.id \in table THEN "DataProceed" ELSE "DataTerminate", m.id))
                  /\ UNCHANGED <<xfer, table, loop, up>>
                  BY <1>1, <2>3 DEF HandleDataStart
            <3>2. toRemote' \in Seq(ReplyMessage)
                  BY <2>1, <3>1, Replied DEF Inv, Msg, ReplyMessage
            <3>3. TypeOK'
                  BY <2>1, <3>1, <3>2 DEF Inv, TypeOK
            <3>4. StuckOnlyOnDeadTransfer' /\ LoopAgrees'
                  BY <2>1, <3>1 DEF StuckOnlyOnDeadTransfer, LoopAgrees
            <3> QED BY <2>1, <3>1, <3>3, <3>4, LoopAlone
      <2> QED BY <2>2, <2>3
<1>2. CASE HandleDataBlock
      <2>1. /\ m.id \in Transfers /\ m.data \in Block
            /\ toLocal' \in Seq(Message) /\ loop.at = "read"
            BY <1>2, Received, Carried DEF Inv, HandleDataBlock
      <2>2. /\ loop' = IF m.id \in table
                       THEN [Reading EXCEPT !.at = "write", !.id = m.id, !.data = m.data]
                       ELSE Reading
            /\ UNCHANGED <<xfer, table, toRemote, up>>
            BY <1>2 DEF HandleDataBlock
      <2>3. TypeOK'
            BY <2>1, <2>2 DEF Inv, TypeOK, Reading, LoopAt
      <2>4. m.id \in table => xfer[m.id].worker # "idle"
            BY DEF Inv, TableMatchesDownloads, Active
      <2>5. StuckOnlyOnDeadTransfer' /\ LoopAgrees'
            BY <2>2, <2>4 DEF StuckOnlyOnDeadTransfer, LoopAgrees, Reading
      <2> QED BY <2>1, <2>2, <2>3, <2>5, LoopAlone
<1>3. CASE IgnoreDataFailed
      <2>1. toLocal' \in Seq(Message) /\ loop.at = "read"
            BY <1>3, Received DEF Inv, IgnoreDataFailed
      <2>2. TypeOK'
            BY <1>3, <2>1 DEF Inv, TypeOK, IgnoreDataFailed
      <2>3. StuckOnlyOnDeadTransfer' /\ LoopAgrees'
            BY <1>3, <2>1 DEF IgnoreDataFailed, StuckOnlyOnDeadTransfer, LoopAgrees
      <2> QED BY <1>3, <2>1, <2>2, <2>3, LoopAlone DEF IgnoreDataFailed
<1> QED BY <1>1, <1>2, <1>3

\* The dispatch of a ServiceResponse, taken by the download or dropped
\* (queued_download.go:171-179).
LEMMA ResponseStep ==
    ASSUME Inv, UNCHANGED closer, NEW taken \in BOOLEAN, HandleServiceResponse(taken)
    PROVE  Inv'
<1> DEFINE m == Head(toLocal)
           t == m.id
           x == xfer[t]
<1>1. /\ t \in Transfers /\ toLocal' \in Seq(Message) /\ loop.at = "read"
      BY Received, Carried DEF Inv, HandleServiceResponse
<1>2. CASE ~taken
      <2>1. UNCHANGED <<xfer, table, loop, toRemote, up>>
            BY <1>2 DEF HandleServiceResponse
      <2>2. TypeOK'
            BY <1>1, <2>1 DEF Inv, TypeOK
      <2>3. StuckOnlyOnDeadTransfer' /\ LoopAgrees'
            BY <1>1, <2>1 DEF StuckOnlyOnDeadTransfer, LoopAgrees
      <2> QED BY <1>1, <2>1, <2>2, <2>3, LoopAlone
<1>3. CASE taken
      <2>1. /\ x \in Transfer /\ x.worker = "asking" /\ x.result = "none"
            /\ table = {u \in Transfers : xfer[u].worker \in Active}
            /\ xfer \in [Transfers -> Transfer]
            /\ toRemote \in Seq(ReplyMessage)
            /\ UNCHANGED <<table, loop, toRemote, up>>
            BY <1>1, <1>3 DEF HandleServiceResponse, Inv, TypeOK, TransfersAgree,
               TableMatchesDownloads
      <2>2. PICK y \in {[x EXCEPT !.worker = "agreed"],
                        [x EXCEPT !.worker = "leaving", !.result = "failed"]} :
                xfer' = [xfer EXCEPT ![t] = y]
            BY <1>1, <1>3, <2>1 DEF HandleServiceResponse
      <2>3. y \in Transfer /\ Spares(x, y) /\ y.worker \in Active
            BY <2>1, <2>2 DEF Transfer, Active, Open, Spares
      <2>4. table' = {u \in Transfers : xfer'[u].worker \in Active}
            BY <1>1, <2>1, <2>2, <2>3 DEF Active
      <2> QED BY <1>1, <2>1, <2>2, <2>3, <2>4, GoroutineStep
<1> QED BY <1>2, <1>3

\* Transfer.Write, from its checks to the deferred reset of the timer
\* (transfer.go:90-118, 165-171), and the answer to a failed one
\* (remote_peer.go:537-550).
LEMMA WriteStep ==
    ASSUME Inv, UNCHANGED closer,
           WriteChecks \/ (\E diskOK \in {TRUE, ~DiskMayFail} : WriteAppends(diskOK))
                \/ ResetClears \/ ResetArms
    PROVE  Inv'
<1> DEFINE t == loop.id
           x == xfer[t]
<1>1. loop.at \in {"write", "append", "reset", "arm"}
      BY DEF WriteChecks, WriteAppends, ResetClears, ResetArms
<1>2. /\ t \in Transfers /\ x \in Transfer /\ Sound(t, x, loop)
      /\ loop.at \in {"write", "append"} => loop.data \in Block /\ x.worker # "idle"
      /\ loop.after = "read"
      BY <1>1, InvOfParts DEF Inv, TypeOK, LoopAgrees
<1>3. CASE WriteChecks
      <2> DEFINE n == x.received + 1
                 fits == Expected[t] = 0 \/ n <= Expected[t]
      <2>1. CASE x.finished
            <3>1. loop' = [loop EXCEPT !.at = "reset", !.ok = FALSE]
                  /\ UNCHANGED <<xfer, table, toLocal, toRemote, up>>
                  BY <1>3, <2>1 DEF WriteChecks
            <3>2. TypeOK'
                  BY <1>2, <3>1 DEF Inv, TypeOK, LoopAt
            <3>3. StuckOnlyOnDeadTransfer' /\ LoopAgrees'
                  BY <1>2, <3>1 DEF Inv, TypeOK, StuckOnlyOnDeadTransfer, LoopAgrees
            <3> QED BY <1>3, <3>1, <3>2, <3>3, LoopAlone DEF WriteChecks
      <2>2. CASE ~x.finished
            <3> DEFINE y == [x EXCEPT !.received = n]
            <3>1. /\ loop' = [loop EXCEPT !.at = IF fits THEN "append" ELSE "reset", !.ok = fits]
                  /\ xfer' = [xfer EXCEPT ![t].received = n]
                  /\ UNCHANGED <<table, toLocal, toRemote, up>>
                  /\ loop.at = "write"
                  BY <1>3, <2>2 DEF WriteChecks
            <3>2. y \in Transfer /\ y.worker = x.worker /\ x.received \in Nat /\ n \in Nat
                  BY <1>2 DEF Transfer
            <3>3. xfer' = [xfer EXCEPT ![t] = y]
                  BY <1>2, <3>1 DEF Inv, TypeOK
            <3>4. Len(x.hashed) \in Nat /\ Expected[t] \in Nat
                  BY <1>2, ExpectedAssumption DEF Transfer
            <3>5. Sound(t, y, loop')
                  BY <1>2, <2>2, <3>1, <3>2, <3>4 DEF Sound, Transfer
            <3>6. /\ loop'.at = (IF fits THEN "append" ELSE "reset")
                  /\ loop'.id = t /\ loop'.data = loop.data /\ loop'.after = "read"
                  BY <1>2, <3>1 DEF Inv, TypeOK
            <3>7. TypeOK'
                  BY <1>2, <3>1, <3>2, <3>3, <3>6 DEF Inv, TypeOK, LoopAt
            <3>8. xfer'[t] = y
                  BY <1>2, <3>3 DEF Inv, TypeOK
            <3>9. x.result # "ok"
                  BY <1>2, <2>2, <3>1 DEF Sound
            <3>10. LoopAgrees' /\ StuckOnlyOnDeadTransfer'
                  BY <1>2, <3>1, <3>2, <3>4, <3>6, <3>8, <3>9
                  DEF LoopAgrees, StuckOnlyOnDeadTransfer, Sound, Transfer
            <3> QED BY <1>1, <1>2, <3>1, <3>2, <3>3, <3>5, <3>7, <3>10, TheLoop
      <2> QED BY <2>1, <2>2
<1>4. ASSUME NEW diskOK \in {TRUE, ~DiskMayFail}, WriteAppends(diskOK)
      PROVE  Inv'
      <2> DEFINE y == [x EXCEPT !.hashed = Append(@, loop.data),
                                !.file = IF diskOK THEN Append(@, loop.data) ELSE @]
      <2>1. /\ loop.at = "append" /\ loop.data \in Block
            /\ loop' = [loop EXCEPT !.at = "reset", !.ok = diskOK]
            /\ UNCHANGED <<table, toLocal, toRemote, up>>
            BY <1>2, <1>4 DEF WriteAppends
      <2>2. xfer' = [xfer EXCEPT ![t] = y]
            BY <1>2, <1>4 DEF Inv, TypeOK, WriteAppends
      <2>3. x.hashed \in Seq(Block) /\ x.file \in Seq(Block) /\ x.received \in Nat
            BY <1>2 DEF Transfer
      <2>4. /\ Append(x.hashed, loop.data) \in Seq(Block)
            /\ Append(x.file, loop.data) \in Seq(Block)
            /\ Len(Append(x.hashed, loop.data)) = Len(x.hashed) + 1
            BY <2>1, <2>3
      <2>5. y \in Transfer /\ y.worker = x.worker
            BY <1>2, <2>4 DEF Transfer
      <2>6. /\ Len(x.hashed) < x.received
            /\ Expected[t] > 0 => x.received <= Expected[t]
            /\ x.result # "ok"
            BY <2>1 DEF Inv, LoopAgrees
      <2>7. /\ y.hashed = Append(x.hashed, loop.data)
            /\ y.file = IF diskOK THEN Append(x.file, loop.data) ELSE x.file
            /\ y.result = x.result /\ y.received = x.received /\ y.timer = x.timer
            /\ y.finished = x.finished /\ y.expiry = x.expiry
            BY <1>2 DEF Transfer
      <2>8. Expected[t] \in Nat
            BY <1>2, ExpectedAssumption
      <2>9. ~DiskMayFail => diskOK
            BY <1>4
      <2>10. Sound(t, y, loop')
            <3>1. Len(x.hashed) \in Nat
                  BY <2>3
            <3>2. y.result # "ok"
                  BY <2>6, <2>7
            <3>3. (Expected[t] > 0 => Len(y.hashed) <= Expected[t]) /\ Len(y.hashed) <= y.received
                  BY <2>3, <2>4, <2>6, <2>7, <2>8, <3>1
            <3>4. /\ y.timer = "spent" => y.finished \/ y.expiry # "none"
                  /\ y.result = "none" <=> y.worker \in Open
                  BY <1>2, <2>1, <2>5, <2>7 DEF Sound
            <3>5. ~DiskMayFail => y.file = y.hashed
                  BY <1>2, <2>7, <2>9 DEF Sound
            <3> HIDE DEF y
            <3> QED BY <3>2, <3>3, <3>4, <3>5 DEF Sound
      <2>11. TypeOK'
            BY <1>2, <2>1, <2>2, <2>5, DiskAssumption DEF Inv, TypeOK, LoopAt
      <2>12. LoopAgrees' /\ StuckOnlyOnDeadTransfer'
            BY <1>2, <2>1 DEF Inv, TypeOK, LoopAgrees, StuckOnlyOnDeadTransfer
      <2> QED BY <1>1, <1>2, <2>1, <2>2, <2>5, <2>10, <2>11, <2>12, TheLoop
<1>5. CASE ResetClears
      <2>1. CASE ClearBlocks(x)
            <3>1. loop' = [loop EXCEPT !.at = "stuck"] /\ loop.at = "reset"
                  /\ UNCHANGED <<xfer, table, toLocal, toRemote, up>>
                  BY <1>5, <2>1 DEF ResetClears
            <3>2. TypeOK'
                  BY <1>2, <3>1 DEF Inv, TypeOK, LoopAt
            <3>3. StuckOnlyOnDeadTransfer' /\ LoopAgrees'
                  BY <1>2, <2>1, <3>1 DEF Inv, TypeOK, StuckOnlyOnDeadTransfer, LoopAgrees, Sound,
                     ClearBlocks
            <3> QED BY <3>1, <3>2, <3>3, LoopAlone
      <2>2. CASE ~ClearBlocks(x)
            <3> DEFINE y == [x EXCEPT !.timer = Stopped(x)]
            <3>1. /\ loop' = [loop EXCEPT !.at = "arm"] /\ loop.at = "reset"
                  /\ xfer' = [xfer EXCEPT ![t].timer = Stopped(x)]
                  /\ UNCHANGED <<table, toLocal, toRemote, up>>
                  BY <1>5, <2>2 DEF ResetClears
            <3>2. y \in Transfer /\ y.worker = x.worker
                  BY <1>2 DEF Transfer, Stopped
            <3>3. xfer' = [xfer EXCEPT ![t] = y]
                  BY <1>2, <3>1 DEF Inv, TypeOK
            <3>4. loop'.at = "arm" /\ loop'.id = t /\ loop'.after = "read"
                  BY <1>2, <3>1 DEF Inv, TypeOK
            <3>5. TypeOK'
                  BY <1>2, <3>1, <3>2, <3>3 DEF Inv, TypeOK, LoopAt
            <3>6. Sound(t, y, loop')
                  BY <1>2, <3>1, <3>2, <3>4 DEF Sound, Transfer
            <3>7. LoopAgrees' /\ StuckOnlyOnDeadTransfer'
                  BY <3>4 DEF LoopAgrees, StuckOnlyOnDeadTransfer
            <3> QED BY <1>2, <3>1, <3>2, <3>3, <3>5, <3>6, <3>7, TheLoop
      <2> QED BY <2>1, <2>2
<1>6. CASE ResetArms
      <2> DEFINE y == [x EXCEPT !.timer = "armed"]
      <2>1. /\ loop' = Reading /\ loop.at = "arm"
            /\ xfer' = [xfer EXCEPT ![t].timer = "armed"]
            /\ IF loop.ok THEN UNCHANGED toRemote ELSE Reply(Msg("DataTerminate", None))
            /\ UNCHANGED <<table, toLocal, up>>
            BY <1>6 DEF ResetArms
      <2>2. y \in Transfer /\ y.worker = x.worker
            BY <1>2 DEF Transfer
      <2>3. xfer' = [xfer EXCEPT ![t] = y]
            BY <1>2, <2>1 DEF Inv, TypeOK
      <2>4. toRemote' \in Seq(ReplyMessage)
            <3>1. CASE loop.ok
                  BY <2>1, <3>1 DEF Inv, TypeOK
            <3>2. CASE ~loop.ok
                  BY <2>1, <3>2, Replied DEF Inv, Msg, ReplyMessage
            <3> QED BY <3>1, <3>2
      <2>5. TypeOK'
            BY <1>2, <2>1, <2>2, <2>3, <2>4 DEF Inv, TypeOK, Reading, LoopAt
      <2>6. Sound(t, y, loop')
            BY <1>2, <2>1, <2>2 DEF Sound, Transfer
      <2>7. LoopAgrees' /\ StuckOnlyOnDeadTransfer'
            BY <2>1 DEF Reading, LoopAgrees, StuckOnlyOnDeadTransfer
      <2> QED BY <1>2, <2>1, <2>2, <2>3, <2>5, <2>6, <2>7, TheLoop
<1> QED BY <1>3, <1>4, <1>5, <1>6

\* DataFinalize verifies the checksum and sets out to complete the transfer
\* (remote_peer.go:552-574, transfer.go:120-155).
LEMMA FinalizeStep ==
    ASSUME Inv, UNCHANGED closer, HandleDataFinalize
    PROVE  Inv'
<1> DEFINE m == Head(toLocal)
           t == m.id
           x == xfer[t]
           ok == Verifies(t, m.sum)
           y == [x EXCEPT !.accepted = IF ok THEN x.hashed ELSE @,
                          !.against = IF ok THEN m.sum ELSE @]
<1>1. /\ t \in Transfers /\ m.sum \in Seq(Block) \cup {None} /\ toLocal' \in Seq(Message)
      /\ loop.at = "read" /\ x \in Transfer /\ Sound(t, x, loop)
      BY Received, Carried, InvOfParts DEF Inv, TypeOK, HandleDataFinalize
<1>2. CASE t \notin table
      <2>1. UNCHANGED <<xfer, table, loop, toRemote, up>>
            BY <1>2 DEF HandleDataFinalize
      <2>2. TypeOK'
            BY <1>1, <2>1 DEF Inv, TypeOK
      <2>3. StuckOnlyOnDeadTransfer' /\ LoopAgrees'
            BY <1>1, <2>1 DEF StuckOnlyOnDeadTransfer, LoopAgrees
      <2> QED BY <1>1, <2>1, <2>2, <2>3, LoopAlone
<1>3. CASE t \in table
      <2>1. /\ Reply(Msg(IF ok THEN "Acknowledgment" ELSE "DataFailed", t))
            /\ Completing(t, ok, "read")
            /\ xfer' = [xfer EXCEPT ![t].accepted = IF ok THEN xfer[t].hashed ELSE @,
                                    ![t].against = IF ok THEN m.sum ELSE @]
            /\ UNCHANGED <<table, up>>
            BY <1>3 DEF HandleDataFinalize
      <2>2. ok \in BOOLEAN /\ (ok => m.sum \in {None, x.hashed})
            BY DEF Verifies
      <2>3. /\ y \in Transfer /\ y.worker = x.worker
            /\ y.accepted = (IF ok THEN x.hashed ELSE x.accepted)
            /\ y.against = (IF ok THEN m.sum ELSE x.against)
            /\ y.result = x.result /\ y.hashed = x.hashed /\ y.received = x.received
            /\ y.timer = x.timer /\ y.finished = x.finished /\ y.expiry = x.expiry
            /\ y.file = x.file
            BY <1>1, <2>2 DEF Transfer
      <2>4. xfer' = [xfer EXCEPT ![t] = y] /\ xfer'[t] = y
            BY <1>1, <2>1 DEF Inv, TypeOK
      <2>5. toRemote' \in Seq(ReplyMessage)
            BY <1>1, <2>1, Replied DEF Inv, Msg, ReplyMessage
      <2>6. /\ loop' \in [at : LoopAt, id : Transfers \cup {None}, ok : BOOLEAN,
                          after : {"read", "terminate"}, data : Block \cup {None}]
            /\ loop'.at = "signal" /\ loop'.id = t /\ loop'.ok = ok
            BY <1>1, <2>1, <2>2, Completes
      <2>7. TypeOK'
            BY <1>1, <2>1, <2>3, <2>4, <2>5, <2>6 DEF Inv, TypeOK
      <2>8. Sound(t, y, loop')
            BY <1>1, <2>2, <2>3 DEF Sound
      <2>9. LoopAgrees' /\ StuckOnlyOnDeadTransfer'
            BY <2>2, <2>3, <2>4, <2>6 DEF LoopAgrees, StuckOnlyOnDeadTransfer
      <2> QED BY <1>1, <2>1, <2>3, <2>4, <2>7, <2>8, <2>9, TheLoop
<1> QED BY <1>2, <1>3

\* Transfer.Complete, called by the loop (transfer.go:70-86), hands the result over
\* if the download waits, and finishes the transfer.
LEMMA CompleteStep ==
    ASSUME Inv, UNCHANGED closer, CompleteSignals \/ CompleteFinishes
    PROVE  Inv'
<1> DEFINE t == loop.id
           x == xfer[t]
<1>1. /\ t \in Transfers /\ x \in Transfer /\ Sound(t, x, loop)
      /\ loop.at \in {"signal", "finish"}
      BY InvOfParts DEF Inv, TypeOK, CompleteSignals, CompleteFinishes
<1>2. CASE CompleteSignals
      <2> DEFINE y == Signalled(x, loop.ok)
      <2>1. /\ loop.at = "signal"
            /\ xfer' = [xfer EXCEPT ![t] = y]
            /\ loop' = [loop EXCEPT !.at = "finish"]
            /\ UNCHANGED <<table, toLocal, toRemote, up>>
            BY <1>1, <1>2 DEF CompleteSignals, Inv, TypeOK
      <2>2. /\ y \in Transfer /\ (y.worker \in Active <=> x.worker \in Active)
            /\ y.result = "ok" => x.result = "ok" \/ loop.ok
            /\ y.result = "none" <=> y.worker \in Open
            /\ y.accepted = x.accepted /\ y.against = x.against /\ y.hashed = x.hashed /\ y.received = x.received
            /\ y.timer = x.timer /\ y.finished = x.finished /\ y.expiry = x.expiry
            /\ y.file = x.file
            BY <1>1 DEF Transfer, Signalled, Active, Open, Sound
      <2>3. loop.ok => x.accepted = x.hashed /\ x.against \in {None, x.hashed}
            BY <2>1 DEF Inv, LoopAgrees
      <2>4. loop'.at = "finish" /\ loop'.id = t
            BY <2>1 DEF Inv, TypeOK
      <2>5. Sound(t, y, loop')
            BY <1>1, <2>2, <2>3, <2>4 DEF Sound
      <2>6. TypeOK'
            BY <1>1, <2>1, <2>2 DEF Inv, TypeOK, LoopAt
      <2>7. LoopAgrees' /\ StuckOnlyOnDeadTransfer'
            BY <2>4 DEF LoopAgrees, StuckOnlyOnDeadTransfer
      <2> QED BY <1>1, <2>1, <2>2, <2>5, <2>6, <2>7, TheLoop
<1>3. CASE CompleteFinishes
      <2> DEFINE y == [x EXCEPT !.finished = TRUE, !.timer = Stopped(x)]
      <2>1. /\ loop.at = "finish"
            /\ xfer' = [xfer EXCEPT ![t] = y]
            /\ loop' \in {[loop EXCEPT !.at = "stuck"], Reading}
            /\ UNCHANGED <<table, toLocal, up>>
            BY <1>1, <1>3 DEF CompleteFinishes, Inv, TypeOK
      <2>2. /\ y \in Transfer /\ y.finished /\ y.worker = x.worker /\ y.result = x.result
            /\ y.accepted = x.accepted /\ y.against = x.against /\ y.hashed = x.hashed /\ y.received = x.received
            /\ y.file = x.file
            BY <1>1 DEF Transfer, Stopped
      <2>3. toRemote' \in Seq(ReplyMessage)
            <3>1. CASE ~ClearBlocks(x) /\ loop.after = "terminate"
                  BY <1>1, <1>3, <3>1, Replied DEF Inv, CompleteFinishes, Msg, ReplyMessage
            <3>2. CASE ~(~ClearBlocks(x) /\ loop.after = "terminate")
                  BY <1>3, <3>2 DEF Inv, TypeOK, CompleteFinishes
            <3> QED BY <3>1, <3>2
      <2>4. TypeOK'
            <3>1. xfer' \in [Transfers -> Transfer]
                  BY <1>1, <2>1, <2>2 DEF Inv, TypeOK
            <3>2. /\ loop' \in [at : LoopAt, id : Transfers \cup {None}, ok : BOOLEAN,
                                after : {"read", "terminate"}, data : Block \cup {None}]
                  /\ loop'.at \in {"stuck", "read"}
                  <4> DEFINE Typed(l) ==
                          l \in [at : LoopAt, id : Transfers \cup {None}, ok : BOOLEAN,
                                after : {"read", "terminate"}, data : Block \cup {None}]
                  <4>1. Typed(loop)
                        BY DEF Inv, TypeOK
                  <4>2. /\ Typed([loop EXCEPT !.at = "stuck"])
                        /\ [loop EXCEPT !.at = "stuck"].at = "stuck"
                        BY <4>1 DEF LoopAt
                  <4>3. Typed(Reading) /\ Reading.at = "read"
                        BY DEF Reading, LoopAt
                  <4> QED BY <2>1, <4>2, <4>3
            <3> QED BY <2>1, <2>3, <3>1, <3>2 DEF Inv, TypeOK
      <2>5. Sound(t, y, loop')
            BY <1>1, <2>2 DEF Sound
      <2>6. xfer'[t] = y
            BY <1>1, <2>1 DEF Inv, TypeOK
      <2>7. /\ loop'.at \in {"stuck", "read"}
            /\ loop'.at = "stuck" => loop'.id = t
            BY <2>1 DEF Inv, TypeOK, Reading
      <2>8. LoopAgrees' /\ StuckOnlyOnDeadTransfer'
            BY <2>2, <2>6, <2>7 DEF LoopAgrees, StuckOnlyOnDeadTransfer
      <2> QED BY <1>1, <2>1, <2>2, <2>4, <2>5, <2>8, TheLoop
<1> QED BY <1>2, <1>3

\* A Disconnect goes from one position to another.
LEMMA Moved ==
    ASSUME Inv, NEW c \in Disconnecters, NEW at \in CloserAt, NEW t \in Transfers \cup {None},
           at \in {"signal", "finish", "stuck", "removing"} => t \in Transfers, Moves(c, at, t)
    PROVE  /\ closer' \in [Disconnecters ->
                      [at : CloserAt, id : Transfers \cup {None}, unseen : SUBSET Shards]]
           /\ \A d \in Disconnecters :
                 closer'[d].at \in {"signal", "finish", "stuck", "removing"}
                    => closer'[d].id \in Transfers
<1> DEFINE r == [closer[c] EXCEPT !.at = at, !.id = t]
<1>1. /\ closer \in [Disconnecters ->
                      [at : CloserAt, id : Transfers \cup {None}, unseen : SUBSET Shards]]
      /\ \A d \in Disconnecters :
            closer[d].at \in {"signal", "finish", "stuck", "removing"} => closer[d].id \in Transfers
      BY DEF Inv, TypeOK
<1>2. closer' = [closer EXCEPT ![c] = r]
      BY <1>1 DEF Moves
<1>3. /\ r \in [at : CloserAt, id : Transfers \cup {None}, unseen : SUBSET Shards]
      /\ r.at = at /\ r.id = t
      BY <1>1
<1> HIDE DEF r
<1> QED BY <1>1, <1>2, <1>3

\* What ends a session: the loop's last step, and the Disconnects of the loop and
\* of other goroutines (remote_peer.go:189-202, 431-446; local_peer.go:524-533).
LEMMA EndsStep ==
    ASSUME Inv, Ends
    PROVE  Inv'
<1>0. /\ UNCHANGED <<table, toLocal, toRemote>>
      /\ "loop" \in Disconnecters /\ Closers \subseteq Disconnecters
      /\ xfer \in [Transfers -> Transfer]
      /\ table = {u \in Transfers : xfer[u].worker \in Active}
      BY DEF Ends, Disconnecters, Inv, TypeOK, TableMatchesDownloads
<1>1. ASSUME UNCHANGED <<xfer, loop>>, up' \in BOOLEAN,
             /\ closer' \in [Disconnecters ->
                      [at : CloserAt, id : Transfers \cup {None}, unseen : SUBSET Shards]]
             /\ \A d \in Disconnecters :
                 closer'[d].at \in {"signal", "finish", "stuck", "removing"}
                    => closer'[d].id \in Transfers
      PROVE  Inv'
      <2>1. TypeOK'
            BY <1>0, <1>1 DEF Inv, TypeOK
      <2> QED BY <1>0, <1>1, <2>1 DEF Inv, TableMatchesDownloads, SuccessIsVerified, NeverTooMuch,
              StuckOnlyOnDeadTransfer, LoopAgrees, TransfersAgree
<1>2. ASSUME ReceiveFails
      PROVE  Inv'
      <2>1. /\ loop' = [loop EXCEPT !.at = "ended"] /\ loop.at = "read"
            /\ Moves("loop", "sweep", None) /\ UNCHANGED <<xfer, up>>
            BY <1>2 DEF ReceiveFails
      <2>2. TypeOK'
            <3>1. /\ closer' \in [Disconnecters ->
                         [at : CloserAt, id : Transfers \cup {None}, unseen : SUBSET Shards]]
                  /\ \A d \in Disconnecters :
                        closer'[d].at \in {"signal", "finish", "stuck", "removing"}
                           => closer'[d].id \in Transfers
                  BY <1>0, <2>1, Moved DEF CloserAt
            <3> QED BY <1>0, <2>1, <3>1 DEF Inv, TypeOK, LoopAt
      <2>3. StuckOnlyOnDeadTransfer' /\ LoopAgrees'
            BY <2>1 DEF Inv, TypeOK, StuckOnlyOnDeadTransfer, LoopAgrees
      <2> QED BY <1>0, <2>1, <2>2, <2>3, LoopAlone
<1>3. ASSUME NEW c \in Closers, CallDisconnect(c)
      PROVE  Inv'
      <2>1. Moves(c, "sweep", None) /\ UNCHANGED <<xfer, loop, up>>
            BY <1>3 DEF CallDisconnect
      <2>2. up' \in BOOLEAN
            BY <2>1 DEF Inv, TypeOK
      <2> QED BY <1>0, <1>1, <2>1, <2>2, Moved DEF CloserAt
<1>4. ASSUME NEW c \in Disconnecters, Disconnect(c)
      PROVE  Inv'
      <2>1. ASSUME NEW s \in Shards, DisconnectPasses(c, s)
            PROVE  Inv'
            <3>1. /\ closer' = [closer EXCEPT ![c].unseen = @ \ {s}]
                  /\ UNCHANGED <<xfer, loop, up>>
                  BY <2>1 DEF DisconnectPasses
            <3>2. up' \in BOOLEAN
                  BY <3>1 DEF Inv, TypeOK
            <3>3. /\ closer' \in [Disconnecters ->
                         [at : CloserAt, id : Transfers \cup {None}, unseen : SUBSET Shards]]
                  /\ \A d \in Disconnecters : closer'[d].at = closer[d].at /\ closer'[d].id = closer[d].id
                  BY <3>1 DEF Inv, TypeOK
            <3>4. \A d \in Disconnecters :
                      closer'[d].at \in {"signal", "finish", "stuck", "removing"}
                         => closer'[d].id \in Transfers
                  BY <3>3 DEF Inv, TypeOK
            <3> QED BY <1>1, <3>1, <3>2, <3>3, <3>4
      <2>2. ASSUME NEW t \in Transfers, DisconnectFinds(c, t)
            PROVE  Inv'
            <3>1. Moves(c, "signal", t) /\ UNCHANGED <<xfer, loop, up>>
                  BY <2>2 DEF DisconnectFinds
            <3>2. up' \in BOOLEAN
                  BY <3>1 DEF Inv, TypeOK
            <3> QED BY <1>1, <3>1, <3>2, Moved DEF CloserAt
      <2>3. ASSUME CloseConnection(c)
            PROVE  Inv'
            <3>1. Moves(c, "closed", None) /\ UNCHANGED <<xfer, loop>> /\ up' \in BOOLEAN
                  BY <2>3 DEF CloseConnection
            <3> QED BY <1>1, <3>1, Moved DEF CloserAt
      <2> DEFINE t == closer[c].id
                 x == xfer[t]
      <2>4. ASSUME DisconnectSignals(c)
            PROVE  Inv'
            <3> DEFINE y == Signalled(x, FALSE)
            <3>1. /\ t \in Transfers /\ x \in Transfer
                  /\ x.result = "none" <=> x.worker \in Open
                  BY <2>4 DEF Inv, TypeOK, TransfersAgree, DisconnectSignals, Open
            <3>2. /\ xfer' = [xfer EXCEPT ![t] = y]
                  /\ Moves(c, "finish", t) /\ UNCHANGED <<loop, up>>
                  BY <2>4 DEF DisconnectSignals
            <3>3. y \in Transfer /\ Spares(x, y) /\ (y.worker \in Active <=> x.worker \in Active)
                  BY <3>1 DEF Signalled, Transfer, Active, Open, Spares
            <3>4. table' = {u \in Transfers : xfer'[u].worker \in Active}
                  BY <1>0, <3>1, <3>2, <3>3
            <3>5. TypeOK'
                  <4>1. /\ closer' \in [Disconnecters ->
                               [at : CloserAt, id : Transfers \cup {None}, unseen : SUBSET Shards]]
                        /\ \A d \in Disconnecters :
                              closer'[d].at \in {"signal", "finish", "stuck", "removing"}
                                 => closer'[d].id \in Transfers
                        BY <3>1, <3>2, Moved DEF CloserAt
                  <4>2. xfer' \in [Transfers -> Transfer]
                        BY <1>0, <3>1, <3>2, <3>3
                  <4> QED BY <1>0, <3>2, <4>1, <4>2 DEF Inv, TypeOK
            <3> QED BY <3>1, <3>2, <3>3, <3>4, <3>5, BesideTheLoop
      <2>5. ASSUME DisconnectFinishes(c)
            PROVE  Inv'
            <3> DEFINE y == [x EXCEPT !.finished = TRUE, !.timer = Stopped(x)]
                       at == IF ClearBlocks(x) THEN "stuck" ELSE "removing"
            <3>1. /\ t \in Transfers /\ x \in Transfer
                  /\ x.result = "none" <=> x.worker \in Open
                  BY <2>5 DEF Inv, TypeOK, TransfersAgree, DisconnectFinishes, Open
            <3>2. /\ xfer' = [xfer EXCEPT ![t] = y]
                  /\ Moves(c, at, t) /\ UNCHANGED <<loop, up>>
                  BY <1>0, <3>1, <2>5 DEF DisconnectFinishes
            <3>3. y \in Transfer /\ Spares(x, y) /\ (y.worker \in Active <=> x.worker \in Active)
                  BY <3>1 DEF Stopped, Transfer, Active, Open, Spares
            <3>4. table' = {u \in Transfers : xfer'[u].worker \in Active}
                  BY <1>0, <3>1, <3>2, <3>3
            <3>5. TypeOK'
                  <4>1. /\ closer' \in [Disconnecters ->
                               [at : CloserAt, id : Transfers \cup {None}, unseen : SUBSET Shards]]
                        /\ \A d \in Disconnecters :
                              closer'[d].at \in {"signal", "finish", "stuck", "removing"}
                                 => closer'[d].id \in Transfers
                        BY <3>1, <3>2, Moved DEF CloserAt
                  <4>2. xfer' \in [Transfers -> Transfer]
                        BY <1>0, <3>1, <3>2, <3>3
                  <4> QED BY <1>0, <3>2, <4>1, <4>2 DEF Inv, TypeOK
            <3> QED BY <3>1, <3>2, <3>3, <3>4, <3>5, BesideTheLoop
      <2> QED BY <1>4, <2>1, <2>2, <2>3, <2>4, <2>5 DEF Disconnect
<1> QED BY <1>2, <1>3, <1>4 DEF Ends

-----------------------------------------------------------------------------
\* Whatever the remote sends is a message.
LEMMA RemoteMessages == RemoteMessage \subseteq Message
<1>1. ASSUME NEW sum \in Sums \cup {None}
      PROVE  sum \in Seq(Block) \cup {None}
      BY <1>1, BoundAssumption DEF Sums
<1> QED BY <1>1, BoundAssumption DEF RemoteMessage, Message, Start, DataBlock, Finalize, Msg

\* The remote and the network touch no transfer.
LEMMA OutsideStep ==
    ASSUME Inv, UNCHANGED closer, Remote \/ ConnectionBreaks
    PROVE  Inv'
<1>1. UNCHANGED <<xfer, table, loop>>
      BY DEF Remote, RemoteSends, RemoteReads, ConnectionBreaks
<1>2. toLocal' \in Seq(Message) /\ toRemote' \in Seq(ReplyMessage) /\ up' \in BOOLEAN
      <2>1. toLocal \in Seq(Message) /\ toRemote \in Seq(ReplyMessage) /\ up \in BOOLEAN
            BY DEF Inv, TypeOK
      <2>2. ASSUME NEW m \in RemoteMessage, RemoteSends(m)
            PROVE  toLocal' \in Seq(Message) /\ UNCHANGED <<toRemote, up>>
            <3>1. m \in Message
                  BY <2>2, RemoteMessages
            <3> QED BY <2>1, <2>2, <3>1 DEF RemoteSends
      <2>3. ASSUME RemoteReads
            PROVE  toRemote' \in Seq(ReplyMessage) /\ UNCHANGED <<toLocal, up>>
            BY <2>1, <2>3 DEF RemoteReads
      <2>4. ASSUME ConnectionBreaks
            PROVE  up' \in BOOLEAN /\ UNCHANGED <<toLocal, toRemote>>
            BY <2>4 DEF ConnectionBreaks
      <2>5. Remote => (\E m \in RemoteMessage : RemoteSends(m)) \/ RemoteReads
            BY DEF Remote
      <2> QED BY <2>1, <2>2, <2>3, <2>4, <2>5
<1>3. TypeOK'
      BY <1>1, <1>2 DEF Inv, TypeOK
<1> QED BY <1>1, <1>3 DEF Inv, TableMatchesDownloads, SuccessIsVerified, NeverTooMuch,
        StuckOnlyOnDeadTransfer, LoopAgrees, TransfersAgree

LEMMA NextInv == Inv /\ [Next]_vars => Inv'
<1> SUFFICES ASSUME Inv, [Next]_vars
             PROVE  Inv'
    OBVIOUS
<1>1. CASE Beside(Local)
      BY <1>1, MessageStep, ResponseStep, WriteStep, FinalizeStep, CompleteStep, WorkerStep,
         TimerStep, OutsideStep DEF Beside, Local, Loop
<1>2. CASE Beside(Remote) \/ Ends
      BY <1>2, OutsideStep, EndsStep DEF Beside
<1>3. CASE UNCHANGED vars
      BY <1>3 DEF vars, Inv, TypeOK, TableMatchesDownloads, SuccessIsVerified, NeverTooMuch,
         StuckOnlyOnDeadTransfer, LoopAgrees, TransfersAgree
<1> QED BY <1>1, <1>2, <1>3 DEF Next

\* The receiving side of transfers is sound whatever a remote sends, in any order,
\* with a checksum or without, and whoever disconnects meanwhile, for any number of
\* transfers (remote_peer.go:189-202, 494-574, transfer.go:70-171).
THEOREM Safety == Spec => []Inv
BY InitInv, NextInv, PTL DEF Spec

\* A download succeeds only with the data that Verify accepted, and that is the
\* data of the checksum if one came (transfer.go:120-155).
THEOREM Success == Spec => []SuccessIsVerified
<1>1. Inv => SuccessIsVerified
      BY DEF Inv
<1> QED BY <1>1, Safety, PTL

\* No more than the expected amount is ever taken.
THEOREM Size == Spec => []NeverTooMuch
<1>1. Inv => NeverTooMuch
      BY DEF Inv
<1> QED BY <1>1, Safety, PTL

\* The loop hangs in clearDataTimer only on a transfer that is dead already.
THEOREM Stuck == Spec => []StuckOnlyOnDeadTransfer
<1>1. Inv => StuckOnlyOnDeadTransfer
      BY DEF Inv
<1> QED BY <1>1, Safety, PTL

-----------------------------------------------------------------------------
\* No step gives a download a second result: whoever completes a transfer finds
\* its waiter, or the result is lost.
LEMMA ResultStep ==
    ASSUME Inv, [Next]_vars, NEW t \in Transfers, xfer[t].result # "none"
    PROVE  xfer'[t].result = xfer[t].result
<1>1. /\ xfer \in [Transfers -> Transfer]
      /\ xfer[t].worker \notin {"idle", "created", "asking", "agreed", "waiting"}
      BY DEF Inv, TypeOK, TransfersAgree
<1>2. \A ok \in BOOLEAN : Signalled(xfer[t], ok) = xfer[t]
      BY <1>1 DEF Signalled
<1>3. ASSUME NEW u \in Transfers, CreateInboundTransfer(u) \/ Worker(u)
      PROVE  xfer'[t].result = xfer[t].result
      <2>1. CASE CreateInboundTransfer(u)
            BY <1>1, <2>1 DEF CreateInboundTransfer, Transfer
      <2>2. CASE SendServiceRequest(u) \/ EnterWait(u)
            BY <1>1, <2>2 DEF SendServiceRequest, EnterWait, Transfer
      <2>3. CASE ServiceRequestTimesOut(u)
            BY <1>1, <2>3 DEF ServiceRequestTimesOut, Transfer
      <2>4. CASE RemoveInboundTransfer(u)
            BY <1>1, <2>4 DEF RemoveInboundTransfer, Transfer
      <2> QED BY <1>3, <2>1, <2>2, <2>3, <2>4 DEF Worker
<1>4. ASSUME NEW u \in Transfers, Timer(u)
      PROVE  xfer'[t].result = xfer[t].result
      <2>1. CASE ExpirySignals(u)
            <3>1. xfer' = [xfer EXCEPT ![u] = [Signalled(xfer[u], FALSE) EXCEPT !.expiry = "finish"]]
                  BY <2>1 DEF ExpirySignals
            <3>2. CASE u # t
                  BY <1>1, <3>1, <3>2
            <3>3. CASE u = t
                  <4>1. xfer'[t] = [xfer[t] EXCEPT !.expiry = "finish"]
                        BY <1>1, <1>2, <3>1, <3>3
                  <4> QED BY <1>1, <4>1 DEF Transfer
            <3> QED BY <3>2, <3>3
      <2>2. CASE DataTimerFires(u)
            BY <1>1, <2>2 DEF DataTimerFires, Transfer
      <2>3. CASE ExpiryFinishes(u)
            BY <1>1, <2>3 DEF ExpiryFinishes, Transfer
      <2> QED BY <1>4, <2>1, <2>2, <2>3 DEF Timer
<1>5. ASSUME NEW taken \in BOOLEAN, HandleServiceResponse(taken)
      PROVE  xfer'[t].result = xfer[t].result
      BY <1>1, <1>5 DEF HandleServiceResponse, Transfer
<1>6. CASE CompleteSignals
      <2>1. loop.ok \in BOOLEAN /\ loop.id \in Transfers
            BY <1>6 DEF Inv, TypeOK, CompleteSignals
      <2> QED BY <1>1, <1>2, <1>6, <2>1 DEF CompleteSignals
<1>7. ASSUME NEW u, NEW y, xfer' = [xfer EXCEPT ![u] = y], u = t => y.result = xfer[t].result
      PROVE  xfer'[t].result = xfer[t].result
      BY <1>1, <1>7
<1>8. \A v : /\ [xfer[t] EXCEPT !.received = v].result = xfer[t].result
              /\ [xfer[t] EXCEPT !.timer = v].result = xfer[t].result
              /\ \A w : [xfer[t] EXCEPT !.accepted = v, !.against = w].result = xfer[t].result
       BY <1>1 DEF Transfer
<1>9. CASE WriteChecks \/ ResetClears \/ ResetArms \/ CompleteFinishes \/ HandleDataFinalize
      <2>1. CASE WriteChecks
            <3>1. PICK n :
                  \/ xfer' = xfer
                  \/ xfer' = [xfer EXCEPT ![loop.id] = [xfer[loop.id] EXCEPT !.received = n]]
                  BY <2>1 DEF WriteChecks
            <3>2. loop.id = t => [xfer[loop.id] EXCEPT !.received = n].result = xfer[t].result
                  BY <1>8
            <3> QED BY <1>7, <3>1, <3>2
      <2>2. CASE ResetClears \/ ResetArms
            <3>1. PICK v :
                  \/ xfer' = xfer
                  \/ xfer' = [xfer EXCEPT ![loop.id] = [xfer[loop.id] EXCEPT !.timer = v]]
                  BY <2>2 DEF ResetClears, ResetArms
            <3>2. loop.id = t => [xfer[loop.id] EXCEPT !.timer = v].result = xfer[t].result
                  BY <1>8
            <3> QED BY <1>7, <3>1, <3>2
      <2>3. CASE CompleteFinishes
            BY <1>1, <2>3 DEF CompleteFinishes, Transfer
      <2>4. CASE HandleDataFinalize
            <3> DEFINE u == Head(toLocal).id
            <3>1. PICK v, w :
                  \/ xfer' = xfer
                  \/ xfer' = [xfer EXCEPT ![u] = [xfer[u] EXCEPT !.accepted = v, !.against = w]]
                  BY <2>4 DEF HandleDataFinalize
            <3>2. u = t => [xfer[u] EXCEPT !.accepted = v, !.against = w].result = xfer[t].result
                  BY <1>8
            <3> QED BY <1>7, <3>1, <3>2
      <2> QED BY <1>9, <2>1, <2>2, <2>3, <2>4
<1>10. ASSUME NEW diskOK \in {TRUE, ~DiskMayFail}, WriteAppends(diskOK)
      PROVE  xfer'[t].result = xfer[t].result
      BY <1>1, <1>10 DEF WriteAppends, Transfer
<1>11. CASE HandleDataStart \/ HandleDataBlock \/ IgnoreDataFailed \/ Remote \/ ConnectionBreaks
              \/ UNCHANGED vars
      BY <1>11 DEF HandleDataStart, HandleDataBlock, IgnoreDataFailed, Remote, RemoteSends,
         RemoteReads, ConnectionBreaks, vars
<1>12. CASE Ends
       <2>1. ASSUME NEW c \in Disconnecters, DisconnectSignals(c)
             PROVE  xfer'[t].result = xfer[t].result
             BY <1>1, <1>2, <2>1 DEF DisconnectSignals
       <2>2. ASSUME NEW c \in Disconnecters, DisconnectFinishes(c)
             PROVE  xfer'[t].result = xfer[t].result
             BY <1>1, <2>2 DEF DisconnectFinishes, Transfer
       <2>3. \/ xfer' = xfer
             \/ \E c \in Disconnecters : DisconnectSignals(c) \/ DisconnectFinishes(c)
             BY <1>12 DEF Ends, ReceiveFails, CallDisconnect, Disconnect, DisconnectPasses,
                DisconnectFinds, CloseConnection
       <2> QED BY <2>1, <2>2, <2>3
<1> QED BY <1>3, <1>4, <1>5, <1>6, <1>9, <1>10, <1>11, <1>12 DEF Next, Beside, Local, Loop

\* A download's result is final, though the loop, the timer's goroutine and
\* every Disconnect may complete the same transfer (transfer.go:70-86).
THEOREM Final == Spec => ResultIsFinal
<1>1. Inv /\ [Next]_vars =>
          [\A t \in Transfers : xfer[t].result # "none" => xfer'[t].result = xfer[t].result]_vars
      BY ResultStep
<1> QED BY <1>1, Safety, PTL DEF Spec, ResultIsFinal

-----------------------------------------------------------------------------
(* Both ends.                                                              *)

\* What was read of a file is its first blocks, and what is left of one that was not
\* cut short begins with the others.
ReadsSource(t, o) ==
    /\ Len(o.sent) <= Len(Source[t])
    /\ \A i \in 1..Len(o.sent) : o.sent[i] = Source[t][i]
    /\ ~o.shrank =>
          /\ Len(o.left) >= Len(Source[t]) - Len(o.sent)
          /\ \A i \in 1..(Len(Source[t]) - Len(o.sent)) : o.left[i] = Source[t][Len(o.sent) + i]
    /\ o.shrank => o.left = <<>> /\ Len(o.sent) < Len(Source[t])

\* What the sender has read is empty until it may send.
OutSound(t, o) ==
    /\ ReadsSource(t, o)
    /\ o.at \in {"idle", "opening", "starting", "awaitGo"} => o.sent = <<>>
    /\ o.at = "sending" => o.go
    /\ o.sent # <<>> => o.go

OutAgrees == \A t \in Transfers : OutSound(t, out[t])

\* A transfer is asked for once, and the sender knows nothing of it until it reads that.
Asks(m, t) == m.type = "ServiceRequest" /\ m.id = t
NoneAsks(t) == \A i \in 1..Len(toRemote) : ~Asks(toRemote[i], t)
AskedOnce(t) == \A i, j \in 1..Len(toRemote) : Asks(toRemote[i], t) /\ Asks(toRemote[j], t) => i = j
Unasked(t) == xfer[t].worker \in {"idle", "created"}

RequestsAgree ==
    /\ NoneAsks(None)
    /\ \A t \in Transfers :
          /\ ~NoneAsks(t) => t \in Requested /\ out[t].at = "idle"
          /\ AskedOnce(t)
          /\ t \in Requested /\ Unasked(t) => NoneAsks(t) /\ out[t].at = "idle"
          /\ xfer[t].worker = "created" => t \in Requested

\* The loop that would take the go-ahead of a requested transfer is busy with the request.
ServingAgrees ==
    \A t \in Requested :
        /\ out[t].at # "sending"
        /\ out[t].at \in {"opening", "starting", "awaitGo"} => server = t

\* A checksum that is on its way, or has verified, is that of all the sender read.
AllSent(t) == t \notin Requested /\ out[t].at = "done" /\ out[t].left = <<>>

FinalizesAgree ==
    \A i \in 1..Len(toLocal) :
        toLocal[i].type = "DataFinalize"
            => AllSent(toLocal[i].id) /\ toLocal[i].sum = out[toLocal[i].id].sent

Claims(t) == xfer[t].result = "ok" \/ (loop.at = "signal" /\ loop.ok /\ loop.id = t)
ResultsAgree == \A t \in Transfers : Claims(t) => AllSent(t) /\ xfer[t].against = out[t].sent

\* FTInv is not inductive: that a success is the sender's needs the checksums that are
\* still on their way, and that no requested transfer sends any needs to know who waits
\* for whom in between.
IFTInv ==
    /\ FTInv
    /\ OutAgrees
    /\ RequestsAgree
    /\ ServingAgrees
    /\ FinalizesAgree
    /\ ResultsAgree

-----------------------------------------------------------------------------
(* The queues.                                                             *)

LEMMA Shorter ==
    ASSUME NEW S, NEW s \in Seq(S), s # <<>>
    PROVE  /\ Len(s) \in Nat /\ Len(s) > 0 /\ Len(Tail(s)) = Len(s) - 1 /\ Head(s) = s[1]
           /\ \A i \in 1..Len(Tail(s)) : i + 1 \in 1..Len(s) /\ Tail(s)[i] = s[i + 1]
<1>1. /\ Len(s) \in Nat /\ Len(s) > 0 /\ Len(Tail(s)) = Len(s) - 1 /\ Head(s) = s[1]
      /\ \A i \in 1..Len(Tail(s)) : Tail(s)[i] = s[i + 1]
      BY HeadTailProperties
<1>2. \A i \in 1..Len(Tail(s)) : i + 1 \in 1..Len(s)
      BY <1>1
<1> QED BY <1>1, <1>2

LEMMA Longer ==
    ASSUME NEW S, NEW s \in Seq(S), NEW m
    PROVE  /\ Len(s) \in Nat /\ Len(Append(s, m)) = Len(s) + 1
           /\ \A i \in 1..Len(Append(s, m)) :
                 \/ i \in 1..Len(s) /\ Append(s, m)[i] = s[i]
                 \/ i = Len(s) + 1 /\ Append(s, m)[i] = m
OBVIOUS

\* What a step may make of the requests on their way.
Shortened == toRemote # <<>> /\ toRemote' = Tail(toRemote)
Lengthened(m) == toRemote' = Append(toRemote, m)

NoNewRequest(t) ==
    \/ UNCHANGED toRemote
    \/ Shortened
    \/ \E m : Lengthened(m) /\ ~Asks(m, t)

LEMMA AsksStep ==
    ASSUME toRemote \in Seq(ReplyMessage), NEW t
    PROVE  /\ NoNewRequest(t) => (NoneAsks(t) => NoneAsks(t)') /\ (AskedOnce(t) => AskedOnce(t)')
           /\ Shortened /\ Asks(Head(toRemote), t) /\ AskedOnce(t) => NoneAsks(t)'
           /\ NoneAsks(t) /\ (\E m : Lengthened(m)) => AskedOnce(t)'
<1>1. ASSUME UNCHANGED toRemote
      PROVE  (NoneAsks(t) => NoneAsks(t)') /\ (AskedOnce(t) => AskedOnce(t)')
      BY <1>1 DEF NoneAsks, AskedOnce
<1>2. ASSUME Shortened
      PROVE  /\ NoneAsks(t) => NoneAsks(t)'
             /\ AskedOnce(t) => AskedOnce(t)'
             /\ Asks(Head(toRemote), t) /\ AskedOnce(t) => NoneAsks(t)'
      <2>1. /\ \A i \in 1..Len(toRemote') : i + 1 \in 1..Len(toRemote) /\ toRemote'[i] = toRemote[i + 1]
            /\ 1 \in 1..Len(toRemote) /\ Head(toRemote) = toRemote[1]
            BY <1>2, Shorter DEF Shortened
      <2>2. NoneAsks(t) => NoneAsks(t)'
            BY <2>1 DEF NoneAsks
      <2>3. ASSUME AskedOnce(t) PROVE AskedOnce(t)'
            BY <2>1, <2>3 DEF AskedOnce
      <2>4. ASSUME Asks(Head(toRemote), t), AskedOnce(t) PROVE NoneAsks(t)'
            <3>1. \A i \in 1..Len(toRemote') : i + 1 # 1
                  OBVIOUS
            <3> QED BY <2>1, <2>4, <3>1 DEF NoneAsks, AskedOnce
      <2> QED BY <2>2, <2>3, <2>4
<1>3. ASSUME NEW m, Lengthened(m)
      PROVE  /\ NoneAsks(t) => AskedOnce(t)'
             /\ ~Asks(m, t) => (NoneAsks(t) => NoneAsks(t)') /\ (AskedOnce(t) => AskedOnce(t)')
      <2>1. \A i \in 1..Len(toRemote') :
               \/ i \in 1..Len(toRemote) /\ toRemote'[i] = toRemote[i]
               \/ i = Len(toRemote) + 1 /\ toRemote'[i] = m
            BY <1>3, Longer DEF Lengthened
      <2> QED BY <2>1 DEF NoneAsks, AskedOnce
<1> QED BY <1>1, <1>2, <1>3 DEF NoNewRequest

\* What it may make of the checksums on theirs: a new one comes from a sender that has
\* read everything, and nothing that was done is undone.
LEMMA FinalizesStep ==
    ASSUME FinalizesAgree, toLocal \in Seq(Message),
           \A t \in Transfers : AllSent(t) => UNCHANGED out[t],
           \/ UNCHANGED toLocal
           \/ toLocal # <<>> /\ toLocal' = Tail(toLocal)
           \/ \E m : /\ toLocal' = Append(toLocal, m)
                     /\ m.type = "DataFinalize" => AllSent(m.id)' /\ m.sum = out'[m.id].sent
    PROVE  FinalizesAgree'
<1> DEFINE o(t) == out'[t]
           Good(m) == m.type = "DataFinalize" =>
                          /\ m.id \notin Requested /\ o(m.id).at = "done" /\ o(m.id).left = <<>>
                          /\ m.sum = o(m.id).sent
<1>1. \A i \in 1..Len(toLocal) : Good(toLocal[i])
      <2> SUFFICES ASSUME NEW i \in 1..Len(toLocal), toLocal[i].type = "DataFinalize"
                   PROVE  Good(toLocal[i])
          OBVIOUS
      <2>1. PICK m \in Message : m = toLocal[i]
            OBVIOUS
      <2>2. m.id \in Transfers /\ AllSent(m.id) /\ m.sum = out[m.id].sent
            BY <2>1, Carried DEF FinalizesAgree
      <2>3. out'[m.id] = out[m.id]
            BY <2>2
      <2> QED BY <2>1, <2>2, <2>3 DEF AllSent
<1>2. \A i \in 1..Len(toLocal') : Good(toLocal'[i])
      <2>1. CASE UNCHANGED toLocal
            BY <1>1, <2>1
      <2>2. CASE toLocal # <<>> /\ toLocal' = Tail(toLocal)
            <3>1. \A i \in 1..Len(toLocal') : i + 1 \in 1..Len(toLocal) /\ toLocal'[i] = toLocal[i + 1]
                  BY <2>2, Shorter
            <3> HIDE DEF Good
            <3> QED BY <1>1, <3>1
      <2>3. ASSUME NEW m, toLocal' = Append(toLocal, m),
                   m.type = "DataFinalize" => AllSent(m.id)' /\ m.sum = out'[m.id].sent
            PROVE  \A i \in 1..Len(toLocal') : Good(toLocal'[i])
            <3>1. \A i \in 1..Len(toLocal') : \/ i \in 1..Len(toLocal) /\ toLocal'[i] = toLocal[i]
                                              \/ toLocal'[i] = m
                  BY <2>3, Longer
            <3>2. Good(m)
                  BY <2>3 DEF AllSent
            <3> HIDE DEF Good
            <3> QED BY <1>1, <3>1, <3>2
      <2> QED BY <2>1, <2>2, <2>3
<1> QED BY <1>2 DEF FinalizesAgree, AllSent

-----------------------------------------------------------------------------
(* The receiver's steps, as the sender's invariants see them.              *)

\* Only a DataFinalize makes a new success, with its checksum for the verified one.
Verified(t) ==
    /\ toLocal # <<>> /\ Head(toLocal).type = "DataFinalize" /\ Head(toLocal).id = t
    /\ xfer'[t].against = Head(toLocal).sum

ReceiverView(t) ==
    /\ Unasked(t)' => Unasked(t)
    /\ xfer'[t].worker = "created" => t \in Requested \/ xfer[t].worker = "created"
    /\ Claims(t)' => \/ Claims(t) /\ xfer'[t].against = xfer[t].against
                     \/ Verified(t)

\* All other steps leave what the view of a transfer x depends on.
Quiet(t, x, y) ==
    /\ y.worker \in {"idle", "created"} => x.worker \in {"idle", "created"}
    /\ y.worker = "created" => t \in Requested \/ x.worker = "created"
    /\ y.result = "ok" => x.result = "ok"
    /\ y.against = x.against

LEMMA QuietStep ==
    ASSUME Inv, NEW u, NEW y, xfer' = [xfer EXCEPT ![u] = y], u \in Transfers => Quiet(u, xfer[u], y),
           loop' = loop \/ loop'.at # "signal" \/ ~loop'.ok, NEW t \in Transfers
    PROVE  ReceiverView(t)
<1>1. xfer \in [Transfers -> Transfer]
      BY DEF Inv, TypeOK
<1>2. xfer'[t] = xfer[t] \/ Quiet(t, xfer[t], xfer'[t])
      BY <1>1
<1> QED BY <1>2 DEF ReceiverView, Unasked, Claims, Quiet

LEMMA ViewsOfWorker ==
    ASSUME Inv, NEW u \in Transfers, CreateInboundTransfer(u) \/ Worker(u) \/ Timer(u), NEW t \in Transfers
    PROVE  ReceiverView(t)
<1>1. xfer \in [Transfers -> Transfer] /\ xfer[u] \in Transfer
      BY DEF Inv, TypeOK
<1>2. UNCHANGED loop
      BY DEF CreateInboundTransfer, Worker, SendServiceRequest, ServiceRequestTimesOut, EnterWait,
         RemoveInboundTransfer, Timer, DataTimerFires, ExpirySignals, ExpiryFinishes
<1>3. \E y : xfer' = [xfer EXCEPT ![u] = y] /\ Quiet(u, xfer[u], y)
      <2> USE <1>1 DEF Quiet
      <2>1. ASSUME NEW at \in {"created", "agreed", "asking", "waiting", "done"},
                   xfer' = [xfer EXCEPT ![u].worker = at], at = "created" => u \in Requested /\ xfer[u].worker = "idle"
            PROVE  \E y : xfer' = [xfer EXCEPT ![u] = y] /\ Quiet(u, xfer[u], y)
            <3> DEFINE y == [xfer[u] EXCEPT !.worker = at]
            <3>1. xfer' = [xfer EXCEPT ![u] = y]
                  BY <2>1
            <3>2. Quiet(u, xfer[u], y)
                  BY <2>1 DEF Transfer
            <3> QED BY <3>1, <3>2
      <2>2. CASE ServiceRequestTimesOut(u)
            <3> DEFINE y == [xfer[u] EXCEPT !.worker = "leaving", !.result = "failed"]
            <3>1. xfer' = [xfer EXCEPT ![u] = y]
                  BY <2>2 DEF ServiceRequestTimesOut
            <3>2. Quiet(u, xfer[u], y)
                  BY <2>2 DEF Transfer
            <3> QED BY <3>1, <3>2
      <2>3. CASE DataTimerFires(u)
            <3> DEFINE y == [xfer[u] EXCEPT !.timer = "spent", !.expiry = "signal"]
            <3>1. xfer' = [xfer EXCEPT ![u] = y]
                  BY <2>3 DEF DataTimerFires
            <3>2. Quiet(u, xfer[u], y)
                  BY DEF Transfer
            <3> QED BY <3>1, <3>2
      <2>4. CASE ExpirySignals(u)
            <3> DEFINE y == [Signalled(xfer[u], FALSE) EXCEPT !.expiry = "finish"]
            <3>1. xfer' = [xfer EXCEPT ![u] = y]
                  BY <2>4 DEF ExpirySignals
            <3>2. Quiet(u, xfer[u], y)
                  BY DEF Transfer, Signalled
            <3> QED BY <3>1, <3>2
      <2>5. CASE ExpiryFinishes(u)
            <3> DEFINE y == [xfer[u] EXCEPT !.finished = TRUE, !.expiry = "leaked"]
            <3>1. xfer' = [xfer EXCEPT ![u] = y]
                  BY <2>5 DEF ExpiryFinishes
            <3>2. Quiet(u, xfer[u], y)
                  BY DEF Transfer
            <3> QED BY <3>1, <3>2
      <2>6. CASE CreateInboundTransfer(u)
            BY <2>1, <2>6 DEF CreateInboundTransfer
      <2>7. CASE SendServiceRequest(u) \/ EnterWait(u) \/ RemoveInboundTransfer(u)
            BY <2>1, <2>7 DEF SendServiceRequest, EnterWait, RemoveInboundTransfer
      <2> QED BY <2>2, <2>3, <2>4, <2>5, <2>6, <2>7 DEF Worker, Timer
<1> QED BY <1>2, <1>3, QuietStep

LEMMA ViewsOfLoop ==
    ASSUME Inv, Loop \/ ConnectionBreaks, NEW t \in Transfers
    PROVE  ReceiverView(t)
<1>0. /\ xfer \in [Transfers -> Transfer]
      /\ loop \in [at : LoopAt, id : Transfers \cup {None}, ok : BOOLEAN,
                   after : {"read", "terminate"}, data : Block \cup {None}]
      BY DEF Inv, TypeOK
<1>1. ASSUME UNCHANGED xfer, loop' = loop \/ loop'.at # "signal" \/ ~loop'.ok PROVE ReceiverView(t)
      BY <1>1 DEF ReceiverView, Unasked, Claims
<1>2. CASE HandleDataStart \/ IgnoreDataFailed \/ ConnectionBreaks
      <2>1. UNCHANGED xfer
            BY <1>2 DEF HandleDataStart, IgnoreDataFailed, ConnectionBreaks
      <2>2. loop' = loop \/ loop'.at # "signal" \/ ~loop'.ok
            <3>1. CASE HandleDataStart
                  <4>1. loop' = loop \/ Completing(Head(toLocal).id, FALSE, "terminate")
                        BY <3>1 DEF HandleDataStart
                  <4> QED BY <4>1 DEF Completing, Reading
            <3> QED BY <1>2, <3>1 DEF IgnoreDataFailed, ConnectionBreaks
      <2> QED BY <1>1, <2>1, <2>2
<1>3. CASE HandleDataBlock
      <2>1. UNCHANGED xfer /\ loop'.at # "signal"
            BY <1>3 DEF HandleDataBlock, Reading
      <2> QED BY <1>1, <2>1
<1>4. CASE HandleDataFinalize
      <2> DEFINE m == Head(toLocal)
                 ok == Verifies(m.id, m.sum)
                 y == [xfer[m.id] EXCEPT !.accepted = IF ok THEN xfer[m.id].hashed ELSE @,
                                         !.against = IF ok THEN m.sum ELSE @]
      <2>1. CASE m.id \notin table
            BY <1>1, <1>4, <2>1 DEF HandleDataFinalize
      <2>2. CASE m.id \in table
            <3>1. /\ toLocal # <<>> /\ m.type = "DataFinalize" /\ loop.at = "read"
                  /\ Completing(m.id, ok, "read") /\ xfer' = [xfer EXCEPT ![m.id] = y]
                  BY <1>4, <2>2 DEF HandleDataFinalize, Receives
            <3>2. loop'.id = m.id /\ loop'.ok = ok
                  BY <3>1 DEF Completing, Reading
            <3> HIDE DEF m, ok, y
            <3>3. CASE t # m.id
                  BY <1>0, <3>1, <3>2, <3>3 DEF ReceiverView, Unasked, Claims
            <3>4. CASE t = m.id
                  <4>1. xfer'[t] = y /\ xfer[t] \in Transfer
                        BY <1>0, <3>1, <3>4
                  <4>2. y.worker = xfer[t].worker /\ y.result = xfer[t].result
                        BY <3>4, <4>1 DEF y, Transfer
                  <4>3. y.against = IF ok THEN m.sum ELSE xfer[t].against
                        BY <3>4, <4>1 DEF y, Transfer
                  <4>4. /\ Unasked(t)' => Unasked(t)
                        /\ xfer'[t].worker = "created" => xfer[t].worker = "created"
                        BY <4>1, <4>2 DEF Unasked
                  <4>5. CASE ok
                        <5>1. Verified(t)
                              BY <3>1, <3>4, <4>1, <4>3, <4>5 DEF Verified, m
                        <5> QED BY <4>4, <5>1 DEF ReceiverView
                  <4>6. CASE ~ok
                        BY <3>1, <3>2, <4>1, <4>2, <4>3, <4>4, <4>6 DEF ReceiverView, Claims
                  <4> QED BY <4>5, <4>6
            <3> QED BY <3>3, <3>4
      <2> QED BY <2>1, <2>2
<1>5. ASSUME NEW taken \in BOOLEAN, HandleServiceResponse(taken) PROVE ReceiverView(t)
      <2> DEFINE u == Head(toLocal).id
                 a == [xfer[u] EXCEPT !.worker = "agreed"]
                 b == [xfer[u] EXCEPT !.worker = "leaving", !.result = "failed"]
      <2>1. /\ UNCHANGED loop
            /\ xfer' = xfer \/ xfer' = [xfer EXCEPT ![u] = a] \/ xfer' = [xfer EXCEPT ![u] = b]
            BY <1>5 DEF HandleServiceResponse
      <2>2. u \in Transfers => Quiet(u, xfer[u], a) /\ Quiet(u, xfer[u], b)
            BY <1>0 DEF Quiet, Transfer
      <2> HIDE DEF u, a, b
      <2> QED BY <1>1, <2>1, <2>2, QuietStep
<1>6. CASE WriteChecks
      <2> DEFINE u == loop.id
                 y == [xfer[u] EXCEPT !.received = xfer[u].received + 1]
      <2>1. loop.at = "write" /\ (xfer' = xfer \/ xfer' = [xfer EXCEPT ![u] = y])
            BY <1>6 DEF WriteChecks
      <2>2. loop'.at # "signal"
            BY <1>0, <1>6 DEF WriteChecks
      <2>3. u \in Transfers => Quiet(u, xfer[u], y)
            BY <1>0 DEF Quiet, Transfer
      <2> HIDE DEF u, y
      <2> QED BY <1>1, <2>1, <2>2, <2>3, QuietStep
<1>7. ASSUME NEW diskOK \in BOOLEAN, WriteAppends(diskOK) PROVE ReceiverView(t)
      <2> DEFINE u == loop.id
                 y == [xfer[u] EXCEPT !.hashed = Append(@, loop.data),
                                      !.file = IF diskOK THEN Append(@, loop.data) ELSE @]
      <2>1. xfer' = [xfer EXCEPT ![u] = y]
            BY <1>7 DEF WriteAppends
      <2>2. loop'.at # "signal"
            BY <1>0, <1>7 DEF WriteAppends
      <2>3. u \in Transfers => Quiet(u, xfer[u], y)
            BY <1>0 DEF Quiet, Transfer
      <2> HIDE DEF u, y
      <2> QED BY <2>1, <2>2, <2>3, QuietStep
<1>8. CASE ResetClears \/ ResetArms
      <2> DEFINE u == loop.id
                 y(v) == [xfer[u] EXCEPT !.timer = v]
      <2>1. xfer' = xfer \/ \E v : xfer' = [xfer EXCEPT ![u] = y(v)]
            BY <1>8 DEF ResetClears, ResetArms
      <2>2. loop'.at # "signal"
            BY <1>0, <1>8 DEF ResetClears, ResetArms, Reading
      <2>3. \A v : u \in Transfers => Quiet(u, xfer[u], y(v))
            BY <1>0 DEF Quiet, Transfer
      <2> HIDE DEF u, y
      <2> QED BY <1>1, <2>1, <2>2, <2>3, QuietStep
<1>9. CASE CompleteSignals
      <2>1. /\ loop.at = "signal" /\ xfer' = [xfer EXCEPT ![loop.id] = Signalled(xfer[loop.id], loop.ok)]
            /\ loop' = [loop EXCEPT !.at = "finish"]
            BY <1>9 DEF CompleteSignals
      <2>2. loop'.at = "finish"
            BY <1>0, <2>1
      <2>3. CASE t # loop.id
            BY <1>0, <2>1, <2>2, <2>3 DEF ReceiverView, Unasked, Claims
      <2>4. CASE t = loop.id
            <3>1. xfer'[t] = Signalled(xfer[t], loop.ok) /\ xfer[t] \in Transfer
                  BY <1>0, <2>1, <2>4
            <3>2. /\ xfer'[t].worker \in {"idle", "created"} => xfer[t].worker \in {"idle", "created"}
                  /\ xfer'[t].worker = "created" => xfer[t].worker = "created"
                  /\ xfer'[t].against = xfer[t].against
                  /\ xfer'[t].result = "ok" => xfer[t].result = "ok" \/ loop.ok
                  BY <3>1 DEF Signalled, Transfer
            <3> QED BY <2>1, <2>2, <2>4, <3>2 DEF ReceiverView, Unasked, Claims
      <2> QED BY <2>3, <2>4
<1>10. CASE CompleteFinishes
      <2> DEFINE u == loop.id
                 y == [xfer[u] EXCEPT !.finished = TRUE, !.timer = Stopped(xfer[u])]
      <2>1. xfer' = [xfer EXCEPT ![u] = y]
            BY <1>10 DEF CompleteFinishes
      <2>2. loop'.at # "signal"
            BY <1>0, <1>10 DEF CompleteFinishes, Reading
      <2>3. u \in Transfers => Quiet(u, xfer[u], y)
            BY <1>0 DEF Quiet, Transfer
      <2> HIDE DEF u, y
      <2> QED BY <2>1, <2>2, <2>3, QuietStep
<1> QED BY <1>2, <1>3, <1>4, <1>5, <1>6, <1>7, <1>8, <1>9, <1>10, DiskAssumption DEF Loop

\* A Disconnect completes with a failure at best.
LEMMA ViewsOfEnds ==
    ASSUME Inv, Ends, NEW t \in Transfers
    PROVE  ReceiverView(t)
<1>0. /\ xfer \in [Transfers -> Transfer]
      /\ loop \in [at : LoopAt, id : Transfers \cup {None}, ok : BOOLEAN,
                   after : {"read", "terminate"}, data : Block \cup {None}]
      BY DEF Inv, TypeOK
<1>1. loop' = loop \/ loop'.at # "signal"
      <2>1. loop' = loop \/ loop' = [loop EXCEPT !.at = "ended"]
            BY DEF Ends, ReceiveFails, CallDisconnect, Disconnect, DisconnectPasses, DisconnectFinds,
               DisconnectSignals, DisconnectFinishes, CloseConnection
      <2> QED BY <1>0, <2>1
<1>2. CASE UNCHANGED xfer
      BY <1>1, <1>2 DEF ReceiverView, Unasked, Claims
<1>3. ASSUME NEW c \in Disconnecters, DisconnectSignals(c) \/ DisconnectFinishes(c)
      PROVE  ReceiverView(t)
      <2> DEFINE u == closer[c].id
                 a == Signalled(xfer[u], FALSE)
                 b == [xfer[u] EXCEPT !.finished = TRUE, !.timer = Stopped(xfer[u])]
      <2>1. xfer' = [xfer EXCEPT ![u] = a] \/ xfer' = [xfer EXCEPT ![u] = b]
            BY <1>3 DEF DisconnectSignals, DisconnectFinishes
      <2>2. u \in Transfers => Quiet(u, xfer[u], a) /\ Quiet(u, xfer[u], b)
            BY <1>0 DEF Quiet, Transfer, Signalled
      <2> HIDE DEF u, a, b
      <2> QED BY <1>1, <2>1, <2>2, QuietStep
<1>4. \/ UNCHANGED xfer
      \/ \E c \in Disconnecters : DisconnectSignals(c) \/ DisconnectFinishes(c)
      BY DEF Ends, ReceiveFails, CallDisconnect, Disconnect, DisconnectPasses, DisconnectFinds,
         CloseConnection
<1> QED BY <1>2, <1>3, <1>4

\* It takes what the sender sent from the front of its queue, and asks for no
\* transfer but with SendServiceRequest.
LEMMA ReceiverQueues ==
    ASSUME Inv, Local \/ Ends
    PROVE  /\ UNCHANGED toLocal \/ (toLocal # <<>> /\ toLocal' = Tail(toLocal))
           /\ \A t : NoNewRequest(t) \/ (t \in Transfers /\ SendServiceRequest(t))
<1>1. ASSUME NEW m, Reply(m), NEW t, ~Asks(m, t) PROVE NoNewRequest(t)
      BY <1>1 DEF Reply, NoNewRequest, Lengthened
<1>2. ASSUME NEW type, NEW u, Reply(Msg(type, u)), type # "ServiceRequest", NEW t PROVE NoNewRequest(t)
      BY <1>1, <1>2 DEF Asks, Msg
<1>3. ASSUME UNCHANGED toRemote, NEW t PROVE NoNewRequest(t)
      BY <1>3 DEF NoNewRequest
<1>4. CASE HandleDataStart
      <2>1. /\ toLocal # <<>> /\ toLocal' = Tail(toLocal)
            /\ \/ UNCHANGED toRemote
               \/ \E type \in {"DataProceed", "DataTerminate"} : Reply(Msg(type, Head(toLocal).id))
            BY <1>4 DEF HandleDataStart, Receives
      <2> QED BY <1>2, <1>3, <2>1
<1>5. CASE HandleDataFinalize
      <2>1. /\ toLocal # <<>> /\ toLocal' = Tail(toLocal)
            /\ \/ UNCHANGED toRemote
               \/ \E type \in {"Acknowledgment", "DataFailed"} : Reply(Msg(type, Head(toLocal).id))
            BY <1>5 DEF HandleDataFinalize, Receives
      <2> QED BY <1>2, <1>3, <2>1
<1>6. CASE HandleDataBlock \/ IgnoreDataFailed \/ \E taken \in BOOLEAN : HandleServiceResponse(taken)
      <2>1. toLocal # <<>> /\ toLocal' = Tail(toLocal) /\ UNCHANGED toRemote
            BY <1>6 DEF HandleDataBlock, IgnoreDataFailed, HandleServiceResponse, Receives
      <2> QED BY <1>3, <2>1
<1>7. CASE ResetArms \/ CompleteFinishes
      <2>1. /\ UNCHANGED toLocal
            /\ UNCHANGED toRemote \/ \E u : Reply(Msg("DataTerminate", u))
            BY <1>7 DEF ResetArms, CompleteFinishes
      <2> QED BY <1>2, <1>3, <2>1
<1>8. CASE \/ WriteChecks \/ ResetClears \/ CompleteSignals \/ ConnectionBreaks \/ Ends
           \/ \E diskOK \in {TRUE, ~DiskMayFail} : WriteAppends(diskOK)
      <2>1. UNCHANGED <<toLocal, toRemote>>
            BY <1>8 DEF WriteChecks, ResetClears, CompleteSignals, ConnectionBreaks, WriteAppends, Ends
      <2> QED BY <1>3, <2>1
<1>9. ASSUME NEW u \in Transfers, CreateInboundTransfer(u) \/ Worker(u) \/ Timer(u)
      PROVE  UNCHANGED toLocal /\ \A t : NoNewRequest(t) \/ (t \in Transfers /\ SendServiceRequest(t))
      <2>1. CASE SendServiceRequest(u)
            <3>1. UNCHANGED toLocal /\ Reply(Msg("ServiceRequest", u))
                  BY <2>1 DEF SendServiceRequest
            <3>2. \A t : t # u => ~Asks(Msg("ServiceRequest", u), t)
                  BY DEF Asks, Msg
            <3> QED BY <1>1, <2>1, <3>1, <3>2
      <2>2. CASE ~SendServiceRequest(u)
            <3>1. UNCHANGED <<toLocal, toRemote>>
                  BY <1>9, <2>2 DEF CreateInboundTransfer, Worker, ServiceRequestTimesOut, EnterWait,
                     RemoveInboundTransfer, Timer, DataTimerFires, ExpirySignals, ExpiryFinishes
            <3> QED BY <1>3, <3>1
      <2> QED BY <2>1, <2>2
<1> QED BY <1>4, <1>5, <1>6, <1>7, <1>8, <1>9 DEF Local, Loop

\* A step of the receiver keeps the invariant.
LEMMA HereStep ==
    ASSUME IFTInv, UNCHANGED <<out, server>>, Beside(Local) \/ Ends
    PROVE  IFTInv'
<1>0. /\ Inv /\ Snd!OutTypeOK /\ OutAgrees /\ RequestsAgree /\ ServingAgrees
      /\ FinalizesAgree /\ ResultsAgree /\ NoDataBeforeProceed
      /\ toLocal \in Seq(Message) /\ toRemote \in Seq(ReplyMessage)
      BY DEF IFTInv, FTInv, Inv, TypeOK
<1>1. Inv'
      BY <1>0, NextInv DEF Next
<1>2. Snd!OutTypeOK' /\ OutAgrees' /\ ServingAgrees' /\ NoDataBeforeProceed'
      BY <1>0 DEF Snd!OutTypeOK, OutAgrees, ServingAgrees, NoDataBeforeProceed
<1>3. /\ UNCHANGED toLocal \/ (toLocal # <<>> /\ toLocal' = Tail(toLocal))
      /\ \A t : NoNewRequest(t) \/ (t \in Transfers /\ SendServiceRequest(t))
      BY <1>0, ReceiverQueues DEF Beside
<1>4. \A t \in Transfers : ReceiverView(t)
      BY <1>0, ViewsOfWorker, ViewsOfLoop, ViewsOfEnds DEF Beside, Local
<1>5. RequestsAgree'
      <2>0. NoneAsks(None)'
            BY <1>0, <1>3, AsksStep, TransfersAssumption DEF RequestsAgree
      <2> SUFFICES ASSUME NEW t \in Transfers
                   PROVE  /\ ~NoneAsks(t)' => t \in Requested /\ out'[t].at = "idle"
                          /\ AskedOnce(t)'
                          /\ t \in Requested /\ Unasked(t)' => NoneAsks(t)' /\ out'[t].at = "idle"
                          /\ xfer'[t].worker = "created" => t \in Requested
          BY <2>0 DEF RequestsAgree
      <2>1. /\ ~NoneAsks(t) => t \in Requested /\ out[t].at = "idle"
            /\ AskedOnce(t)
            /\ t \in Requested /\ Unasked(t) => NoneAsks(t) /\ out[t].at = "idle"
            /\ xfer[t].worker = "created" => t \in Requested
            BY <1>0 DEF RequestsAgree
      <2>2. /\ Unasked(t)' => Unasked(t)
            /\ xfer'[t].worker = "created" => t \in Requested
            BY <1>4, <2>1 DEF ReceiverView
      <2>3. CASE NoNewRequest(t)
            <3>1. NoneAsks(t) => NoneAsks(t)'
                  BY <1>0, <2>3, AsksStep
            <3>2. AskedOnce(t)'
                  BY <1>0, <2>1, <2>3, AsksStep
            <3> QED BY <2>1, <2>2, <3>1, <3>2
      <2>4. CASE SendServiceRequest(t)
            <3>1. /\ xfer[t].worker = "created" /\ xfer'[t].worker = "asking"
                  /\ UNCHANGED toRemote \/ \E m : Lengthened(m)
                  BY <1>0, <2>4 DEF SendServiceRequest, Inv, TypeOK, Transfer, Reply, Lengthened
            <3>2. t \in Requested /\ NoneAsks(t) /\ out[t].at = "idle"
                  BY <2>1, <3>1 DEF Unasked
            <3>3. ~Unasked(t)'
                  BY <3>1 DEF Unasked
            <3>4. AskedOnce(t)'
                  <4>1. UNCHANGED toRemote => AskedOnce(t)'
                        BY <2>1 DEF AskedOnce
                  <4>2. (\E m : Lengthened(m)) => AskedOnce(t)'
                        BY <1>0, <3>2, AsksStep
                  <4> QED BY <3>1, <4>1, <4>2
            <3> QED BY <2>2, <3>2, <3>3, <3>4
      <2> QED BY <1>3, <2>3, <2>4
<1>6. FinalizesAgree'
      <2>1. \A t \in Transfers : AllSent(t) => UNCHANGED out[t]
            OBVIOUS
      <2> QED BY <1>0, <1>3, <2>1, FinalizesStep
<1>7. ResultsAgree'
      <2> SUFFICES ASSUME NEW t \in Transfers, Claims(t)'
                   PROVE  AllSent(t)' /\ xfer'[t].against = out'[t].sent
          BY DEF ResultsAgree
      <2>1. AllSent(t) /\ xfer'[t].against = out[t].sent
            <3>1. CASE Claims(t) /\ xfer'[t].against = xfer[t].against
                  BY <1>0, <3>1 DEF ResultsAgree
            <3>2. CASE Verified(t)
                  <4>1. 1 \in 1..Len(toLocal) /\ Head(toLocal) = toLocal[1]
                        BY <1>0, <3>2, Shorter DEF Verified
                  <4>2. /\ Head(toLocal).type = "DataFinalize" /\ Head(toLocal).id = t
                        /\ xfer'[t].against = Head(toLocal).sum
                        BY <3>2 DEF Verified
                  <4> QED BY <1>0, <4>1, <4>2 DEF FinalizesAgree
            <3> QED BY <1>4, <3>1, <3>2 DEF ReceiverView
      <2> QED BY <2>1 DEF AllSent
<1> QED BY <1>1, <1>2, <1>5, <1>6, <1>7 DEF IFTInv, FTInv

-----------------------------------------------------------------------------
(* The sender's steps.                                                     *)

Outbound == [at : Snd!OutAt, go : BOOLEAN, left : Seq(Block), sent : Seq(Block), shrank : BOOLEAN]

\* A step that reads nothing leaves what was read.
LEMMA ReadsNothing ==
    ASSUME NEW t, NEW x, NEW y, y.sent = x.sent, y.left = x.left, y.shrank = x.shrank
    PROVE  ReadsSource(t, x) => ReadsSource(t, y)
BY DEF ReadsSource

\* Where the blocks are: k are sent, l left, of a file of n.
LEMMA OneMore ==
    ASSUME NEW k \in Nat, NEW n \in Nat, NEW l \in Nat, NEW m \in Nat, k < n, l >= n - k, m = l - 1
    PROVE  /\ k + 1 <= n /\ m >= n - (k + 1)
           /\ \A i \in 1..(n - (k + 1)) : /\ i + 1 \in 1..(n - k) /\ i \in 1..m
                                         /\ k + (i + 1) = (k + 1) + i
OBVIOUS

LEMMA AllThere ==
    ASSUME NEW k \in Nat, NEW n \in Nat, NEW l \in Nat, k + l = n
    PROVE  n - k = l /\ l + 1 >= n - k
OBVIOUS

LEMMA NoneLeft ==
    ASSUME NEW k \in Nat, NEW n \in Nat, k <= n, ~(k < n)
    PROVE  n - k = 0 /\ 0 >= n - k
OBVIOUS

\* A block that is read is the next of the file, if there is one.
LEMMA ReadsOn ==
    ASSUME NEW t \in Transfers, NEW x \in Outbound, ReadsSource(t, x), x.left # <<>>,
           Len(x.sent) < Len(Source[t])
    PROVE  ReadsSource(t, [x EXCEPT !.sent = Append(@, Head(x.left)), !.left = Tail(@)])
<1> DEFINE y == [x EXCEPT !.sent = Append(@, Head(x.left)), !.left = Tail(@)]
<1>1. /\ x.sent \in Seq(Block) /\ x.left \in Seq(Block) /\ Source[t] \in Seq(Block)
      /\ y.sent = Append(x.sent, Head(x.left)) /\ y.left = Tail(x.left) /\ y.shrank = x.shrank
      BY SourceAssumption DEF Outbound
<1> HIDE DEF y
<1>2. Len(y.left) \in Nat
       BY <1>1, HeadTailProperties
<1>3. ~x.shrank /\ Len(x.sent) \in Nat /\ Len(x.left) \in Nat /\ Len(Source[t]) \in Nat
      BY <1>1 DEF ReadsSource
<1>4. /\ Len(y.left) = Len(x.left) - 1 /\ Head(x.left) = x.left[1]
      /\ \A i \in 1..Len(y.left) : y.left[i] = x.left[i + 1]
      BY <1>1, Shorter
<1>5. /\ Len(y.sent) = Len(x.sent) + 1
      /\ \A i \in 1..Len(y.sent) : \/ i \in 1..Len(x.sent) /\ y.sent[i] = x.sent[i]
                                   \/ i = Len(x.sent) + 1 /\ y.sent[i] = Head(x.left)
      BY <1>1, Longer
<1>6. /\ \A i \in 1..Len(x.sent) : x.sent[i] = Source[t][i]
      /\ Len(x.left) >= Len(Source[t]) - Len(x.sent)
      /\ \A i \in 1..(Len(Source[t]) - Len(x.sent)) : x.left[i] = Source[t][Len(x.sent) + i]
      BY <1>3 DEF ReadsSource
<1>7. Head(x.left) = Source[t][Len(x.sent) + 1]
      <2>1. 1 \in 1..(Len(Source[t]) - Len(x.sent))
            BY <1>3
      <2> QED BY <1>4, <1>6, <2>1
<1>8. \A i \in 1..Len(y.sent) : y.sent[i] = Source[t][i]
      BY <1>5, <1>6, <1>7
<1> DEFINE k == Len(x.sent)
           n == Len(Source[t])
           l == Len(x.left)
           m == Len(y.left)
<1>9. /\ k \in Nat /\ n \in Nat /\ l \in Nat /\ m \in Nat
      /\ k < n /\ l >= n - k /\ m = l - 1
      <2>1. m \in Nat
            BY <1>2
      <2> QED BY <1>3, <1>4, <1>6, <2>1
<1>10. /\ Len(y.sent) = k + 1
       /\ \A i \in 1..(n - k) : x.left[i] = Source[t][k + i]
       /\ \A i \in 1..m : y.left[i] = x.left[i + 1]
       BY <1>4, <1>5, <1>6
<1> HIDE DEF k, n, l, m
<1>11. /\ k + 1 <= n /\ m >= n - (k + 1)
       /\ \A i \in 1..(n - (k + 1)) : /\ i + 1 \in 1..(n - k) /\ i \in 1..m
                                     /\ k + (i + 1) = (k + 1) + i
       BY <1>9, OneMore
<1>12. \A i \in 1..(n - (k + 1)) : y.left[i] = Source[t][(k + 1) + i]
       BY <1>10, <1>11, Zenon
<1>13. /\ Len(y.sent) <= Len(Source[t])
       /\ Len(y.left) >= Len(Source[t]) - Len(y.sent)
       /\ \A i \in 1..(Len(Source[t]) - Len(y.sent)) : y.left[i] = Source[t][Len(y.sent) + i]
       BY <1>10, <1>11, <1>12, Zenon DEF n, m
<1>14. ReadsSource(t, y)
      BY <1>1, <1>3, <1>8, <1>13, Zenon DEF ReadsSource
<1> QED BY <1>14 DEF y

\* What the file gains comes after all that stat saw.
LEMMA ReadsGrown ==
    ASSUME NEW t \in Transfers, NEW x \in Outbound, ReadsSource(t, x),
           Len(x.sent) + Len(x.left) = Len(Source[t])
    PROVE  ReadsSource(t, [x EXCEPT !.left = Append(@, Extra)])
<1> DEFINE y == [x EXCEPT !.left = Append(@, Extra)]
<1>1. /\ x.sent \in Seq(Block) /\ x.left \in Seq(Block) /\ Source[t] \in Seq(Block)
      /\ y.sent = x.sent /\ y.left = Append(x.left, Extra) /\ y.shrank = x.shrank
      BY SourceAssumption DEF Outbound
<1> HIDE DEF y
<1>2. /\ Len(x.sent) \in Nat /\ Len(x.left) \in Nat /\ Len(Source[t]) \in Nat
      /\ x.shrank \in BOOLEAN
      BY <1>1 DEF Outbound
<1>3. ~x.shrank
      <2> SUFFICES ASSUME x.shrank PROVE FALSE
          OBVIOUS
      <2>1. x.left = <<>> /\ Len(x.sent) < Len(Source[t])
            BY DEF ReadsSource
      <2>2. Len(x.left) = 0
            BY <2>1
      <2> QED BY <1>2, <2>1, <2>2
<1>4. /\ Len(y.left) = Len(x.left) + 1
      /\ \A i \in 1..Len(x.left) : y.left[i] = x.left[i]
      BY <1>1, AppendProperties
<1>5. /\ Len(x.sent) <= Len(Source[t])
      /\ \A i \in 1..Len(x.sent) : x.sent[i] = Source[t][i]
      /\ \A i \in 1..(Len(Source[t]) - Len(x.sent)) : x.left[i] = Source[t][Len(x.sent) + i]
      BY <1>3 DEF ReadsSource
<1>6. Len(Source[t]) - Len(x.sent) = Len(x.left) /\ Len(x.left) + 1 >= Len(Source[t]) - Len(x.sent)
      BY <1>2, AllThere
<1>7. /\ Len(y.left) >= Len(Source[t]) - Len(y.sent)
      /\ \A i \in 1..(Len(Source[t]) - Len(y.sent)) : y.left[i] = Source[t][Len(y.sent) + i]
      BY <1>1, <1>4, <1>5, <1>6, Zenon
<1>8. ReadsSource(t, y)
      BY <1>3, <1>1, <1>5, <1>7, Zenon DEF ReadsSource
<1> QED BY <1>8 DEF y

\* A transfer moves at the sender only while it is not done, and not while it is
\* still to be asked for.
Advances(t) ==
    /\ out[t].at # "done"
    /\ OutSound(t, out'[t])
    /\ NoneAsks(t)'
    /\ ~(t \in Requested /\ Unasked(t))

LEMMA Sends ==
    ASSUME toLocal \in Seq(Message), NEW m \in Message, Snd!Send(m)
    PROVE  /\ toLocal' \in Seq(Message)
           /\ UNCHANGED toLocal \/ toLocal' = Append(toLocal, m)
BY DEF Snd!Send

LEMMA ThereKeeps ==
    ASSUME IFTInv, UNCHANGED <<xfer, table, loop, closer, up>>,
           out' \in [Transfers -> Outbound], server' \in Transfers \cup {None},
           \A t \in Transfers : out'[t] = out[t] \/ Advances(t),
           UNCHANGED toRemote \/ Shortened,
           \/ UNCHANGED toLocal
           \/ \E m \in Message : /\ toLocal' = Append(toLocal, m)
                                 /\ m.type = "DataFinalize" => AllSent(m.id)' /\ m.sum = out'[m.id].sent,
           ServingAgrees'
    PROVE  IFTInv'
<1>0. /\ Inv /\ OutAgrees /\ RequestsAgree /\ FinalizesAgree /\ ResultsAgree /\ NoDataBeforeProceed
      /\ toLocal \in Seq(Message) /\ toRemote \in Seq(ReplyMessage)
      BY DEF IFTInv, FTInv, Inv, TypeOK
<1>1. Inv'
      <2>1. toRemote' \in Seq(ReplyMessage)
            <3>1. CASE UNCHANGED toRemote
                  BY <1>0, <3>1
            <3>2. CASE Shortened
                  BY <1>0, <3>2, HeadTailProperties DEF Shortened
            <3> QED BY <3>1, <3>2
      <2>2. toLocal' \in Seq(Message)
            <3>1. UNCHANGED toLocal \/ \E m \in Message : toLocal' = Append(toLocal, m)
                  OBVIOUS
            <3> QED BY <1>0, <3>1, AppendProperties
      <2>3. TypeOK'
            BY <1>0, <2>1, <2>2 DEF Inv, TypeOK
      <2> QED BY <1>0, <2>3 DEF Inv, TableMatchesDownloads, SuccessIsVerified, NeverTooMuch,
              StuckOnlyOnDeadTransfer, LoopAgrees, TransfersAgree
<1>2. Snd!OutTypeOK'
      BY DEF Snd!OutTypeOK, Outbound
<1>3. OutAgrees' /\ NoDataBeforeProceed'
      <2>1. \A t \in Transfers : OutSound(t, out[t])
            BY <1>0 DEF OutAgrees, OutSound
      <2>2. \A t \in Transfers : OutSound(t, out'[t])
            BY <2>1 DEF Advances
      <2> QED BY <2>2 DEF OutAgrees, NoDataBeforeProceed, OutSound
<1>4. RequestsAgree'
      <2>0. NoneAsks(None)'
            BY <1>0, AsksStep DEF RequestsAgree, NoNewRequest
      <2> SUFFICES ASSUME NEW t \in Transfers
                   PROVE  /\ ~NoneAsks(t)' => t \in Requested /\ out'[t].at = "idle"
                          /\ AskedOnce(t)'
                          /\ t \in Requested /\ Unasked(t)' => NoneAsks(t)' /\ out'[t].at = "idle"
                          /\ xfer'[t].worker = "created" => t \in Requested
          BY <2>0 DEF RequestsAgree
      <2>1. /\ ~NoneAsks(t) => t \in Requested /\ out[t].at = "idle"
            /\ AskedOnce(t)
            /\ t \in Requested /\ Unasked(t) => NoneAsks(t) /\ out[t].at = "idle"
            /\ xfer[t].worker = "created" => t \in Requested
            BY <1>0 DEF RequestsAgree
      <2>2. (NoneAsks(t) => NoneAsks(t)') /\ AskedOnce(t)'
            BY <1>0, <2>1, AsksStep DEF NoNewRequest
      <2>3. Unasked(t)' <=> Unasked(t)
            BY DEF Unasked
      <2>4. CASE out'[t] = out[t]
            BY <2>1, <2>2, <2>3, <2>4
      <2>5. CASE Advances(t)
            BY <2>1, <2>2, <2>3, <2>5 DEF Advances
      <2> QED BY <2>4, <2>5
<1>5. \A t \in Transfers : AllSent(t) => UNCHANGED out[t]
      BY DEF AllSent, Advances
<1>6. FinalizesAgree'
      <2>1. \/ UNCHANGED toLocal
            \/ toLocal # <<>> /\ toLocal' = Tail(toLocal)
            \/ \E m : /\ toLocal' = Append(toLocal, m)
                      /\ m.type = "DataFinalize" => AllSent(m.id)' /\ m.sum = out'[m.id].sent
            OBVIOUS
      <2> QED BY <1>0, <1>5, <2>1, FinalizesStep
<1>7. ResultsAgree'
      <2>1. \A t \in Transfers : Claims(t)' <=> Claims(t)
            BY DEF Claims
      <2> QED BY <1>0, <1>5, <2>1 DEF ResultsAgree, AllSent
<1> QED BY <1>1, <1>2, <1>3, <1>4, <1>6, <1>7 DEF IFTInv, FTInv

\* What is known of a transfer, and whether it may move.
LEMMA OutboundIs ==
    ASSUME IFTInv, NEW u \in Transfers
    PROVE  /\ out \in [Transfers -> Outbound] /\ out[u] \in Outbound /\ OutSound(u, out[u])
           /\ toLocal \in Seq(Message) /\ toRemote \in Seq(ReplyMessage)
           /\ u \in Requested => out[u].at # "sending"
BY DEF IFTInv, FTInv, Inv, TypeOK, Snd!OutTypeOK, Outbound, OutAgrees, OutSound, ServingAgrees

LEMMA ToMove ==
    ASSUME IFTInv, NEW u \in Transfers, UNCHANGED toRemote \/ Shortened
    PROVE  out[u].at # "idle" \/ u \notin Requested => NoneAsks(u)' /\ ~(u \in Requested /\ Unasked(u))
<1>1. toRemote \in Seq(ReplyMessage)
      BY OutboundIs
<1>2. out[u].at # "idle" \/ u \notin Requested => NoneAsks(u) /\ ~(u \in Requested /\ Unasked(u))
      BY DEF IFTInv, RequestsAgree
<1>3. NoneAsks(u) => NoneAsks(u)'
      BY <1>1, AsksStep DEF NoNewRequest
<1> QED BY <1>1, <1>2, <1>3

\* The goroutine that drives a transfer (outbound_transfer.go:37-142), whatever it sends.
LEMMA DriverKeeps ==
    ASSUME IFTInv, NEW u \in Transfers, NEW y \in Outbound, out' = [out EXCEPT ![u] = y],
           UNCHANGED <<xfer, table, loop, closer, up, server, toRemote>>,
           out[u].at # "done", OutSound(u, y), out[u].at # "idle" \/ u \notin Requested,
           u \in Requested => y.at # "sending",
           \/ UNCHANGED toLocal
           \/ \E m \in Message : /\ Snd!Send(m)
                                 /\ m.type = "DataFinalize" => AllSent(m.id)' /\ m.sum = out'[m.id].sent
    PROVE  IFTInv'
<1>1. /\ out \in [Transfers -> Outbound] /\ out[u] \in Outbound /\ toLocal \in Seq(Message)
      /\ NoneAsks(u)' /\ ~(u \in Requested /\ Unasked(u))
      BY OutboundIs, ToMove
<1>2. /\ out'[u] = y
      /\ \A t \in Transfers : t # u => out'[t] = out[t]
      /\ out' \in [Transfers -> Outbound]
      BY <1>1
<1>3. \A t \in Transfers : out'[t] = out[t] \/ Advances(t)
      BY <1>1, <1>2 DEF Advances
<1>4. ServingAgrees'
      <2>1. u \in Requested => server = u
            BY <1>1 DEF IFTInv, ServingAgrees, Outbound, Snd!OutAt
      <2> QED BY <1>2, <2>1, RequestedAssumption DEF IFTInv, ServingAgrees
<1>5. \/ UNCHANGED toLocal
      \/ \E m \in Message : /\ toLocal' = Append(toLocal, m)
                            /\ m.type = "DataFinalize" => AllSent(m.id)' /\ m.sum = out'[m.id].sent
      <2>1. ASSUME NEW m \in Message, Snd!Send(m) PROVE UNCHANGED toLocal \/ toLocal' = Append(toLocal, m)
            BY <1>1, <2>1, Sends
      <2> QED BY <2>1
<1>6. server' \in Transfers \cup {None}
      BY DEF IFTInv, FTInv, Snd!OutTypeOK
<1> QED BY <1>2, <1>3, <1>4, <1>5, <1>6, ThereKeeps

\* A goroutine that sends, or that changes the file, keeps the invariant.
LEMMA DriverStep ==
    ASSUME IFTInv, NEW u \in Transfers, UNCHANGED <<xfer, table, loop, closer>>,
           CallTransferData(u) \/ Snd!Sender(u) \/ Snd!Changes(u)
    PROVE  IFTInv'
<1> DEFINE x == out[u]
           Ok(y) == y \in Outbound /\ OutSound(u, y) /\ (u \in Requested => y.at # "sending")
<1>1. /\ out \in [Transfers -> Outbound] /\ x \in Outbound /\ OutSound(u, x)
      /\ u \in Requested => x.at # "sending"
      BY OutboundIs
<1>2. ASSUME NEW y, out' = [out EXCEPT ![u] = y], Ok(y), x.at \notin {"idle", "done"} \/ (x.at = "idle" /\ u \notin Requested),
             UNCHANGED <<up, server, toRemote>>,
             \/ UNCHANGED toLocal
             \/ \E m \in Message : Snd!Send(m) /\ m.type # "DataFinalize"
      PROVE  IFTInv'
      <2>1. \/ UNCHANGED toLocal
            \/ \E m \in Message : /\ Snd!Send(m)
                                  /\ m.type = "DataFinalize" => AllSent(m.id)' /\ m.sum = out'[m.id].sent
            BY <1>2
      <2> QED BY <1>2, <2>1, DriverKeeps
<1>3. ASSUME NEW at \in Snd!OutAt, at # "sending", at \in {"idle", "opening", "starting", "awaitGo"} => x.sent = <<>>
      PROVE  Ok([x EXCEPT !.at = at])
      <2> DEFINE y == [x EXCEPT !.at = at]
      <2>1. /\ y \in Outbound /\ y.at = at /\ y.go = x.go
            /\ y.sent = x.sent /\ y.left = x.left /\ y.shrank = x.shrank
            BY <1>1 DEF Outbound
      <2> HIDE DEF y
      <2>2. ReadsSource(u, y)
            BY <1>1, <2>1, ReadsNothing DEF OutSound
      <2>3. Ok(y)
            BY <1>1, <1>3, <2>1, <2>2 DEF OutSound
      <2> QED BY <2>3 DEF y
<1>4. CASE CallTransferData(u)
      <2>1. /\ u \notin Requested /\ x.at = "idle" /\ out' = [out EXCEPT ![u] = [x EXCEPT !.at = "starting"]]
            /\ UNCHANGED <<up, server, toRemote, toLocal>>
            BY <1>4 DEF CallTransferData, Snd!CallTransferData, Snd!Move
      <2>2. Ok([x EXCEPT !.at = "starting"])
            BY <1>1, <1>3, <2>1 DEF OutSound, Snd!OutAt
      <2> HIDE DEF Ok
      <2> QED BY <1>2, <2>1, <2>2
<1>5. CASE Snd!OpenFile(u) \/ Snd!OpenFails(u) \/ Snd!GoNoGoTimesOut(u)
      <2>1. PICK at \in {"starting", "done"} :
               /\ x.at \in {"opening", "awaitGo"} /\ out' = [out EXCEPT ![u] = [x EXCEPT !.at = at]]
               /\ UNCHANGED <<up, server, toRemote, toLocal>>
            BY <1>5 DEF Snd!OpenFile, Snd!OpenFails, Snd!GoNoGoTimesOut, Snd!Move
      <2>2. Ok([x EXCEPT !.at = at])
            BY <1>1, <1>3, <2>1 DEF OutSound, Snd!OutAt
      <2>3. x.at \notin {"idle", "done"}
            BY <2>1
      <2> HIDE DEF Ok
      <2> QED BY <1>2, <2>1, <2>2, <2>3
<1>6. CASE Snd!SendDataStart(u)
      <2> DEFINE m == [type |-> "DataStart", id |-> u, size |-> Snd!Declared(u)]
      <2>1. /\ x.at = "starting" /\ Snd!Send(m) /\ out' = [out EXCEPT ![u] = [x EXCEPT !.at = "awaitGo"]]
            /\ UNCHANGED <<up, server, toRemote>>
            BY <1>6 DEF Snd!SendDataStart, Snd!Move
      <2>2. Ok([x EXCEPT !.at = "awaitGo"])
            BY <1>1, <1>3, <2>1 DEF OutSound, Snd!OutAt
      <2>3. m \in Message /\ m.type # "DataFinalize"
            <3>1. Snd!Declared(u) \in Nat
                  BY SourceAssumption DEF Snd!Declared
            <3> QED BY <3>1 DEF Message
      <2> HIDE DEF Ok, m
      <2> QED BY <1>2, <2>1, <2>2, <2>3
<1>7. CASE Snd!SendDataBlock(u)
      <2> DEFINE m == [type |-> "DataBlock", id |-> u, data |-> Head(x.left)]
                 y == [x EXCEPT !.sent = Append(@, Head(x.left)), !.left = Tail(@)]
      <2>1. /\ x.at = "sending" /\ x.left # <<>> /\ Snd!Send(m) /\ out' = [out EXCEPT ![u] = y]
            /\ UNCHANGED <<up, server, toRemote>>
            BY <1>7 DEF Snd!SendDataBlock
      <2>2. Head(x.left) \in Block /\ Tail(x.left) \in Seq(Block) /\ Append(x.sent, Head(x.left)) \in Seq(Block)
            BY <1>1, <2>1 DEF Outbound
      <2>3. Ok(y)
            <3>1. Len(x.sent) < Len(Source[u])
                  BY <1>7 DEF Snd!SendDataBlock, Snd!Declared
            <3>2. ReadsSource(u, y)
                  BY <1>1, <2>1, <3>1, ReadsOn DEF OutSound
            <3>3. /\ y \in Outbound /\ y.at = "sending" /\ y.go = x.go
                  BY <1>1, <2>1, <2>2 DEF Outbound
            <3> HIDE DEF y
            <3> QED BY <1>1, <2>1, <3>2, <3>3 DEF OutSound
      <2>4. m \in Message /\ m.type # "DataFinalize"
            BY <2>2 DEF Message
      <2> HIDE DEF Ok, m, y
      <2> QED BY <1>2, <2>1, <2>3, <2>4
<1>8. CASE Snd!RefuseToWrite(u)
      <2> DEFINE m == [type |-> "DataFailed", id |-> u]
      <2>1. /\ x.at = "sending" /\ Snd!Send(m) /\ out' = [out EXCEPT ![u] = [x EXCEPT !.at = "done"]]
            /\ UNCHANGED <<up, server, toRemote>>
            BY <1>8 DEF Snd!RefuseToWrite, Snd!Move
      <2>2. Ok([x EXCEPT !.at = "done"])
            BY <1>3 DEF Snd!OutAt
      <2>3. m \in Message /\ m.type # "DataFinalize"
            BY DEF Message
      <2> HIDE DEF Ok, m
      <2> QED BY <1>2, <2>1, <2>2, <2>3
<1>9. CASE Snd!SendDataFinalize(u)
      <2> PICK m : m = [type |-> "DataFinalize", id |-> u, sum |-> x.sent]
          OBVIOUS
      <2> DEFINE y == [x EXCEPT !.at = "done"]
      <2>1. /\ x.at = "sending" /\ x.left = <<>> /\ Snd!Send(m) /\ out' = [out EXCEPT ![u] = y]
            /\ UNCHANGED <<up, server, toRemote>>
            BY <1>9 DEF Snd!SendDataFinalize, Snd!Move
      <2>2. Ok(y) /\ y.at = "done" /\ y.left = <<>> /\ y.sent = x.sent
            BY <1>1, <1>3, <2>1 DEF Snd!OutAt, Outbound
      <2>3. m \in Message /\ m.id = u /\ m.sum = x.sent
            BY <1>1 DEF Message, Outbound
      <2>4. out'[u] = y /\ u \notin Requested
            BY <1>1, <2>1
      <2>5. AllSent(m.id)' /\ m.sum = out'[m.id].sent
            BY <2>2, <2>3, <2>4 DEF AllSent
      <2> HIDE DEF y
      <2>6. \E k \in Message : /\ Snd!Send(k)
                               /\ k.type = "DataFinalize" => AllSent(k.id)' /\ k.sum = out'[k.id].sent
            BY <2>1, <2>3, <2>5
      <2>7. x.at # "done" /\ x.at # "idle" /\ y \in Outbound /\ OutSound(u, y)
            BY <2>1, <2>2
      <2> QED BY <2>1, <2>4, <2>6, <2>7, DriverKeeps
<1>10. CASE Snd!FileShrinks(u)
      <2> DEFINE k == Len(x.sent)
                 n == Len(Source[u])
                 y(b) == [x EXCEPT !.left = <<>>, !.shrank = b]
      <2>1. /\ x.at = "sending"
            /\ UNCHANGED <<up, server, toRemote, toLocal>>
            /\ out' = [out EXCEPT ![u] = [@ EXCEPT !.left = <<>>, !.shrank = k < n]]
            BY <1>10 DEF Snd!FileShrinks, Snd!Declared
      <2>2. /\ k \in Nat /\ n \in Nat
            /\ k <= n /\ \A i \in 1..k : x.sent[i] = Source[u][i]
            BY <1>1, SourceAssumption DEF Outbound, OutSound, ReadsSource
      <2>3. ASSUME NEW b \in BOOLEAN
            PROVE  /\ y(b) \in Outbound /\ y(b).at = "sending" /\ y(b).go = x.go
                   /\ y(b).sent = x.sent /\ y(b).left = <<>> /\ y(b).shrank = b
            <3> HIDE DEF k, n
            <3>1. <<>> \in Seq(Block)
                  OBVIOUS
            <3> QED BY <1>1, <2>1, <3>1 DEF Outbound
      <2>4. CASE k < n
            <3>1. (k < n) = TRUE
                  BY <2>2, <2>4
            <3>2. out' = [out EXCEPT ![u] = y(TRUE)]
                  BY <1>1, <2>1, <3>1, Zenon
            <3> HIDE DEF y
            <3>3. ReadsSource(u, y(TRUE))
                  BY <2>2, <2>3, <2>4 DEF ReadsSource
            <3>4. Ok(y(TRUE))
                  BY <1>1, <2>1, <2>3, <3>3 DEF OutSound
            <3> HIDE DEF Ok
            <3> QED BY <1>2, <2>1, <3>2, <3>4
      <2>5. CASE ~(k < n)
            <3>1. (k < n) = FALSE
                  BY <2>2, <2>5
            <3>2. out' = [out EXCEPT ![u] = y(FALSE)]
                  BY <1>1, <2>1, <3>1, Zenon
            <3> HIDE DEF y
            <3>3. n - k = 0 /\ 0 >= n - k
                  BY <2>2, <2>5, NoneLeft
            <3>4. Len(<<>>) = 0 /\ \A i \in 1..0 : FALSE
                  OBVIOUS
            <3>5. ReadsSource(u, y(FALSE))
                  BY <2>2, <2>3, <3>3, <3>4 DEF ReadsSource
            <3>6. Ok(y(FALSE))
                  BY <1>1, <2>1, <2>3, <3>5 DEF OutSound
            <3> HIDE DEF Ok
            <3> QED BY <1>2, <2>1, <3>2, <3>6
      <2> QED BY <2>4, <2>5
<1>11. CASE Snd!FileGrows(u)
      <2> DEFINE y == [x EXCEPT !.left = Append(@, Extra)]
      <2>1. /\ x.at = "sending" /\ out' = [out EXCEPT ![u] = y]
            /\ Len(x.sent) + Len(x.left) = Len(Source[u])
            /\ UNCHANGED <<up, server, toRemote, toLocal>>
            BY <1>11 DEF Snd!FileGrows
      <2>2. ReadsSource(u, y)
            BY <1>1, <2>1, ReadsGrown DEF OutSound
      <2>3. /\ y \in Outbound /\ y.at = "sending" /\ y.go = x.go /\ y.sent = x.sent
            <3>1. x.left \in Seq(Block)
                  BY <1>1 DEF Outbound
            <3>2. Append(x.left, Extra) \in Seq(Block)
                  BY <3>1, FileAssumption, AppendProperties
            <3> QED BY <1>1, <2>1, <3>2 DEF Outbound
      <2> HIDE DEF y
      <2>4. Ok(y)
            BY <1>1, <2>1, <2>2, <2>3 DEF OutSound
      <2> HIDE DEF Ok
      <2> QED BY <1>2, <2>1, <2>4
<1> QED BY <1>4, <1>5, <1>6, <1>7, <1>8, <1>9, <1>10, <1>11 DEF Snd!Sender, Snd!Changes

\* So does the sender's receive loop: it takes a go-ahead only while it serves no
\* request, when no requested transfer waits for one.
LEMMA SenderLoopStep ==
    ASSUME IFTInv, UNCHANGED <<xfer, table, loop, closer>>, Snd!SenderLoop
    PROVE  IFTInv'
<1>0. /\ out \in [Transfers -> Outbound] /\ server \in Transfers \cup {None}
      /\ toLocal \in Seq(Message) /\ toRemote \in Seq(ReplyMessage)
      /\ ServingAgrees
      BY DEF IFTInv, FTInv, Inv, TypeOK, Snd!OutTypeOK, Outbound
<1>1. \A type : Snd!LoopReads(type) => Shortened /\ server = None /\ Head(toRemote).type = type
      BY DEF Snd!LoopReads, Shortened
<1>2. Shortened => Head(toRemote) \in ReplyMessage
      BY <1>0, Shorter DEF Shortened
<1>3. CASE Snd!HandleServiceRequest
      <2> PICK u : u = Head(toRemote).id
          OBVIOUS
      <2> DEFINE y == [out[u] EXCEPT !.at = "opening"]
      <2>1. /\ Shortened /\ server = None /\ server' = u /\ Head(toRemote).type = "ServiceRequest"
            /\ out' = [out EXCEPT ![u] = y] /\ UNCHANGED <<toLocal, up>>
            BY <1>1, <1>3 DEF Snd!HandleServiceRequest, Snd!Move
      <2>2. Asks(Head(toRemote), u) /\ ~NoneAsks(u)
            <3>1. Asks(Head(toRemote), u)
                  BY <2>1 DEF Asks
            <3>2. 1 \in 1..Len(toRemote) /\ Head(toRemote) = toRemote[1]
                  BY <1>0, <2>1, Shorter DEF Shortened
            <3> QED BY <3>1, <3>2 DEF NoneAsks
      <2>3. u \in Transfers
            <3>1. u \in Transfers \cup {None}
                  BY <1>2, <2>1 DEF ReplyMessage
            <3> QED BY <2>2, <3>1 DEF IFTInv, RequestsAgree
      <2>4. u \in Requested /\ out[u].at = "idle" /\ AskedOnce(u) /\ ~Unasked(u) /\ OutSound(u, out[u])
            BY <2>2, <2>3 DEF IFTInv, RequestsAgree, OutAgrees, OutSound
      <2>5. NoneAsks(u)'
            BY <1>0, <2>1, <2>2, <2>4, AsksStep
      <2>6. /\ y \in Outbound /\ y.at = "opening" /\ y.go = out[u].go
            /\ y.sent = out[u].sent /\ y.left = out[u].left /\ y.shrank = out[u].shrank
            BY <1>0, <2>3 DEF Outbound, Snd!OutAt
      <2> HIDE DEF y
      <2>7. OutSound(u, y)
            <3>1. ReadsSource(u, y)
                  BY <2>4, <2>6, ReadsNothing DEF OutSound
            <3> QED BY <2>4, <2>6, <3>1 DEF OutSound
      <2>8. /\ out' \in [Transfers -> Outbound] /\ out'[u] = y
            /\ \A t \in Transfers : t # u => out'[t] = out[t]
            BY <1>0, <2>1, <2>3, <2>6
      <2>9. \A t \in Transfers : out'[t] = out[t] \/ Advances(t)
            BY <2>4, <2>5, <2>6, <2>8, <2>7 DEF Advances
      <2>10. ServingAgrees'
            BY <1>0, <2>1, <2>6, <2>8, TransfersAssumption, RequestedAssumption DEF ServingAgrees
      <2> QED BY <2>1, <2>3, <2>8, <2>9, <2>10, ThereKeeps
<1>4. ASSUME NEW taken \in BOOLEAN, Snd!HandleGoNoGo(taken) PROVE IFTInv'
      <2> PICK u : u = Head(toRemote).id
          OBVIOUS
      <2> PICK go \in BOOLEAN : go = (Head(toRemote).type = "DataProceed")
          OBVIOUS
      <2> DEFINE y == [out[u] EXCEPT !.at = IF go THEN "sending" ELSE "done", !.go = go]
      <2>1. /\ Shortened /\ server = None /\ UNCHANGED <<server, toLocal, up>>
            /\ taken => u # None /\ out[u].at = "awaitGo" /\ out' = [out EXCEPT ![u] = y]
            /\ ~taken => out' = out
            BY <1>1, <1>4 DEF Snd!HandleGoNoGo
      <2>2. CASE ~taken
            <3>1. ServingAgrees'
                  BY <1>0, <2>1, <2>2 DEF ServingAgrees
            <3> QED BY <1>0, <2>1, <2>2, <3>1, ThereKeeps
      <2>3. CASE taken
            <3>1. u \in Transfers
                  BY <1>2, <2>1, <2>3 DEF ReplyMessage
            <3>2. /\ OutSound(u, out[u]) /\ NoneAsks(u)' /\ ~(u \in Requested /\ Unasked(u))
                  BY <2>1, <2>3, <3>1, OutboundIs, ToMove
            <3>3. y \in Outbound /\ OutSound(u, y)
                  <4>1. out[u] \in Outbound /\ out[u].sent = <<>>
                        BY <1>0, <2>1, <2>3, <3>1, <3>2 DEF OutSound
                  <4>2. \A at \in {"sending", "done"} :
                           LET z == [out[u] EXCEPT !.at = at, !.go = go]
                           IN  /\ z \in Outbound /\ z.at = at /\ z.go = go /\ z.sent = <<>>
                               /\ z.sent = out[u].sent /\ z.left = out[u].left
                               /\ z.shrank = out[u].shrank
                        BY <4>1 DEF Outbound, Snd!OutAt
                  <4>3. PICK at \in {"sending", "done"} :
                           at = (IF go THEN "sending" ELSE "done") /\ y = [out[u] EXCEPT !.at = at, !.go = go]
                        OBVIOUS
                  <4>4. /\ y \in Outbound /\ y.at = at /\ y.go = go /\ y.sent = <<>>
                        /\ y.sent = out[u].sent /\ y.left = out[u].left /\ y.shrank = out[u].shrank
                        BY <4>2, <4>3
                  <4> HIDE DEF y
                  <4>5. ReadsSource(u, y)
                        BY <3>2, <4>4, ReadsNothing DEF OutSound
                  <4> QED BY <4>3, <4>4, <4>5 DEF OutSound
            <3>4. u \notin Requested
                  BY <1>0, <2>1, <2>3, <3>1, TransfersAssumption DEF ServingAgrees
            <3> HIDE DEF y
            <3>5. /\ out' \in [Transfers -> Outbound] /\ out'[u] = y
                  /\ \A t \in Transfers : t # u => out'[t] = out[t]
                  BY <1>0, <2>1, <2>3, <3>1, <3>3
            <3>6. \A t \in Transfers : out'[t] = out[t] \/ Advances(t)
                  BY <2>1, <2>3, <3>2, <3>3, <3>5 DEF Advances
            <3>7. ServingAgrees'
                  BY <1>0, <2>1, <3>4, <3>5, RequestedAssumption DEF ServingAgrees
            <3> QED BY <1>0, <2>1, <3>5, <3>6, <3>7, ThereKeeps
      <2> QED BY <2>2, <2>3
<1>5. CASE Snd!HandleVerdict
      <2>1. Shortened /\ UNCHANGED <<out, server, toLocal, up>>
            BY <1>1, <1>5 DEF Snd!HandleVerdict
      <2>2. ServingAgrees'
            BY <1>0, <2>1 DEF ServingAgrees
      <2> QED BY <1>0, <2>1, <2>2, ThereKeeps
<1>6. ASSUME NEW u \in Transfers, Snd!HandlerReturns(u) PROVE IFTInv'
      <2> DEFINE m == [type |-> IF out[u].go THEN "ServiceOK" ELSE "ServiceError", id |-> u]
      <2>1. /\ server = u /\ server' = None /\ out[u].at \in {"sending", "done"} /\ Snd!Send(m)
            /\ UNCHANGED <<out, toRemote, up>>
            BY <1>6 DEF Snd!HandlerReturns
      <2>2. m \in Message /\ m.type # "DataFinalize"
            BY DEF Message
      <2>3. ServingAgrees'
            BY <1>0, <2>1 DEF ServingAgrees
      <2> HIDE DEF m
      <2>4. UNCHANGED toLocal \/ toLocal' = Append(toLocal, m)
            BY <1>0, <2>1, <2>2, Sends
      <2> QED BY <1>0, <2>1, <2>2, <2>3, <2>4, ThereKeeps
<1> QED BY <1>3, <1>4, <1>5, <1>6 DEF Snd!SenderLoop

-----------------------------------------------------------------------------
LEMMA InitIFTInv == FTInit => IFTInv
<1> SUFFICES ASSUME FTInit PROVE IFTInv
    OBVIOUS
<1>1. Inv
      BY InitInv DEF FTInit
<1>2. /\ xfer = [t \in Transfers |-> NewTransfer] /\ loop = Reading /\ toLocal = <<>> /\ toRemote = <<>>
      /\ out = [t \in Transfers |-> [at |-> "idle", go |-> FALSE, left |-> Source[t], sent |-> <<>>,
                                    shrank |-> FALSE]]
      /\ server = None
      BY DEF FTInit, Init, Snd!OutInit
<1>3. Snd!OutTypeOK
      BY <1>2, SourceAssumption DEF Snd!OutTypeOK, Snd!OutAt
<1>4. OutAgrees /\ NoDataBeforeProceed /\ ServingAgrees
      BY <1>2, SourceAssumption, RequestedAssumption
      DEF OutAgrees, OutSound, ReadsSource, NoDataBeforeProceed, ServingAgrees
<1>5. RequestsAgree
      BY <1>2 DEF RequestsAgree, NoneAsks, AskedOnce, NewTransfer
<1>6. FinalizesAgree
      BY <1>2 DEF FinalizesAgree
<1>7. ResultsAgree
      BY <1>2 DEF ResultsAgree, Claims, NewTransfer, Reading
<1> QED BY <1>1, <1>3, <1>4, <1>5, <1>6, <1>7 DEF IFTInv, FTInv

LEMMA NextIFTInv == IFTInv /\ [FTNext]_allVars => IFTInv'
<1> SUFFICES ASSUME IFTInv, [FTNext]_allVars PROVE IFTInv'
    OBVIOUS
<1>1. CASE Here(Beside(Local))
      BY <1>1, HereStep DEF Here
<1>2. CASE Here(Ends)
      BY <1>2, HereStep DEF Here
<1>3. CASE There(Snd!SenderLoop)
      BY <1>3, SenderLoopStep DEF There
<1>4. ASSUME NEW t \in Transfers, There(CallTransferData(t) \/ Snd!Sender(t) \/ Snd!Changes(t)) PROVE IFTInv'
      BY <1>4, DriverStep DEF There
<1>5. CASE UNCHANGED allVars
      <2>1. UNCHANGED <<xfer, table, loop, closer, up, out, server, toLocal, toRemote>>
            BY <1>5 DEF allVars
      <2>2. /\ out \in [Transfers -> Outbound] /\ server \in Transfers \cup {None} /\ ServingAgrees
            BY DEF IFTInv, FTInv, Snd!OutTypeOK, Outbound
      <2>3. ServingAgrees'
            BY <2>1, <2>2 DEF ServingAgrees
      <2> QED BY <2>1, <2>2, <2>3, ThereKeeps
<1> QED BY <1>1, <1>2, <1>3, <1>4, <1>5 DEF FTNext

THEOREM FTInvariance == FTSpec => []IFTInv
BY InitIFTInv, NextIFTInv, PTL DEF FTSpec

\* Both ends of a session stay sound together: all that is proved of the receiver
\* against any remote (remote_peer.go:494-574, transfer.go:70-171) holds with this
\* code's sender too, and the sender sends data only after a DataProceed
\* (outbound_transfer.go:37-58).
THEOREM BothEndsSound == FTSpec => []FTInv
<1>1. IFTInv => FTInv
      BY DEF IFTInv
<1> QED BY <1>1, FTInvariance, PTL

\* A download that asks for its file never completes, whatever is asked for, by how
\* many downloads, and however the messages meet: the sender's only loop serves the
\* request for as long as TransferFile waits for what the loop would read
\* (remote_peer.go:385-390, 428-446, 576-587; api-handlers-shares.go:349).
THEOREM RequestedDownloadsFail == FTSpec => []RequestedNeverSucceeds
<1>1. IFTInv => RequestedNeverSucceeds
      <2> SUFFICES ASSUME IFTInv, NEW t \in Requested PROVE xfer[t].result # "ok"
          BY DEF RequestedNeverSucceeds
      <2>1. t \in Transfers
            BY RequestedAssumption
      <2> QED BY <2>1 DEF IFTInv, ResultsAgree, Claims, AllSent
<1> QED BY <1>1, FTInvariance, PTL

\* A completed download whose destination took every write holds the file that stat
\* saw, whatever the file and its size, and whatever became of the session and of the
\* other transfers: what the checksum has seen is what the sender read, which is a
\* beginning of the file and, unless it was cut short meanwhile, all of it.  The
\* checksum sees a block before the destination does, and only the checksum is
\* compared (outbound_transfer.go:60-142, transfer.go:90-155).
THEOREM CompletedIsTheFile == ~DiskMayFail => (FTSpec => []CompletedIsTheSource)
<1> SUFFICES ASSUME ~DiskMayFail PROVE FTSpec => []CompletedIsTheSource
    OBVIOUS
<1>1. IFTInv => CompletedIsTheSource
      <2> SUFFICES ASSUME IFTInv, NEW t \in Transfers, xfer[t].result = "ok"
                   PROVE  /\ xfer[t].file = out[t].sent /\ xfer[t].against = out[t].sent
                          /\ xfer[t].file = SubSeq(Source[t], 1, Len(xfer[t].file))
                          /\ out[t].left = <<>>
                          /\ ~out[t].shrank => Len(xfer[t].file) = Len(Source[t])
          BY DEF CompletedIsTheSource
      <2>1. /\ out[t] \in Outbound /\ ReadsSource(t, out[t])
            /\ out[t].left = <<>> /\ xfer[t].against = out[t].sent
            BY DEF IFTInv, FTInv, Snd!OutTypeOK, Outbound, OutAgrees, OutSound, ResultsAgree, Claims,
               AllSent
      <2>2. /\ out[t].sent \in Seq(Block) /\ Source[t] \in Seq(Block) /\ out[t].shrank \in BOOLEAN
            BY <2>1, SourceAssumption DEF Outbound
      <2>3. xfer[t].against \in {None, xfer[t].hashed} /\ xfer[t].file = xfer[t].hashed
            BY DEF IFTInv, FTInv, Inv, SuccessIsVerified, TransfersAgree
      <2>4. xfer[t].file = out[t].sent
            BY <2>1, <2>2, <2>3, NoDataAssumption
      <2>5. /\ Len(out[t].sent) \in Nat /\ Len(Source[t]) \in Nat
            /\ Len(out[t].sent) <= Len(Source[t])
            /\ \A i \in 1..Len(out[t].sent) : out[t].sent[i] = Source[t][i]
            /\ ~out[t].shrank => Len(out[t].left) >= Len(Source[t]) - Len(out[t].sent)
            BY <2>1, <2>2 DEF ReadsSource
      <2>6. out[t].sent = SubSeq(Source[t], 1, Len(out[t].sent))
            <3> DEFINE s == out[t].sent
                       u == SubSeq(Source[t], 1, Len(s))
            <3>1. u \in Seq(Block) /\ Len(u) = Len(s) /\ \A i \in 1..Len(s) : u[i] = Source[t][i]
                  BY <2>2, <2>5, SubSeqProperties
            <3>2. \A i \in 1..Len(s) : s[i] = u[i]
                  BY <2>5, <3>1
            <3> HIDE DEF u
            <3>3. s = u
                  BY <2>2, <3>1, <3>2, SeqEqual
            <3> QED BY <3>3 DEF u
      <2>7. ~out[t].shrank => Len(out[t].sent) = Len(Source[t])
            BY <2>1, <2>5
      <2> QED BY <2>1, <2>4, <2>6, <2>7
<1> QED BY <1>1, FTInvariance, PTL
=============================================================================
