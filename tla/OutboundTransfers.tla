------------------------- MODULE OutboundTransfers --------------------------
(***************************************************************************)
(* The sending side of file transfers on one session: TransferFile and     *)
(* TransferData (peer/remote_peer.go:344-416), the OutboundTransfer they   *)
(* drive (peer/outbound_transfer.go), and the sender's own receive loop,   *)
(* which serves the ServiceRequests that ask for files                     *)
(* (remote_peer.go:576-587, peer_server.go:57-97,                          *)
(* api-handlers-shares.go:325-366) and dispatches the go/no-go replies.    *)
(*                                                                         *)
(* The module has no specification of its own: FileTransfer composes it    *)
(* with InboundTransfers, with which it shares the two message queues.     *)
(***************************************************************************)
EXTENDS Naturals, Sequences

CONSTANTS
    Transfers,       \* transfer IDs
    None,            \* no transfer
    Requested,       \* those asked for with a ServiceRequest
    Block,           \* payloads
    Source,          \* Source[t]: the blocks of the file when stat looks at it
    Extra,           \* the block that a growing file gains
    FileMayChange    \* files may shrink or grow while they are copied

VARIABLES
    out,             \* each OutboundTransfer and the goroutine that drives it
    server,          \* the transfer whose ServiceRequest the loop is serving
    toLocal,         \* messages on their way to the receiver
    toRemote,        \* messages on their way to this peer
    up               \* the connection carries data

outVars == <<out, server>>

OutAt == {"idle", "opening", "starting", "awaitGo", "sending", "done"}

OutTypeOK ==
    /\ out \in [Transfers -> [at : OutAt, go : BOOLEAN, left : Seq(Block), sent : Seq(Block),
                              shrank : BOOLEAN]]   \* history: cut below what stat saw
    /\ server \in Transfers \cup {None}

OutInit ==
    /\ out = [t \in Transfers |-> [at |-> "idle", go |-> FALSE, left |-> Source[t], sent |-> <<>>,
                                  shrank |-> FALSE]]
    /\ server = None

\* ExpectedSize: the size that stat reported.
Declared(t) == Len(Source[t])

Send(m) == toLocal' = IF up THEN Append(toLocal, m) ELSE toLocal
Move(t, at) == out' = [out EXCEPT ![t].at = at]

-----------------------------------------------------------------------------
\* The sender's receive loop.  While it serves a request it reads nothing:
\* HandleRequest returns when the HTTP handler has.
LoopReads(type) ==
    /\ server = None
    /\ toRemote # <<>>
    /\ Head(toRemote).type = type
    /\ toRemote' = Tail(toRemote)

HandleServiceRequest ==
    LET t == Head(toRemote).id IN
    /\ LoopReads("ServiceRequest")
    /\ server' = t
    /\ Move(t, "opening")
    /\ UNCHANGED <<toLocal, up>>

\* DataProceed and DataTerminate do nothing but answer the SendMessageChecked
\* of Initialize, if it is still waiting; a reply that comes before it waits is
\* dropped (CheckedMessages).
HandleGoNoGo(taken) ==
    LET m == Head(toRemote) IN
    /\ LoopReads("DataProceed") \/ LoopReads("DataTerminate")
    /\ taken => m.id # None /\ out[m.id].at = "awaitGo"
    /\ out' = IF taken
              THEN [out EXCEPT ![m.id].at = IF m.type = "DataProceed" THEN "sending" ELSE "done",
                               ![m.id].go = (m.type = "DataProceed")]
              ELSE out
    /\ UNCHANGED <<server, toLocal, up>>

\* Nobody waits for the answer to a DataFinalize.
HandleVerdict ==
    /\ LoopReads("Acknowledgment") \/ LoopReads("DataFailed")
    /\ UNCHANGED <<out, server, toLocal, up>>

\* Slip, or rather what the comment of TransferFile promises: the handler does
\* not wait for the receiver's go-ahead.
HandlerReturns_AtOnce(t) ==
    /\ server = t
    /\ out[t].at # "opening"
    /\ Send([type |-> "ServiceOK", id |-> t])
    /\ server' = None
    /\ UNCHANGED <<out, toRemote, up>>

\* The handler returns once TransferFile has: 204 after a successful
\* Initialize, else 500 (404 when the file cannot be opened).
HandlerReturns(t) ==
    /\ server = t
    /\ out[t].at \in {"sending", "done"}
    /\ Send([type |-> IF out[t].go THEN "ServiceOK" ELSE "ServiceError", id |-> t])
    /\ server' = None
    /\ UNCHANGED <<out, toRemote, up>>

-----------------------------------------------------------------------------
\* TransferFile, TransferData and the OutboundTransfer.

\* An application that knows the transfer ID sends from a goroutine of its own
\* (peer/peer_comms_test.go:137).
CallTransferData(t) ==
    /\ t \notin Requested
    /\ out[t].at = "idle"
    /\ Move(t, "starting")
    /\ UNCHANGED <<server, toLocal, toRemote, up>>

OpenFile(t) ==
    /\ out[t].at = "opening"
    /\ Move(t, "starting")
    /\ UNCHANGED <<server, toLocal, toRemote, up>>

OpenFails(t) ==
    /\ out[t].at = "opening"
    /\ Move(t, "done")
    /\ UNCHANGED <<server, toLocal, toRemote, up>>

SendDataStart(t) ==
    /\ out[t].at = "starting"
    /\ Send([type |-> "DataStart", id |-> t, size |-> Declared(t)])
    /\ Move(t, "awaitGo")
    /\ UNCHANGED <<server, toRemote, up>>


\* Slip: no answer is taken for a go-ahead.
GoNoGoTimesOut_Proceeds(t) ==
    /\ out[t].at = "awaitGo"
    /\ Move(t, "sending")
    /\ UNCHANGED <<server, toLocal, toRemote, up>>

GoNoGoTimesOut(t) ==
    /\ out[t].at = "awaitGo"
    /\ Move(t, "done")
    /\ UNCHANGED <<server, toLocal, toRemote, up>>

\* io.Copy reads what the file holds now, which need not be what stat saw.
FileShrinks(t) ==
    /\ FileMayChange
    /\ out[t].at = "sending"
    /\ out[t].left # <<>>
    /\ out' = [out EXCEPT ![t].left = <<>>, ![t].shrank = Len(out[t].sent) < Declared(t)]
    /\ UNCHANGED <<server, toLocal, toRemote, up>>

FileGrows(t) ==
    /\ FileMayChange
    /\ out[t].at = "sending"
    /\ Len(out[t].sent) + Len(out[t].left) = Len(Source[t])
    /\ out' = [out EXCEPT ![t].left = Append(@, Extra)]
    /\ UNCHANGED <<server, toLocal, toRemote, up>>

\* OutboundTransfer.Write within the declared size.
SendDataBlock(t) ==
    LET x == out[t] IN
    /\ x.at = "sending"
    /\ x.left # <<>>
    /\ Len(x.sent) < Declared(t)
    /\ Send([type |-> "DataBlock", id |-> t, data |-> Head(x.left)])
    /\ out' = [out EXCEPT ![t].sent = Append(@, Head(x.left)), ![t].left = Tail(@)]
    /\ UNCHANGED <<server, toRemote, up>>

\* Slip: the copy stops, and the transfer is closed as if it were complete.
RefuseToWrite_Closes(t) ==
    LET x == out[t] IN
    /\ x.at = "sending"
    /\ x.left # <<>>
    /\ Len(x.sent) >= Declared(t) \/ ~up
    /\ Send([type |-> "DataFinalize", id |-> t, sum |-> x.sent])
    /\ Move(t, "done")
    /\ UNCHANGED <<server, toRemote, up>>

\* OutboundTransfer.Write beyond it, or on a connection that is down: the
\* transfer is completed with an error and io.Copy stops.
RefuseToWrite(t) ==
    LET x == out[t] IN
    /\ x.at = "sending"
    /\ x.left # <<>>
    /\ Len(x.sent) >= Declared(t) \/ ~up
    /\ Send([type |-> "DataFailed", id |-> t])
    /\ Move(t, "done")
    /\ UNCHANGED <<server, toRemote, up>>

\* Close: completeTransfer without an error.  That less was sent than DataStart
\* announced is not looked at.
SendDataFinalize(t) ==
    /\ out[t].at = "sending"
    /\ out[t].left = <<>>
    /\ Send([type |-> "DataFinalize", id |-> t, sum |-> out[t].sent])
    /\ Move(t, "done")
    /\ UNCHANGED <<server, toRemote, up>>

-----------------------------------------------------------------------------
SenderLoop ==
    \/ HandleServiceRequest
    \/ \E taken \in BOOLEAN : HandleGoNoGo(taken)
    \/ HandleVerdict
    \/ \E t \in Transfers : HandlerReturns(t)

Sender(t) ==
    \/ OpenFile(t)
    \/ OpenFails(t)
    \/ SendDataStart(t)
    \/ GoNoGoTimesOut(t)
    \/ SendDataBlock(t)
    \/ RefuseToWrite(t)
    \/ SendDataFinalize(t)

Changes(t) == FileShrinks(t) \/ FileGrows(t)
=============================================================================
