---------------------------- MODULE FileTransfer ----------------------------
(***************************************************************************)
(* A whole session between two peers of this code: InboundTransfers at the *)
(* downloading end, OutboundTransfers at the other, two FIFO queues        *)
(* between them.  A transfer of Requested is a queued download: its        *)
(* ServiceRequest makes the other side call TransferFile.  The others are  *)
(* sent by the other application with TransferData, once the receiving     *)
(* application has created them (peer/peer_comms_test.go).                 *)
(***************************************************************************)
EXTENDS InboundTransfers

CONSTANTS
    Source,          \* Source[t]: the file
    Extra,           \* the block a growing file gains
    FileMayChange    \* files may change while they are sent

ASSUME SourceAssumption == Source \in [Transfers -> Seq(Block)]
ASSUME FileAssumption == FileMayChange \in BOOLEAN /\ Extra \in Block

VARIABLES
    out,             \* the sender's transfers
    server           \* the request the sender's receive loop is serving

Snd == INSTANCE OutboundTransfers

allVars == <<xfer, table, loop, closer, toLocal, toRemote, up, out, server>>

FTInit == Init /\ Snd!OutInit

Here(A) == A /\ UNCHANGED <<out, server>>
There(A) == A /\ UNCHANGED <<xfer, table, loop, closer>>

\* The other application sends what the receiver has prepared for.
CallTransferData(t) == xfer[t].worker # "idle" /\ Snd!CallTransferData(t)

FTNext ==
    \/ Here(Beside(Local))
    \/ Here(Ends)
    \/ There(Snd!SenderLoop)
    \/ \E t \in Transfers : There(CallTransferData(t) \/ Snd!Sender(t) \/ Snd!Changes(t))

\* Goroutines that can run do, timers fire; downloads need not be started, the
\* connection need not break, files need not change.  Of the sender's steps only
\* its data may be held up for ever (a disk, a rate limit of nearly nothing).
FTFairness ==
    /\ WF_allVars(Here(Beside(LoopRuns /\ Loop)))
    /\ WF_allVars(There(Snd!SenderLoop))
    /\ \A t \in Transfers :
          /\ WF_allVars(Here(Beside(Worker(t))))
          /\ WF_allVars(Here(Beside(DataTimerFires(t))))
          /\ WF_allVars(Here(Beside(ExpirySignals(t))))
          /\ WF_allVars(Here(Beside(ExpiryFinishes(t))))
          /\ WF_allVars(There(Snd!OpenFile(t) \/ Snd!OpenFails(t)))
          /\ WF_allVars(There(Snd!SendDataStart(t)))
          /\ WF_allVars(There(Snd!GoNoGoTimesOut(t)))

FTSpec == FTInit /\ [][FTNext]_allVars /\ FTFairness

-----------------------------------------------------------------------------
\* A completed download holds the file that stat saw, its blocks in their order,
\* whatever became of the session, the timers and the other transfers; less than all
\* of it only when the file was cut short while it was sent, and never what is only a
\* beginning of a file that grew: the sender had read to its end.  Its checksum was compared with the sender's
\* (outbound_transfer.go:60-142, transfer.go:90-155).
CompletedIsTheSource ==
    \A t \in Transfers : xfer[t].result = "ok" =>
        /\ xfer[t].file = out[t].sent /\ xfer[t].against = out[t].sent
        /\ xfer[t].file = SubSeq(Source[t], 1, Len(xfer[t].file))
        /\ out[t].left = <<>>
        /\ ~out[t].shrank => Len(xfer[t].file) = Len(Source[t])

\* The words of remote_peer.go:341-342, "the receiving peer will verify that the
\* received data is exactly that length": a completed download that expected a
\* size has that size (transfer.go:135-143 looks for too much only).
CompletedHasDeclaredSize ==
    \A t \in Transfers :
        xfer[t].result = "ok" /\ Expected[t] > 0 => Len(xfer[t].file) = Expected[t]

\* A download that was asked for with a ServiceRequest never succeeds.  The
\* sender's only receive loop serves the request until TransferFile returns, and
\* TransferFile first waits for a DataProceed that only that loop can hand to it
\* (remote_peer.go:385-390, 428-446, 576-587; api-handlers-shares.go:349).
RequestedNeverSucceeds == \A t \in Requested : xfer[t].result # "ok"

\* Data is sent only for a transfer that the receiver let start: DataBlock
\* follows DataProceed (outbound_transfer.go:37-58, remote_peer.go:495-529).
NoDataBeforeProceed ==
    \A t \in Transfers : out[t].sent # <<>> => out[t].go

\* Both ends are well formed, and the receiver's invariant survives the sender.
FTInv == Inv /\ Snd!OutTypeOK /\ NoDataBeforeProceed

=============================================================================
