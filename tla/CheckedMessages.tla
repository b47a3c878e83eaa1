-------------------------- MODULE CheckedMessages ---------------------------
(***************************************************************************)
(* One session's request/reply machinery, peer/remote_peer.go: callers in  *)
(* SendMessageChecked, the table messagesAwaitingReply, the receive loop's *)
(* dispatch, and the remote peer, which runs the same receive loop and     *)
(* answers the requests in the order in which they were encrypted.         *)
(*                                                                         *)
(* A call is named by its GroupID.  A message is the GroupID it carries:   *)
(* type and payload do not matter to the dispatch.                         *)
(***************************************************************************)
EXTENDS Naturals, Sequences, FiniteSets

CONSTANTS
    Calls,        \* GroupIDs of the checked calls made on this session
    NoCall,       \* not a GroupID
    MaxAnswers    \* most messages the remote sends under one GroupID

ASSUME NoCallAssumption == NoCall \notin Calls
ASSUME MaxAnswersAssumption == MaxAnswers \in Nat \ {0}

VARIABLES
    pc,           \* where each caller stands in SendMessageChecked
    outcome,      \* what each call will return
    awaiting,     \* keys of messagesAwaitingReply
    requests,     \* requests on their way to the remote peer
    replies,      \* messages on their way back
    answered,     \* history: the calls the remote has answered
    loop,         \* the receive loop and the message in its hands
    up            \* the connection carries data

vars == <<pc, outcome, awaiting, requests, replies, answered, loop, up>>

InCall == {"registered", "sent", "waiting"}      \* before the select has chosen
Idle == [at |-> "read", id |-> NoCall]

TypeOK ==
    /\ pc \in [Calls -> {"idle", "leaving", "returned"} \cup InCall]
    /\ outcome \in [Calls -> {"none", "reply", "timeout", "error"}]
    /\ awaiting \subseteq Calls
    /\ requests \in Seq(Calls)
    /\ replies \in Seq(Calls)
    /\ answered \subseteq Calls
    /\ loop \in [at : {"read", "lookup", "dispatch", "stopped"}, id : Calls \cup {NoCall}]
    /\ loop.at \in {"lookup", "dispatch"} => loop.id \in Calls
    /\ up \in BOOLEAN

Init ==
    /\ pc = [c \in Calls |-> "idle"]
    /\ outcome = [c \in Calls |-> "none"]
    /\ awaiting = {}
    /\ requests = <<>>
    /\ replies = <<>>
    /\ answered = {}
    /\ loop = Idle
    /\ up = TRUE

-----------------------------------------------------------------------------
\* The caller's goroutine.

Register(c) ==
    /\ pc[c] = "idle"
    /\ pc' = [pc EXCEPT ![c] = "registered"]
    /\ awaiting' = awaiting \cup {c}
    /\ UNCHANGED <<outcome, requests, replies, answered, loop, up>>

\* SendMessage returned nil.  On a connection that has gone down the bytes
\* may still have been accepted by the kernel, and are lost.
SendOK(c) ==
    /\ pc[c] = "registered"
    /\ pc' = [pc EXCEPT ![c] = "sent"]
    /\ requests' = IF up THEN Append(requests, c) ELSE requests
    /\ UNCHANGED <<outcome, awaiting, replies, answered, loop, up>>

\* The connection is down; or the rate limiter of the session refuses a message
\* larger than its burst, after it has written it (util/rate_limiter.go:73-92).
SendFails(c) ==
    /\ pc[c] = "registered"
    /\ pc' = [pc EXCEPT ![c] = "leaving"]
    /\ outcome' = [outcome EXCEPT ![c] = "error"]
    /\ requests' = IF up THEN Append(requests, c) ELSE requests
    /\ UNCHANGED <<awaiting, replies, answered, loop, up>>

\* The caller reaches its select: from here on a send on replyChan finds it.
EnterSelect(c) ==
    /\ pc[c] = "sent"
    /\ pc' = [pc EXCEPT ![c] = "waiting"]
    /\ UNCHANGED <<outcome, awaiting, requests, replies, answered, loop, up>>

\* Slip: a timer that the reply did not disarm.
TimeoutFires_AfterReply(c) ==
    /\ pc[c] \in {"waiting", "leaving"}
    /\ pc' = [pc EXCEPT ![c] = "leaving"]
    /\ outcome' = [outcome EXCEPT ![c] = "timeout"]
    /\ UNCHANGED <<awaiting, requests, replies, answered, loop, up>>

\* Slip: a select without its time.After case.
TimeoutFires_Missing(c) == FALSE /\ c \in Calls /\ UNCHANGED vars

TimeoutFires(c) ==
    /\ pc[c] = "waiting"
    /\ pc' = [pc EXCEPT ![c] = "leaving"]
    /\ outcome' = [outcome EXCEPT ![c] = "timeout"]
    /\ UNCHANGED <<awaiting, requests, replies, answered, loop, up>>

\* Slip: the deferred clean-up is forgotten.
RemoveMessageReply_Forgotten(c) ==
    /\ pc[c] = "leaving"
    /\ pc' = [pc EXCEPT ![c] = "returned"]
    /\ UNCHANGED <<outcome, awaiting, requests, replies, answered, loop, up>>

RemoveMessageReply(c) ==
    /\ pc[c] = "leaving"
    /\ pc' = [pc EXCEPT ![c] = "returned"]
    /\ awaiting' = awaiting \ {c}
    /\ UNCHANGED <<outcome, requests, replies, answered, loop, up>>

-----------------------------------------------------------------------------
\* The receive loop: ReceiveMessages and the end of receiveMessagesIterate.

ReceiveMessage ==
    /\ loop.at = "read"
    /\ replies # <<>>
    /\ loop' = [at |-> "lookup", id |-> Head(replies)]
    /\ replies' = Tail(replies)
    /\ UNCHANGED <<pc, outcome, awaiting, requests, answered, up>>

\* The table is read under messageReplyLock, which is released at once.
LookupReplyChan ==
    /\ loop.at = "lookup"
    /\ loop' = IF loop.id \in awaiting THEN [loop EXCEPT !.at = "dispatch"] ELSE Idle
    /\ UNCHANGED <<pc, outcome, awaiting, requests, replies, answered, up>>

\* select { case replyChan <- message: }
Deliver(c) ==
    /\ loop = [at |-> "dispatch", id |-> c]
    /\ pc[c] = "waiting"
    /\ pc' = [pc EXCEPT ![c] = "leaving"]
    /\ outcome' = [outcome EXCEPT ![c] = "reply"]
    /\ loop' = Idle
    /\ UNCHANGED <<awaiting, requests, replies, answered, up>>

\* Slip: a plain send on the unbuffered replyChan, without the default branch.
DropReply_Blocks(c) == FALSE /\ c \in Calls /\ UNCHANGED vars

\* select { default: self.RemoveMessageReply(message.GroupID) }
DropReply(c) ==
    /\ loop = [at |-> "dispatch", id |-> c]
    /\ pc[c] # "waiting"
    /\ awaiting' = awaiting \ {c}
    /\ loop' = Idle
    /\ UNCHANGED <<pc, outcome, requests, replies, answered, up>>

\* ReceiveMessage returns an error once the connection is down.
LoopStops ==
    /\ loop.at = "read"
    /\ ~up
    /\ loop' = [loop EXCEPT !.at = "stopped"]
    /\ UNCHANGED <<pc, outcome, awaiting, requests, replies, answered, up>>

-----------------------------------------------------------------------------
\* The remote peer's receive loop, and the connection.

\* The remote handles the oldest request and sends n messages that carry its
\* GroupID: none when HandleRequest fails, one as a rule, two for a transfer
\* (DataProceed, then Acknowledgment or DataFailed).
RemoteAnswers(n) ==
    /\ up
    /\ requests # <<>>
    /\ requests' = Tail(requests)
    /\ replies' = replies \o [i \in 1..n |-> Head(requests)]
    /\ answered' = IF n = 0 THEN answered ELSE answered \cup {Head(requests)}
    /\ UNCHANGED <<pc, outcome, awaiting, loop, up>>

ConnectionBreaks ==
    /\ up
    /\ up' = FALSE
    /\ requests' = <<>>
    /\ UNCHANGED <<pc, outcome, awaiting, replies, answered, loop>>

-----------------------------------------------------------------------------
Return(c) == RemoveMessageReply(c)
Advance(c) == Register(c) \/ SendOK(c) \/ SendFails(c) \/ EnterSelect(c)

Caller(c) == Advance(c) \/ TimeoutFires(c) \/ Return(c)
Dispatch == \E c \in Calls : Deliver(c) \/ DropReply(c)
Loop == ReceiveMessage \/ LookupReplyChan \/ Dispatch \/ LoopStops
Remote == \E n \in 0..MaxAnswers : RemoteAnswers(n)

Next == (\E c \in Calls : Caller(c)) \/ Loop \/ Remote \/ ConnectionBreaks

\* The Go scheduler runs every goroutine that is not blocked, and time.After
\* fires.  Nothing is assumed of the remote, of the connection, or of a caller
\* that has not yet called; nor of SendMessage, which has no deadline: it waits
\* for Encryption's lock, or for a remote that does not read, as long as it takes
\* (lines 244-275), and the timer is armed only once it has returned.
Fairness ==
    /\ \A c \in Calls : /\ WF_vars(EnterSelect(c))
                        /\ WF_vars(TimeoutFires(c))
                        /\ WF_vars(Return(c))
    /\ WF_vars(ReceiveMessage)
    /\ WF_vars(LookupReplyChan)
    /\ WF_vars(Dispatch)

Spec == Init /\ [][Next]_vars /\ Fairness

-----------------------------------------------------------------------------
\* No entry outlives its call: once a caller has returned, its GroupID is out
\* of messagesAwaitingReply, whichever of the caller and the loop removed it
\* (remote_peer.go:294, 309-313, 613).
TableHoldsOpenCalls == \A c \in awaiting : pc[c] \in InCall \cup {"leaving"}

\* A call that is still in SendMessageChecked loses its table entry only
\* because the remote has answered it: a dispatch for one GroupID, or a
\* caller's own clean-up, never unregisters somebody else (remote_peer.go:309-313).
EntryLostOnlyToAnAnswer == \A c \in Calls : pc[c] \in InCall => c \in awaiting \cup answered

\* A call returns a reply only if the remote answered that very request,
\* whatever was dropped, late or sent twice (remote_peer.go:277-279).
ReplyWasGiven == \A c \in Calls : outcome[c] = "reply" => c \in answered

\* Everything on its way to a caller stems from an answer.
InFlightWasGiven ==
    /\ \A i \in 1..Len(replies) : replies[i] \in answered
    /\ loop.at \in {"lookup", "dispatch"} => loop.id \in answered

\* The outcome is decided exactly when the caller leaves its select.
OutcomeMatchesPC ==
    \A c \in Calls : outcome[c] = "none" <=> pc[c] \in InCall \cup {"idle"}

\* The inductive invariant of this module.
Inv ==
    /\ TypeOK
    /\ TableHoldsOpenCalls
    /\ EntryLostOnlyToAnAnswer
    /\ ReplyWasGiven
    /\ InFlightWasGiven
    /\ OutcomeMatchesPC

\* A call never changes its result: a late or duplicated reply, or a timer that
\* fires after the reply, touches nothing (remote_peer.go:297-303, 607-614).
OutcomeIsFinal ==
    [][\A c \in Calls : outcome[c] # "none" => outcome'[c] = outcome[c]]_vars

\* The receive loop is never held up by a caller: whatever it has read it
\* hands on or drops, and it goes back to reading (remote_peer.go:607-614).
LoopReturnsToReading == loop.at = "lookup" ~> loop.at = "read"

\* CheckedMessages implements RequestReply.
Abstract(c) ==
    CASE outcome[c] = "reply" -> "replied"
      [] outcome[c] \in {"timeout", "error"} -> "failed"
      [] outcome[c] = "none" /\ pc[c] = "idle" -> "idle"
      [] outcome[c] = "none" /\ pc[c] = "registered" -> "issued"
      [] outcome[c] = "none" /\ pc[c] \notin {"idle", "registered"} /\ c \in answered -> "answered"
      [] OTHER -> "open"

RR == INSTANCE RequestReply WITH status <- [c \in Calls |-> Abstract(c)]

\* A call ends once SendMessage has returned, with a reply the remote gave or with
\* an error, whatever the remote does; the table, the races of the dispatch and a
\* connection that breaks do not show (remote_peer.go:284-313).
ImplementsRequestReply == RR!Spec
=============================================================================
