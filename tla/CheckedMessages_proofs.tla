----------------------- MODULE CheckedMessages_proofs -----------------------
(***************************************************************************)
(* For every set of calls and every MaxAnswers: Inv is an inductive        *)
(* invariant of CheckedMessages, the outcome of a call is final, and each  *)
(* step is one of RequestReply.                                            *)
(***************************************************************************)
EXTENDS CheckedMessages, TLAPS

\* Init establishes the invariant: no call has been made, nothing is in flight.
LEMMA InitInv == Init => Inv
BY NoCallAssumption DEF Init, Inv, TypeOK, TableHoldsOpenCalls, EntryLostOnlyToAnAnswer,
   ReplyWasGiven, InFlightWasGiven, OutcomeMatchesPC, InCall, Idle

\* A step of a caller inside SendMessageChecked (remote_peer.go:284-313) keeps
\* the invariant.
LEMMA CallerStep ==
    ASSUME Inv, NEW c \in Calls, Caller(c)
    PROVE  Inv'
<1> USE DEF Inv, TypeOK, TableHoldsOpenCalls, EntryLostOnlyToAnAnswer,
            ReplyWasGiven, InFlightWasGiven, OutcomeMatchesPC, InCall
<1>1. CASE Register(c)
      BY <1>1 DEF Register
<1>2. CASE SendOK(c)
      BY <1>2 DEF SendOK
<1>3. CASE SendFails(c)
      <2>1. requests' \in Seq(Calls)
            BY <1>3 DEF SendFails
      <2> QED BY <1>3, <2>1 DEF SendFails
<1>4. CASE EnterSelect(c)
      BY <1>4 DEF EnterSelect
<1>5. CASE TimeoutFires(c)
      BY <1>5 DEF TimeoutFires
<1>6. CASE RemoveMessageReply(c)
      BY <1>6 DEF RemoveMessageReply
<1> QED BY <1>1, <1>2, <1>3, <1>4, <1>5, <1>6 DEF Caller, Advance, Return

\* A step of the receive loop (remote_peer.go:602-615) keeps the invariant.
LEMMA LoopStep ==
    ASSUME Inv, Loop
    PROVE  Inv'
<1> USE DEF Inv, TypeOK, TableHoldsOpenCalls, EntryLostOnlyToAnAnswer,
            ReplyWasGiven, InFlightWasGiven, OutcomeMatchesPC, InCall, Idle
<1>1. CASE ReceiveMessage
      <2>1. /\ Head(replies) \in Calls
            /\ Head(replies) \in answered
            /\ Tail(replies) \in Seq(Calls)
            BY <1>1 DEF ReceiveMessage
      <2>2. \A i \in 1..Len(Tail(replies)) : Tail(replies)[i] \in answered
            BY <1>1 DEF ReceiveMessage
      <2> QED BY <1>1, <2>1, <2>2 DEF ReceiveMessage
<1>2. CASE LookupReplyChan
      BY <1>2 DEF LookupReplyChan
<1>3. ASSUME NEW c \in Calls, Deliver(c)
      PROVE  Inv'
      BY <1>3 DEF Deliver
<1>4. ASSUME NEW c \in Calls, DropReply(c)
      PROVE  Inv'
      <2>1. c \in answered
            BY <1>4 DEF DropReply
      <2> QED BY <1>4, <2>1 DEF DropReply
<1>5. CASE LoopStops
      BY <1>5 DEF LoopStops
<1> QED BY <1>1, <1>2, <1>3, <1>4, <1>5 DEF Loop, Dispatch

\* A step of the remote peer or of the network keeps the invariant.
LEMMA OutsideStep ==
    ASSUME Inv, Remote \/ ConnectionBreaks
    PROVE  Inv'
<1> USE DEF Inv, TypeOK, TableHoldsOpenCalls, EntryLostOnlyToAnAnswer,
            ReplyWasGiven, InFlightWasGiven, OutcomeMatchesPC, InCall
<1>1. ASSUME NEW n \in 0..MaxAnswers, RemoteAnswers(n)
      PROVE  Inv'
      <2> DEFINE h == Head(requests)
                 copies == [i \in 1..n |-> h]
      <2>1. /\ n \in Nat
            /\ h \in Calls
            /\ Tail(requests) \in Seq(Calls)
            BY <1>1, MaxAnswersAssumption DEF RemoteAnswers
      <2>2. /\ copies \in Seq(Calls)
            /\ Len(copies) = n
            BY <2>1
      <2>3. /\ replies \o copies \in Seq(Calls)
            /\ Len(replies \o copies) = Len(replies) + n
            /\ \A i \in 1..Len(replies \o copies) :
                  (replies \o copies)[i] = IF i <= Len(replies) THEN replies[i] ELSE h
            BY <2>1, <2>2
      <2>4. \A i \in 1..Len(replies \o copies) : (replies \o copies)[i] \in answered'
            BY <1>1, <2>1, <2>3 DEF RemoteAnswers
      <2>5. answered \subseteq answered' /\ answered' \subseteq Calls
            BY <1>1, <2>1 DEF RemoteAnswers
      <2> QED BY <1>1, <2>1, <2>3, <2>4, <2>5 DEF RemoteAnswers
<1>2. CASE ConnectionBreaks
      <2>1. <<>> \in Seq(Calls)
            OBVIOUS
      <2>2. requests' = <<>> /\ UNCHANGED <<pc, outcome, awaiting, replies, answered, loop>>
            BY <1>2 DEF ConnectionBreaks
      <2>3. up' \in BOOLEAN
            BY <1>2, Zenon DEF ConnectionBreaks
      <2> QED BY <2>1, <2>2, <2>3
<1> QED BY <1>1, <1>2 DEF Remote

\* The table of awaited replies holds open calls only, an open call loses its
\* entry only to an answer, and a reply that is returned was given by the
\* remote: the request/reply machinery of remote_peer.go:284-313 and 602-615,
\* for any number of concurrent calls.
THEOREM Safety == Spec => []Inv
<1>1. Inv /\ [Next]_vars => Inv'
      <2> SUFFICES ASSUME Inv, [Next]_vars
                   PROVE  Inv'
          OBVIOUS
      <2>1. CASE Next
            BY <2>1, CallerStep, LoopStep, OutsideStep DEF Next
      <2>2. CASE UNCHANGED vars
            BY <2>2 DEF vars, Inv, TypeOK, TableHoldsOpenCalls, EntryLostOnlyToAnAnswer,
               ReplyWasGiven, InFlightWasGiven, OutcomeMatchesPC, InCall
      <2> QED BY <2>1, <2>2
<1> QED BY InitInv, <1>1, PTL DEF Spec

\* No late reply, duplicate or timer changes what a call returns
\* (remote_peer.go:297-303, 607-614).
THEOREM ResultIsFinal == Spec => OutcomeIsFinal
<1> DEFINE Stays == \A c \in Calls : outcome[c] # "none" => outcome'[c] = outcome[c]
<1>1. Inv /\ [Next]_vars => [Stays]_vars
      <2> SUFFICES ASSUME Inv, Next
                   PROVE  Stays
          OBVIOUS
      <2> USE DEF Inv, TypeOK, OutcomeMatchesPC, InCall
      <2>1. ASSUME NEW c \in Calls, Caller(c)
            PROVE  Stays
            BY <2>1 DEF Caller, Advance, Return, Register, SendOK, SendFails, EnterSelect,
               TimeoutFires, RemoveMessageReply
      <2>2. CASE Loop
            BY <2>2 DEF Loop, Dispatch, ReceiveMessage, LookupReplyChan, Deliver,
               DropReply, LoopStops
      <2>3. CASE Remote \/ ConnectionBreaks
            BY <2>3 DEF Remote, RemoteAnswers, ConnectionBreaks
      <2> QED BY <2>1, <2>2, <2>3 DEF Next
<1> QED BY Safety, <1>1, PTL DEF Spec, OutcomeIsFinal

-----------------------------------------------------------------------------
(* CheckedMessages implements RequestReply.                                *)

Lives == [c \in Calls |-> Abstract(c)]

Unsent == {"idle", "registered"}

\* Nobody is asked, and nobody answers, before SendMessage is through.
RequestsWereMade ==
    /\ \A i \in 1..Len(requests) : pc[requests[i]] \notin Unsent
    /\ \A c \in answered : pc[c] \notin Unsent

LEMMA MadeStep ==
    ASSUME Inv, RequestsWereMade, [Next]_vars
    PROVE  RequestsWereMade'
<1> USE DEF RequestsWereMade, Unsent
<1>1. pc \in [Calls -> {"idle", "leaving", "returned"} \cup InCall] /\ requests \in Seq(Calls) /\ answered \subseteq Calls
      BY DEF Inv, TypeOK
\* what was sent stays sent
<1>2. \A c \in Calls : pc[c] \notin Unsent => pc'[c] \notin Unsent
      BY <1>1 DEF Next, Caller, Advance, Return, Register, SendOK, SendFails, EnterSelect, TimeoutFires,
         RemoveMessageReply, Loop, Dispatch, ReceiveMessage, LookupReplyChan, Deliver, DropReply,
         LoopStops, Remote, RemoteAnswers, ConnectionBreaks, vars, InCall
<1>3. ASSUME requests' = requests, answered' = answered PROVE RequestsWereMade'
      BY <1>1, <1>2, <1>3
<1>4. ASSUME NEW c \in Calls, SendOK(c) \/ SendFails(c) PROVE RequestsWereMade'
      <2>1. /\ pc[c] = "registered" /\ pc'[c] \notin Unsent /\ answered' = answered
            /\ requests' = requests \/ requests' = Append(requests, c)
            BY <1>1, <1>4 DEF SendOK, SendFails
      <2>2. CASE requests' = Append(requests, c)
            <3>1. \A i \in 1..Len(requests') : requests'[i] = c \/ (i \in 1..Len(requests) /\ requests'[i] = requests[i])
                  BY <1>1, <2>2
            <3> QED BY <1>1, <1>2, <2>1, <3>1
      <2> QED BY <1>3, <2>1, <2>2
<1>5. ASSUME NEW n \in 0..MaxAnswers, RemoteAnswers(n) PROVE RequestsWereMade'
      <2>1. /\ requests # <<>> /\ requests' = Tail(requests)
            /\ answered' \subseteq answered \cup {Head(requests)}
            BY <1>5 DEF RemoteAnswers
      <2>2. Head(requests) \in Calls /\ pc[Head(requests)] \notin Unsent
            BY <1>1, <2>1
      <2>3. \A i \in 1..Len(requests') : requests'[i] = requests[i + 1] /\ i + 1 \in 1..Len(requests)
            BY <1>1, <2>1
      <2>4. \A i \in 1..Len(requests') : requests'[i] \in Calls /\ pc[requests'[i]] \notin Unsent
            BY <1>1, <2>3
      <2> QED BY <1>1, <1>2, <2>1, <2>2, <2>4
<1>6. ASSUME ConnectionBreaks PROVE RequestsWereMade'
      <2>1. requests' = <<>> /\ Len(requests') = 0 /\ answered' = answered
            BY <1>6 DEF ConnectionBreaks
      <2> QED BY <1>1, <1>2, <2>1
<1>7. ASSUME NEW c \in Calls, Register(c) \/ EnterSelect(c) \/ TimeoutFires(c) \/ Return(c)
      PROVE  requests' = requests /\ answered' = answered
      BY <1>7 DEF Register, EnterSelect, TimeoutFires, Return, RemoveMessageReply
<1>8. Loop \/ UNCHANGED vars => requests' = requests /\ answered' = answered
      BY DEF Loop, Dispatch, ReceiveMessage, LookupReplyChan, Deliver, DropReply, LoopStops, vars
<1> QED BY <1>3, <1>4, <1>5, <1>6, <1>7, <1>8 DEF Next, Caller, Advance, Remote

\* A step that moves one call along its life.
LEMMA OneMoves ==
    ASSUME NEW c \in Calls, \A x \in Calls \ {c} : Abstract(x)' = Abstract(x),
           \/ Abstract(c) = "idle" /\ Abstract(c)' = "issued"
           \/ Abstract(c) = "issued" /\ Abstract(c)' \in {"open", "failed"}
           \/ Abstract(c) = "open" /\ Abstract(c)' = "answered"
           \/ Abstract(c) = "answered" /\ Abstract(c)' = "replied"
           \/ Abstract(c) \in {"open", "answered"} /\ Abstract(c)' = "failed"
    PROVE  RR!Next
<1> PICK f : f = [x \in Calls |-> Abstract(x)]
    OBVIOUS
<1> PICK g : g = [x \in Calls |-> Abstract(x)']
    OBVIOUS
<1>1. g = [f EXCEPT ![c] = g[c]] /\ f[c] = Abstract(c) /\ g[c] = Abstract(c)'
      OBVIOUS
<1>2. \/ f[c] \in {"idle"} /\ g = [f EXCEPT ![c] = "issued"]
      \/ f[c] \in {"issued"} /\ g = [f EXCEPT ![c] = "open"]
      \/ f[c] \in {"issued"} /\ g = [f EXCEPT ![c] = "failed"]
      \/ f[c] \in {"open"} /\ g = [f EXCEPT ![c] = "answered"]
      \/ f[c] \in {"answered"} /\ g = [f EXCEPT ![c] = "replied"]
      \/ f[c] \in {"open", "answered"} /\ g = [f EXCEPT ![c] = "failed"]
      BY <1>1
<1> QED BY <1>2 DEF RR!Next, RR!Issue, RR!HandOn, RR!Refuse, RR!Answer, RR!Succeed, RR!Fail, RR!Become

LEMMA NextCall ==
    ASSUME Inv, RequestsWereMade, [Next]_vars
    PROVE  [RR!Next]_Lives
<1>0. /\ pc \in [Calls -> {"idle", "leaving", "returned"} \cup InCall]
      /\ outcome \in [Calls -> {"none", "reply", "timeout", "error"}]
      /\ requests \in Seq(Calls) /\ answered \subseteq Calls
      /\ \A c \in Calls : outcome[c] = "none" <=> pc[c] \in InCall \cup {"idle"}
      BY DEF Inv, TypeOK, OutcomeMatchesPC
<1>1. ASSUME \A x \in Calls : Abstract(x)' = Abstract(x)
      PROVE  UNCHANGED Lives
      BY <1>1 DEF Lives
\* a step that changes neither a result, nor who is unsent, nor who was answered
<1>2. ASSUME outcome' = outcome, answered' = answered,
             \A x \in Calls : /\ pc'[x] = "idle" <=> pc[x] = "idle"
                             /\ pc'[x] = "registered" <=> pc[x] = "registered"
      PROVE  \A x \in Calls : Abstract(x)' = Abstract(x)
      BY <1>2 DEF Abstract
<1>3. ASSUME NEW c \in Calls, Register(c) PROVE RR!Next
      <2>2. Abstract(c) = "idle" /\ Abstract(c)' = "issued"
            BY <1>0, <1>3 DEF Register, Abstract, InCall
      <2>3. \A x \in Calls \ {c} : Abstract(x)' = Abstract(x)
            BY <1>0, <1>3 DEF Register, Abstract
      <2> QED BY <2>2, <2>3, OneMoves
<1>4. ASSUME NEW c \in Calls, SendFails(c) \/ TimeoutFires(c) PROVE RR!Next
      <2>1. /\ pc[c] \in InCall /\ outcome[c] = "none" /\ outcome'[c] \in {"error", "timeout"}
            /\ \A x \in Calls \ {c} : outcome'[x] = outcome[x] /\ pc'[x] = pc[x]
            /\ answered' = answered
            BY <1>0, <1>4 DEF SendFails, TimeoutFires, InCall
      <2>2. Abstract(c) \in {"issued", "open", "answered"} /\ Abstract(c)' = "failed"
            BY <2>1 DEF Abstract, InCall
      <2>3. \A x \in Calls \ {c} : Abstract(x)' = Abstract(x)
            BY <2>1 DEF Abstract
      <2> QED BY <2>2, <2>3, OneMoves
<1>5. ASSUME NEW c \in Calls, Deliver(c) PROVE RR!Next
      <2>1. /\ pc[c] = "waiting" /\ outcome[c] = "none" /\ outcome'[c] = "reply" /\ c \in answered
            /\ \A x \in Calls \ {c} : outcome'[x] = outcome[x] /\ pc'[x] = pc[x]
            /\ answered' = answered
            BY <1>0, <1>5 DEF Deliver, InCall, Inv, InFlightWasGiven
      <2>2. Abstract(c) = "answered" /\ Abstract(c)' = "replied"
            BY <2>1 DEF Abstract
      <2>3. \A x \in Calls \ {c} : Abstract(x)' = Abstract(x)
            BY <2>1 DEF Abstract
      <2> QED BY <2>2, <2>3, OneMoves
<1>6. ASSUME NEW n \in 0..MaxAnswers, RemoteAnswers(n)
      PROVE  RR!Next \/ \A x \in Calls : Abstract(x)' = Abstract(x)
      <2> PICK h : h = Head(requests)
          OBVIOUS
      <2>1. /\ h \in Calls /\ pc[h] \notin {"idle", "registered"} /\ pc' = pc /\ outcome' = outcome
            /\ answered' = answered \/ answered' = answered \cup {h}
            BY <1>0, <1>6 DEF RemoteAnswers, RequestsWereMade, Unsent
      <2>2. CASE answered' = answered \/ h \in answered \/ outcome[h] # "none"
            BY <2>1, <2>2 DEF Abstract
      <2>3. CASE answered' = answered \cup {h} /\ h \notin answered /\ outcome[h] = "none"
            <3>1. Abstract(h) = "open" /\ Abstract(h)' = "answered"
                  BY <2>1, <2>3 DEF Abstract
            <3>2. \A x \in Calls \ {h} : Abstract(x)' = Abstract(x)
                  BY <2>1, <2>3 DEF Abstract
            <3> QED BY <2>1, <3>1, <3>2, OneMoves
      <2> QED BY <2>1, <2>2, <2>3
<1>9. ASSUME NEW c \in Calls, SendOK(c) PROVE RR!Next
      <2>1. c \notin answered
            BY <1>9 DEF RequestsWereMade, Unsent, SendOK
      <2>2. Abstract(c) = "issued" /\ Abstract(c)' = "open"
            BY <1>0, <1>9, <2>1 DEF SendOK, Abstract, InCall
      <2>3. \A x \in Calls \ {c} : Abstract(x)' = Abstract(x)
            BY <1>0, <1>9 DEF SendOK, Abstract
      <2> QED BY <2>2, <2>3, OneMoves
<1>7. ASSUME NEW c \in Calls, EnterSelect(c) \/ Return(c)
      PROVE  \A x \in Calls : Abstract(x)' = Abstract(x)
      BY <1>0, <1>2, <1>7 DEF EnterSelect, Return, RemoveMessageReply
<1>8. ASSUME ReceiveMessage \/ LookupReplyChan \/ LoopStops \/ (\E c \in Calls : DropReply(c))
             \/ ConnectionBreaks \/ UNCHANGED vars
      PROVE  \A x \in Calls : Abstract(x)' = Abstract(x)
      BY <1>2, <1>8 DEF ReceiveMessage, LookupReplyChan, LoopStops, DropReply, ConnectionBreaks, vars
<1> QED BY <1>1, <1>3, <1>4, <1>5, <1>6, <1>7, <1>8, <1>9 DEF Next, Caller, Advance, Loop, Dispatch, Remote

\* The initial states and the steps of SendMessageChecked, the receive loop and the
\* remote are those of RequestReply: a call is issued by its registration, open once
\* SendMessage has returned, and ends with a reply that was given to it or with an
\* error, once (remote_peer.go:277-313, 602-615).  That it ends is left to the model checker.
THEOREM StepsOfRequestReply ==
    Spec => RR!Init /\ [][RR!Next]_Lives
<1>1. Init => RR!Init /\ RequestsWereMade
      BY DEF Init, RR!Init, Abstract, RequestsWereMade
<1>2. Inv /\ RequestsWereMade /\ [Next]_vars => RequestsWereMade'
      BY MadeStep
<1>3. Inv /\ RequestsWereMade /\ [Next]_vars => [RR!Next]_Lives
      BY NextCall
<1> QED BY <1>1, <1>2, <1>3, Safety, PTL DEF Spec
=============================================================================
