---------------------------- MODULE RequestReply ----------------------------
(***************************************************************************)
(* What SendMessageChecked promises its callers (peer/remote_peer.go,      *)
(* comment of lines 277-283): a call whose request has been handed to the  *)
(* connection ends, either with a reply the remote peer really gave to     *)
(* that very request, or with an error.  Until then nothing is promised:   *)
(* SendMessage has no deadline.  Nothing is said of the reply table, of    *)
(* goroutines or of the connection: CheckedMessages implements this module.*)
(***************************************************************************)
CONSTANT Calls        \* the checked calls, one per GroupID

VARIABLE status       \* what is known of each call

Status == {"idle", "issued", "open", "answered", "replied", "failed"}

Init == status = [c \in Calls |-> "idle"]

Become(c, from, to) ==
    /\ status[c] \in from
    /\ status' = [status EXCEPT ![c] = to]

Issue(c)   == Become(c, {"idle"}, "issued")
HandOn(c)  == Become(c, {"issued"}, "open")
Refuse(c)  == Become(c, {"issued"}, "failed")
Answer(c)  == Become(c, {"open"}, "answered")
Succeed(c) == Become(c, {"answered"}, "replied")
Fail(c)    == Become(c, {"open", "answered"}, "failed")

Next == \E c \in Calls :
    Issue(c) \/ HandOn(c) \/ Refuse(c) \/ Answer(c) \/ Succeed(c) \/ Fail(c)

\* A call that was handed on does not stay open for ever.
Fairness == \A c \in Calls : WF_status(Succeed(c) \/ Fail(c))

Spec == Init /\ [][Next]_status /\ Fairness
=============================================================================
