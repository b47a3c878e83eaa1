-------------------------- MODULE SessionLifecycle --------------------------
(***************************************************************************)
(* What the other components may rely on when they look a session up       *)
(* (peer/local_peer.go:488-545): a session is listed once, it dies once,   *)
(* only dead sessions are taken off the list, and each dead one is; but a  *)
(* session that shares its ID may be replaced, or taken off in the place   *)
(* of another, while it lives.  PeerSessions implements this module.       *)
(***************************************************************************)
CONSTANTS
    Sessions,     \* the connections that are made
    SessionId,    \* the session ID of each
    Hanging       \* sessions that may hang: it is not promised that they leave

VARIABLE state

Init == state = [s \in Sessions |-> "new"]

Twins(s) == {q \in Sessions \ {s} : SessionId[q] = SessionId[s]}

Becomes(s, from, to) ==
    /\ state[s] \in from
    /\ state' = [state EXCEPT ![s] = to]

Connect(s, at) ==
    /\ state[s] = "new"
    /\ state' = [q \in Sessions |->
                    IF q = s THEN at
                    ELSE IF q \in Twins(s) /\ state[q] # "new" THEN "gone"
                    ELSE state[q]]

Die(s)   == Becomes(s, {"live"}, "dead")
Leave(s) == Becomes(s, {"dead"}, "gone")
Lost(s)  == Twins(s) # {} /\ Becomes(s, {"live"}, "gone")

Next == \E s \in Sessions :
    (\E at \in {"live", "dead"} : Connect(s, at)) \/ Die(s) \/ Leave(s) \/ Lost(s)

Spec == Init /\ [][Next]_state /\ \A s \in Sessions \ Hanging : WF_state(Leave(s))
=============================================================================
