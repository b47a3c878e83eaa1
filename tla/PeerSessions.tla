---------------------------- MODULE PeerSessions -----------------------------
(***************************************************************************)
(* The sessions of one LocalPeer (peer/local_peer.go): connections that    *)
(* the listener accepts, that a monitor dials and watches with heartbeats, *)
(* or that an API call dials; RegisterPeer, which lists the session and    *)
(* starts its receive loop; and their removal by that loop, after a        *)
(* heartbeat that failed, or by an API call (api-handlers.go:175-190).     *)
(*                                                                         *)
(* The receive loop is here only as what ends a session; what it does with *)
(* messages is in CheckedMessages and InboundTransfers.  PeerConnected and *)
(* PeerDisconnected are sent without blocking; Subscriptions models what   *)
(* their receiver makes of them.                                           *)
(*                                                                         *)
(* A session's ID is the one in the remote's peering request: a remote     *)
(* that dials us chose it at random (peer/request.go:20-43), one we dialed *)
(* is to send ours back.  Nothing here checks that it is new, so sessions  *)
(* may share an ID, and the list keeps the last of them.                   *)
(***************************************************************************)
EXTENDS Naturals, FiniteSets

CONSTANTS
    Sessions,     \* the connections that are made
    Ids,          \* session IDs
    SessionId,    \* the ID each session is given by the remote
    NoSession,    \* none
    Hanging,      \* those that have inbound transfers: their receive loop may hang in a
                  \* transfer's timer (transfer.go:157-163), and their Disconnect in the
                  \* removal of a transfer inside the iteration over the concurrent map
                  \* that holds it (remote_peer.go:194-199); see InboundTransfers
    Listener,     \* the accept loop
    Monitors,     \* the goroutines of ConnectToAndMonitor, one for each address
    Callers,      \* API calls of ConnectTo
    MaxSessions   \* bound on the connections made, of those in Sessions

ASSUME SessionsAssumption ==
    NoSession \notin Sessions /\ Hanging \subseteq Sessions /\ SessionId \in [Sessions -> Ids]
ASSUME RegistrarsAssumption ==
    Listener \notin Monitors \cup Callers /\ Monitors \cap Callers = {}

VARIABLES
    conn,         \* the TCP connection of each session
    table,        \* LocalPeer.sessions: the session listed under each ID
    reg,          \* each registrar and the session it is registering or watching
    proc,         \* each session's receive loop, and an API call that removes it
    found         \* the session each RemovePeer got from the list

vars == <<conn, table, reg, proc, found>>

Listed(s) == table[SessionId[s]] = s

Registrars == {Listener} \cup Monitors \cup Callers
Remover == {"loop", "api"}

RegAt == {"dial", "handshake", "start", "announce", "heartbeat", "disconnect",
          "sleep", "gaveUp", "done"}
ProcAt == {"none", "reading", "closing", "lookup", "close", "drop", "ended"}

At(r, at) == reg[r].at = at
Go(r, at) == reg' = [reg EXCEPT ![r].at = at]
Release(r, at) == reg' = [reg EXCEPT ![r] = [at |-> at, s |-> NoSession]]
Step(s, k, at) == proc' = [proc EXCEPT ![s][k] = at]

TypeOK ==
    /\ conn \in [Sessions -> {"none", "open", "broken", "closed"}]
    /\ table \in [Ids -> Sessions \cup {NoSession}]
    /\ reg \in [Registrars -> [at : RegAt, s : Sessions \cup {NoSession}]]
    /\ \A r \in Registrars :
          reg[r].at \in {"dial", "sleep", "gaveUp", "done"} <=> reg[r].s = NoSession
    /\ proc \in [Sessions -> [Remover -> ProcAt]]
    /\ found \in [Sessions -> [Remover -> Sessions \cup {NoSession}]]

Init ==
    /\ conn = [s \in Sessions |-> "none"]
    /\ table = [i \in Ids |-> NoSession]
    /\ reg = [r \in Registrars |-> [at |-> "dial", s |-> NoSession]]
    /\ proc = [s \in Sessions |-> [k \in Remover |-> "none"]]
    /\ found = [s \in Sessions |-> [k \in Remover |-> NoSession]]

-----------------------------------------------------------------------------
\* Where a registrar goes when its registration has failed, or is complete.
AfterFailure(r) == IF r = Listener THEN "dial" ELSE IF r \in Monitors THEN "sleep" ELSE "done"

\* AcceptTCP or DialTCP.
Connects(r, s) ==
    /\ At(r, "dial")
    /\ conn[s] = "none"
    /\ Cardinality({q \in Sessions : conn[q] # "none"}) < MaxSessions
    /\ conn' = [conn EXCEPT ![s] = "open"]
    /\ reg' = [reg EXCEPT ![r] = [at |-> "handshake", s |-> s]]
    /\ UNCHANGED <<table, proc, found>>

DialFails(r) ==
    /\ r # Listener
    /\ At(r, "dial")
    /\ Go(r, AfterFailure(r))
    /\ UNCHANGED <<conn, table, proc, found>>

\* Connection refused, a name that cannot be resolved, or ourselves: the monitor
\* returns for good.
DialRefused(m) ==
    /\ At(m, "dial")
    /\ Go(m, "gaveUp")
    /\ UNCHANGED <<conn, table, proc, found>>

\* Slip: the connection of a handshake that failed is left open.
HandshakeFails_LeavesOpen(r) ==
    /\ At(r, "handshake")
    /\ Release(r, AfterFailure(r))
    /\ UNCHANGED <<conn, table, proc, found>>

\* The peering requests cannot be exchanged, or the peer is not an authorized one.
HandshakeFails(r) ==
    /\ At(r, "handshake")
    /\ conn' = [conn EXCEPT ![reg[r].s] = "closed"]
    /\ Release(r, AfterFailure(r))
    /\ UNCHANGED <<table, proc, found>>

\* The session takes the place of one that is listed under the same ID.
Register(r) ==
    /\ At(r, "handshake")
    /\ table' = [table EXCEPT ![SessionId[reg[r].s]] = reg[r].s]
    /\ Go(r, "start")
    /\ UNCHANGED <<conn, proc, found>>

StartLoop(r) ==
    /\ At(r, "start")
    /\ Step(reg[r].s, "loop", "reading")
    /\ Go(r, "announce")
    /\ UNCHANGED <<conn, table, found>>

\* broadcastPeerEvent(PeerConnected), then back to whoever registers.
Announce(r) ==
    /\ At(r, "announce")
    /\ IF r \in Monitors THEN Go(r, "heartbeat")
       ELSE Release(r, IF r = Listener THEN "dial" ELSE "done")
    /\ UNCHANGED <<conn, table, proc, found>>

-----------------------------------------------------------------------------
\* ConnectToAndMonitor, once connected.

\* Slip: a heartbeat that fails ends the monitor.
HeartbeatFails_GivesUp(m) ==
    /\ At(m, "heartbeat")
    /\ Release(m, "gaveUp")
    /\ UNCHANGED <<conn, table, proc, found>>

\* The message cannot be sent, or its answer does not come in time, which on an
\* open connection may happen as well.
HeartbeatFails(m) ==
    /\ At(m, "heartbeat")
    /\ Go(m, "disconnect")
    /\ UNCHANGED <<conn, table, proc, found>>

MonitorDisconnects(m) ==
    /\ At(m, "disconnect")
    /\ conn' = [conn EXCEPT ![reg[m].s] = "closed"]
    /\ Release(m, "sleep")
    /\ UNCHANGED <<table, proc, found>>

WakeUp(m) ==
    /\ At(m, "sleep")
    /\ Go(m, "dial")
    /\ UNCHANGED <<conn, table, proc, found>>

-----------------------------------------------------------------------------
\* The end of a session.

ConnectionBreaks(s) ==
    /\ conn[s] = "open"
    /\ conn' = [conn EXCEPT ![s] = "broken"]
    /\ UNCHANGED <<table, reg, proc, found>>

ReceiveFails(s) ==
    /\ proc[s]["loop"] = "reading"
    /\ conn[s] # "open"
    /\ Step(s, "loop", "closing")
    /\ UNCHANGED <<conn, table, reg, found>>

LoopDisconnects(s) ==
    /\ proc[s]["loop"] = "closing"
    /\ conn' = [conn EXCEPT ![s] = "closed"]
    /\ Step(s, "loop", "lookup")
    /\ UNCHANGED <<table, reg, found>>

\* An API call disconnects a session that is listed.
ApiRemovesPeer(s) ==
    /\ proc[s]["api"] = "none"
    /\ Listed(s)
    /\ Step(s, "api", "lookup")
    /\ UNCHANGED <<conn, table, reg, found>>

\* RemovePeer: an unknown ID is an error, a known one is announced.
RemovePeerLooksUp(s, k) ==
    /\ proc[s][k] = "lookup"
    /\ found' = [found EXCEPT ![s][k] = table[SessionId[s]]]
    /\ Step(s, k, IF table[SessionId[s]] = NoSession THEN "ended" ELSE "close")
    /\ UNCHANGED <<conn, table, reg>>

\* Slip: RemovePeer returns the error of a connection that was closed before.
RemovePeerDisconnects_ReturnsError(s, k) ==
    /\ proc[s][k] = "close"
    /\ conn' = [conn EXCEPT ![found[s][k]] = "closed"]
    /\ Step(s, k, IF conn[found[s][k]] = "closed" THEN "ended" ELSE "drop")
    /\ UNCHANGED <<table, reg, found>>

\* It disconnects the session it found, which may have taken the place of s.
RemovePeerDisconnects(s, k) ==
    /\ proc[s][k] = "close"
    /\ conn' = [conn EXCEPT ![found[s][k]] = "closed"]
    /\ Step(s, k, "drop")
    /\ UNCHANGED <<table, reg, found>>

\* It removes what is listed under the ID by now.
RemovePeerRemoves(s, k) ==
    /\ proc[s][k] = "drop"
    /\ table' = [table EXCEPT ![SessionId[s]] = NoSession]
    /\ Step(s, k, "ended")
    /\ UNCHANGED <<conn, reg, found>>

-----------------------------------------------------------------------------
Registrar(r) ==
    \/ \E s \in Sessions : Connects(r, s)
    \/ DialFails(r) \/ HandshakeFails(r) \/ Register(r) \/ StartLoop(r) \/ Announce(r)

Monitor(m) == DialRefused(m) \/ HeartbeatFails(m) \/ MonitorDisconnects(m) \/ WakeUp(m)

RemovePeer(s, k) == RemovePeerLooksUp(s, k) \/ RemovePeerDisconnects(s, k) \/ RemovePeerRemoves(s, k)

Ends(s) ==
    \/ ConnectionBreaks(s) \/ ReceiveFails(s) \/ LoopDisconnects(s) \/ ApiRemovesPeer(s)
    \/ \E k \in Remover : RemovePeer(s, k)

Next ==
    \/ \E r \in Registrars : Registrar(r)
    \/ \E m \in Monitors : Monitor(m)
    \/ \E s \in Sessions : Ends(s)

\* Goroutines that can run do, and a heartbeat on a dead connection fails.  No
\* peer is assumed to dial or to finish a handshake, no connection to break, and
\* nothing that may hang to return.
Fairness ==
    /\ \A r \in Registrars : WF_vars(StartLoop(r) \/ Announce(r))
    /\ \A m \in Monitors : /\ WF_vars(HeartbeatFails(m) /\ conn[reg[m].s] # "open")
                           /\ WF_vars(MonitorDisconnects(m) /\ reg[m].s \notin Hanging)
                           /\ WF_vars(WakeUp(m))
    /\ \A s \in Sessions \ Hanging : WF_vars(ReceiveFails(s)) /\ WF_vars(LoopDisconnects(s))
    /\ \A s \in Sessions, k \in Remover :
          /\ WF_vars(RemovePeerLooksUp(s, k) \/ RemovePeerRemoves(s, k))
          /\ WF_vars(RemovePeerDisconnects(s, k) /\ found[s][k] \notin Hanging)

Spec == Init /\ [][Next]_vars /\ Fairness

-----------------------------------------------------------------------------
\* Another session was given the same ID.
Twin(s) == \E q \in Sessions \ {s} : SessionId[q] = SessionId[s] /\ conn[q] # "none"

Shaking(s)  == \E r \in Registrars : reg[r].s = s /\ At(r, "handshake")
Starting(s) == \E r \in Registrars : reg[r].s = s /\ At(r, "start")

\* No connection is lost from sight: one that is open is in a handshake, or somebody
\* reads it, and it is listed, so that it can be found and closed, unless another
\* session came with its ID (local_peer.go:265-283, 385-459, 524-567).
OpenIsAccountedFor ==
    \A s \in Sessions : conn[s] = "open" =>
        \/ Shaking(s)
        \/ /\ proc[s]["loop"] = "reading" \/ Starting(s)
           /\ Listed(s) \/ Twin(s)

\* A listed session has a receive loop, or is about to get one, that takes it off
\* the list if it does not hang, whoever else disconnects or removes it, or the
\* session whose place it took (remote_peer.go:432-435).
ListedIsKept ==
    \A s \in Sessions : Listed(s) =>
        \/ proc[s]["loop"] \in ProcAt \ {"none", "ended"}
        \/ Starting(s)

\* The facts that make the above inductive: a registration has its session to
\* itself, and what is about to be removed has been closed.
Registering == {"handshake", "start"}
RegistrationsAgree ==
    /\ \A r, q \in Registrars :
          reg[r].at \in Registering /\ reg[q].s = reg[r].s => q = r
    /\ \A r \in Registrars : reg[r].s # NoSession => conn[reg[r].s] # "none"
    /\ \A r \in Registrars : reg[r].at \in Registering => proc[reg[r].s]["loop"] = "none"
    /\ \A r \in Registrars : At(r, "handshake") => ~Listed(reg[r].s)
    /\ \A s \in Sessions : conn[s] = "none" => ~Listed(s)
    /\ \A i \in Ids : table[i] # NoSession => SessionId[table[i]] = i

RemovalsAgree ==
    \A s \in Sessions : \A k \in Remover :
        /\ proc[s][k] \in {"close", "drop"} =>
              /\ found[s][k] \in Sessions /\ SessionId[found[s][k]] = SessionId[s]
              /\ conn[found[s][k]] # "none" /\ ~Shaking(found[s][k])
        /\ proc[s][k] = "drop" => conn[found[s][k]] = "closed"
        /\ proc[s][k] # "none" => conn[s] # "none" /\ ~Shaking(s)
        /\ k = "loop" /\ proc[s][k] \in {"closing", "lookup", "close", "drop", "ended"}
              => conn[s] # "open"
        /\ k = "api" => proc[s][k] \notin {"reading", "closing"}

Inv ==
    /\ TypeOK
    /\ OpenIsAccountedFor
    /\ ListedIsKept
    /\ RegistrationsAgree
    /\ RemovalsAgree

\* A monitor whose session is dead dials again, whether the connection broke, its
\* own heartbeat failed or an API call removed the session (local_peer.go:586-623).
MonitorRecovers ==
    \A m \in Monitors :
        (At(m, "heartbeat") /\ reg[m].s \notin Hanging /\ conn[reg[m].s] # "open")
            ~> At(m, "dial")

State(s) ==
    IF Listed(s) THEN IF conn[s] = "open" THEN "live" ELSE "dead"
    ELSE IF proc[s]["loop"] = "none" /\ ~Starting(s) THEN "new" ELSE "gone"

States == [s \in Sessions |-> State(s)]

Life == INSTANCE SessionLifecycle WITH state <- States

\* PeerSessions implements SessionLifecycle: whoever disconnects or removes a
\* session, it leaves the list once, dead unless it shares its ID, and does not stay
\* on it for ever unless it may hang (local_peer.go:385-545, remote_peer.go:428-451).
ImplementsSessionLifecycle == Life!Spec
=============================================================================
