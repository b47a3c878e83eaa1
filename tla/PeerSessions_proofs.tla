------------------------ MODULE PeerSessions_proofs -------------------------
(***************************************************************************)
(* For any sessions, monitors and callers: Inv is an inductive invariant   *)
(* of PeerSessions.                                                        *)
(***************************************************************************)
EXTENDS PeerSessions, TLAPS

\* Nothing is connected, listed or removed at the start.
LEMMA InitInv == Init => Inv
BY SessionsAssumption DEF Init, Inv, TypeOK, OpenIsAccountedFor, ListedIsKept, Listed, Shaking, Starting,
   RegistrationsAgree, RemovalsAgree, Registering, RegAt, ProcAt, Remover, At

\* A step of whoever brings a session up, the listener, a monitor or an API call
\* (local_peer.go:257-293, 385-472, 547-573), keeps the invariant.
LEMMA RegistrarStep ==
    ASSUME Inv, NEW r \in Registrars, Registrar(r)
    PROVE  Inv'
<1> USE SessionsAssumption
    DEF Inv, TypeOK, OpenIsAccountedFor, ListedIsKept, Listed, Twin, Shaking, Starting, RegistrationsAgree,
        RemovalsAgree, Registering, RegAt, ProcAt, Remover, At
<1>1. ASSUME NEW s \in Sessions, Connects(r, s)
      PROVE  Inv'
      BY <1>1 DEF Connects
<1>2. CASE DialFails(r)
      BY <1>2 DEF DialFails, AfterFailure, Go
<1>3. CASE HandshakeFails(r)
      <2>1. TypeOK'
            BY <1>3 DEF HandshakeFails, AfterFailure, Release
      <2>2. OpenIsAccountedFor'
            BY <1>3 DEF HandshakeFails, AfterFailure, Release
      <2>3. ListedIsKept'
            BY <1>3 DEF HandshakeFails, AfterFailure, Release
      <2>4. RegistrationsAgree'
            BY <1>3 DEF HandshakeFails, AfterFailure, Release
      <2>5. RemovalsAgree'
            BY <1>3 DEF HandshakeFails, AfterFailure, Release
      <2> QED BY <2>1, <2>2, <2>3, <2>4, <2>5
<1>4. CASE Register(r)
      <2>1. TypeOK'
            BY <1>4 DEF Register, Go
      <2>2. OpenIsAccountedFor'
            BY <1>4 DEF Register, Go
      <2>3. ListedIsKept'
            BY <1>4 DEF Register, Go
      <2>4. RegistrationsAgree'
            BY <1>4 DEF Register, Go
      <2>5. RemovalsAgree'
            BY <1>4 DEF Register, Go
      <2> QED BY <2>1, <2>2, <2>3, <2>4, <2>5
<1>5. CASE StartLoop(r)
      <2>1. TypeOK'
            BY <1>5 DEF StartLoop, Step, Go
      <2>2. OpenIsAccountedFor'
            BY <1>5 DEF StartLoop, Step, Go
      <2>3. ListedIsKept'
            BY <1>5 DEF StartLoop, Step, Go
      <2>4. RegistrationsAgree'
            BY <1>5 DEF StartLoop, Step, Go
      <2>5. RemovalsAgree'
            BY <1>5 DEF StartLoop, Step, Go
      <2> QED BY <2>1, <2>2, <2>3, <2>4, <2>5
<1>6. CASE Announce(r)
      <2>1. \/ reg' = [reg EXCEPT ![r].at = "heartbeat"]
            \/ \E at \in {"dial", "done"} : reg' = [reg EXCEPT ![r] = [at |-> at, s |-> NoSession]]
            BY <1>6 DEF Announce, Go, Release
      <2>2. reg[r].at = "announce" /\ UNCHANGED <<conn, table, proc, found>>
            BY <1>6 DEF Announce
      <2>3. CASE reg' = [reg EXCEPT ![r].at = "heartbeat"]
            <3>1. TypeOK'
                  BY <2>2, <2>3
            <3>2. OpenIsAccountedFor'
                  BY <2>2, <2>3
            <3>3. ListedIsKept'
                  BY <2>2, <2>3
            <3>4. RegistrationsAgree'
                  BY <2>2, <2>3
            <3>5. RemovalsAgree'
                  BY <2>2, <2>3
            <3> QED BY <3>1, <3>2, <3>3, <3>4, <3>5
      <2>4. ASSUME NEW at \in {"dial", "done"},
                   reg' = [reg EXCEPT ![r] = [at |-> at, s |-> NoSession]]
            PROVE  Inv'
            <3>1. TypeOK'
                  BY <2>2, <2>4
            <3>2. OpenIsAccountedFor'
                  BY <2>2, <2>4
            <3>3. ListedIsKept'
                  BY <2>2, <2>4
            <3>4. RegistrationsAgree'
                  <4>1. /\ \A q \in Registrars \ {r} : reg'[q].at = reg[q].at /\ reg'[q].s = reg[q].s
                        /\ reg'[r].at = at /\ reg'[r].s = NoSession
                        BY <2>4
                  <4>2. at \notin {"handshake", "start"}
                        OBVIOUS
                  <4>3. \A p, q \in Registrars :
                           reg'[p].at \in Registering /\ reg'[q].s = reg'[p].s => q = p
                        BY <4>1, <4>2
                  <4>4. \A q \in Registrars : reg'[q].s # NoSession => conn'[reg'[q].s] # "none"
                        BY <2>2, <4>1
                  <4>5. \A q \in Registrars :
                           /\ reg'[q].at \in Registering => proc'[reg'[q].s]["loop"] = "none"
                           /\ reg'[q].at = "handshake" => ~Listed(reg'[q].s)
                        BY <2>2, <4>1, <4>2
                  <4> QED BY <2>2, <4>3, <4>4, <4>5
            <3>5. RemovalsAgree'
                  BY <2>2, <2>4
            <3> QED BY <3>1, <3>2, <3>3, <3>4, <3>5
      <2> QED BY <2>1, <2>3, <2>4
<1> QED BY <1>1, <1>2, <1>3, <1>4, <1>5, <1>6 DEF Registrar

\* A step of a monitor between two connections (local_peer.go:586-625) keeps the
\* invariant.
LEMMA MonitorStep ==
    ASSUME Inv, NEW m \in Monitors, Monitor(m)
    PROVE  Inv'
<1> USE SessionsAssumption
    DEF Inv, TypeOK, OpenIsAccountedFor, ListedIsKept, Listed, Twin, Shaking, Starting, RegistrationsAgree,
        RemovalsAgree, Registering, RegAt, ProcAt, Remover, At
<1>1. m \in Registrars
      BY DEF Registrars
<1>2. CASE DialRefused(m)
      BY <1>1, <1>2 DEF DialRefused, Go
<1>3. CASE HeartbeatFails(m)
      <2>1. TypeOK'
            BY <1>1, <1>3 DEF HeartbeatFails, Go
      <2>2. OpenIsAccountedFor'
            BY <1>1, <1>3 DEF HeartbeatFails, Go
      <2>3. ListedIsKept'
            BY <1>1, <1>3 DEF HeartbeatFails, Go
      <2>4. RegistrationsAgree'
            BY <1>1, <1>3 DEF HeartbeatFails, Go
      <2>5. RemovalsAgree'
            BY <1>1, <1>3 DEF HeartbeatFails, Go
      <2> QED BY <2>1, <2>2, <2>3, <2>4, <2>5
<1>4. CASE MonitorDisconnects(m)
      <2>1. TypeOK'
            BY <1>1, <1>4 DEF MonitorDisconnects, Release
      <2>2. OpenIsAccountedFor'
            BY <1>1, <1>4 DEF MonitorDisconnects, Release
      <2>3. ListedIsKept'
            BY <1>1, <1>4 DEF MonitorDisconnects, Release
      <2>4. RegistrationsAgree'
            BY <1>1, <1>4 DEF MonitorDisconnects, Release
      <2>5. RemovalsAgree'
            BY <1>1, <1>4 DEF MonitorDisconnects, Release
      <2> QED BY <2>1, <2>2, <2>3, <2>4, <2>5
<1>5. CASE WakeUp(m)
      BY <1>1, <1>5 DEF WakeUp, Go
<1> QED BY <1>2, <1>3, <1>4, <1>5 DEF Monitor

\* A step that ends a session, by the network, the receive loop or an API call
\* (remote_peer.go:428-446, local_peer.go:524-545), keeps the invariant.
LEMMA EndsStep ==
    ASSUME Inv, NEW s \in Sessions, Ends(s)
    PROVE  Inv'
<1> USE SessionsAssumption
    DEF Inv, TypeOK, OpenIsAccountedFor, ListedIsKept, Listed, Twin, Shaking, Starting, RegistrationsAgree,
        RemovalsAgree, Registering, RegAt, ProcAt, Remover, At
<1>1. CASE ConnectionBreaks(s)
      BY <1>1 DEF ConnectionBreaks
<1>2. CASE ReceiveFails(s)
      BY <1>2 DEF ReceiveFails, Step
<1>3. CASE LoopDisconnects(s)
      BY <1>3 DEF LoopDisconnects, Step
<1>4. CASE ApiRemovesPeer(s)
      <2>1. TypeOK'
            BY <1>4 DEF ApiRemovesPeer, Step
      <2>2. OpenIsAccountedFor'
            BY <1>4 DEF ApiRemovesPeer, Step
      <2>3. ListedIsKept'
            BY <1>4 DEF ApiRemovesPeer, Step
      <2>4. RegistrationsAgree'
            BY <1>4 DEF ApiRemovesPeer, Step
      <2>5. RemovalsAgree'
            BY <1>4 DEF ApiRemovesPeer, Step
      <2> QED BY <2>1, <2>2, <2>3, <2>4, <2>5
<1>5. ASSUME NEW k \in Remover, RemovePeerLooksUp(s, k)
      PROVE  Inv'
      BY <1>5 DEF RemovePeerLooksUp, Step
<1>6. ASSUME NEW k \in Remover, RemovePeerDisconnects(s, k)
      PROVE  Inv'
      <2>1. TypeOK'
            BY <1>6 DEF RemovePeerDisconnects, Step
      <2>2. OpenIsAccountedFor'
            BY <1>6 DEF RemovePeerDisconnects, Step
      <2>3. ListedIsKept'
            BY <1>6 DEF RemovePeerDisconnects, Step
      <2>4. RegistrationsAgree'
            BY <1>6 DEF RemovePeerDisconnects, Step
      <2>5. RemovalsAgree'
            BY <1>6 DEF RemovePeerDisconnects, Step
      <2> QED BY <2>1, <2>2, <2>3, <2>4, <2>5
<1>7. ASSUME NEW k \in Remover, RemovePeerRemoves(s, k)
      PROVE  Inv'
      <2>1. TypeOK'
            BY <1>7 DEF RemovePeerRemoves, Step
      <2>2. OpenIsAccountedFor'
            BY <1>7 DEF RemovePeerRemoves, Step
      <2>3. ListedIsKept'
            BY <1>7 DEF RemovePeerRemoves, Step
      <2>4. RegistrationsAgree'
            BY <1>7 DEF RemovePeerRemoves, Step
      <2>5. RemovalsAgree'
            BY <1>7 DEF RemovePeerRemoves, Step
      <2> QED BY <2>1, <2>2, <2>3, <2>4, <2>5
<1> QED BY <1>1, <1>2, <1>3, <1>4, <1>5, <1>6, <1>7 DEF Ends, RemovePeer

\* No open connection is lost from sight, unless another session was given its ID,
\* and every listed session has a receive loop that has not ended, for any number of
\* sessions, IDs, monitors and API calls (local_peer.go:257-283, 385-472, 524-626; remote_peer.go:428-446).
THEOREM SessionsSafe == Spec => []Inv
<1>1. Inv /\ [Next]_vars => Inv'
      <2> SUFFICES ASSUME Inv, [Next]_vars
                   PROVE  Inv'
          OBVIOUS
      <2>1. CASE Next
            BY <2>1, RegistrarStep, MonitorStep, EndsStep DEF Next
      <2>2. CASE UNCHANGED vars
            BY <2>2 DEF vars, Inv, TypeOK, OpenIsAccountedFor, ListedIsKept, Listed, Twin, Shaking, Starting,
               RegistrationsAgree, RemovalsAgree, At
      <2> QED BY <2>1, <2>2
<1> QED BY InitInv, <1>1, PTL DEF Spec

-----------------------------------------------------------------------------
\* Steps that move at most one session along its life are steps of SessionLifecycle.
LEMMA OneMoves ==
    ASSUME NEW s \in Sessions,
           \A q \in Sessions \ {s} : State(q)' = State(q),
           \/ State(s)' = State(s)
           \/ State(s) = "live" /\ State(s)' = "dead"
           \/ State(s) = "dead" /\ State(s)' = "gone"
           \/ /\ State(s) = "live" /\ State(s)' = "gone"
              /\ \E q \in Sessions \ {s} : SessionId[q] = SessionId[s]
    PROVE  [Life!Next]_States
<1>1. CASE State(s)' = State(s)
      BY <1>1 DEF States
<1>2. CASE State(s)' # State(s)
      <2>1. States' = [States EXCEPT ![s] = State(s)']
            BY DEF States
      <2>2. States[s] = State(s)
            BY DEF States
      <2>3. Life!Die(s) \/ Life!Leave(s) \/ Life!Lost(s)
            BY <1>2, <2>1, <2>2 DEF Life!Die, Life!Leave, Life!Lost, Life!Twins, Life!Becomes
      <2> QED BY <2>3 DEF Life!Next
<1> QED BY <1>1, <1>2

\* So is one that lists a session in the place of those with its ID.
LEMMA OneConnects ==
    ASSUME NEW s \in Sessions, State(s) = "new", State(s)' \in {"live", "dead"},
           \A q \in Sessions \ {s} :
              State(q)' = IF SessionId[q] = SessionId[s] /\ State(q) # "new" THEN "gone"
                          ELSE State(q)
    PROVE  [Life!Next]_States
<1> PICK at \in {"live", "dead"} : at = State(s)'
    OBVIOUS
<1>1. /\ States = [q \in Sessions |-> State(q)]
      /\ States' = [q \in Sessions |-> State(q)']
      BY DEF States
<1>2. \A q \in Sessions : q \in Life!Twins(s) <=> q # s /\ SessionId[q] = SessionId[s]
      BY DEF Life!Twins
<1>3. Life!Connect(s, at)
      BY <1>1, <1>2 DEF Life!Connect
<1> QED BY <1>3 DEF Life!Next

\* Bringing a session up lists it once, live or already dead.
LEMMA RegistrarRefines ==
    ASSUME Inv, NEW r \in Registrars, Registrar(r)
    PROVE  [Life!Next]_States
<1> USE SessionsAssumption
    DEF Inv, TypeOK, ListedIsKept, Listed, RegistrationsAgree, RemovalsAgree, Registering,
        Remover, At, State, Shaking, Starting
<1>1. ASSUME NEW s \in Sessions, Connects(r, s)
      PROVE  [Life!Next]_States
      BY <1>1 DEF Connects, States
<1>2. CASE DialFails(r)
      BY <1>2 DEF DialFails, AfterFailure, Go, States
<1>3. CASE HandshakeFails(r)
      BY <1>3 DEF HandshakeFails, AfterFailure, Release, States
<1>4. CASE Register(r)
      <2>1. PICK s \in Sessions : s = reg[r].s
            BY <1>4 DEF Register
      <2>2. State(s) = "new"
            BY <1>4, <2>1 DEF Register, Go
      <2>3. State(s)' \in {"live", "dead"}
            BY <1>4, <2>1 DEF Register, Go
      <2>4. ASSUME NEW q \in Sessions \ {s}
            PROVE  State(q)' = IF SessionId[q] = SessionId[s] /\ State(q) # "new" THEN "gone"
                               ELSE State(q)
            <3>1. /\ conn'[q] = conn[q]
                  /\ proc'[q]["loop"] = proc[q]["loop"]
                  BY <1>4, <2>1 DEF Register, Go
            <3>2. \A p \in Registrars : reg'[p].at = "start" /\ reg'[p].s = q
                                         <=> reg[p].at = "start" /\ reg[p].s = q
                  BY <1>4, <2>1 DEF Register, Go
            <3>3. CASE SessionId[q] = SessionId[s]
                  <4>1. ~Listed(q)'
                        BY <1>4, <2>1, <3>3 DEF Register
                  <4>2. State(q)' = IF proc[q]["loop"] = "none" /\ ~Starting(q) THEN "new" ELSE "gone"
                        BY <3>1, <3>2, <4>1
                  <4>3. Listed(q) => proc[q]["loop"] # "none" \/ Starting(q)
                        OBVIOUS
                  <4> QED BY <3>3, <4>2, <4>3
            <3>4. CASE SessionId[q] # SessionId[s]
                  <4>1. Listed(q)' <=> Listed(q)
                        BY <1>4, <2>1, <3>4 DEF Register
                  <4> QED BY <3>1, <3>2, <3>4, <4>1
            <3> QED BY <3>3, <3>4
      <2> QED BY <2>2, <2>3, <2>4, OneConnects
<1>5. CASE StartLoop(r)
      BY <1>5 DEF StartLoop, Step, Go, States
<1>6. CASE Announce(r)
      <2>1. \A q \in Sessions : Starting(q)' <=> Starting(q)
            <3>1. /\ \A p \in Registrars \ {r} : reg'[p].at = reg[p].at /\ reg'[p].s = reg[p].s
                  /\ reg[r].at = "announce" /\ reg'[r].at # "start"
                  BY <1>6 DEF Announce, Go, Release
            <3> QED BY <3>1
      <2>2. \A q \in Sessions : State(q)' = State(q)
            BY <1>6, <2>1 DEF Announce
      <2> QED BY <2>2 DEF States
<1> QED BY <1>1, <1>2, <1>3, <1>4, <1>5, <1>6 DEF Registrar

\* A monitor between two connections can only end the session it has.
LEMMA MonitorRefines ==
    ASSUME Inv, NEW m \in Monitors, Monitor(m)
    PROVE  [Life!Next]_States
<1> USE SessionsAssumption
    DEF Inv, TypeOK, ListedIsKept, Listed, RegistrationsAgree, RemovalsAgree, Registering, Remover,
        At, State, Shaking, Starting
<1>1. m \in Registrars
      BY DEF Registrars
<1>2. CASE DialRefused(m)
      BY <1>1, <1>2 DEF DialRefused, Go, States
<1>3. CASE HeartbeatFails(m)
      BY <1>1, <1>3 DEF HeartbeatFails, Go, States
<1>4. CASE MonitorDisconnects(m)
      <2>1. PICK s \in Sessions : s = reg[m].s
            BY <1>1, <1>4 DEF MonitorDisconnects
      <2>2. \A q \in Sessions : Starting(q)' <=> Starting(q)
            BY <1>1, <1>4 DEF MonitorDisconnects, Release
      <2>3. /\ table' = table /\ proc' = proc
            /\ conn' = [conn EXCEPT ![s] = "closed"]
            BY <1>4, <2>1 DEF MonitorDisconnects
      <2>4. \A q \in Sessions \ {s} : State(q)' = State(q)
            BY <2>1, <2>2, <2>3
      <2>5. State(s)' = State(s) \/ (State(s) = "live" /\ State(s)' = "dead")
            BY <2>1, <2>2, <2>3
      <2> QED BY <2>1, <2>4, <2>5, OneMoves
<1>5. CASE WakeUp(m)
      BY <1>1, <1>5 DEF WakeUp, Go, States
<1> QED BY <1>2, <1>3, <1>4, <1>5 DEF Monitor

\* What ends a session ends one: it dies first and leaves the list dead, or in the
\* place of another that had its ID.
LEMMA EndsRefines ==
    ASSUME Inv, NEW s \in Sessions, Ends(s)
    PROVE  [Life!Next]_States
<1> USE SessionsAssumption
    DEF Inv, TypeOK, ListedIsKept, Listed, RegistrationsAgree, RemovalsAgree, Registering,
        Remover, At, State, Shaking, Starting
<1> DEFINE Dies(p) == /\ \A q \in Sessions \ {p} : State(q)' = State(q)
                      /\ State(p)' = State(p) \/ (State(p) = "live" /\ State(p)' = "dead")
<1>1. ASSUME NEW p \in Sessions, Dies(p)
      PROVE  [Life!Next]_States
      BY <1>1, OneMoves
<1>2. CASE ConnectionBreaks(s)
      BY <1>1, <1>2 DEF ConnectionBreaks
<1>3. CASE ReceiveFails(s)
      BY <1>1, <1>3 DEF ReceiveFails, Step
<1>4. CASE LoopDisconnects(s)
      BY <1>1, <1>4 DEF LoopDisconnects, Step
<1>5. CASE ApiRemovesPeer(s)
      BY <1>1, <1>5 DEF ApiRemovesPeer, Step
<1>6. ASSUME NEW k \in Remover, RemovePeerLooksUp(s, k)
      PROVE  [Life!Next]_States
      BY <1>1, <1>6 DEF RemovePeerLooksUp, Step
<1>7. ASSUME NEW k \in Remover, RemovePeerDisconnects(s, k)
      PROVE  [Life!Next]_States
      <2>1. PICK p \in Sessions : p = found[s][k]
            BY <1>7 DEF RemovePeerDisconnects
      <2>2. Dies(p)
            BY <1>7, <2>1 DEF RemovePeerDisconnects, Step
      <2> QED BY <1>1, <2>2
<1>8. ASSUME NEW k \in Remover, RemovePeerRemoves(s, k)
      PROVE  [Life!Next]_States
      <2>1. /\ table' = [table EXCEPT ![SessionId[s]] = NoSession] /\ SessionId[s] \in Ids
            /\ conn' = conn /\ reg' = reg
            /\ \A q \in Sessions : proc'[q]["loop"] = "none" <=> proc[q]["loop"] = "none"
            BY <1>8 DEF RemovePeerRemoves, Step
      <2>2. /\ found[s][k] \in Sessions /\ SessionId[found[s][k]] = SessionId[s]
            /\ conn[found[s][k]] = "closed"
            BY <1>8 DEF RemovePeerRemoves
      <2>3. CASE table[SessionId[s]] = NoSession
            <3>1. \A q \in Sessions : State(q)' = State(q)
                  BY <2>1, <2>3
            <3> QED BY <3>1 DEF States
      <2>4. ASSUME NEW p \in Sessions, p = table[SessionId[s]]
            PROVE  [Life!Next]_States
            <3>1. SessionId[p] = SessionId[s]
                  BY <2>1, <2>4
            <3>2. \A q \in Sessions \ {p} : Listed(q)' <=> Listed(q)
                  BY <2>1, <2>4
            <3>3. \A q \in Sessions \ {p} : State(q)' = State(q)
                  BY <2>1, <3>2
            <3>4. ~Listed(p)' /\ Listed(p)
                  BY <2>1, <2>4, <3>1
            <3>5. State(p)' = "gone"
                  BY <2>1, <3>4
            <3>6. State(p) = "dead" \/ (State(p) = "live" /\ p # found[s][k])
                  BY <2>2, <3>4
            <3> HIDE DEF State
            <3> QED BY <2>2, <3>1, <3>3, <3>5, <3>6, OneMoves
      <2> QED BY <2>1, <2>3, <2>4
<1> QED BY <1>2, <1>3, <1>4, <1>5, <1>6, <1>7, <1>8 DEF Ends, RemovePeer

\* PeerSessions implements SessionLifecycle, but for its liveness: a session is
\* listed once, dies once and leaves the list dead, whoever removes it, or, if it
\* shares its ID, in the place of another (local_peer.go:385-545,
\* remote_peer.go:428-451).
THEOREM SessionsRefine == Spec => Life!Init /\ [][Life!Next]_States
<1>1. Init => Life!Init
      BY SessionsAssumption DEF Init, Life!Init, States, State, Shaking, Starting, Remover, Listed
<1>2. Inv /\ [Next]_vars => [Life!Next]_States
      <2> SUFFICES ASSUME Inv, [Next]_vars
                   PROVE  [Life!Next]_States
          OBVIOUS
      <2>1. CASE Next
            BY <2>1, RegistrarRefines, MonitorRefines, EndsRefines DEF Next
      <2>2. CASE UNCHANGED vars
            <3>1. \A s \in Sessions : State(s)' = State(s)
                  BY <2>2 DEF vars, State, Starting, Listed, At
            <3> QED BY <3>1 DEF States
      <2> QED BY <2>1, <2>2
<1> QED BY <1>1, <1>2, SessionsSafe, PTL DEF Spec
=============================================================================
