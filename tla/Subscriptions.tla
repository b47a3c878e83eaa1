--------------------------- MODULE Subscriptions ---------------------------
(***************************************************************************)
(* Subscriptions: what Application.monitorPeerEvents, Application.Sync,    *)
(* Subscription.Sync and DownloadQueue.Add do with the sessions that come  *)
(* and go.  The monitor is one goroutine that receives peer events from an *)
(* unbuffered channel on which nobody waits to send; an API call may have  *)
(* one subscription synced at the same time.  Sessions are looked up by    *)
(* name in one place, by ID in another, and by the authorized peer of      *)
(* their key in a third.  The remote peers' answers, the local files and   *)
(* the database are external.  The names of the specification start with   *)
(* Sub: it is reasoned about beside that of DownloadQueue.                 *)
(***************************************************************************)
EXTENDS Naturals, FiniteSets

CONSTANTS
    Sessions,    \* session IDs, each used once
    Peers,       \* the rows of authorized_peers
    PeerOf,      \* the peer whose key a session was opened with
    NameOf,      \* the name of a peer (nothing makes names unique)
    Groups,      \* "@"-prefixed group names
    GroupsOf,    \* the groups of a peer
    Everyone,    \* the empty SourceGroup
    Subs,        \* the rows of subscriptions
    SourceGroup, \* of a subscription: a name, a group or Everyone
    TargetPath,  \* of a subscription: a directory
    Paths,       \* relative paths of entries
    Contents,    \* the files below an entry that is a directory, {} for a file
    Offers,      \* the entries in a peer's share of a subscription's name
    Monitor,     \* the goroutine of monitorPeerEvents
    Calls,       \* API calls of handleActionSubscription
    NoEvent, NoSub, NoSession,
    MaxRemovals, \* bound on the sessions that end
    MaxFaults    \* bound on the refusals of the database and the disk

ASSUME SubscriptionsAssumption ==
    /\ PeerOf \in [Sessions -> Peers]
    /\ GroupsOf \in [Peers -> SUBSET Groups]
    /\ Contents \in [Paths -> SUBSET Paths]
    /\ Offers \in [Peers -> [Subs -> SUBSET Paths]]
    /\ Everyone \notin Groups /\ \A p \in Peers : NameOf[p] # Everyone
    /\ Monitor \notin Calls /\ NoSub \notin Subs /\ NoSession \notin Sessions
    /\ MaxFaults \in Nat /\ MaxRemovals \in Nat

VARIABLES
    used,       \* sessions that were ever registered
    listed,     \* sessions in the table
    announcing, \* registered, PeerConnected not yet broadcast
    leaving,    \* PeerDisconnected broadcast, still in the table
    event,      \* the event the monitor has received
    sync,       \* where the monitor and the API calls are
    rows,       \* the downloads ever queued
    have,       \* the files in place, by target directory
    faults      \* database and disk refusals so far

subVars == <<used, listed, announcing, leaving, event, sync, rows, have, faults>>
tableVars == <<used, listed, announcing, leaving>>

Syncers == {Monitor} \cup Calls
Item == [session : Sessions, path : Paths]
Row == [peer : Peers, path : Paths, sub : Subs]
Event == [type : {"connected", "disconnected"}, session : Sessions]

\* "asking" is GetWantedItems, "adding" the loop of Subscription.Sync.  owed is for
\* the properties: the sessions of the source at the start, less those that failed
Syncing == [pc : {"idle", "event", "subs", "asking", "adding", "returned"},
            todo : SUBSET Subs, sub : Subs \cup {NoSub}, ask : SUBSET Sessions,
            items : SUBSET Item, owed : SUBSET Sessions]

Idle == [pc |-> "idle", todo |-> {}, sub |-> NoSub, ask |-> {}, items |-> {},
         owed |-> {}]

SubTypeOK ==
    /\ used \subseteq Sessions /\ listed \subseteq used
    /\ announcing \subseteq used /\ leaving \subseteq listed
    /\ event \in Event \cup {NoEvent}
    /\ sync \in [Syncers -> Syncing]
    /\ rows \subseteq Row
    /\ have \in [{TargetPath[sub] : sub \in Subs} -> SUBSET Paths]
    /\ faults \in 0..MaxFaults

SubInit ==
    /\ used = {} /\ listed = {} /\ announcing = {} /\ leaving = {}
    /\ event = NoEvent
    /\ sync = [x \in Syncers |-> Idle]
    /\ rows = {}
    /\ have = [t \in {TargetPath[sub] : sub \in Subs} |-> {}]
    /\ faults = 0

----------------------------------------------------------------------------
(* Names and groups.                                                       *)

IsMemberOf(p, groupOrName) ==
    IF groupOrName \in Groups THEN groupOrName \in GroupsOf[p] ELSE NameOf[p] = groupOrName

ExpandPeerGroup(groupOrName) == {NameOf[p] : p \in {q \in Peers : IsMemberOf(q, groupOrName)}}

\* Rows of authorized_peers whose field `name` or `group` has the value: they have
\* a field `groups`, and none that is called `group`.
FindAuthorized(nameOrGroup) ==
    IF nameOrGroup \in Groups THEN {} ELSE {p \in Peers : NameOf[p] = nameOrGroup}

\* What the source of a subscription is meant to cover.
Covers(sub, p) == SourceGroup[sub] = Everyone \/ IsMemberOf(p, SourceGroup[sub])

GetPeersInGroup(nameOrGroup) == {s \in listed : PeerOf[s] \in FindAuthorized(nameOrGroup)}

\* By name: found only if exactly one session has it.
GetSession(name) ==
    LET named == {s \in listed : NameOf[PeerOf[s]] = name}
    IN  IF Cardinality(named) = 1 THEN CHOOSE s \in named : TRUE ELSE NoSession

----------------------------------------------------------------------------
(* Sessions and their events.                                              *)

\* The send has a default: the event is lost unless the monitor is at its receive.
broadcastPeerEvent(type, s) ==
    IF sync[Monitor].pc = "idle"
    THEN /\ event' = [type |-> type, session |-> s]
         /\ sync' = [sync EXCEPT ![Monitor].pc = "event"]
    ELSE UNCHANGED <<event, sync>>

RegisterPeer(s) ==
    /\ s \notin used
    /\ used' = used \cup {s}
    /\ listed' = listed \cup {s}
    /\ announcing' = announcing \cup {s}
    /\ UNCHANGED <<leaving, event, sync, rows, have, faults>>

Announce(s) ==
    /\ s \in announcing
    /\ announcing' = announcing \ {s}
    /\ broadcastPeerEvent("connected", s)
    /\ UNCHANGED <<used, listed, leaving, rows, have, faults>>

\* The receive loop already runs before the session is announced, so that this may
\* come first.
RemovePeer(s) ==
    /\ s \in listed \ leaving
    /\ Cardinality(used \ (listed \ leaving)) < MaxRemovals
    /\ leaving' = leaving \cup {s}
    /\ broadcastPeerEvent("disconnected", s)
    /\ UNCHANGED <<used, listed, announcing, rows, have, faults>>

Removed(s) ==
    /\ s \in leaving
    /\ listed' = listed \ {s}
    /\ leaving' = leaving \ {s}
    /\ UNCHANGED <<used, announcing, event, sync, rows, have, faults>>

----------------------------------------------------------------------------
(* One subscription's sync, by the monitor or an API call.                 *)

\* Sync has returned: the monitor goes on with the other subscriptions.
After(x) ==
    IF x = Monitor THEN [Idle EXCEPT !.pc = "subs", !.todo = sync[x].todo]
    ELSE [Idle EXCEPT !.pc = "returned"]

\* GetWantedItems has asked everyone.
Asked(r) == IF r.ask = {} THEN [r EXCEPT !.pc = "adding"] ELSE r

Sources(sub) ==
    IF SourceGroup[sub] = Everyone THEN listed ELSE GetPeersInGroup(SourceGroup[sub])

Begin(x, sub, todo) ==
    sync' = [sync EXCEPT ![x] = Asked([Idle EXCEPT !.pc = "asking", !.todo = todo, !.sub = sub,
                                                   !.ask = Sources(sub),
                                                   !.owed = {s \in listed : Covers(sub, PeerOf[s])}])]

\* Sync of the subscription returns an error before anyone is asked, or
\* ExpandPeerGroup does.
BeginFails(x, todo) ==
    /\ faults < MaxFaults
    /\ faults' = faults + 1
    /\ sync' = [sync EXCEPT ![x] = IF x = Monitor THEN [@ EXCEPT !.todo = todo]
                                   ELSE [Idle EXCEPT !.pc = "returned"]]

handleActionSubscription(x) ==
    /\ x \in Calls /\ sync[x].pc = "idle"
    /\ \/ /\ \E sub \in Subs : Begin(x, sub, {})
          /\ UNCHANGED faults
       \/ BeginFails(x, {})
    /\ UNCHANGED <<tableVars, event, rows, have>>

\* Slip: the wrong kind of event leads to a sync.
HandleEvent_Swapped ==
    /\ sync[Monitor].pc = "event"
    /\ sync' = [sync EXCEPT ![Monitor] =
                  IF event.type = "disconnected"
                  THEN [Idle EXCEPT !.pc = "subs",
                          !.todo = {sub \in Subs : NameOf[PeerOf[event.session]]
                                                      \in ExpandPeerGroup(SourceGroup[sub])}]
                  ELSE Idle]
    /\ event' = NoEvent
    /\ UNCHANGED <<tableVars, rows, have, faults>>

\* Application.Sync(name) starts: the subscriptions whose group names the peer, if
\* there is one session of that name.
HandleEvent ==
    /\ sync[Monitor].pc = "event"
    /\ LET name == NameOf[PeerOf[event.session]]
           todo == IF GetSession(name) = NoSession THEN {}
                   ELSE {sub \in Subs : name \in ExpandPeerGroup(SourceGroup[sub])}
       IN  sync' = [sync EXCEPT ![Monitor] =
                      IF event.type = "connected" THEN [Idle EXCEPT !.pc = "subs", !.todo = todo]
                      ELSE Idle]
    /\ event' = NoEvent
    /\ UNCHANGED <<tableVars, rows, have, faults>>

\* db.Subscriptions.All refuses.
HandleEventFails ==
    /\ sync[Monitor].pc = "event" /\ event.type = "connected"
    /\ faults < MaxFaults
    /\ faults' = faults + 1
    /\ sync' = [sync EXCEPT ![Monitor] = Idle]
    /\ event' = NoEvent
    /\ UNCHANGED <<tableVars, rows, have>>

NextSubscription ==
    /\ sync[Monitor].pc = "subs"
    /\ \E sub \in sync[Monitor].todo :
          LET todo == sync[Monitor].todo \ {sub}
          IN  \/ Begin(Monitor, sub, todo) /\ UNCHANGED faults
              \/ BeginFails(Monitor, todo)
    /\ UNCHANGED <<tableVars, event, rows, have>>

ApplicationSyncReturns ==
    /\ sync[Monitor].pc = "subs" /\ sync[Monitor].todo = {}
    /\ sync' = [sync EXCEPT ![Monitor] = Idle]
    /\ UNCHANGED <<tableVars, event, rows, have, faults>>

\* GetUpdateManifest: what the manifest has and the target directory has not.
Updates(sub, s) == Offers[PeerOf[s]][sub] \ have[TargetPath[sub]]

\* Slip: paths that another peer provides are wanted again.
GetManifest_WantsAgain(x, s) ==
    LET r == sync[x]
        new == {[session |-> s, path |-> p] : p \in Updates(r.sub, s)}
    IN  /\ r.pc = "asking" /\ s \in r.ask \cap listed
        /\ sync' = [sync EXCEPT ![x] = Asked([r EXCEPT !.ask = @ \ {s}, !.items = @ \cup new])]
        /\ UNCHANGED <<tableVars, event, rows, have, faults>>

\* Slip: the items of one manifest replace those of the last.
GetManifest_Replaces(x, s) ==
    LET r == sync[x]
        requestedPaths == {i.path : i \in r.items}
        new == {[session |-> s, path |-> p] : p \in Updates(r.sub, s) \ requestedPaths}
    IN  /\ r.pc = "asking" /\ s \in r.ask \cap listed
        /\ sync' = [sync EXCEPT ![x] = Asked([r EXCEPT !.ask = @ \ {s}, !.items = new])]
        /\ UNCHANGED <<tableVars, event, rows, have, faults>>

\* A manifest comes back, whole or (its end is an error message under a status that says
\* OK) only a part of it; a path that another peer was already going to provide is not
\* asked for again.
GetManifest(x, s) ==
    LET r == sync[x]
        requestedPaths == {i.path : i \in r.items}
    IN  /\ r.pc = "asking" /\ s \in r.ask \cap listed
        /\ \E got \in SUBSET Updates(r.sub, s) :
              LET new == {[session |-> s, path |-> p] : p \in got \ requestedPaths}
                  owed == IF got = Updates(r.sub, s) THEN r.owed ELSE r.owed \ {s}
              IN  sync' = [sync EXCEPT ![x] = Asked([r EXCEPT !.ask = @ \ {s}, !.owed = owed,
                                                              !.items = @ \cup new])]
        /\ UNCHANGED <<tableVars, event, rows, have, faults>>

\* No answer, or none that is a manifest: logged, and on to the next peer.
GetManifestFails(x, s) ==
    LET r == sync[x]
    IN  /\ r.pc = "asking" /\ s \in r.ask
        /\ sync' = [sync EXCEPT ![x] = Asked([r EXCEPT !.ask = @ \ {s}, !.owed = @ \ {s}])]
        /\ UNCHANGED <<tableVars, event, rows, have, faults>>

\* The local files cannot be compared: what the others offered is dropped with it.
GetUpdateManifestFails(x) ==
    /\ sync[x].pc = "asking" /\ sync[x].ask \cap listed # {}
    /\ faults < MaxFaults
    /\ faults' = faults + 1
    /\ sync' = [sync EXCEPT ![x] = After(x)]
    /\ UNCHANGED <<tableVars, event, rows, have>>

\* Queue.Add: a file is one row, a directory one for each file below it whose own
\* Add succeeds.
Added(i) ==
    IF Contents[i.path] = {} THEN {{i.path}} ELSE SUBSET Contents[i.path]

Add(x, i) ==
    LET r == sync[x]
    IN  /\ r.pc = "adding" /\ i \in r.items
        /\ i.session \in listed
        /\ \E found \in Added(i) :
              rows' = rows \cup {[peer |-> PeerOf[i.session], path |-> p, sub |-> r.sub] : p \in found}
        /\ sync' = [sync EXCEPT ![x].items = @ \ {i}]
        /\ UNCHANGED <<tableVars, event, have, faults>>

\* The session is gone, the request for the record fails or its answer is not one,
\* or the row is refused: Sync returns, whatever the other items are.
AddFails(x, i) ==
    /\ sync[x].pc = "adding" /\ i \in sync[x].items
    /\ sync' = [sync EXCEPT ![x] = After(x)]
    /\ UNCHANGED <<tableVars, event, rows, have, faults>>

SyncReturns(x) ==
    /\ sync[x].pc = "adding" /\ sync[x].items = {}
    /\ sync' = [sync EXCEPT ![x] = After(x)]
    /\ UNCHANGED <<tableVars, event, rows, have, faults>>

\* A queued download puts its file in place.
Arrives(row) ==
    /\ row \in rows
    /\ row.path \notin have[TargetPath[row.sub]]
    /\ have' = [have EXCEPT ![TargetPath[row.sub]] = @ \cup {row.path}]
    /\ UNCHANGED <<tableVars, event, sync, rows, faults>>

----------------------------------------------------------------------------
SubscriptionSync(x) ==
    \/ \E s \in Sessions : GetManifest(x, s) \/ GetManifestFails(x, s)
    \/ GetUpdateManifestFails(x)
    \/ \E i \in sync[x].items : Add(x, i) \/ AddFails(x, i)
    \/ SyncReturns(x)

monitorPeerEvents ==
    \/ HandleEvent \/ HandleEventFails
    \/ NextSubscription \/ ApplicationSyncReturns
    \/ SubscriptionSync(Monitor)

SubNext ==
    \/ \E s \in Sessions : RegisterPeer(s) \/ Announce(s) \/ RemovePeer(s) \/ Removed(s)
    \/ monitorPeerEvents
    \/ \E x \in Calls : handleActionSubscription(x) \/ SubscriptionSync(x)
    \/ \E row \in rows : Arrives(row)

SubSpec == SubInit /\ [][SubNext]_subVars

\* The goroutines run: the registrar's, the monitor's (whose requests time out),
\* and an API call's once it is made.
FairSpec ==
    /\ SubSpec
    /\ \A s \in Sessions : WF_subVars(Announce(s))
    /\ WF_subVars(monitorPeerEvents)
    /\ \A x \in Calls : WF_subVars(SubscriptionSync(x))

----------------------------------------------------------------------------
(* Properties.                                                             *)

\* An item is wanted from a session of the subscription's source whose peer offers it,
\* and no path from two of them, in whatever order manifests came and sessions went
\* (subscription.go 67-88: the session ID of an item is that of the manifest it is in).
ItemsHaveSource ==
    \A x \in Syncers : \A i \in sync[x].items :
        /\ i.path \in Offers[PeerOf[i.session]][sync[x].sub]
        /\ Covers(sync[x].sub, PeerOf[i.session])
        /\ \A j \in sync[x].items : i.path = j.path => i = j

\* What is queued for a subscription is queued from a peer of its source that offers
\* it, or the directory it lies in.
RowsHaveSource ==
    \A row \in rows :
        LET offered == Offers[row.peer][row.sub]
        IN  /\ Covers(row.sub, row.peer)
            /\ row.path \in offered \cup UNION {Contents[p] : p \in offered}

SubInv == SubTypeOK /\ ItemsHaveSource /\ RowsHaveSource

\* When a subscription's sync is about to return without an error, every file that
\* a connected member of its source offered when it began is in place or queued,
\* unless that peer's manifest did not come.
Served(x) ==
    LET r == sync[x] IN
    \A s \in r.owed, p \in Paths :
        p \in Offers[PeerOf[s]][r.sub] =>
            \/ Contents[p] # {}
            \/ p \in have[TargetPath[r.sub]]
            \/ \E row \in rows : row.sub = r.sub /\ row.path = p

AboutToReturn(x) == sync[x].pc = "adding" /\ sync[x].items = {}

\* For a source that is one name, or everyone: also peers whose event was lost are
\* asked by the next sync, and no answer keeps another's items from being queued.
SyncServesNamedSources ==
    \A x \in Syncers : AboutToReturn(x) /\ sync[x].sub # NoSub /\ SourceGroup[sync[x].sub] \notin Groups
                       => Served(x)

\* db/schema.go:244 has the source of a subscription be a "peer name or @-prefixed
\* peer group", and subscription.go:59 the manifests come from "everyone in the
\* source group that we're connected to".
SyncServesEverySource == \A x \in Syncers : AboutToReturn(x) => Served(x)

\* A connection that the monitor heard of leads to a sync of every subscription whose
\* group names the peer, if no other session has the name and it stays, in whatever
\* order its events were sent.
HeardIsSynced ==
    \A s \in Sessions, sub \in Subs :
        NameOf[PeerOf[s]] \in ExpandPeerGroup(SourceGroup[sub]) =>
            ((event = [type |-> "connected", session |-> s])
                ~> (sync[Monitor].sub = sub \/ GetSession(NameOf[PeerOf[s]]) # s \/ faults > 0))

=============================================================================
