--------------------------- MODULE ShareRequests ---------------------------
(***************************************************************************)
(* The requests of remote peers (and of the local user) for shares, served *)
(* while the rows of ShareEditing change.  A request goes from the session *)
(* it arrived on through PeerServer.HandleRequest, which gives it the      *)
(* session's ID, and wrapHandlerWithRemotePeer, which looks the session up *)
(* again, to a handler; the handler reads the shares (GetShares), then the *)
(* peer's row once for each share (IsPeerPermitted), then the metadata: by *)
(* a query within the share, or an entry by its ID, which share.Get and    *)
(* db.Metadata.Get look up in the whole database.                          *)
(***************************************************************************)
EXTENDS ShareEditing

CONSTANTS
    Sessions,  \* sessions of remote peers
    PeerOf,    \* the peer a session belongs to
    Local,     \* what stands for a session in a request of the local user
    Requests,
    Inputs,    \* what may be asked: the session a request comes from, the session
               \* that its header claims, its kind, the share and the entry it names
    Entries,   \* entries of the metadata database
    Parent,    \* of an entry; Root for the topmost
    Root, NoSession

\* "all" is handleGetShares, "query" handleQueryAllShares; the others name one share:
\* "one" any handler that queries it (a manifest is always of a whole share, as its route
\* and its handler call the entry by different names), "entry" handleGetShareEntry,
\* "parents" handleGetShareFileIdsToRoot, "transfer" handleRequestEntryFromShare.
Kinds == {"all", "query", "one", "entry", "parents", "transfer"}

ASSUME ShareRequestsAssumption ==
    /\ PeerOf \in [Sessions -> Peers] /\ NoSession \notin Sessions
    /\ Inputs \subseteq [session : Sessions \cup {Local}, claims : Sessions \cup {NoSession},
                         kind : Kinds, share : Shares, entry : Entries]
    /\ Parent \in [Entries -> Entries \cup {Root}] /\ Root \notin Entries

VARIABLES
    listed,  \* the sessions in the table
    server,  \* whether the PeerServer has an HTTP server
    request, \* where each request is
    seen     \* history: what each request could have found since it arrived

vars == <<editVars, listed, server, request, seen>>

\* client is whom the handler takes the request to come from; given is history: the
\* entries that were read for it
RequestPC == {"new", "sent", "handler", "checking", "reading", "giving", "walking", "ok",
              "notfound", "refused", "failed", "unanswered"}
Request == [ask : Inputs, pc : RequestPC, client : Sessions \cup {Local, NoSession},
            rows : SUBSET (Shares \X Lists),
            out : SUBSET Shares,
            lists : BOOLEAN, current : Entries \cup {Root}, given : SUBSET Entries]

Answered(r) == request[r].pc \in {"ok", "notfound", "refused", "failed", "unanswered"}

\* What a request is before it is served and after.
Outside(ask, pc) == [ask |-> ask, pc |-> pc, client |-> NoSession, rows |-> {}, out |-> {},
                     lists |-> FALSE, current |-> Root, given |-> {}]
New(ask) == Outside(ask, "new")
Unseen == [open |-> {}, known |-> FALSE, always |-> Shares]

\* The handler writes its answer and is done.
Answer(r, pc) == request' = [request EXCEPT ![r] = Outside(@.ask, pc)]

TypeOK ==
    /\ EditTypeOK
    /\ listed \subseteq Sessions
    /\ server \in BOOLEAN
    /\ request \in [Requests -> Request]
    /\ seen \in [Requests -> [open : SUBSET Shares, known : BOOLEAN, always : SUBSET Shares]]

Init ==
    /\ EditInit
    /\ listed = Sessions
    /\ server = FALSE
    /\ request \in [Requests -> {New(ask) : ask \in Inputs}]
    /\ seen = [r \in Requests |-> Unseen]

\* The peer on whose session the request arrived has a row.
IsKnown(r, peers) == PeerOf[request[r].ask.session] \in peers

\* The shares whose lists are open to it.
Open(r, rows) == {sh \in Shares : rows[sh] # NoShare /\ Admits(rows[sh].lists, PeerOf[request[r].ask.session])}

\* Which lists were open, and whether the peer had a row, at some time since the request
\* has arrived; what was open to a peer with a row all that time.
Observe ==
    seen' = [r \in Requests |->
               IF request'[r].pc = "new" \/ Answered(r)' \/ request[r].ask.session = Local THEN Unseen
               ELSE [open |-> seen[r].open \cup Open(r, share) \cup Open(r, share'),
                     known |-> seen[r].known \/ IsKnown(r, known) \/ IsKnown(r, known'),
                     always |-> IF IsKnown(r, known) /\ IsKnown(r, known')
                                THEN seen[r].always \cap Open(r, share) \cap Open(r, share') ELSE {}]]

----------------------------------------------------------------------------
(* The way to the handler.                                                 *)

Single(r) == request[r].ask.kind \in {"one", "entry", "parents", "transfer"}

\* Slip: a header that the peer has sent is kept.
HandleRequest_KeepsHeader(r) ==
    LET s == request[r].ask.session
        claims == request[r].ask.claims
    IN  /\ request[r].pc = "new"
        /\ s \in listed
        /\ server
        /\ request' = [request EXCEPT ![r].pc = "sent",
                                      ![r].client = IF claims = NoSession THEN s ELSE claims]
        /\ UNCHANGED <<editVars, listed, server>>

\* Whatever session the peer's own header claims.  Without a server nothing is sent
\* back, and the peer's request times out.
HandleRequest(r) ==
    LET s == request[r].ask.session
    IN  /\ request[r].pc = "new"
        /\ s \in listed
        /\ IF server THEN request' = [request EXCEPT ![r].pc = "sent", ![r].client = s]
           ELSE Answer(r, "unanswered")
        /\ UNCHANGED <<editVars, listed, server>>

\* handleGetSessionStatus has the same look-up and nothing else.
wrapHandlerWithRemotePeer(r) ==
    /\ request[r].pc = "sent"
    /\ IF request[r].client \in listed THEN request' = [request EXCEPT ![r].pc = "handler"]
       ELSE Answer(r, "notfound")
    /\ UNCHANGED <<editVars, listed, server>>

wrapHandlerWithLocalPeer(r) ==
    /\ request[r].pc = "new" /\ request[r].ask.session = Local
    /\ request' = [request EXCEPT ![r].pc = "handler", ![r].client = Local]
    /\ UNCHANGED <<editVars, listed, server>>

----------------------------------------------------------------------------
(* The handlers.                                                           *)

\* db.Shares.All
ReadShares(r) ==
    /\ request[r].pc = "handler"
    /\ request' = [request EXCEPT
                     ![r].pc = "checking",
                     ![r].rows = {<<sh, share[sh].lists>> : sh \in
                                    {x \in Shares : /\ share[x] # NoShare
                                                    /\ Single(r) => x = request[r].ask.share}}]
    /\ UNCHANGED <<editVars, listed, server>>

\* The database refuses, or the statistics of a share do.
GetSharesFails(r) ==
    /\ request[r].pc \in {"handler", "checking"}
    /\ Answer(r, IF Single(r) THEN "notfound" ELSE "failed")
    /\ UNCHANGED <<editVars, listed, server>>

\* Slip: a peer without a row is not refused.
IsPeerPermitted_Unknown(r, lists) ==
    \/ request[r].client = Local
    \/ request[r].client # NoSession /\ Admits(lists, PeerOf[request[r].client])

\* Slip: a wildcard in the blocklist decides at once, as a name does.
IsPeerPermitted_WildcardDecides(r, lists) ==
    \/ request[r].client = Local
    \/ LET p == PeerOf[request[r].client]
       IN  p \in known /\ Wildcard \notin lists.blocklist /\ Admits(lists, p)

\* The client is the local peer or the session's.  (A database error in the look-up of
\* the row counts as no row, and is not modelled.)
IsPeerPermitted(r, lists) ==
    \/ request[r].client = Local
    \/ /\ request[r].client # NoSession
       /\ PeerOf[request[r].client] \in known
       /\ Admits(lists, PeerOf[request[r].client])

\* The lists are blanked in what remote peers are given.
CheckShare(r, entry) ==
    /\ request[r].pc = "checking" /\ entry \in request[r].rows
    /\ request' = [request EXCEPT
                     ![r].rows = @ \ {entry},
                     ![r].out = IF IsPeerPermitted(r, entry[2]) THEN @ \cup {entry[1]} ELSE @,
                     ![r].lists = @ \/ request[r].client = Local]
    /\ UNCHANGED <<editVars, listed, server>>

\* Asked for one share, GetShares returns an error unless it has one.
GetSharesReturns(r) ==
    /\ request[r].pc = "checking" /\ request[r].rows = {}
    /\ IF Single(r) /\ request[r].out = {}
       THEN Answer(r, "notfound")
       ELSE CASE request[r].ask.kind = "all" -> Answer(r, "ok")
              [] request[r].ask.kind = "parents" ->
                     request' = [request EXCEPT ![r].pc = "walking", ![r].current = request[r].ask.entry]
              [] OTHER -> request' = [request EXCEPT ![r].pc = "reading"]
    /\ UNCHANGED <<editVars, listed, server>>

\* What the shares hold, as their filters find it: all of it or an error (a manifest may
\* also end in one).
ReadMetadata(r) ==
    /\ request[r].pc = "reading" /\ request[r].ask.kind \in {"query", "one"}
    /\ \E pc \in {"ok", "failed"} : Answer(r, pc)
    /\ UNCHANGED <<editVars, listed, server>>

\* share.Get, db.Metadata.Get: the entry, whatever share was checked.  A transfer has
\* looked the session up once more before.
ReadEntry(r) ==
    /\ request[r].pc = "reading" /\ request[r].ask.kind \in {"entry", "transfer"}
    /\ IF request[r].ask.kind = "transfer" /\ request[r].client \notin listed
       THEN Answer(r, "refused")
       ELSE \/ request' = [request EXCEPT ![r].pc = "giving", ![r].given = {request[r].ask.entry}]
            \/ Answer(r, IF request[r].ask.kind = "transfer" THEN "notfound" ELSE "failed")
    /\ UNCHANGED <<editVars, listed, server>>

\* The entry is sent, or its transfer starts unless it has no file, is a temporary file
\* of a download, or the transfer ID is none.
GiveEntry(r) ==
    /\ request[r].pc = "giving"
    /\ \E pc \in IF request[r].ask.kind = "transfer" THEN {"ok", "failed", "notfound", "refused"} ELSE {"ok"} :
          Answer(r, pc)
    /\ UNCHANGED <<editVars, listed, server>>

\* One turn of the loop of handleGetShareFileIdsToRoot: one read of the metadata.
Walk(r) ==
    /\ request[r].pc = "walking"
    /\ IF request[r].current = Root
       THEN Answer(r, "ok")
       ELSE \/ request' = [request EXCEPT ![r].current = Parent[request[r].current],
                                          ![r].given = @ \cup {request[r].current}]
            \/ Answer(r, "failed")
    /\ UNCHANGED <<editVars, listed, server>>

Serve(r) ==
    \/ wrapHandlerWithRemotePeer(r)
    \/ ReadShares(r) \/ GetSharesFails(r)
    \/ \E entry \in request[r].rows : CheckShare(r, entry)
    \/ GetSharesReturns(r)
    \/ ReadMetadata(r) \/ ReadEntry(r) \/ GiveEntry(r) \/ Walk(r)

----------------------------------------------------------------------------
\* PeerServer.Serve
ServerStarts ==
    /\ ~server
    /\ server' = TRUE
    /\ UNCHANGED <<editVars, listed, request>>

RemovePeer(s) ==
    /\ s \in listed
    /\ listed' = listed \ {s}
    /\ UNCHANGED <<editVars, server, request>>

Next ==
    /\ \/ EditNext /\ UNCHANGED <<listed, server, request>>
       \/ \E r \in Requests : HandleRequest(r) \/ wrapHandlerWithLocalPeer(r) \/ Serve(r)
       \/ ServerStarts
       \/ \E s \in Sessions : RemovePeer(s)
    /\ Observe

Spec == Init /\ [][Next]_vars

----------------------------------------------------------------------------
(* Properties.                                                             *)

\* Each request is served as coming from the session it arrived on, whatever its
\* header says (peer_server.go:68-71: the header is set on "the receiving end").
ServedAsSender ==
    \A r \in Requests : request[r].client \in {NoSession, request[r].ask.session}

\* The lists of a share are for the local user (share.go:57).
ListsStayLocal == \A r \in Requests : request[r].lists => request[r].ask.session = Local

\* GetShares lets through no share that was closed to the peer from the request's
\* arrival to its answer, whatever is edited meanwhile and in whatever order the rows are
\* read (share.go 45-62, 94-138).  This is about shares, not about the entries they hold.
ShowsOnlyPermitted ==
    \A r \in Requests, sh \in Shares :
        sh \in request[r].out /\ request[r].ask.session # Local => seen[r].known /\ sh \in seen[r].open

\* Entries are read by ID only for a peer that the share it names was open to at some
\* time since the request arrived (api-handlers-shares.go 136, 207, 328).
EntriesNeedAShare ==
    \A r \in Requests :
        request[r].given # {} /\ request[r].ask.session # Local
            => Single(r) /\ seen[r].known /\ request[r].ask.share \in seen[r].open

\* When all rows are checked, the shares found have each among them that was open to
\* the peer ever since the request arrived (share.go 46-66).
ShowsAllPermitted ==
    \A r \in Requests, sh \in Shares :
        /\ request[r].pc = "checking" /\ request[r].rows = {} /\ request[r].ask.session # Local
        /\ sh \in seen[r].always /\ (Single(r) => sh = request[r].ask.share)
        => sh \in request[r].out

\* A handler that names one share has exactly that one when it takes the first of the
\* list it was given (api-handlers-shares.go 125, 139, 153, 210, 266, 278, 309).
HandlerHasItsShare ==
    \A r \in Requests : Single(r) /\ request[r].pc \in {"reading", "giving", "walking"}
                        => request[r].out = {request[r].ask.share}

Inv ==
    /\ TypeOK
    /\ ServedAsSender
    /\ ListsStayLocal
    /\ HandlerHasItsShare
    /\ ShowsOnlyPermitted
    /\ EntriesNeedAShare

=============================================================================
