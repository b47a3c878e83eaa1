------------------------ MODULE ShareRequests_proofs ------------------------
(***************************************************************************)
(* For any peers, groups, lists, shares, API calls and requests: a request *)
(* lets no share through that was closed to its peer all the time and      *)
(* leaves none out that was open all the time, though the rows are edited  *)
(* while the handler reads them one by one; and a share has its directory. *)
(*                                                                         *)
(* EditInv is about the rows and the calls that change them, Handled about *)
(* one request, and Fair about what one request has found, compared with   *)
(* what it could have found.                                               *)
(***************************************************************************)
EXTENDS ShareRequests, TLAPS

\* Of the directories D the one with this label contains the path, unless it is among
\* the labels E that users have touched.
Serves(D, E, label, path) ==
    \/ \E dir \in D : dir.label = label /\ dir.path \in Above[path]
    \/ label \in E

\* What a call has found or made serves the path it was given; a directory that no user
\* has touched was made by one call.
LabelsAgree ==
    /\ \A x \in Saves : save[x].pc = "save" /\ SaveOf[x].path # NoPath =>
          save[x].label # NoLabel /\ Serves(dirs, edited, save[x].label, SaveOf[x].path)
    /\ \A x \in Saves : SaveOf[x].path = NoPath => save[x].pc \notin {"lookup", "create"}
    /\ \A dir \in dirs : dir.label \notin edited =>
          /\ dir.label \in Saves /\ dir.path = SaveOf[dir.label].path
          /\ save[dir.label].pc \in {"save", "returned"}

\* Calls that run at the same time are not alone, nor is one that is about to create a
\* directory inside another, nor the one that made that other.
LoneAgree ==
    /\ \A x, y \in Saves : Running(x) /\ Running(y) /\ x # y => x \notin lone
    /\ \A x \in Saves, dir \in dirs :
          save[x].pc = "create" /\ dir.path \in Above[SaveOf[x].path] =>
              x \notin lone /\ (dir.label \in lone => dir.label \in edited)

EditInv == EditTypeOK /\ DirectoriesOfShares /\ NoDirectoryTwice /\ LabelsAgree /\ LoneAgree

\* What a request q holds where it stands.
AnswerPC == {"ok", "notfound", "refused", "failed", "unanswered"}
NamesOne(q) == q.ask.kind \in {"one", "entry", "parents", "transfer"}

Handled(q) ==
    /\ q.pc \in {"new"} \cup AnswerPC => q.client = NoSession
    /\ q.pc \notin {"new"} \cup AnswerPC => q.client = q.ask.session
    /\ q.pc \notin {"checking", "reading", "giving", "walking"} => q.rows = {} /\ q.out = {} /\ ~q.lists
    /\ q.given # {} => NamesOne(q) /\ q.pc \in {"giving", "walking"}
    /\ q.lists => q.ask.session = Local
    /\ q.pc = "walking" => NamesOne(q)
    /\ NamesOne(q) => /\ \A entry \in q.rows : entry[1] = q.ask.share
                      /\ q.out \subseteq {q.ask.share}
                      /\ q.pc \in {"reading", "giving", "walking"} => q.out # {}

OpenTo(p, rows) == {sh \in Shares : rows[sh] # NoShare /\ Admits(rows[sh].lists, p)}

\* Of a request q that is being served: what it has shown was open at some time, what
\* was always open it has shown or has still to check.
Watched(q) == q.ask.session # Local /\ q.pc \notin {"new"} \cup AnswerPC

Fair(q, s, rows, peers) ==
    LET p == PeerOf[q.ask.session] IN
    /\ OpenTo(p, rows) \subseteq s.open
    /\ p \in peers => s.known
    /\ \A sh \in s.always : p \in peers /\ sh \in OpenTo(p, rows)
    /\ \A entry \in q.rows : Admits(entry[2], p) => entry[1] \in s.open
    /\ \A sh \in q.out : s.known /\ sh \in s.open
    /\ q.pc = "checking" =>
          \A sh \in s.always : (NamesOne(q) => sh = q.ask.share) =>
              sh \in q.out \/ \E entry \in q.rows : entry[1] = sh /\ Admits(entry[2], p)

RequestsAgree ==
    \A r \in Requests :
        /\ Handled(request[r])
        /\ Watched(request[r]) => Fair(request[r], seen[r], share, known)

IInv == TypeOK /\ EditInv /\ RequestsAgree

-----------------------------------------------------------------------------
(* The rows, and the calls that change them.                               *)

LEMMA InitEditInv == EditInit => EditInv
<1> SUFFICES ASSUME EditInit PROVE EditInv
    OBVIOUS
<1>1. EditTypeOK
      <2>1. \A sh \in Shares : share[sh] \in ShareRow \cup {NoShare}
            BY ShareEditingAssumption DEF EditInit, ShareRow
      <2>2. share \in [Shares -> ShareRow \cup {NoShare}]
            BY <2>1, ShareEditingAssumption DEF EditInit
      <2>3. edits \in 0..MaxEdits
            BY ShareEditingAssumption DEF EditInit
      <2> QED BY <2>2, <2>3 DEF EditInit, EditTypeOK, SavePC
<1>2. \A sh \in Shares : share[sh] # NoShare => share[sh].path = NoPath
      BY ShareEditingAssumption DEF EditInit
<1>3. DirectoriesOfShares /\ NoDirectoryTwice
      BY <1>2 DEF EditInit, DirectoriesOfShares, NoDirectoryTwice
<1>4. LabelsAgree /\ LoneAgree
      BY DEF EditInit, LabelsAgree, LoneAgree, Running
<1> QED BY <1>1, <1>3, <1>4 DEF EditInv

\* A directory that no user has touched is still there.
LEMMA ServesStays ==
    ASSUME NEW D1, NEW D2, NEW E1, NEW E2, E1 \subseteq E2, \A dir \in D1 : dir \in D2 \/ dir.label \in E2,
           NEW label, NEW path, Serves(D1, E1, label, path)
    PROVE  Serves(D2, E2, label, path)
BY DEF Serves

\* EditInv survives a step that makes no directory but what a user saves, takes none
\* without noting it, and gives shares and calls only labels that serve their paths.
LEMMA EditKeeps ==
    ASSUME EditInv, EditTypeOK', lone' \subseteq lone, edited \subseteq edited',
           \A dir \in dirs : dir \in dirs' \/ dir.label \in edited',
           \A dir \in dirs' : dir \in dirs \/ dir.label \in edited',
           \A sh \in Shares : share'[sh] # NoShare /\ share'[sh].path # NoPath =>
               \/ share'[sh] = share[sh]
               \/ share'[sh].label # NoLabel /\ Serves(dirs', edited', share'[sh].label, share'[sh].path),
           \A x \in lone', dir \in dirs' : save'[x].pc = "create" => dir \in dirs,
           \A x \in Saves :
               \/ save'[x] = save[x]
               \/ /\ Running(x) /\ save'[x].pc \in {"create", "save", "returned"}
                  /\ save'[x].pc = "create" =>
                        SaveOf[x].path # NoPath /\ \A dir \in dirs' : dir.path \notin Above[SaveOf[x].path]
                  /\ save'[x].pc = "save" =>
                        save'[x].label # NoLabel /\ Serves(dirs', edited', save'[x].label, SaveOf[x].path)
                  /\ save[x].pc = "save" => save'[x].pc = "returned"
    PROVE  EditInv'
<1>1. DirectoriesOfShares'
      <2> SUFFICES ASSUME NEW sh \in Shares, share'[sh] # NoShare, share'[sh].path # NoPath
                   PROVE  share'[sh].label # NoLabel /\ Serves(dirs', edited', share'[sh].label, share'[sh].path)
          BY DEF DirectoriesOfShares, Serves
      <2>1. CASE share'[sh] = share[sh]
            <3>1. share[sh].label # NoLabel /\ Serves(dirs, edited, share[sh].label, share[sh].path)
                  BY <2>1 DEF EditInv, DirectoriesOfShares, Serves
            <3> QED BY <2>1, <3>1, ServesStays
      <2> QED BY <2>1
<1>2. LoneAgree'
      <2>1. \A x \in Saves : Running(x)' => Running(x)
            BY DEF Running
      <2>2. ASSUME NEW x \in Saves, NEW dir \in dirs', save'[x].pc = "create", dir.path \in Above[SaveOf[x].path]
            PROVE  x \notin lone' /\ (dir.label \in lone' => dir.label \in edited')
            <3>1. save'[x] = save[x]
                  BY <2>2
            <3>2. CASE dir \in dirs
                  BY <2>2, <3>1, <3>2 DEF EditInv, LoneAgree
            <3>3. CASE dir \notin dirs
                  BY <2>2, <3>3
            <3> QED BY <3>2, <3>3
      <2> QED BY <2>1, <2>2 DEF EditInv, LoneAgree
<1>3. NoDirectoryTwice'
      <2>1. \A x \in lone', dir \in dirs' : save'[x].pc = "create" => dir.path \notin Above[SaveOf[x].path]
            BY <1>2 DEF LoneAgree, EditTypeOK
      <2>2. \A d1, d2 \in dirs' : d1.path = d2.path /\ d1 # d2 /\ {d1.label, d2.label} \cap edited' = {}
                => {d1.label, d2.label} \cap lone' = {}
            BY DEF EditInv, NoDirectoryTwice
      <2> QED BY <2>1, <2>2 DEF NoDirectoryTwice
<1>4. LabelsAgree'
      <2>1. ASSUME NEW x \in Saves, save'[x].pc = "save", SaveOf[x].path # NoPath
            PROVE  save'[x].label # NoLabel /\ Serves(dirs', edited', save'[x].label, SaveOf[x].path)
            <3>1. CASE save'[x] = save[x]
                  <4>1. save[x].label # NoLabel /\ Serves(dirs, edited, save[x].label, SaveOf[x].path)
                        BY <2>1, <3>1 DEF EditInv, LabelsAgree
                  <4> QED BY <3>1, <4>1, ServesStays
            <3> QED BY <2>1, <3>1
      <2>2. \A x \in Saves : SaveOf[x].path = NoPath => save'[x].pc \notin {"lookup", "create"}
            BY DEF EditInv, LabelsAgree
      <2>3. ASSUME NEW dir \in dirs', dir.label \notin edited'
            PROVE  /\ dir.label \in Saves /\ dir.path = SaveOf[dir.label].path
                   /\ save'[dir.label].pc \in {"save", "returned"}
            <3>1. dir \in dirs /\ dir.label \notin edited
                  BY <2>3
            <3>2. /\ dir.label \in Saves /\ dir.path = SaveOf[dir.label].path
                  /\ save[dir.label].pc \in {"save", "returned"}
                  BY <3>1 DEF EditInv, LabelsAgree
            <3> QED BY <3>2 DEF Running
      <2> QED BY <2>1, <2>2, <2>3 DEF LabelsAgree
<1> QED BY <1>1, <1>2, <1>3, <1>4 DEF EditInv

LEMMA StartKeeps ==
    ASSUME EditInv, NEW x \in Saves, SaveShareStarts(x)
    PROVE  EditInv'
<1>1. /\ save \in [Saves -> [pc : SavePC, label : Labels \cup {NoLabel}]]
      /\ save[x].pc = "idle" /\ UNCHANGED <<known, share, dirs, edited, edits>>
      /\ lone' = IF \E y \in Saves : Running(y) THEN lone \ ({x} \cup {y \in Saves : Running(y)}) ELSE lone
      BY DEF EditInv, EditTypeOK, SaveShareStarts
<1>2. PICK pc \in {"save", "lookup"} :
         save' = [save EXCEPT ![x].pc = pc] /\ (pc = "save" <=> SaveOf[x].path = NoPath)
      BY DEF SaveShareStarts
<1>3. /\ save'[x].pc = pc /\ save'[x].label = save[x].label
      /\ save' \in [Saves -> [pc : SavePC, label : Labels \cup {NoLabel}]]
      /\ \A y \in Saves : y # x => save'[y] = save[y]
      BY <1>1, <1>2 DEF SavePC
<1>4. EditTypeOK'
      BY <1>1, <1>3 DEF EditInv, EditTypeOK
<1>5. lone' \subseteq lone
      BY <1>1
<1>6. DirectoriesOfShares'
      BY <1>1 DEF EditInv, DirectoriesOfShares
<1>7. NoDirectoryTwice'
      BY <1>1, <1>2, <1>3, <1>5 DEF EditInv, EditTypeOK, NoDirectoryTwice
<1>8. LabelsAgree'
      BY <1>1, <1>2, <1>3 DEF EditInv, LabelsAgree
<1>9. LoneAgree'
      <2>1. ASSUME NEW y \in Saves, NEW z \in Saves, Running(y)', Running(z)', y # z
            PROVE  y \notin lone'
            <3>1. \A w \in Saves \ {x} : Running(w)' <=> Running(w)
                  BY <1>3 DEF Running
            <3>2. CASE y # x /\ z # x
                  BY <1>5, <2>1, <3>1, <3>2 DEF EditInv, LoneAgree
            <3>3. CASE y = x \/ z = x
                  BY <1>1, <2>1, <3>1, <3>3
            <3> QED BY <3>2, <3>3
      <2>2. ASSUME NEW y \in Saves, NEW dir \in dirs', save'[y].pc = "create", dir.path \in Above[SaveOf[y].path]
            PROVE  y \notin lone' /\ (dir.label \in lone' => dir.label \in edited')
            BY <1>1, <1>2, <1>3, <1>5, <2>2 DEF EditInv, LoneAgree
      <2> QED BY <2>1, <2>2 DEF LoneAgree
<1> QED BY <1>4, <1>6, <1>7, <1>8, <1>9 DEF EditInv

\* The look-up and the creation are two steps: a call that finds a directory of its path
\* when it creates one has run beside the call that made it.
LEMMA CreateKeeps ==
    ASSUME EditInv, NEW x \in Saves, save[x].pc = "create",
           dirs' = dirs \cup {[label |-> x, path |-> SaveOf[x].path]},
           save' = [save EXCEPT ![x] = [pc |-> "save", label |-> x]],
           UNCHANGED <<known, share, lone, edited, edits>>
    PROVE  EditInv'
<1> DEFINE new == [label |-> x, path |-> SaveOf[x].path]
<1>1. /\ save \in [Saves -> [pc : SavePC, label : Labels \cup {NoLabel}]] /\ dirs \subseteq Directory
      /\ x \in Labels /\ x # NoLabel /\ SaveOf[x].path \in Paths /\ SaveOf[x].path \in Above[SaveOf[x].path]
      BY ShareEditingAssumption DEF EditInv, EditTypeOK, Labels, LabelsAgree
<1>2. /\ save'[x].pc = "save" /\ save'[x].label = x
      /\ save' \in [Saves -> [pc : SavePC, label : Labels \cup {NoLabel}]]
      /\ \A y \in Saves : y # x => save'[y] = save[y]
      BY <1>1 DEF SavePC
<1>3. /\ new \in Directory /\ new.label = x /\ new.path = SaveOf[x].path /\ dirs' = dirs \cup {new}
      BY <1>1 DEF Directory
<1> HIDE DEF new
<1>4. EditTypeOK'
      BY <1>1, <1>2, <1>3 DEF EditInv, EditTypeOK
<1>5. \A dir \in dirs : dir.path \in Above[SaveOf[x].path] => x \notin lone /\ (dir.label \in lone => dir.label \in edited)
      BY DEF EditInv, LoneAgree
<1>6. DirectoriesOfShares'
      BY <1>3 DEF EditInv, DirectoriesOfShares
<1>7. LabelsAgree'
      <2>1. Serves(dirs', edited', x, SaveOf[x].path)
            BY <1>1, <1>3 DEF Serves
      <2>2. ASSUME NEW y \in Saves, save'[y].pc = "save", SaveOf[y].path # NoPath
            PROVE  save'[y].label # NoLabel /\ Serves(dirs', edited', save'[y].label, SaveOf[y].path)
            <3>1. CASE y = x
                  BY <1>1, <1>2, <2>1, <3>1
            <3>2. CASE y # x
                  <4>1. save[y].label # NoLabel /\ Serves(dirs, edited, save[y].label, SaveOf[y].path)
                        BY <1>2, <2>2, <3>2 DEF EditInv, LabelsAgree
                  <4> QED BY <1>2, <1>3, <3>2, <4>1, ServesStays
            <3> QED BY <3>1, <3>2
      <2>3. \A y \in Saves : SaveOf[y].path = NoPath => save'[y].pc \notin {"lookup", "create"}
            BY <1>2 DEF EditInv, LabelsAgree
      <2>4. ASSUME NEW dir \in dirs', dir.label \notin edited'
            PROVE  /\ dir.label \in Saves /\ dir.path = SaveOf[dir.label].path
                   /\ save'[dir.label].pc \in {"save", "returned"}
            <3>1. CASE dir = new
                  BY <1>2, <1>3, <3>1
            <3>2. CASE dir \in dirs
                  <4>1. /\ dir.label \in Saves /\ dir.path = SaveOf[dir.label].path
                        /\ save[dir.label].pc \in {"save", "returned"}
                        BY <2>4, <3>2 DEF EditInv, LabelsAgree
                  <4> QED BY <1>2, <4>1
            <3> QED BY <1>3, <3>1, <3>2
      <2> QED BY <2>2, <2>3, <2>4 DEF LabelsAgree
<1>8. LoneAgree'
      <2>1. \A y \in Saves : Running(y)' => Running(y)
            BY <1>2 DEF Running
      <2>2. ASSUME NEW y \in Saves, NEW dir \in dirs', save'[y].pc = "create", dir.path \in Above[SaveOf[y].path]
            PROVE  y \notin lone' /\ (dir.label \in lone' => dir.label \in edited')
            <3>1. y # x /\ save[y].pc = "create"
                  BY <1>2, <2>2
            <3>2. CASE dir \in dirs
                  BY <2>2, <3>1, <3>2 DEF EditInv, LoneAgree
            <3>3. CASE dir = new
                  <4>1. y \notin lone /\ x \notin lone
                        BY <3>1 DEF EditInv, LoneAgree, Running
                  <4> QED BY <1>3, <3>3, <4>1
            <3> QED BY <1>3, <3>2, <3>3
      <2> QED BY <2>1, <2>2 DEF EditInv, LoneAgree
<1>9. NoDirectoryTwice'
      <2>1. \A y \in lone', dir \in dirs' : save'[y].pc = "create" => dir.path \notin Above[SaveOf[y].path]
            BY <1>4, <1>8 DEF LoneAgree, EditTypeOK
      <2>2. ASSUME NEW d \in dirs, d.path = new.path, d.label \notin edited
            PROVE  d.label \notin lone /\ x \notin lone
            BY <1>1, <1>3, <1>5, <2>2
      <2>3. \A d1, d2 \in dirs : d1.path = d2.path /\ d1 # d2 /\ {d1.label, d2.label} \cap edited = {}
                => {d1.label, d2.label} \cap lone = {}
            BY DEF EditInv, NoDirectoryTwice
      <2>4. \A d1, d2 \in dirs' : d1.path = d2.path /\ d1 # d2 /\ {d1.label, d2.label} \cap edited = {}
                => {d1.label, d2.label} \cap lone = {}
            BY <1>3, <2>2, <2>3
      <2> QED BY <2>1, <2>4 DEF NoDirectoryTwice
<1> QED BY <1>4, <1>6, <1>7, <1>8, <1>9 DEF EditInv

\* Each step of a call of handleSaveShare (api-handlers-shares.go:52-100) keeps EditInv.
LEMMA SaveStep ==
    ASSUME EditInv, NEW x \in Saves, handleSaveShare(x)
    PROVE  EditInv'
<1>1. /\ save \in [Saves -> [pc : SavePC, label : Labels \cup {NoLabel}]]
      /\ share \in [Shares -> ShareRow \cup {NoShare}] /\ dirs \subseteq Directory
      BY DEF EditInv, EditTypeOK
<1>2. ASSUME NEW row \in [pc : {"create", "save", "returned"}, label : Labels \cup {NoLabel}],
             save' = [save EXCEPT ![x] = row], UNCHANGED <<known, dirs, lone, edited, edits>>,
             share' \in [Shares -> ShareRow \cup {NoShare}],
             \A sh \in Shares : share'[sh] # NoShare /\ share'[sh].path # NoPath =>
                 \/ share'[sh] = share[sh]
                 \/ share'[sh].label # NoLabel /\ Serves(dirs, edited, share'[sh].label, share'[sh].path),
             row.pc = "create" => SaveOf[x].path # NoPath /\ \A dir \in dirs : dir.path \notin Above[SaveOf[x].path],
             row.pc = "save" => row.label # NoLabel /\ Serves(dirs, edited, row.label, SaveOf[x].path),
             Running(x), save[x].pc = "save" => row.pc = "returned"
      PROVE  EditInv'
      <2>1. /\ save'[x] = row /\ \A y \in Saves : y # x => save'[y] = save[y]
            /\ save' \in [Saves -> [pc : SavePC, label : Labels \cup {NoLabel}]]
            BY <1>1, <1>2 DEF SavePC
      <2>2. EditTypeOK'
            BY <1>2, <2>1 DEF EditInv, EditTypeOK
      <2>3. dirs' = dirs /\ edited' = edited /\ lone' = lone
            BY <1>2
      <2> QED BY <1>2, <2>1, <2>2, <2>3, EditKeeps
<1>3. CASE SaveShareStarts(x)
      BY <1>3, StartKeeps
<1>4. CASE FindDirectory(x)
      <2>0. /\ save[x].pc = "lookup" /\ Running(x) /\ SaveOf[x].path # NoPath
            /\ UNCHANGED <<known, dirs, lone, edited, edits, share>>
            BY <1>4 DEF FindDirectory, Running, EditInv, LabelsAgree
      <2>1. CASE GetDirectoriesByFile(x) = {} /\ save' = [save EXCEPT ![x].pc = "create"]
            <3> DEFINE row == [save[x] EXCEPT !.pc = "create"]
            <3>1. /\ row \in [pc : {"create", "save", "returned"}, label : Labels \cup {NoLabel}]
                  /\ row.pc = "create" /\ save' = [save EXCEPT ![x] = row]
                  BY <1>1, <2>1
            <3>2. \A dir \in dirs : dir.path \notin Above[SaveOf[x].path]
                  BY <2>1 DEF GetDirectoriesByFile
            <3> HIDE DEF row
            <3> QED BY <1>1, <1>2, <2>0, <3>1, <3>2
      <2>2. ASSUME NEW dir \in GetDirectoriesByFile(x), save' = [save EXCEPT ![x] = [pc |-> "save", label |-> dir.label]]
            PROVE  EditInv'
            <3> DEFINE row == [pc |-> "save", label |-> dir.label]
            <3>1. dir \in dirs /\ dir.label \in Labels /\ dir.path \in Above[SaveOf[x].path]
                  BY <1>1, <2>2 DEF GetDirectoriesByFile, Directory
            <3>2. /\ row \in [pc : {"create", "save", "returned"}, label : Labels \cup {NoLabel}]
                  /\ row.pc = "save" /\ row.label = dir.label /\ save' = [save EXCEPT ![x] = row]
                  BY <2>2, <3>1
            <3>3. dir.label # NoLabel /\ Serves(dirs, edited, dir.label, SaveOf[x].path)
                  BY <3>1, ShareEditingAssumption DEF Serves, Labels
            <3> HIDE DEF row
            <3> QED BY <1>1, <1>2, <2>0, <3>2, <3>3
      <2> QED BY <1>4, <2>1, <2>2 DEF FindDirectory
<1>5. CASE CreateDirectory(x)
      <2>1. CASE dirs' = dirs
            <3> DEFINE row == [save[x] EXCEPT !.pc = "returned"]
            <3>1. /\ row \in [pc : {"create", "save", "returned"}, label : Labels \cup {NoLabel}]
                  /\ row.pc = "returned"
                  BY <1>1
            <3>2. /\ save[x].pc = "create" /\ Running(x) /\ UNCHANGED <<known, lone, edited, edits, share>>
                  /\ \/ save' = [save EXCEPT ![x] = row]
                     \/ /\ dirs' = dirs \cup {[label |-> x, path |-> SaveOf[x].path]}
                        /\ save' = [save EXCEPT ![x] = [pc |-> "save", label |-> x]]
                  BY <1>5 DEF CreateDirectory, Running
            <3> HIDE DEF row
            <3> QED BY <1>1, <1>2, <2>1, <3>1, <3>2, CreateKeeps
      <2>2. CASE dirs' # dirs
            BY <1>5, <2>2, CreateKeeps DEF CreateDirectory
      <2> QED BY <2>1, <2>2
<1>6. CASE SaveShare(x)
      <2> DEFINE row == [pc |-> "returned", label |-> NoLabel]
                 new == Saved(x)
                 old == share[SaveOf[x].share]
      <2>1. /\ save[x].pc = "save" /\ Running(x) /\ save' = [save EXCEPT ![x] = row]
            /\ UNCHANGED <<known, dirs, lone, edited, edits>>
            /\ share' = [share EXCEPT ![SaveOf[x].share] = new] \/ share' = share
            BY <1>6 DEF SaveShare, Running
      <2>2. row \in [pc : {"create", "save", "returned"}, label : Labels \cup {NoLabel}] /\ row.pc = "returned"
            OBVIOUS
      <2>3. SaveOf[x].share \in Shares /\ SaveOf[x].lists \in Lists /\ SaveOf[x].path \in Paths \cup {NoPath}
            BY ShareEditingAssumption
      <2>4. /\ new \in ShareRow
            /\ new.path # NoPath => new.label # NoLabel /\ Serves(dirs, edited, new.label, new.path)
            <3>1. CASE SaveOf[x].path = NoPath /\ old # NoShare
                  <4>1. new = [old EXCEPT !.lists = SaveOf[x].lists] /\ old \in ShareRow
                        BY <1>1, <2>3, <3>1 DEF Saved
                  <4>2. new \in ShareRow /\ new.path = old.path /\ new.label = old.label
                        BY <2>3, <4>1 DEF ShareRow
                  <4>3. old.path # NoPath => old.label # NoLabel /\ Serves(dirs, edited, old.label, old.path)
                        BY <2>3, <3>1 DEF EditInv, DirectoriesOfShares, Serves
                  <4> HIDE DEF new, old
                  <4> QED BY <4>2, <4>3
            <3>2. CASE ~(SaveOf[x].path = NoPath /\ old # NoShare)
                  <4>1. new = [lists |-> SaveOf[x].lists, label |-> save[x].label, path |-> SaveOf[x].path]
                        BY <3>2 DEF Saved
                  <4>2. new \in ShareRow /\ new.path = SaveOf[x].path /\ new.label = save[x].label
                        BY <1>1, <2>3, <4>1 DEF ShareRow
                  <4> HIDE DEF new
                  <4> QED BY <2>1, <4>2 DEF EditInv, LabelsAgree
            <3> QED BY <3>1, <3>2
      <2> HIDE DEF new, row
      <2>5. share' \in [Shares -> ShareRow \cup {NoShare}]
            BY <1>1, <2>1, <2>4
      <2>6. \A sh \in Shares : share'[sh] = share[sh] \/ share'[sh] = new
            BY <1>1, <2>1
      <2> QED BY <1>2, <2>1, <2>2, <2>4, <2>5, <2>6
<1> QED BY <1>3, <1>4, <1>5, <1>6 DEF handleSaveShare

\* So do the other edits, which note the labels that they touch.
LEMMA EditStep ==
    ASSUME EditInv, EditNext
    PROVE  EditInv'
<1>1. ASSUME NEW x \in Saves, handleSaveShare(x) PROVE EditInv'
      BY <1>1, SaveStep
<1>2. Edit => edits' \in 0..MaxEdits
      BY ShareEditingAssumption DEF EditInv, EditTypeOK, Edit
<1>3. ASSUME NEW sh \in Shares, DeleteShare(sh) PROVE EditInv'
      <2>1. /\ share' = [share EXCEPT ![sh] = NoShare] /\ UNCHANGED <<known, dirs, save, lone, edited>>
            /\ edits' \in 0..MaxEdits
            BY <1>2, <1>3 DEF DeleteShare
      <2>2. EditTypeOK'
            BY <2>1 DEF EditInv, EditTypeOK
      <2>3. \A s \in Shares : share'[s] # NoShare => share'[s] = share[s]
            BY <2>1 DEF EditInv, EditTypeOK
      <2> QED BY <2>1, <2>2, <2>3, EditKeeps
<1>4. ASSUME NEW dir \in dirs, DeleteDirectory(dir) PROVE EditInv'
      <2>1. /\ dirs' = dirs \ {dir} /\ edited' = edited \cup {dir.label} /\ UNCHANGED <<known, share, save, lone>>
            /\ edits' \in 0..MaxEdits
            BY <1>2, <1>4 DEF DeleteDirectory
      <2>2. dir.label \in Labels
            BY DEF EditInv, EditTypeOK, Directory
      <2>3. EditTypeOK'
            BY <2>1, <2>2 DEF EditInv, EditTypeOK
      <2> QED BY <2>1, <2>3, EditKeeps
<1>5. ASSUME NEW label \in Labels, NEW path \in Paths, SaveDirectory(label, path) PROVE EditInv'
      <2> DEFINE new == [label |-> label, path |-> path]
      <2>1. /\ dirs' = {dir \in dirs : dir.label # label} \cup {new} /\ edited' = edited \cup {label}
            /\ lone' = lone \ {x \in Saves : Running(x)} /\ UNCHANGED <<known, share, save>> /\ edits' \in 0..MaxEdits
            BY <1>2, <1>5 DEF SaveDirectory
      <2>2. new \in Directory /\ new.label = label
            BY DEF Directory
      <2> HIDE DEF new
      <2>3. EditTypeOK'
            BY <2>1, <2>2 DEF EditInv, EditTypeOK
      <2>4. \A x \in lone' : save'[x].pc # "create"
            BY <2>1 DEF Running, EditInv, EditTypeOK
      <2> QED BY <2>1, <2>2, <2>3, <2>4, EditKeeps
<1>6. ASSUME NEW p \in Peers, DeletePeer(p) \/ SavePeer(p) PROVE EditInv'
      <2>1. /\ known' \subseteq Peers /\ UNCHANGED <<share, dirs, save, lone, edited>> /\ edits' \in 0..MaxEdits
            BY <1>2, <1>6 DEF DeletePeer, SavePeer, EditInv, EditTypeOK
      <2>2. EditTypeOK'
            BY <2>1 DEF EditInv, EditTypeOK
      <2> QED BY <2>1, <2>2, EditKeeps
<1> QED BY <1>1, <1>3, <1>4, <1>5, <1>6 DEF EditNext

LEMMA EditIdle ==
    ASSUME EditInv, UNCHANGED editVars
    PROVE  EditInv'
BY DEF editVars, EditInv, EditTypeOK, DirectoriesOfShares, NoDirectoryTwice, LabelsAgree, Serves, LoneAgree, Running

-----------------------------------------------------------------------------
(* Requests.                                                               *)

Sight == [open : SUBSET Shares, known : BOOLEAN, always : SUBSET Shares]

\* What is noted of a request that is being served.
LEMMA Observed ==
    ASSUME Observe, seen \in [Requests -> Sight]
    PROVE  /\ seen' \in [Requests -> Sight]
           /\ \A r \in Requests : request'[r].ask = request[r].ask /\ Watched(request'[r]) =>
                 LET p == PeerOf[request[r].ask.session]
                     s == seen[r]
                 IN  seen'[r] = [open |-> s.open \cup OpenTo(p, share) \cup OpenTo(p, share'),
                                 known |-> s.known \/ p \in known \/ p \in known',
                                 always |-> IF p \in known /\ p \in known'
                                            THEN s.always \cap OpenTo(p, share) \cap OpenTo(p, share') ELSE {}]
<1> DEFINE p(r) == PeerOf[request[r].ask.session]
           new(r) == [open |-> seen[r].open \cup OpenTo(p(r), share) \cup OpenTo(p(r), share'),
                      known |-> seen[r].known \/ p(r) \in known \/ p(r) \in known',
                      always |-> IF p(r) \in known /\ p(r) \in known'
                                 THEN seen[r].always \cap OpenTo(p(r), share) \cap OpenTo(p(r), share') ELSE {}]
           none(r) == request'[r].pc = "new" \/ request'[r].pc \in AnswerPC \/ request[r].ask.session = Local
<1>1. seen' = [r \in Requests |-> IF none(r) THEN Unseen ELSE new(r)]
      BY DEF Observe, Answered, AnswerPC, IsKnown, Open, OpenTo
<1>2. Unseen \in Sight
      BY DEF Unseen, Sight
<1>3. \A r \in Requests : new(r) \in Sight
      <2>1. ASSUME NEW x \in Sight, NEW a \in SUBSET Shares, NEW b \in SUBSET Shares, NEW u, NEW v, NEW w
            PROVE  [open |-> x.open \cup a \cup b, known |-> x.known \/ u \/ v,
                    always |-> IF w THEN x.always \cap a \cap b ELSE {}] \in Sight
            BY DEF Sight
      <2>2. \A q, rows : OpenTo(q, rows) \in SUBSET Shares
            BY DEF OpenTo
      <2> QED BY <2>1, <2>2
<1>4. \A r \in Requests : request'[r].ask = request[r].ask /\ Watched(request'[r]) => ~none(r)
      BY DEF Watched
<1> HIDE DEF new, none
<1>5. seen' \in [Requests -> Sight]
      BY <1>1, <1>2, <1>3
<1>6. \A r \in Requests : request'[r].ask = request[r].ask /\ Watched(request'[r]) => seen'[r] = new(r)
      BY <1>1, <1>4
<1> QED BY <1>5, <1>6 DEF new

\* What a step that makes a request q must have found in the rows as they are.
Found(q, s, rows, peers) ==
    LET p == PeerOf[q.ask.session] IN
    /\ \A entry \in q.rows : Admits(entry[2], p) => entry[1] \in s.open \cup OpenTo(p, rows)
    /\ \A sh \in q.out : (s.known \/ p \in peers) /\ sh \in s.open \cup OpenTo(p, rows)
    /\ q.pc = "checking" /\ p \in peers =>
          \A sh \in s.always \cap OpenTo(p, rows) : (NamesOne(q) => sh = q.ask.share) =>
              sh \in q.out \/ \E entry \in q.rows : entry[1] = sh /\ Admits(entry[2], p)

LEMMA FairStep ==
    ASSUME NEW q, NEW s \in Sight, NEW rows, NEW peers, NEW rows2, NEW peers2, NEW s2, NEW p,
           p = PeerOf[q.ask.session], Found(q, s, rows, peers),
           s2 = [open |-> s.open \cup OpenTo(p, rows) \cup OpenTo(p, rows2),
                 known |-> s.known \/ p \in peers \/ p \in peers2,
                 always |-> IF p \in peers /\ p \in peers2
                            THEN s.always \cap OpenTo(p, rows) \cap OpenTo(p, rows2) ELSE {}]
    PROVE  Fair(q, s2, rows2, peers2)
<1>1. /\ s2.open = s.open \cup OpenTo(p, rows) \cup OpenTo(p, rows2)
      /\ s2.known <=> s.known \/ p \in peers \/ p \in peers2
      /\ \A sh \in s2.always : /\ p \in peers /\ p \in peers2
                               /\ sh \in s.always \cap OpenTo(p, rows) \cap OpenTo(p, rows2)
      OBVIOUS
<1> QED BY <1>1 DEF Fair, Found

LEMMA StaysFound ==
    ASSUME NEW q, NEW s, NEW rows, NEW peers, Fair(q, s, rows, peers)
    PROVE  Found(q, s, rows, peers)
BY DEF Fair, Found

\* A step keeps the invariant if each request either stays as it is or is handled well.
LEMMA Keeps ==
    ASSUME IInv, EditInv', Observe, listed' \subseteq Sessions, server' \in BOOLEAN,
           request' \in [Requests -> Request],
           \A r \in Requests :
               \/ request'[r] = request[r]
               \/ /\ Handled(request'[r]) /\ request'[r].ask = request[r].ask
                  /\ Watched(request'[r]) => Found(request'[r], seen[r], share, known)
    PROVE  IInv'
<1>1. seen \in [Requests -> Sight]
      BY DEF IInv, TypeOK, Sight
<1>2. TypeOK'
      BY <1>1, Observed DEF TypeOK, EditInv, Sight
<1>3. RequestsAgree'
      <2> SUFFICES ASSUME NEW r \in Requests
                   PROVE  /\ Handled(request'[r])
                          /\ Watched(request'[r]) => Fair(request'[r], seen'[r], share', known')
          BY DEF RequestsAgree
      <2>1. Handled(request[r]) /\ (Watched(request[r]) => Fair(request[r], seen[r], share, known))
            BY DEF IInv, RequestsAgree
      <2>2. /\ Handled(request'[r]) /\ request'[r].ask = request[r].ask
            /\ Watched(request'[r]) => Found(request'[r], seen[r], share, known)
            BY <2>1, StaysFound
      <2>3. ASSUME Watched(request'[r]) PROVE Fair(request'[r], seen'[r], share', known')
            <3> DEFINE p == PeerOf[request[r].ask.session]
            <3>1. seen'[r] = [open |-> seen[r].open \cup OpenTo(p, share) \cup OpenTo(p, share'),
                              known |-> seen[r].known \/ p \in known \/ p \in known',
                              always |-> IF p \in known /\ p \in known'
                                         THEN seen[r].always \cap OpenTo(p, share) \cap OpenTo(p, share') ELSE {}]
                  BY <1>1, <2>2, <2>3, Observed
            <3>2. p = PeerOf[request'[r].ask.session] /\ Found(request'[r], seen[r], share, known) /\ seen[r] \in Sight
                  BY <1>1, <2>2, <2>3
            <3> HIDE DEF p
            <3> QED BY <3>1, <3>2, FairStep
      <2> QED BY <2>2, <2>3
<1> QED BY <1>2, <1>3 DEF IInv

\* A step of request r to q keeps it, if it finds what it should.
LEMMA RequestKeeps ==
    ASSUME IInv, NEW r \in Requests, NEW q \in Request, request' = [request EXCEPT ![r] = q],
           UNCHANGED <<editVars, listed, server>>, Observe,
           q.ask = request[r].ask, Handled(q), Watched(q) => Found(q, seen[r], share, known)
    PROVE  IInv'
<1>1. request \in [Requests -> Request] /\ listed \subseteq Sessions /\ server \in BOOLEAN
      BY DEF IInv, TypeOK
<1>2. EditInv'
      BY EditIdle DEF IInv
<1>3. request'[r] = q /\ (\A x \in Requests : x # r => request'[x] = request[x])
      BY <1>1
<1>4. request' \in [Requests -> Request]
      BY <1>1
<1> QED BY <1>1, <1>2, <1>3, <1>4, Keeps

\* One that answers does.
LEMMA AnswerKeeps ==
    ASSUME IInv, NEW r \in Requests, NEW pc \in AnswerPC, Answer(r, pc),
           UNCHANGED <<editVars, listed, server>>, Observe
    PROVE  IInv'
<1> DEFINE q == Outside(request[r].ask, pc)
<1>1. request' = [request EXCEPT ![r] = q] /\ request[r].ask \in Inputs
      <2>1. request' = [request EXCEPT ![r] = q]
            BY DEF Answer
      <2>2. request[r] \in Request
            BY DEF IInv, TypeOK
      <2> QED BY <2>1, <2>2 DEF Request
<1>2. q = [ask |-> request[r].ask, pc |-> pc, client |-> NoSession, rows |-> {}, out |-> {},
           lists |-> FALSE, current |-> Root, given |-> {}]
      BY DEF Outside
<1>3. q \in Request
      <2>1. pc \in RequestPC
            BY DEF RequestPC, AnswerPC
      <2> QED BY <1>1, <1>2, <2>1 DEF Request
<1>4. /\ q.ask = request[r].ask /\ q.pc \in AnswerPC /\ q.pc \notin {"checking", "reading", "giving", "walking"}
      /\ q.client = NoSession /\ q.rows = {} /\ q.out = {} /\ ~q.lists /\ q.given = {}
      BY <1>2 DEF AnswerPC
<1> HIDE DEF q
<1>5. Handled(q) /\ ~Watched(q)
      BY <1>4 DEF Handled, Watched
<1> QED BY <1>1, <1>3, <1>4, <1>5, RequestKeeps

\* One that leaves what was found alone does.
LEMMA MoveKeeps ==
    ASSUME IInv, NEW r \in Requests, NEW q \in Request, request' = [request EXCEPT ![r] = q],
           UNCHANGED <<editVars, listed, server>>, Observe,
           q.ask = request[r].ask, q.rows = request[r].rows, q.out = request[r].out, q.lists = request[r].lists,
           q.pc # "checking", Handled(q), q.rows # {} \/ q.out # {} => Watched(request[r]) \/ ~Watched(q)
    PROVE  IInv'
<1>1. Watched(request[r]) => Found(request[r], seen[r], share, known)
      BY StaysFound DEF IInv, RequestsAgree
<1>2. Watched(q) => Found(q, seen[r], share, known)
      BY <1>1 DEF Found
<1> QED BY <1>2, RequestKeeps

\* The way from the session to the handler (peer_server.go:57-97, api-handlers.go:268-290)
\* keeps it: the client is the session that the request arrived on.
LEMMA WayStep ==
    ASSUME IInv, NEW r \in Requests, Observe,
           HandleRequest(r) \/ wrapHandlerWithRemotePeer(r) \/ wrapHandlerWithLocalPeer(r)
    PROVE  IInv'
<1> DEFINE q == request[r]
<1>1. q \in Request /\ Handled(q) /\ UNCHANGED <<editVars, listed, server>> /\ request \in [Requests -> Request]
      BY DEF IInv, TypeOK, RequestsAgree, HandleRequest, wrapHandlerWithRemotePeer, wrapHandlerWithLocalPeer
<1>2. ASSUME NEW pc \in {"sent", "handler"}, NEW client, client = q.ask.session, client \in Sessions \cup {Local},
             request' = [request EXCEPT ![r] = [q EXCEPT !.pc = pc, !.client = client]],
             q.pc \in {"new", "sent"}
      PROVE  IInv'
      <2> DEFINE y == [q EXCEPT !.pc = pc, !.client = client]
      <2>1. /\ y \in Request /\ y.pc = pc /\ y.client = client /\ y.ask = q.ask /\ y.rows = q.rows
            /\ y.out = q.out /\ y.lists = q.lists /\ y.given = q.given
            BY <1>1, <1>2 DEF Request, RequestPC
      <2>2. q.rows = {} /\ q.out = {} /\ ~q.lists /\ q.given = {}
            BY <1>1, <1>2 DEF Handled
      <2> HIDE DEF y
      <2>3. Handled(y) /\ y.pc # "checking"
            BY <1>2, <2>1, <2>2 DEF Handled, AnswerPC
      <2> QED BY <1>1, <1>2, <2>1, <2>2, <2>3, MoveKeeps DEF y
<1>3. CASE HandleRequest(r)
      <2>1. CASE server
            <3>1. /\ q.pc = "new" /\ q.ask.session \in Sessions
                  /\ request' = [request EXCEPT ![r].pc = "sent", ![r].client = q.ask.session]
                  BY <1>3, <2>1 DEF HandleRequest, IInv, TypeOK
            <3>2. request' = [request EXCEPT ![r] = [q EXCEPT !.pc = "sent", !.client = q.ask.session]]
                  BY <1>1, <3>1
            <3> QED BY <1>2, <3>1, <3>2
      <2>2. CASE ~server
            <3>1. Answer(r, "unanswered")
                  BY <1>3, <2>2 DEF HandleRequest
            <3> QED BY <1>1, <3>1, AnswerKeeps DEF AnswerPC
      <2> QED BY <2>1, <2>2
<1>4. CASE wrapHandlerWithRemotePeer(r)
      <2>1. CASE q.client \in listed
            <3>1. q.pc = "sent" /\ request' = [request EXCEPT ![r].pc = "handler"]
                  BY <1>4, <2>1 DEF wrapHandlerWithRemotePeer
            <3>2. q.client = q.ask.session /\ q.client \in Sessions
                  BY <1>1, <2>1, <3>1 DEF Handled, AnswerPC, IInv, TypeOK
            <3>3. [q EXCEPT !.pc = "handler"] = [q EXCEPT !.pc = "handler", !.client = q.client]
                  BY <1>1 DEF Request
            <3>4. request' = [request EXCEPT ![r] = [q EXCEPT !.pc = "handler", !.client = q.client]]
                  BY <1>1, <3>1, <3>3
            <3> QED BY <1>2, <3>1, <3>2, <3>4
      <2>2. CASE q.client \notin listed
            <3>1. Answer(r, "notfound")
                  BY <1>4, <2>2 DEF wrapHandlerWithRemotePeer
            <3> QED BY <1>1, <3>1, AnswerKeeps DEF AnswerPC
      <2> QED BY <2>1, <2>2
<1>5. CASE wrapHandlerWithLocalPeer(r)
      <2>1. /\ q.pc = "new" /\ q.ask.session = Local
            /\ request' = [request EXCEPT ![r].pc = "handler", ![r].client = Local]
            BY <1>5 DEF wrapHandlerWithLocalPeer
      <2>2. request' = [request EXCEPT ![r] = [q EXCEPT !.pc = "handler", !.client = Local]]
            BY <1>1, <2>1
      <2> QED BY <1>2, <2>1, <2>2
<1> QED BY <1>3, <1>4, <1>5

\* The handler finds the rows as they are: what is open has a row that says so.
LEMMA ReadStep ==
    ASSUME IInv, NEW r \in Requests, Observe, ReadShares(r)
    PROVE  IInv'
<1> DEFINE q == request[r]
           found == {x \in Shares : share[x] # NoShare /\ (Single(r) => x = q.ask.share)}
           rows == {<<sh, share[sh].lists>> : sh \in found}
           y == [q EXCEPT !.pc = "checking", !.rows = rows]
<1>1. /\ q \in Request /\ Handled(q) /\ request \in [Requests -> Request] /\ seen[r] \in Sight
      /\ share \in [Shares -> ShareRow \cup {NoShare}]
      BY DEF IInv, TypeOK, EditTypeOK, RequestsAgree, Sight
<1>2. /\ q.pc = "handler" /\ request' = [request EXCEPT ![r].pc = "checking", ![r].rows = rows]
      /\ UNCHANGED <<editVars, listed, server>>
      BY DEF ReadShares
<1>3. request' = [request EXCEPT ![r] = y]
      BY <1>1, <1>2
<1>4. rows \in SUBSET (Shares \X Lists)
      BY <1>1 DEF ShareRow
<1>5. NamesOne(q) <=> Single(r)
      BY DEF NamesOne, Single
<1>6. \A entry \in rows : entry[1] \in found /\ entry[2] = share[entry[1]].lists
      OBVIOUS
<1>7. \A sh \in found : <<sh, share[sh].lists>> \in rows
      OBVIOUS
<1>8. q.rows = {} /\ q.out = {} /\ ~q.lists /\ q.given = {} /\ q.client = q.ask.session
      BY <1>1, <1>2 DEF Handled, AnswerPC
<1> HIDE DEF rows
<1>9. /\ y \in Request /\ y.ask = q.ask /\ y.pc = "checking" /\ y.rows = rows /\ y.out = {} /\ ~y.lists
      /\ y.client = q.ask.session /\ y.given = {}
      BY <1>1, <1>4, <1>8 DEF Request, RequestPC
<1> HIDE DEF y
<1>10. Handled(y)
       BY <1>5, <1>6, <1>9 DEF Handled, AnswerPC, NamesOne
<1>11. Found(y, seen[r], share, known)
       <2> DEFINE p == PeerOf[q.ask.session]
       <2>1. \A entry \in rows : Admits(entry[2], p) => entry[1] \in OpenTo(p, share)
             BY <1>6 DEF OpenTo
       <2>2. ASSUME NEW sh \in seen[r].always \cap OpenTo(p, share), NamesOne(q) => sh = q.ask.share
             PROVE  \E entry \in rows : entry[1] = sh /\ Admits(entry[2], p)
             <3>1. sh \in found /\ Admits(share[sh].lists, p)
                   BY <1>5, <2>2 DEF OpenTo
             <3>2. <<sh, share[sh].lists>> \in rows
                   BY <1>7, <3>1
             <3> QED BY <3>1, <3>2
       <2> QED BY <1>9, <2>1, <2>2 DEF Found, NamesOne
<1> QED BY <1>2, <1>3, <1>9, <1>10, <1>11, RequestKeeps

\* It checks one of them: the peer is still known, or it is refused.
LEMMA CheckStep ==
    ASSUME IInv, NEW r \in Requests, Observe, NEW entry \in request[r].rows, CheckShare(r, entry)
    PROVE  IInv'
<1> DEFINE q == request[r]
           p == PeerOf[q.ask.session]
           out == IF IsPeerPermitted(r, entry[2]) THEN q.out \cup {entry[1]} ELSE q.out
           lists == q.lists \/ q.client = Local
           y == [q EXCEPT !.rows = q.rows \ {entry}, !.out = out, !.lists = lists]
<1>1. /\ q \in Request /\ Handled(q) /\ request \in [Requests -> Request] /\ seen[r] \in Sight
      BY DEF IInv, TypeOK, RequestsAgree, Sight
<1>2. /\ q.pc = "checking" /\ UNCHANGED <<editVars, listed, server>>
      /\ request' = [request EXCEPT ![r].rows = q.rows \ {entry}, ![r].out = out, ![r].lists = lists]
      BY <1>1 DEF CheckShare
<1>3. request' = [request EXCEPT ![r] = y]
      BY <1>1, <1>2
<1>4. /\ entry \in Shares \X Lists /\ q.client = q.ask.session /\ q.out \subseteq Shares /\ q.lists \in BOOLEAN
      /\ q.rows \subseteq Shares \X Lists /\ q.ask.session \in Sessions \cup {Local}
      BY <1>1, <1>2, ShareRequestsAssumption DEF Handled, AnswerPC, Request
<1>5. out \subseteq Shares /\ out \subseteq q.out \cup {entry[1]} /\ q.out \subseteq out /\ lists \in BOOLEAN
      <2>1. entry[1] \in Shares
            BY <1>4
      <2> QED BY <1>4, <2>1
<1>6. q.client # Local => /\ entry[1] \in out => entry[1] \in q.out \/ (p \in known /\ Admits(entry[2], p))
                          /\ p \in known /\ Admits(entry[2], p) => entry[1] \in out
      BY <1>4, ShareRequestsAssumption DEF IsPeerPermitted
<1> HIDE DEF out, lists
<1>7. /\ y \in Request /\ y.ask = q.ask /\ y.pc = "checking" /\ y.rows = q.rows \ {entry} /\ y.out = out
      /\ y.lists = lists /\ y.client = q.client /\ y.given = {}
      BY <1>1, <1>2, <1>4, <1>5 DEF Request, RequestPC, Handled
<1> HIDE DEF y
<1>8. Handled(y)
      <2>1. lists => q.ask.session = Local
            BY <1>1, <1>4 DEF Handled, lists
      <2>2. NamesOne(q) => entry[1] = q.ask.share /\ out \subseteq {q.ask.share}
            BY <1>1, <1>5 DEF Handled
      <2> QED BY <1>1, <1>2, <1>4, <1>7, <2>1, <2>2 DEF Handled, AnswerPC, NamesOne
<1>9. ASSUME Watched(y) PROVE Found(y, seen[r], share, known)
      <2>1. Fair(q, seen[r], share, known) /\ q.client # Local
            BY <1>1, <1>2, <1>4, <1>7, <1>9 DEF IInv, RequestsAgree, Watched, AnswerPC
      <2>2. \A e \in y.rows : Admits(e[2], p) => e[1] \in seen[r].open
            BY <1>7, <2>1 DEF Fair
      <2>3. \A sh \in y.out : (seen[r].known \/ p \in known) /\ sh \in seen[r].open
            BY <1>5, <1>6, <1>7, <2>1 DEF Fair
      <2>4. ASSUME p \in known, NEW sh \in seen[r].always, NamesOne(y) => sh = y.ask.share
            PROVE  sh \in y.out \/ \E e \in y.rows : e[1] = sh /\ Admits(e[2], p)
            <3>1. sh \in q.out \/ \E e \in q.rows : e[1] = sh /\ Admits(e[2], p)
                  BY <1>2, <1>7, <2>1, <2>4 DEF Fair, NamesOne
            <3>2. ASSUME NEW e \in q.rows, e[1] = sh, Admits(e[2], p), e \notin y.rows
                  PROVE  sh \in y.out
                  BY <1>6, <1>7, <2>1, <2>4, <3>2
            <3> QED BY <1>5, <1>7, <3>1, <3>2
      <2> QED BY <1>7, <2>2, <2>3, <2>4 DEF Found
<1> QED BY <1>2, <1>3, <1>7, <1>8, <1>9, RequestKeeps

\* It goes on to what the shares hold, and answers.
LEMMA ReturnStep ==
    ASSUME IInv, NEW r \in Requests, Observe,
           GetSharesFails(r) \/ GetSharesReturns(r) \/ ReadMetadata(r) \/ ReadEntry(r) \/ GiveEntry(r) \/ Walk(r)
    PROVE  IInv'
<1> DEFINE q == request[r]
<1>1. /\ q \in Request /\ Handled(q) /\ request \in [Requests -> Request]
      /\ UNCHANGED <<editVars, listed, server>>
      BY DEF IInv, TypeOK, RequestsAgree, GetSharesFails, GetSharesReturns, ReadMetadata, ReadEntry, GiveEntry, Walk
<1>2. ASSUME NEW pc \in {"reading", "giving", "walking"}, NEW e \in Entries \cup {Root}, NEW given \in SUBSET Entries,
             request' = [request EXCEPT ![r] = [q EXCEPT !.pc = pc, !.current = e, !.given = given]],
             q.pc \in {"checking", "reading", "walking"}, NamesOne(q) => q.out # {},
             given # {} => NamesOne(q) /\ pc \in {"giving", "walking"}, pc = "walking" => NamesOne(q)
      PROVE  IInv'
      <2> DEFINE y == [q EXCEPT !.pc = pc, !.current = e, !.given = given]
      <2>1. /\ y \in Request /\ y.given = given /\ y.pc = pc /\ y.client = q.client /\ y.ask = q.ask /\ y.rows = q.rows
            /\ y.out = q.out /\ y.lists = q.lists
            BY <1>1 DEF Request, RequestPC
      <2> HIDE DEF y
      <2>2. Handled(y)
            BY <1>1, <1>2, <2>1 DEF Handled, AnswerPC, NamesOne
      <2>3. Watched(y) => Watched(q)
            BY <1>2, <2>1 DEF Watched, AnswerPC
      <2>4. y.pc # "checking"
            BY <2>1
      <2>5. request' = [request EXCEPT ![r] = y]
            BY <1>2 DEF y
      <2> QED BY <1>1, <2>1, <2>2, <2>3, <2>4, <2>5, MoveKeeps
<1>3. ASSUME NEW pc \in AnswerPC, Answer(r, pc) PROVE IInv'
      BY <1>1, <1>3, AnswerKeeps
<1>4. CASE GetSharesFails(r)
      BY <1>3, <1>4 DEF GetSharesFails, AnswerPC
<1>5. CASE GetSharesReturns(r)
      <2>1. CASE (Single(r) /\ q.out = {}) \/ q.ask.kind = "all"
            <3>1. Answer(r, "notfound") \/ Answer(r, "ok")
                  BY <1>5, <2>1 DEF GetSharesReturns, Single
            <3> QED BY <1>3, <3>1 DEF AnswerPC
      <2>2. CASE ~((Single(r) /\ q.out = {}) \/ q.ask.kind = "all")
            <3>1. q.pc = "checking" /\ (NamesOne(q) => q.out # {})
                  BY <1>5, <2>2 DEF GetSharesReturns, Single, NamesOne
            <3>0. q.current \in Entries \cup {Root} /\ q.given = {} /\ q.ask.entry \in Entries
                  BY <1>1, <3>1, ShareRequestsAssumption DEF Handled, Request
            <3>2. CASE q.ask.kind = "parents"
                  <4>1. request' = [request EXCEPT ![r].pc = "walking", ![r].current = q.ask.entry]
                        BY <1>5, <2>2, <3>2 DEF GetSharesReturns
                  <4>2. request' = [request EXCEPT ![r] = [q EXCEPT !.pc = "walking", !.current = q.ask.entry]]
                        BY <1>1, <4>1
                  <4>3. [q EXCEPT !.pc = "walking", !.current = q.ask.entry]
                            = [q EXCEPT !.pc = "walking", !.current = q.ask.entry, !.given = q.given]
                        BY <1>1 DEF Request
                  <4>4. request' = [request EXCEPT ![r] = [q EXCEPT !.pc = "walking", !.current = q.ask.entry, !.given = q.given]]
                        BY <4>2, <4>3
                  <4> QED BY <1>2, <3>0, <3>1, <3>2, <4>4 DEF NamesOne
            <3>3. CASE q.ask.kind # "parents"
                  <4>1. request' = [request EXCEPT ![r].pc = "reading"]
                        BY <1>5, <2>2, <3>3 DEF GetSharesReturns
                  <4>2. [q EXCEPT !.pc = "reading"] = [q EXCEPT !.pc = "reading", !.current = q.current, !.given = q.given]
                        BY <1>1 DEF Request
                  <4>3. request' = [request EXCEPT ![r] = [q EXCEPT !.pc = "reading", !.current = q.current, !.given = q.given]]
                        BY <1>1, <4>1, <4>2
                  <4> QED BY <1>2, <3>0, <3>1, <4>3
            <3> QED BY <3>2, <3>3
      <2> QED BY <2>1, <2>2
<1>6. CASE ReadMetadata(r) \/ ReadEntry(r) \/ GiveEntry(r)
      <2>1. CASE \E pc \in {"ok", "failed", "notfound", "refused"} : Answer(r, pc)
            BY <1>3, <2>1 DEF AnswerPC
      <2>2. CASE /\ q.pc = "reading" /\ q.ask.kind \in {"entry", "transfer"}
                 /\ request' = [request EXCEPT ![r].pc = "giving", ![r].given = {q.ask.entry}]
            <3>1. q.current \in Entries \cup {Root} /\ {q.ask.entry} \in SUBSET Entries
                  BY <1>1, ShareRequestsAssumption DEF Request
            <3>2. [q EXCEPT !.pc = "giving", !.given = {q.ask.entry}]
                      = [q EXCEPT !.pc = "giving", !.current = q.current, !.given = {q.ask.entry}]
                  BY <1>1 DEF Request
            <3>3. request' = [request EXCEPT ![r] = [q EXCEPT !.pc = "giving", !.current = q.current, !.given = {q.ask.entry}]]
                  BY <1>1, <2>2, <3>2
            <3>4. NamesOne(q) /\ q.out # {}
                  BY <1>1, <2>2 DEF Handled, NamesOne
            <3> QED BY <1>2, <2>2, <3>1, <3>3, <3>4
      <2> QED BY <1>6, <2>1, <2>2 DEF ReadMetadata, ReadEntry, GiveEntry
<1>7. CASE Walk(r)
      <2>1. CASE \E pc \in {"ok", "failed"} : Answer(r, pc)
            BY <1>3, <2>1 DEF AnswerPC
      <2>2. CASE /\ q.current # Root
                 /\ request' = [request EXCEPT ![r].current = Parent[q.current],
                                              ![r].given = q.given \cup {q.current}]
            <3>1. q.pc = "walking" /\ q.current \in Entries
                  BY <1>1, <1>7, <2>2 DEF Walk, Request
            <3> DEFINE e == Parent[q.current]
                       given == q.given \cup {q.current}
            <3>2. e \in Entries \cup {Root} /\ given \in SUBSET Entries
                  BY <1>1, <3>1, ShareRequestsAssumption DEF Request
            <3>3. [q EXCEPT !.current = e, !.given = given] = [q EXCEPT !.pc = "walking", !.current = e, !.given = given]
                  BY <1>1, <3>1 DEF Request
            <3>4. request' = [request EXCEPT ![r] = [q EXCEPT !.pc = "walking", !.current = e, !.given = given]]
                  BY <1>1, <2>2, <3>3
            <3>5. NamesOne(q) /\ q.out # {}
                  BY <1>1, <3>1 DEF Handled
            <3> HIDE DEF e, given
            <3> QED BY <1>2, <3>1, <3>2, <3>4, <3>5
      <2> QED BY <1>7, <2>1, <2>2 DEF Walk
<1> QED BY <1>4, <1>5, <1>6, <1>7

-----------------------------------------------------------------------------
LEMMA InitIInv == Init => IInv
<1> SUFFICES ASSUME Init PROVE IInv
    OBVIOUS
<1>1. EditInv
      BY InitEditInv DEF Init
<1>2. request \in [Requests -> {New(ask) : ask \in Inputs}]
      BY DEF Init
<1>3. ASSUME NEW r \in Requests
      PROVE  request[r] \in Request /\ Handled(request[r]) /\ ~Watched(request[r])
      <2>1. PICK ask \in Inputs : request[r] = New(ask)
            BY <1>2
      <2>2. request[r] = [ask |-> ask, pc |-> "new", client |-> NoSession, rows |-> {}, out |-> {},
                          lists |-> FALSE, current |-> Root, given |-> {}]
            BY <2>1 DEF New, Outside
      <2> QED BY <2>2 DEF Request, RequestPC, Handled, Watched, AnswerPC
<1>4. request \in [Requests -> Request]
      BY <1>2, <1>3
<1>5. Unseen \in Sight
      BY DEF Unseen, Sight
<1>6. TypeOK
      BY <1>1, <1>4, <1>5 DEF Init, TypeOK, EditInv, Sight
<1> QED BY <1>1, <1>3, <1>6 DEF IInv, RequestsAgree

LEMMA NextIInv == IInv /\ [Next]_vars => IInv'
<1> SUFFICES ASSUME IInv, [Next]_vars PROVE IInv'
    OBVIOUS
<1>1. request \in [Requests -> Request] /\ listed \subseteq Sessions /\ server \in BOOLEAN
      BY DEF IInv, TypeOK
<1>2. CASE EditNext /\ UNCHANGED <<listed, server, request>> /\ Observe
      <2>1. EditInv'
            BY <1>2, EditStep DEF IInv
      <2> QED BY <1>1, <1>2, <2>1, Keeps
<1>3. ASSUME Observe, NEW r \in Requests, HandleRequest(r) \/ wrapHandlerWithLocalPeer(r) \/ Serve(r)
      PROVE  IInv'
      BY <1>3, WayStep, ReadStep, CheckStep, ReturnStep DEF Serve
<1>4. CASE (ServerStarts \/ \E s \in Sessions : RemovePeer(s)) /\ Observe
      <2>1. /\ UNCHANGED <<editVars, request>> /\ listed' \subseteq Sessions /\ server' \in BOOLEAN
            BY <1>1, <1>4 DEF ServerStarts, RemovePeer
      <2>2. EditInv'
            BY <2>1, EditIdle DEF IInv
      <2> QED BY <1>1, <1>4, <2>1, <2>2, Keeps
<1>5. CASE UNCHANGED vars
      <2>1. UNCHANGED <<editVars, listed, server, request, seen, share, known>>
            BY <1>5 DEF vars, editVars
      <2>2. EditInv'
            BY <2>1, EditIdle DEF IInv
      <2>3. TypeOK'
            BY <2>1, <2>2 DEF IInv, TypeOK, EditInv
      <2>4. RequestsAgree'
            BY <2>1 DEF IInv, RequestsAgree
      <2> QED BY <2>2, <2>3, <2>4 DEF IInv
<1> QED BY <1>2, <1>3, <1>4, <1>5 DEF Next

THEOREM Invariance == Spec => []IInv
BY InitIInv, NextIInv, PTL DEF Spec

LEMMA Consequences == IInv => Inv /\ ShowsAllPermitted /\ DirectoriesOfShares /\ NoDirectoryTwice
<1> SUFFICES ASSUME IInv PROVE Inv /\ ShowsAllPermitted /\ DirectoriesOfShares /\ NoDirectoryTwice
    OBVIOUS
<1>1. \A r \in Requests :
         /\ Handled(request[r]) /\ (Watched(request[r]) => Fair(request[r], seen[r], share, known))
         /\ request[r] \in Request /\ request[r].ask.session \in Sessions \cup {Local}
      BY ShareRequestsAssumption DEF IInv, TypeOK, RequestsAgree, Request
<1>2. ServedAsSender
      BY <1>1 DEF ServedAsSender, Handled
<1>3. ListsStayLocal
      BY <1>1 DEF ListsStayLocal, Handled
<1>4. HandlerHasItsShare
      <2> SUFFICES ASSUME NEW r \in Requests, Single(r), request[r].pc \in {"reading", "giving", "walking"}
                   PROVE  request[r].out = {request[r].ask.share}
          BY DEF HandlerHasItsShare
      <2>1. request[r].out \subseteq {request[r].ask.share} /\ request[r].out # {}
            BY <1>1 DEF Handled, NamesOne, Single
      <2> QED BY <2>1
<1>5. ShowsOnlyPermitted
      <2> SUFFICES ASSUME NEW r \in Requests, NEW sh \in Shares, sh \in request[r].out, request[r].ask.session # Local
                   PROVE  seen[r].known /\ sh \in seen[r].open
          BY DEF ShowsOnlyPermitted
      <2>1. Watched(request[r])
            BY <1>1 DEF Handled, Watched, AnswerPC
      <2> QED BY <1>1, <2>1 DEF Fair
<1>6. ShowsAllPermitted
      <2> SUFFICES ASSUME NEW r \in Requests, NEW sh \in Shares,
                          request[r].pc = "checking", request[r].rows = {}, request[r].ask.session # Local,
                          sh \in seen[r].always, Single(r) => sh = request[r].ask.share
                   PROVE  sh \in request[r].out
          BY DEF ShowsAllPermitted
      <2>1. Watched(request[r])
            BY DEF Watched, AnswerPC
      <2> QED BY <1>1, <2>1 DEF Fair, NamesOne, Single
<1>7. EntriesNeedAShare
      <2> SUFFICES ASSUME NEW r \in Requests, request[r].given # {}, request[r].ask.session # Local
                   PROVE  Single(r) /\ seen[r].known /\ request[r].ask.share \in seen[r].open
          BY DEF EntriesNeedAShare
      <2>1. /\ NamesOne(request[r]) /\ Watched(request[r])
            /\ request[r].out \subseteq {request[r].ask.share} /\ request[r].out # {}
            BY <1>1 DEF Handled, Watched, AnswerPC
      <2> QED BY <1>1, <2>1 DEF Fair, NamesOne, Single
<1> QED BY <1>2, <1>3, <1>4, <1>5, <1>6, <1>7 DEF IInv, Inv, EditInv

\* However many requests are served while shares, lists, peers and sessions come and go:
\* each is served as coming from the session it arrived on, no remote peer is given the
\* lists, GetShares lets no share through that was closed to it from the request's arrival
\* to its answer, and no entry is read for a peer but after the share it names was open
\* to it.  That the entry is one of that share is not claimed: the code reads it whatever share it is in
\* (peer_server.go:57-97, share.go:45-138, 200-208).
THEOREM RequestsSafe == Spec => []Inv
BY Invariance, Consequences, PTL

\* A share that stayed open to a peer is not left out of what it is shown, though the
\* handler reads the rows one by one (share.go:46-66).
THEOREM NothingOpenLeftOut == Spec => []ShowsAllPermitted
BY Invariance, Consequences, PTL

\* A share has a directory that contains the path it was given, until a user deletes or
\* moves that, whichever call of the three failed (api-handlers-shares.go:64-90).
THEOREM SharesHaveDirectories == Spec => []DirectoriesOfShares
BY Invariance, Consequences, PTL

\* A call beside which no other ran and no directory was saved makes none inside another
\* (api-handlers-shares.go:64-79).
THEOREM DirectoriesMadeOnce == Spec => []NoDirectoryTwice
BY Invariance, Consequences, PTL
=============================================================================
