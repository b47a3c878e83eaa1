---------------------------- MODULE ShareEditing ----------------------------
(***************************************************************************)
(* The rows that say what is shared and with whom, and the API calls that  *)
(* change them: handleSaveShare, which also makes the scanned directory of *)
(* a new share (look it up, create it, save the share: three database      *)
(* calls), handleSaveModel, which saves peers and directories without any  *)
(* look-up, and handleDeleteModel.  IsPeerPermitted is the decision that   *)
(* the rows exist for.                                                     *)
(***************************************************************************)
EXTENDS Naturals

CONSTANTS
    Peers, NameOf, Groups, GroupsOf, \* as in Subscriptions
    Wildcard,  \* the entry `*` of a blocklist
    Shares,    \* share IDs
    Lists,     \* what a user may enter: [blocklist, allowlist], sets of entries
    Initially, \* the rows that shares may have to start with
    Saves,     \* API calls of handleSaveShare
    SaveOf,    \* of a call: the share, its lists and its path
    Paths,     \* of directories
    Above,     \* the paths that contain a path, itself among them
    Chosen,    \* labels that a user may choose for a directory
    NoPath, NoShare, NoLabel,
    MaxEdits   \* bound on calls of handleSaveModel and handleDeleteModel

ASSUME ShareEditingAssumption ==
    /\ GroupsOf \in [Peers -> SUBSET Groups]
    /\ Wildcard \notin Groups /\ \A p \in Peers : NameOf[p] # Wildcard
    /\ NoLabel \notin Saves \cup Chosen /\ Saves \cap Chosen = {}
    /\ NoPath \notin Paths
    /\ Above \in [Paths -> SUBSET Paths] /\ \A path \in Paths : path \in Above[path]
    /\ \A x \in Saves : /\ SaveOf[x].share \in Shares /\ SaveOf[x].lists \in Lists
                       /\ SaveOf[x].path \in Paths \cup {NoPath}
    /\ Initially \subseteq [Shares -> {[lists |-> l, label |-> NoLabel, path |-> NoPath] : l \in Lists} \cup {NoShare}]
    /\ MaxEdits \in Nat

VARIABLES
    known, \* the rows of authorized_peers
    share, \* the rows of shares
    dirs,  \* the rows of scanned_directories: a label and a path
    save,  \* where each API call is
    lone,  \* history: calls beside which no other ran and no directory was saved
    edited, \* history: the labels of directories that a user has saved or deleted
    edits  \* how often handleSaveModel and handleDeleteModel were called

editVars == <<known, share, dirs, save, lone, edited, edits>>

\* The label that handleSaveShare makes up is the share's ID and a random number: it
\* stands for the call that made it.
Labels == Saves \cup Chosen
Directory == [label : Labels, path : Paths]

\* path is history: the one that the share was last given.
ShareRow == [lists : Lists, label : Labels \cup {NoLabel}, path : Paths \cup {NoPath}]
SavePC == {"idle", "lookup", "create", "save", "returned"}

EditTypeOK ==
    /\ known \subseteq Peers
    /\ share \in [Shares -> ShareRow \cup {NoShare}]
    /\ dirs \subseteq Directory
    /\ save \in [Saves -> [pc : SavePC, label : Labels \cup {NoLabel}]]
    /\ lone \subseteq Saves /\ edited \subseteq Labels /\ edits \in 0..MaxEdits

EditInit ==
    /\ known \in SUBSET Peers
    /\ share \in Initially
    /\ dirs = {}
    /\ save = [x \in Saves |-> [pc |-> "idle", label |-> NoLabel]]
    /\ lone = Saves /\ edited = {} /\ edits = 0

IsMemberOf(p, groupOrName) ==
    IF groupOrName \in Groups THEN groupOrName \in GroupsOf[p] ELSE NameOf[p] = groupOrName

\* For a peer with a row.  An entry of the blocklist that names the peer or a group of
\* its decides at once; the wildcard only sends the decision to the allowlist, so that
\* the order of the entries does not matter.
Admits(lists, p) ==
    /\ \A block \in lists.blocklist \ {Wildcard} : ~IsMemberOf(p, block)
    /\ Wildcard \in lists.blocklist => \E allow \in lists.allowlist : IsMemberOf(p, allow)

----------------------------------------------------------------------------
Running(x) == save[x].pc \in {"lookup", "create", "save"}

SaveShareStarts(x) ==
    /\ save[x].pc = "idle"
    /\ save' = [save EXCEPT ![x].pc = IF SaveOf[x].path = NoPath THEN "save" ELSE "lookup"]
    /\ lone' = IF \E y \in Saves : Running(y) THEN lone \ ({x} \cup {y \in Saves : Running(y)})
               ELSE lone
    /\ UNCHANGED <<known, share, dirs, edited, edits>>

\* Slip: the path itself is looked for.
GetDirectoriesByFile_Same(x) == {dir \in dirs : dir.path = SaveOf[x].path}

\* The directories that contain the path, in no order that the code chooses.
GetDirectoriesByFile(x) == {dir \in dirs : dir.path \in Above[SaveOf[x].path]}

FindDirectory(x) ==
    /\ save[x].pc = "lookup"
    /\ \/ /\ GetDirectoriesByFile(x) = {}
          /\ save' = [save EXCEPT ![x].pc = "create"]
       \/ \E dir \in GetDirectoriesByFile(x) :
             save' = [save EXCEPT ![x] = [pc |-> "save", label |-> dir.label]]
    /\ UNCHANGED <<known, share, dirs, lone, edited, edits>>

CreateDirectory(x) ==
    /\ save[x].pc = "create"
    /\ \/ /\ dirs' = dirs \cup {[label |-> x, path |-> SaveOf[x].path]}
          /\ save' = [save EXCEPT ![x] = [pc |-> "save", label |-> x]]
       \/ /\ save' = [save EXCEPT ![x].pc = "returned"]
          /\ UNCHANGED dirs
    /\ UNCHANGED <<known, share, lone, edited, edits>>

\* Slip: a record without a path takes the share's directory away.
Saved_WithoutDirectory(x) ==
    LET old == share[SaveOf[x].share]
    IN  IF SaveOf[x].path = NoPath /\ old # NoShare
        THEN [old EXCEPT !.lists = SaveOf[x].lists, !.label = NoLabel]
        ELSE [lists |-> SaveOf[x].lists, label |-> save[x].label, path |-> SaveOf[x].path]

\* A record without a path leaves the share the directory it has.
Saved(x) ==
    LET old == share[SaveOf[x].share]
    IN  IF SaveOf[x].path = NoPath /\ old # NoShare
        THEN [old EXCEPT !.lists = SaveOf[x].lists]
        ELSE [lists |-> SaveOf[x].lists, label |-> save[x].label, path |-> SaveOf[x].path]

\* CreateOrUpdate (POST) or Update (PUT): either may be refused, and what the call
\* created before stays.
SaveShare(x) ==
    /\ save[x].pc = "save"
    /\ \/ share' = [share EXCEPT ![SaveOf[x].share] = Saved(x)]
       \/ UNCHANGED share
    /\ save' = [save EXCEPT ![x] = [pc |-> "returned", label |-> NoLabel]]
    /\ UNCHANGED <<known, dirs, lone, edited, edits>>

handleSaveShare(x) ==
    SaveShareStarts(x) \/ FindDirectory(x) \/ CreateDirectory(x) \/ SaveShare(x)

\* handleDeleteModel and handleSaveModel
Edit == edits < MaxEdits /\ edits' = edits + 1

DeleteShare(sh) ==
    /\ Edit
    /\ share[sh] # NoShare
    /\ share' = [share EXCEPT ![sh] = NoShare]
    /\ UNCHANGED <<known, dirs, save, lone, edited>>

DeleteDirectory(dir) ==
    /\ Edit
    /\ dir \in dirs
    /\ dirs' = dirs \ {dir}
    /\ edited' = edited \cup {dir.label}
    /\ UNCHANGED <<known, share, save, lone>>

\* CreateOrUpdate or Update of a directory under any label, whatever directories there are.
SaveDirectory(label, path) ==
    /\ Edit
    /\ label \in Chosen \cup {dir.label : dir \in dirs}
    /\ dirs' = {dir \in dirs : dir.label # label} \cup {[label |-> label, path |-> path]}
    /\ edited' = edited \cup {label}
    /\ lone' = lone \ {x \in Saves : Running(x)}
    /\ UNCHANGED <<known, share, save>>

DeletePeer(p) ==
    /\ Edit
    /\ p \in known
    /\ known' = known \ {p}
    /\ UNCHANGED <<share, dirs, save, lone, edited>>

SavePeer(p) ==
    /\ Edit
    /\ p \notin known
    /\ known' = known \cup {p}
    /\ UNCHANGED <<share, dirs, save, lone, edited>>

EditNext ==
    \/ \E x \in Saves : handleSaveShare(x)
    \/ \E sh \in Shares : DeleteShare(sh)
    \/ \E dir \in dirs : DeleteDirectory(dir)
    \/ \E label \in Labels, path \in Paths : SaveDirectory(label, path)
    \/ \E p \in Peers : DeletePeer(p) \/ SavePeer(p)

----------------------------------------------------------------------------
(* Properties.                                                             *)

\* A share that was given a path has a directory that contains it until a user deletes
\* or moves that, whichever step of the call failed: the directory comes first
\* (api-handlers-shares.go 64-90).
DirectoriesOfShares ==
    \A sh \in Shares :
        share[sh] # NoShare /\ share[sh].path # NoPath
            => /\ share[sh].label # NoLabel
               /\ \/ \E dir \in dirs : dir.label = share[sh].label /\ dir.path \in Above[share[sh].path]
                  \/ share[sh].label \in edited

\* A call that runs alone is about to create a directory only where none contains its
\* path.  So two directories of one path stem from calls that ran beside others, the
\* look-up and the creation being two steps, or from a user who saved one of them
\* (api-handlers-shares.go 64-90: "if it doesn't already exist, create it").
NoDirectoryTwice ==
    /\ \A x \in lone, dir \in dirs : save[x].pc = "create" => dir.path \notin Above[SaveOf[x].path]
    /\ \A d1, d2 \in dirs :
          d1.path = d2.path /\ d1 # d2 /\ {d1.label, d2.label} \cap edited = {}
              => {d1.label, d2.label} \cap lone = {}

=============================================================================
