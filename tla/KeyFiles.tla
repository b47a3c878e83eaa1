------------------------------ MODULE KeyFiles ------------------------------
(***************************************************************************)
(* The two key files and the executions of the program that make and load  *)
(* them: Application.Initialize, GenerateKeypair and LoadKeyfiles.  Any    *)
(* number of executions may run at once (every subcommand that opens the   *)
(* database initializes an application), any may end between two calls of  *)
(* the file system.  The file system and the database are external.        *)
(***************************************************************************)
EXTENDS Naturals

CONSTANTS
    Processes, \* executions of the program, each started once
    NoFile, NoKey,
    MaxFaults, \* bound on the calls that the file system or the database refuses
    MaxCrashes \* bound on executions that are killed

ASSUME KeyFilesAssumption ==
    /\ NoKey \notin Processes /\ NoFile \notin Processes
    /\ MaxFaults \in Nat /\ MaxCrashes \in Nat

VARIABLES
    file,      \* the execution that made the file at each path
    whole,     \* the paths whose file has all of its key
    pc,        \* how far each execution is
    loaded,    \* the keys it has loaded
    undone,    \* history: executions that gave up writing a pair
    abandoned, \* history: executions that left files of an unfinished pair
    faults, crashes

keyVars == <<file, whole, pc, loaded, undone, abandoned, faults, crashes>>

files == <<file, whole>>

Keys == {"public", "private"}

\* "undo public" is the deferred removal after the private file could not be created,
\* "undo both" and "undo private" are those after the pair could not be written.
Generating == {"create private", "write public", "write private",
               "undo public", "undo both", "undo private"}
HoldsPublic == {"create private", "write public", "write private", "undo public", "undo both"}
HoldsPrivate == {"write public", "write private", "undo both", "undo private"}
Starting == {"stat public", "stat private", "create public", "open database",
             "load public", "load private", "peer and API"} \cup Generating
ProcessPC == {"off", "ready", "exited"} \cup Starting

KeyTypeOK ==
    /\ file \in [Keys -> Processes \cup {NoFile}]
    /\ whole \subseteq {k \in Keys : file[k] # NoFile}
    /\ pc \in [Processes -> ProcessPC]
    /\ loaded \in [Processes -> [Keys -> Processes \cup {NoKey}]]
    /\ undone \subseteq Processes /\ abandoned \subseteq Processes
    /\ faults \in 0..MaxFaults /\ crashes \in 0..MaxCrashes

KeyInit ==
    /\ file = [k \in Keys |-> NoFile] /\ whole = {}
    /\ pc = [p \in Processes |-> "off"]
    /\ loaded = [p \in Processes |-> [k \in Keys |-> NoKey]]
    /\ undone = {} /\ abandoned = {} /\ faults = 0 /\ crashes = 0

At(p, step) == pc[p] = step
Goto(p, step) == pc' = [pc EXCEPT ![p] = step] /\ UNCHANGED loaded
Fault == faults < MaxFaults /\ faults' = faults + 1

----------------------------------------------------------------------------
(* Application.Initialize, up to the keys.                                 *)

InitializeStarts(p) ==
    /\ At(p, "off") /\ Goto(p, "stat public")
    /\ UNCHANGED <<files, undone, abandoned, faults, crashes>>

\* Only when neither path exists are keys generated; the paths are looked at one
\* after the other.
StatPublic(p) ==
    /\ At(p, "stat public")
    /\ Goto(p, IF file["public"] = NoFile THEN "stat private" ELSE "open database")
    /\ UNCHANGED <<files, undone, abandoned, faults, crashes>>

StatPrivate(p) ==
    /\ At(p, "stat private")
    /\ Goto(p, IF file["private"] = NoFile THEN "create public" ELSE "open database")
    /\ UNCHANGED <<files, undone, abandoned, faults, crashes>>

\* A directory cannot be made, a path or the address not be understood, the database
\* not be opened, a file not be read: Initialize returns the error and the program ends.
InitializeFails(p) ==
    /\ pc[p] \in Starting \ Generating
    /\ Fault /\ Goto(p, "exited")
    /\ UNCHANGED <<files, undone, abandoned, crashes>>

OpenDatabase(p) ==
    /\ At(p, "open database") /\ Goto(p, "load public")
    /\ UNCHANGED <<files, undone, abandoned, faults, crashes>>

----------------------------------------------------------------------------
(* GenerateKeypair.                                                        *)

Create(p, k) == file' = [file EXCEPT ![k] = p] /\ whole' = whole \ {k}

\* What is written goes to the file that was opened, whatever its path has now.
Write(p, k) == whole' = (IF file[k] = p THEN whole \cup {k} ELSE whole) /\ UNCHANGED file

\* Slip: the file is truncated if there is one.
CreatePublic_Truncates(p) ==
    /\ At(p, "create public")
    /\ Create(p, "public") /\ Goto(p, "create private")
    /\ UNCHANGED <<undone, abandoned, faults, crashes>>

CreatePublic(p) ==
    /\ At(p, "create public")
    /\ IF file["public"] = NoFile
       THEN Create(p, "public") /\ Goto(p, "create private")
       ELSE UNCHANGED files /\ Goto(p, "exited")
    /\ UNCHANGED <<undone, abandoned, faults, crashes>>

CreatePrivate(p) ==
    /\ At(p, "create private")
    /\ \/ /\ file["private"] = NoFile
          /\ Create(p, "private") /\ Goto(p, "write public")
          /\ UNCHANGED faults
       \/ /\ IF file["private"] = NoFile THEN Fault ELSE UNCHANGED faults
          /\ Goto(p, "undo public") /\ UNCHANGED files
    /\ UNCHANGED <<undone, abandoned, crashes>>

\* The keys themselves are made just before the first of them is written.
WriteKey(p, k, next) ==
    /\ \/ Write(p, k) /\ Goto(p, next) /\ UNCHANGED <<undone, faults>>
       \/ /\ Fault /\ Goto(p, "undo both")
          /\ undone' = undone \cup {p}
          /\ UNCHANGED files
    /\ UNCHANGED <<abandoned, crashes>>

WritePublic(p) == At(p, "write public") /\ WriteKey(p, "public", "write private")
WritePrivate(p) == At(p, "write private") /\ WriteKey(p, "private", "open database")

\* Removal is by name; its error is ignored.
Remove(p, k, next) ==
    /\ \/ /\ file' = [file EXCEPT ![k] = NoFile] /\ whole' = whole \ {k}
          /\ UNCHANGED <<abandoned, faults>>
       \/ Fault /\ abandoned' = abandoned \cup {p} /\ UNCHANGED files
    /\ Goto(p, next)
    /\ UNCHANGED <<undone, crashes>>

\* Slip: the public file stays.
UndoPublic_Stays(p) ==
    /\ At(p, "undo public") /\ Goto(p, "exited")
    /\ UNCHANGED <<files, undone, abandoned, faults, crashes>>

UndoPublic(p) == At(p, "undo public") /\ Remove(p, "public", "exited")

\* The deferred calls run last in, first out.
UndoBoth(p) ==
    \/ At(p, "undo both") /\ Remove(p, "public", "undo private")
    \/ At(p, "undo private") /\ Remove(p, "private", "exited")

GenerateKeypair(p) ==
    \/ CreatePublic(p) \/ CreatePrivate(p)
    \/ WritePublic(p) \/ WritePrivate(p)
    \/ UndoPublic(p) \/ UndoBoth(p)

----------------------------------------------------------------------------
(* LoadKeyfiles: a file that is missing or has no whole key is an error.   *)

Load(p, k, next) ==
    /\ pc' = [pc EXCEPT ![p] = next]
    /\ loaded' = [loaded EXCEPT ![p][k] = file[k]]

LoadPublic(p) ==
    /\ At(p, "load public")
    /\ IF "public" \in whole THEN Load(p, "public", "load private") ELSE Goto(p, "exited")
    /\ UNCHANGED <<files, undone, abandoned, faults, crashes>>

LoadPrivate(p) ==
    /\ At(p, "load private")
    /\ IF "private" \in whole THEN Load(p, "private", "peer and API") ELSE Goto(p, "exited")
    /\ UNCHANGED <<files, undone, abandoned, faults, crashes>>

\* LocalPeer.Initialize and API.Initialize
Initialized(p) ==
    /\ At(p, "peer and API") /\ Goto(p, "ready")
    /\ UNCHANGED <<files, undone, abandoned, faults, crashes>>

\* The execution is killed while it starts.
Killed(p) ==
    /\ pc[p] \in Starting
    /\ crashes < MaxCrashes /\ crashes' = crashes + 1
    /\ Goto(p, "exited")
    /\ abandoned' = IF pc[p] \in Generating THEN abandoned \cup {p} ELSE abandoned
    /\ UNCHANGED <<files, undone, faults>>

Initialize(p) ==
    \/ StatPublic(p) \/ StatPrivate(p) \/ OpenDatabase(p)
    \/ GenerateKeypair(p)
    \/ LoadPublic(p) \/ LoadPrivate(p) \/ Initialized(p)
    \/ InitializeFails(p)

KeyNext == \E p \in Processes : InitializeStarts(p) \/ Initialize(p) \/ Killed(p)

----------------------------------------------------------------------------
(* Properties.                                                             *)

\* When nobody is generating keys and nobody was killed (or refused the removal) while
\* it did, there are both files, with one whole pair, or none: an error at any step
\* takes back what was made (keys.go 79-83, 117-127).  Half a pair is for ever, since
\* keys are only generated when both paths are free (application.go 125-127).
NoHalfPair ==
    (\A p \in Processes : pc[p] \notin Generating) /\ abandoned = {} =>
        \/ \A k \in Keys : file[k] = NoFile
        \/ (Keys \subseteq whole) /\ file["public"] = file["private"]

Loaded(p) == loaded[p]["private"] # NoKey

\* Executions that have loaded their keys are one and the same peer, and have the two
\* halves of one pair, whatever others did while they read the two files; unless the
\* public half is of a pair that was given up (keys.go 17-52, 70-131).
OneIdentity ==
    \A p, q \in Processes : Loaded(p) /\ Loaded(q) =>
        /\ loaded[p]["private"] = loaded[q]["private"]
        /\ loaded[p]["public"] \in {loaded[p]["private"]} \cup undone

\* What keeps these true.  An execution that is generating holds the files it has made,
\* and no other one can have them; the private file is written last.
FilesAreHeld ==
    \A p \in Processes :
        /\ pc[p] \in HoldsPublic => file["public"] = p
        /\ pc[p] \in HoldsPrivate =>
              file["private"] = p /\ "private" \notin whole
        /\ pc[p] \in {"create private", "write public", "undo public"} => "public" \notin whole
        /\ At(p, "write private") => "public" \in whole
        /\ At(p, "undo both") => p \in undone

PairIsWhole ==
    "private" \in whole => "public" \in whole /\ file["public"] = file["private"]

\* A file that is neither held nor left behind is of the whole pair.
FilesHaveReason ==
    /\ \/ file["public"] = NoFile \/ "private" \in whole
       \/ file["public"] \in abandoned \/ pc[file["public"]] \in HoldsPublic
    /\ \/ file["private"] = NoFile \/ "private" \in whole
       \/ file["private"] \in abandoned \/ pc[file["private"]] \in HoldsPrivate

LoadedFromFiles ==
    \A p \in Processes :
        /\ Loaded(p) => "private" \in whole /\ file["private"] = loaded[p]["private"]
        /\ Loaded(p) \/ At(p, "load private") => loaded[p]["public"] # NoKey
        /\ loaded[p]["public"] # NoKey =>
              \/ loaded[p]["public"] \in undone
              \/ "public" \in whole /\ file["public"] = loaded[p]["public"]

KeyInv == KeyTypeOK /\ FilesAreHeld /\ PairIsWhole /\ FilesHaveReason /\ LoadedFromFiles

\* A whole pair is never overwritten or removed: the peer's ID, under which others have
\* authorized it, stays (keys.go 71-81: O_EXCL).
KeysAreForever ==
    [][(Keys \subseteq whole) => UNCHANGED files]_keyVars

=============================================================================
