--------------------------- MODULE DownloadFiles ----------------------------
(***************************************************************************)
(* Where downloads put their data: QueuedDownload.Download with its        *)
(* temporary file and rename, the worker that saves the row and offers the *)
(* path (queued_download.go:75-257, queue.go:165-215), and the two         *)
(* goroutines that have the directories of finished files scanned          *)
(* (application.go:423-452).                                               *)
(*                                                                         *)
(* What is in a file is the download it comes from and the number of       *)
(* blocks written.  A transfer may succeed with any number of them: what   *)
(* Verify looks at is in InboundTransfers, whose receive loop writes them  *)
(* from beside the worker (peer/transfer.go:90-117).                       *)
(***************************************************************************)
EXTENDS Naturals, FiniteSets

CONSTANTS
    Downloads,     \* rows handed to a worker, each with a worker of its own
    Paths,
    Target,        \* Target[d]: DestinationPath joined with Name
    Labels,        \* the scanned directories
    LabelOf,       \* LabelOf[p]: those that path p is in
    Blocks,        \* bound: most blocks that come for a download
    NoFile,
    MaxCrashes,    \* bound: restarts of the process
    MaxSaveErrors  \* bound: updates of a row that the database refuses

ASSUME TargetAssumption == Target \in [Downloads -> Paths]
ASSUME LabelAssumption == LabelOf \in [Paths -> SUBSET Labels]
ASSUME BlocksAssumption == Blocks \in Nat
ASSUME NoFileAssumption == NoFile \notin [from : Downloads, blocks : 0..Blocks]
ASSUME BoundAssumption == MaxCrashes \in Nat /\ MaxSaveErrors \in Nat

VARIABLES
    pc,            \* where Download and the worker that called it are
    status,        \* Status of the QueuedDownload in memory
    row,           \* Status of its row in the database
    temp,          \* its temporary file, or NoFile
    writing,       \* the receive loop is in the Write of its transfer
    delivered,     \* history: its temporary file when its transfer succeeded, or NoFile
    file,          \* the file at each path, or NoFile
    monitor,       \* monitorQueueCompletedFiles: the path it received, or NoFile
    fileset,       \* paths received and not yet looked at
    scanner,       \* its goroutine: position, the paths it copied
    known,         \* the file the database knows at each path since its last scan
    missed,        \* history: paths that were offered and will not be looked at
    crashes, saveErrors

workers == <<pc, status, row, temp, writing, delivered, file>>
scanning == <<monitor, fileset, scanner, known, missed>>
bounds == <<crashes, saveErrors>>
vars == <<workers, scanning, bounds>>

File == [from : Downloads, blocks : 0..Blocks]

TypeOK ==
    /\ pc \in [Downloads -> {"start", "transfer", "rename", "open", "returned", "offer", "done"}]
    /\ status \in [Downloads -> {"pending", "waiting", "downloading", "completed", "failed"}]
    /\ row \in [Downloads -> {"pending", "downloading", "completed", "failed"}]
    /\ temp \in [Downloads -> File \cup {NoFile}]
    /\ writing \in [Downloads -> BOOLEAN]
    /\ delivered \in [Downloads -> File \cup {NoFile}]
    /\ file \in [Paths -> File \cup {NoFile}]
    /\ monitor \in Paths \cup {NoFile}
    /\ fileset \subseteq Paths
    /\ scanner \in [at : {"sleeping", "copied", "looking"}, paths : SUBSET Paths]
    /\ known \in [Paths -> File \cup {NoFile}]
    /\ missed \subseteq Paths
    /\ crashes \in 0..MaxCrashes /\ saveErrors \in 0..MaxSaveErrors

Init ==
    /\ pc = [d \in Downloads |-> "start"]
    /\ status = [d \in Downloads |-> "pending"]
    /\ row = [d \in Downloads |-> "pending"]
    /\ temp = [d \in Downloads |-> NoFile]
    /\ writing = [d \in Downloads |-> FALSE]
    /\ delivered = [d \in Downloads |-> NoFile]
    /\ file = [p \in Paths |-> NoFile]
    /\ monitor = NoFile
    /\ fileset = {}
    /\ scanner = [at |-> "sleeping", paths |-> {}]
    /\ known = [p \in Paths |-> NoFile]
    /\ missed = {}
    /\ crashes = 0 /\ saveErrors = 0

-----------------------------------------------------------------------------
\* QueuedDownload.Download.  It returns with an error from any of its positions,
\* and the worker then calls Stop.

\* Slip: an error after the transfer leaves the status that the transfer set.
Fails_KeepsStatus(d) ==
    /\ pc[d] \in {"start", "transfer", "rename", "open"}
    /\ pc' = [pc EXCEPT ![d] = "returned"]
    /\ status' = [status EXCEPT ![d] = IF @ = "completed" THEN @ ELSE "failed"]
    /\ UNCHANGED <<row, temp, writing, delivered, file, scanning, bounds>>

\* No session, a refused row, a directory or file that cannot be made; a request
\* refused, a transfer that fails, perhaps while the loop is in its Write; a
\* rename; an open.  What exists on disk stays: the deferred os.Remove is given
\* the pattern of the name, not the name.
Fails(d) ==
    /\ pc[d] \in {"start", "transfer", "rename", "open"}
    /\ pc' = [pc EXCEPT ![d] = "returned"]
    /\ status' = [status EXCEPT ![d] = "failed"]
    /\ UNCHANGED <<row, temp, writing, delivered, file, scanning, bounds>>

OpenTempFile(d) ==
    /\ pc[d] = "start"
    /\ pc' = [pc EXCEPT ![d] = "transfer"]
    /\ status' = [status EXCEPT ![d] = "waiting"]
    /\ temp' = [temp EXCEPT ![d] = [from |-> d, blocks |-> 0]]
    /\ UNCHANGED <<row, writing, delivered, file, scanning, bounds>>

\* The loop finishes Complete and leaves Write before it takes the DataFinalize
\* that makes Wait return without an error.
WaitReturns(d) ==
    /\ pc[d] = "transfer"
    /\ ~writing[d]
    /\ pc' = [pc EXCEPT ![d] = "rename"]
    /\ status' = [status EXCEPT ![d] = "completed"]
    /\ delivered' = [delivered EXCEPT ![d] = temp[d]]
    /\ UNCHANGED <<row, temp, writing, file, scanning, bounds>>

\* It replaces a file that is there.
Rename(d) ==
    /\ pc[d] = "rename"
    /\ file' = [file EXCEPT ![Target[d]] = temp[d]]
    /\ temp' = [temp EXCEPT ![d] = NoFile]
    /\ pc' = [pc EXCEPT ![d] = "open"]
    /\ UNCHANGED <<status, row, writing, delivered, scanning, bounds>>

OpenFile(d) ==
    /\ pc[d] = "open"
    /\ pc' = [pc EXCEPT ![d] = "returned"]
    /\ UNCHANGED <<status, row, temp, writing, delivered, file, scanning, bounds>>

-----------------------------------------------------------------------------
\* The receive loop of the session.

\* Write finds the transfer unfinished.
BlockArrives(d) ==
    /\ pc[d] = "transfer"
    /\ ~writing[d]
    /\ temp[d].blocks < Blocks
    /\ writing' = [writing EXCEPT ![d] = TRUE]
    /\ UNCHANGED <<pc, status, row, temp, delivered, file, scanning, bounds>>

\* Slip: the data goes to the destination itself.
BlockLands_InPlace(d, diskOK) ==
    /\ writing[d]
    /\ writing' = [writing EXCEPT ![d] = FALSE]
    /\ status' = [status EXCEPT ![d] = "downloading"]
    /\ temp' = IF diskOK THEN [temp EXCEPT ![d].blocks = @ + 1] ELSE temp
    /\ file' = [file EXCEPT ![Target[d]] = temp'[d]]
    /\ UNCHANGED <<pc, row, delivered, scanning, bounds>>

\* It calls the status function and then writes to the temporary file.  The
\* download may have failed, and its worker may have gone on, meanwhile.
BlockLands(d, diskOK) ==
    /\ writing[d]
    /\ writing' = [writing EXCEPT ![d] = FALSE]
    /\ status' = [status EXCEPT ![d] = "downloading"]
    /\ temp' = IF diskOK THEN [temp EXCEPT ![d].blocks = @ + 1] ELSE temp
    /\ UNCHANGED <<pc, row, delivered, file, scanning, bounds>>

Loop(d) == BlockArrives(d) \/ \E diskOK \in BOOLEAN : BlockLands(d, diskOK)

Download(d) ==
    \/ Fails(d)
    \/ OpenTempFile(d)
    \/ WaitReturns(d)
    \/ Rename(d)
    \/ OpenFile(d)

-----------------------------------------------------------------------------
\* The worker.

Save(d) ==
    /\ pc[d] = "returned"
    /\ pc' = [pc EXCEPT ![d] = "offer"]
    /\ row' = [row EXCEPT ![d] = status[d]]
    /\ UNCHANGED <<status, temp, writing, delivered, file, scanning, bounds>>

SaveFails(d) ==
    /\ pc[d] = "returned"
    /\ saveErrors < MaxSaveErrors
    /\ saveErrors' = saveErrors + 1
    /\ pc' = [pc EXCEPT ![d] = "offer"]
    /\ UNCHANGED <<status, row, temp, writing, delivered, file, scanning, crashes>>

\* The offer is not made without a path, and nobody waits for it to be taken.
Offer(d) ==
    /\ pc[d] = "offer"
    /\ pc' = [pc EXCEPT ![d] = "done"]
    /\ \/ /\ status[d] # "completed"
          /\ UNCHANGED <<monitor, missed>>
       \/ /\ status[d] = "completed" /\ monitor = NoFile
          /\ monitor' = Target[d]
          /\ UNCHANGED missed
       \/ /\ status[d] = "completed" /\ monitor # NoFile
          /\ missed' = missed \cup {Target[d]}
          /\ UNCHANGED monitor
    /\ UNCHANGED <<status, row, temp, writing, delivered, file, fileset, scanner, known, bounds>>

-----------------------------------------------------------------------------
\* monitorQueueCompletedFiles and its goroutine.

AddToFileset ==
    /\ monitor # NoFile
    /\ fileset' = fileset \cup {monitor}
    /\ monitor' = NoFile
    /\ UNCHANGED <<workers, scanner, known, missed, bounds>>

CopyFileset ==
    /\ scanner.at = "sleeping"
    /\ scanner' = [at |-> "copied", paths |-> fileset]
    /\ UNCHANGED <<workers, monitor, fileset, known, missed, bounds>>

\* Slip: the set is emptied before it is copied.
ClearFileset_First ==
    /\ scanner.at = "copied"
    /\ fileset' = {}
    /\ scanner' = [at |-> "looking", paths |-> {}]
    /\ missed' = missed \cup (fileset \ scanner.paths)
    /\ UNCHANGED <<workers, monitor, known, bounds>>

\* What was added since the copy goes too.
ClearFileset ==
    /\ scanner.at = "copied"
    /\ fileset' = {}
    /\ scanner' = [scanner EXCEPT !.at = "looking"]
    /\ missed' = missed \cup (fileset \ scanner.paths)
    /\ UNCHANGED <<workers, monitor, known, bounds>>

\* The directories of the paths are scanned, and the goroutine sleeps.
ScanDirectories ==
    LET labels == UNION {LabelOf[p] : p \in scanner.paths} IN
    /\ scanner.at = "looking"
    /\ known' = [p \in Paths |-> IF LabelOf[p] \cap labels # {} THEN file[p] ELSE known[p]]
    /\ scanner' = [at |-> "sleeping", paths |-> {}]
    /\ UNCHANGED <<workers, monitor, fileset, missed, bounds>>

-----------------------------------------------------------------------------
\* Rows and files outlive the process.  A download that had started is not
\* started again (DownloadQueue).
CrashAndRestart ==
    /\ crashes < MaxCrashes
    /\ crashes' = crashes + 1
    /\ pc' = [d \in Downloads |-> IF pc[d] = "start" THEN "start" ELSE "done"]
    /\ status' = [d \in Downloads |-> "pending"]
    /\ writing' = [d \in Downloads |-> FALSE]
    /\ monitor' = NoFile
    /\ fileset' = {}
    /\ scanner' = [at |-> "sleeping", paths |-> {}]
    /\ missed' = missed \cup fileset \cup scanner.paths \cup ({monitor} \cap Paths)
                        \cup {Target[d] : d \in {e \in Downloads : pc[e] = "offer"}}
    /\ UNCHANGED <<row, temp, delivered, file, known, saveErrors>>

Worker(d) == Save(d) \/ SaveFails(d) \/ Offer(d)
Scanner == CopyFileset \/ ClearFileset \/ ScanDirectories

Next ==
    \/ \E d \in Downloads : Download(d) \/ Loop(d) \/ Worker(d)
    \/ AddToFileset
    \/ Scanner
    \/ CrashAndRestart

Fairness ==
    /\ \A d \in Downloads : WF_vars(Worker(d))
    /\ WF_vars(AddToFileset)
    /\ WF_vars(Scanner)

Spec == Init /\ [][Next]_vars /\ Fairness

-----------------------------------------------------------------------------
\* What is at a destination is exactly what a transfer for it had delivered when it
\* succeeded: never the file of one that is running or has failed, nor that of
\* another destination, whoever else writes there, however late a block lands and
\* whenever the process ends (queued_download.go:142-150, 221-248;
\* peer/transfer.go:90-117).
DestinationIsDelivered ==
    \A p \in Paths : file[p] # NoFile =>
        file[p] = delivered[file[p].from] /\ Target[file[p].from] = p

\* A row that says "completed" has its file in place, although Download sets this
\* status before the rename (queued_download.go:221-248, queue.go:182-203), and
\* its temporary file is gone.
CompletedIsInPlace ==
    \A d \in Downloads : row[d] = "completed" => file[Target[d]] # NoFile /\ temp[d] = NoFile

\* Where a download is, what is on disk for it, and what the loop may still do to it.
StagesAgree ==
    \A d \in Downloads :
        /\ temp[d] # NoFile => temp[d].from = d
        /\ pc[d] = "start" => temp[d] = NoFile
        /\ pc[d] \in {"start", "transfer"} => delivered[d] = NoFile
        /\ pc[d] \in {"start", "transfer", "rename"} => row[d] = "pending"
        /\ pc[d] \in {"transfer", "rename"} => temp[d] # NoFile
        /\ pc[d] = "transfer" => status[d] # "completed"
        /\ pc[d] = "rename" => temp[d] = delivered[d]
        /\ pc[d] = "open" => temp[d] = NoFile /\ file[Target[d]] # NoFile
        /\ pc[d] \in {"rename", "open"} => status[d] = "completed" /\ ~writing[d]
        /\ pc[d] = "returned" => status[d] \in {"downloading", "completed", "failed"}
        /\ pc[d] \in {"returned", "offer"} /\ status[d] = "completed" =>
              temp[d] = NoFile /\ file[Target[d]] # NoFile
        /\ writing[d] => /\ temp[d] # NoFile /\ temp[d].blocks < Blocks
                         /\ status[d] # "completed" /\ row[d] # "completed"

Inv ==
    /\ TypeOK
    /\ DestinationIsDelivered
    /\ CompletedIsInPlace
    /\ StagesAgree

\* The database comes to know each finished file in a scanned directory as it is,
\* unless its path was offered while the monitor was busy or added between the
\* copy and the Clear (application.go:426-450, queue.go:208-213).
ScannedUnlessMissed ==
    \A d \in Downloads :
        pc[d] = "offer" /\ status[d] = "completed" /\ LabelOf[Target[d]] # {}
            ~> known[Target[d]] = file[Target[d]] \/ Target[d] \in missed
=============================================================================
