------------------------ MODULE DownloadFiles_proofs ------------------------
(***************************************************************************)
(* Inv is an inductive invariant of DownloadFiles: a destination holds     *)
(* what a successful transfer delivered for it and nothing else, and what  *)
(* is recorded as completed is in place, for any number of downloads that  *)
(* share destinations.                                                     *)
(***************************************************************************)
EXTENDS DownloadFiles, TLAPS

USE TargetAssumption, LabelAssumption, BlocksAssumption, NoFileAssumption, BoundAssumption

LEMMA InitInv == Init => Inv
BY DEF Init, Inv, TypeOK, DestinationIsDelivered, CompletedIsInPlace, StagesAgree, File

\* A step of Download leaves the rest of the program alone.
LEMMA DownloadInv ==
    ASSUME Inv, NEW d \in Downloads, Download(d)
    PROVE  Inv'
<1> USE DEF Inv, TypeOK, File, scanning, bounds
<1>1. CASE Fails(d)
  BY <1>1 DEF Fails, DestinationIsDelivered, CompletedIsInPlace, StagesAgree
<1>2. CASE OpenTempFile(d)
  BY <1>2 DEF OpenTempFile, DestinationIsDelivered, CompletedIsInPlace, StagesAgree
<1>3. CASE WaitReturns(d)
  BY <1>3 DEF WaitReturns, DestinationIsDelivered, CompletedIsInPlace, StagesAgree
<1>4. CASE Rename(d)
  <2> DEFINE p == Target[d]
  <2>1. /\ pc[d] = "rename" /\ temp[d] # NoFile /\ temp[d] = delivered[d] /\ temp[d].from = d
        /\ ~writing[d] /\ status[d] = "completed" /\ row[d] = "pending"
    BY <1>4 DEF Rename, StagesAgree
  <2>2. /\ file' = [file EXCEPT ![p] = temp[d]] /\ temp' = [temp EXCEPT ![d] = NoFile]
        /\ pc' = [pc EXCEPT ![d] = "open"]
        /\ UNCHANGED <<status, row, writing, delivered, scanning, bounds>>
    BY <1>4 DEF Rename
  <2>3. TypeOK'
    BY <2>1, <2>2
  <2>4. \A q \in Paths : file[q] # NoFile => file'[q] # NoFile
    BY <2>1, <2>2
  <2>5. DestinationIsDelivered'
    BY <2>1, <2>2 DEF DestinationIsDelivered
  <2>6. CompletedIsInPlace'
    BY <2>1, <2>2, <2>4 DEF CompletedIsInPlace
  <2>7. StagesAgree'
    <3>1. /\ temp'[d] = NoFile /\ file'[p] # NoFile /\ pc'[d] = "open"
          /\ \A e \in Downloads \ {d} : temp'[e] = temp[e] /\ pc'[e] = pc[e]
      BY <2>1, <2>2
    <3>2. ASSUME NEW e \in Downloads, e # d
          PROVE  /\ file[Target[e]] # NoFile => file'[Target[e]] # NoFile
                 /\ temp'[e] = temp[e] /\ pc'[e] = pc[e]
      BY <2>4, <3>1, <3>2
    <3> QED BY <2>1, <2>2, <3>1, <3>2 DEF StagesAgree
  <2> QED BY <2>3, <2>5, <2>6, <2>7
<1>5. CASE OpenFile(d)
  BY <1>5 DEF OpenFile, DestinationIsDelivered, CompletedIsInPlace, StagesAgree
<1> QED BY <1>1, <1>2, <1>3, <1>4, <1>5 DEF Download

\* Nor does a step of the receive loop, early or late, touch what is at a destination.
LEMMA LoopInv ==
    ASSUME Inv, NEW d \in Downloads, Loop(d)
    PROVE  Inv'
<1> USE DEF Inv, TypeOK, File, scanning, bounds
<1>1. CASE BlockArrives(d)
  BY <1>1 DEF BlockArrives, DestinationIsDelivered, CompletedIsInPlace, StagesAgree
<1>2. ASSUME NEW diskOK \in BOOLEAN, BlockLands(d, diskOK)
      PROVE  Inv'
  BY <1>2 DEF BlockLands, DestinationIsDelivered, CompletedIsInPlace, StagesAgree
<1> QED BY <1>1, <1>2 DEF Loop

LEMMA WorkerInv ==
    ASSUME Inv, NEW d \in Downloads, Worker(d)
    PROVE  Inv'
<1> USE DEF Inv, TypeOK, File, scanning, bounds
<1>1. CASE Save(d)
  BY <1>1 DEF Save, DestinationIsDelivered, CompletedIsInPlace, StagesAgree
<1>2. CASE SaveFails(d)
  BY <1>2 DEF SaveFails, DestinationIsDelivered, CompletedIsInPlace, StagesAgree
<1>3. CASE Offer(d)
  BY <1>3 DEF Offer, DestinationIsDelivered, CompletedIsInPlace, StagesAgree
<1> QED BY <1>1, <1>2, <1>3 DEF Worker

LEMMA ScanningInv ==
    ASSUME Inv, AddToFileset \/ Scanner
    PROVE  Inv'
<1> USE DEF Inv, workers, bounds, DestinationIsDelivered, CompletedIsInPlace, StagesAgree
<1>1. TypeOK'
  BY DEF TypeOK, File, AddToFileset, Scanner, CopyFileset, ClearFileset, ScanDirectories
<1>2. UNCHANGED <<pc, status, row, temp, writing, delivered, file>>
  BY DEF AddToFileset, Scanner, CopyFileset, ClearFileset, ScanDirectories
<1> QED BY <1>1, <1>2

LEMMA CrashInv ==
    ASSUME Inv, CrashAndRestart
    PROVE  Inv'
<1> USE DEF Inv, CrashAndRestart
<1>1. TypeOK'
  BY DEF TypeOK, File
<1>2. DestinationIsDelivered' /\ CompletedIsInPlace' /\ StagesAgree'
  BY DEF TypeOK, DestinationIsDelivered, CompletedIsInPlace, StagesAgree
<1> QED BY <1>1, <1>2

\* No destination ever holds anything but what a successful transfer for it has
\* delivered, and every row that says completed has its file in place
\* (queued_download.go:142-248, queue.go:182-203).
THEOREM FilesSafe == Spec => []Inv
<1>1. Inv /\ [Next]_vars => Inv'
  <2> SUFFICES ASSUME Inv, [Next]_vars
               PROVE  Inv'
    OBVIOUS
  <2>1. CASE Next
    BY <2>1, DownloadInv, LoopInv, WorkerInv, ScanningInv, CrashInv DEF Next
  <2>2. CASE UNCHANGED vars
    BY <2>2 DEF vars, workers, scanning, bounds, Inv, TypeOK, DestinationIsDelivered,
                CompletedIsInPlace, StagesAgree
  <2> QED BY <2>1, <2>2
<1> QED BY InitInv, <1>1, PTL DEF Spec
=============================================================================
