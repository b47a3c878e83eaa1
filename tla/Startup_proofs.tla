--------------------------- MODULE Startup_proofs ---------------------------
(***************************************************************************)
(* For any executions, ports and gateways, and any number of errors and    *)
(* kills: Inv is an invariant of Startup, and a whole pair of keys stays.  *)
(* First the keys: KeyInv, which says who holds the two key files and what *)
(* they contain, is kept by every step of any number of executions, and    *)
(* has as its consequences that no half of a pair is left (NoHalfPair),    *)
(* that all executions are one peer (OneIdentity), and that a whole pair   *)
(* stays.  Then the listener, its port mapping and Stop: two executions    *)
(* that hold a mapping hold different ports, so that what one of them      *)
(* removes is never the other's.                                           *)
(***************************************************************************)
EXTENDS Startup, TLAPS

\* An execution goes on to its next call.
LEMMA GotoFacts ==
    ASSUME KeyTypeOK, NEW p \in Processes, NEW s \in ProcessPC, Goto(p, s)
    PROVE  /\ pc' \in [Processes -> ProcessPC]
           /\ loaded' \in [Processes -> [Keys -> Processes \cup {NoKey}]]
           /\ loaded' = loaded
           /\ pc'[p] = s
           /\ \A q \in Processes \ {p} : pc'[q] = pc[q]
BY DEF Goto, KeyTypeOK

\* ... with one more key.
LEMMA LoadFacts ==
    ASSUME KeyTypeOK, NEW p \in Processes, NEW k \in Keys, NEW s \in ProcessPC,
           k \in whole, Load(p, k, s)
    PROVE  /\ pc' \in [Processes -> ProcessPC]
           /\ loaded' \in [Processes -> [Keys -> Processes \cup {NoKey}]]
           /\ loaded'[p][k] = file[k] /\ file[k] # NoKey
           /\ \A x \in Keys \ {k} : loaded'[p][x] = loaded[p][x]
           /\ \A q \in Processes \ {p} : loaded'[q] = loaded[q]
           /\ pc'[p] = s
           /\ \A q \in Processes \ {p} : pc'[q] = pc[q]
BY KeyFilesAssumption DEF Load, KeyTypeOK

\* What a call does to the file it is about.
LEMMA CreateFacts ==
    ASSUME KeyTypeOK, NEW p \in Processes, NEW k \in Keys, Create(p, k)
    PROVE  /\ file' \in [Keys -> Processes \cup {NoFile}]
           /\ whole' \subseteq {x \in Keys : file'[x] # NoFile}
           /\ file'[k] = p
           /\ \A x \in Keys \ {k} : file'[x] = file[x]
           /\ whole' = whole \ {k}
BY DEF KeyTypeOK, Create

LEMMA WriteFacts ==
    ASSUME KeyTypeOK, NEW p \in Processes, NEW k \in Keys, Write(p, k)
    PROVE  /\ file' \in [Keys -> Processes \cup {NoFile}]
           /\ whole' \subseteq {x \in Keys : file'[x] # NoFile}
           /\ file' = file
           /\ whole' = (IF file[k] = p THEN whole \cup {k} ELSE whole)
BY KeyFilesAssumption DEF KeyTypeOK, Write

LEMMA RemoveFacts ==
    ASSUME KeyTypeOK, NEW k \in Keys,
           file' = [file EXCEPT ![k] = NoFile], whole' = whole \ {k}
    PROVE  /\ file' \in [Keys -> Processes \cup {NoFile}]
           /\ whole' \subseteq {x \in Keys : file'[x] # NoFile}
           /\ file'[k] = NoFile
           /\ \A x \in Keys \ {k} : file'[x] = file[x]
BY DEF KeyTypeOK

\* A call that is refused.
LEMMA FaultFacts ==
    ASSUME KeyTypeOK, Fault
    PROVE  faults' \in 0..MaxFaults
BY KeyFilesAssumption DEF KeyTypeOK, Fault

LEMMA CrashFacts ==
    ASSUME KeyTypeOK, crashes < MaxCrashes, crashes' = crashes + 1
    PROVE  crashes' \in 0..MaxCrashes
BY KeyFilesAssumption DEF KeyTypeOK

LEMMA KeyTypeStep ==
    ASSUME KeyTypeOK, NEW p \in Processes, InitializeStarts(p) \/ Initialize(p) \/ Killed(p)
    PROVE  KeyTypeOK'
<1> USE DEF Keys, ProcessPC, Starting, Generating, files
<1>1. CASE InitializeStarts(p)
      BY <1>1, GotoFacts, CreateFacts, LoadFacts DEF KeyTypeOK, InitializeStarts
<1>2. CASE StatPublic(p)
      BY <1>2, GotoFacts, CreateFacts, LoadFacts DEF KeyTypeOK, StatPublic
<1>3. CASE StatPrivate(p)
      BY <1>3, GotoFacts, CreateFacts, LoadFacts DEF KeyTypeOK, StatPrivate
<1>4. CASE OpenDatabase(p)
      BY <1>4, GotoFacts, CreateFacts, LoadFacts DEF KeyTypeOK, OpenDatabase
<1>5. CASE CreatePublic(p)
      BY <1>5, GotoFacts, CreateFacts, LoadFacts DEF KeyTypeOK, CreatePublic
<1>6. CASE CreatePrivate(p)
      <2>1. CASE Create(p, "private") /\ Goto(p, "write public") /\ UNCHANGED <<faults, undone, abandoned, crashes>>
            BY <2>1, GotoFacts, CreateFacts DEF KeyTypeOK
      <2>2. CASE (Fault \/ UNCHANGED faults) /\ Goto(p, "undo public") /\ UNCHANGED <<files, undone, abandoned, crashes>>
            BY <2>2, GotoFacts, FaultFacts DEF KeyTypeOK
      <2> QED BY <1>6, <2>1, <2>2 DEF CreatePrivate
<1>7. CASE WritePublic(p)
      <2>1. CASE Write(p, "public") /\ Goto(p, "write private") /\ UNCHANGED <<undone, faults, abandoned, crashes>>
            BY <2>1, GotoFacts, WriteFacts DEF KeyTypeOK
      <2>2. CASE Fault /\ Goto(p, "undo both") /\ undone' = undone \cup {p} /\ UNCHANGED <<files, abandoned, crashes>>
            BY <2>2, GotoFacts, FaultFacts DEF KeyTypeOK
      <2> QED BY <1>7, <2>1, <2>2 DEF WritePublic, WriteKey
<1>8. CASE WritePrivate(p)
      <2>1. CASE Write(p, "private") /\ Goto(p, "open database") /\ UNCHANGED <<undone, faults, abandoned, crashes>>
            BY <2>1, GotoFacts, WriteFacts DEF KeyTypeOK
      <2>2. CASE Fault /\ Goto(p, "undo both") /\ undone' = undone \cup {p} /\ UNCHANGED <<files, abandoned, crashes>>
            BY <2>2, GotoFacts, FaultFacts DEF KeyTypeOK
      <2> QED BY <1>8, <2>1, <2>2 DEF WritePrivate, WriteKey
<1>9. CASE UndoPublic(p)
      <2>1. CASE /\ file' = [file EXCEPT !["public"] = NoFile] /\ whole' = whole \ {"public"}
                  /\ Goto(p, "exited")
                  /\ UNCHANGED <<abandoned, faults, undone, crashes>>
            BY <2>1, GotoFacts, RemoveFacts DEF KeyTypeOK
      <2>2. CASE /\ Fault /\ Goto(p, "exited")
                  /\ abandoned' = abandoned \cup {p}
                  /\ UNCHANGED <<files, undone, crashes>>
            BY <2>2, GotoFacts, FaultFacts DEF KeyTypeOK
      <2> QED BY <1>9, <2>1, <2>2 DEF UndoPublic, Remove
<1>10. CASE UndoBoth(p)
      <2>1. CASE /\ file' = [file EXCEPT !["public"] = NoFile] /\ whole' = whole \ {"public"}
                  /\ Goto(p, "undo private")
                  /\ UNCHANGED <<abandoned, faults, undone, crashes>>
            BY <2>1, GotoFacts, RemoveFacts DEF KeyTypeOK
      <2>2. CASE /\ Fault /\ Goto(p, "undo private")
                  /\ abandoned' = abandoned \cup {p}
                  /\ UNCHANGED <<files, undone, crashes>>
            BY <2>2, GotoFacts, FaultFacts DEF KeyTypeOK
      <2>3. CASE /\ file' = [file EXCEPT !["private"] = NoFile] /\ whole' = whole \ {"private"}
                  /\ Goto(p, "exited")
                  /\ UNCHANGED <<abandoned, faults, undone, crashes>>
            BY <2>3, GotoFacts, RemoveFacts DEF KeyTypeOK
      <2>4. CASE /\ Fault /\ Goto(p, "exited")
                  /\ abandoned' = abandoned \cup {p}
                  /\ UNCHANGED <<files, undone, crashes>>
            BY <2>4, GotoFacts, FaultFacts DEF KeyTypeOK
      <2> QED BY <1>10, <2>1, <2>2, <2>3, <2>4 DEF UndoBoth, Remove
<1>11. CASE LoadPublic(p)
      BY <1>11, GotoFacts, CreateFacts, LoadFacts DEF KeyTypeOK, LoadPublic
<1>12. CASE LoadPrivate(p)
      BY <1>12, GotoFacts, CreateFacts, LoadFacts DEF KeyTypeOK, LoadPrivate
<1>13. CASE Initialized(p)
      BY <1>13, GotoFacts, CreateFacts, LoadFacts DEF KeyTypeOK, Initialized
<1>14. CASE InitializeFails(p)
      <2>1. Fault /\ Goto(p, "exited") /\ UNCHANGED <<files, undone, abandoned, crashes>>
            BY <1>14 DEF InitializeFails
      <2> QED BY <2>1, GotoFacts, FaultFacts DEF KeyTypeOK
<1>15. CASE Killed(p)
      <2>1. /\ Goto(p, "exited") /\ UNCHANGED <<files, undone, faults>>
            /\ crashes < MaxCrashes /\ crashes' = crashes + 1
            BY <1>15 DEF Killed
      <2>2. crashes' \in 0..MaxCrashes
            BY <2>1, CrashFacts
      <2>3. abandoned' \subseteq Processes
            BY <1>15 DEF Killed, KeyTypeOK
      <2>4. pc' \in [Processes -> ProcessPC] /\ loaded' \in [Processes -> [Keys -> Processes \cup {NoKey}]]
            BY <2>1, GotoFacts
      <2>5. UNCHANGED <<files, undone, faults>>
            BY <2>1
      <2> HIDE DEF Keys, ProcessPC
      <2> QED BY <2>2, <2>3, <2>4, <2>5 DEF KeyTypeOK
<1> QED BY <1>1, <1>2, <1>3, <1>4, <1>5, <1>6, <1>7, <1>8, <1>9, <1>10, <1>11, <1>12, <1>13, <1>14, <1>15 DEF Initialize, GenerateKeypair

Files == FilesAreHeld /\ PairIsWhole /\ FilesHaveReason /\ LoadedFromFiles

\* A step that leaves the files: the execution held none, or has left them behind.
LEMMA FilesStay ==
    ASSUME KeyInv, NEW p \in Processes, NEW s \in ProcessPC \ (Generating \cup {"load private"}),
           Goto(p, s), UNCHANGED <<files, undone>>,
           \/ pc[p] \notin Generating /\ abandoned' = abandoned
           \/ abandoned' = abandoned \cup {p}
    PROVE  Files'
<1>1. pc'[p] = s /\ (\A q \in Processes \ {p} : pc'[q] = pc[q]) /\ UNCHANGED loaded
      BY GotoFacts DEF KeyInv
<1>2. \A k \in Keys : file[k] \in Processes \cup {NoFile}
      BY DEF KeyInv, KeyTypeOK
<1>3. FilesAreHeld'
      BY <1>1 DEF FilesAreHeld, At, files, KeyInv, HoldsPublic, HoldsPrivate, Generating
<1>4. PairIsWhole'
      BY DEF PairIsWhole, files, KeyInv
<1>5. FilesHaveReason'
      BY <1>1, <1>2 DEF FilesHaveReason, files, KeyInv, Keys, HoldsPublic, HoldsPrivate, Generating
<1>6. LoadedFromFiles'
      BY <1>1 DEF LoadedFromFiles, files, KeyInv, At, Loaded
<1> QED BY <1>3, <1>4, <1>5, <1>6 DEF Files

\* Half a pair is taken back, or left.
LEMMA RemoveStep ==
    ASSUME KeyInv, NEW p \in Processes, UndoPublic(p) \/ UndoBoth(p)
    PROVE  Files'
<1>1. \A k \in Keys : file[k] \in Processes \cup {NoFile}
      BY DEF KeyInv, KeyTypeOK
<1>2. PICK k \in Keys, s \in {"undo private", "exited"} :
        /\ pc[p] = (IF s = "undo private" THEN "undo both"
                      ELSE IF k = "public" THEN "undo public" ELSE "undo private")
        /\ (s = "undo private" => k = "public")
        /\ Remove(p, k, s)
      BY DEF UndoPublic, UndoBoth, At, Keys
<1>3. /\ pc'[p] = s /\ (\A q \in Processes \ {p} : pc'[q] = pc[q])
      /\ UNCHANGED <<loaded, undone>>
      <2>1. s \in ProcessPC
            BY DEF ProcessPC, Starting, Generating
      <2>2. Goto(p, s) /\ UNCHANGED undone
            BY <1>2 DEF Remove
      <2> QED BY <2>1, <2>2, GotoFacts DEF KeyInv
<1>4. file[k] = p
      BY <1>2 DEF KeyInv, FilesAreHeld, HoldsPublic, HoldsPrivate, Keys
<1>5. \A x \in Keys : file[x] = p => "private" \notin whole
      BY <1>2 DEF KeyInv, FilesAreHeld, HoldsPublic, HoldsPrivate, Keys, PairIsWhole
<1>6. CASE /\ file' = [file EXCEPT ![k] = NoFile] /\ whole' = whole \ {k}
           /\ UNCHANGED abandoned
      <2>1. file'[k] = NoFile /\ (\A x \in Keys \ {k} : file'[x] = file[x])
            BY <1>6, RemoveFacts DEF KeyInv
      <2>2. FilesAreHeld'
            BY <1>2, <1>3, <1>4, <1>6, <2>1 DEF KeyInv, FilesAreHeld, At, Keys, HoldsPublic, HoldsPrivate
      <2>3. PairIsWhole'
            BY <1>4, <1>5, <1>6, <2>1 DEF KeyInv, PairIsWhole, Keys
      <2>4. FilesHaveReason'
        <3>1. "private" \notin whole
              BY <1>4, <1>5
        <3>2. \A q \in Processes : pc[q] \in HoldsPrivate /\ file'["private"] = q => pc'[q] \in HoldsPrivate
              BY <1>2, <1>3, <1>4, <2>1, KeyFilesAssumption DEF Keys, HoldsPrivate
        <3>3. \A q \in Processes : pc[q] \in HoldsPublic /\ file'["public"] = q => pc'[q] \in HoldsPublic
              BY <1>2, <1>3, <1>4, <2>1, KeyFilesAssumption DEF Keys, HoldsPublic
        <3>4. \A x \in Keys : file'[x] = NoFile \/ file'[x] = file[x]
              BY <2>1
        <3>5. \A x \in Keys : file'[x] = NoFile \/ file'[x] \in Processes
              BY <1>1, <3>4
        <3>6. abandoned' = abandoned /\ "private" \notin whole'
              BY <1>6, <3>1
        <3>7. \/ file'["public"] = NoFile
              \/ file'["public"] \in abandoned' \/ pc'[file'["public"]] \in HoldsPublic
              BY <3>1, <3>3, <3>4, <3>5, <3>6 DEF KeyInv, FilesHaveReason, Keys
        <3>8. \/ file'["private"] = NoFile
              \/ file'["private"] \in abandoned' \/ pc'[file'["private"]] \in HoldsPrivate
              BY <3>1, <3>2, <3>4, <3>5, <3>6 DEF KeyInv, FilesHaveReason, Keys
        <3> QED BY <3>7, <3>8 DEF FilesHaveReason, HoldsPublic, HoldsPrivate
      <2>5. LoadedFromFiles'
            BY <1>2, <1>3, <1>4, <1>5, <1>6, <2>1
            DEF KeyInv, FilesAreHeld, LoadedFromFiles, Keys, At, Loaded
      <2> QED BY <2>2, <2>3, <2>4, <2>5 DEF Files
<1>7. CASE UNCHANGED files /\ abandoned' = abandoned \cup {p}
      <2>1. UNCHANGED <<file, whole>>
            BY <1>7 DEF files
      <2>2. FilesAreHeld'
            BY <1>2, <1>3, <2>1 DEF KeyInv, FilesAreHeld, At, HoldsPublic, HoldsPrivate
      <2>3. PairIsWhole'
            BY <2>1 DEF KeyInv, PairIsWhole
      <2>4. FilesHaveReason'
            BY <1>1, <1>2, <1>3, <1>7, <2>1
            DEF KeyInv, FilesHaveReason, Keys, HoldsPublic, HoldsPrivate
      <2>5. LoadedFromFiles'
            BY <1>2, <1>3, <2>1 DEF KeyInv, LoadedFromFiles, At, Loaded
      <2> QED BY <2>2, <2>3, <2>4, <2>5 DEF Files
<1> QED BY <1>2, <1>6, <1>7 DEF Remove

\* A new file is the execution's own, and not yet whole.
LEMMA CreatePublicStep ==
    ASSUME KeyInv, NEW p \in Processes, CreatePublic(p)
    PROVE  Files'
<1>1. CASE file["public"] # NoFile
      <2>1. /\ Goto(p, "exited") /\ UNCHANGED <<files, undone, abandoned>>
            /\ pc[p] \notin Generating /\ "exited" \in ProcessPC \ (Generating \cup {"load private"})
            BY <1>1 DEF CreatePublic, At, ProcessPC, Generating
      <2> QED BY <2>1, FilesStay
<1>2. CASE file["public"] = NoFile
      <2>1. /\ pc[p] = "create public"
            /\ Create(p, "public") /\ Goto(p, "create private") /\ UNCHANGED <<undone, abandoned>>
            BY <1>2 DEF CreatePublic, At
      <2>2. /\ pc'[p] = "create private" /\ (\A q \in Processes \ {p} : pc'[q] = pc[q])
            /\ UNCHANGED loaded
            BY <2>1, GotoFacts DEF KeyInv, ProcessPC, Starting, Generating
      <2>3. /\ file'["public"] = p /\ file'["private"] = file["private"]
            /\ whole' = whole \ {"public"}
            BY <2>1, CreateFacts DEF KeyInv, Keys
      <2>4. "public" \notin whole /\ "private" \notin whole
            BY <1>2 DEF KeyInv, KeyTypeOK, PairIsWhole
      <2>5. file["private"] \in Processes \cup {NoFile}
            BY DEF KeyInv, KeyTypeOK, Keys
      <2>6. FilesAreHeld'
            BY <1>2, <2>1, <2>2, <2>3, <2>4, KeyFilesAssumption
            DEF KeyInv, FilesAreHeld, At, HoldsPublic, HoldsPrivate
      <2>7. PairIsWhole'
            BY <2>3, <2>4 DEF PairIsWhole
      <2>8. FilesHaveReason'
            BY <2>1, <2>2, <2>3, <2>4, <2>5 DEF KeyInv, FilesHaveReason, HoldsPublic, HoldsPrivate
      <2>9. LoadedFromFiles'
            BY <2>1, <2>2, <2>3, <2>4 DEF KeyInv, LoadedFromFiles, At, Loaded
      <2> QED BY <2>6, <2>7, <2>8, <2>9 DEF Files
<1> QED BY <1>1, <1>2

LEMMA CreatePrivateStep ==
    ASSUME KeyInv, NEW p \in Processes, CreatePrivate(p)
    PROVE  Files'
<1>1. /\ pc[p] = "create private" /\ file["public"] = p
      /\ "public" \notin whole /\ "private" \notin whole
      BY DEF CreatePrivate, KeyInv, FilesAreHeld, PairIsWhole, At, HoldsPublic
<1>2. CASE /\ file["private"] = NoFile
           /\ Create(p, "private") /\ Goto(p, "write public") /\ UNCHANGED <<undone, abandoned>>
      <2>2. /\ pc'[p] = "write public" /\ (\A q \in Processes \ {p} : pc'[q] = pc[q])
            /\ UNCHANGED loaded
            BY <1>2, GotoFacts DEF KeyInv, ProcessPC, Starting, Generating
      <2>3. /\ file'["private"] = p /\ file'["public"] = file["public"]
            /\ whole' = whole \ {"private"}
            BY <1>2, CreateFacts DEF KeyInv, Keys
      <2>6. FilesAreHeld'
            BY <1>1, <1>2, <2>2, <2>3, KeyFilesAssumption
            DEF KeyInv, FilesAreHeld, At, HoldsPublic, HoldsPrivate
      <2>7. PairIsWhole'
            BY <1>1, <2>3 DEF PairIsWhole
      <2>8. FilesHaveReason'
            BY <1>1, <1>2, <2>2, <2>3 DEF KeyInv, FilesHaveReason, HoldsPublic, HoldsPrivate
      <2>9. LoadedFromFiles'
            BY <1>1, <1>2, <2>2, <2>3 DEF KeyInv, LoadedFromFiles, At, Loaded
      <2> QED BY <2>6, <2>7, <2>8, <2>9 DEF Files
<1>3. CASE Goto(p, "undo public") /\ UNCHANGED <<file, whole, undone, abandoned>>
      <2>2. /\ pc'[p] = "undo public" /\ (\A q \in Processes \ {p} : pc'[q] = pc[q])
            /\ UNCHANGED loaded
            BY <1>3, GotoFacts DEF KeyInv, ProcessPC, Starting, Generating
      <2>5. file["private"] \in Processes \cup {NoFile}
            BY DEF KeyInv, KeyTypeOK, Keys
      <2>6. FilesAreHeld'
            BY <1>1, <1>3, <2>2 DEF KeyInv, FilesAreHeld, At, HoldsPublic, HoldsPrivate
      <2>7. PairIsWhole'
            BY <1>3 DEF KeyInv, PairIsWhole
      <2>8. FilesHaveReason'
            BY <1>1, <1>3, <2>2, <2>5 DEF KeyInv, FilesHaveReason, HoldsPublic, HoldsPrivate
      <2>9. LoadedFromFiles'
            BY <1>1, <1>3, <2>2 DEF KeyInv, LoadedFromFiles, At, Loaded
      <2> QED BY <2>6, <2>7, <2>8, <2>9 DEF Files
<1> QED BY <1>2, <1>3 DEF CreatePrivate, files

\* The private key is the last to be written: then the pair is whole.
LEMMA WriteStep ==
    ASSUME KeyInv, NEW p \in Processes, WritePublic(p) \/ WritePrivate(p)
    PROVE  Files'
<1>1. /\ file["public"] = p /\ file["private"] = p /\ "private" \notin whole
      /\ pc[p] \in {"write public", "write private"}
      /\ pc[p] = "write private" => "public" \in whole
      BY DEF WritePublic, WritePrivate, KeyInv, FilesAreHeld, At, HoldsPublic, HoldsPrivate
<1>2. ASSUME NEW k \in Keys, NEW s \in {"write private", "open database"},
             Write(p, k), Goto(p, s), UNCHANGED <<undone, abandoned>>,
             IF k = "public" THEN pc[p] = "write public" /\ s = "write private"
                             ELSE pc[p] = "write private" /\ s = "open database"
      PROVE  Files'
      <2>1. s \in ProcessPC
            BY DEF ProcessPC, Starting, Generating
      <2>2. /\ pc'[p] = s /\ (\A q \in Processes \ {p} : pc'[q] = pc[q])
            /\ UNCHANGED loaded
            BY <1>2, <2>1, GotoFacts DEF KeyInv
      <2>3. file' = file /\ whole' = whole \cup {k}
            BY <1>1, <1>2, WriteFacts DEF KeyInv, Keys
      <2>6. FilesAreHeld'
            BY <1>1, <1>2, <2>2, <2>3 DEF KeyInv, FilesAreHeld, At, Keys, HoldsPublic, HoldsPrivate
      <2>7. PairIsWhole'
            BY <1>1, <1>2, <2>3 DEF PairIsWhole, Keys
      <2>8. FilesHaveReason'
            BY <1>1, <1>2, <2>2, <2>3 DEF FilesHaveReason, Keys, HoldsPublic, HoldsPrivate
      <2>9. LoadedFromFiles'
            BY <1>1, <1>2, <2>2, <2>3 DEF KeyInv, LoadedFromFiles, At, Loaded
      <2> QED BY <2>6, <2>7, <2>8, <2>9 DEF Files
<1>3. CASE Goto(p, "undo both") /\ undone' = undone \cup {p} /\ UNCHANGED <<file, whole, abandoned>>
      <2>2. /\ pc'[p] = "undo both" /\ (\A q \in Processes \ {p} : pc'[q] = pc[q])
            /\ UNCHANGED loaded
            BY <1>3, GotoFacts DEF KeyInv, ProcessPC, Starting, Generating
      <2>6. FilesAreHeld'
            BY <1>1, <1>3, <2>2 DEF KeyInv, FilesAreHeld, At, HoldsPublic, HoldsPrivate
      <2>7. PairIsWhole'
            BY <1>3 DEF KeyInv, PairIsWhole
      <2>8. FilesHaveReason'
            BY <1>1, <1>3, <2>2 DEF FilesHaveReason, HoldsPublic, HoldsPrivate
      <2>9. LoadedFromFiles'
            BY <1>1, <1>3, <2>2 DEF KeyInv, LoadedFromFiles, At, Loaded
      <2> QED BY <2>6, <2>7, <2>8, <2>9 DEF Files
<1>4. CASE WritePublic(p)
      BY <1>2, <1>3, <1>4 DEF WritePublic, WriteKey, At, Keys, files
<1>5. CASE WritePrivate(p)
      BY <1>2, <1>3, <1>5 DEF WritePrivate, WriteKey, At, Keys, files
<1> QED BY <1>4, <1>5

\* A key is only read from a file that has all of it.
LEMMA LoadStep ==
    ASSUME KeyInv, NEW p \in Processes, LoadPublic(p) \/ LoadPrivate(p)
    PROVE  Files'
<1>1. ASSUME Goto(p, "exited"), UNCHANGED <<files, undone, abandoned>>
      PROVE  Files'
      <2>1. pc[p] \notin Generating /\ "exited" \in ProcessPC \ (Generating \cup {"load private"})
            BY DEF LoadPublic, LoadPrivate, At, ProcessPC, Generating
      <2> QED BY <1>1, <2>1, FilesStay
<1>2. ASSUME NEW k \in Keys, NEW s \in {"load private", "peer and API"},
             k \in whole, Load(p, k, s), UNCHANGED <<file, whole, undone, abandoned>>,
             IF k = "public" THEN pc[p] = "load public" /\ s = "load private"
                             ELSE pc[p] = "load private" /\ s = "peer and API"
      PROVE  Files'
      <2>1. s \in ProcessPC
            BY DEF ProcessPC, Starting
      <2>2. /\ pc'[p] = s /\ (\A q \in Processes \ {p} : pc'[q] = pc[q])
            /\ loaded'[p][k] = file[k] /\ file[k] # NoKey
            /\ (\A x \in Keys \ {k} : loaded'[p][x] = loaded[p][x])
            /\ (\A q \in Processes \ {p} : loaded'[q] = loaded[q])
            BY <1>2, <2>1, LoadFacts DEF KeyInv
      <2>3. file[k] \in Processes
            BY <1>2 DEF KeyInv, KeyTypeOK
      <2>5. \A x \in Keys : file[x] \in Processes \cup {NoFile}
            BY DEF KeyInv, KeyTypeOK
      <2>6. FilesAreHeld'
            BY <1>2, <2>2 DEF KeyInv, FilesAreHeld, At, Keys, HoldsPublic, HoldsPrivate
      <2>7. PairIsWhole'
            BY <1>2 DEF KeyInv, PairIsWhole
      <2>8. FilesHaveReason'
            BY <1>2, <2>2, <2>5 DEF KeyInv, FilesHaveReason, Keys, HoldsPublic, HoldsPrivate
      <2>9. LoadedFromFiles'
            BY <1>2, <2>2, <2>3, KeyFilesAssumption DEF KeyInv, LoadedFromFiles, At, Keys, Loaded
      <2> QED BY <2>6, <2>7, <2>8, <2>9 DEF Files
<1>3. CASE LoadPublic(p)
      BY <1>1, <1>2, <1>3 DEF LoadPublic, At, Keys, files
<1>4. CASE LoadPrivate(p)
      BY <1>1, <1>2, <1>4 DEF LoadPrivate, At, Keys, files
<1> QED BY <1>3, <1>4

\* Every step keeps what is known of the files and the keys.
LEMMA KeyStep ==
    ASSUME KeyInv, KeyNext
    PROVE  KeyInv'
<1>1. PICK p \in Processes : InitializeStarts(p) \/ Initialize(p) \/ Killed(p)
      BY DEF KeyNext
<1>2. KeyTypeOK'
      BY <1>1, KeyTypeStep DEF KeyInv
<1> SUFFICES Files'
    BY <1>2 DEF KeyInv, Files
<1>3. {"stat public", "stat private", "create public", "open database", "load public",
       "ready", "exited"} \subseteq ProcessPC \ (Generating \cup {"load private"})
      BY DEF ProcessPC, Starting, Generating
<1>4. CASE InitializeStarts(p) \/ StatPublic(p) \/ StatPrivate(p) \/ OpenDatabase(p) \/ Initialized(p)
      <2>1. pc[p] \notin Generating
            BY <1>4 DEF InitializeStarts, StatPublic, StatPrivate, OpenDatabase, Initialized, At, Generating
      <2>2. UNCHANGED <<files, undone>> /\ UNCHANGED abandoned
            BY <1>4 DEF InitializeStarts, StatPublic, StatPrivate, OpenDatabase, Initialized
      <2>3. \E s \in {"stat public", "stat private", "create public", "open database", "load public",
                      "ready"} : Goto(p, s)
            BY <1>4 DEF InitializeStarts, StatPublic, StatPrivate, OpenDatabase, Initialized
      <2> QED BY <1>1, <1>3, FilesStay, <2>1, <2>2, <2>3
<1>5. CASE InitializeFails(p)
      <2>1. pc[p] \notin Generating /\ Goto(p, "exited") /\ UNCHANGED <<files, undone>> /\ UNCHANGED abandoned
            BY <1>5 DEF InitializeFails
      <2> QED BY <1>1, <1>3, FilesStay, <2>1
<1>6. CASE Killed(p)
      <2>1. Goto(p, "exited") /\ UNCHANGED <<files, undone>>
            BY <1>6 DEF Killed
      <2>2. \/ pc[p] \notin Generating /\ abandoned' = abandoned
            \/ abandoned' = abandoned \cup {p}
            BY <1>6 DEF Killed
      <2> QED BY <1>1, <1>3, FilesStay, <2>1, <2>2
<1>7. CASE GenerateKeypair(p)
      BY <1>1, <1>7, CreatePublicStep, CreatePrivateStep, WriteStep, RemoveStep DEF GenerateKeypair
<1>8. CASE LoadPublic(p) \/ LoadPrivate(p)
      BY <1>1, <1>8, LoadStep
<1> QED BY <1>1, <1>4, <1>5, <1>6, <1>7, <1>8 DEF Initialize

LEMMA KeyInitInv == KeyInit => KeyInv
<1> SUFFICES ASSUME KeyInit PROVE KeyInv
    OBVIOUS
<1>1. KeyTypeOK
      BY KeyFilesAssumption DEF KeyInit, KeyTypeOK, ProcessPC
<1>2. FilesAreHeld /\ PairIsWhole /\ FilesHaveReason
      BY DEF KeyInit, FilesAreHeld, PairIsWhole, FilesHaveReason, HoldsPublic, HoldsPrivate, At, Keys
<1>3. LoadedFromFiles
      BY DEF KeyInit, LoadedFromFiles, At, Keys, Loaded
<1> QED BY <1>1, <1>2, <1>3 DEF KeyInv

\* With no execution that is generating and nothing left behind, a file has no reason
\* but a whole pair; and the pair whose private key was loaded is still there.
LEMMA KeysSafe ==
    ASSUME KeyInv
    PROVE  NoHalfPair /\ OneIdentity
<1>1. NoHalfPair
  <2> SUFFICES ASSUME \A p \in Processes : pc[p] \notin Generating, abandoned = {}
               PROVE  \/ \A k \in Keys : file[k] = NoFile
                      \/ Keys \subseteq whole /\ file["public"] = file["private"]
      BY DEF NoHalfPair
  <2>1. \A k \in Keys : file[k] \in Processes \cup {NoFile}
        BY DEF KeyInv, KeyTypeOK
  <2>2. \A p \in Processes : pc[p] \notin HoldsPublic /\ pc[p] \notin HoldsPrivate
        BY DEF Generating, HoldsPublic, HoldsPrivate
  <2>3. CASE "private" \in whole
        BY <2>3 DEF KeyInv, PairIsWhole, Keys
  <2>4. CASE "private" \notin whole
        BY <2>1, <2>2, <2>4 DEF KeyInv, FilesHaveReason, Keys
  <2> QED BY <2>3, <2>4
<1>2. OneIdentity
      BY DEF KeyInv, PairIsWhole, LoadedFromFiles, OneIdentity
<1> QED BY <1>1, <1>2

LEMMA WholePairStays ==
    ASSUME KeyInv, KeyNext, Keys \subseteq whole
    PROVE  UNCHANGED files
<1>1. \A p \in Processes : pc[p] \notin HoldsPrivate
      BY DEF KeyInv, FilesAreHeld, Keys
<1>2. \A p \in Processes : pc[p] # "undo public" /\ pc[p] # "create private"
      BY DEF KeyInv, FilesAreHeld, Keys
<1>3. file["public"] # NoFile
      BY DEF KeyInv, KeyTypeOK, Keys
<1>4. PICK p \in Processes : InitializeStarts(p) \/ Initialize(p) \/ Killed(p)
      BY DEF KeyNext
<1>5. ~ CreatePrivate(p) /\ ~ WritePublic(p) /\ ~ WritePrivate(p) /\ ~ UndoPublic(p) /\ ~ UndoBoth(p)
      BY <1>1, <1>2 DEF CreatePrivate, WritePublic, WritePrivate, UndoPublic, UndoBoth, At, HoldsPrivate
<1>6. CreatePublic(p) => UNCHANGED files
      BY <1>3 DEF CreatePublic
<1> QED BY <1>4, <1>5, <1>6
        DEF Initialize, GenerateKeypair, InitializeStarts, StatPublic, StatPrivate, OpenDatabase,
            LoadPublic, LoadPrivate, Initialized, InitializeFails, Killed

-----------------------------------------------------------------------------
(* The listener and its port mapping.                                      *)

\* The listener and its mapping, and what is inductive of Inv.
Running == StagesAgree /\ MappingsHaveOwner /\ MappedWhileAccepting
Ind == TypeOK /\ KeyInv /\ Running

LEMMA MappingEq ==
    ASSUME NEW p \in Processes, NEW q \in Processes, NEW g, NEW h
    PROVE  Mapping(p, g) = Mapping(q, h) <=> g = h /\ PortOf[p] = PortOf[q]
BY DEF Mapping

\* The keys are left alone but for the number of errors.
LEMMA KeysStay ==
    ASSUME KeyInv, UNCHANGED <<files, pc, loaded, undone, abandoned>>,
           faults' \in 0..MaxFaults, crashes' \in 0..MaxCrashes
    PROVE  KeyInv'
<1>1. UNCHANGED <<file, whole, pc, loaded, undone, abandoned>>
      BY DEF files
<1>2. KeyTypeOK'
      BY <1>1 DEF KeyInv, KeyTypeOK
<1>3. FilesAreHeld' /\ PairIsWhole' /\ FilesHaveReason'
      BY <1>1 DEF KeyInv, FilesAreHeld, PairIsWhole, FilesHaveReason, At
<1>4. LoadedFromFiles'
      BY <1>1 DEF KeyInv, LoadedFromFiles, At, Loaded
<1> QED BY <1>2, <1>3, <1>4 DEF KeyInv

\* The program ends: what it has mapped is nobody's from now on.
LEMMA ExitsStep ==
    ASSUME Ind, NEW p \in Processes, At(p, "ready"), Exits(p),
           faults' \in 0..MaxFaults, crashes' \in 0..MaxCrashes
    PROVE  Ind'
<1> USE DEF Ind
<1>1. KeyTypeOK /\ Goto(p, "exited") /\ "exited" \in ProcessPC \ (Generating \cup {"load private"})
      BY DEF Exits, KeyInv, ProcessPC, Generating
<1>2. /\ pc'[p] = "exited" /\ (\A q \in Processes \ {p} : pc'[q] = pc[q])
      /\ pc' \in [Processes -> ProcessPC] /\ loaded' = loaded
      BY <1>1, GotoFacts
<1>3. KeyTypeOK'
      BY <1>1, <1>2 DEF KeyTypeOK, Exits, files
<1>4. KeyInv'
      <2>1. pc[p] \notin Generating
            BY DEF At, Generating
      <2>2. UNCHANGED <<files, undone>> /\ UNCHANGED abandoned
            BY DEF Exits
      <2>3. Files'
            BY <1>1, <2>1, <2>2, FilesStay
      <2> QED BY <1>3, <2>3 DEF KeyInv, Files
<1>5. TypeOK'
      <2>1. bound' \in [Ports -> Processes \cup {Nobody}]
            BY DEF Exits, TypeOK
      <2>2. /\ listener' \in [Processes -> {"off", "listen", "discover", "map", "accepting"}]
            /\ stop' \in [Processes -> {"off", "release", "exit"}]
            BY DEF Exits, TypeOK
      <2>3. /\ answered' \subseteq Processes
            /\ found' \in [Processes -> SUBSET Gateways]
            /\ adding' \in [Processes -> Gateways \cup {NoGateway}]
            /\ mapping' \in [Processes -> Gateways \cup {NoGateway}]
            BY DEF Exits, TypeOK
      <2>4. mappings' \subseteq Gateways \X Ports /\ orphans' \subseteq Gateways \X Ports
            BY DEF Exits, TypeOK, Leaves
      <2> QED BY <1>3, <2>1, <2>2, <2>3, <2>4 DEF TypeOK
<1>6. /\ \A q \in Processes : q # p =>
            /\ listener'[q] = listener[q] /\ adding'[q] = adding[q]
            /\ mapping'[q] = mapping[q] /\ stop'[q] = stop[q]
      /\ listener'[p] = "off" /\ adding'[p] = NoGateway
      /\ mapping'[p] = NoGateway /\ stop'[p] = "off"
      /\ \A port \in Ports : bound'[port] = IF bound[port] = p THEN Nobody ELSE bound[port]
      /\ mappings' = mappings /\ orphans' = orphans \cup Leaves(p)
      BY DEF Exits, TypeOK
<1>7. \A q \in Processes : PortOf[q] \in Ports
      BY StartupAssumption
<1>8. StagesAgree'
      BY <1>2, <1>6, <1>7 DEF StagesAgree, Running, At, Mapping
<1>9. MappingsHaveOwner'
      BY <1>6, <1>7 DEF MappingsHaveOwner, Running, Owns, Leaves, Mapping
<1>10. MappedWhileAccepting'
      BY <1>6 DEF MappedWhileAccepting, Running, Mapping
<1> QED BY <1>4, <1>5, <1>8, <1>9, <1>10 DEF Running

\* What a step of the listener or of Stop has to show, when it ends nothing.
LEMMA RunningStep ==
    ASSUME Ind, UNCHANGED <<files, pc, loaded, undone, abandoned, crashes>>,
           Fault \/ UNCHANGED faults,
           bound' \in [Ports -> Processes \cup {Nobody}],
           listener' \in [Processes -> {"off", "listen", "discover", "map", "accepting"}],
           answered' \subseteq Processes,
           found' \in [Processes -> SUBSET Gateways],
           adding' \in [Processes -> Gateways \cup {NoGateway}],
           mapping' \in [Processes -> Gateways \cup {NoGateway}],
           stop' \in [Processes -> {"off", "release", "exit"}],
           mappings' \subseteq Gateways \X Ports, orphans' \subseteq Gateways \X Ports,
           StagesAgree', MappingsHaveOwner', MappedWhileAccepting'
    PROVE  Ind'
<1>1. KeyTypeOK /\ KeyInv
      BY DEF Ind, KeyInv
<1>2. faults \in 0..MaxFaults /\ crashes' \in 0..MaxCrashes
      BY <1>1 DEF KeyTypeOK
<1>3. faults' \in 0..MaxFaults
      BY <1>1, <1>2, FaultFacts
<1>4. KeyInv'
      BY <1>1, <1>2, <1>3, KeysStay
<1> QED BY <1>4 DEF Ind, Running, TypeOK, KeyInv

LEMMA ListenStep ==
    ASSUME Ind, NEW p \in Processes,
           \/ Run(p) \/ GatewaysAnswer(p)
           \/ ListenTCP(p) /\ bound[PortOf[p]] = Nobody
           \/ DiscoverGateways(p) /\ found[p] # {}
    PROVE  Ind'
<1> USE DEF Ind, Running
<1>1. \A q \in Processes : PortOf[q] \in Ports /\ q # Nobody
      BY StartupAssumption
<1>2. UNCHANGED <<keyVars, adding, mapping, stop, mappings, orphans>>
      BY DEF Run, GatewaysAnswer, ListenTCP, DiscoverGateways
<1>3. UNCHANGED pc
      BY <1>2 DEF keyVars
<1>4. PICK s \in {"listen", "discover", "map", "accepting"} :
         \/ listener' = [listener EXCEPT ![p] = s] /\ s # "off"
         \/ listener' = listener
      BY DEF Run, GatewaysAnswer, ListenTCP, DiscoverGateways
<1>5. \/ bound' = bound
      \/ bound[PortOf[p]] = Nobody /\ bound' = [bound EXCEPT ![PortOf[p]] = p]
      BY DEF Run, GatewaysAnswer, ListenTCP, DiscoverGateways
<1>6. \A q \in Processes : bound[PortOf[q]] = q => bound'[PortOf[q]] = q
      BY <1>1, <1>5 DEF TypeOK
<1>7. At(p, "ready")
      BY DEF Run, GatewaysAnswer, ListenTCP, DiscoverGateways, StagesAgree
<1>8. listener[p] # "accepting" /\ listener[p] # "map"
      BY DEF Run, GatewaysAnswer, ListenTCP, DiscoverGateways
<1>9. \A q \in Processes \ {p} : listener'[q] = listener[q]
      BY <1>4 DEF TypeOK
<1>10. listener'[p] \in {"discover", "map", "accepting"} => bound'[PortOf[p]] = p
      <2>1. CASE Run(p)
            BY <2>1 DEF Run, TypeOK
      <2>2. CASE GatewaysAnswer(p)
            BY <2>2, <1>6 DEF GatewaysAnswer, StagesAgree
      <2>3. CASE ListenTCP(p) /\ bound[PortOf[p]] = Nobody
            BY <2>3, <1>1 DEF ListenTCP, TypeOK
      <2>4. CASE DiscoverGateways(p) /\ found[p] # {}
            BY <2>4, <1>6 DEF DiscoverGateways, StagesAgree
      <2> QED BY <2>1, <2>2, <2>3, <2>4
<1>11. StagesAgree'
      BY <1>2, <1>3, <1>6, <1>7, <1>8, <1>9, <1>10 DEF StagesAgree, At, Mapping
<1>12. MappingsHaveOwner'
      BY <1>2, <1>6 DEF MappingsHaveOwner, Owns, Mapping
<1>13. MappedWhileAccepting'
      BY <1>2 DEF MappedWhileAccepting, Mapping
<1>14. /\ bound' \in [Ports -> Processes \cup {Nobody}]
       /\ listener' \in [Processes -> {"off", "listen", "discover", "map", "accepting"}]
      BY <1>4, <1>5 DEF TypeOK
<1>15. answered' \subseteq Processes /\ found' \in [Processes -> SUBSET Gateways]
      BY DEF Run, GatewaysAnswer, ListenTCP, DiscoverGateways, TypeOK
<1>16. UNCHANGED <<files, pc, loaded, undone, abandoned, crashes>> /\ UNCHANGED faults
      BY <1>2 DEF keyVars, files
<1>17. /\ adding' \in [Processes -> Gateways \cup {NoGateway}]
       /\ mapping' \in [Processes -> Gateways \cup {NoGateway}]
       /\ stop' \in [Processes -> {"off", "release", "exit"}]
       /\ mappings' \subseteq Gateways \X Ports /\ orphans' \subseteq Gateways \X Ports
      BY <1>2 DEF TypeOK
<1> QED BY <1>11, <1>12, <1>13, <1>14, <1>15, <1>16, <1>17, RunningStep

LEMMA MapStep ==
    ASSUME Ind, NEW p \in Processes,
           AddPortMapping(p) \/ MappingIsKnown(p) \/ AddPortMappingFails(p)
    PROVE  Ind'
<1> USE DEF Ind, Running
<1>1. PortOf \in [Processes -> Ports] /\ NoGateway \notin Gateways
      BY StartupAssumption
<1>2. /\ UNCHANGED <<files, pc, loaded, undone, abandoned, crashes>> /\ (Fault \/ UNCHANGED faults)
      /\ UNCHANGED <<bound, stop>>
      BY DEF AddPortMapping, MappingIsKnown, AddPortMappingFails, keyVars, files
<1>3. listener[p] = "map" /\ mapping[p] = NoGateway /\ bound[PortOf[p]] = p /\ At(p, "ready")
      BY DEF AddPortMapping, MappingIsKnown, AddPortMappingFails, StagesAgree
<1>4. /\ answered' \subseteq Processes
      /\ found' \in [Processes -> SUBSET Gateways]
      BY DEF AddPortMapping, MappingIsKnown, AddPortMappingFails, TypeOK
<1>5. /\ bound' \in [Ports -> Processes \cup {Nobody}]
      /\ stop' \in [Processes -> {"off", "release", "exit"}]
      BY <1>2 DEF TypeOK
<1>6. CASE AddPortMapping(p)
      <2>1. PICK g \in Gateways : /\ adding' = [adding EXCEPT ![p] = g]
                                  /\ mappings' = mappings \cup {Mapping(p, g)}
            BY <1>6 DEF AddPortMapping, TypeOK
      <2>2. adding[p] = NoGateway /\ UNCHANGED <<listener, mapping, orphans>>
            BY <1>6 DEF AddPortMapping
      <2>3. adding'[p] = g /\ \A q \in Processes \ {p} : adding'[q] = adding[q]
            BY <2>1 DEF TypeOK
      <2>4. StagesAgree'
            <3>1. \A q \in Processes : adding'[q] # NoGateway =>
                     listener'[q] = "map" /\ Mapping(q, adding'[q]) \in mappings'
                  BY <1>3, <2>1, <2>2, <2>3 DEF StagesAgree
            <3> QED BY <1>2, <2>2, <3>1 DEF StagesAgree, At, Mapping
      <2>5. MappingsHaveOwner'
            <3>1. Owns(p, Mapping(p, g))'
                  BY <1>2, <1>3, <2>3 DEF Owns, Mapping
            <3>2. ASSUME NEW m \in mappings, NEW q \in Processes, Owns(q, m)
                  PROVE  Owns(q, m)'
                  <4>1. m # Mapping(q, NoGateway)
                        BY <1>1 DEF TypeOK, Mapping
                  <4> QED BY <1>2, <2>2, <2>3, <3>2, <4>1 DEF Owns, Mapping
            <3> QED BY <2>1, <2>2, <3>1, <3>2 DEF MappingsHaveOwner
      <2>6. MappedWhileAccepting'
            BY <1>2, <2>1, <2>2 DEF MappedWhileAccepting, Mapping
      <2>7. /\ listener' \in [Processes -> {"off", "listen", "discover", "map", "accepting"}]
            /\ adding' \in [Processes -> Gateways \cup {NoGateway}]
            /\ mapping' \in [Processes -> Gateways \cup {NoGateway}]
            BY <2>1, <2>2 DEF TypeOK
      <2>8. mappings' \subseteq Gateways \X Ports /\ orphans' \subseteq Gateways \X Ports
            BY <1>1, <2>1, <2>2 DEF TypeOK, Mapping
      <2> QED BY <1>2, <1>4, <1>5, <2>4, <2>5, <2>6, <2>7, <2>8, RunningStep
<1>7. CASE MappingIsKnown(p)
      <2>1. /\ adding[p] # NoGateway /\ UNCHANGED <<mappings, orphans>>
            /\ mapping' = [mapping EXCEPT ![p] = adding[p]]
            /\ adding' = [adding EXCEPT ![p] = NoGateway]
            /\ listener' = [listener EXCEPT ![p] = "accepting"]
            BY <1>7 DEF MappingIsKnown
      <2>2. Mapping(p, adding[p]) \in mappings
            BY <2>1 DEF StagesAgree
      <2>3. /\ mapping'[p] = adding[p] /\ adding'[p] = NoGateway /\ listener'[p] = "accepting"
            /\ \A q \in Processes \ {p} :
                  mapping'[q] = mapping[q] /\ adding'[q] = adding[q] /\ listener'[q] = listener[q]
            BY <2>1 DEF TypeOK
      <2>4. StagesAgree'
            BY <1>2, <1>3, <2>1, <2>3 DEF StagesAgree, At, Mapping
      <2>5. MappingsHaveOwner'
            <3>1. ASSUME NEW m \in mappings, NEW q \in Processes, Owns(q, m)
                  PROVE  Owns(q, m)'
                  <4>1. m # Mapping(q, NoGateway)
                        BY <1>1 DEF TypeOK, Mapping
                  <4> QED BY <1>2, <1>3, <2>3, <3>1, <4>1 DEF Owns, Mapping
            <3> QED BY <2>1, <3>1 DEF MappingsHaveOwner
      <2>6. MappedWhileAccepting'
            BY <1>2, <2>1, <2>2, <2>3 DEF MappedWhileAccepting, Mapping
      <2>7. /\ listener' \in [Processes -> {"off", "listen", "discover", "map", "accepting"}]
            /\ adding' \in [Processes -> Gateways \cup {NoGateway}]
            /\ mapping' \in [Processes -> Gateways \cup {NoGateway}]
            /\ mappings' \subseteq Gateways \X Ports /\ orphans' \subseteq Gateways \X Ports
            BY <2>1 DEF TypeOK
      <2> QED BY <1>2, <1>4, <1>5, <2>4, <2>5, <2>6, <2>7, RunningStep
<1>8. CASE AddPortMappingFails(p)
      <2>1. UNCHANGED <<listener, mapping, mappings>>
            BY <1>8 DEF AddPortMappingFails
      <2>2. \/ UNCHANGED <<adding, orphans>>
            \/ /\ adding[p] # NoGateway /\ orphans' = orphans \cup {Mapping(p, adding[p])}
               /\ adding' = [adding EXCEPT ![p] = NoGateway]
            BY <1>8 DEF AddPortMappingFails
      <2>3. \A q \in Processes : adding'[q] # adding[q] => q = p /\ adding'[q] = NoGateway
            BY <2>2 DEF TypeOK
      <2>4. StagesAgree'
            BY <1>2, <2>1, <2>3 DEF StagesAgree, At, Mapping
      <2>5. MappingsHaveOwner'
            <3>1. ASSUME NEW m \in mappings, NEW q \in Processes, Owns(q, m)
                  PROVE  m \in orphans' \/ Owns(q, m)'
                  BY <1>2, <2>1, <2>2, <2>3, <3>1 DEF Owns, Mapping
            <3> QED BY <2>1, <2>2, <3>1 DEF MappingsHaveOwner
      <2>6. MappedWhileAccepting'
            BY <1>2, <2>1 DEF MappedWhileAccepting, Mapping
      <2>7. /\ listener' \in [Processes -> {"off", "listen", "discover", "map", "accepting"}]
            /\ adding' \in [Processes -> Gateways \cup {NoGateway}]
            /\ mapping' \in [Processes -> Gateways \cup {NoGateway}]
            BY <2>1, <2>2 DEF TypeOK
      <2>8. mappings' \subseteq Gateways \X Ports /\ orphans' \subseteq Gateways \X Ports
            BY <1>1, <2>1, <2>2 DEF TypeOK, Mapping
      <2> QED BY <1>2, <1>4, <1>5, <2>4, <2>5, <2>6, <2>7, <2>8, RunningStep
<1> QED BY <1>6, <1>7, <1>8

\* Who releases a mapping has the port, so that it is no one else's.
LEMMA StopStep ==
    ASSUME Ind, NEW p \in Processes, Interrupt(p) \/ Release(p)
    PROVE  Ind'
<1> USE DEF Ind, Running
<1>1. /\ UNCHANGED <<files, pc, loaded, undone, abandoned, crashes>> /\ (Fault \/ UNCHANGED faults)
      /\ UNCHANGED <<bound, listener, answered, found, adding, mapping, orphans>>
      BY DEF Interrupt, Release, keyVars, files
<1>2. At(p, "ready")
      BY DEF Interrupt, Release, StagesAgree
<1>3. PICK s \in {"release", "exit"} :
         /\ stop' = [stop EXCEPT ![p] = s]
         /\ s = "release" => mapping[p] # NoGateway /\ mappings' = mappings
         /\ s = "exit" => mappings' = mappings
               \/ /\ mappings' = mappings \ {Mapping(p, mapping[p])}
                  /\ mapping[p] # NoGateway
      BY DEF Interrupt, Release, StagesAgree
<1>4. stop'[p] = s /\ \A q \in Processes \ {p} : stop'[q] = stop[q]
      BY <1>3 DEF TypeOK
<1>5. ASSUME NEW q \in Processes \ {p}, NEW g \in {mapping[q], adding[q]}, g # NoGateway,
             Mapping(q, g) \in mappings
      PROVE  Mapping(q, g) \in mappings'
      <2>1. bound[PortOf[q]] = q
            BY <1>5 DEF StagesAgree
      <2>2. mapping[p] # NoGateway => bound[PortOf[p]] = p
            BY DEF StagesAgree
      <2>3. mapping[p] # NoGateway => Mapping(q, g) # Mapping(p, mapping[p])
            BY <2>1, <2>2 DEF Mapping
      <2> QED BY <1>3, <1>5, <2>3
<1>6. mapping[p] = NoGateway \/ adding[p] = NoGateway
      BY DEF StagesAgree
<1>7. adding[p] # NoGateway => mappings' = mappings
      BY <1>3, <1>6
<1>8. StagesAgree'
      BY <1>1, <1>2, <1>3, <1>4, <1>5, <1>7 DEF StagesAgree, At, Mapping
<1>9. MappingsHaveOwner'
      BY <1>1, <1>3 DEF MappingsHaveOwner, Owns, Mapping
<1>10. MappedWhileAccepting'
      <2>1. ASSUME NEW q \in Processes, mapping[q] # NoGateway, stop'[q] # "exit"
            PROVE  Mapping(q, mapping[q]) \in mappings'
            <3>1. CASE q = p
                  <4>1. s = "release" /\ mappings' = mappings
                        BY <1>3, <1>4, <2>1, <3>1
                  <4>2. stop[p] # "exit"
                        BY <1>3, <4>1 DEF Interrupt, Release
                  <4> QED BY <2>1, <3>1, <4>1, <4>2 DEF MappedWhileAccepting
            <3>2. CASE q # p
                  BY <1>4, <1>5, <2>1, <3>2 DEF MappedWhileAccepting
            <3> QED BY <3>1, <3>2
      <2> QED BY <1>1, <2>1 DEF MappedWhileAccepting, Mapping
<1>11. stop' \in [Processes -> {"off", "release", "exit"}] /\ mappings' \subseteq Gateways \X Ports
      BY <1>3 DEF TypeOK
<1>12. /\ bound' \in [Ports -> Processes \cup {Nobody}]
       /\ listener' \in [Processes -> {"off", "listen", "discover", "map", "accepting"}]
       /\ answered' \subseteq Processes
       /\ found' \in [Processes -> SUBSET Gateways]
       /\ adding' \in [Processes -> Gateways \cup {NoGateway}]
       /\ mapping' \in [Processes -> Gateways \cup {NoGateway}]
       /\ orphans' \subseteq Gateways \X Ports
      BY <1>1 DEF TypeOK
<1> QED BY <1>1, <1>8, <1>9, <1>10, <1>11, <1>12, RunningStep

\* Where the program ends; it was ready then.
LEMMA EndStep ==
    ASSUME Ind, NEW p \in Processes,
           \/ CommandReturns(p) \/ RunFails(p) \/ RunKilled(p) \/ DiscoveryTimesOut(p)
           \/ NoGatewayMaps(p) \/ StopExits(p)
           \/ ListenTCP(p) /\ bound[PortOf[p]] # Nobody
           \/ DiscoverGateways(p) /\ found[p] = {}
    PROVE  Ind'
<1>1. At(p, "ready") /\ Exits(p)
      BY DEF CommandReturns, RunFails, RunKilled, DiscoveryTimesOut, NoGatewayMaps, StopExits,
             ListenTCP, DiscoverGateways, Ind, Running, StagesAgree
<1>2. KeyTypeOK
      BY DEF Ind, KeyInv
<1>3. faults \in 0..MaxFaults /\ crashes \in 0..MaxCrashes
      BY <1>2 DEF KeyTypeOK
<1>4. Fault \/ faults' = faults
      BY DEF CommandReturns, RunFails, RunKilled, DiscoveryTimesOut, NoGatewayMaps, StopExits,
             ListenTCP, DiscoverGateways
<1>5. (crashes < MaxCrashes /\ crashes' = crashes + 1) \/ crashes' = crashes
      BY DEF CommandReturns, RunFails, RunKilled, DiscoveryTimesOut, NoGatewayMaps, StopExits,
             ListenTCP, DiscoverGateways
<1>6. faults' \in 0..MaxFaults
      BY <1>2, <1>3, <1>4, FaultFacts
<1>7. crashes' \in 0..MaxCrashes
      BY <1>2, <1>3, <1>5, CrashFacts
<1> QED BY <1>1, <1>6, <1>7, ExitsStep

\* An execution that is ready has no part in the making of keys any more.
LEMMA ReadyStays ==
    ASSUME KeyTypeOK, KeyNext, NEW q \in Processes, At(q, "ready")
    PROVE  At(q, "ready")'
<1>1. PICK p \in Processes : InitializeStarts(p) \/ Initialize(p) \/ Killed(p)
      BY DEF KeyNext
<1>2. pc[p] # "ready"
      BY <1>1 DEF InitializeStarts, Initialize, GenerateKeypair, Killed, StatPublic, StatPrivate,
         OpenDatabase, CreatePublic, CreatePrivate, WritePublic, WritePrivate, UndoPublic, UndoBoth,
         LoadPublic, LoadPrivate, Initialized, InitializeFails, Starting, Generating, At
<1>3. \A k \in Processes \ {p} : pc'[k] = pc[k]
      <2>1. \E t : pc' = [pc EXCEPT ![p] = t]
            <3>1. CASE InitializeStarts(p) \/ Killed(p) \/ InitializeFails(p)
                  BY <3>1 DEF InitializeStarts, Killed, InitializeFails, Goto
            <3>2. CASE StatPublic(p) \/ StatPrivate(p) \/ OpenDatabase(p) \/ Initialized(p)
                  BY <3>2 DEF StatPublic, StatPrivate, OpenDatabase, Initialized, Goto
            <3>3. CASE CreatePublic(p) \/ CreatePrivate(p)
                  BY <3>3 DEF CreatePublic, CreatePrivate, Goto
            <3>4. CASE WritePublic(p) \/ WritePrivate(p)
                  BY <3>4 DEF WritePublic, WritePrivate, WriteKey, Goto
            <3>5. CASE UndoPublic(p) \/ UndoBoth(p)
                  BY <3>5 DEF UndoPublic, UndoBoth, Remove, Goto
            <3>6. CASE LoadPublic(p) \/ LoadPrivate(p)
                  BY <3>6 DEF LoadPublic, LoadPrivate, Load, Goto
            <3> QED BY <1>1, <3>1, <3>2, <3>3, <3>4, <3>5, <3>6 DEF Initialize, GenerateKeypair
      <2> QED BY <2>1 DEF KeyTypeOK
<1> QED BY <1>2, <1>3 DEF At

LEMMA KeyPartStep ==
    ASSUME Ind, KeyNext, UNCHANGED runVars
    PROVE  Ind'
<1>1. KeyInv'
      BY KeyStep DEF Ind
<1>2. \A q \in Processes : At(q, "ready") => At(q, "ready")'
      BY ReadyStays DEF Ind, KeyInv
<1>3. TypeOK'
      BY <1>1 DEF Ind, KeyInv, TypeOK, runVars
<1>4. Running'
      BY <1>2 DEF Ind, Running, StagesAgree, MappingsHaveOwner, MappedWhileAccepting, Owns, Mapping,
                  runVars
<1> QED BY <1>1, <1>3, <1>4 DEF Ind

LEMMA InitInd == Init => Ind
<1> SUFFICES ASSUME Init PROVE Ind
    OBVIOUS
<1>1. KeyInv
      BY KeyInitInv DEF Init
<1>2. TypeOK
      BY <1>1 DEF Init, TypeOK, KeyInv
<1>3. Running
      BY DEF Init, Running, StagesAgree, MappingsHaveOwner, MappedWhileAccepting
<1> QED BY <1>1, <1>2, <1>3 DEF Ind

LEMMA IndNext == Ind /\ [Next]_vars => Ind'
<1> SUFFICES ASSUME Ind, [Next]_vars PROVE Ind'
    OBVIOUS
<1>1. CASE KeyNext /\ UNCHANGED runVars
      BY <1>1, KeyPartStep
<1>2. ASSUME NEW p \in Processes,
             \/ CommandReturns(p) \/ Run(p) \/ RunFails(p) \/ RunKilled(p)
             \/ RunPeerListener(p) \/ GatewaysAnswer(p)
             \/ Interrupt(p) \/ Stop(p)
      PROVE  Ind'
      BY <1>2, EndStep, ListenStep, MapStep, StopStep DEF RunPeerListener, Stop
<1>3. CASE UNCHANGED vars
      <2>1. UNCHANGED <<files, pc, loaded, undone, abandoned, faults, crashes>> /\ UNCHANGED runVars
            BY <1>3 DEF vars, keyVars, files
      <2>2. KeyInv'
            BY <2>1, KeysStay DEF Ind, KeyInv, KeyTypeOK
      <2>3. TypeOK'
            BY <2>1, <2>2 DEF Ind, TypeOK, KeyInv, runVars
      <2>4. Running'
            BY <2>1 DEF Ind, Running, StagesAgree, MappingsHaveOwner, MappedWhileAccepting, Owns, Mapping,
                        runVars, At
      <2> QED BY <2>2, <2>3, <2>4 DEF Ind
<1> QED BY <1>1, <1>2, <1>3 DEF Next

\* What the run startup checks of three executions holds of any number: no half of a key
\* pair is left by an execution that ends on its own, executions that have loaded their
\* keys are one peer, and a port mapping on a gateway is a running execution's or was
\* left by one that ended (keys.go 17-131, local_peer.go 197-250 and 638-654).
THEOREM StartupSafe == Spec => []Inv
<1>1. Ind => Inv
      BY KeysSafe DEF Ind, Running, Inv
<1> QED BY <1>1, InitInd, IndNext, PTL DEF Spec

\* A whole pair of keys is never overwritten or removed, whoever is started, stopped or
\* killed (keys.go 71-81, application.go 125-127).
THEOREM KeysAreKept == Spec => KeysAreForever
<1>1. Ind /\ [Next]_vars => [(Keys \subseteq whole) => UNCHANGED files]_keyVars
  <2> SUFFICES ASSUME Ind, [Next]_vars, Keys \subseteq whole
               PROVE  UNCHANGED files
      OBVIOUS
  <2>1. CASE KeyNext
        BY <2>1, WholePairStays DEF Ind
  <2>2. ASSUME NEW p \in Processes,
               \/ CommandReturns(p) \/ Run(p) \/ RunFails(p) \/ RunKilled(p)
               \/ RunPeerListener(p) \/ GatewaysAnswer(p)
               \/ Interrupt(p) \/ Stop(p)
        PROVE  UNCHANGED files
        BY <2>2 DEF CommandReturns, Run, RunFails, RunKilled, RunPeerListener, GatewaysAnswer, Interrupt,
           Stop, ListenTCP, DiscoverGateways, DiscoveryTimesOut, AddPortMapping, MappingIsKnown,
           AddPortMappingFails, NoGatewayMaps, Release, StopExits, Exits, keyVars, files
  <2>3. CASE UNCHANGED vars
        BY <2>3 DEF vars, keyVars, files
  <2> QED BY <2>1, <2>2, <2>3 DEF Next
<1> QED BY <1>1, InitInd, IndNext, PTL DEF Spec, KeysAreForever

=============================================================================
