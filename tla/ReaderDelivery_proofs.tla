------------------------- MODULE ReaderDelivery_proofs -------------------------
(***************************************************************************)
(* Proofs about a document on its way to the reader, for every document,   *)
(* every shape of a picture, every number of deaths of the worker and of   *)
(* the API, and every kind of storage: the types; what DELETE leaves, and  *)
(* what downloads are given; the composition of a video frame, and the     *)
(* spoken word in its pane; that the chunks say the document and are       *)
(* accepted; that the box lit up for a word is not ahead of the voice as   *)
(* long as the words were harmless; and that the clip, the readers and the *)
(* EPUB agree on the word.                                                 *)
(***************************************************************************)
EXTENDS ReaderDelivery, TextPreparation_proofs, TLAPS

(* A step of the storage, its beginning included.                          *)
StorageStep ==
    \/ \E names \in SUBSET Assets : Build(names)
    \/ StorageNext

(* Every step of the composition is a step of the storage or leaves it     *)
(* alone.                                                                  *)
LEMMA OnlyStorageSteps == [Next]_vars => [StorageStep]_storageVars
<1> SUFFICES ASSUME [Next]_vars PROVE StorageStep \/ UNCHANGED storageVars
  OBVIOUS
<1>1. CASE Begin \/ Chunk \/ Align \/ Compose
  BY <1>1 DEF Begin, Chunk, Align, Compose
<1>2. CASE Publish
  <2>1. PICK rendered \in {{}, DOMAIN request.pages}, source \in SUBSET {"source"} :
            Build({"manifest", "audio"} \cup source
                  \cup IF Manifest(aligned, rendered).pages = {} THEN {} ELSE {"page"})
    BY <1>2 DEF Publish
  <2>2. {"manifest", "audio"} \cup source
            \cup (IF Manifest(aligned, rendered).pages = {} THEN {} ELSE {"page"})
          \in SUBSET Assets
    BY DEF Assets, Optional
  <2> QED BY <2>1, <2>2 DEF StorageStep
<1>3. CASE stage = "stored" /\ StorageNext /\ UNCHANGED <<documentVars, pageVars>>
  BY <1>3 DEF StorageStep
<1>4. CASE stage = "page" /\ PageNext /\ UNCHANGED <<documentVars, storageVars>>
  BY <1>4
<1>5. CASE UNCHANGED vars
  BY <1>5 DEF vars
<1> QED BY <1>1, <1>2, <1>3, <1>4, <1>5 DEF Next

(* The upload begins with the archive and reaches every kind of object.    *)
LEMMA Uploads ==
    /\ Len(Order) = 5 /\ DOMAIN Order = 1..5
    /\ \A n \in 1..5 : Order[n] \in Assets /\ Order[n] \in Objects
    /\ Order[1] = "archive"
    /\ \A n \in 2..5 : Order[n] # "archive"
BY DEF Order, Objects, Assets, Optional

(* Nothing, a copy fetched, refreshed or rebuilt: each is a directory.     *)
Directories == [Objects -> Contents]

LEMMA DirectoryTypes ==
    /\ Nothing \in Directories
    /\ {"archive", "manifest", "source"} \subseteq Assets
    /\ Assets \subseteq Objects /\ "export" \in Objects \ Assets
    /\ \A dir \in Directories : Refreshed(dir) \in Directories /\ ArchiveOf(dir) \in Directories
    /\ StorageTypeOK => \A dir \in Directories, o \in Objects : Fetched(dir, o) \in Directories
    /\ StorageTypeOK => ApiDir \in {"worker", "api"} /\ Here \in Directories
BY DEF Nothing, Refreshed, ArchiveOf, Fetched, ApiDir, Here, StorageTypeOK, Directories,
       Contents, Objects, Assets, Optional

(* A directory in which the API refreshed or completed its copies.         *)
Copied(dir) ==
    \A o \in Objects : \/ dir[o] \in {Here[o], "whole"}
                       \/ kind # "local" /\ Here[o] = "none" /\ dir[o] = bucket[o]

(* What a download does: nothing; or it completes its copies and stores    *)
(* the source again; or it replaces the archive too and stores it or not.  *)
LEMMA DownloadCases ==
    ASSUME StorageTypeOK, Download
    PROVE  \/ UNCHANGED <<disk, bucket>>
           \/ \E dir \in Directories, sent \in Directories :
                /\ Copied(dir)
                /\ \A o \in Objects : sent[o] \in {bucket[o], "whole"}
                /\ \/ /\ disk' = [disk EXCEPT ![ApiDir] = dir]
                      /\ bucket' = sent
                   \/ /\ Built(dir)
                      /\ disk' = [disk EXCEPT ![ApiDir] = ArchiveOf(dir)]
                      /\ bucket' \in {sent, [sent EXCEPT !["archive"] = ArchiveOf(dir)["archive"]]}
<1> DEFINE manifest == Fetched(Here, "manifest")
           sources == {manifest} \cup
                (IF manifest["manifest"] = "whole" THEN {Refreshed(manifest)} ELSE {})
           archive(source) == Fetched(source, "archive")
           sent(source) == IF source # manifest /\ kind # "local"
                           THEN [bucket EXCEPT !["source"] = "whole"] ELSE bucket
<1>1. manifest \in Directories /\ Here \in Directories /\ bucket \in Directories
  BY DirectoryTypes DEF StorageTypeOK, Directories
<1>2. \A source \in sources : source \in Directories
  BY <1>1, DirectoryTypes
<1>3. \A source \in sources : archive(source) \in Directories /\ sent(source) \in Directories
  BY <1>1, <1>2, DirectoryTypes DEF Directories, Contents
<1>4. ASSUME NEW source \in sources PROVE Copied(archive(source))
  <2>1. \A o \in Objects : o # "manifest" => manifest[o] = Here[o]
    BY <1>1 DEF Fetched, Directories
  <2>2. \/ manifest["manifest"] = Here["manifest"]
        \/ /\ kind # "local" /\ Here["manifest"] = "none"
           /\ manifest["manifest"] = bucket["manifest"]
    BY <1>1, DirectoryTypes DEF Fetched, Directories
  <2>3. \A o \in Objects : source[o] = manifest[o] \/ (o = "source" /\ source[o] = "whole")
    BY <1>1, DirectoryTypes DEF Refreshed, Directories
  <2>4. \A o \in Objects : o # "archive" => archive(source)[o] = source[o]
    BY <1>2 DEF Fetched, Directories
  <2>5. \/ archive(source)["archive"] = source["archive"]
        \/ /\ kind # "local" /\ source["archive"] = "none"
           /\ archive(source)["archive"] = bucket["archive"]
    BY <1>2, DirectoryTypes DEF Fetched, Directories
  <2>6. source["archive"] = Here["archive"]
    BY <2>1, <2>3, DirectoryTypes
  <2> QED BY <2>1, <2>2, <2>3, <2>4, <2>5, <2>6 DEF Copied
<1>5. ASSUME NEW source \in sources, NEW o \in Objects PROVE sent(source)[o] \in {bucket[o], "whole"}
  BY <1>1 DEF Directories
<1>6. PICK source \in sources :
        IF manifest["manifest"] = "none"
        THEN UNCHANGED <<disk, bucket>>
        ELSE IF archive(source)["archive"] = "none" \/ ~Built(archive(source))
        THEN /\ disk' = [disk EXCEPT ![ApiDir] = archive(source)]
             /\ bucket' = sent(source)
        ELSE /\ disk' = [disk EXCEPT ![ApiDir] = ArchiveOf(archive(source))]
             /\ bucket' \in IF kind = "local" THEN {bucket}
                            ELSE {sent(source),
                                  [sent(source) EXCEPT !["archive"] =
                                        ArchiveOf(archive(source))["archive"]]}
  BY DEF Download
<1>7. kind = "local" => sent(source) = bucket
  OBVIOUS
<1> HIDE DEF manifest, sources, archive, sent
<1> QED BY <1>3, <1>4, <1>5, <1>6, <1>7

(* The stored objects, the copies, the row and the requests of a job keep  *)
(* within their types.                                                     *)
THEOREM StorageTypeCorrect == Spec => []StorageTypeOK
<1>1. Init => StorageTypeOK
  <2> SUFFICES ASSUME Init PROVE StorageTypeOK
    OBVIOUS
  <2>1. bucket \in Directories /\ disk \in [{"worker", "api"} -> Directories]
    BY DirectoryTypes DEF Init, StorageInit
  <2>2. sending \in 0 .. Len(Order) + 1
    BY Uploads DEF Init, StorageInit
  <2>3. workerDeaths \in 0 .. MaxWorkerDeaths /\ apiDeaths \in 0 .. MaxApiDeaths
    BY StorageAssumption DEF Init, StorageInit
  <2> QED BY <2>1, <2>2, <2>3 DEF Init, StorageInit, StorageTypeOK, Directories
<1>2. StorageTypeOK /\ [Next]_vars => StorageTypeOK'
  <2> SUFFICES ASSUME StorageTypeOK, StorageStep PROVE StorageTypeOK'
    BY OnlyStorageSteps DEF storageVars, exportVars, StorageTypeOK
  <2> USE StorageAssumption DEF StorageTypeOK, exportVars
  <2>1. ApiDir \in {"worker", "api"} /\ Here \in Directories
    BY DirectoryTypes
  <2>2. ASSUME NEW dir \in Directories, disk' = [disk EXCEPT ![ApiDir] = dir]
        PROVE  disk' \in [{"worker", "api"} -> [Objects -> Contents]]
    BY <2>1, <2>2 DEF Directories
  <2>3. ASSUME NEW names \in SUBSET Assets, Build(names) PROVE StorageTypeOK'
    <3>1. [o \in Objects |-> IF o \in names \cup {"archive"} THEN "whole" ELSE "none"]
            \in [Objects -> Contents]
      BY DEF Contents
    <3>2. disk' \in [{"worker", "api"} -> [Objects -> Contents]]
      BY <2>3, <3>1 DEF Build
    <3>3. sending' \in 0 .. Len(Order) + 1
      BY <2>3, Uploads DEF Build
    <3>4. apart' \in BOOLEAN /\ kind' \in {"local", "gcs", "s3"}
      BY <2>3 DEF Build
    <3> QED BY <2>3, <3>2, <3>3, <3>4 DEF Build
  <2>4. CASE Send
    <3>1. bucket' \in [Objects -> Contents] /\ sending' \in 0 .. Len(Order) + 1
      BY <2>4, Uploads DEF Send, Uploaded
    <3> QED BY <2>4, <3>1 DEF Send
  <2>5. CASE Complete BY <2>5 DEF Complete
  <2>6. CASE WorkerDies BY <2>6, Uploads DEF WorkerDies
  <2>7. ASSUME NEW o \in Assets, Read(o) PROVE StorageTypeOK'
    <3>1. PICK dir \in Directories : disk' = [disk EXCEPT ![ApiDir] = dir]
      BY <2>7, <2>1, DirectoryTypes DEF Read, Here
    <3> QED BY <2>7, <2>2, <3>1 DEF Read
  <2>8. CASE Ask BY <2>8 DEF Ask
  <2>9. CASE Download
    <3>1. bucket' \in [Objects -> Contents]
      <4>1. bucket \in Directories
        BY DEF Directories
      <4>2. \A sent \in Directories, dir \in Directories :
              [sent EXCEPT !["archive"] = ArchiveOf(dir)["archive"]] \in Directories
        BY DirectoryTypes DEF Directories
      <4>3. bucket' \in Directories
        <5>1. CASE UNCHANGED <<disk, bucket>>
          BY <4>1, <5>1
        <5>2. CASE ~UNCHANGED <<disk, bucket>>
          <6>1. PICK dir \in Directories, sent \in Directories :
                  \/ bucket' = sent
                  \/ bucket' \in {sent, [sent EXCEPT !["archive"] = ArchiveOf(dir)["archive"]]}
            BY <2>9, <5>2, DownloadCases
          <6> QED BY <4>2, <6>1
        <5> QED BY <5>1, <5>2
      <4> QED BY <4>3 DEF Directories
    <3>2. disk' \in [{"worker", "api"} -> [Objects -> Contents]]
      BY <2>9, DownloadCases, <2>2, DirectoryTypes
    <3> QED BY <2>9, <3>1, <3>2 DEF Download
  <2>10. ASSUME NEW o \in Assets, ApiDies(o) PROVE StorageTypeOK'
    <3>1. disk' = [disk EXCEPT ![ApiDir] = [Here EXCEPT ![o] = "torn"]]
      BY <2>10, <2>1 DEF ApiDies, Here
    <3>2. [Here EXCEPT ![o] = "torn"] \in Directories
      BY <2>1 DEF Directories, Contents
    <3>3. disk' \in [{"worker", "api"} -> [Objects -> Contents]]
      BY <2>2, <3>1, <3>2
    <3>4. apiDeaths' \in 0 .. MaxApiDeaths
      BY <2>10 DEF ApiDies
    <3> QED BY <2>10, <3>3, <3>4 DEF ApiDies
  <2>11. CASE DeleteFiles
    BY <2>11, <2>2, DirectoryTypes DEF DeleteFiles, Directories
  <2>12. CASE DeleteRow BY <2>12 DEF DeleteRow
  <2>13. ASSUME NEW content \in Contents, disk' = [disk EXCEPT !["worker"]["export"] = content]
         PROVE  disk' \in [{"worker", "api"} -> [Objects -> Contents]]
    BY <2>13
  <2>14. CASE AskExport \/ ExportStarts \/ ExportFails
    BY <2>14 DEF AskExport, ExportStarts, ExportFails
  <2>15. CASE ExportWrites
    BY <2>13, <2>15 DEF ExportWrites, Contents
  <2>16. CASE ExportSends
    BY <2>16 DEF ExportSends, Uploaded, Objects
  <2>17. CASE ExportDies
    <3>1. disk' \in [{"worker", "api"} -> [Objects -> Contents]]
      BY <2>13, <2>17 DEF ExportDies, Contents
    <3> QED BY <2>17, <3>1 DEF ExportDies
  <2> QED BY <2>3, <2>4, <2>5, <2>6, <2>7, <2>8, <2>9, <2>10, <2>11, <2>12, <2>14, <2>15,
             <2>16, <2>17
          DEF StorageStep, StorageNext
<1> QED BY <1>1, <1>2, PTL DEF Spec

-----------------------------------------------------------------------------
(* DELETE.                                                                 *)

(* Only a completed job is deleted, and what was deleted stays so: a       *)
(* download or a reader request that comes later finds nothing to copy,    *)
(* and nothing to build an archive of; an export that found the job before *)
(* is remembered, and one that comes later finds no row.                   *)
Gone ==
    /\ deleting # "no" => status = "completed"
    /\ deleting # "no" /\ exporting \in {"begun", "written"} => surviving
    /\ DeletedIsGone

THEOREM DeletionInvariance == Spec => []Gone
<1>1. Init => Gone
  BY DEF Init, StorageInit, Gone, DeletedIsGone
<1>2. StorageTypeOK /\ Gone /\ [Next]_vars => Gone'
  <2> SUFFICES ASSUME StorageTypeOK, Gone, StorageStep PROVE Gone'
    BY OnlyStorageSteps DEF storageVars, exportVars, Gone, DeletedIsGone, Stored, Here, ApiDir
  <2> USE DEF Gone, DeletedIsGone, Stored, Here, ApiDir, exportVars
  <2>1. \A o \in Objects : Nothing[o] = "none"
    BY DEF Nothing
  <2>2. /\ ApiDir \in {"worker", "api"}
        /\ Assets \subseteq Objects /\ "export" \notin Assets
    BY DirectoryTypes
  <2>3. ASSUME NEW names \in SUBSET Assets, Build(names) PROVE Gone'
    BY <2>3 DEF Build
  <2>4. CASE Send BY <2>4 DEF Send
  <2>5. CASE Complete BY <2>5 DEF Complete
  <2>6. CASE WorkerDies BY <2>6 DEF WorkerDies
  <2>7. ASSUME NEW o \in Assets, Read(o) PROVE Gone'
    BY <2>2, <2>7, DirectoryTypes DEF Read, Ready, Fetched, StorageTypeOK
  <2>8. CASE Ask BY <2>8 DEF Ask
  <2>9. CASE Download
    <3>1. CASE deleting = "no" BY <2>9, <3>1 DEF Download
    <3>2. CASE deleting # "no"
      <4>1. Fetched(Here, "manifest")["manifest"] = "none"
        BY <2>2, <3>2, DirectoryTypes DEF Fetched, StorageTypeOK
      <4> QED BY <2>9, <4>1 DEF Download
    <3> QED BY <3>1, <3>2
  <2>10. ASSUME NEW o \in Assets, ApiDies(o) PROVE Gone'
    <3>1. CASE deleting = "no" BY <2>10, <3>1 DEF ApiDies
    <3>2. CASE deleting # "no"
      <4>1. "manifest" \in Assets BY DEF Assets
      <4> QED BY <2>2, <2>10, <3>2, <4>1 DEF ApiDies, CopiesInPlace
    <3> QED BY <3>1, <3>2
  <2>11. CASE DeleteFiles
    BY <2>11, <2>1, <2>2 DEF DeleteFiles, Ready, StorageTypeOK
  <2>12. CASE DeleteRow BY <2>12 DEF DeleteRow
  <2>13. CASE AskExport \/ ExportFails
    BY <2>13 DEF AskExport, ExportFails
  <2>14. CASE ExportStarts
    BY <2>14 DEF ExportStarts, Ready, StorageTypeOK
  <2>15. CASE ExportWrites \/ ExportSends \/ ExportDies
    <3>1. /\ UNCHANGED <<kind, apart, status, deleting, surviving>>
          /\ exporting \in {"begun", "written"}
      BY <2>15 DEF ExportWrites, ExportSends, ExportDies
    <3>2. /\ \A o \in Objects : o # "export" => bucket'[o] = bucket[o]
          /\ \A h \in {"worker", "api"}, o \in Objects : o # "export" => disk'[h][o] = disk[h][o]
      BY <2>15 DEF ExportWrites, ExportSends, ExportDies, Uploaded, StorageTypeOK
    <3> QED BY <2>2, <3>1, <3>2
  <2> QED BY <2>3, <2>4, <2>5, <2>6, <2>7, <2>8, <2>9, <2>10, <2>11, <2>12, <2>13, <2>14,
             <2>15
          DEF StorageStep, StorageNext
<1> QED BY <1>1, <1>2, StorageTypeCorrect, PTL DEF Spec

(* DELETE leaves nothing of a completed job in the bucket or in the API's  *)
(* directory, and no request that read the row before brings files back,   *)
(* but for what an export makes that found the row before it was deleted.  *)
THEOREM DeletionIsFinal == Spec => []DeletedIsGone
<1>1. Gone => DeletedIsGone
  BY DEF Gone
<1> QED BY <1>1, DeletionInvariance, PTL

-----------------------------------------------------------------------------
(* What is delivered.                                                      *)

(* Nothing is torn before an API process dies.                             *)
Untorn ==
    apiDeaths = 0 => \A o \in Assets :
        bucket[o] # "torn" /\ \A h \in {"worker", "api"} : disk[h][o] # "torn"

(* The archive, from the moment it was built, and stored, on.              *)
ArchiveKept ==
    /\ sending # 0 /\ status = "running" => disk["worker"]["archive"] = "whole"
    /\ sending > 1 /\ apiDeaths = 0 /\ deleting = "no" => Stored("archive") = "whole"
    /\ status = "completed" => sending > 1
    /\ kind = "local" => ~apart
    /\ asking => status = "completed"

Delivery == Untorn /\ ArchiveKept

(* While a job is completed and not deleted, and no API process has died,  *)
(* what a download is redirected to is whole, and no copy is torn.         *)
THEOREM DownloadsAreWhole == Spec => []DeliveredWhole
<1>1. Init => Delivery
  BY DirectoryTypes DEF Init, StorageInit, Delivery, Untorn, ArchiveKept, Nothing
<1>2. StorageTypeOK /\ Gone /\ Delivery /\ [Next]_vars => Delivery'
  <2> SUFFICES ASSUME StorageTypeOK, Gone, Delivery, StorageStep PROVE Delivery'
    BY OnlyStorageSteps DEF storageVars, exportVars, Delivery, Untorn, ArchiveKept, Stored, Here, ApiDir
  <2> USE DEF Delivery, Untorn, ArchiveKept, Stored, Here, ApiDir, exportVars
  <2>1. DOMAIN Order = 1..5 /\ Len(Order) = 5 /\ Order[1] = "archive"
        /\ \A n \in 1..5 : Order[n] \in Assets /\ (n # 1 => Order[n] # "archive")
    BY DEF Order, Assets, Optional
  <2>2. /\ {"archive", "manifest", "source"} \subseteq Assets
        /\ Assets \subseteq Objects /\ "export" \notin Assets
    BY DirectoryTypes
  <2>3. ASSUME NEW names \in SUBSET Assets, Build(names) PROVE Delivery'
    <3>1. /\ \A o \in Assets : disk'["worker"][o] \in {"none", "whole"}
          /\ disk'["worker"]["archive"] = "whole"
          /\ disk'["api"] = disk["api"]
      BY <2>3, <2>2 DEF Build, StorageTypeOK
    <3>2. /\ deleting' = "no" /\ sending' = 1 /\ status' = "running" /\ ~asking'
      BY <2>3 DEF Build, Gone
    <3>6. kind' = "local" => ~apart'
      <4>1. ASSUME kind' = "local" PROVE apart' \in {FALSE}
        BY <2>3, <4>1, Zenon DEF Build
      <4> QED BY <4>1
    <3>3. bucket' = bucket /\ apiDeaths' = apiDeaths
      BY <2>3 DEF Build
    <3>4. Untorn'
      BY <3>1, <3>3
    <3>5. ArchiveKept'
      BY <3>1, <3>2, <3>6
    <3> QED BY <3>4, <3>5
  <2>4. CASE Send
    BY <2>4, <2>1, <2>2 DEF Send, Uploaded, StorageTypeOK
  <2>5. CASE Complete BY <2>5, <2>1 DEF Complete
  <2>6. CASE WorkerDies BY <2>6 DEF WorkerDies
  <2>7. ASSUME NEW o \in Assets, Read(o) PROVE Delivery'
    <3>1. PICK dir \in Directories : Copied(dir) /\ disk' = [disk EXCEPT ![ApiDir] = dir]
      <4> DEFINE first == IF o = "source" THEN Fetched(disk[ApiDir], "manifest") ELSE disk[ApiDir]
      <4>1. first \in Directories /\ Fetched(first, o) \in Directories
        BY DirectoryTypes DEF Here
      <4>2. Copied(first)
        BY <2>2, DirectoryTypes DEF Fetched, Copied, Directories
      <4>3. Copied(Fetched(first, o))
        BY <4>1, <4>2 DEF Fetched, Copied, Directories
      <4>4. disk' = [disk EXCEPT ![ApiDir] = Fetched(first, o)]
        BY <2>7 DEF Read
      <4> QED BY <4>1, <4>3, <4>4
    <3>2. UNCHANGED <<kind, apart, bucket, status, sending, deleting, asking, apiDeaths>>
          /\ status = "completed"
      BY <2>7 DEF Read, Ready
    <3>3. disk'[ApiDir] = dir /\ \A h \in {"worker", "api"} : h # ApiDir => disk'[h] = disk[h]
      BY <3>1 DEF StorageTypeOK
    <3>4. Untorn'
      BY <2>2, <3>1, <3>2, <3>3 DEF Copied
    <3>5. ArchiveKept'
      BY <2>2, <3>1, <3>2, <3>3 DEF Copied
    <3> QED BY <3>4, <3>5
  <2>8. CASE Ask BY <2>8 DEF Ask, Ready
  <2>9. CASE Download
    <3>1. CASE UNCHANGED <<disk, bucket>>
      BY <2>9, <3>1 DEF Download
    <3>2. ASSUME NEW dir \in Directories, NEW sent \in Directories,
                 Copied(dir),
                 \A o \in Objects : sent[o] \in {bucket[o], "whole"},
                 disk' = [disk EXCEPT ![ApiDir] = dir],
                 bucket' = sent
          PROVE  Delivery'
      BY <2>9, <2>2, <3>2 DEF Download, Copied, StorageTypeOK, Directories
    <3>3. ASSUME NEW dir \in Directories, NEW sent \in Directories,
                 Copied(dir), Built(dir),
                 \A o \in Objects : sent[o] \in {bucket[o], "whole"},
                 disk' = [disk EXCEPT ![ApiDir] = ArchiveOf(dir)],
                 bucket' \in {sent, [sent EXCEPT !["archive"] = ArchiveOf(dir)["archive"]]}
          PROVE  Delivery'
      <4>1. apiDeaths = 0 => ArchiveOf(dir)["archive"] = "whole"
        BY <2>2, <3>3 DEF Built, ArchiveOf, Copied, StorageTypeOK, Directories, Contents
      <4>2. \A o \in Objects : o # "archive" => ArchiveOf(dir)[o] = dir[o]
        BY <3>3 DEF ArchiveOf, Directories
      <4>3. ArchiveOf(dir) \in Directories
        BY DirectoryTypes
      <4>4. UNCHANGED <<kind, apart, status, sending, deleting, apiDeaths>>
        BY <2>9 DEF Download
      <4>5. apiDeaths = 0 => \A o \in Assets : ArchiveOf(dir)[o] # "torn" /\ bucket'[o] # "torn"
        BY <2>2, <3>3, <4>1, <4>2 DEF Copied, StorageTypeOK, Directories
      <4>6. disk'[ApiDir] = ArchiveOf(dir) /\ \A h \in {"worker", "api"} : h # ApiDir => disk'[h] = disk[h]
        BY <3>3 DEF StorageTypeOK
      <4>7. Untorn'
        BY <4>4, <4>5, <4>6
      <4>8. asking /\ ~asking' /\ status = "completed" /\ sending > 1
        BY <2>9 DEF Download, StorageTypeOK
      <4>9. deleting = "no" /\ apiDeaths = 0 => Stored("archive")' = "whole"
        BY <2>2, <3>3, <4>1, <4>4, <4>6, <4>8 DEF StorageTypeOK, Directories
      <4>10. ArchiveKept'
        BY <4>4, <4>8, <4>9
      <4> QED BY <4>7, <4>10
    <3> QED BY <2>9, <3>1, <3>2, <3>3, DownloadCases
  <2>10. ASSUME NEW o \in Assets, ApiDies(o) PROVE Delivery'
    BY <2>2, <2>10 DEF ApiDies, StorageTypeOK
  <2>11. CASE DeleteFiles
    BY <2>2, <2>11 DEF DeleteFiles, Ready, Nothing, StorageTypeOK
  <2>12. CASE DeleteRow BY <2>12 DEF DeleteRow
  <2>13. CASE AskExport \/ ExportStarts \/ ExportFails
    BY <2>13 DEF AskExport, ExportStarts, ExportFails
  <2>14. CASE ExportWrites \/ ExportSends \/ ExportDies
    <3>1. UNCHANGED <<kind, apart, status, sending, asking, deleting, apiDeaths>>
      BY <2>14 DEF ExportWrites, ExportSends, ExportDies
    <3>2. /\ \A o \in Assets : bucket'[o] = bucket[o]
          /\ \A h \in {"worker", "api"}, o \in Assets : disk'[h][o] = disk[h][o]
      BY <2>2, <2>14 DEF ExportWrites, ExportSends, ExportDies, Uploaded, StorageTypeOK
    <3> QED BY <2>2, <3>1, <3>2
  <2> QED BY <2>3, <2>4, <2>5, <2>6, <2>7, <2>8, <2>9, <2>10, <2>11, <2>12, <2>13, <2>14
          DEF StorageStep, StorageNext
<1>3. StorageTypeOK /\ Delivery => DeliveredWhole
  BY DEF StorageTypeOK, Delivery, Untorn, ArchiveKept, DeliveredWhole, Here, ApiDir
<1> QED BY <1>1, <1>2, <1>3, StorageTypeCorrect, DeletionInvariance, PTL DEF Spec
-----------------------------------------------------------------------------
(* The picture.                                                            *)

LEMMA Quotient ==
    ASSUME NEW a \in Nat, NEW b \in Nat \ {0}
    PROVE  a \div b \in Nat /\ b * (a \div b) <= a /\ a < b * (a \div b) + b
  OBVIOUS

(* A clip that is too tall at some width is narrower when it is fitted to  *)
(* a lower height.                                                         *)
LEMMA Shrunk ==
    ASSUME NEW faceW \in Nat \ {0}, NEW faceH \in Nat \ {0}, NEW w \in Nat, NEW fit \in Nat,
           (faceH * w) \div faceW > fit
    PROVE  (faceW * fit) \div faceH <= w
<1> DEFINE tall == (faceH * w) \div faceW
           slim == (faceW * fit) \div faceH
<1>0. faceH * w \in Nat /\ faceW * fit \in Nat
  OBVIOUS
<1>1. tall \in Nat /\ faceW * tall <= faceH * w
  BY <1>0, Quotient
<1>2. slim \in Nat /\ faceH * slim <= faceW * fit
  BY <1>0, Quotient
<1> HIDE DEF tall, slim
<1>3. tall > fit
  BY DEF tall
<1>4. faceW * tall >= faceW * fit
  BY <1>1, <1>3
<1>5. faceH * slim <= faceH * w
  BY <1>1, <1>2, <1>4
<1>6. slim <= w
  BY <1>2, <1>5
<1> QED BY <1>6 DEF slim

(* A presenter in a corner leaves room for its margins.                    *)
LEMMA DockedFits ==
    ASSUME NEW frame \in Sizes, NEW face \in Sizes, NEW percent \in Int,
           frame.w >= 170, frame.h >= 34
    PROVE  LET margin == OverlayMargin(frame)
               size == Docked(frame, face, percent)
           IN  /\ margin \in Nat /\ size.w \in Nat \ {0} /\ size.h \in Nat \ {0}
               /\ margin + size.w <= frame.w - 1
               /\ size.h + 2 * margin <= frame.h
               /\ 100 * margin <= 3 * frame.w \/ margin = 16
               /\ percent <= 40 => 100 * size.w <= 40 * frame.w
<1> DEFINE margin == OverlayMargin(frame)
           scale == Smaller(Larger(percent, 10), 90)
           room == frame.h - 2 * margin
           w == Larger(1, (frame.w * scale) \div 100)
           h == Larger(1, (face.h * w) \div Larger(face.w, 1))
           fit == Larger(1, room)
           narrow == Larger(1, (face.w * fit) \div Larger(face.h, 1))
<1>1. frame.w \in Nat \ {0} /\ frame.h \in Nat \ {0} /\ face.w \in Nat \ {0} /\ face.h \in Nat \ {0}
  BY DEF Sizes
<1>2. margin \in Nat /\ 2 * margin < frame.h /\ (100 * margin <= 3 * frame.w \/ margin = 16)
  BY <1>1 DEF OverlayMargin, Larger, Smaller
<1>3. scale \in 10..90 /\ (percent <= 40 => scale <= 40)
  BY DEF Larger, Smaller
<1>4. frame.w * scale \in Nat /\ frame.w * scale <= 90 * frame.w
      /\ (percent <= 40 => frame.w * scale <= 40 * frame.w)
  BY <1>1, <1>3
<1>5. w \in Nat \ {0} /\ 100 * w <= 90 * frame.w /\ (percent <= 40 => 100 * w <= 40 * frame.w)
  <2> DEFINE part == frame.w * scale
  <2> HIDE DEF scale
  <2>1. part \in Nat /\ part <= 90 * frame.w /\ (percent <= 40 => part <= 40 * frame.w)
    BY <1>4
  <2> HIDE DEF part
  <2>2. /\ Larger(1, part \div 100) \in Nat \ {0}
        /\ 100 * Larger(1, part \div 100) <= 90 * frame.w
        /\ percent <= 40 => 100 * Larger(1, part \div 100) <= 40 * frame.w
    BY <1>1, <2>1 DEF Larger
  <2> QED BY <2>2 DEF part
<1>6. room \in Nat \ {0} /\ fit = room
  BY <1>1, <1>2 DEF Larger
<1>7. Larger(face.w, 1) = face.w /\ Larger(face.h, 1) = face.h
  BY <1>1 DEF Larger
<1> HIDE DEF w, scale, margin
<1>8. face.h * w \in Nat /\ face.w * fit \in Nat
  BY <1>1, <1>5, <1>6
<1>9. h \in Nat \ {0} /\ narrow \in Nat \ {0}
  BY <1>1, <1>7, <1>8, Quotient DEF Larger
<1>10. h > room => narrow <= w
  <2> SUFFICES ASSUME h > room PROVE narrow <= w
    OBVIOUS
  <2>1. (face.h * w) \div face.w > fit
    BY <1>6, <1>7, <1>8, <1>1, Quotient DEF Larger
  <2>2. (face.w * fit) \div face.h <= w
    BY <1>1, <1>5, <1>6, <2>1, Shrunk
  <2> QED BY <1>1, <1>5, <1>7, <2>2, <1>8, Quotient DEF Larger
<1>11. Docked(frame, face, percent) = IF h > room THEN [w |-> narrow, h |-> fit]
                                      ELSE [w |-> w, h |-> h]
  BY DEF Docked, w, scale, margin
<1> HIDE DEF h, narrow, fit
<1>12. margin + w <= frame.w - 1
  BY <1>1, <1>2, <1>5
<1>13. CASE h > room
  <2>1. Docked(frame, face, percent).w = narrow /\ Docked(frame, face, percent).h = fit
    BY <1>11, <1>13
  <2> QED BY <1>1, <1>2, <1>5, <1>6, <1>9, <1>10, <1>12, <1>13, <2>1 DEF margin
<1>14. CASE ~(h > room)
  <2>1. Docked(frame, face, percent).w = w /\ Docked(frame, face, percent).h = h
    BY <1>11, <1>14
  <2> QED BY <1>1, <1>2, <1>5, <1>9, <1>12, <1>14, <2>1 DEF margin
<1> QED BY <1>13, <1>14

(* In a frame of at least 170 by 34 pixels the presenter never covers the  *)
(* reading pane, and both are in the frame, whatever the shape of its      *)
(* clip, its size and its position (compose_lipsync_video).                *)
THEOREM PresenterIsApart ==
    ASSUME NEW frame \in Sizes, NEW face \in Sizes, NEW percent \in Int,
           frame.w >= 170, frame.h >= 34, NEW position \in Positions
    PROVE  LET made == Composition(frame, face, position, percent) IN
           /\ Inside(made.face, frame)
           /\ Inside(made.pane, frame)
           /\ Apart(made.face, made.pane)
<1> DEFINE margin == OverlayMargin(frame)
           size == FaceSize(frame, face, position, percent)
           pane == PaneSize(frame, size, position)
           made == Composition(frame, face, position, percent)
<1>0. frame.w \in Nat \ {0} /\ frame.h \in Nat \ {0}
  BY DEF Sizes
<1>1. CASE position \in Corners
  <2>1. size = Docked(frame, face, percent)
    BY <1>1 DEF FaceSize
  <2>2. /\ margin \in Nat /\ size.w \in Nat \ {0} /\ size.h \in Nat \ {0}
        /\ margin + size.w <= frame.w - 1
        /\ size.h + 2 * margin <= frame.h
    BY <2>1, DockedFits
  <2>3. position \notin {"left", "right", "center"}
    BY <1>1 DEF Corners
  <2>4. /\ made.face.x = IF AtLeft(position) THEN margin ELSE frame.w - size.w - margin
        /\ made.face.y = IF AtTop(position) THEN margin ELSE frame.h - size.h - margin
        /\ made.face.w = size.w /\ made.face.h = size.h
        /\ made.pane.x = IF AtLeft(position) THEN frame.w - pane.w ELSE 0
        /\ made.pane.y = 0 /\ made.pane.w = pane.w /\ made.pane.h = pane.h
    BY <1>1, <2>3 DEF Composition
  <2> HIDE DEF size, margin, made
  <2>5. /\ pane.w = frame.w - Smaller(frame.w - 1, size.w + 2 * margin)
        /\ pane.h = frame.h
    BY <1>0, <1>1, <2>2, <2>3 DEF PaneSize, margin, Smaller, Larger
  <2> HIDE DEF pane
  <2>6. /\ pane.w \in Nat /\ pane.w <= frame.w - (margin + size.w)
    BY <1>0, <2>2, <2>5 DEF Smaller
  <2>7. Inside(made.face, frame)
    BY <1>0, <2>2, <2>4 DEF Inside
  <2>8. Inside(made.pane, frame)
    BY <1>0, <2>2, <2>4, <2>5, <2>6 DEF Inside
  <2>9. Apart(made.face, made.pane)
    BY <1>0, <2>2, <2>4, <2>6 DEF Apart
  <2> QED BY <2>7, <2>8, <2>9 DEF made
<1>2. CASE position \in {"left", "right", "center"}
  <2>1. /\ size = [w |-> frame.w \div 2,
                   h |-> IF position = "center" THEN frame.h \div 2 ELSE frame.h]
        /\ pane.w = IF position = "center" THEN frame.w ELSE frame.w \div 2
        /\ pane.h = IF position = "center" THEN Larger(1, frame.h - size.h) ELSE frame.h
    BY <1>2 DEF FaceSize, PaneSize, Corners
  <2>2. /\ size.w = frame.w \div 2
        /\ size.h = IF position = "center" THEN frame.h \div 2 ELSE frame.h
    BY <2>1
  <2>3. CASE position = "left"
    <3>1. /\ made.face = [x |-> 0, y |-> 0, w |-> size.w, h |-> size.h]
          /\ made.pane = [x |-> size.w, y |-> 0, w |-> pane.w, h |-> pane.h]
      BY <2>3 DEF Composition, Corners
    <3> HIDE DEF made, size, pane
    <3> QED BY <1>0, <2>1, <2>2, <2>3, <3>1 DEF Inside, Apart, made
  <2>4. CASE position = "right"
    <3>1. /\ made.face = [x |-> pane.w, y |-> 0, w |-> size.w, h |-> size.h]
          /\ made.pane = [x |-> 0, y |-> 0, w |-> pane.w, h |-> pane.h]
      BY <2>4 DEF Composition, Corners
    <3> HIDE DEF made, size, pane
    <3> QED BY <1>0, <2>1, <2>2, <2>4, <3>1 DEF Inside, Apart, made
  <2>5. CASE position = "center"
    <3>1. /\ made.face = [x |-> (frame.w - size.w) \div 2, y |-> 0, w |-> size.w, h |-> size.h]
          /\ made.pane = [x |-> 0, y |-> size.h, w |-> pane.w, h |-> pane.h]
      BY <2>5 DEF Composition, Corners
    <3> HIDE DEF made, size, pane
    <3> QED BY <1>0, <2>1, <2>2, <2>5, <3>1 DEF Inside, Apart, made, Larger
  <2> QED BY <1>2, <2>3, <2>4, <2>5
<1> QED BY <1>1, <1>2 DEF Positions

-----------------------------------------------------------------------------
(* The document.                                                           *)

(* What Align makes of the chunks.                                         *)
AlignedBy(flaw, length) ==
    [k \in DOMAIN chunks |->
        LET words == Timed(Recognised(k, flaw), length) IN
        [num      |-> k,
         text     |-> chunks[k].text,
         pages    |-> chunks[k].pages,
         words    |-> words,
         duration |-> 3 * Larger(Len(chunks[k].text), Len(words)) + 1]]

ChunksMade == IF request.paged THEN PagedChunks(request.pages, request.limit)
           ELSE PlainChunks(request.pages, request.limit)

IsAligned == \E flaw \in Flaws, length \in 2..3 : aligned = AlignedBy(flaw, length)

(* Steps that leave the chunks and their words alone keep what they are.    *)
LEMMA AlignedKept == UNCHANGED <<request, chunks, aligned>> /\ IsAligned => IsAligned'
<1> SUFFICES ASSUME UNCHANGED <<request, chunks, aligned>>, IsAligned PROVE IsAligned'
  OBVIOUS
<1>1. PICK flaw \in Flaws, length \in 2..3 : aligned = AlignedBy(flaw, length)
  BY DEF IsAligned
<1>2. Flaws' = Flaws /\ AlignedBy(flaw, length)' = AlignedBy(flaw, length)
  BY DEF Flaws, Spots, AlignedBy, Recognised
<1>3. flaw \in Flaws' /\ aligned' = AlignedBy(flaw, length)'
  BY <1>1, <1>2
<1> QED BY <1>3 DEF IsAligned

(* What each stage has of its document.                                    *)
Staged ==
    /\ stage \in {"begin", "chunk", "align", "build", "composed", "stored", "page"}
    /\ stage \in {"begin", "stored", "page"} => request = NoRequest
    /\ stage \in {"chunk", "align", "build", "composed"} => request \in Requests
    /\ stage \in {"begin", "chunk", "stored", "page"} => chunks = <<>>
    /\ stage \in {"align", "build", "composed"} => chunks = ChunksMade
    /\ stage \notin {"build", "composed"} => aligned = <<>>
    /\ stage \in {"build", "composed"} => IsAligned
    /\ picture \in Pictures \cup {NoPicture}
    /\ stage = "composed" => picture \in Pictures

(* Every stage has of its document what the stages before it made.         *)
LEMMA StagedInvariant == Spec => []Staged
<1>1. Init => Staged
  BY DEF Init, Staged
<1>2. Staged /\ [Next]_vars => Staged'
  <2> SUFFICES ASSUME Staged, [Next]_vars PROVE Staged'
    OBVIOUS
  <2>1. CASE UNCHANGED documentVars
    BY <2>1, AlignedKept DEF documentVars, Staged, ChunksMade
  <2>2. CASE Begin
    BY <2>2 DEF Begin, Staged
  <2>3. CASE Chunk
    BY <2>3 DEF Chunk, Staged, ChunksMade
  <2>4. CASE Align
    <3>1. PICK flaw \in Flaws, length \in 2..3 : aligned' = AlignedBy(flaw, length)
      BY <2>4 DEF Align, AlignedBy
    <3>2. UNCHANGED <<request, chunks, picture>> /\ stage = "align" /\ stage' = "build"
      BY <2>4 DEF Align
    <3>3. Flaws' = Flaws /\ AlignedBy(flaw, length)' = AlignedBy(flaw, length)
      BY <3>2 DEF Flaws, Spots, AlignedBy, Recognised
    <3>4. IsAligned'
      <4>1. flaw \in Flaws' /\ aligned' = AlignedBy(flaw, length)'
        BY <3>1, <3>3
      <4> QED BY <4>1 DEF IsAligned
    <3> QED BY <3>2, <3>4 DEF Staged, ChunksMade
  <2>5. CASE Compose
    <3>1. /\ UNCHANGED <<request, chunks, aligned>> /\ stage = "build" /\ stage' = "composed"
          /\ picture' \in Pictures
      BY <2>5 DEF Compose
    <3>2. IsAligned'
      BY <3>1, AlignedKept DEF Staged
    <3> QED BY <3>1, <3>2 DEF Staged, ChunksMade
  <2>6. CASE Publish
    BY <2>6 DEF Publish, Staged
  <2> QED BY <2>1, <2>2, <2>3, <2>4, <2>5, <2>6 DEF Next, vars, documentVars
<1> QED BY <1>1, <1>2, PTL DEF Spec

(* The printed words of every document are prints of these parts.          *)
Written == DOMAIN Size \ {Comma}

(* The documents that are asked for are made of written words.             *)
LEMMA WrittenWords ==
    /\ Named(Written)
    /\ \A r \in Requests : r.pages \in Seq(Seq(PrintOf(Written))) /\ r.limit \in Nat
BY DeliveryAssumption DEF Written, Named, PrintOf, AnyPrint

(* The chunks of a document are what text preparation promises.            *)
LEMMA ChunksOfDocument ==
    ASSUME Staged, stage \in {"align", "build", "composed"}
    PROVE  /\ chunks \in Seq(ChunkRecord(Written \cup {Comma}, 0..Len(Prints), DOMAIN request.pages))
           /\ Speaks(chunks, request.pages) /\ Accepted(chunks, request.limit)
           /\ \A k \in DOMAIN chunks :
                IF request.paged THEN HasItsPages(chunks[k], request.pages)
                ELSE chunks[k].pages = <<>>
<1> DEFINE pages == request.pages
           limit == request.limit
           N == Written
<1>1. pages \in Seq(Seq(PrintOf(N))) /\ limit \in Nat /\ Named(N)
  BY WrittenWords DEF Staged
<1>2. chunks = IF request.paged THEN PagedChunks(pages, limit) ELSE PlainChunks(pages, limit)
  BY DEF Staged, ChunksMade
<1> HIDE DEF pages, limit, N
<1>3. CASE request.paged
  <2>1. chunks = PagedChunks(pages, limit)
    BY <1>2, <1>3
  <2> QED BY <1>1, <1>3, <2>1, PagedChunksOf DEF pages, limit, N, Prints
<1>4. CASE ~request.paged
  <2>1. chunks = PlainChunks(pages, limit)
    BY <1>2, <1>4
  <2> QED BY <1>1, <1>4, <2>1, PlainChunksOf DEF pages, limit, N, Prints
<1> QED BY <1>3, <1>4

(* The chunks say the document: every printed word once and in order,      *)
(* whatever was split, joined and punctuated; and where pages are kept, a  *)
(* chunk has the pages of its words and no others (text_processing.py).    *)
THEOREM TextIsSpoken == Spec => []TextSpoken
<1>1. Staged => TextSpoken
  <2> SUFFICES ASSUME Staged, stage \in {"align", "build", "composed"}
               PROVE  /\ NameAndPlace(Spoken(FlattenSeq([k \in DOMAIN chunks |-> chunks[k].text])))
                           = NameAndPlace(Preprocess(Prints, 1))
                      /\ request.paged => \A k \in DOMAIN chunks :
                           LET own == Spoken(chunks[k].text) IN
                           ToSet(chunks[k].pages) = {PageOf(own[i].at) : i \in DOMAIN own}
    BY DEF TextSpoken
  <2>1. Speaks(chunks, request.pages)
    BY ChunksOfDocument
  <2>2. NameAndPlace(Spoken(FlattenSeq([k \in DOMAIN chunks |-> chunks[k].text])))
          = NameAndPlace(Preprocess(Prints, 1))
    BY <2>1 DEF Speaks, Said, Texts, Prints
  <2>3. ASSUME request.paged, NEW k \in DOMAIN chunks
        PROVE  LET own == Spoken(chunks[k].text) IN
               ToSet(chunks[k].pages) = {PageOf(own[i].at) : i \in DOMAIN own}
    <3> DEFINE own == Spoken(chunks[k].text)
    <3>1. ToSet(chunks[k].pages) = {PageOfPlace(request.pages, at) : at \in SpokenPlaces(chunks[k].text)}
      BY <2>3, ChunksOfDocument DEF HasItsPages
    <3>2. \A at : PageOfPlace(request.pages, at) = PageOf(at)
      BY DEF PageOfPlace, PageOf, OnPage, Start, UpTo
    <3>3. SpokenPlaces(chunks[k].text) = {own[i].at : i \in DOMAIN own}
      BY DEF SpokenPlaces
    <3> QED BY <3>1, <3>2, <3>3
  <2> QED BY <2>2, <2>3
<1> QED BY <1>1, StagedInvariant, PTL

(* Every chunk is accepted by validate_chunk, so that no chunk fails       *)
(* before it is synthesized, unless it has a single word of the length of  *)
(* a sentence.                                                             *)
THEOREM ChunksAreAccepted == Spec => []ChunksAccepted
<1>1. Staged => ChunksAccepted
  BY ChunksOfDocument DEF ChunksAccepted, Accepted, BigWord
<1> QED BY <1>1, StagedInvariant, PTL

-----------------------------------------------------------------------------
(* The types.                                                              *)

(* The page of the reader keeps within its types.                          *)
LEMMA PageTypes ==
    /\ Init => PageTypeOK
    /\ PageTypeOK /\ [Next]_vars => PageTypeOK'
<1>1. ASSUME Init PROVE PageTypeOK
  BY <1>1 DEF Init, PageInit, PageClosed, PageTypeOK, ExportStates
<1>2. ASSUME PageTypeOK, [Next]_vars PROVE PageTypeOK'
  <2> USE DEF PageTypeOK, ExportStates, Ended
  <2>1. CASE UNCHANGED pageVars
    BY <1>2, <2>1 DEF pageVars
  <2>2. CASE PageNext
    <3>1. ASSUME NEW s \in ExportStates, Shows(s)
          PROVE  shown' \in ExportStates /\ poll' \in {"none", "asked", "answered", "timer"}
      BY <1>2, <3>1 DEF Shows
    <3>2. CASE PollServed
      BY <1>2, <3>2 DEF PollServed
    <3>3. CASE PollArrives
      BY <1>2, <3>1, <3>3 DEF PollArrives
    <3>4. CASE PollFails
      BY <1>2, <3>4 DEF PollFails
    <3>5. CASE TimerFires
      BY <1>2, <3>5 DEF TimerFires
    <3>6. ASSUME NEW p \in 1..MaxClicks, Click(p) PROVE PageTypeOK'
      BY <1>2, <3>1, <3>6 DEF Click
    <3>7. ASSUME NEW p \in 1..MaxClicks, PostServed(p) PROVE PageTypeOK'
      BY <1>2, <3>7 DEF PostServed
    <3>8. ASSUME NEW p \in 1..MaxClicks, PostArrives(p) PROVE PageTypeOK'
      BY <1>2, <3>1, <3>8 DEF PostArrives
    <3>9. ASSUME NEW p \in 1..MaxClicks, PostFails(p) PROVE PageTypeOK'
      BY <1>2, <3>1, <3>9 DEF PostFails
    <3>10. CASE ExportEnds
      BY <1>2, <3>10 DEF ExportEnds
    <3> QED BY <2>2, <3>2, <3>3, <3>4, <3>5, <3>6, <3>7, <3>8, <3>9, <3>10 DEF PageNext
  <2>3. CASE Begin \/ Chunk \/ Align \/ Compose \/ Publish
    BY <2>1, <2>3 DEF Begin, Chunk, Align, Compose, Publish
  <2> QED BY <1>2, <2>1, <2>2, <2>3 DEF Next, vars
<1> QED BY <1>1, <1>2

(* Every part of a job's document, its files and its page keep within      *)
(* their types: a chunk has a text and the pages of its document that it   *)
(* is on, each once and in order.                                          *)
THEOREM TypeCorrect == Spec => []TypeOK
<1>1. ASSUME Staged, NEW k \in DOMAIN chunks
      PROVE  /\ DOMAIN chunks[k] = {"text", "pages"}
             /\ \A i, j \in DOMAIN chunks[k].pages : i < j => chunks[k].pages[i] < chunks[k].pages[j]
             /\ ToSet(chunks[k].pages) \subseteq DOMAIN request.pages
  <2> DEFINE pages == request.pages
             c == chunks[k]
             T == DOMAIN pages
  <2>1. stage \in {"align", "build", "composed"}
    BY <1>1 DEF Staged
  <2>2. chunks \in Seq(ChunkRecord(Written \cup {Comma}, 0..Len(Prints), T))
    BY <1>1, <2>1, ChunksOfDocument
  <2>3. c \in ChunkRecord(Written \cup {Comma}, 0..Len(Prints), T)
    <3> DEFINE R == ChunkRecord(Written \cup {Comma}, 0..Len(Prints), T)
    <3>1. chunks \in Seq(R)
      BY <2>2
    <3> HIDE DEF R
    <3>2. chunks[k] \in R
      BY <1>1, <3>1, ElementOfSeq, LenProperties
    <3> QED BY <3>2 DEF R
  <2>4. Climbing(c.pages)
    <3>1. CASE request.paged
      BY <1>1, <2>1, <3>1, ChunksOfDocument DEF HasItsPages
    <3>2. CASE ~request.paged
      <4>1. c.pages = <<>>
        BY <1>1, <2>1, <3>2, ChunksOfDocument
      <4> QED BY <4>1 DEF Climbing
    <3> QED BY <3>1, <3>2
  <2> HIDE DEF T, c
  <2>5. c.pages \in Seq(T) /\ DOMAIN c = {"text", "pages"}
    BY <2>3 DEF ChunkRecord
  <2>6. ToSet(c.pages) \subseteq T
    BY <2>5, LenProperties, ElementOfSeq DEF ToSet
  <2> QED BY <2>4, <2>5, <2>6 DEF Climbing, T, c
<1>2. ASSUME Staged, NEW k \in DOMAIN aligned
      PROVE  DOMAIN aligned[k] = {"num", "text", "pages", "words", "duration"}
  <2>1. IsAligned
    BY <1>2 DEF Staged
  <2> QED BY <1>2, <2>1 DEF IsAligned, AlignedBy
<1>3. Staged => request \in Requests \cup {NoRequest}
  BY DEF Staged
<1>4. Staged /\ StorageTypeOK /\ PageTypeOK => TypeOK
  BY <1>1, <1>2, <1>3 DEF TypeOK, Staged
<1> QED BY <1>4, StagedInvariant, StorageTypeCorrect, PageTypes, PTL DEF Spec

-----------------------------------------------------------------------------
(* Matching.                                                               *)

Matched(heard, prints) ==
    FoldLeft(LAMBDA acc, word : MatchStep(acc, word, prints), [cursor |-> 0, boxes |-> <<>>], heard)

MatchState(prints) == [cursor : 0..Len(prints), boxes : Seq(0..Len(prints))]

(* The printed words that a heard word may be matched with.                *)
Window(cursor, heard, prints) ==
    {j \in cursor + 1 .. cursor + LookAhead : j <= Len(prints) /\ Affix(heard, prints[j].name)}

(* One step of matching: nothing but punctuation, no match, or the first   *)
(* in the window.                                                          *)
StepCases(acc, heard, prints) ==
    LET c == acc.cursor
        w == Window(c, heard, prints)
        step == MatchStep(acc, heard, prints)
    IN  /\ step \in MatchState(prints) /\ c \in 0..Len(prints)
        /\ acc.boxes \in Seq(0..Len(prints))
        /\ heard = <<>> => step.cursor = c /\ step.boxes = Append(acc.boxes, 0)
        /\ heard # <<>> /\ w = {} => /\ step.cursor = IF c < Len(prints) - 1 THEN c + 1 ELSE c
                                     /\ step.boxes = Append(acc.boxes, 0)
        /\ w # {} => /\ Min(w) \in w /\ \A j \in w : Min(w) <= j
                     /\ step.cursor = IF prints[Min(w)].name = heard THEN Min(w) ELSE c
                     /\ step.boxes = Append(acc.boxes, Min(w))

LEMMA MatchStepCases ==
    ASSUME NEW prints, Len(prints) \in Nat, NEW acc \in MatchState(prints), NEW heard
    PROVE  StepCases(acc, heard, prints)
<1> DEFINE n == Len(prints)
           c == acc.cursor
           w == Window(c, heard, prints)
           step == MatchStep(acc, heard, prints)
           B == 0..n
           S == Seq(B)
           Makes(d, box) == step = [cursor |-> d, boxes |-> Append(acc.boxes, box)]
<1>0. n \in Nat /\ LookAhead \in Nat \ {0}
  BY MatchingAssumption
<1>1. c \in B /\ acc.boxes \in S /\ acc = [cursor |-> c, boxes |-> acc.boxes]
  BY DEF MatchState
<1>2. w \subseteq 1..n
  BY <1>0, <1>1 DEF Window
<1>3. heard = <<>> => w = {}
  BY DEF Window, Affix
<1>4. ASSUME heard = <<>> PROVE Makes(c, 0)
  <2>1. step = [acc EXCEPT !.boxes = Append(@, 0)]
    BY <1>4 DEF MatchStep
  <2> QED BY <1>1, <2>1
<1>5. ASSUME heard # <<>>, w = {} PROVE Makes(IF c < n - 1 THEN c + 1 ELSE c, 0)
  BY <1>5 DEF MatchStep, Window
<1>6. ASSUME w # {} PROVE Makes(IF prints[Min(w)].name = heard THEN Min(w) ELSE c, Min(w))
  BY <1>3, <1>6 DEF MatchStep, Window
<1>7. ASSUME w # {} PROVE Min(w) \in w /\ \A j \in w : Min(w) <= j
  <2>1. w \subseteq Nat
    BY <1>0, <1>2
  <2> HIDE DEF w
  <2>2. \E x \in w : \A y \in w : x <= y
    BY <1>7, <2>1, Least
  <2> QED BY <2>2 DEF Min
<1> HIDE DEF step, w
<1>8. ASSUME NEW d \in B, NEW box \in B, Makes(d, box)
      PROVE  step \in MatchState(prints) /\ step.cursor = d /\ step.boxes = Append(acc.boxes, box)
  <2>1. Append(acc.boxes, box) \in S
    <3> HIDE DEF B
    <3> QED BY <1>1, AppendProperties
  <2> QED BY <1>8, <2>1 DEF MatchState
<1>9. 0 \in B /\ (IF c < n - 1 THEN c + 1 ELSE c) \in B
  BY <1>0, <1>1
<1> HIDE DEF Makes
<1>10. CASE heard = <<>>
  BY <1>1, <1>3, <1>4, <1>8, <1>9, <1>10 DEF w, step, StepCases
<1>11. CASE heard # <<>> /\ w = {}
  <2>1. /\ step \in MatchState(prints) /\ step.boxes = Append(acc.boxes, 0)
        /\ step.cursor = IF c < n - 1 THEN c + 1 ELSE c
    BY <1>5, <1>8, <1>9, <1>11
  <2> QED BY <1>1, <1>11, <2>1 DEF w, step, StepCases
<1>12. CASE w # {}
  <2> DEFINE m == Min(w)
             d == IF prints[m].name = heard THEN m ELSE c
  <2>1. m \in w /\ (\A j \in w : m <= j) /\ Makes(d, m)
    BY <1>6, <1>7, <1>12
  <2> HIDE DEF m
  <2>2. m \in B
    BY <1>0, <1>2, <2>1
  <2>3. d \in B
    BY <1>1, <2>2
  <2>4. step \in MatchState(prints) /\ step.cursor = d /\ step.boxes = Append(acc.boxes, m)
    BY <1>8, <2>1, <2>2, <2>3
  <2> QED BY <1>1, <1>3, <1>12, <2>1, <2>4 DEF w, step, m, StepCases
<1> QED BY <1>10, <1>11, <1>12

(* What is shown of matching.                                              *)
Matching(E, prints) ==
    /\ Matched(<<>>, prints) = [cursor |-> 0, boxes |-> <<>>]
    /\ \A seq \in Seq(E) : Matched(seq, prints) \in MatchState(prints)
    /\ \A seq \in Seq(E), e \in E :
         Matched(Append(seq, e), prints) = MatchStep(Matched(seq, prints), e, prints)

(* Matching follows its step.                                              *)
LEMMA MatchingHolds ==
    ASSUME NEW X, NEW prints, Len(prints) \in Nat
    PROVE  Matching(X, prints)
<1> DEFINE S == MatchState(prints)
           E == X
           b == [cursor |-> 0, boxes |-> <<>>]
           h == [p \in S \X E |-> MatchStep(p[1], p[2], prints)]
<1>0. b \in S /\ \A a \in S, e \in E : MatchStep(a, e, prints) \in S
  <2>1. b \in S
    <3> DEFINE B == 0..Len(prints)
    <3>1. 0 \in B
      OBVIOUS
    <3> HIDE DEF B
    <3>2. <<>> \in Seq(B)
      BY EmptySeq
    <3> QED BY <3>1, <3>2 DEF MatchState, B
  <2> QED BY <2>1, MatchStepCases DEF StepCases
<1> HIDE DEF S, E
<1>1. b \in S /\ h \in StepsOn(S, E) /\ \A a \in S, e \in E : h[<<a, e>>] = MatchStep(a, e, prints)
  BY <1>0 DEF StepsOn
<1>2. ASSUME NEW seq \in Seq(E) PROVE Matched(seq, prints) = Outcome(h, b, seq)
  <2> DEFINE Table(it) == it = [s \in SUBSET DOMAIN seq |->
                                  IF s = {} THEN b ELSE MatchStep(it[s \ {Max(s)}], seq[Max(s)], prints)]
  <2>1. Matched(seq, prints) = (CHOOSE it : Table(it))[DOMAIN seq]
    BY DEF Matched, FoldLeft, MapThenFoldSet
  <2> HIDE DEF b, h
  <2>2. PICK it \in [SUBSET DOMAIN seq -> S] : FoldTable(it, h, b, seq)
    BY <1>1, FoldTableOf
  <2>3. Table(it)
    <3>1. ASSUME NEW s \in SUBSET DOMAIN seq, s # {}
          PROVE  h[<<it[s \ {Max(s)}], seq[Max(s)]>>] = MatchStep(it[s \ {Max(s)}], seq[Max(s)], prints)
      BY <1>1, <3>1, MaxOfDomain
    <3> QED BY <2>2, <3>1 DEF FoldTable
  <2> DEFINE jt == CHOOSE jt : Table(jt)
  <2>4. Table(jt)
    BY <2>3
  <2> HIDE DEF jt
  <2>5. Follows(jt, h, b, seq, S)
    <3>1. jt[{}] = b
      BY <2>4
    <3>2. ASSUME NEW s \in SUBSET DOMAIN seq, s # {}, jt[s \ {Max(s)}] \in S
          PROVE  jt[s] = h[<<jt[s \ {Max(s)}], seq[Max(s)]>>]
      <4>1. jt[s] = MatchStep(jt[s \ {Max(s)}], seq[Max(s)], prints)
        BY <2>4, <3>2
      <4>2. seq[Max(s)] \in E
        BY <3>2, MaxOfDomain
      <4> QED BY <1>1, <3>2, <4>1, <4>2
    <3> QED BY <3>1, <3>2 DEF Follows
  <2> HIDE DEF Table
  <2>6. jt[DOMAIN seq] = Outcome(h, b, seq)
    BY <1>1, <2>5, FoldTableOutcome
  <2> QED BY <2>1, <2>6 DEF jt
<1> HIDE DEF h, b
<1>3. <<>> \in Seq(E) /\ \A seq \in Seq(E), e \in E : Append(seq, e) \in Seq(E)
  BY EmptySeq, AppendProperties
<1>4. Matched(<<>>, prints) = b
  BY <1>2, <1>3, OutcomeOfNone
<1>5. ASSUME NEW seq \in Seq(E) PROVE Matched(seq, prints) \in S
  BY <1>1, <1>2, OutcomeIn
<1>6. ASSUME NEW seq \in Seq(E), NEW e \in E
      PROVE  Matched(Append(seq, e), prints) = MatchStep(Matched(seq, prints), e, prints)
  <2>1. Outcome(h, b, Append(seq, e)) = h[<<Outcome(h, b, seq), e>>]
    BY <1>1, OutcomeOfAppend
  <2> QED BY <2>1, <1>1, <1>2, <1>3, <1>5
<1> QED BY <1>4, <1>5, <1>6 DEF S, E, b, Matching

(* The names of words.                                                     *)
Names(h) == [i \in DOMAIN h |-> h[i].name]

(* A word of a print that cannot carry the cursor past it, when more words *)
(* of the print follow or not.                                             *)
HarmlessAs(name, at, more, prints) ==
    \/ name = <<>>
    \/ Affix(name, prints[at].name) /\ (more => name # prints[at].name)
    \/ ~more /\ \A j \in at + 1 .. at + LookAhead :
                    j <= Len(prints) => ~Affix(name, prints[j].name)

(* A harmless word of a print that is ahead of the cursor: the box is not  *)
(* beyond the print, and neither is the cursor, which stays behind the     *)
(* print when more follows.                                                *)
LEMMA MatchStepBehind ==
    ASSUME NEW prints, Len(prints) \in Nat, NEW acc \in MatchState(prints), NEW heard,
           NEW at \in 1..Len(prints), NEW more, HarmlessAs(heard, at, more, prints),
           acc.cursor < at
    PROVE  LET step == MatchStep(acc, heard, prints) IN
           /\ \E box \in 0..at : step.boxes = Append(acc.boxes, box)
           /\ step.cursor <= at /\ (more => step.cursor < at)
<1> DEFINE n == Len(prints)
           c == acc.cursor
           w == Window(c, heard, prints)
           step == MatchStep(acc, heard, prints)
<1>1. /\ step \in MatchState(prints) /\ c \in 0..n
      /\ heard = <<>> => step.cursor = c /\ step.boxes = Append(acc.boxes, 0)
      /\ heard # <<>> /\ w = {} => /\ step.cursor = IF c < n - 1 THEN c + 1 ELSE c
                                   /\ step.boxes = Append(acc.boxes, 0)
      /\ w # {} => /\ Min(w) \in w /\ \A j \in w : Min(w) <= j
                   /\ step.cursor = IF prints[Min(w)].name = heard THEN Min(w) ELSE c
                   /\ step.boxes = Append(acc.boxes, Min(w))
  <2>1. StepCases(acc, heard, prints)
    BY MatchStepCases
  <2> QED BY <2>1 DEF StepCases
<1>2. LookAhead \in Nat /\ LookAhead >= 1
  BY MatchingAssumption
<1>3. ASSUME NEW j \in w
      PROVE  /\ j \in 1..n /\ j >= c + 1 /\ j <= c + LookAhead
             /\ heard # <<>> /\ Affix(heard, prints[j].name)
  BY <1>1, <1>2, <1>3 DEF Window, Affix
<1>4. Affix(heard, prints[at].name) /\ at <= c + LookAhead => at \in w
  BY <1>1, <1>2 DEF Window
<1>5. CASE heard = <<>>
  BY <1>1, <1>5
<1>6. CASE heard # <<>> /\ w = {}
  <2>1. c + 1 = at => ~more
    <3>1. c + 1 = at => at <= c + LookAhead
      BY <1>1, <1>2
    <3> QED BY <1>4, <1>6, <3>1 DEF HarmlessAs
  <2> HIDE DEF step, w
  <2>2. step.cursor <= at /\ (more => step.cursor < at)
    BY <1>1, <1>6, <2>1
  <2> QED BY <1>1, <1>6, <2>2 DEF step
<1>7. CASE w # {}
  <2> DEFINE m == Min(w)
  <2>1. m \in w /\ (\A j \in w : m <= j) /\ step.boxes = Append(acc.boxes, m)
        /\ step.cursor = IF prints[m].name = heard THEN m ELSE c
    BY <1>1, <1>7
  <2> HIDE DEF m
  <2>2. m \in 1..n /\ m >= c + 1 /\ m <= c + LookAhead /\ heard # <<>> /\ Affix(heard, prints[m].name)
    BY <1>3, <2>1
  <2> HIDE DEF step, w
  <2>3. m <= at /\ (m = at /\ prints[m].name = heard => ~more)
    <3>1. CASE Affix(heard, prints[at].name) /\ (more => heard # prints[at].name)
      <4>1. CASE at <= c + LookAhead
        <5>1. m <= at
          BY <1>4, <2>1, <3>1, <4>1
        <5> QED BY <3>1, <5>1
      <4>2. CASE ~(at <= c + LookAhead)
        BY <1>1, <1>2, <2>2, <4>2
      <4> QED BY <4>1, <4>2
    <3>2. CASE ~more /\ \A j \in at + 1 .. at + LookAhead : j <= n => ~Affix(heard, prints[j].name)
      <4>1. ASSUME m > at PROVE FALSE
        <5>1. m \in at + 1 .. at + LookAhead /\ m <= n
          BY <1>1, <1>2, <2>2, <4>1
        <5> QED BY <2>2, <3>2, <5>1
      <4> QED BY <2>2, <3>2, <4>1
    <3> QED BY <2>2, <3>1, <3>2 DEF HarmlessAs
  <2>4. step.cursor <= at /\ (more => step.cursor < at)
    BY <1>1, <2>1, <2>2, <2>3
  <2>5. m \in 0..at
    BY <2>2, <2>3
  <2> QED BY <2>1, <2>4, <2>5 DEF step
<1> QED BY <1>5, <1>6, <1>7

(* A word that is the next print is matched with it.                       *)
LEMMA MatchStepExact ==
    ASSUME NEW prints, Len(prints) \in Nat, NEW acc \in MatchState(prints),
           NEW heard, Len(heard) \in Nat, heard # <<>>,
           NEW at \in 1..Len(prints), prints[at].name = heard, acc.cursor = at - 1
    PROVE  LET step == MatchStep(acc, heard, prints) IN
           step.cursor = at /\ step.boxes = Append(acc.boxes, at)
<1> DEFINE n == Len(prints)
           c == acc.cursor
           w == Window(c, heard, prints)
           step == MatchStep(acc, heard, prints)
<1>1. w # {} => /\ Min(w) \in w /\ \A j \in w : Min(w) <= j
                /\ step.cursor = IF prints[Min(w)].name = heard THEN Min(w) ELSE c
                /\ step.boxes = Append(acc.boxes, Min(w))
  <2>1. StepCases(acc, heard, prints)
    BY MatchStepCases
  <2> QED BY <2>1 DEF StepCases
<1>2. LookAhead \in Nat /\ LookAhead >= 1 /\ c = at - 1
  BY MatchingAssumption
<1>3. Affix(heard, prints[at].name)
  BY DEF Affix, IsPrefix
<1>4. at \in w /\ \A j \in w : j >= at
  BY <1>2, <1>3 DEF Window
<1>5. w \subseteq 1..n
  BY <1>2 DEF Window
<1> HIDE DEF step, w
<1>6. Min(w) = at
  <2> DEFINE m == Min(w)
  <2>1. m \in w /\ m <= at
    BY <1>1, <1>4
  <2> HIDE DEF m
  <2>2. m \in 1..n /\ m >= at
    BY <1>4, <1>5, <2>1
  <2>3. m = at
    BY <2>1, <2>2
  <2> QED BY <2>3 DEF m
<1> QED BY <1>1, <1>4, <1>6 DEF step

(* Words of n printed words, in the order in which they are printed.       *)
InOrder(h, n) ==
    /\ \A i \in 1..Len(h) : h[i].at \in 1..n
    /\ \A i, j \in 1..Len(h) : i < j => h[i].at <= h[j].at

(* Each word is the next print.                                            *)
Exactly(h, prints) ==
    /\ Len(h) <= Len(prints)
    /\ \A i \in 1..Len(h) : /\ h[i].at = i /\ prints[i].name = h[i].name
                            /\ h[i].name # <<>> /\ Len(h[i].name) \in Nat

(* The words up to one of them are harmless.                               *)
More(h, i) == \E j \in i + 1 .. Len(h) : h[j].at = h[i].at
HarmlessUpTo(h, n, prints) ==
    \A i \in 1..n : HarmlessAs(h[i].name, h[i].at, More(h, i), prints)

BeginsWith(h, u) == Len(u) <= Len(h) /\ \A i \in 1..Len(u) : u[i] = h[i]

(* Matching the first words of a text is behind the words it was given,    *)
(* and before the next one, as long as they were harmless.                 *)
Behind(u, h, m, prints) ==
    /\ Len(m.boxes) = Len(u) /\ m \in MatchState(prints)
    /\ \A i \in 1..Len(u) : HarmlessUpTo(h, i, prints) => m.boxes[i] <= h[i].at
    /\ Len(u) < Len(h) /\ HarmlessUpTo(h, Len(u), prints) => m.cursor < h[Len(u) + 1].at

OnTime(h, m) ==
    /\ m.cursor = Len(h) /\ Len(m.boxes) = Len(h)
    /\ \A i \in 1..Len(h) : m.boxes[i] = i

(* One more element.                                                       *)
LEMMA AppendedOf ==
    ASSUME NEW X, NEW u \in Seq(X), NEW w \in X
    PROVE  LET a == Append(u, w) IN
           /\ a \in Seq(X) /\ a # <<>> /\ Len(a) = Len(u) + 1 /\ Len(u) \in Nat
           /\ a[Len(u) + 1] = w /\ \A i \in 1..Len(u) : a[i] = u[i]
BY AppendProperties, LenProperties

(* The names of no words, of words, and of one word more.                  *)
LEMMA NamesOf ==
    ASSUME NEW X, NEW Y, \A x \in X : x.name \in Y
    PROVE  /\ Names(<<>>) = <<>>
           /\ \A h \in Seq(X) : Names(h) \in Seq(Y)
           /\ \A h \in Seq(X), w \in X : Names(Append(h, w)) = Append(Names(h), w.name)
<1> DEFINE f == [x \in X |-> x.name]
<1>1. f \in MapsTo(X, Y) /\ \A x \in X : f[x] = x.name
  BY DEF MapsTo
<1> HIDE DEF f
<1>2. \A h \in Seq(X) : Names(h) = Map(f, h)
  <2> SUFFICES ASSUME NEW h \in Seq(X) PROVE Names(h) = Map(f, h)
    OBVIOUS
  <2>1. \A i \in DOMAIN h : h[i] \in X
    BY LenProperties, ElementOfSeq
  <2> QED BY <1>1, <2>1 DEF Names, Map
<1>3. Names(<<>>) = <<>>
  BY DEF Names
<1>4. ASSUME NEW h \in Seq(X) PROVE Names(h) \in Seq(Y)
  BY <1>1, <1>2, MapOf
<1>5. ASSUME NEW h \in Seq(X), NEW w \in X PROVE Names(Append(h, w)) = Append(Names(h), w.name)
  <2> DEFINE all == Append(h, w)
  <2>1. all \in Seq(X)
    BY AppendProperties
  <2>2. Map(f, all) = Append(Map(f, h), f[w])
    BY <1>1, MapAppend
  <2> HIDE DEF all
  <2>3. Names(all) = Map(f, all) /\ Names(h) = Map(f, h) /\ f[w] = w.name
    BY <1>1, <1>2, <2>1
  <2> QED BY <2>2, <2>3 DEF all
<1> QED BY <1>3, <1>4, <1>5

(* Matching is never ahead of harmless words.                              *)
LEMMA MatchedBehind ==
    ASSUME NEW prints, Len(prints) \in Nat, NEW X, NEW h \in Seq(X), InOrder(h, Len(prints))
    PROVE  Behind(h, h, Matched(Names(h), prints), prints)
<1> DEFINE Y == {x.name : x \in X}
           M(u) == Matched(Names(u), prints)
           P == {u \in Seq(X) : BeginsWith(h, u) => Behind(u, h, M(u), prints)}
           l == Len(h)
<1>0. \A x \in X : x.name \in Y
  OBVIOUS
<1> HIDE DEF Y
<1>a. Matching(Y, prints)
  BY MatchingHolds
<1>l. l \in Nat
  BY LenProperties
<1>1. <<>> \in P
  <2>1. M(<<>>) = [cursor |-> 0, boxes |-> <<>>]
    BY <1>0, <1>a, NamesOf DEF Matching
  <2>2. M(<<>>) \in MatchState(prints)
    BY <1>0, <1>a, NamesOf, EmptySeq DEF Matching
  <2>3. <<>> \in Seq(X) /\ Len(<<>>) = 0
    BY EmptySeq
  <2>4. 0 < l => 0 < h[0 + 1].at
    BY <1>l DEF InOrder
  <2> QED BY <2>1, <2>2, <2>3, <2>4 DEF Behind
<1>2. ASSUME NEW u \in Seq(X), NEW w \in X, u \in P PROVE Append(u, w) \in P
  <2> DEFINE a == Append(u, w)
             acc == M(u)
             heard == w.name
             at == w.at
             n == Len(u)
             more == More(h, n + 1)
             step == MatchStep(acc, heard, prints)
             us == Names(u)
  <2>1. a \in Seq(X) /\ Len(a) = n + 1 /\ n \in Nat /\ a[n + 1] = w
        /\ \A i \in 1..n : a[i] = u[i]
    BY AppendedOf
  <2>2. heard \in Y /\ us \in Seq(Y) /\ Names(a) = Append(us, heard)
    BY <1>0, NamesOf
  <2>3. M(a) = step /\ acc \in MatchState(prints)
    <3> HIDE DEF us, heard
    <3>1. Matched(Append(us, heard), prints) = MatchStep(Matched(us, prints), heard, prints)
          /\ Matched(us, prints) \in MatchState(prints)
      BY <1>a, <2>2 DEF Matching
    <3> QED BY <2>2, <3>1 DEF us
  <2> SUFFICES ASSUME BeginsWith(h, a) PROVE Behind(a, h, step, prints)
    <3> HIDE DEF a, step
    <3>1. a \in P
      BY <2>1, <2>3
    <3> QED BY <3>1 DEF a
  <2> HIDE DEF a, acc, step, l
  <2>4. n + 1 <= l /\ h[n + 1] = w /\ BeginsWith(h, u)
    <3>1. n + 1 <= l /\ \A i \in 1..n + 1 : a[i] = h[i]
      BY <2>1 DEF BeginsWith, l
    <3>2. n + 1 \in 1..n + 1 /\ \A i \in 1..n : i \in 1..n + 1
      BY <2>1
    <3>3. h[n + 1] = w /\ \A i \in 1..n : u[i] = h[i]
      BY <2>1, <3>1, <3>2
    <3>4. n <= l
      BY <1>l, <2>1, <3>1
    <3> QED BY <3>1, <3>3, <3>4 DEF BeginsWith, l
  <2>5. Behind(u, h, acc, prints)
    BY <1>2, <2>4 DEF acc
  <2> HIDE DEF heard, at, n, more
  <2>6. step \in MatchState(prints) /\ acc.boxes \in Seq(0..Len(prints))
        /\ \E box \in 0..Len(prints) : step.boxes = Append(acc.boxes, box)
    <3>1. step \in MatchState(prints) /\ acc.boxes \in Seq(0..Len(prints))
          /\ \E box \in {0} \cup Window(acc.cursor, heard, prints) : step.boxes = Append(acc.boxes, box)
      <4>1. StepCases(acc, heard, prints)
        BY <2>3, MatchStepCases
      <4> QED BY <4>1 DEF StepCases, step
    <3>2. {0} \cup Window(acc.cursor, heard, prints) \subseteq 0..Len(prints)
      BY <2>3, MatchingAssumption DEF Window, MatchState
    <3> HIDE DEF step
    <3> QED BY <3>1, <3>2
  <2>7. PICK box \in 0..Len(prints) : step.boxes = Append(acc.boxes, box)
    BY <2>6
  <2>8. /\ Len(step.boxes) = n + 1 /\ step.boxes[n + 1] = box
        /\ \A i \in 1..n : step.boxes[i] = acc.boxes[i]
    <3> DEFINE B == 0..Len(prints)
               bs == acc.boxes
    <3>1. box \in B /\ bs \in Seq(B)
      BY <2>6
    <3>2. Len(bs) = n
      BY <2>5 DEF Behind, n
    <3> HIDE DEF B, bs
    <3> QED BY <2>7, <3>1, <3>2, AppendProperties DEF bs
  <2>9. at \in 1..Len(prints) /\ at = h[n + 1].at /\ heard = h[n + 1].name
    <3>1. n + 1 \in 1..l
      BY <1>l, <2>1, <2>4
    <3> QED BY <2>4, <3>1 DEF InOrder, l, at, heard
  <2>10. ASSUME HarmlessUpTo(h, n + 1, prints)
         PROVE  /\ box <= at /\ step.cursor <= at /\ (more => step.cursor < at)
                /\ n + 1 < l => step.cursor < h[n + 2].at
    <3>1. HarmlessAs(heard, at, more, prints) /\ HarmlessUpTo(h, n, prints)
      <4>1. n + 1 \in 1..n + 1 /\ \A i \in 1..n : i \in 1..n + 1
        BY <2>1
      <4> QED BY <2>9, <2>10, <4>1 DEF HarmlessUpTo, more
    <3>2. acc.cursor < at
      <4>1. n < l
        BY <1>l, <2>1, <2>4
      <4> QED BY <2>5, <2>9, <3>1, <4>1 DEF Behind, n, l
    <3>3. /\ \E b \in 0..at : step.boxes = Append(acc.boxes, b)
          /\ step.cursor <= at /\ (more => step.cursor < at)
      BY <2>3, <2>9, <3>1, <3>2, MatchStepBehind DEF step
    <3>4. box <= at
      <4>1. PICK b \in 0..at : step.boxes = Append(acc.boxes, b)
        BY <3>3
      <4> DEFINE B == 0..Len(prints)
                 bs == acc.boxes
      <4>2. b \in B /\ bs \in Seq(B) /\ Len(bs) = n
        BY <2>5, <2>6, <2>9 DEF Behind, n
      <4> HIDE DEF B, bs
      <4>3. Append(bs, b)[n + 1] = b
        BY <4>2, AppendProperties
      <4>4. b = box
        BY <2>8, <4>1, <4>3 DEF bs
      <4> QED BY <2>9, <4>4
    <3>5. ASSUME n + 1 < l PROVE step.cursor < h[n + 2].at
      <4>1. n + 1 \in 1..l /\ n + 2 \in 1..l /\ n + 1 < n + 2 /\ n + 2 \in (n + 1) + 1 .. l
        BY <1>l, <2>1, <3>5
      <4>2. at <= h[n + 2].at /\ h[n + 2].at \in 1..Len(prints)
        BY <2>9, <4>1 DEF InOrder, l
      <4>3. h[n + 2].at = at => more
        BY <2>9, <4>1 DEF More, more, l
      <4>4. step.cursor \in 0..Len(prints)
        BY <2>6 DEF MatchState
      <4> QED BY <2>9, <3>3, <4>2, <4>3, <4>4
    <3> QED BY <3>3, <3>4, <3>5
  <2>11. ASSUME NEW i \in 1..n + 1, HarmlessUpTo(h, i, prints) PROVE step.boxes[i] <= h[i].at
    <3>1. CASE i = n + 1
      BY <2>8, <2>9, <2>10, <2>11, <3>1
    <3>2. CASE i # n + 1
      <4>1. i \in 1..n
        BY <2>1, <3>2
      <4> QED BY <2>5, <2>8, <2>11, <4>1 DEF Behind, n
    <3> QED BY <3>1, <3>2
  <2>12. (n + 1) + 1 = n + 2
    BY <2>1
  <2> QED BY <2>1, <2>6, <2>8, <2>10, <2>11, <2>12 DEF Behind, l
<1> HIDE DEF P
<1>3. h \in P
  <2>1. \A u \in Seq(X) : u \in P
    BY <1>1, <1>2, SequenceInduction
  <2> QED BY <2>1
<1>4. BeginsWith(h, h)
  BY <1>l DEF BeginsWith
<1> QED BY <1>3, <1>4 DEF P

(* Matching is on time when every word is the next print.                  *)
LEMMA MatchedOnTime ==
    ASSUME NEW prints, Len(prints) \in Nat, NEW X, NEW h \in Seq(X), Exactly(h, prints)
    PROVE  OnTime(h, Matched(Names(h), prints))
<1> DEFINE Y == {x.name : x \in X}
           M(u) == Matched(Names(u), prints)
           P == {u \in Seq(X) : Exactly(u, prints) => OnTime(u, M(u))}
<1>0. \A x \in X : x.name \in Y
  OBVIOUS
<1> HIDE DEF Y
<1>a. Matching(Y, prints)
  BY MatchingHolds
<1>1. <<>> \in P
  <2>1. M(<<>>) = [cursor |-> 0, boxes |-> <<>>]
    BY <1>0, <1>a, NamesOf DEF Matching
  <2>2. <<>> \in Seq(X) /\ Len(<<>>) = 0
    BY EmptySeq
  <2> QED BY <2>1, <2>2 DEF OnTime
<1>2. ASSUME NEW u \in Seq(X), NEW w \in X, u \in P PROVE Append(u, w) \in P
  <2> DEFINE a == Append(u, w)
             acc == M(u)
             heard == w.name
             n == Len(u)
             at == n + 1
             step == MatchStep(acc, heard, prints)
             us == Names(u)
  <2>1. a \in Seq(X) /\ Len(a) = n + 1 /\ n \in Nat /\ a[n + 1] = w
        /\ \A i \in 1..n : a[i] = u[i]
    BY AppendedOf
  <2>2. heard \in Y /\ us \in Seq(Y) /\ Names(a) = Append(us, heard)
    BY <1>0, NamesOf
  <2>3. M(a) = step /\ acc \in MatchState(prints)
    <3> HIDE DEF us, heard
    <3>1. Matched(Append(us, heard), prints) = MatchStep(Matched(us, prints), heard, prints)
          /\ Matched(us, prints) \in MatchState(prints)
      BY <1>a, <2>2 DEF Matching
    <3> QED BY <2>2, <3>1 DEF us
  <2> SUFFICES ASSUME Exactly(a, prints) PROVE OnTime(a, step)
    <3> HIDE DEF a, step
    <3>1. a \in P
      BY <2>1, <2>3
    <3> QED BY <3>1 DEF a
  <2> HIDE DEF a, acc, heard
  <2>4. /\ Exactly(u, prints) /\ at \in 1..Len(prints)
        /\ prints[at].name = heard /\ heard # <<>> /\ Len(heard) \in Nat
    BY <2>1 DEF Exactly, heard
  <2>5. OnTime(u, acc)
    BY <1>2, <2>4 DEF acc
  <2>6. acc.cursor = at - 1 /\ Len(acc.boxes) = n
    BY <2>1, <2>5 DEF OnTime
  <2> HIDE DEF at
  <2>7. step.cursor = at /\ step.boxes = Append(acc.boxes, at)
    BY <2>3, <2>4, <2>6, MatchStepExact
  <2>8. acc.boxes \in Seq(0..Len(prints))
    BY <2>3, MatchStepCases DEF StepCases
  <2> HIDE DEF step
  <2>9. /\ Len(step.boxes) = n + 1 /\ step.boxes[n + 1] = at
        /\ \A i \in 1..n : step.boxes[i] = acc.boxes[i]
    <3> DEFINE B == 0..Len(prints)
               bs == acc.boxes
    <3>1. at \in B /\ bs \in Seq(B)
      BY <2>4, <2>8
    <3>2. Len(bs) = n
      BY <2>6
    <3> HIDE DEF B, bs
    <3> QED BY <2>7, <3>1, <3>2, AppendProperties DEF bs
  <2>10. ASSUME NEW i \in 1..n + 1 PROVE step.boxes[i] = i
    <3>1. CASE i = n + 1
      BY <2>9, <3>1 DEF at
    <3>2. CASE i # n + 1
      <4>1. i \in 1..n
        BY <2>1, <3>2
      <4> QED BY <2>5, <2>9, <4>1 DEF OnTime, n
    <3> QED BY <3>1, <3>2
  <2> QED BY <2>1, <2>7, <2>9, <2>10 DEF OnTime, at
<1> HIDE DEF P
<1>3. \A u \in Seq(X) : u \in P
  BY <1>1, <1>2, SequenceInduction
<1> QED BY <1>3 DEF P

-----------------------------------------------------------------------------
(* What is heard of what is spoken.                                        *)

(* For some of the words, each once or more, in their order.               *)
Embeds(h, s, f) ==
    /\ \A i \in 1..Len(h) : f[i] \in 1..Len(s)
    /\ \A i, j \in 1..Len(h) : i < j => f[i] <= f[j]

(* Words were heard for some of the spoken words, and have their places.   *)
Within(h, s) ==
    \E f : Embeds(h, s, f) /\ \A i \in 1..Len(h) : h[i].at = s[f[i]].at

(* Texts that are within texts, one after the other.                       *)
LEMMA WithinConcat ==
    ASSUME NEW X, NEW Y, NEW g \in Seq(X), NEW h \in Seq(X),
           NEW s \in Seq(Y), NEW t \in Seq(Y), Within(g, s), Within(h, t)
    PROVE  Within(g \o h, s \o t)
<1> DEFINE gh == g \o h
           st == s \o t
           n == Len(g)
           m == Len(s)
           k == Len(h)
           l == Len(t)
<1>1. /\ n \in Nat /\ m \in Nat /\ k \in Nat /\ l \in Nat
      /\ Len(gh) = n + k /\ Len(st) = m + l
      /\ \A i \in 1..n + k : gh[i] = IF i <= n THEN g[i] ELSE h[i - n]
      /\ \A i \in 1..m + l : st[i] = IF i <= m THEN s[i] ELSE t[i - m]
  BY ConcatProperties, LenProperties
<1>2. PICK a : Embeds(g, s, a) /\ \A i \in 1..n : g[i].at = s[a[i]].at
  BY DEF Within
<1>3. PICK b : Embeds(h, t, b) /\ \A i \in 1..k : h[i].at = t[b[i]].at
  BY DEF Within
<1> DEFINE f == [i \in 1..n + k |-> IF i <= n THEN a[i] ELSE m + b[i - n]]
<1>4. ASSUME NEW i \in 1..n PROVE a[i] \in 1..m
  BY <1>2 DEF Embeds
<1>5. ASSUME NEW i \in 1..k PROVE b[i] \in 1..l
  BY <1>3 DEF Embeds
<1> HIDE DEF gh, st
<1>6. ASSUME NEW i \in 1..n + k
      PROVE  f[i] \in 1..m + l /\ gh[i].at = st[f[i]].at
  <2>1. CASE i <= n
    <3>1. i \in 1..n /\ f[i] = a[i]
      BY <1>1, <2>1
    <3>2. a[i] \in 1..m
      BY <1>4, <3>1
    <3>3. a[i] \in 1..m + l /\ st[a[i]] = s[a[i]]
      BY <1>1, <3>2
    <3>4. g[i].at = s[a[i]].at
      BY <1>2, <3>1
    <3> QED BY <1>1, <2>1, <3>1, <3>3, <3>4
  <2>2. CASE ~(i <= n)
    <3> DEFINE j == i - n
    <3>1. j \in 1..k /\ f[i] = m + b[j]
      BY <1>1, <2>2
    <3>2. b[j] \in 1..l
      BY <1>5, <3>1
    <3>3. f[i] \in 1..m + l /\ ~(f[i] <= m) /\ f[i] - m = b[j]
      BY <1>1, <3>1, <3>2
    <3>4. st[f[i]] = t[b[j]]
      BY <1>1, <3>3
    <3>5. gh[i] = h[j]
      BY <1>1, <2>2
    <3>6. h[j].at = t[b[j]].at
      BY <1>3, <3>1
    <3> QED BY <3>3, <3>4, <3>5, <3>6
  <2> QED BY <2>1, <2>2
<1>7. ASSUME NEW i \in 1..n + k, NEW j \in 1..n + k, i < j PROVE f[i] <= f[j]
  <2>1. CASE j <= n
    <3>1. i \in 1..n /\ j \in 1..n /\ f[i] = a[i] /\ f[j] = a[j]
      BY <1>1, <1>7, <2>1
    <3> QED BY <1>2, <1>7, <3>1 DEF Embeds
  <2>2. CASE ~(j <= n) /\ i <= n
    <3>1. i \in 1..n /\ j - n \in 1..k /\ f[i] = a[i] /\ f[j] = m + b[j - n]
      BY <1>1, <1>7, <2>2
    <3>2. a[i] \in 1..m /\ b[j - n] \in 1..l
      BY <1>4, <1>5, <3>1
    <3> HIDE DEF f
    <3> QED BY <1>1, <3>1, <3>2
  <2>3. CASE ~(j <= n) /\ ~(i <= n)
    <3>1. i - n \in 1..k /\ j - n \in 1..k /\ f[i] = m + b[i - n] /\ f[j] = m + b[j - n]
          /\ i - n < j - n
      BY <1>1, <1>7, <2>3
    <3>2. b[i - n] \in 1..l /\ b[j - n] \in 1..l
      BY <1>5, <3>1
    <3>3. b[i - n] <= b[j - n]
      BY <1>3, <3>1 DEF Embeds
    <3> QED BY <1>1, <3>1, <3>2, <3>3
  <2> QED BY <2>1, <2>2, <2>3
<1> HIDE DEF f, n, m, k, l
<1>8. Embeds(gh, st, f)
  BY <1>1, <1>6, <1>7 DEF Embeds
<1>9. Within(gh, st)
  BY <1>1, <1>6, <1>8 DEF Within
<1> QED BY <1>9 DEF gh, st

(* A text is within itself.                                                *)
LEMMA WithinSame ==
    ASSUME NEW X, NEW s \in Seq(X)
    PROVE  Within(s, s)
<1> DEFINE f == [i \in 1..Len(s) |-> i]
<1>1. Len(s) \in Nat
  BY LenProperties
<1>2. Embeds(s, s, f) /\ \A i \in 1..Len(s) : s[i].at = s[f[i]].at
  BY <1>1 DEF Embeds
<1> HIDE DEF f
<1> QED BY <1>2 DEF Within

PiecesWithin(hh, ss) ==
    Len(hh) = Len(ss) /\ \A k \in 1..Len(ss) : Within(hh[k], ss[k])

(* Pieces that are within pieces.                                          *)
LEMMA WithinPieces ==
    ASSUME NEW X, NEW Y, NEW hh \in Seq(Seq(X)), NEW ss \in Seq(Seq(Y)),
           PiecesWithin(hh, ss)
    PROVE  Within(FlattenSeq(hh), FlattenSeq(ss))
<1> DEFINE H == Seq(X)
           S == Seq(Y)
           P == {uu \in Seq(H) : \A vv \in Seq(S) :
                    PiecesWithin(uu, vv) => Within(FlattenSeq(uu), FlattenSeq(vv))}
<1>1. <<>> \in P
  <2>1. ASSUME NEW vv \in Seq(S), Len(vv) = 0 PROVE vv = <<>>
    BY <2>1, EmptySeq
  <2>2. <<>> \in Seq(H) /\ Len(<<>>) = 0 /\ FlattenSeq(<<>>) = <<>>
    BY EmptySeq, FlattenAppend
  <2>3. Within(<<>>, <<>>)
    BY WithinSame, EmptySeq
  <2> QED BY <2>1, <2>2, <2>3 DEF PiecesWithin
<1>2. ASSUME NEW uu \in Seq(H), NEW h \in H, uu \in P PROVE Append(uu, h) \in P
  <2> DEFINE xx == Append(uu, h)
  <2>1. xx \in Seq(H) /\ Len(xx) = Len(uu) + 1 /\ Len(uu) \in Nat
        /\ (\A k \in 1..Len(uu) : xx[k] = uu[k]) /\ xx[Len(uu) + 1] = h
    <3> HIDE DEF H
    <3> QED BY AppendedOf
  <2>2. FlattenSeq(xx) = FlattenSeq(uu) \o h /\ FlattenSeq(uu) \in Seq(X)
    BY FlattenAppend
  <2> SUFFICES ASSUME NEW vv \in Seq(S), PiecesWithin(xx, vv)
               PROVE  Within(FlattenSeq(xx), FlattenSeq(vv))
    <3> HIDE DEF xx, H, S
    <3>1. xx \in P
      BY <2>1
    <3> QED BY <3>1 DEF xx
  <2> HIDE DEF xx
  <2>3. Len(xx) = Len(vv) /\ \A k \in 1..Len(vv) : Within(xx[k], vv[k])
    BY DEF PiecesWithin
  <2>4. vv # <<>>
    BY <2>1, <2>3, EmptySeq
  <2>5. PICK ww \in Seq(S), t \in S : vv = Append(ww, t)
    <3> HIDE DEF S
    <3> QED BY <2>4, SequenceEmptyOrAppend
  <2>6. /\ Len(vv) = Len(ww) + 1 /\ Len(ww) \in Nat
        /\ (\A k \in 1..Len(ww) : vv[k] = ww[k]) /\ vv[Len(ww) + 1] = t
    <3> HIDE DEF S
    <3> QED BY <2>5, AppendedOf
  <2>7. FlattenSeq(vv) = FlattenSeq(ww) \o t /\ FlattenSeq(ww) \in Seq(Y)
    BY <2>5, FlattenAppend
  <2>8. Len(uu) = Len(ww)
    BY <2>1, <2>3, <2>6
  <2>9. Within(h, t)
    <3>1. Len(ww) + 1 \in 1..Len(vv)
      BY <2>6
    <3> QED BY <2>1, <2>3, <2>6, <2>8, <3>1
  <2>10. PiecesWithin(uu, ww)
    <3>1. ASSUME NEW k \in 1..Len(ww) PROVE Within(uu[k], ww[k])
      <4>1. k \in 1..Len(vv)
        BY <2>6
      <4> QED BY <2>1, <2>3, <2>6, <2>8, <4>1
    <3> QED BY <2>8, <3>1 DEF PiecesWithin
  <2> DEFINE x == FlattenSeq(uu)
             y == FlattenSeq(ww)
  <2>11. Within(x, y)
    BY <1>2, <2>10
  <2>12. x \in Seq(X) /\ y \in Seq(Y) /\ h \in Seq(X) /\ t \in Seq(Y)
    BY <2>2, <2>7
  <2> HIDE DEF x, y, H, S, P
  <2>13. Within(x \o h, y \o t)
    BY <2>9, <2>11, <2>12, WithinConcat
  <2> QED BY <2>2, <2>7, <2>13 DEF x, y
<1> HIDE DEF P, H, S
<1>3. \A uu \in Seq(H) : uu \in P
  BY <1>1, <1>2, SequenceInduction
<1>4. hh \in P /\ ss \in Seq(S)
  BY <1>3 DEF H, S
<1> QED BY <1>4 DEF P

(* What is heard of words that are in order is in order.                   *)
LEMMA OrderWithin ==
    ASSUME NEW n, n \in Nat, NEW h, NEW s, Len(h) \in Nat, Len(s) \in Nat,
           Within(h, s), InOrder(s, n)
    PROVE  InOrder(h, n)
<1>1. PICK f : Embeds(h, s, f) /\ \A i \in 1..Len(h) : h[i].at = s[f[i]].at
  BY DEF Within
<1>2. ASSUME NEW i \in 1..Len(h)
      PROVE  f[i] \in 1..Len(s) /\ h[i].at = s[f[i]].at /\ h[i].at \in 1..n
  BY <1>1 DEF Embeds, InOrder
<1>3. ASSUME NEW i \in 1..Len(h), NEW j \in 1..Len(h), i < j PROVE h[i].at <= h[j].at
  <2>1. f[i] \in 1..Len(s) /\ f[j] \in 1..Len(s) /\ f[i] <= f[j]
    BY <1>1, <1>3 DEF Embeds
  <2>2. CASE f[i] = f[j]
    <3>1. h[i].at = h[j].at /\ h[j].at \in 1..n
      BY <1>2, <2>2
    <3> QED BY <3>1
  <2>3. CASE f[i] < f[j]
    <3>1. s[f[i]].at <= s[f[j]].at
      BY <2>1, <2>3 DEF InOrder
    <3> QED BY <1>2, <3>1
  <2> QED BY <2>1, <2>2, <2>3
<1> QED BY <1>2, <1>3 DEF InOrder

(* What reads the same.                                                    *)
LEMMA ReadsAlike ==
    ASSUME NEW prints, NEW X, NEW Y, NEW a \in Seq(X), NEW b \in Seq(Y),
           NameAndPlace(a) = NameAndPlace(b)
    PROVE  /\ Len(a) = Len(b)
           /\ InOrder(b, Len(prints)) => InOrder(a, Len(prints))
           /\ Exactly(b, prints) => Exactly(a, prints)
<1>1. DOMAIN a = 1..Len(a) /\ DOMAIN b = 1..Len(b) /\ Len(a) \in Nat /\ Len(b) \in Nat
  BY LenProperties
<1>2. /\ NameAndPlace(a) = [i \in 1..Len(a) |-> <<a[i].name, a[i].at>>]
      /\ NameAndPlace(b) = [i \in 1..Len(b) |-> <<b[i].name, b[i].at>>]
  BY <1>1 DEF NameAndPlace
<1>3. 1..Len(a) = 1..Len(b)
  BY <1>2
<1>4. Len(a) = Len(b)
  <2> DEFINE n == Len(a)
             m == Len(b)
  <2>1. n \in Nat /\ m \in Nat /\ 1..n = 1..m
    BY <1>1, <1>3
  <2> HIDE DEF n, m
  <2>2. (n > 0 => n \in 1..m) /\ (m > 0 => m \in 1..n)
    BY <2>1
  <2>3. n = m
    BY <2>1, <2>2
  <2> QED BY <2>3 DEF n, m
<1>5. ASSUME NEW i \in 1..Len(a) PROVE a[i].name = b[i].name /\ a[i].at = b[i].at
  <2>1. NameAndPlace(a)[i] = <<a[i].name, a[i].at>> /\ NameAndPlace(b)[i] = <<b[i].name, b[i].at>>
    BY <1>2, <1>3
  <2> QED BY <2>1
<1> QED BY <1>4, <1>5 DEF InOrder, Exactly

(* What is spoken of two texts, one after the other.                       *)
LEMMA SpokenConcat ==
    ASSUME NEW N, NEW A, NEW s \in Seq(AnyWord(N, A)), NEW t \in Seq(AnyWord(N, A))
    PROVE  Spoken(s \o t) = Spoken(s) \o Spoken(t)
<1> DEFINE V == AnyWord(N, A)
           P == {u \in Seq(V) : Spoken(s \o u) = Spoken(s) \o Spoken(u)}
<1>0. \A u \in Seq(V) : Spoken(u) \in Seq(V)
  BY SpokenOf
<1>1. <<>> \in P
  BY <1>0, EmptySeq, ConcatEmptySeq, SpokenOf
<1>2. ASSUME NEW u \in Seq(V), NEW w \in V, u \in P PROVE Append(u, w) \in P
  <2> DEFINE x == s \o u
             a == Append(u, w)
  <2>1. s \o a = Append(x, w) /\ x \in Seq(V) /\ a \in Seq(V)
    BY ConcatAppend, ConcatProperties, AppendProperties
  <2>2. Spoken(x) = Spoken(s) \o Spoken(u)
    BY <1>2
  <2> HIDE DEF x
  <2>3. Spoken(Append(x, w)) = IF w.at = 0 THEN Spoken(x) ELSE Append(Spoken(x), w)
    BY <2>1, SpokenOf DEF Uttered
  <2>4. Spoken(a) = IF w.at = 0 THEN Spoken(u) ELSE Append(Spoken(u), w)
    BY SpokenOf DEF Uttered
  <2>5. Spoken(s) \o Append(Spoken(u), w) = Append(Spoken(s) \o Spoken(u), w)
    BY <1>0, ConcatAppend
  <2>6. Spoken(s \o a) = Spoken(s) \o Spoken(a)
    BY <2>1, <2>2, <2>3, <2>4, <2>5
  <2> HIDE DEF a
  <2>7. a \in P
    BY <2>1, <2>6
  <2> QED BY <2>7 DEF a
<1> HIDE DEF P
<1>3. \A u \in Seq(V) : u \in P
  BY <1>1, <1>2, SequenceInduction
<1> QED BY <1>3 DEF P

(* What is spoken of each text.                                            *)
SpokenOfEach(tt) == [k \in DOMAIN tt |-> Spoken(tt[k])]

(* What is spoken of pieces is what is spoken of all.                      *)
LEMMA SpokenPieces ==
    ASSUME NEW N, NEW A, NEW tt \in Seq(Seq(AnyWord(N, A)))
    PROVE  /\ SpokenOfEach(tt) \in Seq(Seq(AnyWord(N, A)))
           /\ Spoken(FlattenSeq(tt)) = FlattenSeq(SpokenOfEach(tt))
<1> DEFINE V == Seq(AnyWord(N, A))
           f == [t \in V |-> Spoken(t)]
           P == {uu \in Seq(V) : Spoken(FlattenSeq(uu)) = FlattenSeq(Map(f, uu))}
<1>1. f \in MapsTo(V, V) /\ \A t \in V : f[t] = Spoken(t)
  BY SpokenOf DEF MapsTo
<1> HIDE DEF f
<1>2. \A uu \in Seq(V) : SpokenOfEach(uu) = Map(f, uu)
  <2> SUFFICES ASSUME NEW uu \in Seq(V) PROVE SpokenOfEach(uu) = Map(f, uu)
    OBVIOUS
  <2>1. \A k \in DOMAIN uu : uu[k] \in V
    <3> HIDE DEF V
    <3> QED BY LenProperties, ElementOfSeq
  <2> QED BY <1>1, <2>1 DEF SpokenOfEach, Map
<1>3. \A uu \in Seq(V) : Map(f, uu) \in Seq(V)
  <2> HIDE DEF V
  <2> QED BY <1>1, MapOf
<1>4. <<>> \in P
  <2>1. Map(f, <<>>) = <<>>
    BY DEF Map
  <2> QED BY <2>1, EmptySeq, FlattenAppend, SpokenOf
<1>5. ASSUME NEW uu \in Seq(V), NEW t \in V, uu \in P PROVE Append(uu, t) \in P
  <2> DEFINE xx == Append(uu, t)
             x == FlattenSeq(uu)
             mm == Map(f, uu)
             m == f[t]
             y == FlattenSeq(mm)
  <2>1. Map(f, xx) = Append(mm, m) /\ mm \in Seq(V) /\ m = Spoken(t)
    <3> HIDE DEF V
    <3> QED BY <1>1, <1>3, MapAppend
  <2>2. FlattenSeq(xx) = x \o t /\ x \in V
    BY FlattenAppend
  <2>3. m \in V
    BY <2>1, SpokenOf
  <2> HIDE DEF mm, m
  <2>4. FlattenSeq(Append(mm, m)) = y \o m
    BY <2>1, <2>3, FlattenAppend
  <2>5. Spoken(x) = y
    BY <1>5 DEF mm
  <2> HIDE DEF x, y
  <2>6. Spoken(x \o t) = Spoken(x) \o Spoken(t)
    BY <2>2, SpokenConcat
  <2>7. Spoken(FlattenSeq(xx)) = FlattenSeq(Map(f, xx))
    BY <2>1, <2>2, <2>4, <2>5, <2>6
  <2>8. xx \in Seq(V)
    <3> HIDE DEF V
    <3> QED BY AppendProperties
  <2> HIDE DEF xx, V
  <2>9. xx \in P
    BY <2>7, <2>8
  <2> QED BY <2>9 DEF xx
<1> HIDE DEF P
<1>6. \A uu \in Seq(V) : uu \in P
  <2> HIDE DEF V
  <2> QED BY <1>4, <1>5, SequenceInduction
<1> QED BY <1>2, <1>3, <1>6 DEF P

-----------------------------------------------------------------------------
(* The words that are said for the printed words.                          *)

(* The words of a printed word, in their order.                            *)
WordsAre(ws, N, print, at) ==
    /\ ws \in Seq(AnyWord(N, {at})) /\ Len(ws) = Len(print.said) /\ Len(ws) \in Nat
    /\ \A k \in 1..Len(ws) : ws[k].at = at /\ ws[k].name = print.said[k]

(* preprocess_text: what is said for a printed word, in its order.         *)
LEMMA WordsRead ==
    ASSUME NEW N, N \subseteq DOMAIN Size, NEW print \in PrintOf(N), NEW at
    PROVE  WordsAre(Words(print, at), N, print, at)
<1> DEFINE ws == Words(print, at)
           n == Len(print.said)
<1>1. print.said \in Seq(N)
  BY DEF PrintOf
<1>2. n \in Nat /\ DOMAIN print.said = 1..n
  BY <1>1, LenProperties
<1>3. ws \in Seq(AnyWord(N, {at}))
  BY WordsOfPrint
<1>4. DOMAIN ws = 1..n /\ \A k \in 1..n : ws[k].at = at /\ ws[k].name = print.said[k]
  BY <1>2 DEF Words
<1> HIDE DEF WordsAre, ws, n
<1>5. Len(ws) = n
  BY <1>2, <1>3, <1>4, LenProperties
<1> QED BY <1>2, <1>3, <1>4, <1>5 DEF WordsAre, ws, n

(* What one more printed word adds.                                        *)
LEMMA PreprocessNext ==
    ASSUME NEW N, N \subseteq DOMAIN Size, NEW p \in Seq(PrintOf(N)), NEW e \in PrintOf(N)
    PROVE  Preprocess(Append(p, e), 1) = Preprocess(p, 1) \o Words(e, Len(p) + 1)
<1> DEFINE E == PrintOf(N)
           one == <<e>>
           at == 1 + Len(p)
           ws == Words(e, at)
<1>1. one \in Seq(E) /\ Append(p, e) = p \o one /\ Len(p) \in Nat
  <2>0. e \in E /\ p \in Seq(E)
    OBVIOUS
  <2> HIDE DEF E
  <2>1. one = Append(<<>>, e) /\ <<>> \in Seq(E) /\ one \in Seq(E)
    <3>1. <<e>> = Append(<<>>, e) /\ <<e>> \in Seq(E)
      BY <2>0, Single
    <3>2. <<>> \in Seq(E)
      BY EmptySeq
    <3> QED BY <3>1, <3>2
  <2>2. p \o Append(<<>>, e) = Append(p \o <<>>, e) /\ p \o <<>> = p
    BY <2>0, <2>1, ConcatAppend, ConcatEmptySeq
  <2> QED BY <2>0, <2>1, <2>2, LenProperties
<1>2. Preprocess(one, at) = ws
  <2>1. ws \in Seq(AnyWord(N, {at}))
    BY WordsOfPrint
  <2>2. Placed(one, at) = <<ws>>
    <3>1. DOMAIN one = {1} /\ one[1] = e
      OBVIOUS
    <3>2. Placed(one, at) = [i \in {1} |-> Words(e, at + i - 1)]
      BY <3>1 DEF Placed
    <3>3. at + 1 - 1 = at
      BY <1>1
    <3>4. Placed(one, at) = [i \in {1} |-> ws]
      BY <3>2, <3>3
    <3> HIDE DEF ws
    <3> QED BY <3>4
  <2>3. Preprocess(one, at) = FlattenSeq(Placed(one, at))
    BY DEF Preprocess, Placed
  <2> HIDE DEF ws
  <2> QED BY <2>1, <2>2, <2>3, FlattenSingle
<1> DEFINE first == 1
<1> HIDE DEF one, ws
<1>3. first \in Nat
  BY DEF first
<1>4. Preprocess(p \o one, first) = Preprocess(p, first) \o Preprocess(one, first + Len(p))
  <2> HIDE DEF first
  <2> QED BY <1>1, <1>3, PreprocessConcat
<1>5. at = Len(p) + 1
  BY <1>1
<1> QED BY <1>1, <1>2, <1>4, <1>5 DEF ws

(* Every printed word stands for itself.                                   *)
AllWhole(p) == \A i \in 1..Len(p) : p[i].name # <<>> /\ p[i].said = <<p[i].name>>

(* What is said is in the order of the print; and each word is the next    *)
(* print, if every printed word stands for itself.                         *)
ReadsItself(p) ==
    /\ InOrder(Preprocess(p, 1), Len(p))
    /\ AllWhole(p) => Exactly(Preprocess(p, 1), p) /\ Len(Preprocess(p, 1)) = Len(p)

(* And so for one more printed word.                                       *)
LEMMA ReadsNext ==
    ASSUME NEW N, N \subseteq DOMAIN Size, NEW p \in Seq(PrintOf(N)), NEW e \in PrintOf(N),
           ReadsItself(p)
    PROVE  ReadsItself(Append(p, e))
<1> DEFINE a == Append(p, e)
           m == Len(p)
           at == m + 1
           x == Preprocess(p, 1)
           ws == Words(e, at)
           all == x \o ws
           n == Len(x)
           l == Len(ws)
           U == AnyWord(N, Nat)
<1>1. Len(a) = m + 1 /\ m \in Nat /\ a[m + 1] = e /\ \A i \in 1..m : a[i] = p[i]
  BY AppendedOf
<1>2. Preprocess(a, 1) = all
  BY PreprocessNext
<1>3. x \in Seq(U)
  <2> DEFINE first == 1
             I == first .. first + Len(p) - 1
  <2>1. first \in Nat /\ I \subseteq Nat
    BY <1>1
  <2> HIDE DEF first, I
  <2>2. Preprocess(p, first) \in Seq(AnyWord(N, I))
    BY <2>1, PreprocessOf DEF I
  <2>3. Seq(AnyWord(N, I)) \subseteq Seq(U)
    BY <2>1, WordMonotonic
  <2> QED BY <2>2, <2>3 DEF first
<1>4. /\ ws \in Seq(U) /\ l = Len(e.said) /\ l \in Nat
      /\ \A k \in 1..l : ws[k].at = at /\ ws[k].name = e.said[k]
  <2>1. /\ ws \in Seq(AnyWord(N, {at})) /\ l = Len(e.said) /\ l \in Nat
        /\ \A k \in 1..l : ws[k].at = at /\ ws[k].name = e.said[k]
    <3> HIDE DEF at, x, a, U, all
    <3>1. WordsAre(ws, N, e, at)
      BY WordsRead, Zenon
    <3> QED BY <3>1 DEF WordsAre
  <2>2. {at} \subseteq Nat
    BY <1>1
  <2> HIDE DEF ws, at
  <2>3. Seq(AnyWord(N, {at})) \subseteq Seq(U)
    BY <2>2, WordMonotonic
  <2> QED BY <2>1, <2>3
<1> HIDE DEF x, ws, a, U
<1>5. /\ n \in Nat /\ Len(all) = n + l
      /\ \A i \in 1..n + l : all[i] = IF i <= n THEN x[i] ELSE ws[i - n]
  <2>1. x \in Seq(U) /\ ws \in Seq(U) /\ n \in Nat
    BY <1>3, <1>4, LenProperties
  <2>2. /\ Len(x \o ws) = Len(x) + Len(ws)
        /\ \A i \in 1..Len(x) + Len(ws) :
             (x \o ws)[i] = IF i <= Len(x) THEN x[i] ELSE ws[i - Len(x)]
    BY <2>1, ConcatProperties
  <2> QED BY <2>1, <2>2
<1> HIDE DEF all, n, l
<1>6. ASSUME NEW i \in 1..n + l, ~(i <= n)
      PROVE  i - n \in 1..l /\ all[i].at = at /\ all[i].name = e.said[i - n]
  <2> DEFINE j == i - n
  <2>1. j \in 1..l
    BY <1>4, <1>5, <1>6
  <2>2. all[i] = ws[j]
    BY <1>5, <1>6
  <2> HIDE DEF j
  <2>3. j \in 1..l /\ all[i].at = at /\ all[i].name = e.said[j]
    BY <1>4, <2>1, <2>2
  <2> QED BY <2>3 DEF j
<1>7. ASSUME NEW i \in 1..n + l, i <= n PROVE i \in 1..n /\ all[i] = x[i]
  BY <1>4, <1>5, <1>7
<1>8. InOrder(all, Len(a))
  <2>1. ASSUME NEW i \in 1..n PROVE x[i].at \in 1..m
    BY DEF ReadsItself, InOrder, x, n
  <2>2. ASSUME NEW i \in 1..n + l PROVE all[i].at \in 1..Len(a)
    <3>1. CASE i <= n
      BY <1>1, <1>7, <2>1, <3>1
    <3>2. CASE ~(i <= n)
      BY <1>1, <1>6, <3>2
    <3> QED BY <3>1, <3>2
  <2>3. ASSUME NEW i \in 1..n + l, NEW j \in 1..n + l, i < j PROVE all[i].at <= all[j].at
    <3>1. CASE j <= n
      <4>1. i \in 1..n /\ j \in 1..n /\ all[i] = x[i] /\ all[j] = x[j]
        BY <1>5, <1>7, <2>3, <3>1
      <4> QED BY <2>3, <4>1 DEF ReadsItself, InOrder, x, n
    <3>2. CASE ~(j <= n) /\ i <= n
      <4>1. all[i].at \in 1..m /\ all[j].at = at
        BY <1>6, <1>7, <2>1, <3>2
      <4> QED BY <1>1, <4>1
    <3>3. CASE ~(j <= n) /\ ~(i <= n)
      <4>1. all[i].at = at /\ all[j].at = at
        BY <1>6, <3>3
      <4> QED BY <1>1, <4>1
    <3> QED BY <3>1, <3>2, <3>3
  <2> QED BY <1>5, <2>2, <2>3 DEF InOrder
<1>9. ASSUME AllWhole(a) PROVE Exactly(all, a) /\ Len(all) = Len(a)
  <2>1. AllWhole(p) /\ e.said = <<e.name>> /\ e.name # <<>>
    BY <1>1, <1>9 DEF AllWhole
  <2>2. Exactly(x, p) /\ n = m
    BY <2>1 DEF ReadsItself, x, n
  <2>3. l = 1 /\ e.said[1] = e.name /\ Len(e.name) \in Nat
    <3>1. e.name \in Seq(Letters)
      BY DEF PrintOf
    <3> QED BY <1>4, <2>1, <3>1, LenProperties
  <2>4. Len(all) = Len(a)
    BY <1>1, <1>5, <2>2, <2>3
  <2>5. ASSUME NEW i \in 1..Len(all)
        PROVE  /\ all[i].at = i /\ a[i].name = all[i].name
               /\ all[i].name # <<>> /\ Len(all[i].name) \in Nat
    <3>1. CASE i <= n
      <4>1. i \in 1..n /\ all[i] = x[i]
        BY <1>5, <1>7, <3>1
      <4> QED BY <1>1, <2>2, <4>1 DEF Exactly, n
    <3>2. CASE ~(i <= n)
      <4>1. i - n \in 1..l /\ all[i].at = at /\ all[i].name = e.said[i - n]
        BY <1>5, <1>6, <3>2
      <4>2. i = at /\ i - n = 1
        BY <1>5, <2>2, <2>3, <4>1
      <4> QED BY <1>1, <2>1, <2>3, <4>1, <4>2
    <3> QED BY <3>1, <3>2
  <2> QED BY <1>1, <2>4, <2>5 DEF Exactly
<1>10. ReadsItself(a)
  BY <1>2, <1>8, <1>9 DEF ReadsItself
<1> QED BY <1>10 DEF a

(* And so for every document.                                              *)
LEMMA PrintsRead ==
    ASSUME NEW N, N \subseteq DOMAIN Size, NEW prints \in Seq(PrintOf(N))
    PROVE  ReadsItself(prints)
<1> DEFINE E == PrintOf(N)
           P == {p \in Seq(E) : ReadsItself(p)}
<1>1. <<>> \in P
  <2>1. Preprocess(<<>>, 1) = <<>>
    <3>1. [i \in DOMAIN <<>> |-> Words(<<>>[i], 1 + i - 1)] = <<>>
      OBVIOUS
    <3> QED BY <3>1, FlattenAppend DEF Preprocess
  <2>2. Len(<<>>) = 0 /\ <<>> \in Seq(E)
    BY EmptySeq
  <2> QED BY <2>1, <2>2 DEF ReadsItself, InOrder, Exactly
<1>2. ASSUME NEW p \in Seq(E), NEW e \in E, p \in P PROVE Append(p, e) \in P
  <2>1. ReadsItself(Append(p, e))
    BY <1>2, ReadsNext
  <2>2. Append(p, e) \in Seq(E)
    <3> HIDE DEF E
    <3> QED BY AppendProperties
  <2> QED BY <2>1, <2>2
<1> HIDE DEF P
<1>3. \A p \in Seq(E) : p \in P
  BY <1>1, <1>2, SequenceInduction
<1> QED BY <1>3 DEF P

-----------------------------------------------------------------------------
(* What the aligner makes of what is spoken.                               *)

(* Nothing is within anything.                                             *)
LEMMA WithinNone ==
    ASSUME NEW s
    PROVE  Within(<<>>, s)
<1>1. \A f : Embeds(<<>>, s, f)
  BY DEF Embeds
<1> QED BY <1>1 DEF Within

(* What is written down, with its times.                                   *)
WrittenWord(N, A) == [name : N, at : A]
TimedWord(N, A) == [name : N, at : A, start : Int, end : Int]

(* What is written down for a word, however many words, has its place.     *)
LEMMA WithinWord ==
    ASSUME NEW N, NEW A, NEW names \in Seq(N), NEW word, word.at \in A
    PROVE  /\ WrittenDown(word, names) \in Seq(WrittenWord(N, A))
           /\ Within(WrittenDown(word, names), <<word>>)
<1> DEFINE h == WrittenDown(word, names)
           n == Len(names)
           f == [i \in 1..n |-> 1]
<1>1. n \in Nat /\ DOMAIN names = 1..n /\ \A i \in 1..n : names[i] \in N
  BY LenProperties, ElementOfSeq
<1>2. h = [i \in 1..n |-> [name |-> names[i], at |-> word.at]]
  BY <1>1 DEF WrittenDown
<1> HIDE DEF h, n
<1>3. h \in [1..n -> WrittenWord(N, A)]
  BY <1>1, <1>2 DEF WrittenWord
<1>4. h \in Seq(WrittenWord(N, A)) /\ Len(h) = n
  BY <1>1, <1>3, SeqDef, LenProperties
<1>5. \A i \in 1..n : f[i] = 1
  OBVIOUS
<1>6. Len(<<word>>) = 1 /\ <<word>>[1] = word /\ \A i \in 1..n : h[i].at = word.at
  BY <1>2
<1> HIDE DEF f
<1>7. Embeds(h, <<word>>, f) /\ \A i \in 1..Len(h) : h[i].at = <<word>>[f[i]].at
  BY <1>4, <1>5, <1>6 DEF Embeds
<1> QED BY <1>4, <1>7 DEF Within, h

(* Times change neither names nor places.                                  *)
LEMMA WithinTimed ==
    ASSUME NEW N, NEW A, NEW r \in Seq(WrittenWord(N, A)), NEW length \in Int,
           NEW s, Within(r, s)
    PROVE  Timed(r, length) \in Seq(TimedWord(N, A)) /\ Within(Timed(r, length), s)
<1> DEFINE n == Len(r)
           h == Timed(r, length)
<1>1. n \in Nat /\ DOMAIN r = 1..n /\ \A i \in 1..n : r[i].name \in N /\ r[i].at \in A
  <2>1. n \in Nat /\ DOMAIN r = 1..n
    BY LenProperties
  <2>2. \A i \in 1..n : r[i] \in WrittenWord(N, A)
    BY ElementOfSeq
  <2> QED BY <2>1, <2>2 DEF WrittenWord
<1>2. h = [i \in 1..n |-> [name |-> r[i].name, at |-> r[i].at,
                           start |-> 3 * i - 2, end |-> 3 * i - 2 + length]]
  BY <1>1 DEF Timed
<1> HIDE DEF h, n
<1>3. h \in [1..n -> TimedWord(N, A)]
  BY <1>1, <1>2 DEF TimedWord
<1>4. h \in Seq(TimedWord(N, A)) /\ Len(h) = n
  BY <1>1, <1>3, SeqDef, LenProperties
<1>5. \A i \in 1..n : h[i].at = r[i].at /\ h[i].name = r[i].name
  BY <1>2
<1>6. PICK f : Embeds(r, s, f) /\ \A i \in 1..n : r[i].at = s[f[i]].at
  BY DEF Within, n
<1>7. Embeds(h, s, f) /\ \A i \in 1..Len(h) : h[i].at = s[f[i]].at
  BY <1>4, <1>5, <1>6 DEF Embeds, n
<1> QED BY <1>4, <1>7 DEF Within, h

-----------------------------------------------------------------------------
(* What is heard of the document.                                          *)

Sounds == Written \cup {Comma}
AnyPlace == 0..Len(Prints)

SpokenWord == AnyWord(Sounds, AnyPlace)
HeardWord == WrittenWord(Sounds \cup Vocabulary, AnyPlace)

(* What is recognised of a chunk is within what is spoken of it.           *)
RecognisedWell(k, flaw) ==
    /\ Recognised(k, flaw) \in Seq(HeardWord)
    /\ Within(Recognised(k, flaw), Spoken(chunks[k].text))

(* What is spoken of a chunk.                                              *)
LEMMA SpokenChunk ==
    ASSUME Staged, stage \in {"build", "composed"}, NEW k \in DOMAIN chunks
    PROVE  Spoken(chunks[k].text) \in Seq(SpokenWord)
<1>1. chunks \in Seq(ChunkRecord(Sounds, AnyPlace, DOMAIN request.pages))
  BY ChunksOfDocument DEF Sounds, AnyPlace
<1>2. chunks[k] \in ChunkRecord(Sounds, AnyPlace, DOMAIN request.pages)
  BY <1>1, ElementOfSeq, LenProperties
<1>3. chunks[k].text \in Seq(SpokenWord)
  BY <1>2 DEF ChunkRecord, SpokenWord
<1> QED BY <1>3, SpokenOf DEF SpokenWord

(* What is written down in place of a word is of the vocabulary.           *)
LEMMA UtteredInstead ==
    ASSUME NEW flaw \in Flaws, NEW spot \in DOMAIN flaw.as
    PROVE  flaw.as[spot] \in Seq(Vocabulary)
<1> DEFINE Of(f, wrong) == [failed : kSubset(f, DOMAIN chunks), as : [wrong -> Utterances]]
           Wrong(f) == UNION {kSubset(n, Spots) : n \in 0 .. MaxFlaws - f}
           With(f) == UNION {Of(f, wrong) : wrong \in Wrong(f)}
<1>0. Flaws = UNION {With(f) : f \in 0 .. MaxFlaws}
  BY DEF Flaws
<1> HIDE DEF Of, Wrong, With
<1>a. PICK f \in 0 .. MaxFlaws : flaw \in With(f)
  BY <1>0
<1>b. PICK wrong \in Wrong(f) : flaw \in Of(f, wrong)
  BY <1>a DEF With
<1>1. flaw \in [failed : kSubset(f, DOMAIN chunks), as : [wrong -> Utterances]]
  BY <1>b DEF Of
<1>2. flaw.as[spot] \in Utterances
  BY <1>1
<1>3. PICK n \in 0..2 : flaw.as[spot] \in [1..n -> Vocabulary]
  BY <1>2 DEF Utterances
<1> QED BY <1>3, SeqDef

(* A chunk whose alignment failed, or in whose words some were missed,     *)
(* taken for others or for two.                                            *)
LEMMA RecognisedOf ==
    ASSUME Staged, stage \in {"build", "composed"}, NEW flaw \in Flaws, NEW k \in DOMAIN chunks
    PROVE  RecognisedWell(k, flaw)
<1> DEFINE s == Spoken(chunks[k].text)
           r == Recognised(k, flaw)
           n == Len(s)
           names(i) == IF <<k, i>> \in DOMAIN flaw.as THEN flaw.as[<<k, i>>] ELSE <<s[i].name>>
           pieces == [i \in 1..n |-> WrittenDown(s[i], names(i))]
           singles == [i \in DOMAIN s |-> <<s[i]>>]
<1>1. s \in Seq(SpokenWord)
  BY SpokenChunk
<1>2. n \in Nat /\ DOMAIN s = 1..n /\ \A i \in 1..n : s[i].name \in Sounds /\ s[i].at \in AnyPlace
  <2> HIDE DEF s
  <2>1. \A i \in 1..n : s[i] \in AnyWord(Sounds, AnyPlace)
    BY <1>1, ElementOfSeq DEF SpokenWord
  <2> QED BY <1>1, <2>1, LenProperties, WordFacts
<1>3. CASE k \in flaw.failed
  <2>1. r = <<>>
    BY <1>3 DEF Recognised
  <2> HIDE DEF s, r
  <2>2. r \in Seq(HeardWord) /\ Within(r, s)
    BY <2>1, WithinNone, EmptySeq
  <2> QED BY <2>2 DEF RecognisedWell, r, s
<1>4. CASE k \notin flaw.failed
  <2>1. r = FlattenSeq(pieces)
    BY <1>2, <1>4 DEF Recognised
  <2> HIDE DEF s, r
  <2>2. ASSUME NEW i \in 1..n PROVE names(i) \in Seq(Sounds \cup Vocabulary)
    <3>1. ASSUME <<k, i>> \in DOMAIN flaw.as PROVE flaw.as[<<k, i>>] \in Seq(Sounds \cup Vocabulary)
      <4>1. flaw.as[<<k, i>>] \in Seq(Vocabulary)
        BY <3>1, UtteredInstead
      <4>2. Seq(Vocabulary) \subseteq Seq(Sounds \cup Vocabulary)
        BY SeqMonotonic
      <4> QED BY <4>1, <4>2
    <3>2. <<s[i].name>> \in Seq(Sounds \cup Vocabulary)
      BY <1>2
    <3> QED BY <3>1, <3>2
  <2> HIDE DEF names, n
  <2>3. ASSUME NEW i \in 1..n
        PROVE  pieces[i] \in Seq(HeardWord) /\ Within(pieces[i], <<s[i]>>)
    <3>1. /\ WrittenDown(s[i], names(i)) \in Seq(HeardWord)
          /\ Within(WrittenDown(s[i], names(i)), <<s[i]>>)
      BY <1>2, <2>2, WithinWord DEF HeardWord
    <3> QED BY <3>1
  <2>4. pieces \in Seq(Seq(HeardWord)) /\ Len(pieces) = n
    <3>1. pieces \in [1..n -> Seq(HeardWord)]
      BY <2>3
    <3> HIDE DEF pieces
    <3> QED BY <1>2, <3>1, SeqDef, LenProperties
  <2>5. singles \in Seq(Seq(SpokenWord)) /\ FlattenSeq(singles) = s
    BY <1>1, OneByOne
  <2>6. DOMAIN singles = 1..n /\ \A i \in 1..n : singles[i] = <<s[i]>>
    BY <1>2
  <2> HIDE DEF pieces, singles
  <2>7. Len(singles) = n
    BY <1>2, <2>5, <2>6, LenProperties
  <2>8. PiecesWithin(pieces, singles)
    BY <2>3, <2>4, <2>6, <2>7 DEF PiecesWithin
  <2>9. r \in Seq(HeardWord)
    BY <2>1, <2>4, FlattenAppend
  <2>10. Within(FlattenSeq(pieces), FlattenSeq(singles))
    BY <2>4, <2>5, <2>8, WithinPieces
  <2>11. Within(r, s)
    BY <2>1, <2>5, <2>10
  <2> QED BY <2>9, <2>11 DEF RecognisedWell, r, s
<1> QED BY <1>3, <1>4

(* What is heard of each chunk, and of the document.                       *)
HeardOfEach == [k \in DOMAIN aligned |-> WordsOf(k)]

AnyHeard == TimedWord(Sounds \cup Vocabulary, AnyPlace)

(* What is heard of each chunk is within what is spoken of it.             *)
LEMMA HeardPieces ==
    ASSUME Staged, stage \in {"build", "composed"}
    PROVE  /\ HeardOfEach \in Seq(Seq(AnyHeard))
           /\ PiecesWithin(HeardOfEach, SpokenOfEach(Texts(chunks)))
<1>1. PICK flaw \in Flaws, length \in 2..3 : aligned = AlignedBy(flaw, length)
  BY DEF Staged, IsAligned
<1>2. chunks \in Seq(ChunkRecord(Sounds, AnyPlace, DOMAIN request.pages))
  BY ChunksOfDocument DEF Sounds, AnyPlace
<1> DEFINE n == Len(chunks)
<1>3. n \in Nat /\ DOMAIN chunks = 1..n
  BY <1>2, LenProperties
<1>4. DOMAIN aligned = 1..n /\ \A k \in 1..n : WordsOf(k) = Timed(Recognised(k, flaw), length)
  BY <1>1, <1>3 DEF AlignedBy, WordsOf
<1> DEFINE W(k) == Timed(Recognised(k, flaw), length)
<1>5. ASSUME NEW k \in 1..n
      PROVE  W(k) \in Seq(AnyHeard) /\ Within(W(k), Spoken(chunks[k].text))
  <2> DEFINE r == Recognised(k, flaw)
             s == Spoken(chunks[k].text)
  <2>1. r \in Seq(WrittenWord(Sounds \cup Vocabulary, AnyPlace)) /\ Within(r, s)
    BY <1>3, RecognisedOf DEF RecognisedWell, HeardWord
  <2>2. length \in Int
    OBVIOUS
  <2> HIDE DEF r, s
  <2>3. Timed(r, length) \in Seq(AnyHeard) /\ Within(Timed(r, length), s)
    BY <2>1, <2>2, WithinTimed DEF AnyHeard
  <2> QED BY <2>3 DEF r, s
<1> HIDE DEF W
<1>6. HeardOfEach = [k \in 1..n |-> W(k)]
  BY <1>4 DEF HeardOfEach, W
<1>7. HeardOfEach \in [1..n -> Seq(AnyHeard)]
  BY <1>5, <1>6
<1>8. HeardOfEach \in Seq(Seq(AnyHeard)) /\ Len(HeardOfEach) = n
  BY <1>3, <1>7, SeqDef, LenProperties
<1>9. SpokenOfEach(Texts(chunks)) = [k \in 1..n |-> Spoken(chunks[k].text)]
  BY <1>3 DEF SpokenOfEach, Texts
<1>10. Len(SpokenOfEach(Texts(chunks))) = n
  BY <1>3, <1>9
<1>11. \A k \in 1..n : Within(HeardOfEach[k], SpokenOfEach(Texts(chunks))[k])
  BY <1>5, <1>6, <1>9
<1> QED BY <1>8, <1>10, <1>11 DEF PiecesWithin

(* The prints of the document.                                             *)
LEMMA PrintsOfDocument ==
    ASSUME Staged, stage \in {"build", "composed"}
    PROVE  /\ Prints \in Seq(PrintOf(Written)) /\ Len(Prints) \in Nat
           /\ ReadsItself(Prints)
<1>1. request.pages \in Seq(Seq(PrintOf(Written))) /\ Written \subseteq DOMAIN Size
  BY WrittenWords DEF Staged, Named
<1>2. Prints \in Seq(PrintOf(Written))
  BY <1>1, FlattenAppend DEF Prints, Printed
<1> QED BY <1>1, <1>2, LenProperties, PrintsRead

(* What is spoken of the document, and what is heard of it.                *)
LEMMA HeardOfDocument ==
    ASSUME Staged, stage = "build"
    PROVE  Heard \in Seq(AnyHeard) /\ InOrder(Heard, Len(Prints))
<1> DEFINE tt == Texts(chunks)
           ss == SpokenOfEach(tt)
           spoken == Spoken(FlattenSeq(tt))
           read == Preprocess(Prints, 1)
<1>1. tt \in Seq(Seq(SpokenWord))
  <2>1. chunks \in Seq(ChunkRecord(Sounds, AnyPlace, DOMAIN request.pages))
    BY ChunksOfDocument DEF Sounds, AnyPlace
  <2>2. HasText(ChunkRecord(Sounds, AnyPlace, DOMAIN request.pages), Seq(SpokenWord))
    BY DEF HasText, ChunkRecord, SpokenWord
  <2> QED BY <2>1, <2>2, TextsOf
<1>2. ss \in Seq(Seq(SpokenWord)) /\ spoken = FlattenSeq(ss) /\ spoken \in Seq(SpokenWord)
  <2> HIDE DEF tt
  <2>1. ss \in Seq(Seq(SpokenWord)) /\ spoken = FlattenSeq(ss)
    BY <1>1, SpokenPieces DEF SpokenWord
  <2> QED BY <2>1, FlattenAppend
<1>3. NameAndPlace(spoken) = NameAndPlace(read)
  BY ChunksOfDocument DEF Speaks, Said, Prints
<1> DEFINE I == 1..1 + Len(Prints) - 1
<1>4. read \in Seq(AnyWord(Written, I))
  <2>1. Written \subseteq DOMAIN Size /\ Prints \in Seq(PrintOf(Written))
    BY WrittenWords, PrintsOfDocument DEF Named
  <2> QED BY <2>1, PreprocessOf
<1>5. InOrder(read, Len(Prints))
  BY PrintsOfDocument DEF ReadsItself
<1> HIDE DEF spoken, read, ss, tt, I
<1>6. InOrder(spoken, Len(Prints))
  <2>1. spoken \in Seq(SpokenWord)
    BY <1>2
  <2> QED BY <1>3, <1>4, <1>5, <2>1, ReadsAlike
<1>7. /\ HeardOfEach \in Seq(Seq(AnyHeard)) /\ PiecesWithin(HeardOfEach, ss)
      /\ Heard = FlattenSeq(HeardOfEach)
  BY HeardPieces DEF ss, tt, Heard, HeardOfEach
<1>8. Within(Heard, spoken)
  BY <1>2, <1>7, WithinPieces
<1>9. Heard \in Seq(AnyHeard)
  BY <1>7, FlattenAppend
<1>10. Len(Heard) \in Nat /\ Len(spoken) \in Nat /\ Len(Prints) \in Nat
  BY <1>2, <1>9, LenProperties, PrintsOfDocument
<1>11. InOrder(Heard, Len(Prints))
  BY <1>6, <1>8, <1>10, OrderWithin
<1> QED BY <1>9, <1>11

(* The box that is lit up for a word is not ahead of the voice as long as  *)
(* no word before it, nor the word itself, was taken for one that is       *)
(* printed ahead, for two, or was a part in the middle of a printed word,  *)
(* whichever other words were missed or misheard and whichever chunks were *)
(* not aligned; and when all is heard as it is printed, each word has its  *)
(* own box (word_matcher.py).                                              *)
THEOREM HighlightNeverAhead == Spec => []NeverAhead
<1>1. ASSUME Staged, stage = "build"
      PROVE  /\ \A i \in DOMAIN Boxes :
                  (\A j \in 1..i : Harmless(j)) => Boxes[i] <= Heard[i].at
             /\ Whole /\ NameAndPlace(Heard) = NameAndPlace(Preprocess(Prints, 1)) =>
                  \A i \in DOMAIN Boxes : Boxes[i] = Heard[i].at
  <2> DEFINE m == Matched(Names(Heard), Prints)
             read == Preprocess(Prints, 1)
  <2>1. Boxes = m.boxes
    BY DEF Boxes, Match, Matched, Names
  <2>2. Heard \in Seq(AnyHeard) /\ InOrder(Heard, Len(Prints))
    BY <1>1, HeardOfDocument
  <2>3. Prints \in Seq(PrintOf(Written)) /\ Len(Prints) \in Nat /\ ReadsItself(Prints)
    BY <1>1, PrintsOfDocument
  <2>4. Behind(Heard, Heard, m, Prints)
    BY <2>2, <2>3, MatchedBehind
  <2>5. DOMAIN Boxes = 1..Len(Heard)
    <3>1. m.boxes \in Seq(0..Len(Prints)) /\ Len(m.boxes) = Len(Heard)
      BY <2>4 DEF Behind, MatchState
    <3> QED BY <2>1, <3>1, LenProperties
  <2>6. ASSUME NEW i \in DOMAIN Boxes, \A j \in 1..i : Harmless(j)
        PROVE  Boxes[i] <= Heard[i].at
    <3>1. HarmlessUpTo(Heard, i, Prints)
      BY <2>6 DEF HarmlessUpTo, HarmlessAs, More, Harmless
    <3> QED BY <2>1, <2>4, <2>5, <3>1 DEF Behind
  <2>7. ASSUME Whole, NameAndPlace(Heard) = NameAndPlace(read)
        PROVE  \A i \in DOMAIN Boxes : Boxes[i] = Heard[i].at
    <3>1. AllWhole(Prints)
      <4>1. DOMAIN Prints = 1..Len(Prints)
        BY <2>3, LenProperties
      <4> QED BY <2>7, <4>1 DEF AllWhole, Whole
    <3>2. Exactly(read, Prints)
      BY <2>3, <3>1 DEF ReadsItself
    <3> DEFINE I == 1..1 + Len(Prints) - 1
    <3>3. read \in Seq(AnyWord(Written, I))
      <4>1. Written \subseteq DOMAIN Size
        BY WrittenWords DEF Named
      <4> QED BY <2>3, <4>1, PreprocessOf
    <3> HIDE DEF read, I
    <3>4. Exactly(Heard, Prints)
      BY <2>2, <2>7, <3>2, <3>3, ReadsAlike
    <3>5. OnTime(Heard, m)
      BY <2>2, <2>3, <3>4, MatchedOnTime
    <3> QED BY <2>1, <2>5, <3>4, <3>5 DEF OnTime, Exactly
  <2> QED BY <2>6, <2>7
<1>2. Staged => NeverAhead
  BY <1>1 DEF NeverAhead
<1> QED BY <1>2, StagedInvariant, PTL

-----------------------------------------------------------------------------
(* The words in the pane.                                                  *)

(* Words laid out in lines.                                                *)
LaidWord(pane) ==
    {word \in [x : Nat, y : Nat, w : Nat, page : {0}] :
        word.x = Margin \/ word.x + word.w <= pane.w - Margin}

LayoutState(pane) == [out : Seq(LaidWord(pane)), x : Nat, line : Nat]

(* Every word is in some line, at its beginning or where it fits.          *)
LEMMA LayoutStepOf ==
    ASSUME NEW pane, pane.w \in Nat, NEW acc \in LayoutState(pane), NEW word \in DOMAIN WordWidth
    PROVE  LayoutStep(acc, word, pane) \in LayoutState(pane)
<1> DEFINE wraps == acc.x # Margin /\ acc.x + WordWidth[word] > pane.w - Margin
           x == IF wraps THEN Margin ELSE acc.x
           line == IF wraps THEN acc.line + 1 ELSE acc.line
           e == [x |-> x, y |-> Margin + line * LineHeight, w |-> WordWidth[word], page |-> 0]
           width == WordWidth[word]
<1>1. width \in Nat /\ SpaceWidth \in Nat /\ LineHeight \in Nat /\ Margin \in Nat
  BY LayoutAssumption
<1>2. acc.out \in Seq(LaidWord(pane)) /\ acc.x \in Nat /\ acc.line \in Nat
  BY DEF LayoutState
<1>3. x \in Nat /\ line \in Nat /\ (x = Margin \/ x + width <= pane.w - Margin)
  <2> HIDE DEF width
  <2> QED BY <1>1, <1>2 DEF width
<1>4. LayoutStep(acc, word, pane) =
        [out |-> Append(acc.out, e), x |-> x + width + SpaceWidth, line |-> line]
  BY DEF LayoutStep
<1> HIDE DEF x, line
<1>5. line * LineHeight \in Nat
  BY <1>1, <1>3
<1>6. e \in LaidWord(pane)
  <2>1. e \in [x : Nat, y : Nat, w : Nat, page : {0}] /\ e.x = x /\ e.w = width
    BY <1>1, <1>3, <1>5
  <2> HIDE DEF e
  <2> QED BY <1>3, <2>1 DEF LaidWord
<1> HIDE DEF e
<1>7. Append(acc.out, e) \in Seq(LaidWord(pane)) /\ x + width + SpaceWidth \in Nat
  BY <1>1, <1>2, <1>3, <1>6, AppendProperties
<1> HIDE DEF width
<1> QED BY <1>3, <1>4, <1>7 DEF LayoutState

(* So the words are laid out.                                              *)
LEMMA LayoutTextOf ==
    ASSUME NEW words \in Seq(DOMAIN WordWidth), NEW pane, pane.w \in Nat
    PROVE  LayoutText(words, pane) \in Seq(LaidWord(pane))
<1> DEFINE S == LayoutState(pane)
           E == DOMAIN WordWidth
           b == [out |-> <<>>, x |-> Margin, line |-> 0]
           h == [p \in S \X E |-> LayoutStep(p[1], p[2], pane)]
           seq == words
           Table(it) == it = [s \in SUBSET DOMAIN seq |->
                                IF s = {} THEN b ELSE LayoutStep(it[s \ {Max(s)}], seq[Max(s)], pane)]
<1>0. b \in S
  <2>1. Margin \in Nat
    BY LayoutAssumption
  <2>2. <<>> \in Seq(LaidWord(pane))
    BY EmptySeq
  <2> QED BY <2>1, <2>2 DEF LayoutState
<1>1. \A a \in S, e \in E : LayoutStep(a, e, pane) \in S
  BY LayoutStepOf
<1>2. LayoutText(words, pane) = ((CHOOSE it : Table(it))[DOMAIN seq]).out
  BY DEF LayoutText, FoldLeft, MapThenFoldSet
<1> HIDE DEF S, E
<1>3. h \in StepsOn(S, E) /\ \A a \in S, e \in E : h[<<a, e>>] = LayoutStep(a, e, pane)
  BY <1>1 DEF StepsOn
<1>4. seq \in Seq(E)
  BY DEF E
<1> HIDE DEF b, h, seq
<1>5. PICK it \in [SUBSET DOMAIN seq -> S] : FoldTable(it, h, b, seq)
  BY <1>0, <1>3, <1>4, FoldTableOf
<1>6. Table(it)
  <2>1. ASSUME NEW s \in SUBSET DOMAIN seq, s # {}
        PROVE  h[<<it[s \ {Max(s)}], seq[Max(s)]>>] = LayoutStep(it[s \ {Max(s)}], seq[Max(s)], pane)
    BY <1>3, <1>4, <2>1, MaxOfDomain
  <2> QED BY <1>5, <2>1 DEF FoldTable
<1> DEFINE jt == CHOOSE jt : Table(jt)
<1>7. Table(jt)
  BY <1>6
<1> HIDE DEF jt
<1>8. Follows(jt, h, b, seq, S)
  <2>1. jt[{}] = b
    BY <1>7
  <2>2. ASSUME NEW s \in SUBSET DOMAIN seq, s # {}, jt[s \ {Max(s)}] \in S
        PROVE  jt[s] = h[<<jt[s \ {Max(s)}], seq[Max(s)]>>]
    <3>1. jt[s] = LayoutStep(jt[s \ {Max(s)}], seq[Max(s)], pane)
      BY <1>7, <2>2
    <3>2. seq[Max(s)] \in E
      BY <1>4, <2>2, MaxOfDomain
    <3> QED BY <1>3, <2>2, <3>1, <3>2
  <2> QED BY <2>1, <2>2 DEF Follows
<1> HIDE DEF Table
<1>9. jt[DOMAIN seq] = Outcome(h, b, seq)
  BY <1>0, <1>3, <1>4, <1>8, FoldTableOutcome
<1>10. Outcome(h, b, seq) \in S
  BY <1>0, <1>3, <1>4, OutcomeIn
<1> QED BY <1>2, <1>9, <1>10 DEF jt, S, LayoutState

(* The pane is high enough for a line.                                     *)
HasRoom(pane) == pane.w \in Nat \ {0} /\ pane.h \in Nat \ {0} /\ pane.h >= LineHeight

(* A word is in sight while it is spoken, in a pane as high as a line, and *)
(* within its width, unless it is wider than the pane beside a margin.     *)
LEMMA ScrolledIntoSight ==
    ASSUME NEW pane, HasRoom(pane), NEW layout \in Seq(LaidWord(pane)), NEW i \in DOMAIN layout
    PROVE  LET scroll == ScrollOffset(layout, i, pane) IN
           /\ Drawn(layout, i, scroll, pane)
           /\ layout[i].y - scroll \in 0 .. pane.h - LineHeight
           /\ layout[i].x >= 0
           /\ Margin + layout[i].w <= pane.w => layout[i].x + layout[i].w <= pane.w
<1> DEFINE y == layout[i].y
           high == pane.h
           scroll == ScrollOffset(layout, i, pane)
<1>0. i \in 1..Len(layout) /\ layout[i] \in LaidWord(pane)
  BY LenProperties, ElementOfSeq
<1>1. y \in Nat /\ i # 0
  BY <1>0 DEF LaidWord
<1>2. LineHeight \in Nat /\ Margin \in Nat
  BY LayoutAssumption
<1>a. layout[i].x >= 0 /\ (Margin + layout[i].w <= pane.w => layout[i].x + layout[i].w <= pane.w)
  <2> DEFINE word == layout[i]
  <2>1. /\ word \in [x : Nat, y : Nat, w : Nat, page : {0}]
        /\ word.x = Margin \/ word.x + word.w <= pane.w - Margin
    BY <1>0 DEF LaidWord
  <2> HIDE DEF word
  <2>2. word.x >= 0 /\ (Margin + word.w <= pane.w => word.x + word.w <= pane.w)
    BY <1>2, <2>1 DEF HasRoom
  <2> QED BY <2>2 DEF word
<1>3. scroll = Larger(0, y + LineHeight \div 2 - high \div 2)
  BY <1>1 DEF ScrollOffset
<1> HIDE DEF y, high
<1>4. high \in Nat /\ high >= LineHeight
  BY DEF high, HasRoom
<1>5. y - scroll \in 0 .. high - LineHeight
  BY <1>1, <1>2, <1>3, <1>4 DEF Larger
<1> HIDE DEF scroll
<1>6. y - scroll + LineHeight >= 0 /\ y - scroll <= high
  BY <1>2, <1>4, <1>5
<1> QED BY <1>a, <1>5, <1>6 DEF Drawn, scroll, y, high

(* A page that is fitted into the pane is inside it.                       *)
LEMMA FittedInside ==
    ASSUME NEW page \in Sizes, NEW pane, pane.w \in Nat \ {0}, pane.h \in Nat \ {0}
    PROVE  LET fit == Fitted(page, pane) IN
           /\ fit.num \in Nat /\ fit.den \in Nat \ {0}
           /\ (page.w * fit.num) \div fit.den <= fit.w
           /\ (page.h * fit.num) \div fit.den <= fit.h
           /\ fit.w \in 1..pane.w /\ fit.h \in 1..pane.h
           /\ fit.x = (pane.w - fit.w) \div 2 /\ fit.y = (pane.h - fit.h) \div 2
<1> DEFINE pw == page.w
           ph == page.h
           cw == pane.w
           ch == pane.h
           fit == Fitted(page, pane)
<1>1. pw \in Nat \ {0} /\ ph \in Nat \ {0} /\ cw \in Nat \ {0} /\ ch \in Nat \ {0}
  BY DEF Sizes
<1>2. pw * ch \in Nat /\ ph * cw \in Nat /\ pw * cw \in Nat /\ ph * ch \in Nat
  BY <1>1
<1>3. CASE pw * ch >= ph * cw
  <2>1. /\ fit.num = cw /\ fit.den = pw
        /\ fit.w = Larger(1, (pw * cw) \div pw) /\ fit.h = Larger(1, (ph * cw) \div pw)
        /\ fit.x = (cw - fit.w) \div 2 /\ fit.y = (ch - fit.h) \div 2
    BY <1>3 DEF Fitted
  <2> HIDE DEF pw, ph, cw, ch, fit
  <2> DEFINE a == (pw * cw) \div pw
             b == (ph * cw) \div pw
  <2>2. a \in Nat /\ pw * a <= pw * cw
    BY <1>1, <1>2, Quotient
  <2>3. b \in Nat /\ pw * b <= pw * ch
    <3>1. b \in Nat /\ pw * b <= ph * cw
      BY <1>1, <1>2, Quotient
    <3> HIDE DEF b
    <3> QED BY <1>1, <1>2, <1>3, <3>1
  <2>4. fit.w = Larger(1, a) /\ fit.h = Larger(1, b)
    BY <2>1
  <2> HIDE DEF a, b
  <2>5. a <= cw /\ b <= ch
    BY <1>1, <2>2, <2>3
  <2>6. a <= fit.w /\ b <= fit.h /\ fit.w \in 1..cw /\ fit.h \in 1..ch
    BY <1>1, <2>2, <2>3, <2>4, <2>5 DEF Larger
  <2> QED BY <1>1, <2>1, <2>6 DEF pw, ph, cw, ch, fit, a, b
<1>4. CASE ~(pw * ch >= ph * cw)
  <2>1. /\ fit.num = ch /\ fit.den = ph
        /\ fit.w = Larger(1, (pw * ch) \div ph) /\ fit.h = Larger(1, (ph * ch) \div ph)
        /\ fit.x = (cw - fit.w) \div 2 /\ fit.y = (ch - fit.h) \div 2
    BY <1>4 DEF Fitted
  <2> HIDE DEF pw, ph, cw, ch, fit
  <2> DEFINE a == (pw * ch) \div ph
             b == (ph * ch) \div ph
  <2>2. b \in Nat /\ ph * b <= ph * ch
    BY <1>1, <1>2, Quotient
  <2>3. a \in Nat /\ ph * a <= ph * cw
    <3>1. a \in Nat /\ ph * a <= pw * ch
      BY <1>1, <1>2, Quotient
    <3> HIDE DEF a
    <3> QED BY <1>1, <1>2, <1>4, <3>1
  <2>4. fit.w = Larger(1, a) /\ fit.h = Larger(1, b)
    BY <2>1
  <2> HIDE DEF a, b
  <2>5. a <= cw /\ b <= ch
    BY <1>1, <2>2, <2>3
  <2>6. a <= fit.w /\ b <= fit.h /\ fit.w \in 1..cw /\ fit.h \in 1..ch
    BY <1>1, <2>2, <2>3, <2>4, <2>5 DEF Larger
  <2> QED BY <1>1, <2>1, <2>6 DEF pw, ph, cw, ch, fit, a, b
<1> QED BY <1>3, <1>4

(* Parts of a whole, scaled and cut off, are no more than the whole is.    *)
LEMMA ScaledTogether ==
    ASSUME NEW a \in Nat, NEW b \in Nat, NEW c \in Nat, a + b <= c,
           NEW num \in Nat, NEW den \in Nat \ {0}
    PROVE  /\ (a * num) \div den \in Nat /\ (b * num) \div den \in Nat
           /\ (a * num) \div den + (b * num) \div den <= (c * num) \div den
<1> DEFINE p == a * num
           q == b * num
           r == c * num
           x == p \div den
           y == q \div den
           z == r \div den
<1>1. p \in Nat /\ q \in Nat /\ r \in Nat /\ p + q <= r
  <2>1. p \in Nat /\ q \in Nat /\ r \in Nat
    OBVIOUS
  <2>2. PICK d \in Nat : c = (a + b) + d
    <3>1. c - (a + b) \in Nat /\ c = (a + b) + (c - (a + b))
      OBVIOUS
    <3> QED BY <3>1
  <2>3. d * num \in Nat
    OBVIOUS
  <2>4. r = (p + q) + d * num
    BY <2>2
  <2> HIDE DEF p, q, r
  <2> QED BY <2>1, <2>3, <2>4
<1> HIDE DEF p, q, r
<1>2. /\ x \in Nat /\ den * x <= p /\ y \in Nat /\ den * y <= q
      /\ z \in Nat /\ r < den * z + den
  BY <1>1, Quotient
<1> HIDE DEF x, y, z
<1>3. den * (x + y) < den * (z + 1)
  BY <1>1, <1>2
<1>4. x + y < z + 1
  <2> DEFINE u == x + y
             v == z + 1
  <2>1. u \in Nat /\ v \in Nat /\ den * u < den * v
    BY <1>2, <1>3
  <2> HIDE DEF u, v
  <2>2. u < v
    BY <2>1
  <2> QED BY <2>2 DEF u, v
<1> QED BY <1>2, <1>4 DEF x, y, z, p, q, r

(* The frames in which the presenter and a line of text have their room.   *)
Roomy(frame) == frame.w >= 170 /\ frame.h >= 34 /\ frame.h >= 2 * LineHeight

(* The pane is high enough for a line, with the presenter or without.      *)
LEMMA PaneHasRoom ==
    ASSUME NEW frame \in Sizes, Roomy(frame), NEW face \in Sizes, NEW percent \in Int,
           NEW position \in Positions
    PROVE  HasRoom(Composition(frame, face, position, percent).pane) /\ HasRoom(WholeFrame(frame))
<1> DEFINE size == FaceSize(frame, face, position, percent)
           pane == PaneSize(frame, size, position)
           made == Composition(frame, face, position, percent)
           rail == Smaller(frame.w - 1, size.w + 2 * OverlayMargin(frame))
<1>0. /\ frame.w \in Nat \ {0} /\ frame.h \in Nat \ {0} /\ LineHeight \in Nat
      /\ frame.w >= 170 /\ frame.h >= 2 * LineHeight /\ frame.h >= 34
  BY LayoutAssumption DEF Sizes, Roomy
<1>1. HasRoom(WholeFrame(frame))
  BY <1>0 DEF HasRoom, WholeFrame
<1>2. made.pane.w = pane.w /\ made.pane.h = pane.h
  <2>1. CASE position = "left" BY <2>1 DEF Composition
  <2>2. CASE position = "right" BY <2>2 DEF Composition
  <2>3. CASE position = "center" BY <2>3 DEF Composition
  <2>4. CASE position \in Corners
    <3>1. position \notin {"left", "right", "center"}
      BY <2>4 DEF Corners
    <3> QED BY <2>4, <3>1 DEF Composition
  <2> QED BY <2>1, <2>2, <2>3, <2>4 DEF Positions
<1> HIDE DEF made
<1>3. CASE position \in Corners
  <2>1. position # "center"
    BY <1>3 DEF Corners
  <2>2. pane.w = Larger(1, frame.w - rail) /\ pane.h = frame.h
    BY <1>3, <2>1 DEF PaneSize
  <2>3. OverlayMargin(frame) \in Nat /\ size.w \in Nat
    <3>1. size = Docked(frame, face, percent)
      BY <1>3 DEF FaceSize
    <3> QED BY <1>0, <3>1, DockedFits
  <2> DEFINE s == size.w + 2 * OverlayMargin(frame)
  <2>4. s \in Nat
    BY <2>3
  <2> HIDE DEF size, pane, s
  <2>5. pane.w = Larger(1, frame.w - Smaller(frame.w - 1, s))
    BY <2>2 DEF s
  <2>6. pane.w \in Nat \ {0}
    BY <1>0, <2>4, <2>5 DEF Larger, Smaller
  <2> QED BY <1>0, <1>1, <1>2, <2>2, <2>6 DEF HasRoom, made
<1>4. CASE position \notin Corners
  <2>1. /\ pane.w = (IF position = "center" THEN frame.w ELSE frame.w \div 2)
        /\ pane.h = (IF position = "center" THEN Larger(1, frame.h - size.h) ELSE frame.h)
        /\ size.h = (IF position = "center" THEN frame.h \div 2 ELSE frame.h)
    BY <1>4 DEF PaneSize, FaceSize
  <2> HIDE DEF size, pane
  <2>2. pane.w \in Nat \ {0} /\ pane.h \in Nat \ {0} /\ pane.h >= LineHeight
    BY <1>0, <2>1 DEF Larger
  <2> QED BY <1>1, <1>2, <2>2 DEF HasRoom, made
<1> QED BY <1>3, <1>4

(* Up to the offered scale at least half of the frame is left.             *)
LEMMA PaneHasHalf ==
    ASSUME NEW frame \in Sizes, Roomy(frame), NEW face \in Sizes, NEW percent \in Int,
           NEW position \in Positions, percent <= OfferedScale, frame.w >= SmallFrame
    PROVE  Composition(frame, face, position, percent).pane.w >= frame.w \div 2
<1> DEFINE size == FaceSize(frame, face, position, percent)
           pane == PaneSize(frame, size, position)
           margin == OverlayMargin(frame)
           rail == Smaller(frame.w - 1, size.w + 2 * margin)
<1>0. /\ frame.w \in Nat /\ frame.w >= 320 /\ frame.w >= 170 /\ frame.h >= 34
      /\ percent <= 40
  BY DEF Sizes, Roomy, OfferedScale, SmallFrame
<1>1. Composition(frame, face, position, percent).pane.w = pane.w
  <2>1. CASE position = "left" BY <2>1 DEF Composition
  <2>2. CASE position = "right" BY <2>2 DEF Composition
  <2>3. CASE position = "center" BY <2>3 DEF Composition
  <2>4. CASE position \in Corners
    <3>1. position \notin {"left", "right", "center"}
      BY <2>4 DEF Corners
    <3> QED BY <2>4, <3>1 DEF Composition
  <2> QED BY <2>1, <2>2, <2>3, <2>4 DEF Positions
<1>2. CASE position \in Corners
  <2>1. pane.w = Larger(1, frame.w - rail) /\ size = Docked(frame, face, percent)
    BY <1>2 DEF PaneSize, FaceSize, Corners
  <2>2. /\ margin \in Nat /\ size.w \in Nat /\ 100 * size.w <= 40 * frame.w
        /\ 100 * margin <= 3 * frame.w \/ margin = 16
    BY <1>0, <2>1, DockedFits
  <2> HIDE DEF pane, size, margin
  <2>3. 2 * (size.w + 2 * margin) <= frame.w
    BY <1>0, <2>2
  <2>4. pane.w >= frame.w \div 2
    BY <1>0, <2>1, <2>2, <2>3 DEF Larger, Smaller
  <2> QED BY <1>1, <2>4 DEF pane, size
<1>3. CASE position \notin Corners
  <2>1. pane.w = (IF position = "center" THEN frame.w ELSE frame.w \div 2)
    BY <1>3 DEF PaneSize
  <2> HIDE DEF pane
  <2>2. pane.w >= frame.w \div 2
    BY <1>0, <2>1
  <2> QED BY <1>1, <2>2 DEF pane
<1> QED BY <1>2, <1>3

(* Matching gives each word a box of a print, or none.                     *)
LEMMA MatchedBoxes ==
    ASSUME NEW prints, Len(prints) \in Nat, NEW X, NEW h \in Seq(X)
    PROVE  /\ Matched(Names(h), prints).boxes \in Seq(0..Len(prints))
           /\ Len(Matched(Names(h), prints).boxes) = Len(h)
<1> DEFINE Y == {x.name : x \in X}
           B == 0..Len(prints)
           M(u) == Matched(Names(u), prints)
           P == {u \in Seq(X) : M(u).boxes \in Seq(B) /\ Len(M(u).boxes) = Len(u)}
<1>0. \A x \in X : x.name \in Y
  OBVIOUS
<1> HIDE DEF Y
<1>a. Matching(Y, prints)
  BY MatchingHolds
<1>1. <<>> \in P
  <2>1. M(<<>>) = [cursor |-> 0, boxes |-> <<>>]
    BY <1>0, <1>a, NamesOf DEF Matching
  <2>2. <<>> \in Seq(X) /\ <<>> \in Seq(B) /\ Len(<<>>) = 0
    BY EmptySeq
  <2>3. M(<<>>).boxes = <<>>
    BY <2>1
  <2> HIDE DEF M, B
  <2> QED BY <2>2, <2>3
<1>2. ASSUME NEW u \in Seq(X), NEW w \in X, u \in P PROVE Append(u, w) \in P
  <2> DEFINE a == Append(u, w)
             acc == M(u)
             heard == w.name
             step == MatchStep(acc, heard, prints)
             us == Names(u)
  <2>1. a \in Seq(X) /\ Len(a) = Len(u) + 1
    BY AppendedOf
  <2>2. heard \in Y /\ us \in Seq(Y) /\ Names(a) = Append(us, heard)
    BY <1>0, NamesOf
  <2>3. M(a) = step /\ acc \in MatchState(prints)
    <3> HIDE DEF us, heard
    <3>1. Matched(Append(us, heard), prints) = MatchStep(Matched(us, prints), heard, prints)
          /\ Matched(us, prints) \in MatchState(prints)
      BY <1>a, <2>2 DEF Matching
    <3> QED BY <2>2, <3>1 DEF us
  <2>4. acc.boxes \in Seq(B) /\ Len(acc.boxes) = Len(u)
    BY <1>2
  <2> HIDE DEF acc, heard, a, M
  <2> DEFINE w0 == Window(acc.cursor, heard, prints)
  <2>5. /\ step \in MatchState(prints)
        /\ w0 = {} => step.boxes = Append(acc.boxes, 0)
        /\ w0 # {} => step.boxes = Append(acc.boxes, Min(w0))
    <3>1. StepCases(acc, heard, prints)
      BY <2>3, MatchStepCases
    <3> QED BY <3>1 DEF StepCases
  <2> HIDE DEF step, w0
  <2>6. PICK box : step.boxes = Append(acc.boxes, box)
    BY <2>5
  <2>7. step.boxes \in Seq(B)
    BY <2>5 DEF MatchState
  <2> HIDE DEF B
  <2> DEFINE bs == acc.boxes
  <2>8. bs \in Seq(B) /\ Len(bs) = Len(u) /\ step.boxes = Append(bs, box)
    BY <2>4, <2>6
  <2> HIDE DEF bs
  <2>9. Len(Append(bs, box)) = Len(bs) + 1
    BY <2>8
  <2>10. M(a).boxes \in Seq(B) /\ Len(M(a).boxes) = Len(a)
    BY <2>1, <2>3, <2>7, <2>8, <2>9
  <2> QED BY <2>1, <2>10 DEF a
<1> HIDE DEF P
<1>3. \A u \in Seq(X) : u \in P
  BY <1>1, <1>2, SequenceInduction
<1> QED BY <1>3 DEF P

(* Where a printed word is on the fitted page.                             *)
LEMMA PlacedInPane ==
    ASSUME NEW size \in Sizes, NEW pane, HasRoom(pane), NEW n \in Nat, NEW at \in 1..n
    PROVE  LET width == size.w \div (n + 1)
               fit == Fitted(size, pane)
               x == ((at * width) * fit.num) \div fit.den + fit.x
               y == (((size.h * 3) \div 4) * fit.num) \div fit.den + fit.y
               w == (width * fit.num) \div fit.den
           IN  x >= 0 /\ x + w <= pane.w /\ y \in 0..pane.h
<1> DEFINE width == size.w \div (n + 1)
           low == (size.h * 3) \div 4
           fit == Fitted(size, pane)
           left == at * width
           p == (left * fit.num) \div fit.den
           q == (low * fit.num) \div fit.den
           w == (width * fit.num) \div fit.den
           whole == (size.w * fit.num) \div fit.den
           high == (size.h * fit.num) \div fit.den
<1>0. /\ size.w \in Nat \ {0} /\ size.h \in Nat \ {0} /\ pane.w \in Nat \ {0} /\ pane.h \in Nat \ {0}
      /\ at \in Nat /\ at <= n
  BY DEF HasRoom, Sizes
<1>1. /\ fit.num \in Nat /\ fit.den \in Nat \ {0} /\ whole <= fit.w /\ high <= fit.h
      /\ fit.w \in 1..pane.w /\ fit.h \in 1..pane.h
      /\ fit.x = (pane.w - fit.w) \div 2 /\ fit.y = (pane.h - fit.h) \div 2
  BY <1>0, FittedInside
<1>2. width \in Nat /\ (n + 1) * width <= size.w
  <2> DEFINE m == n + 1
  <2>1. m \in Nat \ {0}
    OBVIOUS
  <2> HIDE DEF m
  <2>2. size.w \div m \in Nat /\ m * (size.w \div m) <= size.w
    BY <1>0, <2>1, Quotient
  <2> QED BY <2>2 DEF m
<1>3. low \in Nat /\ low <= size.h
  BY <1>0
<1> HIDE DEF width, low, fit
<1>4. left \in Nat /\ left + width <= size.w
  <2>1. left \in Nat
    BY <1>0, <1>2
  <2>2. PICK d \in Nat : n = at + d
    <3>1. n - at \in Nat /\ n = at + (n - at)
      BY <1>0
    <3> QED BY <3>1
  <2>3. d * width \in Nat
    BY <1>2
  <2>4. (n + 1) * width = left + d * width + width
    BY <1>0, <1>2, <2>2
  <2> HIDE DEF left
  <2> QED BY <1>0, <1>2, <2>1, <2>3, <2>4
<1> HIDE DEF left
<1>5. p \in Nat /\ w \in Nat /\ p + w <= whole
  BY <1>0, <1>1, <1>2, <1>4, ScaledTogether
<1>6. q \in Nat /\ q <= high
  <2>1. 0 \in Nat /\ low + 0 <= size.h
    BY <1>0, <1>3
  <2>2. q \in Nat /\ (0 * fit.num) \div fit.den \in Nat
        /\ q + (0 * fit.num) \div fit.den <= high
    BY <1>0, <1>1, <1>3, <2>1, ScaledTogether
  <2>3. high \in Nat
    <3>1. size.h * fit.num \in Nat
      BY <1>0, <1>1
    <3> QED BY <1>1, <3>1, Quotient
  <2> DEFINE zero == (0 * fit.num) \div fit.den
  <2> HIDE DEF q, high, zero
  <2>4. q \in Nat /\ zero \in Nat /\ q + zero <= high
    BY <2>2 DEF zero
  <2> QED BY <2>3, <2>4
<1>7. whole \in Nat /\ high \in Nat
  <2>1. size.h * fit.num \in Nat /\ size.w * fit.num \in Nat
    BY <1>0, <1>1
  <2> QED BY <1>1, <2>1, Quotient
<1> DEFINE x == p + fit.x
           y == q + fit.y
<1> HIDE DEF p, q, w, whole, high
<1>8. x >= 0 /\ x + w <= pane.w /\ y \in 0..pane.h
  BY <1>0, <1>1, <1>5, <1>6, <1>7
<1> QED BY <1>8 DEF x, y, p, q, w, left, low, width, fit

(* A first part of what is joined.                                         *)
LEMMA BeforeIs ==
    ASSUME Staged, stage \in {"build", "composed"}, NEW k \in DOMAIN aligned
    PROVE  /\ k \in 1..Len(HeardOfEach) /\ WordsOf(k) = HeardOfEach[k]
           /\ Before(k) = UpTo(HeardOfEach, k - 1)
           /\ \A i \in 1..Len(WordsOf(k)) : /\ Before(k) + i \in 1..Len(Heard)
                                            /\ Heard[Before(k) + i] = WordsOf(k)[i]
<1> DEFINE hh == HeardOfEach
<1>1. hh \in Seq(Seq(AnyHeard)) /\ Heard = FlattenSeq(hh)
  BY HeardPieces DEF Heard, HeardOfEach
<1>2. DOMAIN hh = DOMAIN aligned /\ hh[k] = WordsOf(k)
  BY DEF HeardOfEach
<1>3. Len(hh) \in Nat /\ k \in 1..Len(hh)
  BY <1>1, <1>2, LenProperties
<1>4. SubSeq(hh, 1, k - 1) = [j \in 1..k - 1 |-> WordsOf(j)]
  <2>1. ASSUME NEW j \in 1..k - 1 PROVE hh[j] = WordsOf(j)
    <3>1. j \in 1..Len(hh)
      BY <1>3
    <3>2. j \in DOMAIN aligned
      BY <1>1, <1>2, <3>1, LenProperties
    <3> QED BY <3>2 DEF HeardOfEach
  <2> HIDE DEF hh
  <2>2. 1 + (k - 1) - 1 = k - 1 /\ \A j \in 1..k - 1 : j + 1 - 1 = j
    BY <1>3
  <2>3. SubSeq(hh, 1, k - 1) = [j \in 1..k - 1 |-> hh[j]]
    BY <1>3, <2>2
  <2> QED BY <2>1, <2>3
<1>5. Before(k) = UpTo(hh, k - 1)
  BY <1>4 DEF Before, UpTo, Printed
<1> HIDE DEF hh
<1>6. \A i \in 1..Len(hh[k]) : UpTo(hh, k - 1) + i \in 1..Len(FlattenSeq(hh))
                               /\ FlattenSeq(hh)[UpTo(hh, k - 1) + i] = hh[k][i]
  BY <1>1, <1>3, FlattenPlace
<1> QED BY <1>1, <1>2, <1>3, <1>5, <1>6 DEF hh

(* The page of a printed word is one of the document's.                    *)
LEMMA PageOfPrint ==
    ASSUME Staged, stage \in {"build", "composed"}, NEW at \in 1..Len(Prints)
    PROVE  PageOf(at) \in 1..Len(request.pages) /\ at \in OnPage(request.pages, PageOf(at))
<1>1. request.pages \in Seq(Seq(PrintOf(Written)))
  BY WrittenWords DEF Staged
<1> DEFINE pages == request.pages
<1>2. PageOf(at) = PageOfPlace(pages, at)
  BY DEF PageOfPlace, PageOf, OnPage, Start, UpTo
<1>3. DOMAIN pages = 1..Len(pages)
  BY <1>1, LenProperties
<1> HIDE DEF pages
<1>4. PICK p \in 1..Len(pages) : at \in OnPage(pages, p)
  BY <1>1, OnSomePage DEF Prints, pages
<1>5. PageOfPlace(pages, at) = p
  BY <1>1, <1>3, <1>4, OnOnePage DEF pages
<1> QED BY <1>2, <1>4, <1>5 DEF pages

(* The box of each word of a chunk is that of a print, or none.            *)
LEMMA BoxesOf ==
    ASSUME Staged, stage \in {"build", "composed"}, NEW k \in DOMAIN aligned
    PROVE  /\ Len(Prints) \in Nat /\ Len(WordsOf(k)) \in Nat
           /\ DOMAIN WordsOf(k) = 1..Len(WordsOf(k))
           /\ \A i \in DOMAIN WordsOf(k) : Boxes[Before(k) + i] \in 0..Len(Prints)
<1>1. HeardOfEach \in Seq(Seq(AnyHeard)) /\ Heard = FlattenSeq(HeardOfEach)
  BY HeardPieces DEF Heard, HeardOfEach
<1>2. k \in 1..Len(HeardOfEach) /\ WordsOf(k) = HeardOfEach[k]
  BY BeforeIs
<1>3. WordsOf(k) \in Seq(AnyHeard)
  BY <1>1, <1>2, ElementOfSeq
<1>4. Heard \in Seq(AnyHeard)
  BY <1>1, FlattenAppend
<1>5. Len(Prints) \in Nat
  BY PrintsOfDocument
<1>6. Boxes = Matched(Names(Heard), Prints).boxes
  BY DEF Boxes, Match, Matched, Names
<1>7. Boxes \in Seq(0..Len(Prints)) /\ Len(Boxes) = Len(Heard)
  BY <1>4, <1>5, <1>6, MatchedBoxes
<1>8. DOMAIN WordsOf(k) = 1..Len(WordsOf(k)) /\ Len(WordsOf(k)) \in Nat
  BY <1>3, LenProperties
<1>9. ASSUME NEW i \in 1..Len(WordsOf(k)) PROVE Boxes[Before(k) + i] \in 0..Len(Prints)
  <2>1. Before(k) + i \in 1..Len(Boxes)
    BY <1>7, BeforeIs
  <2> QED BY <1>7, <2>1, ElementOfSeq
<1> QED BY <1>5, <1>8, <1>9

(* The page that is shown is that of the word that is spoken, if it is on  *)
(* one.                                                                    *)
LEMMA ShownIsOwn ==
    ASSUME NEW n \in Nat, NEW layout, DOMAIN layout = 1..n, NEW i \in 1..n, layout[i].page > 0
    PROVE  ShownPage(layout, i) = layout[i].page
<1> DEFINE placed == {j \in DOMAIN layout : layout[j].page > 0}
           before == {j \in placed : i # 0 /\ j <= i}
<1>1. i \in before /\ before \in SUBSET (1..n) /\ \A j \in before : j <= i
  OBVIOUS
<1>2. ShownPage(layout, i) = layout[Max(before)].page
  BY <1>1 DEF ShownPage
<1> HIDE DEF before
<1>3. Max(before) \in before /\ Max(before) >= i
  BY <1>1, MaxOf
<1>4. Max(before) = i
  BY <1>1, <1>3
<1> QED BY <1>2, <1>4

(* While a word is spoken, the page of its box is shown, and its box is in *)
(* the pane.                                                               *)
LEMMA BoxInSight ==
    ASSUME Staged, stage \in {"build", "composed"}, NEW k \in DOMAIN aligned,
           NEW pane, HasRoom(pane)
    PROVE  BoxVisible(k, pane)
<1> DEFINE m == Len(WordsOf(k))
           n == Len(Prints)
           boxes == [i \in DOMAIN WordsOf(k) |-> BoxOf(Boxes[Before(k) + i])]
           layout == LayoutOnPage(boxes, PageSize, pane)
           fit == Fitted(PageSize, pane)
           width == PageSize.w \div (n + 1)
<1>1. n \in Nat /\ m \in Nat /\ DOMAIN WordsOf(k) = 1..m
      /\ \A i \in 1..m : Boxes[Before(k) + i] \in 0..n
  BY BoxesOf
<1>2. DOMAIN layout = 1..m
  BY <1>1 DEF LayoutOnPage
<1>3. PageSize \in Sizes
  BY PictureAssumption
<1>4. ASSUME NEW i \in 1..m, layout[i].page # 0
      PROVE  /\ ShownPage(layout, i) = layout[i].page
             /\ layout[i].x >= 0 /\ layout[i].x + layout[i].w <= pane.w
             /\ layout[i].y \in 0 .. pane.h
  <2> DEFINE at == Boxes[Before(k) + i]
             box == BoxOf(at)
  <2>1. boxes[i] = box
    BY <1>1
  <2>2. layout[i] = IF box.page = 0 THEN [x |-> 0, y |-> 0, w |-> 0, page |-> 0]
                    ELSE [x |-> (box.x * fit.num) \div fit.den + fit.x,
                          y |-> (box.y * fit.num) \div fit.den + fit.y,
                          w |-> (box.w * fit.num) \div fit.den,
                          page |-> box.page]
    BY <1>1, <2>1 DEF LayoutOnPage
  <2>3. box.page # 0
    BY <1>4, <2>2
  <2>4. at # 0
    BY <2>3 DEF BoxOf
  <2>5. at \in 1..n
    BY <1>1, <2>4
  <2>6. box = [x |-> at * width, y |-> (PageSize.h * 3) \div 4, w |-> width, page |-> PageOf(at)]
    BY <2>4 DEF BoxOf
  <2> HIDE DEF at, layout, boxes, fit, width, n, m
  <2>7. /\ layout[i].x = ((at * width) * fit.num) \div fit.den + fit.x
        /\ layout[i].y = (((PageSize.h * 3) \div 4) * fit.num) \div fit.den + fit.y
        /\ layout[i].w = (width * fit.num) \div fit.den
        /\ layout[i].page = PageOf(at)
    BY <2>2, <2>3, <2>6
  <2>8. layout[i].x >= 0 /\ layout[i].x + layout[i].w <= pane.w /\ layout[i].y \in 0..pane.h
    BY <1>1, <1>3, <2>5, <2>7, PlacedInPane DEF width, fit
  <2>9. layout[i].page > 0
    <3>1. at \in 1..Len(Prints)
      BY <2>5 DEF n
    <3>2. PageOf(at) \in 1..Len(request.pages)
      BY <3>1, PageOfPrint
    <3>3. Len(request.pages) \in Nat
      BY WrittenWords, LenProperties DEF Staged
    <3> QED BY <2>7, <3>2, <3>3
  <2>10. ShownPage(layout, i) = layout[i].page
    BY <1>1, <1>2, <2>9, ShownIsOwn
  <2> QED BY <2>8, <2>10
<1> HIDE DEF layout
<1>5. \A i \in DOMAIN layout : layout[i].page # 0 =>
            /\ ShownPage(layout, i) = layout[i].page
            /\ layout[i].x >= 0 /\ layout[i].x + layout[i].w <= pane.w
            /\ layout[i].y \in 0 .. pane.h
  BY <1>2, <1>4
<1> QED BY <1>5 DEF BoxVisible, layout

(* While a word is spoken, it is drawn in its line.                        *)
LEMMA TextInSight ==
    ASSUME Staged, stage \in {"build", "composed"}, NEW k \in DOMAIN aligned,
           NEW pane, HasRoom(pane)
    PROVE  TextVisible(k, pane)
<1> DEFINE words == [i \in DOMAIN WordsOf(k) |-> WordsOf(k)[i].name]
           layout == LayoutText(words, pane)
<1>1. WordsOf(k) \in Seq(AnyHeard)
  <2>1. HeardOfEach \in Seq(Seq(AnyHeard)) /\ k \in 1..Len(HeardOfEach)
        /\ WordsOf(k) = HeardOfEach[k]
    BY HeardPieces, BeforeIs
  <2> QED BY <2>1, ElementOfSeq
<1>2. words = Names(WordsOf(k))
  BY DEF Names
<1>3. \A x \in AnyHeard : x.name \in DOMAIN WordWidth
  BY PictureAssumption DEF AnyHeard, TimedWord, Sounds, Written
<1> HIDE DEF words
<1>4. words \in Seq(DOMAIN WordWidth)
  BY <1>1, <1>2, <1>3, NamesOf
<1>5. layout \in Seq(LaidWord(pane))
  BY <1>4, LayoutTextOf DEF HasRoom
<1> HIDE DEF layout
<1>6. \A i \in DOMAIN layout :
        LET scroll == ScrollOffset(layout, i, pane) IN
        /\ Drawn(layout, i, scroll, pane)
        /\ layout[i].y - scroll \in 0 .. pane.h - LineHeight
        /\ layout[i].x >= 0
        /\ Margin + layout[i].w <= pane.w => layout[i].x + layout[i].w <= pane.w
  BY <1>5, ScrolledIntoSight
<1> QED BY <1>6 DEF TextVisible, layout, words

(* In frames in which they have their room, the presenter never covers the *)
(* reading pane, whatever the shape of its clip, and both are in the       *)
(* frame; up to the scale that the settings offer, the pane has half of a  *)
(* frame that is not too small; and the word that is spoken is drawn in    *)
(* the pane, or in the whole frame: scrolled into sight and within the     *)
(* width, if the pane has room for the word beside a margin, or on the     *)
(* page that is shown (video_composer.py, highlight_renderer.py,           *)
(* page_renderer.py).                                                      *)
THEOREM PresenterIsClear ==
    ASSUME \A p \in Pictures : Roomy(p.frame)
    PROVE  Spec => []PresenterClear
<1>1. ASSUME Staged, stage = "composed", picture \in Pictures PROVE PresenterClear
  <2> DEFINE Made(f) == Composition(picture.frame, picture.faces[f], picture.position,
                                    picture.percent)
  <2>1. /\ picture.frame \in Sizes /\ picture.faces \in Seq(Sizes)
        /\ picture.position \in Positions /\ picture.percent \in Int
        /\ Roomy(picture.frame)
    BY <1>1, PictureAssumption
  <2>2. ASSUME NEW f \in DOMAIN picture.faces
        PROVE  /\ Inside(Made(f).face, picture.frame)
               /\ Inside(Made(f).pane, picture.frame)
               /\ Apart(Made(f).face, Made(f).pane)
               /\ HasRoom(Made(f).pane)
               /\ picture.percent <= OfferedScale /\ picture.frame.w >= SmallFrame =>
                    Made(f).pane.w >= picture.frame.w \div 2
    <3>1. picture.faces[f] \in Sizes
      BY <2>1, ElementOfSeq, LenProperties
    <3>2. picture.percent <= OfferedScale /\ picture.frame.w >= SmallFrame =>
            Made(f).pane.w >= picture.frame.w \div 2
      BY <2>1, <3>1, PaneHasHalf
    <3> QED BY <2>1, <3>1, <3>2, PresenterIsApart, PaneHasRoom DEF Roomy
  <2>3. HasRoom(WholeFrame(picture.frame))
    BY <2>1, LayoutAssumption DEF HasRoom, WholeFrame, Roomy, Sizes
  <2> HIDE DEF Made
  <2>4. ASSUME NEW pane \in {Made(f).pane : f \in DOMAIN picture.faces}
                              \cup {WholeFrame(picture.frame)},
               NEW k \in DOMAIN aligned
        PROVE  TextVisible(k, pane) /\ BoxVisible(k, pane)
    <3>1. HasRoom(pane)
      BY <2>2, <2>3
    <3> QED BY <1>1, <3>1, TextInSight, BoxInSight
  <2>5. /\ \A f \in DOMAIN picture.faces :
            /\ Inside(Made(f).face, picture.frame)
            /\ Inside(Made(f).pane, picture.frame)
            /\ Apart(Made(f).face, Made(f).pane)
            /\ picture.percent <= OfferedScale /\ picture.frame.w >= SmallFrame =>
                 Made(f).pane.w >= picture.frame.w \div 2
        /\ \A pane \in {Made(f).pane : f \in DOMAIN picture.faces}
                         \cup {WholeFrame(picture.frame)} :
            \A k \in DOMAIN aligned : TextVisible(k, pane) /\ BoxVisible(k, pane)
    BY <2>2, <2>4
  <2> QED BY <2>5 DEF PresenterClear, Made
<1>2. Staged => PresenterClear
  BY <1>1 DEF PresenterClear, Staged
<1> QED BY <1>2, StagedInvariant, PTL

-----------------------------------------------------------------------------
(* Searching.                                                              *)

(* A search ends at some places, with a value, and goes on at the others.  *)
IsSearch(f, D, ends, v, next) ==
    f = [r \in D |-> IF r \in ends THEN v[r] ELSE f[next[r]]]

(* Each step of it is shorter than the one before.                         *)
Shortens(D, ends, next, size) ==
    /\ next \in [D \ ends -> D] /\ size \in [D -> Nat]
    /\ \A r \in D \ ends : size[next[r]] < size[r]

(* A search that gets shorter finds something from every place.            *)
LEMMA SearchExists ==
    ASSUME NEW D, NEW ends, NEW v, NEW next, NEW size, Shortens(D, ends, next, size),
           NEW n \in Nat, \A r \in D : size[r] < n
    PROVE  \E f : IsSearch(f, D, ends, v, next)
<1> DEFINE Near(m) == {r \in D : size[r] < m}
           Found(g, m) == /\ DOMAIN g = Near(m)
                          /\ \A r \in Near(m) : g[r] = IF r \in ends THEN v[r] ELSE g[next[r]]
           P == {m \in Nat : \E g : Found(g, m)}
<1>0. /\ \A r \in D : size[r] \in Nat
      /\ \A r \in D \ ends : next[r] \in D /\ size[next[r]] < size[r]
  BY DEF Shortens
<1>1. 0 \in P
  <2>1. Near(0) = {}
    BY <1>0
  <2> DEFINE g == [r \in {} |-> 0]
  <2>2. Found(g, 0)
    BY <2>1
  <2> QED BY <2>2
<1>2. ASSUME NEW m \in Nat, m \in P PROVE m + 1 \in P
  <2>1. PICK g : Found(g, m)
    BY <1>2
  <2> DEFINE h == [r \in Near(m + 1) |-> IF r \in ends THEN v[r] ELSE g[next[r]]]
  <2>2. ASSUME NEW r \in Near(m + 1), r \notin ends PROVE next[r] \in Near(m) /\ next[r] \in Near(m + 1)
    BY <1>0, <2>2
  <2>3. ASSUME NEW r \in Near(m) PROVE r \in Near(m + 1) /\ h[r] = g[r]
    <3>1. r \in Near(m + 1)
      BY <1>0
    <3> QED BY <2>1, <3>1
  <2>4. ASSUME NEW r \in Near(m + 1) PROVE h[r] = IF r \in ends THEN v[r] ELSE h[next[r]]
    BY <2>2, <2>3
  <2>5. Found(h, m + 1)
    BY <2>4
  <2> HIDE DEF h, Found
  <2>6. m + 1 \in Nat
    OBVIOUS
  <2> QED BY <2>5, <2>6
<1> HIDE DEF P
<1>3. n \in P
  BY <1>1, <1>2, Induction
<1>4. PICK g : Found(g, n)
  BY <1>3 DEF P
<1>5. Near(n) = D
  OBVIOUS
<1> DEFINE f == [r \in D |-> g[r]]
<1>6. ASSUME NEW r \in D PROVE f[r] = IF r \in ends THEN v[r] ELSE f[next[r]]
  BY <1>0, <1>4, <1>5
<1>7. f = [r \in D |-> IF r \in ends THEN v[r] ELSE f[next[r]]]
  BY <1>6
<1> QED BY <1>7 DEF IsSearch

(* From good places it stays among them, until it ends with a good value.  *)
Leads(good, D, ends, v, next, X) ==
    /\ good \subseteq D
    /\ \A r \in good : IF r \in ends THEN v[r] \in X ELSE next[r] \in good

(* A search from a good place finds a good value.                          *)
LEMMA SearchFinds ==
    ASSUME NEW D, NEW ends, NEW v, NEW next, NEW size, Shortens(D, ends, next, size),
           NEW f, IsSearch(f, D, ends, v, next),
           NEW good, NEW X, Leads(good, D, ends, v, next, X)
    PROVE  \A r \in good : f[r] \in X
<1> DEFINE P == {m \in Nat : \A r \in good : size[r] < m => f[r] \in X}
<1>0. /\ \A r \in D : size[r] \in Nat
      /\ \A r \in D \ ends : next[r] \in D /\ size[next[r]] < size[r]
  BY DEF Shortens
<1>a. /\ good \subseteq D
      /\ \A r \in good : IF r \in ends THEN v[r] \in X ELSE next[r] \in good
  BY DEF Leads
<1>1. 0 \in P
  BY <1>0, <1>a
<1>2. ASSUME NEW m \in Nat, m \in P PROVE m + 1 \in P
  <2>1. ASSUME NEW r \in good, size[r] < m + 1 PROVE f[r] \in X
    <3>1. f[r] = IF r \in ends THEN v[r] ELSE f[next[r]]
      BY <1>a DEF IsSearch
    <3>2. CASE r \in ends
      BY <1>a, <3>1, <3>2
    <3>3. CASE r \notin ends
      <4>1. next[r] \in good /\ size[next[r]] < size[r] /\ next[r] \in D /\ r \in D
        BY <1>0, <1>a, <3>3
      <4>2. size[next[r]] < m
        BY <1>0, <2>1, <4>1
      <4> QED BY <1>2, <3>1, <3>3, <4>1, <4>2
    <3> QED BY <3>2, <3>3
  <2> QED BY <2>1
<1> HIDE DEF P
<1>3. \A m \in Nat : m \in P
  BY <1>1, <1>2, Induction
<1>4. ASSUME NEW r \in good PROVE f[r] \in X
  <2>1. size[r] \in Nat /\ size[r] < size[r] + 1 /\ size[r] + 1 \in Nat
    BY <1>0, <1>a
  <2> QED BY <1>3, <2>1 DEF P
<1> QED BY <1>4

-----------------------------------------------------------------------------
(* The word that is spoken.                                                *)

(* Words that are spoken one after the other: one may end when the next    *)
(* one begins, and no later.                                               *)
InTurn(words) ==
    /\ Len(words) \in Nat /\ DOMAIN words = 1..Len(words)
    /\ \A j \in 1..Len(words) :
         words[j].start \in Int /\ words[j].end \in Int /\ words[j].start <= words[j].end
    /\ \A j, l \in 1..Len(words) : j < l => words[j].end <= words[l].start

(* At this time this word is spoken, and perhaps one of its neighbours.    *)
Speaking(words, t, i) == InTurn(words) /\ t \in Int /\ i \in SpokenAt(words, t)

(* The words before it have begun, and those after it have not ended.      *)
LEMMA SpeakingAmong ==
    ASSUME NEW words, NEW t, NEW i, Speaking(words, t, i)
    PROVE  /\ Len(words) \in Nat /\ DOMAIN words = 1..Len(words) /\ i \in 1..Len(words)
           /\ t \in Int
           /\ \A j \in 1..Len(words) :
                /\ words[j].start \in Int /\ words[j].end \in Int
                /\ words[j].start <= words[j].end
                /\ j <= i => words[j].start <= t
                /\ j >= i => t <= words[j].end
<1> DEFINE n == Len(words)
<1>1. /\ n \in Nat /\ DOMAIN words = 1..n /\ t \in Int
      /\ \A j \in 1..n :
           words[j].start \in Int /\ words[j].end \in Int /\ words[j].start <= words[j].end
      /\ \A j, l \in 1..n : j < l => words[j].end <= words[l].start
  BY DEF Speaking, InTurn
<1>2. i \in 1..n /\ words[i].start <= t /\ t <= words[i].end
  BY <1>1 DEF Speaking, SpokenAt
<1> HIDE DEF n
<1>3. ASSUME NEW j \in 1..n
      PROVE  /\ j <= i => words[j].start <= t
             /\ j >= i => t <= words[j].end
  <2>1. CASE j = i
    BY <1>2, <2>1
  <2>2. CASE j < i
    <3>1. words[j].end <= words[i].start
      BY <1>1, <1>2, <2>2
    <3>2. words[j].start <= t
      BY <1>1, <1>2, <3>1
    <3> QED BY <1>1, <1>2, <2>2, <3>2
  <2>3. CASE i < j
    <3>1. words[i].end <= words[j].start
      BY <1>1, <1>2, <2>3
    <3>2. t <= words[j].end
      BY <1>1, <1>2, <3>1
    <3> QED BY <1>1, <1>2, <2>3, <3>2
  <2> QED BY <1>1, <1>2, <2>1, <2>2, <2>3
<1> QED BY <1>1, <1>2, <1>3 DEF n

(* The video's clip marks a word that is spoken.                           *)
LEMMA ActiveSpeaking ==
    ASSUME NEW words, NEW t, NEW i, Speaking(words, t, i)
    PROVE  Active(words, t) \in SpokenAt(words, t)
<1> DEFINE now == SpokenAt(words, t)
<1>1. i \in now /\ now \subseteq Nat
  BY SpeakingAmong DEF Speaking, SpokenAt
<1>2. Active(words, t) = Min(now)
  BY <1>1 DEF Active, SpokenAt
<1> HIDE DEF now
<1>3. PICK k \in now : \A y \in now : k <= y
  BY <1>1, Least
<1>4. Min(now) \in now
  BY <1>3 DEF Min
<1> QED BY <1>2, <1>4 DEF now

(* The halves of a search.                                                 *)
Middle(r) == (r.lo + r.hi) \div 2
Lower(r) == [r EXCEPT !.hi = Middle(r) - 1]
Upper(r) == [r EXCEPT !.lo = Middle(r) + 1, !.best = Middle(r)]
Distance(words) == [r \in Bounds(words) |-> r.hi - r.lo + Len(words) + 1]

(* Both halves are in bounds, and shorter.                                 *)
LEMMA HalvesOf ==
    ASSUME NEW words, Len(words) \in Nat, NEW r \in Bounds(words)
    PROVE  /\ r.lo \in Int /\ r.hi \in Int /\ r.best \in Int
           /\ Distance(words)[r] \in 0 .. 2 * Len(words)
           /\ ~(r.lo > r.hi) =>
                /\ Middle(r) + 1 \in 1..Len(words) /\ Middle(r) \in r.lo .. r.hi
                /\ Lower(r) \in Bounds(words) /\ Upper(r) \in Bounds(words)
                /\ Distance(words)[Lower(r)] < Distance(words)[r]
                /\ Distance(words)[Upper(r)] < Distance(words)[r]
                /\ Lower(r).lo = r.lo /\ Lower(r).hi = Middle(r) - 1 /\ Lower(r).best = r.best
                /\ Upper(r).lo = Middle(r) + 1 /\ Upper(r).hi = r.hi /\ Upper(r).best = Middle(r)
<1> DEFINE n == Len(words)
           m == Middle(r)
<1>1. n \in Nat /\ r.lo \in 0..n /\ r.hi \in -1..n - 1 /\ r.best \in -1..n - 1
      /\ r = [lo |-> r.lo, hi |-> r.hi, best |-> r.best]
  BY DEF Bounds
<1>2. Distance(words)[r] = r.hi - r.lo + n + 1
  BY DEF Distance
<1>3. ASSUME r.lo <= r.hi
      PROVE  m \in Int /\ r.lo <= m /\ m <= r.hi
  BY <1>1, <1>3 DEF Middle
<1>4. Lower(r) = [lo |-> r.lo, hi |-> m - 1, best |-> r.best]
  BY <1>1 DEF Lower
<1>5. Upper(r) = [lo |-> m + 1, hi |-> r.hi, best |-> m]
  <2> DEFINE low == m + 1
             u == [r EXCEPT !.lo = low]
  <2>1. Upper(r) = [u EXCEPT !.best = m]
    BY DEF Upper
  <2> HIDE DEF low, m
  <2>2. u = [lo |-> low, hi |-> r.hi, best |-> r.best]
    BY <1>1
  <2> HIDE DEF u
  <2>3. [u EXCEPT !.best = m] = [lo |-> low, hi |-> r.hi, best |-> m]
    BY <2>2
  <2> QED BY <2>1, <2>3 DEF low
<1> HIDE DEF m
<1>6. ASSUME r.lo <= r.hi PROVE Lower(r) \in Bounds(words) /\ Upper(r) \in Bounds(words)
  BY <1>1, <1>3, <1>4, <1>5, <1>6 DEF Bounds
<1>7. ASSUME r.lo <= r.hi
      PROVE  /\ Distance(words)[Lower(r)] = (m - 1) - r.lo + n + 1
             /\ Distance(words)[Upper(r)] = r.hi - (m + 1) + n + 1
  BY <1>4, <1>5, <1>6, <1>7 DEF Distance
<1> QED BY <1>1, <1>2, <1>3, <1>4, <1>5, <1>6, <1>7 DEF m

(* And so does findActiveWordIndex.                                        *)
LEMMA ReaderSpeaking ==
    ASSUME NEW words, NEW t, NEW i, Speaking(words, t, i)
    PROVE  ReaderActive(words, t) + 1 \in SpokenAt(words, t)
<1> DEFINE n == Len(words)
           D == Bounds(words)
           W(r) == words[Middle(r) + 1]
           ends == {r \in D : r.lo > r.hi \/ (~(t < W(r).start) /\ ~(t > W(r).end))}
           v == [r \in D |-> IF r.lo > r.hi THEN r.best ELSE Middle(r)]
           next == [r \in D \ ends |-> IF t < W(r).start THEN Lower(r) ELSE Upper(r)]
           good == {r \in D : r.lo <= i - 1 /\ i - 1 <= r.hi}
           Rec(g) == g = [r \in Bounds(words) |->
                            LET mid == (r.lo + r.hi) \div 2
                                w == words[mid + 1]
                            IN  IF r.lo > r.hi THEN r.best
                                ELSE IF t < w.start THEN g[[r EXCEPT !.hi = mid - 1]]
                                ELSE IF t > w.end THEN g[[r EXCEPT !.lo = mid + 1, !.best = mid]]
                                ELSE mid]
           X == {x \in Int : x + 1 \in SpokenAt(words, t)}
<1>0. /\ n \in Nat /\ DOMAIN words = 1..n /\ i \in 1..n /\ t \in Int
      /\ \A j \in 1..n : /\ words[j].start \in Int /\ words[j].end \in Int
                         /\ words[j].start <= words[j].end
                         /\ j <= i => words[j].start <= t
                         /\ j >= i => t <= words[j].end
  BY SpeakingAmong
<1>1. Shortens(D, ends, next, Distance(words))
  <2>1. ASSUME NEW r \in D \ ends
        PROVE  next[r] \in D /\ Distance(words)[next[r]] < Distance(words)[r]
    <3>1. ~(r.lo > r.hi) /\ next[r] \in {Lower(r), Upper(r)}
      OBVIOUS
    <3> QED BY <1>0, <3>1, HalvesOf
  <2>2. Distance(words) \in [D -> Nat]
    <3>1. \A r \in D : Distance(words)[r] \in Nat
      BY <1>0, HalvesOf
    <3> QED BY <3>1 DEF Distance
  <2>3. next \in [D \ ends -> D]
    BY <2>1
  <2> QED BY <2>1, <2>2, <2>3 DEF Shortens
<1>2. \A g : Rec(g) <=> IsSearch(g, D, ends, v, next)
  <2> SUFFICES ASSUME NEW g PROVE Rec(g) <=> IsSearch(g, D, ends, v, next)
    OBVIOUS
  <2>1. ASSUME NEW r \in D
        PROVE  (LET mid == (r.lo + r.hi) \div 2
                   w == words[mid + 1]
               IN  IF r.lo > r.hi THEN r.best
                   ELSE IF t < w.start THEN g[[r EXCEPT !.hi = mid - 1]]
                   ELSE IF t > w.end THEN g[[r EXCEPT !.lo = mid + 1, !.best = mid]]
                   ELSE mid)
               = IF r \in ends THEN v[r] ELSE g[next[r]]
    <3>1. CASE r \in ends
      BY <3>1 DEF Middle
    <3>2. CASE r \notin ends
      BY <3>2 DEF Middle, Lower, Upper
    <3> QED BY <3>1, <3>2
  <2> QED BY <2>1 DEF IsSearch
<1>3. \E g : Rec(g)
  <2>1. \A r \in D : Distance(words)[r] < 2 * n + 1
    BY <1>0, HalvesOf
  <2>2. \E g : IsSearch(g, D, ends, v, next)
    <3> HIDE DEF D, ends, v, next
    <3>1. 2 * n + 1 \in Nat
      BY <1>0
    <3> QED BY <1>1, <2>1, <3>1, SearchExists
  <2> QED BY <1>2, <2>2
<1> DEFINE f == CHOOSE g : Rec(g)
<1>4. ReaderActive(words, t) = f[Everything(words)]
  BY DEF ReaderActive
<1>5. Rec(f)
  BY <1>3
<1>6. \A r \in good : IF r \in ends THEN v[r] \in X ELSE next[r] \in good
  <2> SUFFICES ASSUME NEW r \in good PROVE IF r \in ends THEN v[r] \in X ELSE next[r] \in good
    OBVIOUS
  <2> DEFINE m == Middle(r)
             w == words[m + 1]
  <2>1. r \in D /\ r.lo <= i - 1 /\ i - 1 <= r.hi /\ r.lo \in Int /\ r.hi \in Int /\ ~(r.lo > r.hi)
    BY <1>0, HalvesOf
  <2>2. /\ m + 1 \in 1..n /\ m \in r.lo..r.hi /\ Lower(r) \in D /\ Upper(r) \in D
        /\ Lower(r).lo = r.lo /\ Lower(r).hi = m - 1 /\ Upper(r).lo = m + 1 /\ Upper(r).hi = r.hi
    BY <1>0, <2>1, HalvesOf
  <2>3. /\ w.start \in Int /\ w.end \in Int /\ w.start <= w.end
        /\ m + 1 <= i => w.start <= t
        /\ m + 1 >= i => t <= w.end
    BY <1>0, <2>2
  <2>4. m \in Int
    BY <2>2
  <2>5. CASE t < w.start
    <3>1. m + 1 > i
      BY <1>0, <2>3, <2>4, <2>5
    <3>2. next[r] = Lower(r) /\ r \notin ends
      BY <2>1, <2>5
    <3> HIDE DEF m
    <3>3. Lower(r) \in good
      BY <1>0, <2>1, <2>2, <2>4, <3>1
    <3> QED BY <3>2, <3>3
  <2>6. CASE t > w.end
    <3>1. m + 1 < i
      BY <1>0, <2>3, <2>4, <2>6
    <3>2. next[r] = Upper(r) /\ r \notin ends
      BY <1>0, <2>1, <2>3, <2>6
    <3> HIDE DEF m
    <3>3. Upper(r) \in good
      BY <1>0, <2>1, <2>2, <2>4, <3>1
    <3> QED BY <3>2, <3>3
  <2>7. CASE ~(t < w.start) /\ ~(t > w.end)
    <3>1. r \in ends /\ v[r] = m
      BY <2>1, <2>7
    <3>2. w.start <= t /\ t <= w.end
      BY <1>0, <2>3, <2>7
    <3>3. m + 1 \in SpokenAt(words, t)
      BY <1>0, <2>2, <3>2 DEF SpokenAt
    <3> QED BY <2>4, <3>1, <3>3
  <2> QED BY <2>5, <2>6, <2>7
<1>7. Everything(words) \in good
  BY <1>0 DEF Everything, Bounds
<1>8. IsSearch(f, D, ends, v, next)
  BY <1>2, <1>5
<1> HIDE DEF f, D, ends, v, next, Rec
<1>9. good \in SUBSET D
  OBVIOUS
<1>10. Leads(good, D, ends, v, next, X)
  BY <1>6, <1>9 DEF Leads
<1> HIDE DEF good, X
<1>11. \A r \in good : f[r] \in X
  BY <1>1, <1>8, <1>10, SearchFinds
<1> QED BY <1>4, <1>7, <1>11 DEF X

(* And so does the offline reader, which finds the last word that has      *)
(* begun.                                                                  *)
LEMMA OfflineSpeaking ==
    ASSUME NEW words, NEW t, NEW i, Speaking(words, t, i)
    PROVE  OfflineActive(words, t) + 1 \in SpokenAt(words, t)
<1> DEFINE n == Len(words)
           begun == {j \in 1..n : words[j].start <= t}
           l == Max(begun)
<1>a. /\ n \in Nat /\ DOMAIN words = 1..n /\ i \in 1..n /\ t \in Int
      /\ \A j \in 1..n : /\ words[j].start \in Int /\ words[j].end \in Int
                         /\ words[j].start <= words[j].end
                         /\ j <= i => words[j].start <= t
                         /\ j >= i => t <= words[j].end
  BY SpeakingAmong
<1>b. l \in begun /\ \A j \in begun : l >= j
  <2>1. i \in begun
    BY <1>a
  <2> HIDE DEF n
  <2> QED BY <1>a, <2>1, MaxOf
<1>c. l \in 1..n /\ l >= i /\ words[l].start <= t /\ t <= words[l].end
  <2> HIDE DEF l
  <2>1. l \in 1..n /\ words[l].start <= t
    BY <1>b
  <2>2. l >= i
    BY <1>a, <1>b
  <2> QED BY <1>a, <2>1, <2>2
<1>d. ASSUME NEW j \in 1..n
      PROVE  /\ words[j].start \in Int
             /\ j <= l => words[j].start <= t
             /\ j > l => t < words[j].start
  <2> HIDE DEF l
  <2>1. j > l => ~(words[j].start <= t)
    BY <1>a, <1>b, <1>c
  <2>2. j < l => words[j].end <= words[l].start
    BY <1>a, <1>c DEF Speaking, InTurn
  <2>3. words[j].start \in Int /\ words[j].end \in Int /\ words[j].start <= words[j].end
    BY <1>a
  <2>4. words[l].start \in Int
    BY <1>a, <1>c
  <2>5. j < l => words[j].start <= t
    BY <1>a, <1>c, <2>2, <2>3, <2>4
  <2> QED BY <1>a, <1>c, <2>1, <2>3, <2>5
<1>e. l \in SpokenAt(words, t)
  BY <1>a, <1>c DEF SpokenAt
<1> HIDE DEF l, begun
<1> DEFINE D == Bounds(words)
           W(r) == words[Middle(r) + 1]
           ends == {r \in D : r.lo > r.hi}
           v == [r \in D |-> r.best]
           next == [r \in D \ ends |-> IF W(r).start <= t THEN Upper(r) ELSE Lower(r)]
           good == {r \in D : r.lo <= l /\ l - 1 <= r.hi /\ r.best = r.lo - 1}
           Rec(g) == g = [r \in Bounds(words) |->
                            LET mid == (r.lo + r.hi) \div 2 IN
                            IF r.lo > r.hi THEN r.best
                            ELSE IF words[mid + 1].start <= t
                                 THEN g[[r EXCEPT !.lo = mid + 1, !.best = mid]]
                            ELSE g[[r EXCEPT !.hi = mid - 1]]]
           X == {x \in Int : x + 1 \in SpokenAt(words, t)}
<1>0. /\ n \in Nat /\ DOMAIN words = 1..n /\ l \in 1..n /\ t \in Int
      /\ \A j \in 1..n : /\ words[j].start \in Int
                         /\ j <= l => words[j].start <= t
                         /\ j > l => t < words[j].start
  BY <1>a, <1>c, <1>d
<1>1. Shortens(D, ends, next, Distance(words))
  <2>1. ASSUME NEW r \in D \ ends
        PROVE  next[r] \in D /\ Distance(words)[next[r]] < Distance(words)[r]
    <3>1. ~(r.lo > r.hi) /\ next[r] \in {Lower(r), Upper(r)}
      OBVIOUS
    <3> QED BY <1>0, <3>1, HalvesOf
  <2>2. Distance(words) \in [D -> Nat]
    <3>1. \A r \in D : Distance(words)[r] \in Nat
      BY <1>0, HalvesOf
    <3> QED BY <3>1 DEF Distance
  <2>3. next \in [D \ ends -> D]
    BY <2>1
  <2> QED BY <2>1, <2>2, <2>3 DEF Shortens
<1>2. \A g : Rec(g) <=> IsSearch(g, D, ends, v, next)
  <2> SUFFICES ASSUME NEW g PROVE Rec(g) <=> IsSearch(g, D, ends, v, next)
    OBVIOUS
  <2>1. ASSUME NEW r \in D
        PROVE  (LET mid == (r.lo + r.hi) \div 2 IN
                IF r.lo > r.hi THEN r.best
                ELSE IF words[mid + 1].start <= t
                     THEN g[[r EXCEPT !.lo = mid + 1, !.best = mid]]
                ELSE g[[r EXCEPT !.hi = mid - 1]])
               = IF r \in ends THEN v[r] ELSE g[next[r]]
    <3>1. CASE r \in ends
      BY <3>1 DEF Middle
    <3>2. CASE r \notin ends
      BY <3>2 DEF Middle, Lower, Upper
    <3> QED BY <3>1, <3>2
  <2> QED BY <2>1 DEF IsSearch
<1>3. \E g : Rec(g)
  <2>1. \A r \in D : Distance(words)[r] < 2 * n + 1
    BY <1>0, HalvesOf
  <2>2. \E g : IsSearch(g, D, ends, v, next)
    <3> HIDE DEF D, ends, v, next
    <3>1. 2 * n + 1 \in Nat
      BY <1>0
    <3> QED BY <1>1, <2>1, <3>1, SearchExists
  <2> QED BY <1>2, <2>2
<1> DEFINE f == CHOOSE g : Rec(g)
<1>4. OfflineActive(words, t) = f[Everything(words)]
  BY DEF OfflineActive
<1>5. Rec(f)
  BY <1>3
<1>6. \A r \in good : IF r \in ends THEN v[r] \in X ELSE next[r] \in good
  <2> SUFFICES ASSUME NEW r \in good PROVE IF r \in ends THEN v[r] \in X ELSE next[r] \in good
    OBVIOUS
  <2> DEFINE m == Middle(r)
             w == words[m + 1]
  <2>1. r \in D /\ r.lo <= l /\ l - 1 <= r.hi /\ r.best = r.lo - 1 /\ r.lo \in Int /\ r.hi \in Int
    BY <1>0, HalvesOf
  <2>2. CASE r.lo > r.hi
    <3>1. r \in ends /\ v[r] = r.best /\ r.lo = l
      BY <1>0, <2>1, <2>2
    <3>2. r.best \in Int /\ r.best + 1 = l
      BY <1>0, <2>1, <3>1
    <3> QED BY <1>e, <3>1, <3>2
  <2>3. CASE ~(r.lo > r.hi)
    <3>0. r \notin ends
      BY <2>3
    <3>1. /\ m + 1 \in 1..n /\ m \in r.lo..r.hi /\ Lower(r) \in D /\ Upper(r) \in D
          /\ Lower(r).lo = r.lo /\ Lower(r).hi = m - 1 /\ Lower(r).best = r.best
          /\ Upper(r).lo = m + 1 /\ Upper(r).hi = r.hi /\ Upper(r).best = m
      BY <1>0, <2>1, <2>3, HalvesOf
    <3>2. /\ w.start \in Int
          /\ m + 1 <= l => w.start <= t
          /\ m + 1 > l => t < w.start
      BY <1>0, <3>1
    <3>3. m \in Int
      BY <3>1
    <3>4. CASE w.start <= t
      <4>1. m + 1 <= l
        BY <1>0, <3>2, <3>3, <3>4
      <4>2. next[r] = Upper(r)
        BY <2>1, <3>0, <3>4
      <4> HIDE DEF m
      <4>3. m + 1 <= l /\ l - 1 <= r.hi /\ m = (m + 1) - 1
        BY <2>1, <3>3, <4>1
      <4>4. Upper(r) \in good
        BY <3>1, <4>3
      <4> QED BY <3>0, <4>2, <4>4
    <3>5. CASE ~(w.start <= t)
      <4>1. m + 1 > l
        BY <1>0, <3>2, <3>3, <3>5
      <4>2. next[r] = Lower(r)
        BY <2>1, <3>0, <3>5
      <4> HIDE DEF m
      <4>3. Lower(r) \in good
        BY <1>0, <2>1, <3>1, <3>3, <4>1
      <4> QED BY <3>0, <4>2, <4>3
    <3> QED BY <3>4, <3>5
  <2> QED BY <2>2, <2>3
<1>7. Everything(words) \in good
  BY <1>0 DEF Everything, Bounds
<1>8. IsSearch(f, D, ends, v, next)
  BY <1>2, <1>5
<1> HIDE DEF f, D, ends, v, next, Rec
<1>9. good \subseteq D
  OBVIOUS
<1>10. Leads(good, D, ends, v, next, X)
  BY <1>6, <1>9 DEF Leads
<1> HIDE DEF good, X
<1>11. \A r \in good : f[r] \in X
  BY <1>1, <1>8, <1>10, SearchFinds
<1> QED BY <1>4, <1>7, <1>11 DEF X

-----------------------------------------------------------------------------
(* The joined audio.                                                       *)

(* Where each chunk begins.                                                *)
OffsetStep(acc, ac) == [all |-> Append(acc.all, acc.end), end |-> acc.end + ac.duration]

OffsetState == [all : Seq(Nat), end : Nat]

Joined(aligned0) ==
    FoldLeft(LAMBDA acc, ac : [all |-> Append(acc.all, acc.end), end |-> acc.end + ac.duration],
             [all |-> <<>>, end |-> 0], aligned0)

(* What lasts some time.                                                   *)
Lasting(X) == \A ac \in X : ac.duration \in Nat

LEMMA JoinedOf ==
    ASSUME NEW X, Lasting(X)
    PROVE  /\ Joined(<<>>) = [all |-> <<>>, end |-> 0]
           /\ \A seq \in Seq(X) : Joined(seq) \in OffsetState
           /\ \A seq \in Seq(X), ac \in X : Joined(Append(seq, ac)) = OffsetStep(Joined(seq), ac)
<1> DEFINE S == OffsetState
           E == X
           b == [all |-> <<>>, end |-> 0]
           h == [p \in S \X E |-> OffsetStep(p[1], p[2])]
<1>0. b \in S /\ \A a \in S, e \in E : OffsetStep(a, e) \in S
  <2>1. b \in S
    <3>1. <<>> \in Seq(Nat)
      BY EmptySeq
    <3> QED BY <3>1 DEF OffsetState
  <2>2. ASSUME NEW a \in S, NEW e \in E PROVE OffsetStep(a, e) \in S
    <3>1. a.all \in Seq(Nat) /\ a.end \in Nat /\ e.duration \in Nat
      BY DEF OffsetState, Lasting
    <3>2. Append(a.all, a.end) \in Seq(Nat) /\ a.end + e.duration \in Nat
      BY <3>1, AppendProperties
    <3> QED BY <3>2 DEF OffsetState, OffsetStep
  <2> QED BY <2>1, <2>2
<1> HIDE DEF S, E
<1>1. b \in S /\ h \in StepsOn(S, E) /\ \A a \in S, e \in E : h[<<a, e>>] = OffsetStep(a, e)
  BY <1>0 DEF StepsOn
<1>2. ASSUME NEW seq \in Seq(E) PROVE Joined(seq) = Outcome(h, b, seq)
  <2> DEFINE Table(it) == it = [s \in SUBSET DOMAIN seq |->
                                  IF s = {} THEN b ELSE OffsetStep(it[s \ {Max(s)}], seq[Max(s)])]
  <2>1. Joined(seq) = (CHOOSE it : Table(it))[DOMAIN seq]
    BY DEF Joined, FoldLeft, MapThenFoldSet, OffsetStep
  <2> HIDE DEF b, h
  <2>2. PICK it \in [SUBSET DOMAIN seq -> S] : FoldTable(it, h, b, seq)
    BY <1>1, FoldTableOf
  <2>3. Table(it)
    <3>1. ASSUME NEW s \in SUBSET DOMAIN seq, s # {}
          PROVE  h[<<it[s \ {Max(s)}], seq[Max(s)]>>] = OffsetStep(it[s \ {Max(s)}], seq[Max(s)])
      BY <1>1, <3>1, MaxOfDomain
    <3> QED BY <2>2, <3>1 DEF FoldTable
  <2> DEFINE jt == CHOOSE jt : Table(jt)
  <2>4. Table(jt)
    BY <2>3
  <2> HIDE DEF jt
  <2>5. Follows(jt, h, b, seq, S)
    <3>1. jt[{}] = b
      BY <2>4
    <3>2. ASSUME NEW s \in SUBSET DOMAIN seq, s # {}, jt[s \ {Max(s)}] \in S
          PROVE  jt[s] = h[<<jt[s \ {Max(s)}], seq[Max(s)]>>]
      <4>1. jt[s] = OffsetStep(jt[s \ {Max(s)}], seq[Max(s)])
        BY <2>4, <3>2
      <4>2. seq[Max(s)] \in E
        BY <3>2, MaxOfDomain
      <4> QED BY <1>1, <3>2, <4>1, <4>2
    <3> QED BY <3>1, <3>2 DEF Follows
  <2> HIDE DEF Table
  <2>6. jt[DOMAIN seq] = Outcome(h, b, seq)
    BY <1>1, <2>5, FoldTableOutcome
  <2> QED BY <2>1, <2>6 DEF jt
<1> HIDE DEF h, b
<1>3. <<>> \in Seq(E) /\ \A seq \in Seq(E), e \in E : Append(seq, e) \in Seq(E)
  BY EmptySeq, AppendProperties
<1>4. Joined(<<>>) = b
  BY <1>2, <1>3, OutcomeOfNone
<1>5. ASSUME NEW seq \in Seq(E) PROVE Joined(seq) \in S
  BY <1>1, <1>2, OutcomeIn
<1>6. ASSUME NEW seq \in Seq(E), NEW e \in E
      PROVE  Joined(Append(seq, e)) = OffsetStep(Joined(seq), e)
  <2>1. Outcome(h, b, Append(seq, e)) = h[<<Outcome(h, b, seq), e>>]
    BY <1>1, OutcomeOfAppend
  <2> QED BY <2>1, <1>1, <1>2, <1>3, <1>5
<1> QED BY <1>4, <1>5, <1>6 DEF S, E, b

(* How long it is.                                                         *)
Longer(n, ac) == n + ac.duration
Total(seq) == FoldLeft(LAMBDA n, ac : n + ac.duration, 0, seq)

LEMMA TotalOf ==
    ASSUME NEW X, Lasting(X)
    PROVE  /\ Total(<<>>) = 0
           /\ \A seq \in Seq(X) : Total(seq) \in Nat
           /\ \A seq \in Seq(X), ac \in X : Total(Append(seq, ac)) = Longer(Total(seq), ac)
<1> DEFINE S == Nat
           E == X
           b == 0
           h == [p \in S \X E |-> Longer(p[1], p[2])]
<1>0. b \in S /\ \A a \in S, e \in E : Longer(a, e) \in S
  BY DEF Longer, Lasting
<1> HIDE DEF S, E
<1>1. b \in S /\ h \in StepsOn(S, E) /\ \A a \in S, e \in E : h[<<a, e>>] = Longer(a, e)
  BY <1>0 DEF StepsOn
<1>2. ASSUME NEW seq \in Seq(E) PROVE Total(seq) = Outcome(h, b, seq)
  <2> DEFINE Table(it) == it = [s \in SUBSET DOMAIN seq |->
                                  IF s = {} THEN b ELSE Longer(it[s \ {Max(s)}], seq[Max(s)])]
  <2>1. Total(seq) = (CHOOSE it : Table(it))[DOMAIN seq]
    BY DEF Total, FoldLeft, MapThenFoldSet, Longer
  <2> HIDE DEF b, h
  <2>2. PICK it \in [SUBSET DOMAIN seq -> S] : FoldTable(it, h, b, seq)
    BY <1>1, FoldTableOf
  <2>3. Table(it)
    <3>1. ASSUME NEW s \in SUBSET DOMAIN seq, s # {}
          PROVE  h[<<it[s \ {Max(s)}], seq[Max(s)]>>] = Longer(it[s \ {Max(s)}], seq[Max(s)])
      BY <1>1, <3>1, MaxOfDomain
    <3> QED BY <2>2, <3>1 DEF FoldTable
  <2> DEFINE jt == CHOOSE jt : Table(jt)
  <2>4. Table(jt)
    BY <2>3
  <2> HIDE DEF jt
  <2>5. Follows(jt, h, b, seq, S)
    <3>1. jt[{}] = b
      BY <2>4
    <3>2. ASSUME NEW s \in SUBSET DOMAIN seq, s # {}, jt[s \ {Max(s)}] \in S
          PROVE  jt[s] = h[<<jt[s \ {Max(s)}], seq[Max(s)]>>]
      <4>1. jt[s] = Longer(jt[s \ {Max(s)}], seq[Max(s)])
        BY <2>4, <3>2
      <4>2. seq[Max(s)] \in E
        BY <3>2, MaxOfDomain
      <4> QED BY <1>1, <3>2, <4>1, <4>2
    <3> QED BY <3>1, <3>2 DEF Follows
  <2> HIDE DEF Table
  <2>6. jt[DOMAIN seq] = Outcome(h, b, seq)
    BY <1>1, <2>5, FoldTableOutcome
  <2> QED BY <2>1, <2>6 DEF jt
<1> HIDE DEF h, b
<1>3. <<>> \in Seq(E) /\ \A seq \in Seq(E), e \in E : Append(seq, e) \in Seq(E)
  BY EmptySeq, AppendProperties
<1>4. Total(<<>>) = b
  BY <1>2, <1>3, OutcomeOfNone
<1>5. ASSUME NEW seq \in Seq(E) PROVE Total(seq) \in S
  BY <1>1, <1>2, OutcomeIn
<1>6. ASSUME NEW seq \in Seq(E), NEW e \in E
      PROVE  Total(Append(seq, e)) = Longer(Total(seq), e)
  <2>1. Outcome(h, b, Append(seq, e)) = h[<<Outcome(h, b, seq), e>>]
    BY <1>1, OutcomeOfAppend
  <2> QED BY <2>1, <1>1, <1>2, <1>3, <1>5
<1> QED BY <1>4, <1>5, <1>6 DEF S, E, b

(* A chunk begins when those before it have ended, and ends before all has. *)
EndToEnd(seq, all, total) ==
    /\ all \in Seq(Nat) /\ Len(all) = Len(seq)
    /\ \A k \in 1..Len(seq) :
         /\ all[k] + seq[k].duration <= total
         /\ \A j \in 1..k - 1 : all[j] + seq[j].duration <= all[k]

LEMMA OffsetsOf ==
    ASSUME NEW X, Lasting(X), NEW seq \in Seq(X)
    PROVE  EndToEnd(seq, Offsets(seq), Total(seq)) /\ Total(seq) \in Nat
<1> DEFINE P == {s \in Seq(X) : EndToEnd(s, Joined(s).all, Total(s)) /\ Joined(s).end = Total(s)}
<1>1. <<>> \in P
  <2>1. Joined(<<>>).all = <<>> /\ Joined(<<>>).end = 0 /\ Total(<<>>) = 0
    BY JoinedOf, TotalOf
  <2>2. <<>> \in Seq(X) /\ <<>> \in Seq(Nat) /\ Len(<<>>) = 0
    BY EmptySeq
  <2>3. EndToEnd(<<>>, <<>>, 0)
    BY <2>2 DEF EndToEnd
  <2> QED BY <2>1, <2>2, <2>3
<1>2. ASSUME NEW s \in Seq(X), NEW ac \in X, s \in P PROVE Append(s, ac) \in P
  <2> DEFINE a == Append(s, ac)
             acc == Joined(s)
             n == Len(s)
             all == acc.all
             end == acc.end
             bs == Append(all, end)
             d == ac.duration
             total == Total(a)
  <2>1. a \in Seq(X) /\ Len(a) = n + 1 /\ n \in Nat /\ a[n + 1] = ac /\ \A i \in 1..n : a[i] = s[i]
    BY AppendedOf
  <2>2. Joined(a) = OffsetStep(acc, ac) /\ acc \in OffsetState /\ total = Longer(Total(s), ac)
    BY JoinedOf, TotalOf
  <2>3. Joined(a).all = bs /\ Joined(a).end = end + d
    BY <2>2 DEF OffsetStep
  <2>4. all \in Seq(Nat) /\ end \in Nat /\ d \in Nat
    BY <2>2 DEF OffsetState, Lasting
  <2>5. EndToEnd(s, all, end) /\ end = Total(s)
    BY <1>2
  <2>6. total = end + d
    BY <2>2, <2>5 DEF Longer
  <2> HIDE DEF a, acc, n, all, end, d, total
  <2>7. /\ bs \in Seq(Nat) /\ Len(bs) = n + 1 /\ bs[n + 1] = end
        /\ \A i \in 1..n : bs[i] = all[i] /\ all[i] \in Nat /\ s[i].duration \in Nat
    <3>1. Len(all) = n
      BY <2>5 DEF EndToEnd, n
    <3>2. \A i \in 1..n : all[i] \in Nat /\ s[i] \in X
      BY <2>4, <3>1, ElementOfSeq DEF n
    <3> QED BY <2>4, <3>1, <3>2, AppendProperties DEF Lasting
  <2> HIDE DEF bs
  <2>8. \A k \in 1..n : /\ all[k] + s[k].duration <= end
                        /\ \A j \in 1..k - 1 : all[j] + s[j].duration <= all[k]
    BY <2>5 DEF EndToEnd, n
  <2>9. ASSUME NEW k \in 1..Len(a)
        PROVE  /\ bs[k] + a[k].duration <= total
               /\ \A j \in 1..k - 1 : bs[j] + a[j].duration <= bs[k]
    <3>1. CASE k = n + 1
      <4>1. bs[k] + a[k].duration <= total
        BY <2>1, <2>4, <2>6, <2>7, <3>1 DEF d
      <4>2. ASSUME NEW j \in 1..k - 1 PROVE bs[j] + a[j].duration <= bs[k]
        <5>1. j \in 1..n
          BY <2>1, <3>1
        <5> QED BY <2>1, <2>7, <2>8, <3>1, <5>1
      <4> QED BY <4>1, <4>2
    <3>2. CASE k # n + 1
      <4>1. k \in 1..n
        BY <2>1, <3>2
      <4>2. bs[k] = all[k] /\ a[k] = s[k] /\ all[k] \in Nat /\ s[k].duration \in Nat
            /\ all[k] + s[k].duration <= end
        BY <2>1, <2>7, <2>8, <4>1
      <4>3. ASSUME NEW j \in 1..k - 1 PROVE bs[j] + a[j].duration <= bs[k]
        <5>1. j \in 1..n
          BY <2>1, <4>1
        <5> QED BY <2>1, <2>7, <2>8, <4>1, <5>1
      <4> DEFINE x == all[k]
                 y == s[k].duration
      <4>4. x \in Nat /\ y \in Nat /\ x + y <= end
        BY <4>2
      <4> HIDE DEF x, y
      <4>5. x + y <= end + d
        BY <2>4, <4>4
      <4> QED BY <2>6, <4>2, <4>3, <4>5 DEF x, y
    <3> QED BY <3>1, <3>2
  <2>10. EndToEnd(a, bs, total)
    BY <2>1, <2>7, <2>9 DEF EndToEnd
  <2> QED BY <2>1, <2>3, <2>6, <2>10 DEF a, bs, all, end, total
<1> HIDE DEF P
<1>3. \A s \in Seq(X) : s \in P
  BY <1>1, <1>2, SequenceInduction
<1>4. Offsets(seq) = Joined(seq).all
  BY DEF Offsets, Joined
<1> QED BY <1>3, <1>4, TotalOf DEF P

-----------------------------------------------------------------------------
(* What the readers are given.                                             *)

(* The times of the words of a chunk: each lasts two units, or up to the   *)
(* next one, and none is longer than the chunk's audio.                    *)
Clocked(words, d) ==
    \E length \in 2..3 : \A i \in 1..Len(words) :
        /\ words[i].start = 3 * i - 2 /\ words[i].end = 3 * i - 2 + length
        /\ words[i].end <= d

AlignedRecord ==
    [num : Nat \ {0}, text : Seq(SpokenWord), pages : Seq(DOMAIN request.pages),
     words : Seq(AnyHeard), duration : Nat]

(* The chunks with their words and their times.                            *)
LEMMA AlignedOf ==
    ASSUME Staged, stage = "build"
    PROVE  /\ aligned \in Seq(AlignedRecord) /\ Len(aligned) = Len(chunks)
           /\ Len(aligned) \in Nat /\ DOMAIN aligned = 1..Len(aligned) /\ DOMAIN chunks = 1..Len(aligned)
           /\ \A k \in 1..Len(aligned) :
                /\ aligned[k].num = k /\ aligned[k].pages = chunks[k].pages
                /\ aligned[k].words = WordsOf(k) /\ WordsOf(k) \in Seq(AnyHeard)
                /\ aligned[k].duration \in Nat
                /\ Clocked(WordsOf(k), aligned[k].duration)
<1>1. PICK flaw \in Flaws, length \in 2..3 : aligned = AlignedBy(flaw, length)
  BY DEF Staged, IsAligned
<1>2. chunks \in Seq(ChunkRecord(Sounds, AnyPlace, DOMAIN request.pages))
  BY ChunksOfDocument DEF Sounds, AnyPlace
<1> DEFINE n == Len(chunks)
           W(k) == Timed(Recognised(k, flaw), length)
           d(k) == 3 * Larger(Len(chunks[k].text), Len(W(k))) + 1
<1>3. n \in Nat /\ DOMAIN chunks = 1..n
  BY <1>2, LenProperties
<1>4. ASSUME NEW k \in 1..n
      PROVE  /\ chunks[k].text \in Seq(SpokenWord) /\ chunks[k].pages \in Seq(DOMAIN request.pages)
             /\ Len(chunks[k].text) \in Nat
  <2>1. chunks[k] \in ChunkRecord(Sounds, AnyPlace, DOMAIN request.pages)
    BY <1>2, ElementOfSeq
  <2>2. chunks[k].text \in Seq(SpokenWord) /\ chunks[k].pages \in Seq(DOMAIN request.pages)
    BY <2>1 DEF ChunkRecord, SpokenWord
  <2>3. Len(chunks[k].text) \in Nat
    BY <2>2, LenProperties
  <2> QED BY <2>2, <2>3
<1>5. aligned = [k \in 1..n |-> [num |-> k, text |-> chunks[k].text, pages |-> chunks[k].pages,
                                 words |-> W(k), duration |-> d(k)]]
  BY <1>1, <1>3 DEF AlignedBy
<1>6. ASSUME NEW k \in 1..n PROVE W(k) \in Seq(AnyHeard) /\ d(k) \in Nat /\ Clocked(W(k), d(k))
  <2> DEFINE r == Recognised(k, flaw)
             m == Len(chunks[k].text)
             w == Timed(r, length)
  <2>1. r \in Seq(WrittenWord(Sounds \cup Vocabulary, AnyPlace))
    BY <1>3, RecognisedOf DEF RecognisedWell, HeardWord
  <2>2. m \in Nat
    BY <1>4
  <2>3. length \in Int
    OBVIOUS
  <2>4. d(k) = 3 * Larger(m, Len(w)) + 1
    OBVIOUS
  <2> HIDE DEF r, m, d
  <2>5. w \in Seq(AnyHeard)
    <3>1. Within(r, r)
      BY <2>1, WithinSame
    <3> QED BY <2>1, <2>3, <3>1, WithinTimed DEF AnyHeard
  <2>6. Len(r) \in Nat /\ DOMAIN r = 1..Len(r)
    BY <2>1, LenProperties
  <2>7. w = [i \in 1..Len(r) |-> [name |-> r[i].name, at |-> r[i].at,
                                  start |-> 3 * i - 2, end |-> 3 * i - 2 + length]]
    BY <2>6 DEF Timed
  <2>8. Len(w) = Len(r)
    BY <2>6, <2>7
  <2>9. d(k) \in Nat /\ 3 * Len(w) + 1 <= d(k)
    BY <2>2, <2>4, <2>6, <2>8 DEF Larger
  <2>10. ASSUME NEW i \in 1..Len(w)
         PROVE  /\ w[i].start = 3 * i - 2 /\ w[i].end = 3 * i - 2 + length
                /\ w[i].end <= d(k)
    <3>1. i \in 1..Len(r)
      BY <2>8
    <3>2. w[i].start = 3 * i - 2 /\ w[i].end = 3 * i - 2 + length
      BY <2>7, <3>1
    <3>3. 3 * i - 2 + length <= 3 * Len(w) + 1
      BY <2>6, <2>8, <3>1
    <3> HIDE DEF w
    <3>4. Len(w) \in Nat /\ i \in Int
      BY <2>6, <2>8, <3>1
    <3> QED BY <2>9, <3>2, <3>3, <3>4
  <2> HIDE DEF w
  <2>11. Clocked(w, d(k))
    BY <2>10 DEF Clocked
  <2> QED BY <2>5, <2>9, <2>11 DEF w, r
<1> HIDE DEF W, d, n
<1>7. ASSUME NEW k \in 1..n
      PROVE  /\ aligned[k] = [num |-> k, text |-> chunks[k].text, pages |-> chunks[k].pages,
                              words |-> W(k), duration |-> d(k)]
             /\ aligned[k].num = k /\ aligned[k].pages = chunks[k].pages
             /\ WordsOf(k) = W(k) /\ aligned[k].words = W(k) /\ aligned[k].duration = d(k)
  <2>1. aligned[k] = [num |-> k, text |-> chunks[k].text, pages |-> chunks[k].pages,
                      words |-> W(k), duration |-> d(k)]
    BY <1>5
  <2> QED BY <2>1 DEF WordsOf
<1>8. aligned \in [1..n -> AlignedRecord]
  <2>1. ASSUME NEW k \in 1..n PROVE aligned[k] \in AlignedRecord
    <3>1. /\ chunks[k].text \in Seq(SpokenWord) /\ chunks[k].pages \in Seq(DOMAIN request.pages)
          /\ d(k) \in Nat /\ W(k) \in Seq(AnyHeard) /\ k \in Nat \ {0}
      BY <1>3, <1>4, <1>6
    <3>2. aligned[k] = [num |-> k, text |-> chunks[k].text, pages |-> chunks[k].pages,
                        words |-> W(k), duration |-> d(k)]
      BY <1>7
    <3> QED BY <3>1, <3>2 DEF AlignedRecord
  <2> QED BY <1>5, <2>1
<1>9. aligned \in Seq(AlignedRecord) /\ Len(aligned) = n /\ DOMAIN aligned = 1..n
  BY <1>3, <1>8, SeqDef, LenProperties
<1>10. ASSUME NEW k \in 1..n
       PROVE  /\ aligned[k].num = k /\ aligned[k].pages = chunks[k].pages
              /\ aligned[k].words = WordsOf(k) /\ WordsOf(k) \in Seq(AnyHeard)
              /\ aligned[k].duration \in Nat
              /\ Clocked(WordsOf(k), aligned[k].duration)
  <2>1. W(k) \in Seq(AnyHeard) /\ Clocked(W(k), d(k)) /\ d(k) \in Nat
    BY <1>4, <1>6
  <2> QED BY <1>7, <2>1
<1> QED BY <1>3, <1>9, <1>10 DEF n

(* Pieces of the same lengths begin at the same places.                    *)
LEMMA UpToAlike ==
    ASSUME NEW X, NEW Y, NEW ss \in Seq(Seq(X)), NEW tt \in Seq(Seq(Y)), Len(ss) = Len(tt),
           \A k \in 1..Len(ss) : Len(ss[k]) = Len(tt[k])
    PROVE  \A k \in 0..Len(ss) : UpTo(ss, k) = UpTo(tt, k)
<1> DEFINE n == Len(ss)
           P == {k \in 0..n : UpTo(ss, k) = UpTo(tt, k)}
<1>1. n \in Nat
  BY LenProperties
<1>2. 0 \in P
  BY <1>1, UpToOf
<1>3. ASSUME NEW k \in 1..n, k - 1 \in P PROVE k \in P
  <2>1. UpTo(ss, k) = UpTo(ss, k - 1) + Len(ss[k])
    BY UpToOf
  <2>2. UpTo(tt, k) = UpTo(tt, k - 1) + Len(tt[k])
    BY UpToOf
  <2> QED BY <1>1, <1>3, <2>1, <2>2
<1> HIDE DEF P
<1>4. \A k \in 0..n : k \in P
  BY <1>1, <1>2, <1>3, InductionTo
<1> QED BY <1>4 DEF P

(* The words of a chunk are spoken one after the other, within its audio.  *)
LEMMA ClockedInTurn ==
    ASSUME NEW words \in Seq(AnyHeard), NEW d \in Nat, Clocked(words, d)
    PROVE  /\ InTurn(words)
           /\ \A i \in 1..Len(words) : 0 < words[i].start /\ words[i].end <= d
<1> DEFINE n == Len(words)
<1>1. PICK length \in 2..3 : \A j \in 1..n : /\ words[j].start = 3 * j - 2
                                             /\ words[j].end = 3 * j - 2 + length
                                             /\ words[j].end <= d
  BY DEF Clocked
<1>2. n \in Nat /\ DOMAIN words = 1..n
  BY LenProperties
<1> HIDE DEF n
<1>3. ASSUME NEW j \in 1..n
      PROVE  /\ words[j].start \in Int /\ words[j].end \in Int /\ words[j].start <= words[j].end
             /\ 0 < words[j].start
  BY <1>1, <1>2
<1>4. ASSUME NEW j \in 1..n, NEW l \in 1..n, j < l PROVE words[j].end <= words[l].start
  BY <1>1, <1>2, <1>4
<1> QED BY <1>1, <1>2, <1>3, <1>4 DEF InTurn, n

(* The words of a chunk, in the joined audio.                              *)
LEMMA ShiftedOf ==
    ASSUME NEW words \in Seq(AnyHeard), NEW o \in Nat
    PROVE  /\ Shifted(words, o) \in Seq(AnyHeard) /\ Len(Shifted(words, o)) = Len(words)
           /\ \A i \in 1..Len(words) :
                /\ words[i].start \in Int /\ words[i].end \in Int
                /\ Shifted(words, o)[i].start = words[i].start + o
                /\ Shifted(words, o)[i].end = words[i].end + o
<1> DEFINE n == Len(words)
           moved(i) == [words[i] EXCEPT !.start = @ + o, !.end = @ + o]
<1>1. n \in Nat /\ DOMAIN words = 1..n /\ \A i \in 1..n : words[i] \in AnyHeard
  BY LenProperties, ElementOfSeq
<1>2. ASSUME NEW i \in 1..n
      PROVE  /\ moved(i) \in AnyHeard
             /\ words[i].start \in Int /\ words[i].end \in Int
             /\ moved(i).start = words[i].start + o /\ moved(i).end = words[i].end + o
  <2> DEFINE w == words[i]
             u == [w EXCEPT !.start = @ + o]
  <2>1. w \in [name : Sounds \cup Vocabulary, at : AnyPlace, start : Int, end : Int]
    BY <1>1 DEF AnyHeard, TimedWord
  <2>2. moved(i) = [u EXCEPT !.end = @ + o]
    OBVIOUS
  <2> HIDE DEF w
  <2>3. /\ u \in [name : Sounds \cup Vocabulary, at : AnyPlace, start : Int, end : Int]
        /\ u.start = w.start + o /\ u.end = w.end
    BY <2>1
  <2> HIDE DEF u
  <2>4. /\ [u EXCEPT !.end = @ + o]
             \in [name : Sounds \cup Vocabulary, at : AnyPlace, start : Int, end : Int]
        /\ [u EXCEPT !.end = @ + o].start = u.start /\ [u EXCEPT !.end = @ + o].end = u.end + o
    BY <2>3
  <2>5. w.start \in Int /\ w.end \in Int
    BY <2>1
  <2> HIDE DEF moved
  <2> QED BY <2>2, <2>3, <2>4, <2>5 DEF AnyHeard, TimedWord, w
<1>3. Shifted(words, o) = [i \in 1..n |-> moved(i)]
  BY <1>1 DEF Shifted
<1> HIDE DEF moved, n
<1>4. Shifted(words, o) \in [1..n -> AnyHeard]
  BY <1>2, <1>3
<1>5. Shifted(words, o) \in Seq(AnyHeard) /\ Len(Shifted(words, o)) = n
  BY <1>1, <1>4, SeqDef, LenProperties
<1> QED BY <1>2, <1>3, <1>5 DEF n

(* The words of each chunk in the joined audio.                            *)
Lined(al) == [k \in DOMAIN al |-> Shifted(al[k].words, Offsets(al)[k])]

LEMMA LinedOf ==
    ASSUME Staged, stage = "build"
    PROVE  /\ EndToEnd(aligned, Offsets(aligned), Total(aligned)) /\ Total(aligned) \in Nat
           /\ Lined(aligned) \in Seq(Seq(AnyHeard)) /\ Len(Lined(aligned)) = Len(aligned)
           /\ \A k \in 1..Len(aligned) :
                /\ Offsets(aligned)[k] \in Nat
                /\ Lined(aligned)[k] = Shifted(WordsOf(k), Offsets(aligned)[k])
                /\ Len(Lined(aligned)[k]) = Len(WordsOf(k))
                /\ UpTo(Lined(aligned), k - 1) = Before(k)
<1> DEFINE n == Len(aligned)
           off == Offsets(aligned)
           tt == Lined(aligned)
           hh == HeardOfEach
<1>1. /\ aligned \in Seq(AlignedRecord) /\ n \in Nat /\ DOMAIN aligned = 1..n
      /\ \A k \in 1..n : aligned[k].words = WordsOf(k) /\ WordsOf(k) \in Seq(AnyHeard)
  BY AlignedOf
<1>2. Lasting(AlignedRecord)
  BY DEF Lasting, AlignedRecord
<1>3. EndToEnd(aligned, off, Total(aligned)) /\ Total(aligned) \in Nat
  BY <1>1, <1>2, OffsetsOf
<1>4. off \in Seq(Nat) /\ Len(off) = n
  BY <1>3 DEF EndToEnd
<1>5. \A k \in 1..n : off[k] \in Nat
  BY <1>4, ElementOfSeq
<1>6. tt = [k \in 1..n |-> Shifted(WordsOf(k), off[k])]
  BY <1>1 DEF Lined
<1>7. \A k \in 1..n : /\ Shifted(WordsOf(k), off[k]) \in Seq(AnyHeard)
                      /\ Len(Shifted(WordsOf(k), off[k])) = Len(WordsOf(k))
  BY <1>1, <1>5, ShiftedOf
<1> HIDE DEF tt, off, n
<1>8. tt \in [1..n -> Seq(AnyHeard)]
  BY <1>6, <1>7
<1>9. tt \in Seq(Seq(AnyHeard)) /\ Len(tt) = n
  BY <1>1, <1>8, SeqDef, LenProperties
<1>10. hh \in Seq(Seq(AnyHeard)) /\ DOMAIN hh = 1..n /\ \A k \in 1..n : hh[k] = WordsOf(k)
  <2>1. hh \in Seq(Seq(AnyHeard))
    BY HeardPieces
  <2> QED BY <1>1, <2>1 DEF HeardOfEach
<1> HIDE DEF hh
<1>11. Len(hh) = n
  BY <1>1, <1>10, LenProperties
<1>12. Len(tt) = Len(hh) /\ \A k \in 1..Len(tt) : Len(tt[k]) = Len(hh[k])
  BY <1>6, <1>7, <1>9, <1>10, <1>11
<1>13. \A k \in 0..n : UpTo(tt, k) = UpTo(hh, k)
  <2>1. \A k \in 0..Len(tt) : UpTo(tt, k) = UpTo(hh, k)
    BY <1>9, <1>10, <1>12, UpToAlike
  <2> QED BY <1>9, <2>1
<1>14. ASSUME NEW k \in 1..n PROVE UpTo(tt, k - 1) = Before(k)
  <2>1. k - 1 \in 0..n
    BY <1>1
  <2>2. Before(k) = UpTo(hh, k - 1)
    BY <1>1, BeforeIs DEF hh
  <2> QED BY <1>13, <2>1, <2>2
<1> QED BY <1>3, <1>5, <1>6, <1>7, <1>9, <1>14 DEF tt, off, n

(* The readers' words are spoken one after the other, and while words of a *)
(* chunk are, they and no others are spoken in the joined audio, which has *)
(* not ended.                                                              *)
LEMMA JoinedSpeaking ==
    ASSUME Staged, stage = "build", NEW k \in DOMAIN aligned, NEW i \in DOMAIN WordsOf(k),
           NEW t \in WordsOf(k)[i].start .. WordsOf(k)[i].end
    PROVE  LET line == FlattenSeq(Lined(aligned))
               at == t + Offsets(aligned)[k]
           IN  /\ Speaking(WordsOf(k), t, i)
               /\ Speaking(line, at, Before(k) + i)
               /\ \A q \in SpokenAt(line, at) : q - Before(k) \in SpokenAt(WordsOf(k), t)
               /\ Before(k) \in Nat /\ at <= Total(aligned)
<1> DEFINE n == Len(aligned)
           off == Offsets(aligned)
           tt == Lined(aligned)
           line == FlattenSeq(tt)
           at == t + off[k]
           W(l) == WordsOf(l)
           d(l) == aligned[l].duration
           total == Total(aligned)
           p == Before(k) + i
<1>1. /\ n \in Nat /\ k \in 1..n
      /\ \A l \in 1..n : W(l) \in Seq(AnyHeard) /\ d(l) \in Nat /\ Clocked(W(l), d(l))
  BY AlignedOf
<1>2. i \in 1..Len(W(k)) /\ DOMAIN W(k) = 1..Len(W(k))
  BY <1>1, LenProperties
<1>3. /\ tt \in Seq(Seq(AnyHeard)) /\ Len(tt) = n /\ total \in Nat
      /\ \A l \in 1..n : /\ off[l] \in Nat /\ tt[l] = Shifted(W(l), off[l])
                         /\ Len(tt[l]) = Len(W(l)) /\ UpTo(tt, l - 1) = Before(l)
      /\ \A l \in 1..n : /\ off[l] + d(l) <= total
                         /\ \A m \in 1..l - 1 : off[m] + d(m) <= off[l]
  BY LinedOf DEF EndToEnd
<1>a. i \in DOMAIN W(k) /\ t \in W(k)[i].start .. W(k)[i].end
  OBVIOUS
<1> HIDE DEF n, off, tt, W, d, total
<1>4. ASSUME NEW l \in 1..n
      PROVE  /\ InTurn(W(l)) /\ Len(W(l)) \in Nat
             /\ \A j \in 1..Len(W(l)) : 0 < W(l)[j].start /\ W(l)[j].end <= d(l)
  BY <1>1, ClockedInTurn, LenProperties
<1>5. ASSUME NEW l \in 1..n, NEW j \in 1..Len(W(l))
      PROVE  /\ W(l)[j].start \in Int /\ W(l)[j].end \in Int /\ W(l)[j].start <= W(l)[j].end
             /\ tt[l][j].start = W(l)[j].start + off[l] /\ tt[l][j].end = W(l)[j].end + off[l]
  <2>1. W(l) \in Seq(AnyHeard) /\ off[l] \in Nat /\ tt[l] = Shifted(W(l), off[l])
    BY <1>1, <1>3
  <2>2. InTurn(W(l))
    BY <1>4
  <2> QED BY <2>1, <2>2, ShiftedOf DEF InTurn
<1>6. /\ t \in Int /\ W(k)[i].start <= t /\ t <= W(k)[i].end /\ 0 < t /\ t <= d(k)
      /\ d(k) \in Nat /\ off[k] \in Nat
  <2> DEFINE x == W(k)[i].start
             y == W(k)[i].end
             z == d(k)
  <2>1. x \in Int /\ y \in Int /\ t \in x .. y /\ 0 < x /\ y <= z /\ z \in Nat /\ off[k] \in Nat
    BY <1>a, <1>1, <1>2, <1>3, <1>4, <1>5
  <2> HIDE DEF x, y, z
  <2>2. t \in Int /\ x <= t /\ t <= y /\ 0 < t /\ t <= z
    BY <2>1
  <2> QED BY <2>1, <2>2 DEF x, y, z
<1>7. Speaking(W(k), t, i)
  BY <1>1, <1>2, <1>4, <1>6 DEF Speaking, SpokenAt
<1>8. line \in Seq(AnyHeard) /\ Len(line) \in Nat /\ DOMAIN line = 1..Len(line)
  BY <1>3, FlattenAppend, LenProperties
<1>9. ASSUME NEW q \in 1..Len(line)
      PROVE  \E l \in 1..n : \E j \in 1..Len(W(l)) :
               /\ q = UpTo(tt, l - 1) + j /\ line[q] = tt[l][j]
               /\ l \in 1..Len(tt) /\ j \in 1..Len(tt[l])
  <2>1. PICK l \in 1..Len(tt) : \E j \in 1..Len(tt[l]) : q = UpTo(tt, l - 1) + j
    BY <1>3, FlattenFrom
  <2>2. PICK j \in 1..Len(tt[l]) : q = UpTo(tt, l - 1) + j
    BY <2>1
  <2>3. line[q] = tt[l][j]
    BY <1>3, <2>2, FlattenPlace
  <2> QED BY <1>3, <2>2, <2>3
<1>10. p = UpTo(tt, k - 1) + i /\ k \in 1..Len(tt) /\ i \in 1..Len(tt[k])
  BY <1>1, <1>2, <1>3
<1>11. p \in 1..Len(line) /\ line[p] = tt[k][i]
  BY <1>3, <1>10, FlattenPlace
<1>12. Before(k) \in Nat /\ i \in Int
  <2>1. UpTo(tt, k - 1) \in Nat
    BY <1>1, <1>3, UpToOf
  <2> QED BY <1>1, <1>2, <1>3, <1>4, <2>1
<1>13. at \in Int /\ at <= total
  <2> DEFINE o == off[k]
             z == d(k)
  <2>1. o \in Nat /\ z \in Nat /\ o + z <= total /\ t <= z /\ t \in Int /\ total \in Nat
    BY <1>1, <1>3, <1>6
  <2> HIDE DEF o, z
  <2>2. t + o \in Int /\ t + o <= total
    BY <2>1
  <2> QED BY <2>2 DEF o
<1>14. ASSUME NEW q \in 1..Len(line)
       PROVE  line[q].start \in Int /\ line[q].end \in Int /\ line[q].start <= line[q].end
  <2>1. PICK l \in 1..n : \E j \in 1..Len(W(l)) : line[q] = tt[l][j]
    BY <1>9
  <2>2. PICK j \in 1..Len(W(l)) : line[q] = tt[l][j]
    BY <2>1
  <2> DEFINE u == W(l)[j].start
             v == W(l)[j].end
             o == off[l]
  <2>3. u \in Int /\ v \in Int /\ u <= v /\ line[q].start = u + o /\ line[q].end = v + o /\ o \in Nat
    BY <1>3, <1>5, <2>2
  <2> HIDE DEF u, v, o, line
  <2> QED BY <2>3
<1>15. ASSUME NEW q \in 1..Len(line), NEW r \in 1..Len(line), q < r
       PROVE  line[q].end <= line[r].start
  <2>1. PICK l \in 1..n : \E j \in 1..Len(W(l)) :
          /\ q = UpTo(tt, l - 1) + j /\ line[q] = tt[l][j]
          /\ l \in 1..Len(tt) /\ j \in 1..Len(tt[l])
    BY <1>9
  <2>2. PICK j \in 1..Len(W(l)) : /\ q = UpTo(tt, l - 1) + j /\ line[q] = tt[l][j]
                                  /\ l \in 1..Len(tt) /\ j \in 1..Len(tt[l])
    BY <2>1
  <2>3. PICK m \in 1..n : \E h \in 1..Len(W(m)) :
          /\ r = UpTo(tt, m - 1) + h /\ line[r] = tt[m][h]
          /\ m \in 1..Len(tt) /\ h \in 1..Len(tt[m])
    BY <1>9
  <2>4. PICK h \in 1..Len(W(m)) : /\ r = UpTo(tt, m - 1) + h /\ line[r] = tt[m][h]
                                  /\ m \in 1..Len(tt) /\ h \in 1..Len(tt[m])
    BY <2>3
  <2>5. l < m \/ (l = m /\ j < h)
    BY <1>3, <1>15, <2>2, <2>4, FlattenOrder
  <2> DEFINE v == W(l)[j].end
             u == W(m)[h].start
             o == off[l]
             b == off[m]
             z == d(l)
  <2>6. /\ v \in Int /\ u \in Int /\ o \in Nat /\ b \in Nat /\ z \in Nat /\ v <= z /\ 0 < u
        /\ line[q].end = v + o /\ line[r].start = u + b
    BY <1>1, <1>3, <1>4, <1>5, <2>2, <2>4
  <2>7. l < m => o + z <= b
    <3> SUFFICES ASSUME l < m PROVE o + z <= b
      OBVIOUS
    <3>1. l \in 1..m - 1
      BY <1>1, <2>1, <2>3
    <3> QED BY <1>3, <2>3, <3>1
  <2>8. l = m /\ j < h => v <= u /\ o = b
    BY <1>4, <2>4 DEF InTurn
  <2> HIDE DEF u, v, o, b, z, line
  <2> QED BY <2>5, <2>6, <2>7, <2>8
<1>16. InTurn(line)
  <2> HIDE DEF line
  <2> QED BY <1>8, <1>14, <1>15 DEF InTurn
<1>17. ASSUME NEW q \in SpokenAt(line, at) PROVE q - Before(k) \in SpokenAt(W(k), t)
  <2>0. q \in 1..Len(line) /\ line[q].start <= at /\ at <= line[q].end
    BY <1>8 DEF SpokenAt
  <2>1. PICK l \in 1..n : \E j \in 1..Len(W(l)) :
          q = UpTo(tt, l - 1) + j /\ line[q] = tt[l][j]
    BY <1>9, <2>0
  <2>2. PICK j \in 1..Len(W(l)) : q = UpTo(tt, l - 1) + j /\ line[q] = tt[l][j]
    BY <2>1
  <2> DEFINE u == W(l)[j].start
             v == W(l)[j].end
             o == off[l]
             ok == off[k]
             z == d(l)
             zk == d(k)
  <2>3. /\ u \in Int /\ v \in Int /\ o \in Nat /\ ok \in Nat /\ z \in Nat /\ zk \in Nat
        /\ 0 < u /\ v <= z /\ u + o <= at /\ at <= v + o
        /\ t \in Int /\ 0 < t /\ t <= zk /\ at = t + ok
    BY <1>1, <1>3, <1>4, <1>5, <1>6, <2>0, <2>2
  <2>4. l < k => o + z <= ok
    <3> SUFFICES ASSUME l < k PROVE o + z <= ok
      OBVIOUS
    <3>1. l \in 1..k - 1
      BY <1>1, <2>1
    <3> QED BY <1>1, <1>3, <3>1
  <2>5. k < l => ok + zk <= o
    <3> SUFFICES ASSUME k < l PROVE ok + zk <= o
      OBVIOUS
    <3>1. k \in 1..l - 1
      BY <1>1, <2>1
    <3> QED BY <1>3, <2>1, <3>1
  <2>6. l = k => o = ok
    OBVIOUS
  <2> HIDE DEF u, v, o, ok, z, zk, at, line
  <2>7. l = k
    BY <1>1, <2>1, <2>3, <2>4, <2>5
  <2>8. u <= t /\ t <= v
    BY <2>3, <2>6, <2>7
  <2>9. j \in 1..Len(W(k)) /\ W(k)[j].start <= t /\ t <= W(k)[j].end
    BY <2>2, <2>7, <2>8 DEF u, v
  <2>10. q - Before(k) = j
    <3>1. q = Before(k) + j /\ j \in Int
      BY <1>1, <1>3, <1>4, <2>2, <2>7, <2>9
    <3> QED BY <1>12, <3>1
  <2> QED BY <1>2, <2>9, <2>10 DEF SpokenAt
<1>18. line[p].start <= at /\ at <= line[p].end
  <2>1. line[p].start = W(k)[i].start + off[k] /\ line[p].end = W(k)[i].end + off[k]
    BY <1>1, <1>2, <1>5, <1>11
  <2> DEFINE x == W(k)[i].start
             y == W(k)[i].end
             o == off[k]
  <2>2. x \in Int /\ y \in Int /\ o \in Nat /\ x <= t /\ t <= y /\ t \in Int /\ at = t + o
    BY <1>1, <1>2, <1>5, <1>6
  <2> HIDE DEF x, y, o, at
  <2>3. x + o <= at /\ at <= y + o
    BY <2>2
  <2> QED BY <2>1, <2>3 DEF x, y, o
<1> HIDE DEF line, at, p
<1>19. Speaking(line, at, p)
  BY <1>8, <1>11, <1>13, <1>16, <1>18 DEF Speaking, SpokenAt
<1> QED BY <1>7, <1>12, <1>13, <1>17, <1>19 DEF line, at, p, off, tt, W, total

-----------------------------------------------------------------------------
(* Grouping.                                                               *)

(* The numbers that have the same key, key after key.                      *)
Grouped(keys) ==
    LET nums == Ascending(ToSet(keys)) IN [p \in DOMAIN nums |-> Members(keys, nums[p])]

Keys(n, m) == [1..n -> 0..m]

NeverFalls(keys) == \A j, k \in DOMAIN keys : j < k => keys[j] <= keys[k]

(* What is grouped has its numbers in their order.                         *)
LEMMA GroupOf ==
    ASSUME NEW n \in Nat, NEW m \in Nat, NEW keys \in Keys(n, m)
    PROVE  LET nums == Ascending(ToSet(keys))
               ss == Grouped(keys)
           IN  /\ nums \in Seq(ToSet(keys)) /\ ToSet(nums) = ToSet(keys) /\ Climbing(nums)
               /\ ToSet(keys) \in SUBSET (0..m)
               /\ ss \in Seq(Seq(1..n)) /\ DOMAIN ss = DOMAIN nums
               /\ \A p \in DOMAIN nums :
                    /\ ss[p] = Members(keys, nums[p]) /\ Climbing(ss[p])
                    /\ ToSet(ss[p]) = {k \in 1..n : keys[k] = nums[p]}
<1> DEFINE S == ToSet(keys)
           nums == Ascending(S)
           ss == Grouped(keys)
           Having(p) == {k \in DOMAIN keys : keys[k] = nums[p]}
<1>1. DOMAIN keys = 1..n /\ \A k \in 1..n : keys[k] \in 0..m
  BY DEF Keys
<1>2. S \in SUBSET (0..m)
  BY <1>1 DEF ToSet
<1>3. nums \in Seq(S) /\ ToSet(nums) = S /\ Climbing(nums)
  BY <1>2, AscendingOf
<1>4. ss = [p \in DOMAIN nums |-> Ascending(Having(p))]
  BY DEF Grouped, Members
<1>5. ASSUME NEW p \in DOMAIN nums
      PROVE  /\ Ascending(Having(p)) \in Seq(1..n) /\ Climbing(Ascending(Having(p)))
             /\ ToSet(Ascending(Having(p))) = Having(p)
  <2> DEFINE T == Having(p)
  <2>1. T \in SUBSET (0..n) /\ T \subseteq 1..n
    BY <1>1
  <2> HIDE DEF T
  <2>2. Ascending(T) \in Seq(T) /\ Climbing(Ascending(T)) /\ ToSet(Ascending(T)) = T
    BY <2>1, AscendingOf
  <2>3. Ascending(T) \in Seq(1..n)
    <3> DEFINE a == Ascending(T)
    <3>1. Len(a) \in Nat /\ DOMAIN a = 1..Len(a) /\ \A i \in 1..Len(a) : a[i] \in T
      BY <2>2, LenProperties, ElementOfSeq
    <3>2. a = [i \in 1..Len(a) |-> a[i]]
      BY <2>2, LenProperties
    <3> HIDE DEF a
    <3>3. a \in [1..Len(a) -> 1..n]
      BY <2>1, <3>1, <3>2
    <3>4. a \in Seq(1..n)
      BY <3>1, <3>3, SeqDef
    <3> QED BY <3>4 DEF a
  <2> QED BY <2>2, <2>3 DEF T
<1>6. DOMAIN nums = 1..Len(nums) /\ Len(nums) \in Nat
  BY <1>3, LenProperties
<1> HIDE DEF S, nums
<1>7. ss \in [1..Len(nums) -> Seq(1..n)]
  BY <1>4, <1>5, <1>6
<1>8. ss \in Seq(Seq(1..n)) /\ DOMAIN ss = DOMAIN nums
  BY <1>6, <1>7, SeqDef
<1>9. \A p \in DOMAIN nums : Having(p) = {k \in 1..n : keys[k] = nums[p]} /\ ss[p] = Ascending(Having(p))
  BY <1>1, <1>4
<1>10. \A p \in DOMAIN nums : ss[p] = Members(keys, nums[p])
  BY <1>9 DEF Members
<1> HIDE DEF ss, Having
<1> QED BY <1>2, <1>3, <1>5, <1>8, <1>9, <1>10 DEF S, nums, ss

(* Where the keys never fall, grouping changes nothing.                    *)
LEMMA GroupedCounts ==
    ASSUME NEW n \in Nat, NEW m \in Nat, NEW keys \in Keys(n, m), NeverFalls(keys)
    PROVE  Grouped(keys) \in Seq(Seq(1..n)) /\ FlattenSeq(Grouped(keys)) = Numbers(n)
<1> DEFINE nums == Ascending(ToSet(keys))
           ss == Grouped(keys)
           flat == FlattenSeq(ss)
<1>1. /\ nums \in Seq(ToSet(keys)) /\ ToSet(nums) = ToSet(keys) /\ Climbing(nums)
      /\ ToSet(keys) \in SUBSET (0..m)
      /\ ss \in Seq(Seq(1..n)) /\ DOMAIN ss = DOMAIN nums
      /\ \A p \in DOMAIN nums :
           Climbing(ss[p]) /\ ToSet(ss[p]) = {k \in 1..n : keys[k] = nums[p]}
  BY GroupOf
<1>2. DOMAIN keys = 1..n /\ \A k \in 1..n : keys[k] \in 0..m
  BY DEF Keys
<1> HIDE DEF nums, ss
<1>3. flat \in Seq(1..n) /\ Len(flat) \in Nat /\ DOMAIN flat = 1..Len(flat)
  BY <1>1, FlattenAppend, LenProperties
<1>4. DOMAIN ss = 1..Len(ss) /\ \A p \in 1..Len(ss) : ss[p] \in Seq(1..n) /\ DOMAIN ss[p] = 1..Len(ss[p])
  BY <1>1, LenProperties, ElementOfSeq
<1>5. ASSUME NEW p \in 1..Len(ss), NEW i \in 1..Len(ss[p])
      PROVE  ss[p][i] \in 1..n /\ keys[ss[p][i]] = nums[p] /\ nums[p] \in 0..m
  <2>1. ss[p][i] \in ToSet(ss[p])
    BY <1>4 DEF ToSet
  <2>2. ss[p][i] \in {k \in 1..n : keys[k] = nums[p]}
    BY <1>1, <1>4, <2>1
  <2> QED BY <1>2, <2>2
<1>6. Climbing(flat)
  <2> SUFFICES ASSUME NEW a \in 1..Len(flat), NEW b \in 1..Len(flat), a < b
               PROVE  flat[a] < flat[b]
    BY <1>3 DEF Climbing
  <2>1. PICK p \in 1..Len(ss) : \E i \in 1..Len(ss[p]) : a = UpTo(ss, p - 1) + i
    BY <1>1, FlattenFrom
  <2>2. PICK i \in 1..Len(ss[p]) : a = UpTo(ss, p - 1) + i
    BY <2>1
  <2>3. PICK q \in 1..Len(ss) : \E i_1 \in 1..Len(ss[q]) : b = UpTo(ss, q - 1) + i_1
    BY <1>1, FlattenFrom
  <2>4. PICK j \in 1..Len(ss[q]) : b = UpTo(ss, q - 1) + j
    BY <2>3
  <2>5. p < q \/ (p = q /\ i < j)
    BY <1>1, <2>2, <2>4, FlattenOrder
  <2>6. flat[a] = ss[p][i] /\ flat[b] = ss[q][j]
    BY <1>1, <2>2, <2>4, FlattenPlace
  <2>7. CASE p < q
    <3> DEFINE x == ss[p][i]
               y == ss[q][j]
    <3>1. nums[p] < nums[q]
      BY <1>1, <1>4, <2>7 DEF Climbing
    <3>2. x \in 1..n /\ y \in 1..n /\ keys[x] = nums[p] /\ keys[y] = nums[q]
          /\ nums[p] \in 0..m /\ nums[q] \in 0..m
      BY <1>5
    <3> HIDE DEF x, y
    <3>3. x # y
      BY <3>1, <3>2
    <3>4. ~(y < x)
      <4> SUFFICES ASSUME y < x PROVE FALSE
        OBVIOUS
      <4>1. keys[y] <= keys[x]
        BY <1>2, <3>2 DEF NeverFalls
      <4> QED BY <3>1, <3>2, <4>1
    <3>5. x < y
      BY <3>2, <3>3, <3>4
    <3> QED BY <2>6, <3>5 DEF x, y
  <2>8. CASE p = q /\ i < j
    <3>1. Climbing(ss[p]) /\ i \in DOMAIN ss[p] /\ j \in DOMAIN ss[p]
      BY <1>1, <1>4, <2>8
    <3>2. ss[p][i] < ss[p][j]
      BY <2>8, <3>1 DEF Climbing
    <3> QED BY <2>6, <2>8, <3>2
  <2> QED BY <2>5, <2>7, <2>8
<1>7. ToSet(flat) = 1..n
  <2>1. \A x \in ToSet(flat) : x \in 1..n
    BY <1>3, ElementOfSeq DEF ToSet
  <2>2. ASSUME NEW x \in 1..n PROVE x \in ToSet(flat)
    <3>1. keys[x] \in ToSet(keys)
      BY <1>2 DEF ToSet
    <3>2. PICK p \in DOMAIN nums : nums[p] = keys[x]
      <4>1. keys[x] \in ToSet(nums)
        BY <1>1, <3>1
      <4> QED BY <4>1 DEF ToSet
    <3>3. x \in ToSet(ss[p])
      BY <1>1, <3>2
    <3>4. PICK i \in DOMAIN ss[p] : ss[p][i] = x
      BY <3>3 DEF ToSet
    <3>5. p \in 1..Len(ss) /\ i \in 1..Len(ss[p])
      BY <1>1, <1>4, <3>2, <3>4
    <3>6. UpTo(ss, p - 1) + i \in 1..Len(flat) /\ flat[UpTo(ss, p - 1) + i] = x
      BY <1>1, <3>4, <3>5, FlattenPlace
    <3> QED BY <1>3, <3>6 DEF ToSet
  <2> QED BY <2>1, <2>2
<1> HIDE DEF flat
<1>8. flat = Numbers(n)
  BY <1>3, <1>6, <1>7, ClimbingCounts
<1> QED BY <1>1, <1>8 DEF ss, flat, nums

(* A function applied to two texts that are joined.                        *)
LEMMA MapConcat ==
    ASSUME NEW X, NEW Y, NEW f \in MapsTo(X, Y), NEW s \in Seq(X), NEW t \in Seq(X)
    PROVE  Map(f, s \o t) = Map(f, s) \o Map(f, t)
<1> DEFINE P == {u \in Seq(X) : Map(f, s \o u) = Map(f, s) \o Map(f, u)}
<1>1. <<>> \in P
  <2>1. s \o <<>> = s /\ Map(f, <<>>) = <<>> /\ Map(f, s) \in Seq(Y)
    BY MapOf, ConcatEmptySeq DEF Map
  <2>2. Map(f, s) \o <<>> = Map(f, s)
    BY <2>1, ConcatEmptySeq
  <2> QED BY <2>1, <2>2, EmptySeq
<1>2. ASSUME NEW u \in Seq(X), NEW e \in X, u \in P PROVE Append(u, e) \in P
  <2>1. s \o Append(u, e) = Append(s \o u, e) /\ s \o u \in Seq(X)
    BY ConcatAppend, ConcatProperties
  <2>2. Map(f, Append(s \o u, e)) = Append(Map(f, s \o u), f[e])
    BY <2>1, MapAppend
  <2>3. Map(f, Append(u, e)) = Append(Map(f, u), f[e])
    BY MapAppend
  <2>4. f[e] \in Y /\ Map(f, s) \in Seq(Y) /\ Map(f, u) \in Seq(Y)
    BY MapOf DEF MapsTo
  <2>5. Map(f, s) \o Append(Map(f, u), f[e]) = Append(Map(f, s) \o Map(f, u), f[e])
    BY <2>4, ConcatAppend
  <2>6. Map(f, s \o u) = Map(f, s) \o Map(f, u)
    BY <1>2
  <2> QED BY <2>1, <2>2, <2>3, <2>5, <2>6, AppendProperties
<1> HIDE DEF P
<1>3. \A u \in Seq(X) : u \in P
  BY <1>1, <1>2, SequenceInduction
<1> QED BY <1>3 DEF P

(* And to all of the joined pieces.                                        *)
MapEach(f, ss) == [k \in DOMAIN ss |-> Map(f, ss[k])]

LEMMA FlattenMap ==
    ASSUME NEW X, NEW Y, NEW f \in MapsTo(X, Y), NEW ss \in Seq(Seq(X))
    PROVE  /\ MapEach(f, ss) \in Seq(Seq(Y))
           /\ FlattenSeq(MapEach(f, ss)) = Map(f, FlattenSeq(ss))
<1> DEFINE g == [s \in Seq(X) |-> Map(f, s)]
           P == {uu \in Seq(Seq(X)) : FlattenSeq(Map(g, uu)) = Map(f, FlattenSeq(uu))}
<1>g. g \in MapsTo(Seq(X), Seq(Y)) /\ \A s \in Seq(X) : g[s] = Map(f, s) /\ g[s] \in Seq(Y)
  BY MapOf DEF MapsTo
<1> HIDE DEF g
<1>1. <<>> \in P
  <2>1. FlattenSeq(<<>>) = <<>> /\ <<>> \in Seq(Seq(X)) /\ Map(g, <<>>) = <<>> /\ Map(f, <<>>) = <<>>
    BY FlattenAppend, EmptySeq DEF Map
  <2> QED BY <2>1
<1>2. ASSUME NEW uu \in Seq(Seq(X)), NEW s \in Seq(X), uu \in P PROVE Append(uu, s) \in P
  <2>1. Append(uu, s) \in Seq(Seq(X)) /\ FlattenSeq(uu) \in Seq(X)
    BY AppendProperties, FlattenAppend
  <2>2. FlattenSeq(Append(uu, s)) = FlattenSeq(uu) \o s
    BY FlattenAppend
  <2>3. Map(f, FlattenSeq(uu) \o s) = Map(f, FlattenSeq(uu)) \o Map(f, s)
    BY <2>1, MapConcat
  <2>4. Map(g, Append(uu, s)) = Append(Map(g, uu), g[s])
    BY <1>g, MapAppend
  <2>5. Map(g, uu) \in Seq(Seq(Y)) /\ g[s] \in Seq(Y)
    BY <1>g, MapOf
  <2>6. FlattenSeq(Append(Map(g, uu), g[s])) = FlattenSeq(Map(g, uu)) \o g[s]
    BY <2>5, FlattenAppend
  <2>7. FlattenSeq(Map(g, uu)) = Map(f, FlattenSeq(uu))
    BY <1>2
  <2>8. g[s] = Map(f, s)
    BY <1>g
  <2> QED BY <2>1, <2>2, <2>3, <2>4, <2>6, <2>7, <2>8
<1> HIDE DEF P
<1>3. ss \in P
  <2>1. \A uu \in Seq(Seq(X)) : uu \in P
    BY <1>1, <1>2, SequenceInduction
  <2> QED BY <2>1
<1>4. Map(g, ss) = MapEach(f, ss)
  <2>1. \A k \in DOMAIN ss : ss[k] \in Seq(X)
    BY LenProperties, ElementOfSeq
  <2> QED BY <1>g, <2>1 DEF Map, MapEach
<1>5. Map(g, ss) \in Seq(Seq(Y))
  BY <1>g, MapOf
<1> QED BY <1>3, <1>4, <1>5 DEF P

(* What is grouped by keys that never fall is what there was.              *)
LEMMA GroupedMap ==
    ASSUME NEW n \in Nat, NEW m \in Nat, NEW keys \in Keys(n, m), NeverFalls(keys),
           NEW Y, NEW f \in MapsTo(1..n, Y)
    PROVE  /\ MapEach(f, Grouped(keys)) \in Seq(Seq(Y))
           /\ FlattenSeq(MapEach(f, Grouped(keys))) = f
<1>1. Grouped(keys) \in Seq(Seq(1..n)) /\ FlattenSeq(Grouped(keys)) = Numbers(n)
  BY GroupedCounts
<1>2. /\ MapEach(f, Grouped(keys)) \in Seq(Seq(Y))
      /\ FlattenSeq(MapEach(f, Grouped(keys))) = Map(f, Numbers(n))
  BY <1>1, FlattenMap
<1>3. Map(f, Numbers(n)) = [k \in 1..n |-> f[k]]
  BY DEF Map, Numbers
<1>4. [k \in 1..n |-> f[k]] = f
  BY DEF MapsTo
<1> QED BY <1>2, <1>3, <1>4

-----------------------------------------------------------------------------
(* Later places are on later pages.                                        *)
LEMMA PagesRise ==
    ASSUME NEW X, NEW pages \in Seq(Seq(X)), NEW a \in 1..Len(Printed(pages)),
           NEW b \in 1..Len(Printed(pages)), a <= b
    PROVE  /\ PageOfPlace(pages, a) \in DOMAIN pages /\ PageOfPlace(pages, b) \in DOMAIN pages
           /\ PageOfPlace(pages, a) <= PageOfPlace(pages, b)
<1>0. DOMAIN pages = 1..Len(pages) /\ Len(pages) \in Nat /\ Len(Printed(pages)) \in Nat
  <2>1. Printed(pages) \in Seq(X)
    BY UpToOf
  <2> QED BY <2>1, LenProperties
<1>1. PICK p \in 1..Len(pages) : a \in OnPage(pages, p)
  BY OnSomePage
<1>2. PICK q \in 1..Len(pages) : b \in OnPage(pages, q)
  BY OnSomePage
<1>3. PageOfPlace(pages, a) = p /\ PageOfPlace(pages, b) = q
  BY <1>0, <1>1, <1>2, OnOnePage
<1>4. ~(q < p)
  <2> SUFFICES ASSUME q < p PROVE FALSE
    OBVIOUS
  <2>1. p - 1 \in 0..Len(pages) /\ q \in 0..p - 1
    BY <1>0, <1>1, <1>2
  <2> DEFINE m == p - 1
  <2>2. m \in 0..Len(pages) /\ q \in 0..m
    BY <2>1
  <2> HIDE DEF m
  <2>3. UpTo(pages, q) <= UpTo(pages, m) /\ UpTo(pages, q) \in Nat /\ UpTo(pages, m) \in Nat
    BY <2>2, UpToGrows
  <2>4. UpTo(pages, m) + 1 <= a /\ b <= UpTo(pages, q)
    BY <1>1, <1>2 DEF OnPage, Start, m
  <2> QED BY <1>0, <2>3, <2>4
<1> QED BY <1>0, <1>1, <1>2, <1>3, <1>4

(* The words of a document are in the order of the printed ones.           *)
LEMMA PlacesRise ==
    ASSUME NEW N, N \subseteq DOMAIN Size, NEW prints \in Seq(PrintOf(N))
    PROVE  LET s == Preprocess(prints, 1) IN
           \A a, b \in 1..Len(s) : a < b => s[a].at \in Nat /\ s[b].at \in Nat /\ s[a].at <= s[b].at
<1> DEFINE V == AnyWord(N, 1..1 + Len(prints) - 1)
           ss == Placed(prints, 1)
           s == Preprocess(prints, 1)
<1>1. ss \in Seq(Seq(V)) /\ s \in Seq(V)
  BY PreprocessOf
<1>2. s = FlattenSeq(ss)
  BY DEF Placed, Preprocess
<1>3. DOMAIN prints = 1..Len(prints) /\ Len(prints) \in Nat
  BY LenProperties
<1>4. ss = [k \in 1..Len(prints) |-> Words(prints[k], 1 + k - 1)]
  BY <1>3 DEF Placed
<1>5. Len(ss) = Len(prints)
  BY <1>3, <1>4
<1>6. \A k \in 1..Len(ss) : ss[k] = Words(prints[k], 1 + k - 1) /\ 1 + k - 1 = k
  BY <1>3, <1>4, <1>5
<1> HIDE DEF ss, s, V
<1>7. ASSUME NEW k \in 1..Len(ss), NEW i \in 1..Len(ss[k])
      PROVE  ss[k][i].at = k /\ k \in Nat
  <2>1. ss[k] = Words(prints[k], k) /\ prints[k] \in PrintOf(N) /\ k \in Nat
    BY <1>3, <1>5, <1>6, ElementOfSeq
  <2>2. Words(prints[k], k) \in Seq(AnyWord(N, {k}))
    BY <2>1, WordsOfPrint
  <2> DEFINE w == ss[k][i]
  <2>3. w \in AnyWord(N, {k})
    BY <2>1, <2>2, ElementOfSeq
  <2> HIDE DEF w
  <2>4. w.at \in {k}
    BY <2>3, WordFacts
  <2> QED BY <2>1, <2>4 DEF w
<1>8. ASSUME NEW a \in 1..Len(s), NEW b \in 1..Len(s), a < b
      PROVE  s[a].at \in Nat /\ s[b].at \in Nat /\ s[a].at <= s[b].at
  <2>1. PICK p \in 1..Len(ss) : \E i \in 1..Len(ss[p]) : a = UpTo(ss, p - 1) + i
    BY <1>1, <1>2, FlattenFrom
  <2>2. PICK i \in 1..Len(ss[p]) : a = UpTo(ss, p - 1) + i
    BY <2>1
  <2>3. PICK q \in 1..Len(ss) : \E j \in 1..Len(ss[q]) : b = UpTo(ss, q - 1) + j
    BY <1>1, <1>2, FlattenFrom
  <2>4. PICK j \in 1..Len(ss[q]) : b = UpTo(ss, q - 1) + j
    BY <2>3
  <2>5. p < q \/ (p = q /\ i < j)
    BY <1>1, <1>8, <2>2, <2>4, FlattenOrder
  <2>6. s[a] = ss[p][i] /\ s[b] = ss[q][j]
    BY <1>1, <1>2, <2>2, <2>4, FlattenPlace
  <2>7. s[a].at = p /\ s[b].at = q /\ p \in Nat /\ q \in Nat
    BY <1>7, <2>6
  <2> QED BY <2>5, <2>7
<1> QED BY <1>8 DEF s

(* The first of ordered pages is the least.                                *)
LEMMA HeadIsLeast ==
    ASSUME NEW n \in Nat, NEW s \in Seq(1..n), s # <<>>, Climbing(s)
    PROVE  Head(s) \in ToSet(s) /\ \A x \in ToSet(s) : Head(s) <= x
<1>1. Len(s) \in Nat /\ DOMAIN s = 1..Len(s) /\ \A i \in 1..Len(s) : s[i] \in 1..n
  BY LenProperties, ElementOfSeq
<1>2. Len(s) # 0
  BY EmptySeq
<1>3. 1 \in 1..Len(s) /\ Head(s) = s[1]
  BY <1>1, <1>2
<1>4. \A i \in 1..Len(s) : s[1] <= s[i]
  <2> SUFFICES ASSUME NEW i \in 1..Len(s) PROVE s[1] <= s[i]
    OBVIOUS
  <2>1. i = 1 \/ 1 < i
    BY <1>1
  <2>2. 1 < i => s[1] < s[i]
    BY <1>1, <1>3 DEF Climbing
  <2>3. s[1] \in Nat /\ s[i] \in Nat
    BY <1>1, <1>3
  <2> QED BY <2>1, <2>2, <2>3
<1> QED BY <1>1, <1>3, <1>4 DEF ToSet

(* Of the words of two chunks of a document, the earlier chunk's come      *)
(* first.                                                                  *)
LEMMA SpokenRise ==
    ASSUME Staged, stage = "build", NEW k \in 1..Len(chunks), NEW l \in 1..Len(chunks), k < l,
           NEW x \in SpokenPlaces(chunks[k].text), NEW y \in SpokenPlaces(chunks[l].text)
    PROVE  x \in 1..Len(Prints) /\ y \in 1..Len(Prints) /\ x <= y
<1> DEFINE cs == chunks
           V == AnyWord(Sounds, AnyPlace)
           tt == Texts(cs)
           ss == SpokenOfEach(tt)
           flat == FlattenSeq(ss)
           s == Preprocess(Prints, 1)
<1>1. cs \in Seq(ChunkRecord(Sounds, AnyPlace, DOMAIN request.pages)) /\ Speaks(cs, request.pages)
  BY ChunksOfDocument DEF Sounds, AnyPlace
<1>2. HasText(ChunkRecord(Sounds, AnyPlace, DOMAIN request.pages), Seq(V))
  BY DEF HasText, ChunkRecord
<1> HIDE DEF cs
<1>3. tt \in Seq(Seq(V)) /\ Len(tt) = Len(cs)
  BY <1>1, <1>2, TextsOf
<1>4. Len(cs) \in Nat /\ DOMAIN cs = 1..Len(cs)
  BY <1>1, LenProperties
<1>5. ss \in Seq(Seq(V)) /\ Spoken(FlattenSeq(tt)) = flat
  BY <1>3, SpokenPieces
<1>6. tt = [j \in 1..Len(cs) |-> cs[j].text] /\ ss = [j \in 1..Len(cs) |-> Spoken(cs[j].text)]
  BY <1>4 DEF Texts, SpokenOfEach
<1>7. Len(ss) = Len(cs)
  BY <1>4, <1>6
<1>8. NameAndPlace(flat) = NameAndPlace(s)
  BY <1>1, <1>5 DEF Speaks, Said, Prints
<1>9. Prints \in Seq(PrintOf(Written)) /\ Len(Prints) \in Nat /\ Written \subseteq DOMAIN Size
  BY PrintsOfDocument DEF Written
<1>10. \A a, b \in 1..Len(s) : a < b => s[a].at \in Nat /\ s[b].at \in Nat /\ s[a].at <= s[b].at
  BY <1>9, PlacesRise
<1>11. s \in Seq(AnyWord(Written, 1..1 + Len(Prints) - 1))
  BY <1>9, PreprocessOf
<1>12. DOMAIN s = 1..Len(s) /\ Len(s) \in Nat
  BY <1>11, LenProperties
<1> HIDE DEF s, ss, tt, V
<1>13. DOMAIN flat = 1..Len(flat) /\ Len(flat) \in Nat
  BY <1>5, FlattenAppend, LenProperties
<1> HIDE DEF flat
<1>14. DOMAIN flat = DOMAIN s /\ \A a \in DOMAIN s : flat[a].at = s[a].at
  <2> DEFINE f == NameAndPlace(flat)
             g == NameAndPlace(s)
  <2>1. DOMAIN f = DOMAIN flat /\ DOMAIN g = DOMAIN s
    BY DEF NameAndPlace
  <2>2. DOMAIN flat = DOMAIN s
    BY <1>8, <2>1
  <2>3. ASSUME NEW a \in DOMAIN s PROVE flat[a].at = s[a].at
    <3>1. f[a] = <<flat[a].name, flat[a].at>> /\ g[a] = <<s[a].name, s[a].at>>
      BY <2>2 DEF NameAndPlace
    <3> QED BY <1>8, <3>1
  <2> QED BY <2>2, <2>3
<1>15. Len(flat) = Len(s)
  <2> DEFINE m == Len(flat)
             n == Len(s)
  <2>1. m \in Nat /\ n \in Nat /\ 1..m = 1..n
    BY <1>12, <1>13, <1>14
  <2> HIDE DEF m, n
  <2>2. m = n
    <3>1. ~(m < n)
      <4> SUFFICES ASSUME m < n PROVE FALSE
        OBVIOUS
      <4>1. n \in 1..n /\ n \notin 1..m
        BY <2>1
      <4> QED BY <2>1, <4>1
    <3>2. ~(n < m)
      <4> SUFFICES ASSUME n < m PROVE FALSE
        OBVIOUS
      <4>1. m \in 1..m /\ m \notin 1..n
        BY <2>1
      <4> QED BY <2>1, <4>1
    <3> QED BY <2>1, <3>1, <3>2
  <2> QED BY <2>2 DEF m, n
<1>16. PICK i \in 1..Len(ss[k]) : ss[k][i].at = x
  <2>1. ss[k] = Spoken(cs[k].text) /\ ss[k] \in Seq(V)
    BY <1>5, <1>6, <1>7, ElementOfSeq DEF cs
  <2>2. DOMAIN ss[k] = 1..Len(ss[k])
    BY <2>1, LenProperties
  <2> QED BY <2>1, <2>2 DEF SpokenPlaces, cs
<1>17. PICK j \in 1..Len(ss[l]) : ss[l][j].at = y
  <2>1. ss[l] = Spoken(cs[l].text) /\ ss[l] \in Seq(V)
    BY <1>5, <1>6, <1>7, ElementOfSeq DEF cs
  <2>2. DOMAIN ss[l] = 1..Len(ss[l])
    BY <2>1, LenProperties
  <2> QED BY <2>1, <2>2 DEF SpokenPlaces, cs
<1>18. k \in 1..Len(ss) /\ l \in 1..Len(ss)
  BY <1>7 DEF cs
<1> DEFINE a == UpTo(ss, k - 1) + i
           b == UpTo(ss, l - 1) + j
<1>19. a \in 1..Len(flat) /\ flat[a] = ss[k][i] /\ b \in 1..Len(flat) /\ flat[b] = ss[l][j]
  BY <1>5, <1>18, FlattenPlace DEF flat
<1>20. a < b
  BY <1>5, <1>18, FlattenOrder
<1> HIDE DEF a, b
<1>21. s[a].at = x /\ s[b].at = y
  BY <1>12, <1>14, <1>15, <1>16, <1>17, <1>19
<1>22. x <= y
  BY <1>10, <1>15, <1>19, <1>20, <1>21
<1>23. SpokenPlaces(chunks[k].text) \subseteq AnyPlace \ {0}
       /\ SpokenPlaces(chunks[l].text) \subseteq AnyPlace \ {0}
  <2>1. cs[k].text \in Seq(V) /\ cs[l].text \in Seq(V)
    BY <1>1, <1>2, ElementOfSeq DEF HasText, cs
  <2> QED BY <2>1, PlacesIn DEF V, cs
<1>24. x \in 1..Len(Prints) /\ y \in 1..Len(Prints)
  BY <1>9, <1>23 DEF AnyPlace
<1> QED BY <1>22, <1>24

(* The chunks are in the order of the pages they begin on.                 *)
LEMMA FirstPagesRise ==
    ASSUME Staged, stage = "build", request.paged,
           NEW k \in 1..Len(chunks), NEW l \in 1..Len(chunks), k < l
    PROVE  Head(chunks[k].pages) <= Head(chunks[l].pages)
<1> DEFINE pages == request.pages
           P(c) == {PageOfPlace(pages, at) : at \in SpokenPlaces(c.text)}
           n == Len(pages)
<1>1. chunks \in Seq(ChunkRecord(Sounds, AnyPlace, DOMAIN pages))
      /\ \A j \in DOMAIN chunks : HasItsPages(chunks[j], pages)
  BY ChunksOfDocument DEF Sounds, AnyPlace
<1>2. k \in DOMAIN chunks /\ l \in DOMAIN chunks
  BY <1>1, LenProperties
<1>3. pages \in Seq(Seq(PrintOf(Written)))
  BY WrittenWords DEF Staged
<1>4. n \in Nat /\ DOMAIN pages = 1..n
  BY <1>3, LenProperties
<1> HIDE DEF n
<1>5. ASSUME NEW j \in DOMAIN chunks
      PROVE  /\ ToSet(chunks[j].pages) = P(chunks[j]) /\ Head(chunks[j].pages) \in P(chunks[j])
             /\ \A x \in P(chunks[j]) : Head(chunks[j].pages) <= x
             /\ Head(chunks[j].pages) \in Nat
  <2>1. /\ chunks[j].pages \in Seq(1..n) /\ chunks[j].pages # <<>> /\ Climbing(chunks[j].pages)
        /\ ToSet(chunks[j].pages) = P(chunks[j])
    BY <1>1, <1>4 DEF HasItsPages
  <2>2. /\ Head(chunks[j].pages) \in ToSet(chunks[j].pages)
        /\ \A x \in ToSet(chunks[j].pages) : Head(chunks[j].pages) <= x
    BY <1>4, <2>1, HeadIsLeast
  <2>3. Head(chunks[j].pages) \in 1..n
    BY <2>1, EmptySeq, HeadTailProperties
  <2> QED BY <1>4, <2>1, <2>2, <2>3
<1>6. PICK y \in SpokenPlaces(chunks[l].text) : Head(chunks[l].pages) = PageOfPlace(pages, y)
  BY <1>2, <1>5
<1>7. PICK x \in SpokenPlaces(chunks[k].text) : Head(chunks[k].pages) = PageOfPlace(pages, x)
  BY <1>2, <1>5
<1>8. x \in 1..Len(Prints) /\ y \in 1..Len(Prints) /\ x <= y
  BY SpokenRise
<1>9. PageOfPlace(pages, x) <= PageOfPlace(pages, y)
  BY <1>3, <1>8, PagesRise DEF Prints
<1> QED BY <1>6, <1>7, <1>9

-----------------------------------------------------------------------------
(* The same for what is joined piece by piece.                             *)
LEMMA GroupedFlat ==
    ASSUME NEW n \in Nat, NEW m \in Nat, NEW keys \in Keys(n, m), NeverFalls(keys),
           NEW Y, NEW f \in MapsTo(1..n, Seq(Y))
    PROVE  FlattenSeq([p \in DOMAIN Grouped(keys) |-> FlattenSeq(Map(f, Grouped(keys)[p]))])
             = FlattenSeq(f)
<1> DEFINE ss == Grouped(keys)
           tt == MapEach(f, ss)
<1>1. tt \in Seq(Seq(Seq(Y))) /\ FlattenSeq(tt) = f
  BY GroupedMap
<1>2. FlattenSeq(FlattenSeq(tt)) = FlattenSeq([p \in DOMAIN tt |-> FlattenSeq(tt[p])])
  BY <1>1, FlattenTwice
<1>3. [p \in DOMAIN tt |-> FlattenSeq(tt[p])] = [p \in DOMAIN ss |-> FlattenSeq(Map(f, ss[p]))]
  BY DEF MapEach
<1> QED BY <1>1, <1>2, <1>3

(* What the chunks are grouped by: the page they begin on, or another      *)
(* number where the text has no pages.                                     *)
FirstPage(al, none) ==
    [k \in DOMAIN al |-> IF al[k].pages = <<>> THEN none ELSE Head(al[k].pages)]

LEMMA FirstPageRises ==
    ASSUME Staged, stage = "build", NEW none \in 0..1
    PROVE  /\ FirstPage(aligned, none) \in Keys(Len(aligned), Len(request.pages) + 1)
           /\ NeverFalls(FirstPage(aligned, none))
           /\ Len(aligned) \in Nat /\ Len(request.pages) + 1 \in Nat
<1> DEFINE n == Len(aligned)
           pages == request.pages
           m == Len(pages)
           keys == FirstPage(aligned, none)
<1>1. /\ n \in Nat /\ DOMAIN aligned = 1..n /\ DOMAIN chunks = 1..n /\ n = Len(chunks)
      /\ \A k \in 1..n : aligned[k].pages = chunks[k].pages
  BY AlignedOf
<1>2. pages \in Seq(Seq(PrintOf(Written)))
  BY WrittenWords DEF Staged
<1>3. m \in Nat /\ DOMAIN pages = 1..m
  BY <1>2, LenProperties
<1>4. \A k \in 1..n : IF request.paged THEN HasItsPages(chunks[k], pages)
                      ELSE chunks[k].pages = <<>>
  BY <1>1, ChunksOfDocument
<1>5. keys = [k \in 1..n |-> IF chunks[k].pages = <<>> THEN none ELSE Head(chunks[k].pages)]
  BY <1>1 DEF FirstPage
<1> HIDE DEF n, m, keys
<1>6. ASSUME request.paged, NEW k \in 1..n
      PROVE  keys[k] = Head(chunks[k].pages) /\ Head(chunks[k].pages) \in 1..m
  <2>1. chunks[k].pages \in Seq(1..m) /\ chunks[k].pages # <<>>
    BY <1>3, <1>4, <1>6 DEF HasItsPages
  <2>2. Head(chunks[k].pages) \in 1..m
    BY <2>1, HeadTailProperties
  <2> QED BY <1>5, <2>1, <2>2
<1>7. ASSUME ~request.paged, NEW k \in 1..n PROVE keys[k] = none
  BY <1>4, <1>5, <1>7
<1>8. \A k \in 1..n : keys[k] \in 0..m + 1
  BY <1>3, <1>6, <1>7
<1>9. keys \in Keys(n, m + 1)
  <2>1. keys = [k \in 1..n |-> keys[k]]
    BY <1>5
  <2> QED BY <1>8, <2>1 DEF Keys
<1>10. ASSUME NEW k \in 1..n, NEW l \in 1..n, k < l PROVE keys[k] <= keys[l]
  <2>1. CASE request.paged
    <3>1. Head(chunks[k].pages) <= Head(chunks[l].pages)
      BY <1>1, <1>10, <2>1, FirstPagesRise DEF n
    <3> QED BY <1>6, <2>1, <3>1
  <2>2. CASE ~request.paged
    BY <1>7, <2>2
  <2> QED BY <2>1, <2>2
<1>11. NeverFalls(keys)
  <2>1. DOMAIN keys = 1..n
    BY <1>5
  <2> QED BY <1>10, <2>1 DEF NeverFalls
<1> QED BY <1>1, <1>3, <1>9, <1>11 DEF keys, n, m

(* The readers' words: of all chunks, in order, each where it is in the    *)
(* joined audio.                                                           *)
LEMMA ManifestOf ==
    ASSUME Staged, stage = "build", NEW rendered
    PROVE  LET manifest == Manifest(aligned, rendered) IN
           /\ DOMAIN manifest.chunks = DOMAIN aligned
           /\ \A k \in DOMAIN aligned :
                /\ manifest.chunks[k].offset = Offsets(aligned)[k]
                /\ manifest.chunks[k].pages = aligned[k].pages
                /\ manifest.chunks[k].words = Lined(aligned)[k]
           /\ manifest.duration = Total(aligned)
           /\ Timeline(manifest) = FlattenSeq(Lined(aligned))
<1> DEFINE manifest == Manifest(aligned, rendered)
           off == Offsets(aligned)
           tt == Lined(aligned)
<1>1. manifest.chunks = [k \in DOMAIN aligned |->
                          [num |-> aligned[k].num, offset |-> off[k], pages |-> aligned[k].pages,
                           words |-> Shifted(aligned[k].words, off[k])]]
  BY DEF Manifest
<1>2. manifest.duration = Total(aligned)
  BY DEF Manifest, Total
<1>3. tt = [k \in DOMAIN aligned |-> Shifted(aligned[k].words, off[k])]
  BY DEF Lined
<1> HIDE DEF manifest, off, tt
<1>4. /\ DOMAIN manifest.chunks = DOMAIN aligned
      /\ \A k \in DOMAIN aligned :
           /\ manifest.chunks[k].offset = off[k]
           /\ manifest.chunks[k].pages = aligned[k].pages
           /\ manifest.chunks[k].words = tt[k]
  BY <1>1, <1>3
<1>5. [k \in DOMAIN manifest.chunks |-> manifest.chunks[k].words] = tt
  BY <1>3, <1>4
<1>6. Timeline(manifest) = FlattenSeq(tt)
  BY <1>5 DEF Timeline
<1> QED BY <1>2, <1>4, <1>6 DEF manifest, off, tt

(* The offline reader has drawn the words in the order it counts them.     *)
LEMMA DrawnInOrder ==
    ASSUME Staged, stage = "build", NEW rendered
    PROVE  Drawings(Manifest(aligned, rendered)) = Timeline(Manifest(aligned, rendered))
<1> DEFINE manifest == Manifest(aligned, rendered)
           cs == manifest.chunks
           n == Len(aligned)
           m == Len(request.pages) + 1
           keys == FirstPage(aligned, 0)
           ss == Grouped(keys)
           nums == Ascending(ToSet(keys))
           tt == Lined(aligned)
           Of(p) == Members(keys, nums[p])
<1>1. n \in Nat /\ DOMAIN aligned = 1..n
  BY AlignedOf
<1>2. n \in Nat /\ m \in Nat /\ keys \in Keys(n, m) /\ NeverFalls(keys)
  <2>1. 0 \in 0..1
    OBVIOUS
  <2> QED BY <2>1, FirstPageRises
<1>3. /\ DOMAIN cs = 1..n
      /\ \A k \in 1..n : cs[k].pages = aligned[k].pages /\ cs[k].words = tt[k]
      /\ Timeline(manifest) = FlattenSeq(tt)
  BY <1>1, ManifestOf
<1>4. tt \in Seq(Seq(AnyHeard)) /\ Len(tt) = n
  BY LinedOf
<1>5. tt \in MapsTo(1..n, Seq(AnyHeard))
  BY <1>4, SeqDef, LenProperties, ElementOfSeq DEF MapsTo
<1>6. [k \in DOMAIN cs |-> IF cs[k].pages = <<>> THEN 0 ELSE Head(cs[k].pages)] = keys
  BY <1>1, <1>3 DEF FirstPage
<1>7. Drawings(manifest)
        = FlattenSeq([p \in DOMAIN nums |-> FlattenSeq([i \in DOMAIN Of(p) |-> cs[Of(p)[i]].words])])
  BY <1>6 DEF Drawings
<1> HIDE DEF manifest, cs, n, m, keys, tt
<1>8. /\ ss \in Seq(Seq(1..n)) /\ DOMAIN ss = DOMAIN nums
      /\ \A p \in DOMAIN nums : ss[p] = Of(p)
  BY <1>2, GroupOf
<1> HIDE DEF ss, nums, Of
<1>9. ASSUME NEW p \in DOMAIN nums
      PROVE  [i \in DOMAIN Of(p) |-> cs[Of(p)[i]].words] = Map(tt, ss[p])
  <2>1. ss[p] \in Seq(1..n) /\ ss[p] = Of(p)
    BY <1>8, LenProperties, ElementOfSeq
  <2>2. \A i \in DOMAIN Of(p) : Of(p)[i] \in 1..n
    BY <2>1, LenProperties, ElementOfSeq
  <2> QED BY <1>3, <2>1, <2>2 DEF Map
<1>10. Drawings(manifest) = FlattenSeq([p \in DOMAIN ss |-> FlattenSeq(Map(tt, ss[p]))])
  BY <1>7, <1>8, <1>9
<1>11. FlattenSeq([p \in DOMAIN ss |-> FlattenSeq(Map(tt, ss[p]))]) = FlattenSeq(tt)
  BY <1>2, <1>5, GroupedFlat DEF ss
<1>12. Drawings(manifest) = Timeline(manifest)
  BY <1>3, <1>10, <1>11
<1> QED BY <1>12 DEF manifest

-----------------------------------------------------------------------------
(* The EPUB.                                                               *)

(* The text and the clips of each chunk.                                   *)
TextOf(al) ==
    [k \in DOMAIN al |->
        [num   |-> al[k].num,
         spans |-> [i \in DOMAIN al[k].words |-> WordId(al[k].num, i)],
         plain |-> al[k].words = <<>>]]

ClipsOf(al) ==
    [k \in DOMAIN al |->
        [i \in DOMAIN al[k].words |->
            [target |-> WordId(al[k].num, i),
             audio  |-> al[k].num,
             begin  |-> al[k].words[i].start,
             end    |-> al[k].words[i].end]]]

(* Read through its spine, the EPUB has the texts and the clips in the     *)
(* order of the chunks.                                                    *)
LEMMA SpineOf ==
    ASSUME Staged, stage = "build"
    PROVE  LET book == Epub(aligned) IN
           /\ \A Y : TextOf(aligned) \in MapsTo(1..Len(aligned), Y) =>
                FlattenSeq([c \in DOMAIN book.chapters |-> book.chapters[c].text]) = TextOf(aligned)
           /\ \A Y : ClipsOf(aligned) \in MapsTo(1..Len(aligned), Seq(Y)) =>
                FlattenSeq([c \in DOMAIN book.chapters |-> book.chapters[c].smil])
                  = FlattenSeq(ClipsOf(aligned))
           /\ book.audio = {aligned[k].num : k \in DOMAIN aligned}
<1> DEFINE book == Epub(aligned)
           n == Len(aligned)
           m == Len(request.pages) + 1
           keys == ChapterOfEach(aligned)
           ss == Grouped(keys)
           spine == Spine(aligned)
           InChapter(c) == ChunksOfChapter(aligned, spine[c])
           X == TextOf(aligned)
           K == ClipsOf(aligned)
<1>1. n \in Nat /\ DOMAIN aligned = 1..n
  BY AlignedOf
<1>2. n \in Nat /\ m \in Nat /\ keys \in Keys(n, m) /\ NeverFalls(keys)
  <2>1. 1 \in 0..1
    OBVIOUS
  <2>2. keys = FirstPage(aligned, 1)
    BY DEF ChapterOfEach, ChapterOf, FirstPage
  <2> QED BY <2>1, <2>2, FirstPageRises
<1>3. /\ DOMAIN book.chapters = DOMAIN spine
      /\ \A c \in DOMAIN spine : /\ book.chapters[c].text = Xhtml(InChapter(c))
                                 /\ book.chapters[c].smil = Smil(InChapter(c))
      /\ book.audio = {aligned[k].num : k \in DOMAIN aligned}
  BY DEF Epub
<1>4. spine = Ascending(ToSet(keys))
  BY DEF Spine
<1> HIDE DEF keys
<1>5. /\ ss \in Seq(Seq(1..n)) /\ DOMAIN ss = DOMAIN spine
      /\ \A c \in DOMAIN spine : ss[c] = Members(keys, spine[c])
  BY <1>2, <1>4, GroupOf
<1> HIDE DEF n, m, ss, spine, book
<1>6. ASSUME NEW c \in DOMAIN spine
      PROVE  /\ InChapter(c) = [i \in DOMAIN ss[c] |-> aligned[ss[c][i]]]
             /\ \A i \in DOMAIN ss[c] : ss[c][i] \in DOMAIN aligned
  <2>1. ss[c] \in Seq(1..n) /\ ss[c] = Members(keys, spine[c])
    BY <1>5, LenProperties, ElementOfSeq
  <2>2. \A i \in DOMAIN ss[c] : ss[c][i] \in DOMAIN aligned
    BY <1>1, <2>1, LenProperties, ElementOfSeq
  <2> QED BY <2>1, <2>2 DEF ChunksOfChapter, keys
<1> HIDE DEF InChapter, X, K
<1>7. ASSUME NEW c \in DOMAIN spine PROVE Xhtml(InChapter(c)) = Map(X, ss[c])
  BY <1>6 DEF Xhtml, Map, X, TextOf
<1>8. ASSUME NEW c \in DOMAIN spine PROVE Smil(InChapter(c)) = FlattenSeq(Map(K, ss[c]))
  BY <1>6 DEF Smil, Map, K, ClipsOf
<1>9. ASSUME NEW Y, X \in MapsTo(1..n, Y)
      PROVE  FlattenSeq([c \in DOMAIN book.chapters |-> book.chapters[c].text]) = X
  <2>1. [c \in DOMAIN book.chapters |-> book.chapters[c].text] = MapEach(X, ss)
    BY <1>3, <1>5, <1>7 DEF MapEach
  <2>2. FlattenSeq(MapEach(X, ss)) = X
    BY <1>2, <1>9, GroupedMap DEF ss
  <2> QED BY <2>1, <2>2
<1>10. ASSUME NEW Y, K \in MapsTo(1..n, Seq(Y))
       PROVE  FlattenSeq([c \in DOMAIN book.chapters |-> book.chapters[c].smil]) = FlattenSeq(K)
  <2>1. [c \in DOMAIN book.chapters |-> book.chapters[c].smil]
          = [c \in DOMAIN ss |-> FlattenSeq(Map(K, ss[c]))]
    BY <1>3, <1>5, <1>8
  <2>2. FlattenSeq([c \in DOMAIN ss |-> FlattenSeq(Map(K, ss[c]))]) = FlattenSeq(K)
    BY <1>2, <1>10, GroupedFlat DEF ss
  <2> QED BY <2>1, <2>2
<1> QED BY <1>3, <1>9, <1>10 DEF X, K, n, book

-----------------------------------------------------------------------------
Clip == [target : Nat \X Nat, audio : Nat, begin : Int, end : Int]

(* A clip is that of a word, within its chunk's audio.                     *)
LEMMA ClipsOfDocument ==
    ASSUME Staged, stage = "build"
    PROVE  /\ ClipsOf(aligned) \in Seq(Seq(Clip)) /\ Len(ClipsOf(aligned)) = Len(aligned)
           /\ ClipsOf(aligned) \in MapsTo(1..Len(aligned), Seq(Clip))
           /\ \A k \in 1..Len(aligned) :
                /\ DOMAIN ClipsOf(aligned)[k] = DOMAIN aligned[k].words
                /\ \A i \in 1..Len(ClipsOf(aligned)[k]) :
                     LET clip == ClipsOf(aligned)[k][i] IN
                     /\ clip \in Clip /\ clip.target = <<k, i>> /\ clip.audio = k
                     /\ clip.end <= aligned[k].duration
<1> DEFINE n == Len(aligned)
           K == ClipsOf(aligned)
           made(k, i) == [target |-> <<k, i>>, audio |-> k,
                          begin |-> WordsOf(k)[i].start, end |-> WordsOf(k)[i].end]
<1>1. /\ n \in Nat /\ DOMAIN aligned = 1..n
      /\ \A k \in 1..n :
           /\ aligned[k].num = k /\ aligned[k].words = WordsOf(k) /\ WordsOf(k) \in Seq(AnyHeard)
           /\ Clocked(WordsOf(k), aligned[k].duration)
  BY AlignedOf
<1>2. \A k \in 1..n : Len(WordsOf(k)) \in Nat /\ DOMAIN WordsOf(k) = 1..Len(WordsOf(k))
  BY <1>1, LenProperties
<1>3. K = [k \in 1..n |-> [i \in DOMAIN WordsOf(k) |-> made(k, i)]]
  BY <1>1 DEF ClipsOf, WordId
<1> HIDE DEF K, n
<1>4. ASSUME NEW k \in 1..n, NEW i \in 1..Len(WordsOf(k))
      PROVE  /\ made(k, i) \in Clip /\ made(k, i).target = <<k, i>> /\ made(k, i).audio = k
             /\ made(k, i).end <= aligned[k].duration
  <2> DEFINE w == WordsOf(k)[i]
  <2>1. w \in AnyHeard
    BY <1>1, ElementOfSeq
  <2> HIDE DEF w
  <2>2. w.start \in Int /\ w.end \in Int
    BY <2>1 DEF AnyHeard, TimedWord
  <2>3. w.end <= aligned[k].duration
    BY <1>1 DEF Clocked, w
  <2>4. k \in Nat /\ i \in Nat
    BY <1>1, <1>2
  <2> QED BY <2>2, <2>3, <2>4 DEF Clip, w
<1> HIDE DEF made
<1>5. ASSUME NEW k \in 1..n
      PROVE  /\ K[k] \in Seq(Clip) /\ Len(K[k]) = Len(WordsOf(k)) /\ DOMAIN K[k] = DOMAIN WordsOf(k)
             /\ \A i \in 1..Len(WordsOf(k)) : K[k][i] = made(k, i)
  <2>1. K[k] = [i \in 1..Len(WordsOf(k)) |-> made(k, i)] /\ Len(WordsOf(k)) \in Nat
    BY <1>2, <1>3
  <2>2. K[k] \in [1..Len(WordsOf(k)) -> Clip]
    BY <1>4, <2>1
  <2>3. K[k] \in Seq(Clip) /\ Len(K[k]) = Len(WordsOf(k))
    BY <2>1, <2>2, SeqDef, LenProperties
  <2> QED BY <1>2, <2>1, <2>3
<1>6. K \in [1..n -> Seq(Clip)]
  BY <1>3, <1>5
<1>7. K \in Seq(Seq(Clip)) /\ Len(K) = n
  BY <1>1, <1>6, SeqDef, LenProperties
<1>8. \A k \in 1..n : DOMAIN K[k] = DOMAIN aligned[k].words
  BY <1>1, <1>5
<1> QED BY <1>4, <1>5, <1>6, <1>7, <1>8 DEF K, n, MapsTo

(* As many targets as clips: no two clips light up the same word.          *)
LEMMA TargetsOf ==
    ASSUME Staged, stage = "build"
    PROVE  LET clips == FlattenSeq(ClipsOf(aligned)) IN
           /\ clips \in Seq(Clip)
           /\ Cardinality({clips[i].target : i \in DOMAIN clips}) = Len(clips)
           /\ \A i \in DOMAIN clips : /\ clips[i].audio \in 1..Len(aligned)
                                      /\ clips[i].end <= aligned[clips[i].audio].duration
<1> DEFINE K == ClipsOf(aligned)
           clips == FlattenSeq(K)
           n == Len(aligned)
           T == {clips[i].target : i \in DOMAIN clips}
<1>1. /\ K \in Seq(Seq(Clip)) /\ Len(K) = n
      /\ \A k \in 1..n : \A i \in 1..Len(K[k]) :
           /\ K[k][i].target = <<k, i>> /\ K[k][i].audio = k
           /\ K[k][i].end <= aligned[k].duration
  BY ClipsOfDocument
<1> HIDE DEF K, n
<1>2. clips \in Seq(Clip) /\ Len(clips) \in Nat /\ DOMAIN clips = 1..Len(clips)
  BY <1>1, FlattenAppend, LenProperties
<1>3. ASSUME NEW a \in 1..Len(clips)
      PROVE  \E k \in 1..n : \E i \in 1..Len(K[k]) :
               a = UpTo(K, k - 1) + i /\ clips[a] = K[k][i] /\ clips[a].target = <<k, i>>
  <2>1. PICK k \in 1..Len(K) : \E i \in 1..Len(K[k]) : a = UpTo(K, k - 1) + i
    BY <1>1, FlattenFrom
  <2>2. PICK i \in 1..Len(K[k]) : a = UpTo(K, k - 1) + i
    BY <2>1
  <2>3. clips[a] = K[k][i]
    BY <1>1, <2>2, FlattenPlace
  <2> QED BY <1>1, <2>1, <2>2, <2>3
<1> HIDE DEF clips
<1>4. ASSUME NEW a \in 1..Len(clips), NEW b \in 1..Len(clips), clips[a].target = clips[b].target
      PROVE  a = b
  <2>1. PICK k \in 1..n : \E i \in 1..Len(K[k]) :
          a = UpTo(K, k - 1) + i /\ clips[a].target = <<k, i>>
    BY <1>3
  <2>2. PICK i \in 1..Len(K[k]) : a = UpTo(K, k - 1) + i /\ clips[a].target = <<k, i>>
    BY <2>1
  <2>3. PICK l \in 1..n : \E j \in 1..Len(K[l]) :
          b = UpTo(K, l - 1) + j /\ clips[b].target = <<l, j>>
    BY <1>3
  <2>4. PICK j \in 1..Len(K[l]) : b = UpTo(K, l - 1) + j /\ clips[b].target = <<l, j>>
    BY <2>3
  <2>5. k = l /\ i = j
    BY <1>4, <2>2, <2>4
  <2> QED BY <2>2, <2>4, <2>5
<1>5. \A a \in 1..Len(clips) : /\ clips[a].audio \in 1..n
                               /\ clips[a].end <= aligned[clips[a].audio].duration
  <2> SUFFICES ASSUME NEW a \in 1..Len(clips)
               PROVE  clips[a].audio \in 1..n /\ clips[a].end <= aligned[clips[a].audio].duration
    OBVIOUS
  <2>1. PICK k \in 1..n : \E i \in 1..Len(K[k]) : clips[a] = K[k][i]
    BY <1>3
  <2>2. PICK i \in 1..Len(K[k]) : clips[a] = K[k][i]
    BY <2>1
  <2> QED BY <1>1, <2>2
<1> DEFINE f == [a \in 1..Len(clips) |-> clips[a].target]
<1>6. f \in Bijection(1..Len(clips), T)
  <2>1. f \in [1..Len(clips) -> T]
    BY <1>2
  <2>2. \A a, b \in 1..Len(clips) : f[a] = f[b] => a = b
    BY <1>4
  <2>3. \A t \in T : \E a \in 1..Len(clips) : f[a] = t
    BY <1>2
  <2> HIDE DEF f, T
  <2> QED BY <2>1, <2>2, <2>3 DEF Bijection, Injection, Surjection, IsInjective
<1>7. IsFiniteSet(1..Len(clips)) /\ Cardinality(1..Len(clips)) = Len(clips)
  <2> DEFINE m == Len(clips)
  <2>1. m \in Nat
    BY <1>2
  <2> HIDE DEF m
  <2>2. IsFiniteSet(1..m) /\ Cardinality(1..m) = IF 1 > m THEN 0 ELSE m - 1 + 1
    BY <2>1, FS_Interval
  <2>3. Cardinality(1..m) = m
    BY <2>1, <2>2
  <2> QED BY <2>2, <2>3 DEF m
<1>8. ExistsBijection(1..Len(clips), T)
  <2> HIDE DEF f, T
  <2> QED BY <1>6 DEF ExistsBijection
<1> HIDE DEF T
<1>9. Cardinality(T) = Len(clips)
  BY <1>7, <1>8, FS_Bijection
<1> QED BY <1>2, <1>5, <1>9 DEF clips, K, n, T

(* The EPUB has the chunks in the order of the narration, with one span    *)
(* and one clip for each word, within what is played of the chunk's audio. *)
LEMMA BookOfDocument ==
    ASSUME Staged, stage = "build"
    PROVE  LET book == Epub(aligned)
               text == FlattenSeq([c \in DOMAIN book.chapters |-> book.chapters[c].text])
               clips == FlattenSeq([c \in DOMAIN book.chapters |-> book.chapters[c].smil])
           IN  /\ [k \in DOMAIN text |-> text[k].num] = [k \in DOMAIN aligned |-> aligned[k].num]
               /\ [i \in DOMAIN clips |-> clips[i].target]
                    = FlattenSeq([k \in DOMAIN text |-> text[k].spans])
               /\ Cardinality({clips[i].target : i \in DOMAIN clips}) = Len(clips)
               /\ \A i \in DOMAIN clips :
                    clips[i].audio \in book.audio /\ clips[i].end <= aligned[clips[i].audio].duration
<1> DEFINE book == Epub(aligned)
           text == FlattenSeq([c \in DOMAIN book.chapters |-> book.chapters[c].text])
           clips == FlattenSeq([c \in DOMAIN book.chapters |-> book.chapters[c].smil])
           n == Len(aligned)
           X == TextOf(aligned)
           K == ClipsOf(aligned)
<1>1. n \in Nat /\ DOMAIN aligned = 1..n /\ \A k \in 1..n : aligned[k].num = k
  BY AlignedOf
<1>2. /\ K \in Seq(Seq(Clip)) /\ Len(K) = n /\ K \in MapsTo(1..n, Seq(Clip))
      /\ \A k \in 1..n :
           /\ DOMAIN K[k] = DOMAIN aligned[k].words
           /\ \A i \in 1..Len(K[k]) : K[k][i] \in Clip /\ K[k][i].target = <<k, i>>
  BY ClipsOfDocument
<1>3. X \in MapsTo(1..n, {X[k] : k \in 1..n})
  BY <1>1 DEF TextOf, MapsTo
<1>4. text = X /\ clips = FlattenSeq(K) /\ book.audio = {aligned[k].num : k \in DOMAIN aligned}
  BY <1>2, <1>3, SpineOf
<1>5. book.audio = 1..n
  BY <1>1, <1>4
<1>6. /\ DOMAIN X = 1..n
      /\ \A k \in 1..n : /\ X[k].num = aligned[k].num
                         /\ X[k].spans = [i \in DOMAIN aligned[k].words |-> <<k, i>>]
  BY <1>1 DEF TextOf, WordId
<1>7. /\ FlattenSeq(K) \in Seq(Clip)
      /\ Cardinality({clips[i].target : i \in DOMAIN clips}) = Len(clips)
      /\ \A i \in DOMAIN clips : /\ clips[i].audio \in 1..n
                                 /\ clips[i].end <= aligned[clips[i].audio].duration
  <2> HIDE DEF clips
  <2> QED BY <1>4, TargetsOf
<1> HIDE DEF X, K, n, text, clips, book
<1>8. [k \in DOMAIN text |-> text[k].num] = [k \in DOMAIN aligned |-> aligned[k].num]
  BY <1>1, <1>4, <1>6
<1>9. [i \in DOMAIN clips |-> clips[i].target] = FlattenSeq([k \in DOMAIN text |-> text[k].spans])
  <2> DEFINE f == [clip \in Clip |-> clip.target]
  <2>1. f \in MapsTo(Clip, Nat \X Nat) /\ \A clip \in Clip : f[clip] = clip.target
    BY DEF Clip, MapsTo
  <2> HIDE DEF f
  <2>2. FlattenSeq(MapEach(f, K)) = Map(f, FlattenSeq(K))
    BY <1>2, <2>1, FlattenMap
  <2>3. \A i \in DOMAIN clips : clips[i] \in Clip
    BY <1>4, <1>7, LenProperties, ElementOfSeq
  <2>4. Map(f, FlattenSeq(K)) = [i \in DOMAIN clips |-> clips[i].target]
    BY <1>4, <2>1, <2>3 DEF Map
  <2>5. DOMAIN K = 1..n /\ \A k \in 1..n : DOMAIN K[k] = 1..Len(K[k])
    BY <1>2, LenProperties, ElementOfSeq
  <2>6. ASSUME NEW k \in 1..n PROVE Map(f, K[k]) = text[k].spans
    <3>1. \A i \in DOMAIN K[k] : f[K[k][i]] = <<k, i>>
      BY <1>2, <2>1, <2>5
    <3> DEFINE D == DOMAIN K[k]
    <3>2. Map(f, K[k]) = [i \in D |-> <<k, i>>]
      BY <3>1 DEF Map
    <3>3. D = DOMAIN aligned[k].words
      BY <1>2
    <3> HIDE DEF D
    <3>4. text[k].spans = [i \in D |-> <<k, i>>]
      BY <1>4, <1>6, <3>3
    <3> QED BY <3>2, <3>4
  <2>7. MapEach(f, K) = [k \in DOMAIN text |-> text[k].spans]
    BY <1>4, <1>6, <2>5, <2>6 DEF MapEach
  <2> QED BY <2>2, <2>4, <2>7
<1> QED BY <1>5, <1>7, <1>8, <1>9 DEF text, clips, book

-----------------------------------------------------------------------------
(* Whatever the document and its limits, and whatever was missed, taken    *)
(* for another word or for two, and where no word was aligned: at every    *)
(* time at which a word is spoken, up to where it meets the next one, the  *)
(* video's clip, the browser's reader and the offline reader mark a word   *)
(* that is spoken then (get_active_word_index, Reader.tsx,                 *)
(* offline_reader.py), the offline reader has drawn the words in the order *)
(* it counts them, and the EPUB has the chunks in the order of the         *)
(* narration, with one span and one clip for each word (epub_builder.py).  *)
THEOREM AllReadersAgree == Spec => []ReadersAgree
<1>1. Staged => ReadersAgree
  <2> SUFFICES ASSUME Staged, stage = "build" PROVE ReadersAgree
    BY DEF ReadersAgree
  <2> DEFINE manifest == Manifest(aligned, DOMAIN request.pages)
             line == Timeline(manifest)
  <2>1. ASSUME NEW k \in DOMAIN aligned, NEW i \in DOMAIN WordsOf(k),
               NEW t \in WordsOf(k)[i].start .. WordsOf(k)[i].end
        PROVE  LET at == t + manifest.chunks[k].offset
                   now == SpokenAt(WordsOf(k), t)
               IN  /\ Active(WordsOf(k), t) \in now
                   /\ (ReaderActive(line, at) + 1) - Before(k) \in now
                   /\ (OfflineActive(line, at) + 1) - Before(k) \in now
                   /\ at <= manifest.duration
    <3> DEFINE at == t + Offsets(aligned)[k]
               now == SpokenAt(WordsOf(k), t)
    <3>1. /\ manifest.chunks[k].offset = Offsets(aligned)[k] /\ manifest.duration = Total(aligned)
          /\ line = FlattenSeq(Lined(aligned))
      BY ManifestOf
    <3>2. /\ Speaking(WordsOf(k), t, i) /\ Speaking(line, at, Before(k) + i)
          /\ \A q \in SpokenAt(line, at) : q - Before(k) \in now
          /\ at <= Total(aligned)
      BY <3>1, JoinedSpeaking
    <3> HIDE DEF line, manifest, at
    <3>3. /\ Active(WordsOf(k), t) \in now
          /\ ReaderActive(line, at) + 1 \in SpokenAt(line, at)
          /\ OfflineActive(line, at) + 1 \in SpokenAt(line, at)
      BY <3>2, ActiveSpeaking, ReaderSpeaking, OfflineSpeaking
    <3>4. t + manifest.chunks[k].offset = at
      BY <3>1 DEF at
    <3> DEFINE a == ReaderActive(line, at) + 1
               b == OfflineActive(line, at) + 1
    <3>5. a - Before(k) \in now /\ b - Before(k) \in now
      BY <3>2, <3>3
    <3> HIDE DEF now
    <3>6. /\ Active(WordsOf(k), t) \in now /\ a - Before(k) \in now /\ b - Before(k) \in now
          /\ t + manifest.chunks[k].offset <= manifest.duration
      BY <3>1, <3>2, <3>3, <3>4, <3>5
    <3> QED BY <3>4, <3>6 DEF now
  <2>2. Drawings(manifest) = line
    BY DrawnInOrder
  <2> HIDE DEF manifest, line
  <2> QED BY <2>1, <2>2, BookOfDocument DEF ReadersAgree, manifest, line
<1> QED BY <1>1, StagedInvariant, PTL
=============================================================================
