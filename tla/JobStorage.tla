------------------------------- MODULE JobStorage -------------------------------
(***************************************************************************)
(* The files of one finished highlight or lip-sync job: made in the        *)
(* worker's output directory, stored through services/storage_backend.py,  *)
(* and served by the API's reader, download and delete handlers.  Storage  *)
(* is the local directory, or a bucket in front of which each host keeps   *)
(* local copies; the worker and the API share their directory or not.      *)
(*                                                                         *)
(* A copy is whole, torn (cut off, or an archive with a torn member) or    *)
(* missing.  The API runs its storage calls on the event loop, so one      *)
(* handler's calls up to the next await are one step.                      *)
(*                                                                         *)
(* A completed lip-sync job can be exported, as an MP4 or an EPUB, by a    *)
(* task of its own that runs in the same directory; "export" stands for    *)
(* the file it makes and for whatever else it leaves there.                *)
(***************************************************************************)
EXTENDS Naturals, Sequences

CONSTANTS MaxWorkerDeaths, MaxApiDeaths   \* bounds

ASSUME StorageAssumption == MaxWorkerDeaths \in Nat /\ MaxApiDeaths \in Nat

VARIABLES
    kind, apart,       \* the storage backend; hosts with separate directories
    members,           \* what the manifest names
    bucket, disk,      \* the stored objects; the files in each directory
    status, sending,   \* the job's row; the worker's next upload
    asking, deleting,  \* a download that has read the row; DELETE
    exporting,         \* the task of an export
    surviving,         \* it was at work when the files were deleted, or began later
    workerDeaths, apiDeaths

exportVars  == <<exporting, surviving>>
storageVars == <<kind, apart, members, bucket, disk, status, sending, asking, deleting,
                 exportVars, workerDeaths, apiDeaths>>

Optional == {"audio", "source", "page"}   \* "audio" stands for presenter.mp4 as well
Assets   == {"archive", "manifest"} \cup Optional
Objects  == Assets \cup {"export"}
Order    == <<"archive", "manifest", "audio", "source", "page">>
Contents == {"none", "torn", "whole"}

Nothing == [o \in Objects |-> "none"]

StorageTypeOK ==
    /\ kind \in {"local", "gcs", "s3"}
    /\ apart \in BOOLEAN
    /\ members \subseteq Assets
    /\ bucket \in [Objects -> Contents]
    /\ disk \in [{"worker", "api"} -> [Objects -> Contents]]
    /\ status \in {"running", "completed", "failed"}
    /\ sending \in 0 .. Len(Order) + 1
    /\ asking \in BOOLEAN
    /\ deleting \in {"no", "emptied", "over"}
    /\ exporting \in {"no", "asked", "begun", "written"}
    /\ surviving \in BOOLEAN
    /\ workerDeaths \in 0 .. MaxWorkerDeaths
    /\ apiDeaths \in 0 .. MaxApiDeaths

StorageInit ==
    /\ kind = "local"
    /\ apart = FALSE
    /\ members = {}
    /\ bucket = Nothing
    /\ disk = [h \in {"worker", "api"} |-> Nothing]
    /\ status = "running"
    /\ sending = 0
    /\ asking = FALSE
    /\ deleting = "no"
    /\ exporting = "no"
    /\ surviving = FALSE
    /\ workerDeaths = 0
    /\ apiDeaths = 0

ApiDir == IF apart THEN "api" ELSE "worker"
Here   == disk[ApiDir]

(* What the storage holds of a job: get_download_response.                 *)
Stored(o) == IF kind = "local" THEN Here[o] ELSE bucket[o]

-----------------------------------------------------------------------------
(* The worker.                                                             *)

(* The pipeline writes the assets and the archive into its directory.      *)
(* Which backend there is and whether directories are shared is            *)
(* configuration; nothing has depended on it before.                       *)
Build(names) ==
    /\ status = "running"
    /\ sending = 0
    /\ kind' \in {"local", "gcs", "s3"}
    /\ apart' \in IF kind' = "local" THEN {FALSE} ELSE BOOLEAN
    /\ members' = names
    /\ disk' = [disk EXCEPT !["worker"] =
                    [o \in Objects |-> IF o \in names \cup {"archive"} THEN "whole" ELSE "none"]]
    /\ sending' = 1
    /\ UNCHANGED <<bucket, status, asking, deleting, exportVars, workerDeaths, apiDeaths>>

Uploaded(o) ==
    IF kind = "local" THEN bucket ELSE [bucket EXCEPT ![o] = disk["worker"][o]]

(* upload_output of the archive, then _upload_reader_assets: a failure of  *)
(* the first fails the job, of another one is only logged.                 *)
Send ==
    /\ status = "running"
    /\ sending \in DOMAIN Order
    /\ LET o == Order[sending] IN
       \/ /\ bucket' = Uploaded(o)
          /\ sending' = sending + 1
          /\ UNCHANGED status
       \/ /\ kind # "local"
          /\ status' = IF o = "archive" THEN "failed" ELSE status
          /\ sending' = IF o = "archive" THEN sending ELSE sending + 1
          /\ UNCHANGED bucket
    /\ UNCHANGED <<kind, apart, members, disk, asking, deleting, exportVars, workerDeaths,
                   apiDeaths>>

Complete ==
    /\ status = "running"
    /\ sending = Len(Order) + 1
    /\ status' = "completed"
    /\ UNCHANGED <<kind, apart, members, bucket, disk, sending, asking, deleting,
                   exportVars, workerDeaths, apiDeaths>>

(* The worker dies and the task, delivered again, starts over; what it     *)
(* made and stored before stays.                                           *)
WorkerDies ==
    /\ status = "running"
    /\ sending # 0
    /\ workerDeaths < MaxWorkerDeaths
    /\ workerDeaths' = workerDeaths + 1
    /\ sending' = 1
    /\ UNCHANGED <<kind, apart, members, bucket, disk, status, asking, deleting, exportVars,
                   apiDeaths>>

-----------------------------------------------------------------------------
(* The API.                                                                *)

(* get_output_local_path: the local copy if there is one, whatever its     *)
(* state, or else a new one from the bucket.                               *)
Fetched(dir, o) ==
    IF dir[o] # "none" \/ kind = "local" THEN dir ELSE [dir EXCEPT ![o] = bucket[o]]

(* S3 downloads into a temporary file, GCS into the file itself.           *)
CopiesInPlace == kind = "gcs"

Ready == status = "completed" /\ deleting # "over"

(* GET .../reader/manifest, audio, presenter, pages and source; the last   *)
(* looks into the manifest first.                                          *)
Read(o) ==
    /\ Ready
    /\ o # "archive"
    /\ disk' = [disk EXCEPT ![ApiDir] =
                    Fetched(IF o = "source" THEN Fetched(@, "manifest") ELSE @, o)]
    /\ UNCHANGED <<kind, apart, members, bucket, status, sending, asking, deleting,
                   exportVars, workerDeaths, apiDeaths>>

(* GET .../download reads the row and then, after another await, goes on.  *)
Ask ==
    /\ Ready
    /\ ~asking
    /\ asking' = TRUE
    /\ UNCHANGED <<kind, apart, members, bucket, disk, status, sending, deleting,
                   exportVars, workerDeaths, apiDeaths>>

(* ensure_source_document copies the upload over the source.  (Of a job    *)
(* that an older version made it also adds the source to the manifest,     *)
(* where build_reader_assets has it since.)                                *)
Refreshed(dir) == IF "source" \in members THEN [dir EXCEPT !["source"] = "whole"] ELSE dir

(* build_offline_reader_archive: into a temporary file that replaces the   *)
(* archive.                                                                *)
ArchiveOf(dir) ==
    [dir EXCEPT !["archive"] = IF \A m \in members : dir[m] = "whole" THEN "whole" ELSE "torn"]

(* Not the code: a member that is missing is left out.                     *)
BuiltOfWhatIsThere(dir) == dir["manifest"] # "torn"

(* It raises if the manifest is no JSON or a member is missing.            *)
Built(dir) == dir["manifest"] # "torn" /\ \A m \in members : dir[m] # "none"

(* _refresh_reader_archive_for_download, and the response.  Without a      *)
(* manifest or an archive nothing is refreshed; the source's refresh may   *)
(* fail and be ignored; an upload may fail.                                *)
Download ==
    /\ asking
    /\ asking' = FALSE
    /\ LET manifest == Fetched(Here, "manifest") IN
       \E source \in {manifest} \cup
                (IF manifest["manifest"] = "whole" THEN {Refreshed(manifest)} ELSE {}) :
         LET archive == Fetched(source, "archive")
             new == ArchiveOf(archive)
             sent == IF source # manifest /\ kind # "local"
                     THEN [bucket EXCEPT !["source"] = "whole"] ELSE bucket
         IN  IF manifest["manifest"] = "none"
             THEN UNCHANGED <<disk, bucket>>
             ELSE IF archive["archive"] = "none" \/ ~Built(archive)
             THEN /\ disk' = [disk EXCEPT ![ApiDir] = archive]
                  /\ bucket' = sent
             ELSE /\ disk' = [disk EXCEPT ![ApiDir] = new]
                  /\ bucket' \in IF kind = "local" THEN {bucket}
                                 ELSE {sent, [sent EXCEPT !["archive"] = new["archive"]]}
    /\ UNCHANGED <<kind, apart, members, status, sending, deleting, exportVars, workerDeaths,
                   apiDeaths>>

(* The API dies while it copies or transfers: a copy in place (of the      *)
(* source, and of anything from GCS) stays cut off.                        *)
ApiDies(o) ==
    /\ status = "completed"
    /\ apiDeaths < MaxApiDeaths
    /\ apiDeaths' = apiDeaths + 1
    /\ asking' = FALSE
    /\ \/ /\ asking /\ o = "source" /\ o \in members
          /\ Here["manifest"] = "whole"
          /\ disk' = [disk EXCEPT ![ApiDir][o] = "torn"]
       \/ /\ Ready
          /\ CopiesInPlace /\ Here[o] = "none" /\ bucket[o] # "none"
          /\ disk' = [disk EXCEPT ![ApiDir][o] = "torn"]
    /\ UNCHANGED <<kind, apart, members, bucket, status, sending, deleting, exportVars,
                   workerDeaths>>

(* Not the code: the stored objects stay.                                  *)
DeleteLocalFiles ==
    /\ Ready
    /\ deleting = "no"
    /\ deleting' = "emptied"
    /\ disk' = [disk EXCEPT ![ApiDir] = Nothing]
    /\ UNCHANGED <<kind, apart, members, bucket, status, sending, asking, exportVars,
                   workerDeaths, apiDeaths>>

(* DELETE of a completed job: delete_job_files, then the row.  Only the    *)
(* task of a job that is not completed is revoked; an export goes on.      *)
DeleteFiles ==
    /\ Ready
    /\ deleting = "no"
    /\ deleting' = "emptied"
    /\ bucket' = Nothing
    /\ disk' = [disk EXCEPT ![ApiDir] = Nothing]
    /\ surviving' = (exporting \in {"begun", "written"})
    /\ UNCHANGED <<kind, apart, members, status, sending, asking, exporting,
                   workerDeaths, apiDeaths>>

DeleteRow ==
    /\ deleting = "emptied"
    /\ deleting' = "over"
    /\ UNCHANGED <<kind, apart, members, bucket, disk, status, sending, asking,
                   exportVars, workerDeaths, apiDeaths>>

-----------------------------------------------------------------------------
(* An export.                                                              *)

(* POST .../export-mp4 or .../export-epub                                  *)
AskExport ==
    /\ Ready
    /\ exporting = "no"
    /\ exporting' = "asked"
    /\ UNCHANGED <<kind, apart, members, bucket, disk, status, sending, asking, deleting,
                   surviving, workerDeaths, apiDeaths>>

(* The task reads the row; without one it is over.                         *)
ExportStarts ==
    /\ exporting = "asked"
    /\ exporting' = IF Ready THEN "begun" ELSE "no"
    /\ surviving' = (surviving \/ (Ready /\ deleting = "emptied"))
    /\ UNCHANGED <<kind, apart, members, bucket, disk, status, sending, asking, deleting,
                   workerDeaths, apiDeaths>>

(* run_lipsync_pipeline, which makes the directory if it has to            *)
ExportWrites ==
    /\ exporting = "begun"
    /\ exporting' = "written"
    /\ disk' = [disk EXCEPT !["worker"]["export"] = "whole"]
    /\ UNCHANGED <<kind, apart, members, bucket, status, sending, asking, deleting,
                   surviving, workerDeaths, apiDeaths>>

(* upload_output, of a file that is still there                            *)
ExportSends ==
    /\ exporting = "written"
    /\ disk["worker"]["export"] # "none"
    /\ exporting' = "no"
    /\ bucket' = Uploaded("export")
    /\ UNCHANGED <<kind, apart, members, disk, status, sending, asking, deleting,
                   surviving, workerDeaths, apiDeaths>>

ExportFails ==
    /\ exporting \in {"begun", "written"}
    /\ exporting' = "no"
    /\ UNCHANGED <<kind, apart, members, bucket, disk, status, sending, asking, deleting,
                   surviving, workerDeaths, apiDeaths>>

(* The worker dies, perhaps in the middle of the file, and the task is     *)
(* delivered again.                                                        *)
ExportDies ==
    /\ exporting \in {"begun", "written"}
    /\ workerDeaths < MaxWorkerDeaths
    /\ workerDeaths' = workerDeaths + 1
    /\ exporting' = "asked"
    /\ disk' \in {disk} \cup (IF exporting = "begun"
                              THEN {[disk EXCEPT !["worker"]["export"] = "torn"]} ELSE {})
    /\ UNCHANGED <<kind, apart, members, bucket, status, sending, asking, deleting,
                   surviving, apiDeaths>>

StorageNext ==
    \/ Send \/ Complete \/ WorkerDies
    \/ \E o \in Assets : Read(o)
    \/ Ask \/ Download
    \/ \E o \in Assets : ApiDies(o)
    \/ DeleteFiles \/ DeleteRow
    \/ AskExport \/ ExportStarts \/ ExportWrites \/ ExportSends \/ ExportFails
    \/ ExportDies

-----------------------------------------------------------------------------
(* While a job is completed and not deleted, the archive that a download   *)
(* is redirected to is whole, and so is every copy the reader serves: in   *)
(* spite of failed uploads, a worker that dies between them, copies that   *)
(* the API has or lacks, and downloads that rebuild the archive from them. *)
(* Only an API process that dies while it copies can spoil this.           *)
DeliveredWhole ==
    status = "completed" /\ deleting = "no" /\ apiDeaths = 0 =>
        /\ Stored("archive") = "whole"
        /\ \A o \in Assets : Here[o] # "torn"

(* DELETE leaves nothing of a completed job in the bucket or in the API's  *)
(* directory, and no request that read the row before brings files back;   *)
(* an export that was asked for before finds no row.  Only an export that  *)
(* was at work when the files were deleted, or that found the row before   *)
(* it was deleted too, leaves what it makes there.                         *)
DeletedIsGone ==
    deleting # "no" =>
        \A o \in Objects : (o = "export" => ~surviving) =>
            Stored(o) = "none" /\ Here[o] = "none"
=============================================================================
