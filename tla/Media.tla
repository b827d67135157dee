-------------------------------- MODULE Media --------------------------------
(***************************************************************************)
(* Uploaded images: the asset at Cloudinary and the row that points to it  *)
(* (modules/media/media.service.js, config/cloudinary.js).                 *)
(*                                                                         *)
(* An upload stores the asset, then writes the row, and takes the asset    *)
(* back when that fails.  A removal takes the asset away, then the row.    *)
(* Either service may do what it is asked and not be heard.  Conversion,   *)
(* tags and listings are left out.                                         *)
(***************************************************************************)
EXTENDS Naturals

CONSTANTS
  Uploader,  \* calls in flight at a time
  MaxFiles   \* bound: files uploaded in a behaviour

ASSUME MediaAssumption == MaxFiles \in Nat

VARIABLES
  stored,     \* the assets at Cloudinary
  listed,     \* the rows
  stage,      \* each call's next step
  file,       \* the file it is about
  files,      \* files uploaded
  logged,     \* the assets the log names for removal by hand
  refused,    \* history: the assets Cloudinary declined to remove
  unsure,     \* history: an upload of the file died or was not heard
  unfinished  \* history: a removal lost its answer, or died, with the asset gone

mishaps == <<logged, refused, unsure, unfinished>>
mediaVars == <<stored, listed, stage, file, files, mishaps>>

MediaTypeOK ==
  /\ stored \cup listed \subseteq 1..files
  /\ logged \cup refused \cup unsure \cup unfinished \subseteq 1..files
  /\ stage \in [Uploader -> {"idle", "recording", "undoing", "destroying", "forgetting"}]
  /\ file \in [Uploader -> 0..files]
  /\ files \in 0..MaxFiles

MediaInit ==
  /\ stored = {} /\ listed = {}
  /\ stage = [u \in Uploader |-> "idle"] /\ file = [u \in Uploader |-> 0]
  /\ files = 0
  /\ logged = {} /\ refused = {} /\ unsure = {} /\ unfinished = {}

MediaGoes(u, next, f) ==
  /\ stage' = [stage EXCEPT ![u] = next]
  /\ file' = [file EXCEPT ![u] = IF next = "idle" THEN 0 ELSE f]

-------------------------------------------------------------------------------
(* upload *)

(* The asset is stored, and the answer may be lost. *)
UploadBuffer(u) ==
  /\ stage[u] = "idle" /\ files < MaxFiles
  /\ files' = files + 1
  /\ stored' = stored \cup {files + 1}
  /\ \/ MediaGoes(u, "recording", files + 1) /\ UNCHANGED unsure
     \/ MediaGoes(u, "idle", 0) /\ unsure' = unsure \cup {files + 1}
  /\ UNCHANGED <<listed, logged, refused, unfinished>>

(* Mutants: the asset is taken back whatever becomes of the row, or never. *)
RecordFileAndUndo(u) ==
  /\ stage[u] = "recording"
  /\ listed' = listed \cup {file[u]}
  /\ MediaGoes(u, "undoing", file[u])
  /\ UNCHANGED <<stored, files, mishaps>>

RecordFailsForGood(u) ==
  /\ stage[u] = "recording"
  /\ MediaGoes(u, "idle", 0)
  /\ UNCHANGED <<stored, listed, files, mishaps>>

RecordFile(u) ==
  /\ stage[u] = "recording"
  /\ listed' = listed \cup {file[u]}
  /\ MediaGoes(u, "idle", 0)
  /\ UNCHANGED <<stored, files, mishaps>>

(* Media.create throws; the row may have been written all the same. *)
RecordFails(u) ==
  /\ stage[u] = "recording"
  /\ MediaGoes(u, "undoing", file[u])
  /\ \/ UNCHANGED <<listed, unsure>>
     \/ listed' = listed \cup {file[u]} /\ unsure' = unsure \cup {file[u]}
  /\ UNCHANGED <<stored, files, logged, refused, unfinished>>

Undo(u) ==
  /\ stage[u] = "undoing"
  /\ stored' = stored \ {file[u]}
  /\ MediaGoes(u, "idle", 0)
  /\ UNCHANGED <<listed, files, mishaps>>

(* destroyAsset logs an answer it did not expect and returns: the upload   *)
(* does not learn that the asset is still there.                           *)
UndoRefused(u) ==
  /\ stage[u] = "undoing"
  /\ refused' = refused \cup {file[u]}
  /\ MediaGoes(u, "idle", 0)
  /\ UNCHANGED <<stored, listed, files, logged, unsure, unfinished>>

(* destroyAsset throws, and the asset is named for removal by hand. *)
UndoFails(u) ==
  /\ stage[u] = "undoing"
  /\ logged' = logged \cup {file[u]}
  /\ stored' \in {stored, stored \ {file[u]}}
  /\ MediaGoes(u, "idle", 0)
  /\ UNCHANGED <<listed, files, refused, unsure, unfinished>>

-------------------------------------------------------------------------------
(* remove *)

FindMedia(u, f) ==
  /\ stage[u] = "idle" /\ f \in listed
  /\ MediaGoes(u, "destroying", f)
  /\ UNCHANGED <<stored, listed, files, mishaps>>

(* An asset that is gone already is as good. *)
DestroyAsset(u) ==
  /\ stage[u] = "destroying"
  /\ stored' = stored \ {file[u]}
  /\ MediaGoes(u, "forgetting", file[u])
  /\ UNCHANGED <<listed, files, mishaps>>

(* Any other answer is logged as unexpected, and the row goes all the same. *)
DestroyRefused(u) ==
  /\ stage[u] = "destroying"
  /\ refused' = refused \cup {file[u]}
  /\ MediaGoes(u, "forgetting", file[u])
  /\ UNCHANGED <<stored, listed, files, logged, unsure, unfinished>>

(* destroyAsset throws: both sides stay as they are, unless only the answer *)
(* was lost.                                                                *)
DestroyFails(u) ==
  /\ stage[u] = "destroying"
  /\ \/ UNCHANGED <<stored, unfinished>>
     \/ stored' = stored \ {file[u]} /\ unfinished' = unfinished \cup {file[u]}
  /\ MediaGoes(u, "idle", 0)
  /\ UNCHANGED <<listed, files, logged, refused, unsure>>

DeleteRow(u) ==
  /\ stage[u] = "forgetting"
  /\ listed' = listed \ {file[u]}
  /\ MediaGoes(u, "idle", 0)
  /\ UNCHANGED <<stored, files, mishaps>>

(* The process dies, or deleteOne throws: the call ends where it is. *)
Die(u) ==
  /\ stage[u] # "idle"
  /\ MediaGoes(u, "idle", 0)
  /\ unsure' = IF stage[u] \in {"recording", "undoing"}
               THEN unsure \cup {file[u]} ELSE unsure
  /\ unfinished' = IF stage[u] = "forgetting"
                   THEN unfinished \cup {file[u]} ELSE unfinished
  /\ UNCHANGED <<stored, listed, files, logged, refused>>

MediaNext ==
  \E u \in Uploader :
    \/ UploadBuffer(u) \/ RecordFile(u) \/ RecordFails(u)
    \/ Undo(u) \/ UndoRefused(u) \/ UndoFails(u)
    \/ \E f \in listed : FindMedia(u, f)
    \/ DestroyAsset(u) \/ DestroyRefused(u) \/ DestroyFails(u) \/ DeleteRow(u) \/ Die(u)

MediaSpec == MediaInit /\ [][MediaNext]_mediaVars

-------------------------------------------------------------------------------
(* Properties. *)

(* The files of the calls that are at one of these stages. *)
FilesAt(stages) == {file[u] : u \in {w \in Uploader : stage[w] \in stages}}

(* A row whose image is gone is being removed at this moment; or a removal
   of it was cut off between the two stores, or its answer lost; or its upload
   was reported as failed although the row was written.  No other order of
   uploads, failed writes, roll-backs, removals and removals of what another
   removal is at breaks a picture (media.service.js, upload and remove). *)
NoBrokenRow ==
  listed \ stored \subseteq unsure \cup unfinished \cup FilesAt({"forgetting"})

(* An asset without a row is being uploaded or rolled back; or the log names
   it for removal by hand; or its upload died or was not heard; or Cloudinary
   declined to remove it, which both removals and roll-backs take for done.
   In that last case the promise of media.service.js:177-179, that a failure
   leaves both sides intact and can be retried, is not kept, and this property
   does not claim it (media.service.js, upload and remove). *)
NoStrayAsset ==
  stored \ listed
    \subseteq logged \cup refused \cup unsure \cup FilesAt({"recording", "undoing"})

===============================================================================
