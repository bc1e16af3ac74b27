------------------------------ MODULE Delivery ------------------------------
(***************************************************************************)
(* The delivery of stored artifacts to Google Drive (renderinggen/         *)
(* internal/processor/publish_drive.go, publication.go, integrity_error.go *)
(* and internal/drive/drive.go), and the worker's ledger of artifacts with *)
(* its schema history (internal/artifactdb).                               *)
(*                                                                         *)
(* The jobs at hand have one artifact, so their files go to one child      *)
(* folder.  Drive is external: it creates a folder or a file whenever it   *)
(* is asked to, whatever is there already, it lists what it has, in any    *)
(* order, and it may lose an answer or garble an upload, of which its      *)
(* checksum tells.  A job is attempted again when an attempt failed.       *)
(***************************************************************************)
EXTENDS Naturals, FiniteSets

CONSTANTS
  DriveJobs,       \* jobs of the worker with the artifact at hand
  MaxDeliveries,   \* bound of the model: attempts of one job
  MaxDriveFaults,  \* bound of the model: calls of Drive that go wrong
  LedgerSteps      \* len(migrations)

ASSUME DeliveryAssumption == LedgerSteps \in Nat /\ "nobody" \notin DriveJobs

VARIABLES
  capable,    \* the worker has a Drive publisher
  policy,     \* job -> the declared publication policy
  deliveries, \* job -> attempts so far
  stage,      \* job -> where its attempt is
  folders,    \* ids of the child folders called by the artifact's hash
  folderOf,   \* job -> the folder its attempt uses
  folderMu,   \* the job that holds the mutex, or "nobody"
  driveFiles, \* files in the child folders, [id, job, folder, good]
  sent,       \* job -> the file its upload made, 0 if there is none
  reported,   \* job -> the file id the attempt reports
  blind,      \* a lookup of a folder has failed
  driveFaults,
  columns,    \* schema steps the ledger's file has gone through
  userVersion, \* its stamp
  mirror      \* "closed", "open", "refused" or "broken"

deliveryVars == <<capable, policy, deliveries, stage, folders, folderOf, folderMu, driveFiles, sent,
                  reported, blind, driveFaults>>
ledgerVars == <<columns, userVersion, mirror>>
deliveredVars == <<deliveryVars, ledgerVars>>

\* A ledger of an older worker has any of the columns, without a stamp; one of a newer
\* worker has a stamp this one does not know.
DeliveryInit ==
  /\ capable \in BOOLEAN /\ policy \in [DriveJobs -> {"store", "drive", "undeclared"}]
  /\ deliveries = [j \in DriveJobs |-> 0] /\ stage = [j \in DriveJobs |-> "idle"]
  /\ folders = {} /\ folderOf = [j \in DriveJobs |-> 0] /\ folderMu = "nobody"
  /\ driveFiles = {} /\ sent = [j \in DriveJobs |-> 0] /\ reported = [j \in DriveJobs |-> 0]
  /\ blind = FALSE /\ driveFaults = 0
  /\ columns \in {c \in SUBSET (1..LedgerSteps) : c = {} \/ 1 \in c}
  /\ userVersion \in {0} \cup {v \in 1..(LedgerSteps + 1) : v > LedgerSteps /\ columns = 1..LedgerSteps}
  /\ mirror = "closed"

DriveFault == driveFaults < MaxDriveFaults /\ driveFaults' = driveFaults + 1
To(j, s) == stage' = [stage EXCEPT ![j] = s]

-----------------------------------------------------------------------------
(* Publish *)

\* ResolvePublicationPolicy: what is not declared stays in the object store.
DriveByDefault(j) == policy[j] # "store"
WantsDrive(j) == policy[j] = "drive"

Publish(j) ==
  /\ stage[j] = "idle" /\ deliveries[j] < MaxDeliveries
  /\ deliveries' = [deliveries EXCEPT ![j] = @ + 1]
  /\ To(j, CASE WantsDrive(j) /\ ~capable -> "permanent"
             [] WantsDrive(j) /\ capable -> "lookup"
             [] OTHER -> "storeOnly")
  /\ UNCHANGED <<capable, policy, folders, folderOf, folderMu, driveFiles, sent, reported, blind,
                 driveFaults, ledgerVars>>
\* isPermanentFailure: only the missing capability is not tried again.
Again(j) ==
  /\ stage[j] = "failed" /\ To(j, "idle")
  /\ UNCHANGED <<capable, policy, deliveries, folders, folderOf, folderMu, driveFiles, sent,
                 reported, blind, driveFaults, ledgerVars>>

-----------------------------------------------------------------------------
(* ensureFolder: look, lock, look again, create *)

\* findFolder: the first of the list, if there is one.  A lookup that fails counts as
\* one that found nothing.
Found(j, found, otherwise) ==
  \/ \E f \in folders : /\ folderOf' = [folderOf EXCEPT ![j] = f] /\ To(j, found)
                        /\ UNCHANGED <<blind, driveFaults>>
  \/ folders = {} /\ To(j, otherwise) /\ UNCHANGED <<folderOf, blind, driveFaults>>
  \/ DriveFault /\ blind' = TRUE /\ To(j, otherwise) /\ UNCHANGED folderOf

LookupFolder(j) ==
  /\ stage[j] = "lookup" /\ Found(j, "existing", "lock")
  /\ UNCHANGED <<capable, policy, deliveries, folders, folderMu, driveFiles, sent, reported, ledgerVars>>
LocksNothing == TRUE
FolderMuIsFree == folderMu = "nobody"
LockFolders(j) ==
  /\ stage[j] = "lock" /\ FolderMuIsFree
  /\ folderMu' = j /\ To(j, "lookAgain")
  /\ UNCHANGED <<capable, policy, deliveries, folders, folderOf, driveFiles, sent, reported, blind,
                 driveFaults, ledgerVars>>
LookAgain(j) ==
  /\ stage[j] = "lookAgain" /\ Found(j, "unlock", "create")
  /\ UNCHANGED <<capable, policy, deliveries, folders, folderMu, driveFiles, sent, reported, ledgerVars>>
NewId(ids) == 1 + Cardinality(ids)
\* An error of Create may mean that the folder was created: look once more.
CreateFolder(j) ==
  /\ stage[j] = "create"
  /\ \/ /\ folders' = folders \cup {NewId(folders)} /\ folderOf' = [folderOf EXCEPT ![j] = NewId(folders)]
        /\ To(j, "unlock") /\ UNCHANGED driveFaults
     \/ /\ DriveFault /\ To(j, "lookOnce") /\ UNCHANGED folderOf
        /\ \/ folders' = folders \cup {NewId(folders)}
           \/ UNCHANGED folders
  /\ UNCHANGED <<capable, policy, deliveries, folderMu, driveFiles, sent, reported, blind, ledgerVars>>
LookOnce(j) ==
  /\ stage[j] = "lookOnce" /\ Found(j, "unlock", "unlockFailed")
  /\ UNCHANGED <<capable, policy, deliveries, folders, folderMu, driveFiles, sent, reported, ledgerVars>>
UnlockFolders(j) ==
  /\ stage[j] \in {"unlock", "unlockFailed"}
  /\ To(j, IF stage[j] = "unlock" THEN "existing" ELSE "failed")
  /\ folderMu' = IF folderMu = j THEN "nobody" ELSE folderMu
  /\ UNCHANGED <<capable, policy, deliveries, folders, folderOf, driveFiles, sent, reported, blind,
                 driveFaults, ledgerVars>>

-----------------------------------------------------------------------------
(* The upload *)

\* findExisting: a file of that name with that checksum is the publication.
NeverReuses(j) == {}
Existing(j) == {f \in driveFiles : f.job = j /\ f.folder = folderOf[j] /\ f.good}
FindExisting(j) ==
  /\ stage[j] = "existing"
  /\ \/ \E f \in Existing(j) : reported' = [reported EXCEPT ![j] = f.id] /\ To(j, "uploaded")
        /\ UNCHANGED driveFaults
     \/ Existing(j) = {} /\ To(j, "upload") /\ UNCHANGED <<reported, driveFaults>>
     \/ DriveFault /\ To(j, "failed") /\ UNCHANGED reported
  /\ UNCHANGED <<capable, policy, deliveries, folders, folderOf, folderMu, driveFiles, sent, blind,
                 ledgerVars>>

\* What Drive reports of the upload is compared with the file: size and checksum.
TakesItsWord(good) == TRUE
ReportAgrees(good) == good
Upload(j) ==
  LET id == NewId(driveFiles) IN
  /\ stage[j] = "upload"
  /\ \/ /\ sent' = [sent EXCEPT ![j] = id] /\ reported' = [reported EXCEPT ![j] = id]
        /\ driveFiles' = driveFiles \cup {[id |-> id, job |-> j, folder |-> folderOf[j], good |-> TRUE]}
        /\ To(j, "uploaded") /\ UNCHANGED driveFaults
     \/ /\ DriveFault       \* garbled on the way
        /\ driveFiles' = driveFiles \cup {[id |-> id, job |-> j, folder |-> folderOf[j], good |-> FALSE]}
        /\ sent' = [sent EXCEPT ![j] = id]
        /\ IF ReportAgrees(FALSE) THEN To(j, "uploaded") /\ reported' = [reported EXCEPT ![j] = id]
           ELSE To(j, "failed") /\ UNCHANGED reported
     \/ /\ DriveFault       \* the answer, or the upload, is lost
        /\ \/ /\ driveFiles' = driveFiles \cup {[id |-> id, job |-> j, folder |-> folderOf[j], good |-> TRUE]}
              /\ sent' = [sent EXCEPT ![j] = id]
           \/ UNCHANGED <<driveFiles, sent>>
        /\ To(j, "failed") /\ UNCHANGED reported
  /\ UNCHANGED <<capable, policy, deliveries, folders, folderOf, folderMu, blind, ledgerVars>>

\* publishToDrive's update of the ledger may fail the publication after the upload.
UpdateDrive(j) ==
  /\ stage[j] = "uploaded"
  /\ \/ To(j, "delivered") /\ UNCHANGED driveFaults
     \/ DriveFault /\ To(j, "failed")
  /\ UNCHANGED <<capable, policy, deliveries, folders, folderOf, folderMu, driveFiles, sent, reported,
                 blind, ledgerVars>>

-----------------------------------------------------------------------------
(* The ledger: migrate *)

\* hasColumn asks the catalogue; a step and its stamp commit together.
AddsAnyway(step) == FALSE
HasColumn(step) == step > 1 /\ step \in columns
MigrateStep ==
  LET step == userVersion + 1 IN
  /\ mirror = "closed" /\ userVersion < LedgerSteps
  /\ CASE HasColumn(step) -> userVersion' = step /\ UNCHANGED <<columns, mirror>>
       [] ~HasColumn(step) /\ step > 1 /\ step \in columns -> mirror' = "broken" /\ UNCHANGED <<columns, userVersion>>
       [] OTHER -> columns' = columns \cup {step} /\ userVersion' = step /\ UNCHANGED mirror
  /\ UNCHANGED deliveryVars
OpensAnything == userVersion >= LedgerSteps
IsCurrent == userVersion = LedgerSteps
OpenLedger ==
  /\ mirror = "closed" /\ userVersion >= LedgerSteps
  /\ mirror' = IF IsCurrent THEN "open" ELSE "refused"
  /\ UNCHANGED <<columns, userVersion, deliveryVars>>
\* The process dies, between two steps or later, and starts again.
LedgerReopens ==
  /\ mirror = "open" /\ mirror' = "closed"
  /\ UNCHANGED <<columns, userVersion, deliveryVars>>

DeliveryNext ==
  \/ \E j \in DriveJobs :
       \/ Publish(j) \/ Again(j) \/ LookupFolder(j) \/ LockFolders(j) \/ LookAgain(j) \/ CreateFolder(j)
       \/ LookOnce(j) \/ UnlockFolders(j) \/ FindExisting(j) \/ Upload(j) \/ UpdateDrive(j)
  \/ MigrateStep \/ OpenLedger \/ LedgerReopens

DeliverySpec == DeliveryInit /\ [][DeliveryNext]_deliveredVars

-----------------------------------------------------------------------------
(* Properties *)

\* EnsureFolder creates the folder only when it does not exist yet.
FolderIsCreatedOnce == Cardinality(folders) <= 1

\* Through lost answers, garbled uploads, retries and concurrent publications of one
\* artifact: a job that is delivered has its bytes on Drive under the id it reports; one
\* whose submitter did not ask for Drive puts nothing there, and one that did never ends
\* without it; as long as no lookup fails there is one folder and, of each job, one
\* complete copy.  And the ledger of any older worker is opened with every column, at
\* whatever step an earlier opening stopped, and that of a newer one not at all.
DeliveryIsSound ==
  /\ \A j \in DriveJobs :
       /\ stage[j] = "delivered" => \E f \in driveFiles : f.id = reported[j] /\ f.job = j /\ f.good
       /\ policy[j] # "drive" => sent[j] = 0 /\ stage[j] \notin {"permanent", "delivered"}
       /\ policy[j] = "drive" => stage[j] # "storeOnly"
       /\ ~blind => Cardinality({f \in driveFiles : f.job = j /\ f.good}) <= 1
  /\ ~blind => FolderIsCreatedOnce
  /\ mirror # "broken" /\ (mirror = "open" => columns = 1..LedgerSteps /\ userVersion = LedgerSteps)
=============================================================================
