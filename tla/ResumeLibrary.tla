--------------------------- MODULE ResumeLibrary ---------------------------
(***************************************************************************)
(* The resume library: POST /resumes and DELETE /resumes/{id} of all API    *)
(* workers on one database and one file storage                             *)
(* (app/services/resume_service.py, app/repositories/resume_repo.py,        *)
(* app/storage/local.py, app/storage/s3.py, app/api/v1/resumes.py).         *)
(*                                                                          *)
(* A file is the pair of its content, which stands for the sha256, and the  *)
(* extension of the name it was uploaded under: that pair is its path.  The *)
(* column file_hash is unique, so a row is named by its content; its id is  *)
(* left out.  The storage is not part of the database transaction: a file   *)
(* is written before its row exists, stays when the transaction is rolled   *)
(* back, and no code path removes one.                                      *)
(*                                                                          *)
(* Uploads that are refused before anything is stored (415, 413) and the    *)
(* reads GET /resumes and GET /resumes/{id} leave no trace and are left out.*)
(***************************************************************************)
EXTENDS Naturals, FiniteSets

CONSTANTS Contents,      \* file contents
          Extensions,    \* suffixes of the uploaded file names
          Uploads,       \* slots for concurrent uploads, in any worker process
          Deletes,       \* slots for concurrent deletes
          MaxCrashes,    \* bound: handlers lost to worker crashes or a full disk
          None           \* no row

Paths == Contents \X Extensions

(* A nullable timestamp is told apart only by whether it is set.           *)
Row == [path : Paths, deleted_at : {None, "set"}]

ASSUME LibraryAssumption ==
  /\ MaxCrashes \in Nat
  /\ None \notin Row
  /\ None \notin Paths
  /\ None # "set"

VARIABLES
  local,    \* a setting: LocalStorageService, otherwise S3StorageService
  files,    \* storage: what is found at each path
  rows,     \* committed rows of the resumes table, by content
  audit,    \* committed audit entries about each content's row, by action
  up,       \* upload handlers
  del,      \* delete handlers
  crashes   \* handlers lost so far

vars == <<local, files, rows, audit, up, del, crashes>>

FileStates == {"absent", "partial", "whole"}

Upload == [pc   : {"idle", "exists", "open", "write", "put", "lookup", "create", "log",
                   "commit", "reply", "conflict", "error"},
           path : Paths \cup {None}]

IdleUpload == [pc |-> "idle", path |-> None]

Delete == [pc : {"idle", "loaded"}, content : Contents \cup {None}]

IdleDelete == [pc |-> "idle", content |-> None]

TypeOK ==
  /\ local \in BOOLEAN
  /\ files \in [Paths -> FileStates]
  /\ rows \in [Contents -> Row \cup {None}]
  /\ audit \in [Contents -> [upload : Nat, soft_delete : Nat]]
  /\ up \in [Uploads -> Upload]
  /\ \A u \in Uploads : up[u].path = None <=> up[u].pc = "idle"
  /\ del \in [Deletes -> Delete]
  /\ crashes \in 0 .. MaxCrashes

Init ==
  /\ local \in BOOLEAN
  /\ files = [p \in Paths |-> "absent"]
  /\ rows = [c \in Contents |-> None]
  /\ audit = [c \in Contents |-> [upload |-> 0, soft_delete |-> 0]]
  /\ up = [u \in Uploads |-> IdleUpload]
  /\ del = [d \in Deletes |-> IdleDelete]
  /\ crashes = 0

Path(u)    == up[u].path
Content(u) == up[u].path[1]

Goto(u, from, to) ==
  /\ up[u].pc = from
  /\ up' = [up EXCEPT ![u].pc = to]

-----------------------------------------------------------------------------
(* POST /resumes: storage.save.                                            *)

Receive(u, p) ==
  /\ up[u].pc = "idle"
  /\ up' = [up EXCEPT ![u] = [pc |-> "exists", path |-> p]]
  /\ UNCHANGED <<local, files, rows, audit, del, crashes>>

(* Variant that skips the upload when the content is stored at all, under  *)
(* whatever extension.                                                     *)
CheckExistsByContent(u) ==
  /\ up[u].pc = "exists"
  /\ IF \E e \in Extensions : files[<<Content(u), e>>] # "absent"
     THEN Goto(u, "exists", "lookup")
     ELSE Goto(u, "exists", IF local THEN "open" ELSE "put")
  /\ UNCHANGED <<local, files, rows, audit, del, crashes>>

(* exists: a path that is found is not written again, whatever it holds.   *)
(* With object storage any error counts as not found.                      *)
CheckExists(u) ==
  /\ up[u].pc = "exists"
  /\ \/ files[Path(u)] # "absent" /\ Goto(u, "exists", "lookup")
     \/ local /\ files[Path(u)] = "absent" /\ Goto(u, "exists", "open")
     \/ ~local /\ Goto(u, "exists", "put")
  /\ UNCHANGED <<local, files, rows, audit, del, crashes>>

(* write_bytes opens the file, which creates or truncates it ...           *)
OpenFile(u) ==
  /\ Goto(u, "open", "write")
  /\ files' = [files EXCEPT ![Path(u)] = "partial"]
  /\ UNCHANGED <<local, rows, audit, del, crashes>>

(* Variant that loses the end of the file.                                 *)
WriteTruncated(u) ==
  /\ Goto(u, "write", "lookup")
  /\ UNCHANGED <<local, files, rows, audit, del, crashes>>

(* ... and then writes the bytes.                                          *)
WriteFile(u) ==
  /\ Goto(u, "write", "lookup")
  /\ files' = [files EXCEPT ![Path(u)] = "whole"]
  /\ UNCHANGED <<local, rows, audit, del, crashes>>

(* The disk is full: a 500, and the file stays as it is.                   *)
WriteFails(u) ==
  /\ crashes < MaxCrashes
  /\ crashes' = crashes + 1
  /\ Goto(u, "write", "error")
  /\ UNCHANGED <<local, files, rows, audit, del>>

(* upload_fileobj: an object appears whole.                                *)
PutObject(u) ==
  /\ Goto(u, "put", "lookup")
  /\ files' = [files EXCEPT ![Path(u)] = "whole"]
  /\ UNCHANGED <<local, rows, audit, del, crashes>>

(* A storage error is a 500; the object may have been stored all the same. *)
PutFails(u) ==
  /\ Goto(u, "put", "error")
  /\ files' \in {files, [files EXCEPT ![Path(u)] = "whole"]}
  /\ UNCHANGED <<local, rows, audit, del, crashes>>

-----------------------------------------------------------------------------
(* POST /resumes: the rows.                                                *)

(* get_by_hash: the existing resume is returned unless it is soft-deleted. *)
Lookup(u) ==
  LET row == rows[Content(u)] IN
  /\ up[u].pc = "lookup"
  /\ IF row # None /\ row.deleted_at = None
     THEN Goto(u, "lookup", "reply")
     ELSE Goto(u, "lookup", "create")
  /\ UNCHANGED <<local, files, rows, audit, del, crashes>>

(* Uploads with an uncommitted row of the same file_hash.                  *)
Inserting(c) == {u \in Uploads : up[u].pc \in {"log", "commit"} /\ Content(u) = c}

(* Variant without the unique constraint on file_hash.                     *)
CreateNotUnique(u) ==
  /\ Goto(u, "create", "log")
  /\ UNCHANGED <<local, files, rows, audit, del, crashes>>

(* Variant that looks the hash up again after a conflict.                  *)
CreateRetries(u) ==
  /\ up[u].pc = "create"
  /\ Inserting(Content(u)) = {}
  /\ IF rows[Content(u)] = None THEN Goto(u, "create", "log")
                                ELSE Goto(u, "create", "lookup")
  /\ UNCHANGED <<local, files, rows, audit, del, crashes>>

(* ResumeRepository.create: the INSERT waits for other transactions that   *)
(* insert the same file_hash; it violates the unique constraint when there *)
(* is a row by then, also a soft-deleted one.                              *)
Create(u) ==
  /\ up[u].pc = "create"
  /\ Inserting(Content(u)) = {}
  /\ IF rows[Content(u)] = None THEN Goto(u, "create", "log")
                                ELSE Goto(u, "create", "conflict")
  /\ UNCHANGED <<local, files, rows, audit, del, crashes>>

(* AuditLogRepository.log("upload", ...), in the same transaction.         *)
Log(u) ==
  /\ Goto(u, "log", "commit")
  /\ UNCHANGED <<local, files, rows, audit, del, crashes>>

(* get_db commits the row and its audit entry.                             *)
Commit(u) ==
  /\ Goto(u, "commit", "reply")
  /\ rows' = [rows EXCEPT ![Content(u)] = [path |-> Path(u), deleted_at |-> None]]
  /\ audit' = [audit EXCEPT ![Content(u)].upload = @ + 1]
  /\ UNCHANGED <<local, files, del, crashes>>

(* The 201, or the 500 after the rollback.                                 *)
Reply(u) ==
  /\ up[u].pc \in {"reply", "conflict", "error"}
  /\ up' = [up EXCEPT ![u] = IdleUpload]
  /\ UNCHANGED <<local, files, rows, audit, del, crashes>>

(* The worker dies: the transaction is rolled back, the file stays as the  *)
(* write left it.                                                          *)
CrashUpload(u) ==
  /\ up[u].pc # "idle"
  /\ crashes < MaxCrashes
  /\ crashes' = crashes + 1
  /\ up' = [up EXCEPT ![u] = IdleUpload]
  /\ UNCHANGED <<local, files, rows, audit, del>>

-----------------------------------------------------------------------------
(* DELETE /resumes/{id}.                                                   *)

(* get_by_id; a missing or deleted resume is a 404.                        *)
DeleteLoads(d, c) ==
  /\ del[d].pc = "idle"
  /\ rows[c] # None
  /\ rows[c].deleted_at = None
  /\ del' = [del EXCEPT ![d] = [pc |-> "loaded", content |-> c]]
  /\ UNCHANGED <<local, files, rows, audit, up, crashes>>

(* Variant that removes the row.                                           *)
DeleteRow(d) ==
  LET c == del[d].content IN
  /\ del[d].pc = "loaded"
  /\ rows' = [rows EXCEPT ![c] = None]
  /\ audit' = [audit EXCEPT ![c].soft_delete = @ + 1]
  /\ del' = [del EXCEPT ![d] = IdleDelete]
  /\ UNCHANGED <<local, files, up, crashes>>

(* soft_delete, the audit entry and the commit.  The UPDATE locks the row  *)
(* until the commit, so they are one step; it does not look at deleted_at  *)
(* again.                                                                  *)
DeleteCommits(d) ==
  LET c == del[d].content IN
  /\ del[d].pc = "loaded"
  /\ rows' = [rows EXCEPT ![c].deleted_at = "set"]
  /\ audit' = [audit EXCEPT ![c].soft_delete = @ + 1]
  /\ del' = [del EXCEPT ![d] = IdleDelete]
  /\ UNCHANGED <<local, files, up, crashes>>

CrashDelete(d) ==
  /\ del[d].pc = "loaded"
  /\ crashes < MaxCrashes
  /\ crashes' = crashes + 1
  /\ del' = [del EXCEPT ![d] = IdleDelete]
  /\ UNCHANGED <<local, files, rows, audit, up>>

-----------------------------------------------------------------------------
UploadStep(u) ==
  \/ CheckExists(u) \/ OpenFile(u) \/ WriteFile(u) \/ PutObject(u) \/ PutFails(u)
  \/ Lookup(u) \/ Create(u) \/ Log(u) \/ Commit(u) \/ Reply(u)

Next ==
  \/ \E u \in Uploads, p \in Paths : Receive(u, p)
  \/ \E u \in Uploads : UploadStep(u) \/ WriteFails(u) \/ CrashUpload(u)
  \/ \E d \in Deletes, c \in Contents : DeleteLoads(d, c)
  \/ \E d \in Deletes : DeleteCommits(d) \/ CrashDelete(d)

Spec == Init /\ [][Next]_vars

(* A request that is under way goes on: the event loop resumes it, and     *)
(* PostgreSQL resumes an INSERT when the one it waits for has ended.       *)
(* Nobody has to upload, delete or crash.                                  *)
Fairness ==
  /\ \A u \in Uploads : WF_vars(UploadStep(u))
  /\ \A d \in Deletes : WF_vars(DeleteCommits(d))

FairSpec == Spec /\ Fairness

-----------------------------------------------------------------------------
(* Safety.                                                                 *)

(* With object storage the file of every row is there, complete: what      *)
(* every analysis of the resume reads.  save returned before the row was   *)
(* created.                                                                *)
RowsHaveTheirFile ==
  ~local => \A c \in Contents : rows[c] # None => files[rows[c].path] = "whole"

(* A row and its audit trail agree: one "upload" entry per row, and        *)
(* "soft_delete" entries exactly for the deleted ones, whatever crashed    *)
(* between the two inserts of a transaction.                               *)
AuditMatchesRows ==
  \A c \in Contents :
    /\ audit[c].upload = IF rows[c] = None THEN 0 ELSE 1
    /\ audit[c].soft_delete > 0 <=> (rows[c] # None /\ rows[c].deleted_at # None)

(* The same file gives the same resume: an upload that was validated and   *)
(* stored never runs into the unique constraint on file_hash.              *)
KnownFileIsReturned == \A u \in Uploads : up[u].pc # "conflict"

(* A row keeps its path and, once soft-deleted, stays deleted; no upload   *)
(* in flight revives or replaces it.                                       *)
RowsArePermanent ==
  [][\A c \in Contents : rows[c] # None =>
       /\ rows'[c] # None
       /\ rows'[c].path = rows[c].path
       /\ rows[c].deleted_at # None => rows'[c].deleted_at # None]_vars

(* A file that a row names is incomplete only while some upload writes it   *)
(* again, or once a write was cut off: local.py opens a file that another  *)
(* worker may already have stored, and a row may name it by then.          *)
TruncatedFilesHaveAWriter ==
  \A c \in Contents : rows[c] # None =>
    \/ files[rows[c].path] = "whole"
    \/ crashes > 0
    \/ \E u \in Uploads : up[u].pc = "write" /\ Path(u) = rows[c].path

-----------------------------------------------------------------------------
(* The inductive invariant behind the safety properties.                   *)

(* With object storage a file is complete once save has returned, for the  *)
(* upload under way as for every row.                                      *)
ObjectInv ==
  ~local =>
    /\ \A p \in Paths : files[p] # "partial"
    /\ \A u \in Uploads :
         /\ up[u].pc \notin {"open", "write"}
         /\ up[u].pc \in {"lookup", "create", "log", "commit"} => files[Path(u)] = "whole"

(* An uncommitted row is the only one of its content.                      *)
InsertInv ==
  \A u \in Uploads : up[u].pc \in {"log", "commit"} =>
    /\ rows[Content(u)] = None
    /\ \A v \in Uploads : v \in Inserting(Content(u)) => v = u

(* A delete under way loaded a row.                                        *)
DeleteInv ==
  \A d \in Deletes : del[d].pc = "loaded" =>
    /\ del[d].content \in Contents
    /\ rows[del[d].content] # None

IInv ==
  /\ TypeOK
  /\ ObjectInv
  /\ InsertInv
  /\ DeleteInv
  /\ AuditMatchesRows
  /\ RowsHaveTheirFile

(* No file goes away once it was opened, and an incomplete one has whoever  *)
(* opened it last still at it.                                             *)
FileInv ==
  /\ \A p \in Paths : files[p] = "partial" =>
       crashes > 0 \/ \E u \in Uploads : up[u].pc = "write" /\ Path(u) = p
  /\ \A u \in Uploads : up[u].pc \in {"write", "lookup", "create", "log", "commit"} =>
       files[Path(u)] # "absent"
  /\ \A c \in Contents : rows[c] # None => files[rows[c].path] # "absent"

-----------------------------------------------------------------------------
(* Liveness.                                                               *)

(* Every upload is answered; an INSERT that waits for another one goes on. *)
EveryUploadEnds == \A u \in Uploads : up[u].pc # "idle" ~> up[u].pc = "idle"

(* Another worker may truncate the file of a stored row by writing the     *)
(* same bytes again; it is complete again after that, unless a write was   *)
(* cut off: save does not look at what it finds under the name.            *)
FileIsCompleteAgain ==
  \A c \in Contents :
    rows[c] # None ~> \/ crashes > 0
                      \/ rows[c] # None /\ files[rows[c].path] = "whole"
=============================================================================
