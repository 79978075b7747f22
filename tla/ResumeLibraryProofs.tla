------------------------ MODULE ResumeLibraryProofs ------------------------
(***************************************************************************)
(* Machine-checked proofs about ResumeLibrary, for any contents, any number *)
(* of uploads, deletes and crashes.                                         *)
(***************************************************************************)
EXTENDS ResumeLibrary, TLAPS

(* A path is made of a content and an extension.                           *)
LEMMA PathContent ==
  ASSUME NEW p \in Paths
  PROVE  p[1] \in Contents
  BY DEF Paths

(* An upload under way has a path.                                         *)
LEMMA BusyUpload ==
  ASSUME TypeOK, NEW u \in Uploads, up[u].pc # "idle"
  PROVE  Path(u) \in Paths /\ Content(u) \in Contents
<1>1. Path(u) \in Paths
  BY DEF TypeOK, Upload, Path
<1> QED
  BY <1>1, PathContent DEF Path, Content

(* The initial state satisfies the inductive invariant.                    *)
LEMMA InitIInv == Init => IInv
<1> SUFFICES ASSUME Init PROVE IInv
  OBVIOUS
<1>1. TypeOK
  BY LibraryAssumption
  DEF Init, TypeOK, FileStates, Upload, IdleUpload, Delete, IdleDelete
<1>2. ObjectInv
  BY DEF Init, ObjectInv, IdleUpload
<1>3. InsertInv /\ DeleteInv
  BY DEF Init, InsertInv, DeleteInv, IdleUpload, IdleDelete
<1>4. AuditMatchesRows /\ RowsHaveTheirFile
  BY DEF Init, AuditMatchesRows, RowsHaveTheirFile
<1> QED
  BY <1>1, <1>2, <1>3, <1>4 DEF IInv

(* The pc of an upload moves on, while storage and table stay: the new pc   *)
(* must be justified by what the storage and the table hold.                *)
LEMMA UploadMoves ==
  ASSUME IInv, NEW u \in Uploads, NEW r \in Upload,
         up' = [up EXCEPT ![u] = r],
         UNCHANGED <<local, files, rows, audit, del>>,
         crashes' \in 0 .. MaxCrashes,
         r.path = None <=> r.pc = "idle",
         ~local => r.pc \notin {"open", "write"},
         ~local /\ r.pc \in {"lookup", "create", "log", "commit"}
           => files[r.path] = "whole",
         r.pc \in {"log", "commit"} =>
           /\ rows[r.path[1]] = None
           /\ \A v \in Inserting(r.path[1]) : v = u
  PROVE  IInv'
<1> USE DEF IInv
<1>1. TypeOK'
  BY DEF TypeOK
<1>2. up'[u] = r /\ \A v \in Uploads : v # u => up'[v] = up[v]
  BY DEF TypeOK
<1>3. ObjectInv'
  BY <1>2 DEF ObjectInv, Path
<1>4. InsertInv'
  BY <1>2 DEF InsertInv, Inserting, Content
<1>5. DeleteInv' /\ AuditMatchesRows' /\ RowsHaveTheirFile'
  BY DEF DeleteInv, AuditMatchesRows, RowsHaveTheirFile
<1> QED
  BY <1>1, <1>3, <1>4, <1>5

(* Goto sets one handler to a record that differs in its pc only.          *)
LEMMA GotoMoves ==
  ASSUME TypeOK, NEW u \in Uploads, NEW from, NEW to,
         Goto(u, from, to), from # "idle",
         to = "lookup" \/ to = "open" \/ to = "put" \/ to = "error" \/ to = "reply"
         \/ to = "create" \/ to = "log" \/ to = "conflict" \/ to = "commit" \/ to = "write"
  PROVE  \E r \in Upload : /\ r.pc = to /\ r.path = Path(u)
                           /\ up' = [up EXCEPT ![u] = r]
<1> DEFINE r == [up[u] EXCEPT !.pc = to]
<1>1. up[u] \in Upload
  BY DEF TypeOK
<1>2. r \in Upload /\ r.pc = to /\ r.path = Path(u)
  BY <1>1 DEF Upload, Path
<1>3. up' = [up EXCEPT ![u] = r]
  BY DEF Goto
<1> QED
  BY <1>2, <1>3

(* The steps of an upload that change nothing but its own state.           *)
LEMMA SilentSteps ==
  ASSUME IInv, NEW u \in Uploads,
         \/ CheckExists(u) \/ WriteFails(u) \/ Lookup(u) \/ Create(u) \/ Log(u)
  PROVE  IInv'
<1> USE DEF IInv
<1>p. up[u].pc # "idle" => Path(u) \in Paths /\ Path(u) # None
  BY BusyUpload, LibraryAssumption DEF IInv
<1>c. crashes \in 0 .. MaxCrashes
  BY DEF TypeOK
<1>1. CASE CheckExists(u)
  <2>1. PICK to \in {"lookup", "open", "put"} :
          /\ Goto(u, "exists", to)
          /\ to = "lookup" => files[Path(u)] # "absent"
          /\ ~local => to # "open"
    BY <1>1 DEF CheckExists
  <2>2. PICK r \in Upload : r.pc = to /\ r.path = Path(u) /\ up' = [up EXCEPT ![u] = r]
    BY <2>1, GotoMoves
  <2>3. up[u].pc = "exists"
    BY <2>1 DEF Goto
  <2>4. ~local /\ to = "lookup" => files[Path(u)] = "whole"
    BY <1>p, <2>1, <2>3 DEF ObjectInv, TypeOK, FileStates
  <2> QED
    BY <1>1, <1>p, <1>c, <2>1, <2>2, <2>3, <2>4, UploadMoves DEF CheckExists
<1>2. CASE WriteFails(u)
  <2>1. PICK r \in Upload : r.pc = "error" /\ r.path = Path(u) /\ up' = [up EXCEPT ![u] = r]
    BY <1>2, GotoMoves DEF WriteFails
  <2>2. crashes' \in 0 .. MaxCrashes
    BY <1>2, <1>c, LibraryAssumption DEF WriteFails
  <2> QED
    BY <1>2, <1>p, <2>1, <2>2, UploadMoves DEF WriteFails, Goto
<1>3. CASE Lookup(u)
  <2>1. PICK to \in {"reply", "create"} : Goto(u, "lookup", to)
    BY <1>3 DEF Lookup
  <2>2. PICK r \in Upload : r.pc = to /\ r.path = Path(u) /\ up' = [up EXCEPT ![u] = r]
    BY <2>1, GotoMoves
  <2>3. ~local => files[Path(u)] = "whole"
    BY <2>1 DEF ObjectInv, Goto
  <2> QED
    BY <1>3, <1>p, <1>c, <2>1, <2>2, <2>3, UploadMoves DEF Lookup
<1>4. CASE Create(u)
  <2>1. PICK to \in {"log", "conflict"} :
          /\ Goto(u, "create", to)
          /\ to = "log" => rows[Content(u)] = None
    BY <1>4 DEF Create
  <2>2. PICK r \in Upload : r.pc = to /\ r.path = Path(u) /\ up' = [up EXCEPT ![u] = r]
    BY <2>1, GotoMoves
  <2>3. ~local => files[Path(u)] = "whole"
    BY <2>1 DEF ObjectInv, Goto
  <2>4. Inserting(r.path[1]) = {} /\ (to = "log" => rows[r.path[1]] = None)
    BY <1>4, <2>1, <2>2 DEF Create, Content, Path
  <2>5. \A v \in Inserting(r.path[1]) : v = u
    BY <2>4
  <2> QED
    BY <1>4, <1>p, <1>c, <2>1, <2>2, <2>3, <2>4, <2>5, UploadMoves DEF Create, Goto
<1>5. CASE Log(u)
  <2>1. PICK r \in Upload : r.pc = "commit" /\ r.path = Path(u) /\ up' = [up EXCEPT ![u] = r]
    BY <1>5, GotoMoves DEF Log
  <2>2. up[u].pc = "log"
    BY <1>5 DEF Log, Goto
  <2>3. ~local => files[Path(u)] = "whole"
    BY <2>2 DEF ObjectInv
  <2>4. /\ rows[r.path[1]] = None
        /\ \A v \in Inserting(r.path[1]) : v = u
    BY <2>1, <2>2 DEF InsertInv, Content, Path, Inserting
  <2> QED
    BY <1>5, <1>p, <1>c, <2>1, <2>2, <2>3, <2>4, UploadMoves DEF Log
<1> QED
  BY <1>1, <1>2, <1>3, <1>4, <1>5

(* A request arrives; an answer, an error or a crash ends it.              *)
LEMMA EdgeSteps ==
  ASSUME IInv, NEW u \in Uploads,
         \/ \E p \in Paths : Receive(u, p)
         \/ Reply(u)
         \/ CrashUpload(u)
  PROVE  IInv'
<1>c. crashes \in 0 .. MaxCrashes
  BY DEF IInv, TypeOK
<1>1. ASSUME NEW p \in Paths, Receive(u, p) PROVE IInv'
  <2> DEFINE r == [pc |-> "exists", path |-> p]
  <2>1. r \in Upload /\ p # None
    BY LibraryAssumption DEF Upload
  <2>2. up' = [up EXCEPT ![u] = r]
    BY <1>1 DEF Receive
  <2> QED
    BY <1>1, <1>c, <2>1, <2>2, UploadMoves DEF Receive
<1>2. CASE Reply(u) \/ CrashUpload(u)
  <2>1. IdleUpload \in Upload
    BY DEF IdleUpload, Upload
  <2>2. up' = [up EXCEPT ![u] = IdleUpload] /\ UNCHANGED <<local, files, rows, audit, del>>
    BY <1>2 DEF Reply, CrashUpload
  <2>3. crashes' \in 0 .. MaxCrashes
    BY <1>2, <1>c, LibraryAssumption DEF Reply, CrashUpload
  <2> QED
    BY <2>1, <2>2, <2>3, UploadMoves DEF IdleUpload
<1> QED
  BY <1>1, <1>2

(* A file is written: only the local storage leaves it partial in between. *)
LEMMA WriteSteps ==
  ASSUME IInv, NEW u \in Uploads,
         OpenFile(u) \/ WriteFile(u) \/ PutObject(u) \/ PutFails(u)
  PROVE  IInv'
<1> USE DEF IInv
<1>1. PICK from \in {"open", "write", "put"}, to \in {"write", "lookup", "error"} :
        Goto(u, from, to)
  BY DEF OpenFile, WriteFile, PutObject, PutFails
<1>2. PICK r \in Upload : r.pc = to /\ r.path = Path(u) /\ up' = [up EXCEPT ![u] = r]
  BY <1>1, GotoMoves
<1>3. up'[u] = r /\ \A v \in Uploads : v # u => up'[v] = up[v]
  BY <1>2 DEF TypeOK
<1>4. Path(u) \in Paths /\ Path(u) # None /\ up[u].pc = from
  BY <1>1, BusyUpload, LibraryAssumption DEF Goto
<1>5. PICK s \in FileStates :
        /\ files' = [files EXCEPT ![Path(u)] = s]
        /\ \/ s # "absent" /\ from # "put"
           \/ s = "whole"
           \/ s = files[Path(u)] /\ to = "error"
        /\ from = "put" => to # "write"
  <2>1. CASE OpenFile(u)
    BY <2>1, <1>4 DEF OpenFile, FileStates, Goto
  <2>2. CASE WriteFile(u)
    BY <2>2, <1>4 DEF WriteFile, FileStates, Goto
  <2>3. to # "write" <=> up'[u].pc # "write"
    BY <1>2, <1>3
  <2>4. CASE PutObject(u)
    <3>1. up'[u].pc = "lookup"
      BY <2>4, <1>4 DEF PutObject, Goto, TypeOK, Upload
    <3> QED
      BY <2>3, <2>4, <3>1 DEF PutObject, FileStates
  <2>5. CASE PutFails(u)
    <3>1. up'[u].pc = "error" /\ to = "error"
      BY <2>5, <1>2, <1>3, <1>4 DEF PutFails, Goto, TypeOK, Upload
    <3>2. files[Path(u)] \in FileStates
      BY <1>4 DEF TypeOK
    <3>3. files = [files EXCEPT ![Path(u)] = files[Path(u)]]
      BY <1>4 DEF TypeOK
    <3> QED
      BY <2>3, <2>5, <3>1, <3>2, <3>3 DEF PutFails, FileStates
  <2> QED
    BY <2>1, <2>2, <2>4, <2>5
<1>6. UNCHANGED <<local, rows, audit, del, crashes>>
  BY DEF OpenFile, WriteFile, PutObject, PutFails
<1>7. ~local =>
        /\ s = "whole" \/ (s = files[Path(u)] /\ to = "error")
        /\ s # "partial"
        /\ to # "write"
  <2> SUFFICES ASSUME ~local
               PROVE  /\ s = "whole" \/ (s = files[Path(u)] /\ to = "error")
                      /\ s # "partial"
                      /\ to # "write"
    OBVIOUS
  <2>1. from = "put"
    BY <1>4 DEF ObjectInv
  <2>2. files[Path(u)] # "partial"
    BY <1>4 DEF ObjectInv
  <2> QED
    BY <1>5, <2>1, <2>2
<1>8. TypeOK'
  BY <1>2, <1>3, <1>4, <1>5, <1>6 DEF TypeOK, FileStates
<1>9. ObjectInv'
  BY <1>2, <1>3, <1>4, <1>5, <1>6, <1>7 DEF ObjectInv, Path, TypeOK, Upload
<1>10. InsertInv'
  BY <1>2, <1>3, <1>6 DEF InsertInv, Inserting, Content
<1>11. DeleteInv' /\ AuditMatchesRows'
  BY <1>6 DEF DeleteInv, AuditMatchesRows
<1>12. RowsHaveTheirFile'
  <2> SUFFICES ASSUME ~local, NEW c \in Contents, rows[c] # None
               PROVE  files'[rows[c].path] = "whole"
    BY <1>6 DEF RowsHaveTheirFile
  <2>1. rows[c].path \in Paths /\ files[rows[c].path] = "whole"
    BY DEF RowsHaveTheirFile, TypeOK, Row
  <2> QED
    BY <1>4, <1>5, <1>7, <2>1 DEF TypeOK
<1> QED
  BY <1>8, <1>9, <1>10, <1>11, <1>12

(* A committed upload adds the row its file was written for.               *)
LEMMA CommitStep ==
  ASSUME IInv, NEW u \in Uploads, Commit(u)
  PROVE  IInv'
<1> USE DEF IInv
<1>1. PICK r \in Upload : r.pc = "reply" /\ r.path = Path(u) /\ up' = [up EXCEPT ![u] = r]
  BY GotoMoves DEF Commit
<1>2. up'[u] = r /\ \A v \in Uploads : v # u => up'[v] = up[v]
  BY <1>1 DEF TypeOK
<1>3. up[u].pc = "commit"
  BY DEF Commit, Goto
<1>4. Path(u) \in Paths /\ Path(u) # None /\ Content(u) \in Contents
  BY <1>3, BusyUpload, LibraryAssumption
<1> DEFINE c == Content(u)
           new == [path |-> Path(u), deleted_at |-> None]
<1>5. /\ new \in Row /\ new # None
      /\ rows' = [rows EXCEPT ![c] = new]
      /\ rows[c] = None
  BY <1>3, <1>4, LibraryAssumption DEF Commit, Row, InsertInv
<1>6. /\ audit'[c].upload = 1
      /\ audit'[c].soft_delete = audit[c].soft_delete
      /\ audit[c].soft_delete \in Nat
      /\ \A d \in Contents : d # c => audit'[d] = audit[d]
      /\ audit' \in [Contents -> [upload : Nat, soft_delete : Nat]]
  <2>1. audit[c] \in [upload : Nat, soft_delete : Nat] /\ audit[c].upload = 0
    BY <1>4, <1>5 DEF TypeOK, AuditMatchesRows
  <2>2. audit' = [audit EXCEPT ![c] = [audit[c] EXCEPT !.upload = audit[c].upload + 1]]
    BY DEF Commit
  <2> DEFINE a == [audit[c] EXCEPT !.upload = audit[c].upload + 1]
  <2>3. /\ a \in [upload : Nat, soft_delete : Nat]
        /\ a.upload = 1 /\ a.soft_delete = audit[c].soft_delete
    BY <2>1
  <2> HIDE DEF a
  <2> QED
    BY <1>4, <2>1, <2>2, <2>3 DEF a, TypeOK
<1>7. UNCHANGED <<local, files, del, crashes>>
  BY DEF Commit
<1>8. TypeOK'
  BY <1>1, <1>2, <1>4, <1>5, <1>6, <1>7 DEF TypeOK
<1>9. ObjectInv'
  BY <1>1, <1>2, <1>7 DEF ObjectInv, Path
<1>10. InsertInv'
  <2> SUFFICES ASSUME NEW v \in Uploads, up'[v].pc \in {"log", "commit"}
               PROVE  /\ rows'[Content(v)'] = None
                      /\ \A w \in Uploads : w \in Inserting(Content(v))' => w = v
    BY DEF InsertInv
  <2>1. v # u /\ up'[v] = up[v] /\ Content(v)' = Content(v)
    BY <1>1, <1>2 DEF Content
  <2>2. rows[Content(v)] = None /\ \A w \in Uploads : w \in Inserting(Content(v)) => w = v
    BY <2>1 DEF InsertInv
  <2>3. Content(v) # c
    BY <1>3, <2>1, <2>2 DEF Inserting
  <2>4. Content(v) \in Contents
    BY <2>1, BusyUpload
  <2>5. \A w \in Uploads : w \in Inserting(Content(v))' => w \in Inserting(Content(v))
    BY <1>1, <1>2, <2>1 DEF Inserting, Content
  <2> QED
    BY <1>5, <2>1, <2>2, <2>3, <2>4, <2>5 DEF TypeOK
<1>11. DeleteInv'
  BY <1>5, <1>7 DEF DeleteInv, TypeOK
<1>12. AuditMatchesRows'
  <2> SUFFICES ASSUME NEW d \in Contents
               PROVE  /\ audit'[d].upload = IF rows'[d] = None THEN 0 ELSE 1
                      /\ audit'[d].soft_delete > 0
                           <=> (rows'[d] # None /\ rows'[d].deleted_at # None)
    BY DEF AuditMatchesRows
  <2>1. CASE d = c
    <3>1. rows'[d] = new /\ new.deleted_at = None
      BY <1>4, <1>5, <2>1 DEF TypeOK
    <3>2. ~(audit[c].soft_delete > 0)
      BY <1>4, <1>5 DEF AuditMatchesRows
    <3> QED
      BY <1>5, <1>6, <2>1, <3>1, <3>2
  <2>2. CASE d # c
    BY <1>4, <1>5, <1>6, <2>2 DEF TypeOK, AuditMatchesRows
  <2> QED
    BY <2>1, <2>2
<1>13. RowsHaveTheirFile'
  <2> SUFFICES ASSUME ~local, NEW d \in Contents, rows'[d] # None
               PROVE  files[rows'[d].path] = "whole"
    BY <1>7 DEF RowsHaveTheirFile
  <2>1. CASE d = c
    <3>1. rows'[d].path = Path(u)
      BY <1>4, <1>5, <2>1 DEF TypeOK
    <3> QED
      BY <1>3, <3>1 DEF ObjectInv
  <2>2. CASE d # c
    BY <1>4, <1>5, <2>2 DEF TypeOK, RowsHaveTheirFile
  <2> QED
    BY <2>1, <2>2
<1> QED
  BY <1>8, <1>9, <1>10, <1>11, <1>12, <1>13

(* A delete loads a row, and later marks it, whoever marked it in between. *)
LEMMA DeleteSteps ==
  ASSUME IInv, NEW d \in Deletes,
         \/ \E c \in Contents : DeleteLoads(d, c)
         \/ DeleteCommits(d)
         \/ CrashDelete(d)
  PROVE  IInv'
<1> USE DEF IInv
<1>1. ASSUME NEW r \in Delete, del' = [del EXCEPT ![d] = r],
             r.pc = "loaded" => r.content \in Contents /\ rows[r.content] # None,
             UNCHANGED <<local, files, rows, audit, up>>, crashes' \in 0 .. MaxCrashes
      PROVE  IInv'
  <2>1. TypeOK'
    BY <1>1 DEF TypeOK
  <2>2. DeleteInv'
    BY <1>1 DEF DeleteInv, TypeOK
  <2>3. ObjectInv' /\ InsertInv' /\ AuditMatchesRows' /\ RowsHaveTheirFile'
    BY <1>1 DEF ObjectInv, Path, InsertInv, Inserting, Content, AuditMatchesRows,
                RowsHaveTheirFile
  <2> QED
    BY <2>1, <2>2, <2>3
<1>c. crashes \in 0 .. MaxCrashes
  BY DEF TypeOK
<1>2. ASSUME NEW c \in Contents, DeleteLoads(d, c) PROVE IInv'
  <2> DEFINE r == [pc |-> "loaded", content |-> c]
  <2>1. r \in Delete
    BY DEF Delete
  <2> QED
    BY <1>1, <1>2, <1>c, <2>1 DEF DeleteLoads
<1>3. CASE CrashDelete(d)
  <2>1. IdleDelete \in Delete /\ IdleDelete.pc # "loaded"
    BY DEF IdleDelete, Delete
  <2>2. crashes' \in 0 .. MaxCrashes
    BY <1>3, <1>c, LibraryAssumption DEF CrashDelete
  <2>3. del' = [del EXCEPT ![d] = IdleDelete] /\ UNCHANGED <<local, files, rows, audit, up>>
    BY <1>3 DEF CrashDelete
  <2> HIDE DEF IInv
  <2> QED
    BY <1>1, <2>1, <2>2, <2>3
<1>4. CASE DeleteCommits(d)
  <2> DEFINE c   == del[d].content
             row == [rows[c] EXCEPT !.deleted_at = "set"]
             a   == [audit[c] EXCEPT !.soft_delete = audit[c].soft_delete + 1]
  <2>1. c \in Contents /\ rows[c] # None
    BY <1>4 DEF DeleteCommits, DeleteInv
  <2>2. rows[c] \in Row
    BY <2>1 DEF TypeOK
  <2>3. row \in Row /\ row # None /\ row.deleted_at = "set" /\ row.path = rows[c].path
    BY <2>2, LibraryAssumption DEF Row
  <2>4. audit[c] \in [upload : Nat, soft_delete : Nat] /\ audit[c].upload = 1
    BY <2>1 DEF TypeOK, AuditMatchesRows
  <2>5. a \in [upload : Nat, soft_delete : Nat] /\ a.upload = 1 /\ a.soft_delete > 0
    BY <2>4
  <2>6. /\ rows' = [rows EXCEPT ![c] = row]
        /\ audit' = [audit EXCEPT ![c] = a]
        /\ del' = [del EXCEPT ![d] = IdleDelete]
        /\ UNCHANGED <<local, files, up, crashes>>
    BY <1>4 DEF DeleteCommits
  <2> HIDE DEF row, a
  <2>7. TypeOK'
    <3>1. IdleDelete \in Delete
      BY DEF IdleDelete, Delete
    <3> QED
      BY <2>1, <2>3, <2>5, <2>6, <3>1 DEF TypeOK
  <2>8. ObjectInv'
    BY <2>6 DEF ObjectInv, Path
  <2>9. InsertInv'
    BY <2>1, <2>6 DEF InsertInv, Inserting, Content, TypeOK
  <2>10. DeleteInv'
    BY <2>1, <2>3, <2>6 DEF DeleteInv, TypeOK, IdleDelete
  <2>11. AuditMatchesRows'
    BY <2>1, <2>3, <2>5, <2>6, LibraryAssumption DEF AuditMatchesRows, TypeOK
  <2>12. RowsHaveTheirFile'
    BY <2>1, <2>3, <2>6 DEF RowsHaveTheirFile, TypeOK
  <2> QED
    BY <2>7, <2>8, <2>9, <2>10, <2>11, <2>12
<1> QED
  BY <1>2, <1>3, <1>4

(* Every step preserves the inductive invariant.                           *)
LEMMA NextIInv == IInv /\ [Next]_vars => IInv'
<1> SUFFICES ASSUME IInv, [Next]_vars PROVE IInv'
  OBVIOUS
<1>1. ASSUME NEW u \in Uploads, NEW p \in Paths, Receive(u, p) PROVE IInv'
  BY <1>1, EdgeSteps
<1>2. ASSUME NEW u \in Uploads, UploadStep(u) \/ WriteFails(u) \/ CrashUpload(u) PROVE IInv'
  BY <1>2, SilentSteps, EdgeSteps, WriteSteps, CommitStep DEF UploadStep
<1>3. ASSUME NEW d \in Deletes, NEW c \in Contents, DeleteLoads(d, c) PROVE IInv'
  BY <1>3, DeleteSteps
<1>4. ASSUME NEW d \in Deletes, DeleteCommits(d) \/ CrashDelete(d) PROVE IInv'
  BY <1>4, DeleteSteps
<1>5. CASE UNCHANGED vars
  BY <1>5 DEF vars, IInv, TypeOK, ObjectInv, InsertInv, DeleteInv, AuditMatchesRows,
              RowsHaveTheirFile, Path, Content, Inserting
<1> QED
  BY <1>1, <1>2, <1>3, <1>4, <1>5 DEF Next

(* The inductive invariant holds of every reachable state of the library.  *)
THEOREM SpecIInv == Spec => []IInv
  BY InitIInv, NextIInv, PTL DEF Spec

(* The library stays well typed, whatever its instance.                    *)
THEOREM TypeCorrect == Spec => []TypeOK
<1>1. IInv => TypeOK
  BY DEF IInv
<1> QED
  BY <1>1, SpecIInv, PTL

(* The audit trail agrees with the table, for any number of uploads,       *)
(* deletes and crashes: row and entry share a transaction.                 *)
THEOREM AuditAgrees == Spec => []AuditMatchesRows
<1>1. IInv => AuditMatchesRows
  BY DEF IInv
<1> QED
  BY <1>1, SpecIInv, PTL

(* With object storage every row, deleted or not, has its complete file:   *)
(* save returned before the row was inserted and nothing removes a file.   *)
THEOREM ObjectsOutliveRows == Spec => []RowsHaveTheirFile
<1>1. IInv => RowsHaveTheirFile
  BY DEF IInv
<1> QED
  BY <1>1, SpecIInv, PTL

(* A step leaves every row in place, with its path, and deleted once it is *)
(* deleted: a commit only fills a place that is empty.                     *)
LEMMA StepKeepsRows ==
  ASSUME IInv, [Next]_vars, NEW c \in Contents, rows[c] # None
  PROVE  /\ rows'[c] # None
         /\ rows'[c].path = rows[c].path
         /\ rows[c].deleted_at # None => rows'[c].deleted_at # None
<1> USE DEF IInv
<1>1. ASSUME NEW u \in Uploads, Commit(u) PROVE rows'[c] = rows[c]
  <2>1. rows[Content(u)] = None
    BY <1>1 DEF Commit, Goto, InsertInv
  <2> QED
    BY <1>1, <2>1 DEF Commit, TypeOK
<1>2. ASSUME NEW d \in Deletes, DeleteCommits(d)
      PROVE  /\ rows'[c] # None
             /\ rows'[c].path = rows[c].path
             /\ rows[c].deleted_at # None => rows'[c].deleted_at # None
  <2> DEFINE row == [rows[c] EXCEPT !.deleted_at = "set"]
  <2>1. rows[c] \in Row
    BY DEF TypeOK
  <2>2. row \in Row /\ row # None /\ row.deleted_at # None /\ row.path = rows[c].path
    BY <2>1, LibraryAssumption DEF Row
  <2>3. rows'[c] = rows[c] \/ rows'[c] = row
    BY <1>2 DEF DeleteCommits, TypeOK
  <2> QED
    BY <2>2, <2>3
<1>3. CASE UNCHANGED rows
  BY <1>3
<1> QED
  BY <1>1, <1>2, <1>3
  DEF Next, vars, UploadStep, Receive, CheckExists, OpenFile, WriteFile, WriteFails,
      PutObject, PutFails, Lookup, Create, Log, Reply, CrashUpload, DeleteLoads, CrashDelete

(* No upload revives or replaces a row, and no delete removes one.         *)
THEOREM RowsStay == Spec => RowsArePermanent
<1>1. IInv /\ [Next]_vars =>
        [\A c \in Contents : rows[c] # None =>
           /\ rows'[c] # None
           /\ rows'[c].path = rows[c].path
           /\ rows[c].deleted_at # None => rows'[c].deleted_at # None]_vars
  BY StepKeepsRows
<1> QED
  BY <1>1, SpecIInv, PTL DEF Spec, RowsArePermanent

-----------------------------------------------------------------------------
(* The files, on either storage.                                           *)

(* A step of an upload u, now r, that touches no file but its own, and      *)
(* leaves that incomplete only if it is at the write or was cut off.       *)
LEMMA FileMoves ==
  ASSUME IInv, FileInv, NEW u \in Uploads, NEW r \in Upload,
         up' = [up EXCEPT ![u] = r], UNCHANGED rows,
         crashes > 0 => crashes' > 0,
         \A p \in Paths : files'[p] = files[p] \/ (p = Path(u) /\ files'[p] # "absent"),
         r.pc \in {"write", "lookup", "create", "log", "commit"} =>
           r.path \in Paths /\ files'[r.path] # "absent",
         \A p \in Paths : files'[p] = "partial" =>
           \/ crashes' > 0
           \/ r.pc = "write" /\ r.path = p
           \/ files[p] = "partial" /\ ~(up[u].pc = "write" /\ Path(u) = p)
  PROVE  FileInv'
<1>1. /\ up'[u] = r
      /\ \A v \in Uploads \ {u} : up'[v] = up[v]
      /\ crashes \in Nat
  BY LibraryAssumption DEF IInv, TypeOK
<1>2. \A v \in Uploads : up[v].pc # "idle" => Path(v) \in Paths
  BY BusyUpload DEF IInv
<1>3. \A c \in Contents : rows[c] # None => rows[c].path \in Paths
  BY DEF IInv, TypeOK, Row
<1>4. ASSUME NEW p \in Paths, files'[p] = "partial"
      PROVE  crashes' > 0 \/ \E v \in Uploads : up'[v].pc = "write" /\ up'[v].path = p
  <2>1. CASE crashes > 0
    BY <1>1, <2>1
  <2>2. CASE r.pc = "write" /\ r.path = p
    BY <1>1, <2>2
  <2>3. CASE files[p] = "partial" /\ ~(up[u].pc = "write" /\ Path(u) = p) /\ ~(crashes > 0)
    <3>1. PICK v \in Uploads : up[v].pc = "write" /\ Path(v) = p
      BY <2>3 DEF FileInv
    <3> QED
      BY <1>1, <2>3, <3>1 DEF Path
  <2> QED
    BY <1>4, <2>1, <2>2, <2>3
<1>5. ASSUME NEW v \in Uploads, up'[v].pc \in {"write", "lookup", "create", "log", "commit"}
      PROVE  files'[up'[v].path] # "absent"
  <2>1. CASE v = u
    BY <1>1, <1>5, <2>1
  <2>2. CASE v # u
    <3>1. up'[v] = up[v] /\ Path(v) \in Paths /\ files[Path(v)] # "absent"
      BY <1>1, <1>2, <1>5, <2>2 DEF FileInv
    <3> QED
      BY <3>1 DEF Path
  <2> QED
    BY <2>1, <2>2
<1>6. ASSUME NEW c \in Contents, rows'[c] # None PROVE files'[rows'[c].path] # "absent"
  BY <1>3, <1>6 DEF FileInv
<1> QED
  BY <1>4, <1>5, <1>6 DEF FileInv, Path

(* Every step keeps FileInv.                                               *)
LEMMA NextFileInv == IInv /\ FileInv /\ [Next]_vars => FileInv'
<1> SUFFICES ASSUME IInv, FileInv, [Next]_vars PROVE FileInv'
  OBVIOUS
<1>0. TypeOK /\ crashes \in Nat /\ MaxCrashes \in Nat
  BY LibraryAssumption DEF IInv, TypeOK
<1>1. ASSUME NEW u \in Uploads, NEW p \in Paths, Receive(u, p) PROVE FileInv'
  <2> DEFINE r == [pc |-> "exists", path |-> p]
  <2>1. r \in Upload /\ r.pc = "exists" /\ up' = [up EXCEPT ![u] = r]
        /\ up[u].pc = "idle" /\ UNCHANGED <<files, rows, crashes>>
    BY <1>1 DEF Receive, Upload
  <2> HIDE DEF r
  <2> QED
    BY <1>0, <2>1, FileMoves
<1>2. ASSUME NEW u \in Uploads, Reply(u) \/ CrashUpload(u) PROVE FileInv'
  <2>1. IdleUpload \in Upload /\ IdleUpload.pc = "idle"
    BY DEF IdleUpload, Upload
  <2>2. /\ up' = [up EXCEPT ![u] = IdleUpload] /\ UNCHANGED <<files, rows>>
        /\ \/ crashes' = crashes /\ up[u].pc # "write"
           \/ crashes' > 0
    BY <1>0, <1>2 DEF Reply, CrashUpload
  <2> QED
    BY <1>0, <2>1, <2>2, FileMoves
<1>3. ASSUME NEW u \in Uploads, CheckExists(u) \/ Lookup(u) \/ Create(u) \/ Log(u)
      PROVE  FileInv'
  <2>1. PICK from \in {"exists", "lookup", "create", "log"},
             to \in {"lookup", "open", "put", "reply", "create", "log", "conflict", "commit"} :
          /\ Goto(u, from, to)
          /\ to \in {"lookup", "create", "log", "commit"} =>
               files[Path(u)] # "absent" \/ from # "exists"
          /\ UNCHANGED <<files, rows, crashes>>
    BY <1>3 DEF CheckExists, Lookup, Create, Log, Goto
  <2>2. PICK r \in Upload : r.pc = to /\ r.path = Path(u) /\ up' = [up EXCEPT ![u] = r]
    BY <1>0, <2>1, GotoMoves
  <2>3. up[u].pc = from /\ Path(u) \in Paths
    BY <1>0, <2>1, BusyUpload DEF Goto
  <2>4. r.pc \in {"lookup", "create", "log", "commit"} => files[Path(u)] # "absent"
    BY <2>1, <2>2, <2>3 DEF FileInv
  <2> QED
    BY <1>0, <2>1, <2>2, <2>3, <2>4, FileMoves
<1>4. ASSUME NEW u \in Uploads, OpenFile(u) \/ WriteFile(u) \/ PutObject(u) \/ PutFails(u)
      PROVE  FileInv'
  <2>1. PICK from \in {"open", "write", "put"}, to \in {"write", "lookup", "error"} :
          /\ Goto(u, from, to) /\ UNCHANGED <<rows, crashes>>
          /\ \/ to = "write" /\ files' = [files EXCEPT ![Path(u)] = "partial"]
             \/ to \in {"lookup", "error"} /\ files' = [files EXCEPT ![Path(u)] = "whole"]
             \/ from = "put" /\ to = "error" /\ files' = files
    BY <1>4 DEF OpenFile, WriteFile, PutObject, PutFails
  <2>2. PICK r \in Upload : r.pc = to /\ r.path = Path(u) /\ up' = [up EXCEPT ![u] = r]
    BY <1>0, <2>1, GotoMoves
  <2>3. up[u].pc = from /\ Path(u) \in Paths
    BY <1>0, <2>1, BusyUpload DEF Goto
  <2>4. \A p \in Paths : files'[p] = IF p = Path(u) THEN files'[p] ELSE files[p]
    BY <1>0, <2>1 DEF TypeOK
  <2>5. /\ to = "write" => files'[Path(u)] = "partial"
        /\ to = "lookup" => files'[Path(u)] = "whole"
        /\ to = "error" => files'[Path(u)] = "whole" \/ (from = "put" /\ files' = files)
    BY <1>0, <2>1, <2>3 DEF TypeOK
  <2>6. \A p \in Paths : files'[p] = files[p] \/ (p = Path(u) /\ files'[p] # "absent")
    BY <2>1, <2>4, <2>5
  <2>7. \A p \in Paths : files'[p] = "partial" =>
          \/ r.pc = "write" /\ r.path = p
          \/ files[p] = "partial" /\ ~(up[u].pc = "write" /\ Path(u) = p)
    BY <2>1, <2>2, <2>3, <2>4, <2>5
  <2> QED
    BY <2>1, <2>2, <2>3, <2>5, <2>6, <2>7, FileMoves
<1>5. ASSUME NEW u \in Uploads, WriteFails(u) PROVE FileInv'
  <2>1. Goto(u, "write", "error") /\ crashes' > 0 /\ UNCHANGED <<files, rows>>
    BY <1>0, <1>5 DEF WriteFails
  <2>2. PICK r \in Upload : r.pc = "error" /\ r.path = Path(u) /\ up' = [up EXCEPT ![u] = r]
    BY <1>0, <2>1, GotoMoves
  <2> QED
    BY <1>0, <2>1, <2>2, FileMoves
<1>6. ASSUME NEW u \in Uploads, Commit(u) PROVE FileInv'
  <2>1. Goto(u, "commit", "reply") /\ UNCHANGED <<files, crashes>>
        /\ rows' = [rows EXCEPT ![Content(u)] = [path |-> Path(u), deleted_at |-> None]]
    BY <1>6 DEF Commit
  <2>2. PICK r \in Upload : r.pc = "reply" /\ r.path = Path(u) /\ up' = [up EXCEPT ![u] = r]
    BY <1>0, <2>1, GotoMoves
  <2>3. up[u].pc = "commit" /\ Path(u) \in Paths /\ files[Path(u)] # "absent"
    BY <1>0, <2>1, BusyUpload DEF Goto, FileInv
  <2>4. /\ up'[u] = r
        /\ \A v \in Uploads \ {u} : up'[v] = up[v]
    BY <1>0, <2>2 DEF TypeOK
  <2>5. \A c \in Contents : rows'[c] = rows[c] \/ rows'[c].path = Path(u)
    BY <1>0, <2>1 DEF TypeOK
  <2> QED
    BY <2>1, <2>2, <2>3, <2>4, <2>5 DEF FileInv, Path
<1>7. ASSUME NEW d \in Deletes, (\E c \in Contents : DeleteLoads(d, c)) \/ CrashDelete(d)
      PROVE  FileInv'
  BY <1>0, <1>7 DEF DeleteLoads, CrashDelete, FileInv, Path
<1>8. ASSUME NEW d \in Deletes, DeleteCommits(d) PROVE FileInv'
  <2>1. \A c \in Contents : rows'[c] # None => rows[c] # None /\ rows'[c].path = rows[c].path
    <3> SUFFICES ASSUME NEW c \in Contents, rows'[c] # None
                 PROVE  rows[c] # None /\ rows'[c].path = rows[c].path
      OBVIOUS
    <3>1. del[d].content \in Contents /\ rows[del[d].content] # None
      BY <1>8 DEF IInv, DeleteInv, DeleteCommits
    <3>2. CASE c = del[d].content
      <4>1. rows[c] \in Row
        BY <1>0, <3>1, <3>2 DEF TypeOK
      <4>2. rows'[c] = [rows[c] EXCEPT !.deleted_at = "set"]
        BY <1>0, <1>8, <3>2 DEF DeleteCommits, TypeOK
      <4> QED
        BY <3>1, <3>2, <4>1, <4>2 DEF Row
    <3>3. CASE c # del[d].content
      BY <1>0, <1>8, <3>3 DEF DeleteCommits, TypeOK
    <3> QED
      BY <3>2, <3>3
  <2>2. UNCHANGED <<files, up, crashes>>
    BY <1>8 DEF DeleteCommits
  <2> QED
    BY <2>1, <2>2 DEF FileInv, Path
<1>9. CASE UNCHANGED vars
  BY <1>9 DEF vars, FileInv, Path
<1> QED
  BY <1>1, <1>2, <1>3, <1>4, <1>5, <1>6, <1>7, <1>8, <1>9 DEF Next, UploadStep

(* A file that a row names is complete, or someone writes it again, or a    *)
(* write was cut off: on the local file system too, for any number of       *)
(* uploads of one content beside each other (app/storage/local.py).        *)
THEOREM TruncationIsTemporary == Spec => []TruncatedFilesHaveAWriter
<1>1. Init => FileInv
  BY DEF Init, FileInv, IdleUpload
<1>2. IInv /\ FileInv => TruncatedFilesHaveAWriter
  BY DEF IInv, TypeOK, Row, FileStates, FileInv, TruncatedFilesHaveAWriter
<1> QED
  BY <1>1, <1>2, NextFileInv, SpecIInv, PTL DEF Spec
=============================================================================
