----------------------- MODULE AnalysisServiceProofs -----------------------
(***************************************************************************)
(* Machine-checked proofs about AnalysisService, for any number of          *)
(* handlers, resumes, job descriptions, jobs, outcomes and crashes.         *)
(*                                                                          *)
(* The columns of a row are reached through a few lemmas on the repository  *)
(* operators.  Then each action is shown to preserve IInv.                  *)
(***************************************************************************)
EXTENDS AnalysisService, TLAPS

-----------------------------------------------------------------------------
(* A row that is inserted has every column, and nothing but its pair.      *)
LEMMA NewRowType ==
  ASSUME NEW p \in Pairs
  PROVE  /\ NewRow(p) \in AnalysisRow
         /\ NewRow(p).pair = p
         /\ NewRow(p).result = None
         /\ NewRow(p).status = "queued"
  BY DEF NewRow, AnalysisRow, ANALYSIS_STATUSES, Timestamps

(* update_status keeps the row well formed and never changes its pair.     *)
LEMMA UpdateStatusType ==
  ASSUME NEW row \in AnalysisRow,
         NEW s \in ANALYSIS_STATUSES,
         NEW r \in Pairs \cup {None},
         NEW e \in Errors \cup {None}
  PROVE  /\ UpdateStatus(row, s, r, e) \in AnalysisRow
         /\ UpdateStatus(row, s, r, e).pair = row.pair
         /\ UpdateStatus(row, s, r, e).status = s
  BY DEF UpdateStatus, Coalesce, AnalysisRow, ANALYSIS_STATUSES, Terminal, Timestamps

(* Marking a row "processing" makes it presentable.                        *)
LEMMA ProcessingRow ==
  ASSUME NEW p \in Pairs
  PROVE  LET row == UpdateStatus(NewRow(p), "processing", None, None)
         IN  /\ row \in AnalysisRow
             /\ row.pair = p
             /\ row.result = None
             /\ Presentable(row)
             /\ row.status = "processing"
  BY RepositoryAssumption
  DEF UpdateStatus, NewRow, Timestamps, Coalesce, AnalysisRow, ANALYSIS_STATUSES, Terminal,
         Presentable

(* A presentable row stays so when the trigger fails.                      *)
LEMMA FailedRow ==
  ASSUME NEW row \in AnalysisRow, Presentable(row), row.result = None
  PROVE  LET new == UpdateStatus(row, "failed", None, "n8n unreachable")
         IN  /\ new \in AnalysisRow
             /\ new.pair = row.pair
             /\ new.result = None
             /\ Presentable(new)
             /\ GivenUp(new)
  BY RepositoryAssumption
  DEF UpdateStatus, Coalesce, AnalysisRow, ANALYSIS_STATUSES, Terminal, Timestamps,
      Presentable, Errors, GivenUp

(* The flush of a terminal update on a row that may have progressed since   *)
(* it was loaded: it stays well formed and presentable, keeps its pair, is  *)
(* terminal and keeps a result it had.                                      *)
LEMMA FlushMerges ==
  ASSUME NEW stored \in AnalysisRow, NEW loaded \in AnalysisRow,
         Presentable(stored), Presentable(loaded),
         loaded.pair = stored.pair,
         loaded.status \in Terminal => stored.status \in Terminal,
         loaded.result # None => stored.result = loaded.result,
         NEW s \in Terminal,
         NEW r, r = None \/ r = stored.pair,
         NEW e, e \in Errors \cup {None}
  PROVE  LET new == Flush(stored, loaded, UpdateStatus(loaded, s, r, e))
         IN  /\ new \in AnalysisRow
             /\ new.pair = stored.pair
             /\ new.status \in Terminal
             /\ new.result \in {None, stored.pair}
             /\ stored.result # None => new.result = stored.result
             /\ Presentable(new)
<1> DEFINE upd == UpdateStatus(loaded, s, r, e)
           new == Flush(stored, loaded, upd)
<1>1. /\ stored.pair \in Pairs
      /\ stored.status \in ANALYSIS_STATUSES /\ loaded.status \in ANALYSIS_STATUSES
      /\ stored.result \in Pairs \cup {None} /\ loaded.result \in Pairs \cup {None}
      /\ stored.error \in Errors \cup {None} /\ loaded.error \in Errors \cup {None}
      /\ stored.started \in Timestamps /\ loaded.started \in Timestamps
      /\ stored.finished \in Timestamps /\ loaded.finished \in Timestamps
  BY DEF AnalysisRow
<1>2. /\ upd.status = s
      /\ upd.result = IF r = None THEN loaded.result ELSE r
      /\ upd.error = IF e = None THEN loaded.error ELSE e
      /\ upd.started = loaded.started
      /\ upd.finished = "set"
  BY DEF UpdateStatus, Coalesce, Terminal
<1>3. /\ new.pair = stored.pair
      /\ new.status = IF upd.status = loaded.status THEN stored.status ELSE upd.status
      /\ new.result = IF upd.result = loaded.result THEN stored.result ELSE upd.result
      /\ new.error = IF upd.error = loaded.error THEN stored.error ELSE upd.error
      /\ new.started = IF upd.started = loaded.started THEN stored.started ELSE upd.started
      /\ new.finished = IF upd.finished = loaded.finished THEN stored.finished
                        ELSE upd.finished
      /\ new = [pair |-> new.pair, status |-> new.status, result |-> new.result,
                error |-> new.error, started |-> new.started, finished |-> new.finished]
  BY DEF Flush
<1>4. new.status \in Terminal /\ new.status \in ANALYSIS_STATUSES
  BY <1>1, <1>2, <1>3 DEF Terminal, ANALYSIS_STATUSES
<1>5. /\ new.result \in {None, stored.pair}
      /\ stored.result # None => new.result = stored.result
  BY <1>2, <1>3 DEF Presentable
<1>6. new.error \in Errors \cup {None}
  BY <1>1, <1>2, <1>3
<1>7. new.started \in Timestamps /\ new.started # None
  BY <1>1, <1>2, <1>3 DEF Presentable
<1>8. new.finished \in Timestamps /\ new.finished # None
  BY <1>1, <1>2, <1>3, RepositoryAssumption DEF Presentable, Timestamps
<1>9. new \in AnalysisRow
  BY <1>1, <1>3, <1>4, <1>5, <1>6, <1>7, <1>8 DEF AnalysisRow
<1>10. Presentable(new)
  BY <1>3, <1>4, <1>5, <1>7, <1>8 DEF Presentable
<1> QED
  BY <1>3, <1>4, <1>5, <1>9, <1>10

-----------------------------------------------------------------------------
(* The initial state satisfies the inductive invariant.                    *)
LEMMA InitIInv == Init => IInv
<1> SUFFICES ASSUME Init PROVE IInv
  OBVIOUS
<1>1. TypeOK
  BY RepositoryAssumption, ServiceAssumption
  DEF Init, TypeOK, Handler, IdleHandler, CallbackHandler, IdleCallback, Job, NoJob
<1>2. OwnerInv /\ OwnersAreDistinct
  BY DEF Init, OwnerInv, OwnersAreDistinct, Owns, IdleHandler
<1>3. RowInv
  BY DEF Init, RowInv, Stored, NoJob
<1>4. CallbackInv
  BY DEF Init, CallbackInv, IdleCallback
<1>5. AckedIsStored
  BY DEF Init, AckedIsStored
<1> QED
  BY <1>1, <1>2, <1>3, <1>4, <1>5 DEF IInv

(* A step that changes one handler, and neither the table, the sequence,   *)
(* the callbacks nor the jobs: it preserves the invariant when the handler *)
(* keeps the id and the pair of a row it owns.                             *)
LEMMA HandlerMoves ==
  ASSUME IInv, NEW h \in Requests, NEW r \in Handler,
         req' = [req EXCEPT ![h] = r],
         UNCHANGED <<analyses, nextId, cb, jobs>>,
         live' \subseteq Resumes, posted' \subseteq JobDescriptions,
         acked' \subseteq Pairs \X Ids, crashes' \in 0 .. MaxCrashes,
         AckedIsStored',
         r.pc # "idle" => r.want \in Pairs,
         r.pc # "extract",
         r.pc \in {"trigger", "awaiting", "commit"} =>
           /\ Owns(h)
           /\ r.id = req[h].id
           /\ r.want = req[h].want
           /\ r.row \in AnalysisRow
           /\ r.row.pair = r.want
           /\ r.row.result = None
           /\ r.row.status # "done"
           /\ Presentable(r.row),
         r.pc = "reply" => /\ r.id \in Stored(analyses)
                           /\ analyses[r.id].pair = r.want
  PROVE  IInv'
<1> USE DEF IInv
<1>1. TypeOK'
  BY DEF TypeOK
<1>2. OwnerInv'
  BY DEF TypeOK, OwnerInv, Owns, Stored
<1>3. OwnersAreDistinct'
  BY DEF TypeOK, OwnersAreDistinct, Owns
<1>4. RowInv'
  BY DEF RowInv, Stored
<1>5. CallbackInv'
  BY DEF CallbackInv, Stored
<1> QED
  BY <1>1, <1>2, <1>3, <1>4, <1>5

(* The type of a handler that changes its pc only.                         *)
LEMMA HandlerFields ==
  ASSUME TypeOK, NEW h \in Requests
  PROVE  /\ req[h] \in Handler
         /\ req[h].want \in Pairs \cup {None}
         /\ req[h].id \in Ids \cup {0}
         /\ req[h].row \in AnalysisRow \cup {None}
         /\ req[h] = [pc |-> req[h].pc, want |-> req[h].want,
                      id |-> req[h].id, row |-> req[h].row]
  BY DEF TypeOK, Handler

(* A request that ends without effect.                                     *)
LEMMA RollbackStep ==
  ASSUME IInv, NEW h \in Requests, Rollback(h),
         UNCHANGED <<live, posted, analyses, nextId, cb, jobs, acked>>,
         crashes' \in 0 .. MaxCrashes
  PROVE  IInv'
<1>1. IdleHandler \in Handler
  BY DEF IdleHandler, Handler
<1>2. TypeOK /\ AckedIsStored'
  BY DEF IInv, AckedIsStored, Stored
<1> QED
  BY <1>1, <1>2, HandlerMoves DEF Rollback, IdleHandler, TypeOK

(* A request that goes from reading to reading.                            *)
LEMMA ReadStep ==
  ASSUME IInv, NEW h \in Requests, UNCHANGED <<Database, cb, jobs, acked>>,
         NEW from \in {"get_resume", "get_jd", "get_existing"},
         NEW to \in {"get_jd", "get_existing", "create"},
         Goto(h, from, to)
  PROVE  IInv'
<1> DEFINE r == [req[h] EXCEPT !.pc = to]
<1>1. TypeOK /\ AckedIsStored'
  BY DEF IInv, AckedIsStored, Stored, Database
<1>2. r \in Handler /\ r.want = req[h].want /\ r.pc = to
  BY <1>1, HandlerFields DEF Handler
<1>3. req' = [req EXCEPT ![h] = r]
  BY DEF Goto
<1>4. req[h].want \in Pairs
  BY DEF IInv, OwnerInv, Goto
<1> HIDE DEF r
<1> QED
  BY <1>1, <1>2, <1>3, <1>4, HandlerMoves DEF TypeOK, Database

(* Receive preserves the invariant.                                        *)
LEMMA ReceiveStep ==
  ASSUME IInv, NEW h \in Requests, NEW p \in Pairs, Receive(h, p)
  PROVE  IInv'
<1> DEFINE r == [pc |-> "get_resume", want |-> p, id |-> 0, row |-> None]
<1>1. TypeOK /\ AckedIsStored'
  BY DEF IInv, AckedIsStored, Stored, Database, Receive
<1>2. r \in Handler /\ r.want \in Pairs /\ r.pc = "get_resume"
  BY DEF Handler
<1>3. req' = [req EXCEPT ![h] = r]
  BY DEF Receive
<1> HIDE DEF r
<1> QED
  BY <1>1, <1>2, <1>3, HandlerMoves DEF TypeOK, Database, Receive

(* CheckExisting preserves the invariant: the id it replies with is stored *)
(* for the requested pair.                                                 *)
LEMMA CheckExistingStep ==
  ASSUME IInv, NEW h \in Requests, CheckExisting(h)
  PROVE  IInv'
<1> DEFINE found == GetExisting(analyses, req[h].want)
<1>1. TypeOK /\ AckedIsStored'
  BY DEF IInv, AckedIsStored, Stored, Database, CheckExisting
<1>2. req[h].want \in Pairs
  BY DEF IInv, OwnerInv, CheckExisting
<1>3. CASE Goto(h, "get_existing", "create")
  BY <1>3, ReadStep DEF CheckExisting
<1>4. CASE Rollback(h)
  BY <1>1, <1>4, RollbackStep DEF CheckExisting, Database, TypeOK
<1>5. ASSUME NEW i \in found,
             req' = [req EXCEPT ![h] = [pc |-> "reply", want |-> req[h].want,
                                        id |-> i, row |-> None]]
      PROVE  IInv'
  <2> DEFINE r == [pc |-> "reply", want |-> req[h].want, id |-> i, row |-> None]
  <2>1. i \in Stored(analyses) /\ analyses[i].pair = req[h].want /\ i \in Ids
    BY <1>5 DEF GetExisting, Stored
  <2>2. r \in Handler /\ r.want = req[h].want /\ r.pc = "reply" /\ r.id = i
    BY <1>2, <2>1 DEF Handler
  <2>3. req' = [req EXCEPT ![h] = r]
    BY <1>5
  <2> HIDE DEF r
  <2> QED
    BY <1>1, <1>2, <2>1, <2>2, <2>3, HandlerMoves DEF CheckExisting, Database, TypeOK
<1> QED
  BY <1>3, <1>4, <1>5 DEF CheckExisting

(* A handler that owns a row and goes on with an updated version of it.    *)
LEMMA OwnerStep ==
  ASSUME IInv, NEW h \in Requests, Owns(h),
         NEW to \in {"trigger", "awaiting", "commit"},
         NEW row \in AnalysisRow,
         row.pair = req[h].want, row.result = None, row.status # "done", Presentable(row),
         req' = [req EXCEPT ![h] = [pc |-> to, want |-> req[h].want,
                                    id |-> req[h].id, row |-> row]],
         UNCHANGED <<Database, cb, jobs, acked>>
  PROVE  IInv'
<1> DEFINE r == [pc |-> to, want |-> req[h].want, id |-> req[h].id, row |-> row]
<1>1. TypeOK /\ AckedIsStored'
  BY DEF IInv, AckedIsStored, Stored, Database
<1>2. req[h].id \in Ids /\ req[h].want \in Pairs
  BY DEF IInv, OwnerInv, Owns
<1>3. /\ r \in Handler /\ r.pc = to /\ r.want = req[h].want
      /\ r.id = req[h].id /\ r.row = row
  BY <1>2 DEF Handler
<1>4. req' = [req EXCEPT ![h] = r]
  OBVIOUS
<1> HIDE DEF r
<1> QED
  BY <1>1, <1>2, <1>3, <1>4, HandlerMoves DEF TypeOK, Database

(* MarkProcessing preserves the invariant.                                 *)
LEMMA MarkProcessingStep ==
  ASSUME IInv, NEW h \in Requests, MarkProcessing(h)
  PROVE  IInv'
<1> DEFINE row == UpdateStatus(req[h].row, "processing", None, None)
<1>1. Owns(h) /\ req[h].want \in Pairs /\ req[h].row = NewRow(req[h].want)
  BY DEF IInv, OwnerInv, Owns, MarkProcessing
<1>2. /\ row \in AnalysisRow /\ row.pair = req[h].want /\ row.result = None
      /\ row.status # "done" /\ Presentable(row)
  BY <1>1, ProcessingRow
<1>3. /\ req' = [req EXCEPT ![h] = [pc |-> "trigger", want |-> req[h].want,
                                    id |-> req[h].id, row |-> row]]
      /\ UNCHANGED <<Database, cb, jobs, acked>>
  BY DEF MarkProcessing
<1> HIDE DEF row
<1> QED
  BY <1>1, <1>2, <1>3, OwnerStep

(* The except branch around trigger_analysis preserves the invariant.      *)
LEMMA TriggerFailedStep ==
  ASSUME IInv, NEW h \in Requests, req[h].pc \in {"trigger", "awaiting"},
         TriggerFailed(h), UNCHANGED <<Database, cb, jobs, acked>>
  PROVE  IInv'
<1> DEFINE row == UpdateStatus(req[h].row, "failed", None, "n8n unreachable")
<1>1. /\ Owns(h) /\ req[h].row \in AnalysisRow /\ req[h].row.pair = req[h].want
      /\ req[h].row.result = None /\ Presentable(req[h].row)
  BY DEF IInv, OwnerInv, Owns
<1>2. /\ row \in AnalysisRow /\ row.pair = req[h].want /\ row.result = None
      /\ row.status # "done" /\ Presentable(row)
  BY <1>1, FailedRow DEF GivenUp
<1>3. req' = [req EXCEPT ![h] = [pc |-> "commit", want |-> req[h].want,
                                 id |-> req[h].id, row |-> row]]
  BY DEF TriggerFailed
<1> HIDE DEF row
<1> QED
  BY <1>1, <1>2, <1>3, OwnerStep

(* WebhookAnswered preserves the invariant.                                *)
LEMMA WebhookAnsweredStep ==
  ASSUME IInv, NEW h \in Requests, WebhookAnswered(h)
  PROVE  IInv'
<1> DEFINE r == [req[h] EXCEPT !.pc = "commit"]
<1>1. /\ Owns(h) /\ req[h].row \in AnalysisRow /\ req[h].row.pair = req[h].want
      /\ req[h].row.result = None /\ Presentable(req[h].row) /\ req[h].want \in Pairs
      /\ req[h].row.status # "done"
  BY DEF IInv, OwnerInv, Owns, WebhookAnswered, Goto
<1>2. TypeOK /\ AckedIsStored'
  BY DEF IInv, AckedIsStored, Stored, Database, WebhookAnswered
<1>3. /\ r \in Handler /\ r.pc = "commit" /\ r.want = req[h].want
      /\ r.id = req[h].id /\ r.row = req[h].row
  BY <1>2, HandlerFields DEF Handler
<1>4. req' = [req EXCEPT ![h] = r] /\ UNCHANGED <<Database, cb, jobs, acked>>
  BY DEF WebhookAnswered, Goto
<1> HIDE DEF r
<1> QED
  BY <1>1, <1>2, <1>3, <1>4, HandlerMoves DEF TypeOK, Database

(* Reply preserves the invariant: what it acknowledges is stored.          *)
LEMMA ReplyStep ==
  ASSUME IInv, NEW h \in Requests, Reply(h)
  PROVE  IInv'
<1>1. /\ TypeOK
      /\ req[h].want \in Pairs
      /\ req[h].id \in Stored(analyses) /\ analyses[req[h].id].pair = req[h].want
  BY DEF IInv, OwnerInv, Reply
<1>2. AckedIsStored' /\ acked' \subseteq Pairs \X Ids
  BY <1>1 DEF IInv, AckedIsStored, Reply, Database, Stored, TypeOK
<1>3. IdleHandler \in Handler /\ IdleHandler.pc = "idle"
  BY DEF IdleHandler, Handler
<1>4. /\ req' = [req EXCEPT ![h] = IdleHandler]
      /\ UNCHANGED <<Database, cb, jobs>>
  BY DEF Reply
<1> QED
  BY <1>1, <1>2, <1>3, <1>4, HandlerMoves DEF TypeOK, Database

-----------------------------------------------------------------------------
(* Create preserves the invariant: the id it draws belongs to nobody, not  *)
(* to a row, a job or another handler, even after rollbacks.               *)
LEMMA CreateStep ==
  ASSUME IInv, NEW h \in Requests, Create(h)
  PROVE  IInv'
<1> DEFINE r == [pc |-> "extract", want |-> req[h].want, id |-> nextId,
                 row |-> NewRow(req[h].want)]
<1>1. TypeOK /\ req[h].want \in Pairs
  BY DEF IInv, OwnerInv, Create
<1>2. nextId \in Ids /\ nextId' \in 1 .. MaxId + 1 /\ nextId' = nextId + 1
  BY <1>1, RepositoryAssumption DEF TypeOK, Create, Ids
<1>3. /\ NewRow(req[h].want) \in AnalysisRow
      /\ NewRow(req[h].want).pair = req[h].want
      /\ NewRow(req[h].want).result = None
      /\ NewRow(req[h].want).status # "done"
  BY <1>1, NewRowType
<1>4. r \in Handler
  BY <1>1, <1>2, <1>3 DEF Handler
<1>5. /\ r.pc = "extract" /\ r.want = req[h].want /\ r.id = nextId
      /\ r.row = NewRow(req[h].want)
  OBVIOUS
<1>6. /\ req' = [req EXCEPT ![h] = r]
      /\ UNCHANGED <<live, posted, analyses, cb, jobs, acked, crashes>>
  BY DEF Create
<1>7. analyses[nextId] = None /\ jobs[nextId].state = "none"
  BY <1>2, RepositoryAssumption DEF IInv, RowInv, Stored, Ids
<1> HIDE DEF r
<1>8. TypeOK'
  BY <1>1, <1>2, <1>4, <1>6 DEF TypeOK
<1>9. OwnerInv'
  <2> SUFFICES ASSUME NEW g \in Requests PROVE OwnerInv!(g)'
    BY DEF OwnerInv
  <2>1. CASE g = h
    BY <1>1, <1>2, <1>3, <1>5, <1>6, <1>7, <2>1, RepositoryAssumption
    DEF TypeOK, Owns, Ids
  <2>2. CASE g # h
    BY <1>1, <1>2, <1>6, <2>2, RepositoryAssumption
    DEF TypeOK, IInv, OwnerInv, Owns, Ids, Stored
  <2> QED
    BY <2>1, <2>2
<1>10. OwnersAreDistinct'
  BY <1>1, <1>2, <1>5, <1>6, RepositoryAssumption
  DEF IInv, OwnerInv, OwnersAreDistinct, Owns, TypeOK, Ids
<1>11. RowInv'
  BY <1>2, <1>6, RepositoryAssumption DEF IInv, RowInv, Stored, Ids
<1>12. CallbackInv' /\ AckedIsStored'
  BY <1>6 DEF IInv, CallbackInv, AckedIsStored, Stored
<1> QED
  BY <1>8, <1>9, <1>10, <1>11, <1>12 DEF IInv

(* WebhookAccepted preserves the invariant: the new job is about the pair  *)
(* of the row its id will name.                                            *)
LEMMA WebhookAcceptedStep ==
  ASSUME IInv, NEW h \in Requests, WebhookAccepted(h)
  PROVE  IInv'
<1> DEFINE r == [req[h] EXCEPT !.pc = "awaiting"]
           j == [state |-> "running", pair |-> req[h].want, outcomes |-> {}]
<1>1. /\ TypeOK
      /\ req[h].pc = "trigger" /\ Owns(h)
      /\ req[h].want \in Pairs
      /\ req[h].id \in Ids /\ req[h].id < nextId
      /\ analyses[req[h].id] = None
  BY DEF IInv, OwnerInv, Owns, WebhookAccepted, Goto
<1>2. /\ req' = [req EXCEPT ![h] = r]
      /\ jobs' = [jobs EXCEPT ![req[h].id] = j]
      /\ UNCHANGED <<live, posted, analyses, nextId, cb, acked, crashes>>
  BY DEF WebhookAccepted, Goto, Database
<1>3. /\ r \in Handler /\ r.pc = "awaiting" /\ r.want = req[h].want
      /\ r.id = req[h].id /\ r.row = req[h].row
  BY <1>1, HandlerFields DEF Handler
<1>4. j \in Job /\ j.state # "none" /\ j.pair = req[h].want
  BY <1>1 DEF Job
<1> HIDE DEF r, j
<1>5. TypeOK'
  BY <1>1, <1>2, <1>3, <1>4 DEF TypeOK
<1>6. OwnerInv'
  <2> SUFFICES ASSUME NEW g \in Requests PROVE OwnerInv!(g)'
    BY DEF OwnerInv
  <2>1. CASE g = h
    BY <1>1, <1>2, <1>3, <1>4, <2>1 DEF TypeOK, IInv, OwnerInv, Owns
  <2>2. CASE g # h
    BY <1>1, <1>2, <2>2 DEF TypeOK, IInv, OwnerInv, OwnersAreDistinct, Owns, Stored
  <2> QED
    BY <2>1, <2>2
<1>7. OwnersAreDistinct'
  BY <1>1, <1>2, <1>3 DEF IInv, OwnersAreDistinct, Owns, TypeOK
<1>8. RowInv'
  BY <1>1, <1>2 DEF IInv, RowInv, Stored, TypeOK
<1>9. CallbackInv' /\ AckedIsStored'
  BY <1>1, <1>2, <1>4 DEF IInv, CallbackInv, AckedIsStored, Stored, TypeOK
<1> QED
  BY <1>5, <1>6, <1>7, <1>8, <1>9 DEF IInv

(* Commit preserves the invariant: the row appears under an id that is in  *)
(* nobody else's hands.                                                    *)
LEMMA CommitStep ==
  ASSUME IInv, NEW h \in Requests, Commit(h)
  PROVE  IInv'
<1> DEFINE r == [req[h] EXCEPT !.pc = "reply"]
           n == req[h].id
<1>1. /\ TypeOK
      /\ req[h].pc = "commit" /\ Owns(h)
      /\ req[h].want \in Pairs
      /\ n \in Ids /\ n < nextId
      /\ analyses[n] = None
      /\ req[h].row \in AnalysisRow
      /\ req[h].row.pair = req[h].want
      /\ Presentable(req[h].row)
      /\ jobs[n].state # "none" => jobs[n].pair = req[h].want
  BY DEF IInv, OwnerInv, Owns, Commit, Goto
<1>2. /\ req' = [req EXCEPT ![h] = r]
      /\ analyses' = [analyses EXCEPT ![n] = req[h].row]
      /\ UNCHANGED <<live, posted, nextId, cb, jobs, acked, crashes>>
  BY DEF Commit, Goto
<1>3. /\ r \in Handler /\ r.pc = "reply" /\ r.want = req[h].want /\ r.id = n
  BY <1>1, HandlerFields DEF Handler
<1>4. req[h].row # None
  BY <1>1, RepositoryAssumption
<1> HIDE DEF r
<1>5. TypeOK'
  BY <1>1, <1>2, <1>3 DEF TypeOK
<1>6. /\ n \in Stored(analyses') /\ analyses'[n] = req[h].row
      /\ \A i \in Ids : i # n => analyses'[i] = analyses[i]
      /\ \A i \in Stored(analyses) : i # n
  BY <1>1, <1>2, <1>4 DEF Stored, TypeOK
<1>7. OwnerInv'
  <2> SUFFICES ASSUME NEW g \in Requests PROVE OwnerInv!(g)'
    BY DEF OwnerInv
  <2>1. CASE g = h
    BY <1>1, <1>2, <1>3, <1>6, <2>1 DEF TypeOK, Owns, Stored
  <2>2. CASE g # h
    <3>1. req'[g] = req[g]
      BY <1>1, <1>2, <2>2 DEF TypeOK
    <3>2. Owns(g) => req[g].id # n
      BY <1>1, <2>2 DEF IInv, OwnersAreDistinct
    <3> QED
      BY <1>2, <1>6, <3>1, <3>2 DEF IInv, OwnerInv, Owns, Stored
  <2> QED
    BY <2>1, <2>2
<1>8. OwnersAreDistinct'
  BY <1>1, <1>2, <1>3 DEF IInv, OwnersAreDistinct, Owns, TypeOK
<1>9. RowInv'
  BY <1>1, <1>2, <1>6 DEF IInv, RowInv, Stored
<1>10. CallbackInv'
  BY <1>2, <1>6 DEF IInv, CallbackInv, Stored
<1>11. AckedIsStored'
  BY <1>2, <1>6 DEF IInv, AckedIsStored, Stored
<1> QED
  BY <1>5, <1>7, <1>8, <1>9, <1>10, <1>11 DEF IInv

-----------------------------------------------------------------------------
(* A change of one job that keeps its pair, with the callbacks' changes     *)
(* covered separately.                                                      *)
LEMMA JobMoves ==
  ASSUME IInv, NEW i \in Ids, NEW j \in Job,
         jobs' = [jobs EXCEPT ![i] = j],
         jobs[i].state # "none", j.state # "none", j.pair = jobs[i].pair,
         UNCHANGED <<live, posted, analyses, nextId, req, acked>>,
         crashes' \in 0 .. MaxCrashes,
         cb' \in [Callbacks -> CallbackHandler],
         \A c \in Callbacks : cb'[c] # cb[c] => (CallbackInv!(c))'
  PROVE  IInv'
<1>1. TypeOK
  BY DEF IInv
<1>2. \A k \in Ids : /\ jobs'[k].state # "none" <=> jobs[k].state # "none"
                     /\ jobs'[k].pair = jobs[k].pair
  BY <1>1 DEF TypeOK
<1>3. TypeOK'
  BY <1>1 DEF TypeOK
<1>4. OwnerInv'
  BY <1>2 DEF IInv, OwnerInv, Owns, Stored
<1>5. OwnersAreDistinct'
  BY DEF IInv, OwnersAreDistinct, Owns
<1>6. RowInv'
  BY <1>2 DEF IInv, RowInv, Stored
<1>7. CallbackInv'
  <2> SUFFICES ASSUME NEW c \in Callbacks PROVE (CallbackInv!(c))'
    BY DEF CallbackInv
  <2>1. CASE cb'[c] # cb[c]
    BY <2>1
  <2>2. CASE cb'[c] = cb[c]
    BY <1>1, <1>2, <2>2 DEF IInv, CallbackInv, Stored
  <2> QED
    BY <2>1, <2>2
<1>8. AckedIsStored'
  BY DEF IInv, AckedIsStored, Stored
<1> QED
  BY <1>3, <1>4, <1>5, <1>6, <1>7, <1>8 DEF IInv

(* WorkflowEnds preserves the invariant.                                   *)
LEMMA WorkflowEndsStep ==
  ASSUME IInv, NEW i \in Ids, NEW o \in OutcomeSets, WorkflowEnds(i, o)
  PROVE  IInv'
<1> DEFINE j == [state |-> "calling", pair |-> jobs[i].pair, outcomes |-> o]
<1>1. TypeOK
  BY DEF IInv
<1>2. j \in Job
  BY <1>1, ServiceAssumption DEF TypeOK, Job
<1> QED
  BY <1>1, <1>2, JobMoves DEF WorkflowEnds, Database, TypeOK

(* A POST that is not answered 200 is posted again, or the job is over.    *)
LEMMA UnansweredJob ==
  ASSUME TypeOK, NEW i \in Ids, jobs[i].state # "none"
  PROVE  \E j \in Job : /\ Unanswered(i) = [jobs EXCEPT ![i] = j]
                        /\ j.state # "none" /\ j.pair = jobs[i].pair
<1> DEFINE j == IF MayRetry THEN jobs[i] ELSE [jobs[i] EXCEPT !.state = "lost"]
<1>1. Unanswered(i) = [jobs EXCEPT ![i] = j]
  BY DEF Unanswered, TypeOK
<1>2. j \in Job /\ j.state # "none" /\ j.pair = jobs[i].pair
  BY DEF TypeOK, Job
<1> HIDE DEF j
<1> QED
  BY <1>1, <1>2

(* ReportLost preserves the invariant.                                     *)
LEMMA ReportLostStep ==
  ASSUME IInv, NEW i \in Ids, ReportLost(i)
  PROVE  IInv'
<1> DEFINE j == [jobs[i] EXCEPT !.state = "lost"]
<1>1. TypeOK /\ jobs[i].state # "none" /\ jobs' = [jobs EXCEPT ![i] = j]
  BY DEF IInv, ReportLost
<1>2. j \in Job /\ j.state # "none" /\ j.pair = jobs[i].pair
  BY <1>1 DEF TypeOK, Job
<1>3. UNCHANGED <<live, posted, analyses, nextId, req, acked, crashes, cb>>
  BY DEF ReportLost, Database
<1> HIDE DEF j
<1> QED
  BY <1>1, <1>2, <1>3, JobMoves DEF TypeOK

(* CallbackLoads preserves the invariant: it starts from the stored row.   *)
LEMMA CallbackLoadsStep ==
  ASSUME IInv, NEW c \in Callbacks, NEW i \in Ids, CallbackLoads(c, i)
  PROVE  IInv'
<1>1. TypeOK /\ jobs[i].state # "none"
  BY DEF IInv, CallbackLoads
<1>2. PICK j \in Job : /\ jobs' = [jobs EXCEPT ![i] = j]
                       /\ j.state # "none" /\ j.pair = jobs[i].pair
  <2>1. CASE i \notin Stored(analyses)
    BY <1>1, <2>1, UnansweredJob DEF CallbackLoads
  <2>2. CASE i \in Stored(analyses)
    <3> DEFINE j == IF MayRetry THEN jobs[i] ELSE [jobs[i] EXCEPT !.state = "closed"]
    <3>1. jobs' = [jobs EXCEPT ![i] = j]
      BY <1>1, <2>2 DEF CallbackLoads, TypeOK
    <3>2. j \in Job /\ j.state # "none" /\ j.pair = jobs[i].pair
      BY <1>1 DEF TypeOK, Job
    <3> HIDE DEF j
    <3> QED
      BY <3>1, <3>2
  <2> QED
    BY <2>1, <2>2
<1>3. UNCHANGED <<live, posted, analyses, nextId, req, acked, crashes>>
  BY DEF CallbackLoads, Database
<1>4. CASE i \in Stored(analyses)
  <2>1. PICK p \in jobs[i].outcomes :
          cb' = [cb EXCEPT ![c] = [id |-> i, payload |-> p, loaded |-> analyses[i]]]
    BY <1>4 DEF CallbackLoads
  <2>2. p \in Payload /\ analyses[i] \in AnalysisRow
    BY <1>1, <1>4 DEF TypeOK, Job, Stored
  <2>3. cb' \in [Callbacks -> CallbackHandler]
    BY <1>1, <2>1, <2>2 DEF TypeOK, CallbackHandler
  <2>4. Presentable(analyses[i])
    BY <1>4 DEF IInv, RowInv
  <2>5. \A d \in Callbacks : cb'[d] # cb[d] => (CallbackInv!(d))'
    BY <1>1, <1>2, <1>3, <1>4, <2>1, <2>2, <2>4 DEF TypeOK, Stored
  <2> QED
    BY <1>1, <1>2, <1>3, <2>3, <2>5, JobMoves DEF TypeOK
<1>5. CASE i \notin Stored(analyses)
  <2>1. cb' = cb
    BY <1>5 DEF CallbackLoads
  <2> QED
    BY <1>1, <1>2, <1>3, <2>1, JobMoves DEF TypeOK
<1> QED
  BY <1>4, <1>5

(* What CallbackCommits does to the row, for the invariant, the action      *)
(* property and the refinement alike.                                       *)
LEMMA CallbackWrites ==
  ASSUME IInv, NEW c \in Callbacks, CallbackCommits(c)
  PROVE  LET i == cb[c].id IN
         /\ i \in Stored(analyses) /\ i \in Ids
         /\ analyses'[i] \in AnalysisRow
         /\ analyses' = [analyses EXCEPT ![i] = analyses'[i]]
         /\ analyses'[i].pair = analyses[i].pair
         /\ analyses'[i].status \in Terminal
         /\ analyses'[i].result \in {None, analyses[i].pair}
         /\ analyses[i].result # None => analyses'[i].result = analyses[i].result
         /\ Presentable(analyses'[i])
<1> DEFINE i == cb[c].id
           s == cb[c].payload.status
           r == ReportedResult(c)
           e == ReportedError(c)
           stored == analyses[i]
           loaded == cb[c].loaded
           new == Flush(stored, loaded, UpdateStatus(loaded, s, r, e))
<1>1. /\ TypeOK /\ i # 0
      /\ analyses' = [analyses EXCEPT ![i] = new]
  BY DEF IInv, CallbackCommits
<1>2. /\ i \in Stored(analyses) /\ i \in Ids
      /\ stored \in AnalysisRow
      /\ cb[c].payload \in Payload
      /\ loaded \in AnalysisRow
      /\ Presentable(loaded)
      /\ loaded.pair = stored.pair
      /\ loaded.status \in Terminal => stored.status \in Terminal
      /\ loaded.result # None => stored.result = loaded.result
      /\ jobs[i].state # "none"
  BY <1>1 DEF IInv, CallbackInv, TypeOK, Stored
<1>3. Presentable(stored) /\ jobs[i].pair = stored.pair
  BY <1>2 DEF IInv, RowInv
<1>4. s \in Terminal
  BY <1>2 DEF Payload
<1>5. r \in {None, stored.pair}
  BY <1>3 DEF ReportedResult
<1>6. e \in Errors \cup {None}
  BY DEF ReportedError, Errors
<1>7. /\ new \in AnalysisRow
      /\ new.pair = stored.pair
      /\ new.status \in Terminal
      /\ new.result \in {None, stored.pair}
      /\ stored.result # None => new.result = stored.result
      /\ Presentable(new)
  <2> HIDE DEF i, s, r, e, stored, loaded
  <2> QED
    BY <1>2, <1>3, <1>4, <1>5, <1>6, FlushMerges
<1> HIDE DEF new
<1>8. analyses'[i] = new
  BY <1>1, <1>2 DEF TypeOK
<1> QED
  BY <1>1, <1>2, <1>7, <1>8

(* CallbackCommits preserves the invariant: a callback that loaded an older *)
(* version of the row does not undo what was written since.                 *)
LEMMA CallbackCommitsStep ==
  ASSUME IInv, NEW c \in Callbacks, CallbackCommits(c)
  PROVE  IInv'
<1> DEFINE i == cb[c].id
<1>1. /\ TypeOK /\ i \in Ids /\ i \in Stored(analyses)
      /\ analyses'[i] \in AnalysisRow
      /\ analyses' = [analyses EXCEPT ![i] = analyses'[i]]
      /\ analyses'[i].pair = analyses[i].pair
      /\ analyses'[i].status \in Terminal
      /\ analyses[i].result # None => analyses'[i].result = analyses[i].result
      /\ Presentable(analyses'[i])
  BY CallbackWrites DEF IInv
<1>2. /\ jobs' \in {jobs, [jobs EXCEPT ![i].state = "closed"]}
      /\ cb' = [cb EXCEPT ![c] = IdleCallback]
      /\ UNCHANGED <<live, posted, nextId, req, acked, crashes>>
  BY DEF CallbackCommits
<1>3. jobs[i].state # "none"
  BY DEF IInv, CallbackInv, CallbackCommits
<1>4. /\ jobs' \in [Ids -> Job]
      /\ \A k \in Ids : /\ jobs'[k].state # "none" <=> jobs[k].state # "none"
                        /\ jobs'[k].pair = jobs[k].pair
  <2>1. CASE jobs' = jobs
    BY <1>1, <2>1 DEF TypeOK
  <2>2. CASE jobs' = [jobs EXCEPT ![i].state = "closed"]
    <3> DEFINE j == [jobs[i] EXCEPT !.state = "closed"]
    <3>1. jobs' = [jobs EXCEPT ![i] = j]
      BY <2>2
    <3>2. j \in Job /\ j.state # "none" /\ j.pair = jobs[i].pair
      BY <1>1 DEF TypeOK, Job
    <3> HIDE DEF j
    <3> QED
      BY <1>1, <1>3, <3>1, <3>2 DEF TypeOK
  <2> QED
    BY <1>2, <2>1, <2>2
<1>5. /\ analyses'[i] # None /\ analyses[i] # None
      /\ \A k \in Ids : k # i => analyses'[k] = analyses[k]
      /\ Stored(analyses') = Stored(analyses)
  <2>1. analyses'[i] # None /\ analyses[i] # None
    BY <1>1, RepositoryAssumption DEF Stored
  <2>2. \A k \in Ids : k # i => analyses'[k] = analyses[k]
    BY <1>1 DEF TypeOK
  <2> QED
    BY <2>1, <2>2 DEF Stored
<1>6. TypeOK'
  BY <1>1, <1>2, <1>4 DEF TypeOK, CallbackHandler, IdleCallback
<1>7. OwnerInv'
  <2> SUFFICES ASSUME NEW g \in Requests PROVE OwnerInv!(g)'
    BY DEF OwnerInv
  <2>1. OwnerInv!(g)
    BY DEF IInv, OwnerInv
  <2>2. Owns(g) => req[g].id \in Ids /\ req[g].id # i
    BY <1>5, <2>1
  <2> QED
    BY <1>1, <1>2, <1>4, <1>5, <2>1, <2>2 DEF Owns, Stored
<1>8. OwnersAreDistinct'
  BY <1>2 DEF IInv, OwnersAreDistinct, Owns
<1>9. RowInv'
  BY <1>1, <1>2, <1>4, <1>5 DEF IInv, RowInv, Stored
<1>10. CallbackInv'
  <2> SUFFICES ASSUME NEW d \in Callbacks PROVE (CallbackInv!(d))'
    BY DEF CallbackInv
  <2>1. CASE d = c
    BY <1>1, <1>2, <2>1 DEF TypeOK, IdleCallback
  <2>2. CASE d # c
    <3>1. cb'[d] = cb[d]
      BY <1>1, <1>2, <2>2 DEF TypeOK
    <3> QED
      BY <1>1, <1>4, <1>5, <3>1 DEF IInv, CallbackInv, Stored, TypeOK
  <2> QED
    BY <2>1, <2>2
<1>11. AckedIsStored'
  BY <1>1, <1>2, <1>5 DEF IInv, AckedIsStored, Stored, TypeOK
<1> QED
  BY <1>6, <1>7, <1>8, <1>9, <1>10, <1>11 DEF IInv

(* CrashCallback preserves the invariant.                                  *)
LEMMA CrashCallbackStep ==
  ASSUME IInv, NEW c \in Callbacks, CrashCallback(c)
  PROVE  IInv'
<1> DEFINE i == cb[c].id
<1>1. /\ TypeOK /\ cb' = [cb EXCEPT ![c] = IdleCallback]
      /\ i \in Ids /\ jobs[i].state # "none"
  BY DEF IInv, CallbackInv, Stored, CrashCallback
<1>2. PICK j \in Job : /\ jobs' = [jobs EXCEPT ![i] = j]
                       /\ j.state # "none" /\ j.pair = jobs[i].pair
  BY <1>1, UnansweredJob DEF CrashCallback
<1>3. UNCHANGED <<live, posted, analyses, nextId, req, acked>>
  BY DEF CrashCallback
<1>4. crashes' \in 0 .. MaxCrashes
  BY <1>1, ServiceAssumption DEF TypeOK, CrashCallback
<1>5. /\ cb' \in [Callbacks -> CallbackHandler]
      /\ \A d \in Callbacks : cb'[d] # cb[d] => (CallbackInv!(d))'
  BY <1>1 DEF TypeOK, CallbackHandler, IdleCallback
<1> HIDE DEF i
<1> QED
  BY <1>1, <1>2, <1>3, <1>4, <1>5, JobMoves

(* The steps of the rest of the API, and stuttering, preserve it.          *)
LEMMA OtherStep ==
  ASSUME IInv, live' \subseteq Resumes, posted' \subseteq JobDescriptions,
         UNCHANGED <<analyses, nextId, req, cb, jobs, acked, crashes>>
  PROVE  IInv'
  BY DEF IInv, TypeOK, OwnerInv, OwnersAreDistinct, Owns, RowInv, CallbackInv,
         AckedIsStored, Stored

(* Every step of a request preserves the invariant.                        *)
LEMMA HandlerStepIInv ==
  ASSUME IInv, NEW h \in Requests, HandlerStep(h)
  PROVE  IInv'
<1>0. crashes \in 0 .. MaxCrashes
  BY DEF IInv, TypeOK
<1>1. CASE GetResume(h)
  <2>1. CASE Goto(h, "get_resume", "get_jd")
    BY <1>1, <2>1, ReadStep DEF GetResume
  <2>2. CASE Rollback(h)
    BY <1>0, <1>1, <2>2, RollbackStep DEF GetResume, Database
  <2> QED
    BY <1>1, <2>1, <2>2 DEF GetResume
<1>2. CASE GetJobDescription(h)
  <2>1. CASE Goto(h, "get_jd", "get_existing")
    BY <1>2, <2>1, ReadStep DEF GetJobDescription
  <2>2. CASE Rollback(h)
    BY <1>0, <1>2, <2>2, RollbackStep DEF GetJobDescription, Database
  <2> QED
    BY <1>2, <2>1, <2>2 DEF GetJobDescription
<1>3. CASE CheckExisting(h)
  BY <1>3, CheckExistingStep
<1>4. CASE Create(h)
  BY <1>4, CreateStep
<1>5. CASE CreateExhausted(h)
  BY <1>0, <1>5, RollbackStep DEF CreateExhausted, Database
<1>6. CASE ExtractFails(h)
  BY <1>0, <1>6, RollbackStep DEF ExtractFails, Database
<1>7. CASE MarkProcessing(h)
  BY <1>7, MarkProcessingStep
<1>8. CASE WebhookAccepted(h)
  BY <1>8, WebhookAcceptedStep
<1>9. CASE WebhookRefused(h)
  BY <1>9, TriggerFailedStep DEF WebhookRefused
<1>10. CASE WebhookAnswered(h)
  BY <1>10, WebhookAnsweredStep
<1>11. CASE WebhookTimedOut(h)
  BY <1>11, TriggerFailedStep DEF WebhookTimedOut
<1>12. CASE Commit(h)
  BY <1>12, CommitStep
<1>13. CASE Reply(h)
  BY <1>13, ReplyStep
<1> QED
  BY <1>1, <1>2, <1>3, <1>4, <1>5, <1>6, <1>7, <1>8, <1>9, <1>10, <1>11, <1>12, <1>13
  DEF HandlerStep

(* IInv is inductive.                                                      *)
LEMMA NextIInv == IInv /\ [Next]_vars => IInv'
<1> SUFFICES ASSUME IInv, [Next]_vars PROVE IInv'
  OBVIOUS
<1>1. ASSUME NEW r \in Resumes, DeleteResume(r) PROVE IInv'
  BY <1>1, OtherStep DEF DeleteResume, IInv, TypeOK
<1>2. ASSUME NEW j \in JobDescriptions, CreateJobDescription(j) PROVE IInv'
  BY <1>2, OtherStep DEF CreateJobDescription, IInv, TypeOK
<1>3. ASSUME NEW h \in Requests, NEW p \in Pairs, Receive(h, p) PROVE IInv'
  BY <1>3, ReceiveStep
<1>4. ASSUME NEW h \in Requests, HandlerStep(h) PROVE IInv'
  BY <1>4, HandlerStepIInv
<1>5. ASSUME NEW h \in Requests, CrashRequest(h) PROVE IInv'
  <2>1. crashes' \in 0 .. MaxCrashes
    BY <1>5, ServiceAssumption DEF CrashRequest, IInv, TypeOK
  <2> QED
    BY <1>5, <2>1, RollbackStep DEF CrashRequest
<1>6. ASSUME NEW i \in Ids, JobStep(i) PROVE IInv'
  BY <1>6, WorkflowEndsStep, CallbackLoadsStep, ReportLostStep DEF JobStep
<1>7. ASSUME NEW c \in Callbacks, CallbackCommits(c) PROVE IInv'
  BY <1>7, CallbackCommitsStep
<1>8. ASSUME NEW c \in Callbacks, CrashCallback(c) PROVE IInv'
  BY <1>8, CrashCallbackStep
<1>9. CASE UNCHANGED vars
  BY <1>9, OtherStep DEF vars, IInv, TypeOK
<1> QED
  BY <1>1, <1>2, <1>3, <1>4, <1>5, <1>6, <1>7, <1>8, <1>9 DEF Next

-----------------------------------------------------------------------------
(* Safety.                                                                 *)

(* IInv holds in every reachable state.                                    *)
THEOREM SpecIInv == Spec => []IInv
  BY InitIInv, NextIInv, PTL DEF Spec

(* Every variable keeps its type: rows, handlers, callbacks and jobs.      *)
THEOREM TypeCorrect == Spec => []TypeOK
<1>1. IInv => TypeOK
  BY DEF IInv
<1> QED
  BY <1>1, SpecIInv, PTL

(* No callback ever stores the result of one pair on the row of another,   *)
(* whatever requests crashed or were rolled back while their job ran on.   *)
THEOREM ResultsStayWithTheirPair == Spec => []ResultBelongsToPair
<1>1. IInv => ResultBelongsToPair
  BY DEF IInv, RowInv, ResultBelongsToPair, Presentable, Stored
<1> QED
  BY <1>1, SpecIInv, PTL

(* GET never shows a queued or half-updated row.                           *)
THEOREM RowsAreCoherent == Spec => []VisibleRowsAreCoherent
<1>1. IInv => VisibleRowsAreCoherent
  BY DEF IInv, RowInv, VisibleRowsAreCoherent, Presentable, Stored
<1> QED
  BY <1>1, SpecIInv, PTL

(* What a 201 response named stays stored for the pair asked for.          *)
THEOREM AcknowledgedIsDurable == Spec => []AckedIsStored
<1>1. IInv => AckedIsStored
  BY DEF IInv
<1> QED
  BY <1>1, SpecIInv, PTL

-----------------------------------------------------------------------------
(* Action properties and the refinement.                                   *)

(* Only the commit of a request and that of a callback change the table.   *)
LEMMA TableSteps ==
  ASSUME [Next]_vars
  PROVE  \/ UNCHANGED analyses
         \/ \E h \in Requests : Commit(h)
         \/ \E c \in Callbacks : CallbackCommits(c)
  BY DEF Next, vars, HandlerStep, Database, DeleteResume, CreateJobDescription, Receive,
         GetResume, GetJobDescription, CheckExisting, Create, CreateExhausted,
         ExtractFails, MarkProcessing, WebhookAccepted, WebhookRefused, WebhookAnswered,
         WebhookTimedOut, Reply, CrashRequest, JobStep, WorkflowEnds, CallbackLoads,
         ReportLost, CrashCallback

(* What Commit does to the table and to the responses.                     *)
LEMMA CommitWrites ==
  ASSUME IInv, NEW h \in Requests, Commit(h)
  PROVE  LET n == req[h].id IN
         /\ n \in Ids /\ analyses[n] = None
         /\ analyses' = [analyses EXCEPT ![n] = req[h].row]
         /\ req[h].row \in AnalysisRow
         /\ req[h].row.status \in {"processing", "failed"}
         /\ req[h].row.result = None
         /\ req[h].row.pair \in Pairs
         /\ UNCHANGED acked
  BY DEF IInv, OwnerInv, Owns, Commit, Goto, Presentable, Terminal

(* No step undoes what a client saw of a row: it stays, with its pair, its *)
(* terminal state and its result.                                          *)
THEOREM NoRegress == Spec => RowsNeverRegress
<1>1. ASSUME IInv, [Next]_vars, NEW i \in Stored(analyses)
      PROVE  /\ i \in Stored(analyses')
             /\ analyses'[i].pair = analyses[i].pair
             /\ analyses[i].status \in Terminal => analyses'[i].status \in Terminal
             /\ analyses[i].result # None => analyses'[i].result = analyses[i].result
  <2>0. TypeOK /\ i \in Ids /\ analyses[i] # None
    BY <1>1 DEF IInv, Stored
  <2>1. CASE UNCHANGED analyses
    BY <2>0, <2>1 DEF Stored
  <2>2. ASSUME NEW h \in Requests, Commit(h)
        PROVE  analyses'[i] = analyses[i]
    BY <1>1, <2>0, <2>2, CommitWrites DEF TypeOK
  <2>3. ASSUME NEW c \in Callbacks, CallbackCommits(c)
        PROVE  \/ analyses'[i] = analyses[i]
               \/ /\ analyses'[i] \in AnalysisRow
                  /\ analyses'[i].pair = analyses[i].pair
                  /\ analyses'[i].status \in Terminal
                  /\ analyses[i].result # None => analyses'[i].result = analyses[i].result
    <3>1. CASE i = cb[c].id
      BY <1>1, <2>3, <3>1, CallbackWrites
    <3>2. CASE i # cb[c].id
      BY <1>1, <2>0, <2>3, <3>2, CallbackWrites DEF TypeOK
    <3> QED
      BY <3>1, <3>2
  <2>4. analyses'[i] # None => i \in Stored(analyses')
    BY <2>0 DEF Stored
  <2> QED
    BY <1>1, <2>0, <2>1, <2>2, <2>3, <2>4, TableSteps, RepositoryAssumption
<1>2. IInv /\ [Next]_vars =>
        [\A i \in Stored(analyses) :
           /\ i \in Stored(analyses')
           /\ analyses'[i].pair = analyses[i].pair
           /\ analyses[i].status \in Terminal => analyses'[i].status \in Terminal
           /\ analyses[i].result # None => analyses'[i].result = analyses[i].result]_vars
  BY <1>1
<1> QED
  BY <1>2, SpecIInv, PTL DEF Spec, RowsNeverRegress

(* What the board shows of a row and of a missing one.                     *)
LEMMA ShowRow ==
  ASSUME NEW row \in AnalysisRow, Presentable(row)
  PROVE  /\ Show(row) = [pair |-> row.pair, status |-> row.status, result |-> row.result]
         /\ Show(row) \in Board!Entry
         /\ Show(row) # None
<1>1. row # None
  BY RepositoryAssumption
<1>2. Show(row) = [pair |-> row.pair, status |-> row.status, result |-> row.result]
  BY <1>1 DEF Show
<1>3. Show(row) \in Board!Entry
  BY <1>2 DEF Board!Entry, AnalysisRow, Presentable, Terminal
<1> QED
  BY <1>2, <1>3, BoardAssumption

(* The commit of a request records a new entry.                            *)
LEMMA CommitRefines ==
  ASSUME IInv, NEW h \in Requests, Commit(h)
  PROVE  Board!Record(req[h].id, req[h].row.pair, req[h].row.status)
<1> DEFINE n == req[h].id
           row == req[h].row
<1>1. /\ n \in Ids /\ analyses[n] = None
      /\ analyses' = [analyses EXCEPT ![n] = row]
      /\ row \in AnalysisRow /\ row.result = None
      /\ UNCHANGED acked
  BY CommitWrites
<1>2. TypeOK /\ Presentable(row)
  BY DEF IInv, OwnerInv, Owns, Commit, Goto
<1>3. Show(row) = [pair |-> row.pair, status |-> row.status, result |-> None]
  BY <1>1, <1>2, ShowRow
<1> HIDE DEF n, row
<1>4. BoardView[n] = None
  BY <1>1 DEF BoardView, Show
<1>5. BoardView' = [BoardView EXCEPT ![n] = Show(row)]
  BY <1>1, <1>2 DEF BoardView, TypeOK
<1> QED
  BY <1>1, <1>3, <1>4, <1>5 DEF Board!Record, n, row

(* The commit of a callback settles an entry.                              *)
LEMMA CallbackRefines ==
  ASSUME IInv, NEW c \in Callbacks, CallbackCommits(c)
  PROVE  LET i == cb[c].id
         IN  Board!Settle(i, analyses'[i].status, analyses'[i].result)
<1> DEFINE i == cb[c].id
           new == analyses'[i]
<1>1. /\ TypeOK
      /\ i \in Stored(analyses) /\ i \in Ids
      /\ new \in AnalysisRow
      /\ analyses' = [analyses EXCEPT ![i] = new]
      /\ new.pair = analyses[i].pair
      /\ new.result \in {None, analyses[i].pair}
      /\ analyses[i].result # None => new.result = analyses[i].result
      /\ Presentable(new)
      /\ UNCHANGED acked
  BY CallbackWrites DEF IInv, CallbackCommits
<1>2. analyses[i] \in AnalysisRow /\ Presentable(analyses[i])
  BY <1>1 DEF IInv, RowInv, TypeOK, Stored
<1>3. /\ Show(new) = [pair |-> new.pair, status |-> new.status, result |-> new.result]
      /\ BoardView[i] = [pair |-> analyses[i].pair, status |-> analyses[i].status,
                         result |-> analyses[i].result]
      /\ BoardView[i] # None
  <2>1. BoardView[i] = Show(analyses[i])
    BY <1>1 DEF BoardView
  <2> QED
    BY <1>1, <1>2, <2>1, ShowRow
<1>4. BoardView' = [BoardView EXCEPT ![i] = Show(new)]
  <2> HIDE DEF i, new
  <2> QED
    BY <1>1 DEF BoardView, TypeOK
<1>5. [pair |-> BoardView[i].pair, status |-> new.status, result |-> new.result] = Show(new)
  <2> HIDE DEF i, new
  <2> QED
    BY <1>1, <1>3
<1> QED
  <2> HIDE DEF new
  <2> QED
    BY <1>1, <1>3, <1>4, <1>5 DEF Board!Settle, new

(* Only a reply changes what clients were told, and it changes nothing     *)
(* else that they see.                                                     *)
LEMMA AckedSteps ==
  ASSUME [Next]_vars
  PROVE  UNCHANGED acked \/ \E h \in Requests : Reply(h)
  BY DEF Next, vars, HandlerStep, Database, DeleteResume, CreateJobDescription, Receive,
         GetResume, GetJobDescription, CheckExisting, Create, CreateExhausted,
         ExtractFails, MarkProcessing, WebhookAccepted, WebhookRefused, WebhookAnswered,
         WebhookTimedOut, Commit, CrashRequest, JobStep, WorkflowEnds,
         CallbackLoads, ReportLost, CallbackCommits, CrashCallback

(* A reply tells the client an entry of the board.                         *)
LEMMA ReplyRefines ==
  ASSUME IInv, NEW h \in Requests, Reply(h)
  PROVE  Board!Tell(req[h].id, req[h].want)
<1>1. /\ req[h].id \in Ids
      /\ analyses[req[h].id] \in AnalysisRow
      /\ Presentable(analyses[req[h].id])
      /\ analyses[req[h].id].pair = req[h].want
  BY DEF IInv, OwnerInv, Reply, Stored, TypeOK, RowInv
<1>2. BoardView[req[h].id] = Show(analyses[req[h].id])
  BY <1>1 DEF BoardView
<1>3. BoardView[req[h].id] # None /\ BoardView[req[h].id].pair = req[h].want
  BY <1>1, <1>2, ShowRow
<1>4. UNCHANGED analyses /\ acked' = acked \cup {<<req[h].want, req[h].id>>}
  BY DEF Reply, Database
<1>5. UNCHANGED BoardView
  BY <1>4 DEF BoardView
<1> QED
  BY <1>3, <1>4, <1>5 DEF Board!Tell

(* The service implements the board: every behaviour of handlers, jobs and *)
(* callbacks shows clients only what the abstract specification allows.    *)
THEOREM Refinement == Spec => ImplementsBoard
<1>1. Init => Board!Init
  BY DEF Init, Board!Init, BoardView, Show
<1>2. IInv /\ [Next]_vars => [Board!Next]_(Board!boardVars)
  <2> SUFFICES ASSUME IInv, [Next]_vars PROVE [Board!Next]_(Board!boardVars)
    OBVIOUS
  <2>1. ASSUME NEW h \in Requests, Commit(h) PROVE Board!Next
    BY <2>1, CommitWrites, CommitRefines DEF Board!Next
  <2>2. ASSUME NEW c \in Callbacks, CallbackCommits(c) PROVE Board!Next
    <3>1. /\ cb[c].id \in Ids
          /\ analyses'[cb[c].id].status \in {"done", "failed"}
          /\ analyses'[cb[c].id].result \in Pairs \cup {None}
      BY <2>2, CallbackWrites DEF Terminal, AnalysisRow
    <3> QED
      BY <2>2, <3>1, CallbackRefines DEF Board!Next
  <2>3. ASSUME NEW h \in Requests, Reply(h) PROVE Board!Next
    <3>1. req[h].id \in Ids /\ req[h].want \in Pairs
      BY <2>3 DEF IInv, OwnerInv, Reply, Stored
    <3> QED
      BY <2>3, <3>1, ReplyRefines DEF Board!Next
  <2>4. CASE UNCHANGED <<analyses, acked>>
    BY <2>4 DEF Board!boardVars, BoardView
  <2> QED
    BY <2>1, <2>2, <2>3, <2>4, TableSteps, AckedSteps
<1> QED
  BY <1>1, <1>2, SpecIInv, PTL DEF Spec, ImplementsBoard, Board!Spec
=============================================================================
