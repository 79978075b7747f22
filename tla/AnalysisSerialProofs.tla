------------------------ MODULE AnalysisSerialProofs ------------------------
(***************************************************************************)
(* Machine-checked proofs of what AnalysisService promises when a workflow  *)
(* reports one status: a terminal row keeps its status, except one that     *)
(* says n8n was unreachable and has a workflow all the same, with any       *)
(* number of concurrent requests and callbacks; and when requests come one  *)
(* after the other, POST is idempotent for rows that never failed.  Late    *)
(* answers of n8n, repeated and lost reports and crashes are all included.  *)
(*                                                                          *)
(* Each action is shown to preserve StatusInv, then OneActivePerPair; IInv  *)
(* comes from AnalysisServiceProofs.                                        *)
(***************************************************************************)
EXTENDS AnalysisServiceProofs

-----------------------------------------------------------------------------
(* The initial state satisfies both.                                       *)
LEMMA InitStatus == Init => StatusInv /\ OneActivePerPair
<1> SUFFICES ASSUME Init PROVE StatusInv /\ OneActivePerPair
  OBVIOUS
<1>1. StatusInv
  BY DEF Init, StatusInv, JobStatusInv, OwnerStatusInv, CallbackStatusInv, Owns, NoJob,
         IdleHandler, IdleCallback, Stored
<1>2. OneActivePerPair
  BY DEF Init, OneActivePerPair, Clean, GetExisting, Stored, Owns, IdleHandler
<1> QED
  BY <1>1, <1>2

(* A step that changes one handler only: its row may be "failed" only      *)
(* because the webhook looked failed, and has no job before the webhook.   *)
LEMMA HandlerKeepsStatus ==
  ASSUME IInv, StatusInv, NEW h \in Requests, NEW r \in Handler,
         req' = [req EXCEPT ![h] = r],
         UNCHANGED <<analyses, cb, jobs>>,
         r.pc \in {"extract", "trigger", "awaiting", "commit"} =>
           /\ r.row.status = "failed" => r.pc = "commit" /\ GivenUp(r.row)
           /\ r.pc \in {"extract", "trigger"} => jobs[r.id].state = "none"
  PROVE  StatusInv'
<1>1. req \in [Requests -> Handler]
  BY DEF IInv, TypeOK
<1>2. \A g \in Requests : req'[g] = IF g = h THEN r ELSE req[g]
  BY <1>1
<1>3. OwnerStatusInv'
  BY <1>2 DEF StatusInv, OwnerStatusInv, Owns
<1>4. JobStatusInv' /\ CallbackStatusInv'
  BY DEF StatusInv, JobStatusInv, CallbackStatusInv, Stored
<1> QED
  BY <1>3, <1>4 DEF StatusInv

(* A handler that stops, or goes on without owning a row.                  *)
LEMMA NoOwnerKeepsStatus ==
  ASSUME IInv, StatusInv, NEW h \in Requests, NEW r \in Handler,
         req' = [req EXCEPT ![h] = r],
         UNCHANGED <<analyses, cb, jobs>>,
         r.pc \notin {"extract", "trigger", "awaiting", "commit"}
  PROVE  StatusInv'
  BY HandlerKeepsStatus

(* An exception, a crash or the answer ends the request.                   *)
LEMMA RollbackKeepsStatus ==
  ASSUME IInv, StatusInv, NEW h \in Requests, Rollback(h), UNCHANGED <<analyses, cb, jobs>>
  PROVE  StatusInv'
<1>1. IdleHandler \in Handler /\ IdleHandler.pc = "idle"
  BY DEF IdleHandler, Handler
<1> QED
  BY <1>1, NoOwnerKeepsStatus DEF Rollback

(* Reading on.                                                             *)
LEMMA ReadKeepsStatus ==
  ASSUME IInv, StatusInv, NEW h \in Requests, UNCHANGED <<analyses, cb, jobs>>,
         NEW from \in {"get_resume", "get_jd", "get_existing"},
         NEW to \in {"get_jd", "get_existing", "create"},
         Goto(h, from, to)
  PROVE  StatusInv'
<1> DEFINE r == [req[h] EXCEPT !.pc = to]
<1>1. r \in Handler /\ r.pc = to
  BY HandlerFields DEF IInv, Handler
<1>2. req' = [req EXCEPT ![h] = r]
  BY DEF Goto
<1> HIDE DEF r
<1> QED
  BY <1>1, <1>2, NoOwnerKeepsStatus

(* Receive and CheckExisting own nothing.                                  *)
LEMMA ReceiveKeepsStatus ==
  ASSUME IInv, StatusInv, NEW h \in Requests, NEW p \in Pairs, Receive(h, p)
  PROVE  StatusInv'
<1> DEFINE r == [pc |-> "get_resume", want |-> p, id |-> 0, row |-> None]
<1>1. r \in Handler /\ r.pc = "get_resume"
  BY DEF Handler
<1>2. req' = [req EXCEPT ![h] = r] /\ UNCHANGED <<analyses, cb, jobs>>
  BY DEF Receive, Database
<1> HIDE DEF r
<1> QED
  BY <1>1, <1>2, NoOwnerKeepsStatus

(* CheckExisting keeps it in each of its three outcomes.                   *)
LEMMA CheckExistingKeepsStatus ==
  ASSUME IInv, StatusInv, NEW h \in Requests, CheckExisting(h)
  PROVE  StatusInv'
<1>0. UNCHANGED <<analyses, cb, jobs>>
  BY DEF CheckExisting, Database
<1>1. CASE Goto(h, "get_existing", "create")
  BY <1>0, <1>1, ReadKeepsStatus
<1>2. CASE Rollback(h)
  BY <1>0, <1>2, RollbackKeepsStatus
<1>3. ASSUME NEW i \in GetExisting(analyses, req[h].want),
             req' = [req EXCEPT ![h] = [pc |-> "reply", want |-> req[h].want,
                                        id |-> i, row |-> None]]
      PROVE  StatusInv'
  <2> DEFINE r == [pc |-> "reply", want |-> req[h].want, id |-> i, row |-> None]
  <2>1. r \in Handler /\ r.pc = "reply"
    BY HandlerFields DEF IInv, Handler, GetExisting, Stored
  <2>2. req' = [req EXCEPT ![h] = r]
    BY <1>3
  <2> HIDE DEF r
  <2> QED
    BY <1>0, <2>1, <2>2, NoOwnerKeepsStatus
<1> QED
  BY <1>1, <1>2, <1>3 DEF CheckExisting

(* Create draws an id without a job.                                       *)
LEMMA CreateKeepsStatus ==
  ASSUME IInv, StatusInv, NEW h \in Requests, Create(h)
  PROVE  StatusInv'
<1> DEFINE r == [pc |-> "extract", want |-> req[h].want, id |-> nextId,
                 row |-> NewRow(req[h].want)]
<1>1. TypeOK /\ req[h].want \in Pairs
  BY DEF IInv, OwnerInv, Create
<1>2. nextId \in Ids
  BY <1>1, RepositoryAssumption DEF TypeOK, Create, Ids
<1>3. jobs[nextId].state = "none"
  BY <1>2, RepositoryAssumption DEF IInv, RowInv, Ids
<1>4. /\ r \in Handler /\ r.pc = "extract" /\ r.id = nextId
      /\ r.row.status # "failed"
  BY <1>1, <1>2, NewRowType DEF Handler
<1>5. req' = [req EXCEPT ![h] = r] /\ UNCHANGED <<analyses, cb, jobs>>
  BY DEF Create
<1> HIDE DEF r
<1> QED
  BY <1>3, <1>4, <1>5, HandlerKeepsStatus

(* MarkProcessing comes before the webhook.                                *)
LEMMA MarkProcessingKeepsStatus ==
  ASSUME IInv, StatusInv, NEW h \in Requests, MarkProcessing(h)
  PROVE  StatusInv'
<1> DEFINE row == UpdateStatus(req[h].row, "processing", None, None)
           r == [pc |-> "trigger", want |-> req[h].want, id |-> req[h].id, row |-> row]
<1>1. /\ Owns(h) /\ req[h].want \in Pairs /\ req[h].row = NewRow(req[h].want)
      /\ req[h].id \in Ids
  BY DEF IInv, OwnerInv, Owns, MarkProcessing
<1>2. row \in AnalysisRow /\ row.status = "processing"
  BY <1>1, ProcessingRow
<1>3. jobs[req[h].id].state = "none"
  BY <1>1 DEF StatusInv, OwnerStatusInv, MarkProcessing
<1> HIDE DEF row
<1>4. /\ r \in Handler /\ r.pc = "trigger" /\ r.id = req[h].id
      /\ r.row.status # "failed"
  BY <1>1, <1>2 DEF Handler
<1>5. req' = [req EXCEPT ![h] = r] /\ UNCHANGED <<analyses, cb, jobs>>
  BY DEF MarkProcessing, Database, row
<1> HIDE DEF r
<1> QED
  BY <1>3, <1>4, <1>5, HandlerKeepsStatus

(* The except branch marks a row "failed" that says n8n was unreachable,   *)
(* whether it has a job or not.                                            *)
LEMMA TriggerFailedKeepsStatus ==
  ASSUME IInv, StatusInv, NEW h \in Requests, req[h].pc \in {"trigger", "awaiting"},
         TriggerFailed(h), UNCHANGED <<analyses, cb, jobs>>
  PROVE  StatusInv'
<1> DEFINE row == UpdateStatus(req[h].row, "failed", None, "n8n unreachable")
           r == [pc |-> "commit", want |-> req[h].want, id |-> req[h].id, row |-> row]
<1>1. /\ Owns(h) /\ req[h].want \in Pairs /\ req[h].row \in AnalysisRow
      /\ req[h].row.result = None /\ Presentable(req[h].row)
      /\ req[h].id \in Ids
  BY DEF IInv, OwnerInv, Owns
<1>2. row \in AnalysisRow /\ GivenUp(row)
  BY <1>1, FailedRow
<1>3. req' = [req EXCEPT ![h] = r]
  BY DEF TriggerFailed
<1> HIDE DEF row
<1>4. r \in Handler /\ r.pc = "commit" /\ GivenUp(r.row)
  BY <1>1, <1>2 DEF Handler
<1> HIDE DEF r
<1> QED
  BY <1>3, <1>4, HandlerKeepsStatus

(* WebhookAnswered leaves the row as it was.                               *)
LEMMA WebhookAnsweredKeepsStatus ==
  ASSUME IInv, StatusInv, NEW h \in Requests, WebhookAnswered(h)
  PROVE  StatusInv'
<1> DEFINE r == [req[h] EXCEPT !.pc = "commit"]
<1>1. Owns(h) /\ req[h].pc = "awaiting"
  BY DEF Owns, WebhookAnswered, Goto
<1>2. req[h].row.status # "failed"
  BY <1>1 DEF StatusInv, OwnerStatusInv
<1>3. r \in Handler /\ r.pc = "commit" /\ r.row = req[h].row
  BY HandlerFields DEF IInv, Handler
<1>4. req' = [req EXCEPT ![h] = r] /\ UNCHANGED <<analyses, cb, jobs>>
  BY DEF WebhookAnswered, Goto, Database
<1> HIDE DEF r
<1> QED
  BY <1>2, <1>3, <1>4, HandlerKeepsStatus

-----------------------------------------------------------------------------
(* WebhookAccepted starts a job for a row that has not failed.             *)
LEMMA WebhookAcceptedKeepsStatus ==
  ASSUME IInv, StatusInv, NEW h \in Requests, WebhookAccepted(h)
  PROVE  StatusInv'
<1> DEFINE n == req[h].id
           r == [req[h] EXCEPT !.pc = "awaiting"]
           j == [state |-> "running", pair |-> req[h].want, outcomes |-> {}]
<1>1. /\ TypeOK /\ req[h].pc = "trigger" /\ Owns(h)
      /\ n \in Ids /\ analyses[n] = None
  BY DEF IInv, OwnerInv, Owns, WebhookAccepted, Goto
<1>2. /\ req' = [req EXCEPT ![h] = r]
      /\ jobs' = [jobs EXCEPT ![n] = j]
      /\ UNCHANGED <<analyses, cb>>
  BY DEF WebhookAccepted, Goto, Database
<1>3. r \in Handler /\ r.pc = "awaiting" /\ r.id = n /\ r.row = req[h].row
  BY <1>1, HandlerFields DEF Handler
<1>4. j.state = "running" /\ j.outcomes = {}
  OBVIOUS
<1>5. req[h].row.status # "failed"
  BY <1>1 DEF StatusInv, OwnerStatusInv
<1> HIDE DEF r, j
<1>6. JobStatusInv'
  BY <1>1, <1>2, <1>4 DEF StatusInv, JobStatusInv, TypeOK, Stored
<1>7. OwnerStatusInv'
  <2> SUFFICES ASSUME NEW g \in Requests PROVE OwnerStatusInv!(g)'
    BY DEF OwnerStatusInv
  <2>1. CASE g = h
    BY <1>1, <1>2, <1>3, <1>5, <2>1 DEF TypeOK
  <2>2. CASE g # h
    <3>1. req'[g] = req[g]
      BY <1>1, <1>2, <2>2 DEF TypeOK
    <3>2. Owns(g) => req[g].id # n
      BY <1>1, <2>2 DEF IInv, OwnersAreDistinct
    <3>3. Owns(g) => req[g].id \in Ids
      BY DEF IInv, OwnerInv
    <3> QED
      BY <1>1, <1>2, <3>1, <3>2, <3>3 DEF StatusInv, OwnerStatusInv, Owns, TypeOK
  <2> QED
    BY <2>1, <2>2
<1>8. CallbackStatusInv'
  BY <1>1, <1>2 DEF StatusInv, CallbackStatusInv, IInv, CallbackInv, Stored, TypeOK
<1> QED
  BY <1>6, <1>7, <1>8 DEF StatusInv

(* Commit publishes a row that is "failed" only because n8n looked         *)
(* unreachable.                                                            *)
LEMMA CommitKeepsStatus ==
  ASSUME IInv, StatusInv, NEW h \in Requests, Commit(h)
  PROVE  StatusInv'
<1> DEFINE n == req[h].id
           r == [req[h] EXCEPT !.pc = "reply"]
<1>1. /\ TypeOK /\ req[h].pc = "commit" /\ Owns(h)
      /\ n \in Ids /\ analyses[n] = None
      /\ req[h].row.status \in {"processing", "failed"}
      /\ req[h].row.status = "failed" => GivenUp(req[h].row)
  BY CommitWrites DEF IInv, StatusInv, OwnerStatusInv, Owns, Commit, Goto
<1>2. /\ req' = [req EXCEPT ![h] = r]
      /\ analyses' = [analyses EXCEPT ![n] = req[h].row]
      /\ UNCHANGED <<cb, jobs>>
  BY DEF Commit, Goto
<1>3. r \in Handler /\ r.pc = "reply"
  BY <1>1, HandlerFields DEF Handler
<1> HIDE DEF r
<1>4. JobStatusInv'
  <2> SUFFICES ASSUME NEW i \in Ids PROVE JobStatusInv!(i)'
    BY DEF JobStatusInv
  <2>1. CASE i = n
    BY <1>1, <1>2, <2>1 DEF StatusInv, JobStatusInv, TypeOK, Terminal
  <2>2. CASE i # n
    BY <1>1, <1>2, <2>2 DEF StatusInv, JobStatusInv, TypeOK, Stored
  <2> QED
    BY <2>1, <2>2
<1>5. OwnerStatusInv'
  BY <1>1, <1>2, <1>3 DEF StatusInv, OwnerStatusInv, Owns, TypeOK
<1>6. CallbackStatusInv'
  BY <1>1, <1>2 DEF StatusInv, CallbackStatusInv, IInv, CallbackInv, Stored, TypeOK
<1> QED
  BY <1>4, <1>5, <1>6 DEF StatusInv

(* WorkflowEnds gives a job outcomes of one status, while the row is not   *)
(* terminal.                                                               *)
LEMMA WorkflowEndsKeepsStatus ==
  ASSUME IInv, StatusInv, OneStatusPerJob,
         NEW k \in Ids, NEW o \in OutcomeSets, WorkflowEnds(k, o)
  PROVE  StatusInv'
<1> DEFINE j == [state |-> "calling", pair |-> jobs[k].pair, outcomes |-> o]
<1>1. TypeOK /\ jobs[k].state = "running" /\ jobs[k].outcomes = {}
  BY DEF IInv, WorkflowEnds, StatusInv, JobStatusInv
<1>2. /\ jobs' = [jobs EXCEPT ![k] = j]
      /\ UNCHANGED <<analyses, req, cb>>
  BY DEF WorkflowEnds, Database
<1>3. j.state = "calling" /\ j.outcomes = o
  OBVIOUS
<1> HIDE DEF j
<1>4. /\ \A i \in Ids : i # k => jobs'[i] = jobs[i]
      /\ jobs'[k] = j
  BY <1>1, <1>2 DEF TypeOK
<1>5. \A p, q \in o : p.status = q.status
  BY DEF OneStatusPerJob
<1>6. JobStatusInv'
  <2> SUFFICES ASSUME NEW i \in Ids PROVE JobStatusInv!(i)'
    BY DEF JobStatusInv
  <2>1. CASE i = k
    BY <1>1, <1>2, <1>3, <1>4, <1>5, <2>1 DEF StatusInv, JobStatusInv, Stored
  <2>2. CASE i # k
    BY <1>2, <1>4, <2>2 DEF StatusInv, JobStatusInv, Stored
  <2> QED
    BY <2>1, <2>2
<1>7. OwnerStatusInv'
  BY <1>1, <1>2, <1>4 DEF StatusInv, OwnerStatusInv, Owns, IInv, OwnerInv
<1>8. CallbackStatusInv'
  BY <1>1, <1>2, <1>4 DEF StatusInv, CallbackStatusInv, IInv, CallbackInv, Stored
<1> QED
  BY <1>6, <1>7, <1>8 DEF StatusInv

(* A step that closes or loses a job at most keeps its outcomes.           *)
LEMMA ClosingKeepsStatus ==
  ASSUME IInv, StatusInv, NEW k \in Ids, jobs[k].state # "none",
         jobs' \in {jobs, [jobs EXCEPT ![k].state = "closed"],
                   [jobs EXCEPT ![k].state = "lost"]},
         UNCHANGED req,
         \A i \in Ids : /\ i \in Stored(analyses') => i \in Stored(analyses)
                        /\ i \in Stored(analyses) /\ analyses'[i] # analyses[i] =>
                             /\ jobs[i].state # "running"
                             /\ \A p \in jobs[i].outcomes : p.status = analyses'[i].status,
         \A c \in Callbacks : cb'[c].id # 0 =>
             /\ cb'[c].id \in Ids
             /\ cb'[c].payload \in jobs[cb'[c].id].outcomes
             /\ cb'[c].loaded.status = "done" => analyses'[cb'[c].id].status = "done"
  PROVE  StatusInv'
<1>1. TypeOK
  BY DEF IInv
<1>2. \A i \in Ids : /\ jobs'[i].outcomes = jobs[i].outcomes
                     /\ jobs'[i].state = "none" <=> jobs[i].state = "none"
                     /\ jobs'[i].state = "running" => jobs[i].state = "running"
  BY <1>1 DEF TypeOK, Job
<1>3. JobStatusInv'
  <2> SUFFICES ASSUME NEW i \in Ids PROVE JobStatusInv!(i)'
    BY DEF JobStatusInv
  <2>1. JobStatusInv!(i)
    BY DEF StatusInv, JobStatusInv
  <2> QED
    BY <1>2, <2>1
<1>4. OwnerStatusInv'
  BY <1>2 DEF StatusInv, OwnerStatusInv, Owns, IInv, OwnerInv
<1>5. CallbackStatusInv'
  BY <1>2 DEF CallbackStatusInv
<1> QED
  BY <1>3, <1>4, <1>5 DEF StatusInv

(* What holds of the callbacks under way, with their ids in reach.         *)
LEMMA CallbacksUnderWay ==
  ASSUME IInv, StatusInv, NEW c \in Callbacks, cb[c].id # 0
  PROVE  /\ cb[c].id \in Ids /\ cb[c].id \in Stored(analyses)
         /\ jobs[cb[c].id].state # "none"
         /\ cb[c].payload \in jobs[cb[c].id].outcomes
         /\ cb[c].loaded.status = "done" => analyses[cb[c].id].status = "done"
         /\ cb[c].loaded.status \in Terminal => analyses[cb[c].id].status \in Terminal
  BY DEF IInv, CallbackInv, Stored, StatusInv, CallbackStatusInv

(* A workflow that is lost reports nothing.                                *)
LEMMA ReportLostKeepsStatus ==
  ASSUME IInv, StatusInv, NEW k \in Ids, ReportLost(k)
  PROVE  StatusInv'
<1>1. UNCHANGED <<req, analyses, cb>> /\ jobs[k].state # "none"
  BY DEF ReportLost, Database
<1>2. jobs' = [jobs EXCEPT ![k].state = "lost"]
  BY DEF ReportLost
<1> QED
  BY <1>1, <1>2, CallbacksUnderWay, ClosingKeepsStatus

(* CallbackLoads takes a payload of the job's outcomes.                    *)
LEMMA CallbackLoadsKeepsStatus ==
  ASSUME IInv, StatusInv, NEW c \in Callbacks, NEW k \in Ids, CallbackLoads(c, k)
  PROVE  StatusInv'
<1>1. TypeOK /\ jobs[k].state # "none" /\ UNCHANGED <<req, analyses>>
  BY DEF IInv, CallbackLoads, Database
<1>2. jobs' \in {jobs, [jobs EXCEPT ![k].state = "closed"], [jobs EXCEPT ![k].state = "lost"]}
  BY DEF CallbackLoads, Unanswered
<1>3. \A d \in Callbacks : cb'[d].id # 0 =>
        /\ cb'[d].id \in Ids
        /\ cb'[d].payload \in jobs[cb'[d].id].outcomes
        /\ cb'[d].loaded.status = "done" => analyses'[cb'[d].id].status = "done"
  <2>1. CASE cb' = cb
    BY <1>1, <2>1, CallbacksUnderWay
  <2>2. ASSUME NEW p \in jobs[k].outcomes,
               cb' = [cb EXCEPT ![c] = [id |-> k, payload |-> p, loaded |-> analyses[k]]],
               NEW d \in Callbacks, cb'[d].id # 0
        PROVE  /\ cb'[d].id \in Ids
               /\ cb'[d].payload \in jobs[cb'[d].id].outcomes
               /\ cb'[d].loaded.status = "done" => analyses'[cb'[d].id].status = "done"
    <3>1. CASE d = c
      BY <1>1, <2>2, <3>1 DEF TypeOK
    <3>2. CASE d # c
      <4>1. cb'[d] = cb[d]
        BY <1>1, <2>2, <3>2 DEF TypeOK
      <4> QED
        BY <1>1, <2>2, <4>1, CallbacksUnderWay
    <3> QED
      BY <3>1, <3>2
  <2> QED
    BY <2>1, <2>2 DEF CallbackLoads
<1> QED
  BY <1>1, <1>2, <1>3, ClosingKeepsStatus

(* CallbackCommits writes the one status of the job, which a terminal row   *)
(* has already unless its webhook looked failed; it clears no error.        *)
LEMMA CallbackSettles ==
  ASSUME IInv, StatusInv, NEW c \in Callbacks, CallbackCommits(c)
  PROVE  LET i == cb[c].id IN
         /\ i \in Ids /\ i \in Stored(analyses)
         /\ jobs[i].state \notin {"none", "running"}
         /\ analyses' = [analyses EXCEPT ![i] = analyses'[i]]
         /\ analyses'[i].pair = analyses[i].pair
         /\ analyses'[i].status \in Terminal
         /\ \A p \in jobs[i].outcomes : p.status = analyses'[i].status
         /\ analyses[i].status \in Terminal /\ ~GivenUp(analyses[i]) =>
              analyses'[i].status = analyses[i].status
         /\ analyses'[i].error = None => analyses[i].error = None
<1> DEFINE i == cb[c].id
           s == cb[c].payload.status
           e == ReportedError(c)
           loaded == cb[c].loaded
           upd == UpdateStatus(loaded, s, ReportedResult(c), e)
           new == Flush(analyses[i], loaded, upd)
<1>1. /\ TypeOK /\ i # 0
      /\ analyses' = [analyses EXCEPT ![i] = new]
  BY DEF IInv, CallbackCommits
<1>2. /\ i \in Stored(analyses) /\ i \in Ids
      /\ loaded.status \in Terminal => analyses[i].status \in Terminal
      /\ loaded.status = "done" => analyses[i].status = "done"
      /\ jobs[i].state # "none"
      /\ cb[c].payload \in jobs[i].outcomes
  BY <1>1, CallbacksUnderWay
<1>3. /\ \A p, q \in jobs[i].outcomes : p.status = q.status
      /\ jobs[i].state # "running"
      /\ analyses[i].status \in Terminal /\ ~GivenUp(analyses[i]) =>
           \A p \in jobs[i].outcomes : p.status = analyses[i].status
  BY <1>2 DEF StatusInv, JobStatusInv
<1>4. /\ s \in Terminal
      /\ \A p \in jobs[i].outcomes : p.status = s
      /\ analyses[i].status \in Terminal /\ ~GivenUp(analyses[i]) => analyses[i].status = s
  BY <1>1, <1>2, <1>3 DEF TypeOK, Job, Payload
<1>5. upd.status = s /\ upd.error = IF e = None THEN loaded.error ELSE e
  BY <1>4 DEF UpdateStatus, Coalesce
<1>6. /\ new.status = IF upd.status = loaded.status THEN analyses[i].status ELSE upd.status
      /\ new.error = IF upd.error = loaded.error THEN analyses[i].error ELSE upd.error
      /\ new.pair = analyses[i].pair
  BY DEF Flush
<1> HIDE DEF i, s, e, loaded, upd, new
<1>7. new.status = s
  <2>1. CASE GivenUp(analyses[i])
    BY <1>2, <1>4, <1>5, <1>6, <2>1 DEF GivenUp, Terminal
  <2>2. CASE ~GivenUp(analyses[i])
    BY <1>2, <1>4, <1>5, <1>6, <2>2
  <2> QED
    BY <2>1, <2>2
<1>8. new.error = None => analyses[i].error = None
  BY <1>5, <1>6
<1>9. analyses'[i] = new
  BY <1>1, <1>2 DEF TypeOK
<1> QED
  BY <1>1, <1>2, <1>3, <1>4, <1>6, <1>7, <1>8, <1>9 DEF i

(* CallbackCommits keeps the job and its row in agreement.                 *)
LEMMA CallbackCommitsKeepsStatus ==
  ASSUME IInv, StatusInv, NEW c \in Callbacks, CallbackCommits(c)
  PROVE  StatusInv'
<1> DEFINE i == cb[c].id
<1>1. /\ i \in Ids /\ i \in Stored(analyses)
      /\ jobs[i].state \notin {"none", "running"}
      /\ analyses' = [analyses EXCEPT ![i] = analyses'[i]]
      /\ \A p \in jobs[i].outcomes : p.status = analyses'[i].status
      /\ analyses[i].status \in Terminal /\ ~GivenUp(analyses[i]) =>
           analyses'[i].status = analyses[i].status
  BY CallbackSettles
<1>2. /\ TypeOK
      /\ jobs' \in {jobs, [jobs EXCEPT ![i].state = "closed"]}
      /\ cb' = [cb EXCEPT ![c] = IdleCallback]
      /\ UNCHANGED req
  BY DEF IInv, CallbackCommits
<1>3. \A k \in Ids : k # i => analyses'[k] = analyses[k]
  BY <1>1, <1>2 DEF TypeOK
<1>4. \A k \in Ids : k \in Stored(analyses') => k \in Stored(analyses)
  BY <1>1, <1>3 DEF Stored
<1>5. analyses[i].status = "done" => analyses'[i].status = "done"
  BY <1>1 DEF GivenUp, Terminal
<1>6. ASSUME NEW d \in Callbacks, cb'[d].id # 0
      PROVE  /\ cb'[d].id \in Ids
             /\ cb'[d].payload \in jobs[cb'[d].id].outcomes
             /\ cb'[d].loaded.status = "done" => analyses'[cb'[d].id].status = "done"
  <2>1. d # c /\ cb'[d] = cb[d]
    BY <1>2, <1>6 DEF TypeOK, IdleCallback
  <2> QED
    BY <1>3, <1>5, <1>6, <2>1, CallbacksUnderWay
<1>7. \A k \in Ids : k \in Stored(analyses) /\ analyses'[k] # analyses[k] =>
        /\ jobs[k].state # "running"
        /\ \A p \in jobs[k].outcomes : p.status = analyses'[k].status
  BY <1>1, <1>3
<1> QED
  BY <1>1, <1>2, <1>4, <1>6, <1>7, ClosingKeepsStatus

(* A callback handler that is lost had written nothing.                    *)
LEMMA CrashCallbackKeepsStatus ==
  ASSUME IInv, StatusInv, NEW c \in Callbacks, CrashCallback(c)
  PROVE  StatusInv'
<1> DEFINE i == cb[c].id
<1>1. /\ i \in Ids /\ jobs[i].state # "none" /\ TypeOK
      /\ cb' = [cb EXCEPT ![c] = IdleCallback] /\ UNCHANGED <<req, analyses>>
  BY CallbacksUnderWay DEF CrashCallback, IInv
<1>2. jobs' \in {jobs, [jobs EXCEPT ![i].state = "lost"]}
  BY DEF CrashCallback, Unanswered
<1>3. ASSUME NEW d \in Callbacks, cb'[d].id # 0
      PROVE  cb'[d] = cb[d]
  BY <1>1, <1>3 DEF TypeOK, IdleCallback
<1> QED
  BY <1>1, <1>2, <1>3, CallbacksUnderWay, ClosingKeepsStatus

(* Every step of a request keeps it.                                       *)
LEMMA HandlerStepKeepsStatus ==
  ASSUME IInv, StatusInv, NEW h \in Requests, HandlerStep(h)
  PROVE  StatusInv'
<1>1. CASE GetResume(h)
  BY <1>1, ReadKeepsStatus, RollbackKeepsStatus DEF GetResume, Database
<1>2. CASE GetJobDescription(h)
  BY <1>2, ReadKeepsStatus, RollbackKeepsStatus DEF GetJobDescription, Database
<1>3. CASE CheckExisting(h)
  BY <1>3, CheckExistingKeepsStatus
<1>4. CASE Create(h)
  BY <1>4, CreateKeepsStatus
<1>5. CASE CreateExhausted(h)
  BY <1>5, RollbackKeepsStatus DEF CreateExhausted, Database
<1>6. CASE ExtractFails(h)
  BY <1>6, RollbackKeepsStatus DEF ExtractFails, Database
<1>7. CASE MarkProcessing(h)
  BY <1>7, MarkProcessingKeepsStatus
<1>8. CASE WebhookAccepted(h)
  BY <1>8, WebhookAcceptedKeepsStatus
<1>9. CASE WebhookRefused(h)
  BY <1>9, TriggerFailedKeepsStatus DEF WebhookRefused, Database
<1>10. CASE WebhookAnswered(h)
  BY <1>10, WebhookAnsweredKeepsStatus
<1>11. CASE WebhookTimedOut(h)
  BY <1>11, TriggerFailedKeepsStatus DEF WebhookTimedOut, Database
<1>12. CASE Commit(h)
  BY <1>12, CommitKeepsStatus
<1>13. CASE Reply(h)
  BY <1>13, RollbackKeepsStatus DEF Reply, Rollback, Database
<1> QED
  BY <1>1, <1>2, <1>3, <1>4, <1>5, <1>6, <1>7, <1>8, <1>9, <1>10, <1>11, <1>12, <1>13
  DEF HandlerStep

(* StatusInv is inductive beside IInv.                                     *)
LEMMA NextStatus ==
  ASSUME OneStatusPerJob
  PROVE  IInv /\ StatusInv /\ [Next]_vars => StatusInv'
<1> SUFFICES ASSUME IInv, StatusInv, [Next]_vars PROVE StatusInv'
  OBVIOUS
<1>1. ASSUME UNCHANGED <<analyses, req, cb, jobs>> PROVE StatusInv'
  BY <1>1 DEF StatusInv, JobStatusInv, OwnerStatusInv, CallbackStatusInv, Owns, Stored
<1>2. ASSUME NEW r \in Resumes, DeleteResume(r) PROVE StatusInv'
  BY <1>1, <1>2 DEF DeleteResume
<1>3. ASSUME NEW j \in JobDescriptions, CreateJobDescription(j) PROVE StatusInv'
  BY <1>1, <1>3 DEF CreateJobDescription
<1>4. ASSUME NEW h \in Requests, NEW p \in Pairs, Receive(h, p) PROVE StatusInv'
  BY <1>4, ReceiveKeepsStatus
<1>5. ASSUME NEW h \in Requests, HandlerStep(h) PROVE StatusInv'
  BY <1>5, HandlerStepKeepsStatus
<1>6. ASSUME NEW h \in Requests, CrashRequest(h) PROVE StatusInv'
  BY <1>6, RollbackKeepsStatus DEF CrashRequest
<1>7. ASSUME NEW i \in Ids, JobStep(i) PROVE StatusInv'
  BY <1>7, WorkflowEndsKeepsStatus, CallbackLoadsKeepsStatus, ReportLostKeepsStatus
  DEF JobStep
<1>8. ASSUME NEW c \in Callbacks, CallbackCommits(c) PROVE StatusInv'
  BY <1>8, CallbackCommitsKeepsStatus
<1>9. ASSUME NEW c \in Callbacks, CrashCallback(c) PROVE StatusInv'
  BY <1>9, CrashCallbackKeepsStatus
<1>10. CASE UNCHANGED vars
  BY <1>1, <1>10 DEF vars
<1> QED
  BY <1>2, <1>3, <1>4, <1>5, <1>6, <1>7, <1>8, <1>9, <1>10 DEF Next

(* Any number of requests: while n8n reports one status for each job, IInv  *)
(* and StatusInv hold.                                                      *)
LEMMA SpecStatus ==
  ASSUME OneStatusPerJob
  PROVE  Spec => [](IInv /\ StatusInv)
<1>1. Init => StatusInv
  BY InitStatus
<1>2. IInv /\ StatusInv /\ [Next]_vars => StatusInv'
  BY NextStatus
<1> QED
  BY <1>1, <1>2, SpecIInv, PTL DEF Spec

(* A client that polls until an analysis is done or failed has its final    *)
(* status, with any number of concurrent requests and callbacks, as long as *)
(* n8n reports one status for each job, unless the row says that n8n was    *)
(* unreachable and the workflow was started all the same.                   *)
THEOREM StatusesAreFinal ==
  ASSUME OneStatusPerJob
  PROVE  Spec => TerminalIsFinal
<1>1. ASSUME IInv, StatusInv, [Next]_vars, NEW i \in Stored(analyses),
             analyses[i].status \in Terminal,
             GivenUp(analyses[i]) => jobs[i].state = "none"
      PROVE  analyses'[i].status = analyses[i].status
  <2>0. TypeOK /\ i \in Ids /\ analyses[i] # None
    BY <1>1 DEF IInv, Stored
  <2>1. ASSUME NEW h \in Requests, Commit(h) PROVE analyses'[i] = analyses[i]
    BY <1>1, <2>0, <2>1, CommitWrites DEF TypeOK
  <2>2. ASSUME NEW c \in Callbacks, CallbackCommits(c)
        PROVE  analyses'[i].status = analyses[i].status
    <3>1. CASE i = cb[c].id
      BY <1>1, <2>2, <3>1, CallbackSettles
    <3>2. CASE i # cb[c].id
      BY <1>1, <2>0, <2>2, <3>2, CallbackSettles DEF TypeOK
    <3> QED
      BY <3>1, <3>2
  <2> QED
    BY <1>1, <2>1, <2>2, TableSteps
<1>2. IInv /\ StatusInv /\ [Next]_vars =>
        [\A i \in Stored(analyses) :
           (/\ analyses[i].status \in Terminal
            /\ GivenUp(analyses[i]) => jobs[i].state = "none")
           => analyses'[i].status = analyses[i].status]_vars
  BY <1>1
<1> QED
  BY <1>2, SpecStatus, PTL DEF Spec, TerminalIsFinal

-----------------------------------------------------------------------------
(* One request at a time.                                                  *)

(* The requests that have found no analysis of their pair.                 *)
Missed == {"create", "extract", "trigger", "awaiting", "commit"}

(* A step that changes one handler and leaves the table as it is.          *)
LEMMA HandlerKeepsOneActive ==
  ASSUME IInv, OneActivePerPair, NEW h \in Requests, NEW r \in Handler,
         req' = [req EXCEPT ![h] = r],
         UNCHANGED analyses,
         r.pc \in Missed => \/ Clean(analyses, r.want) = {}
                           \/ (req[h].pc \in Missed /\ r.want = req[h].want)
  PROVE  OneActivePerPair'
<1>1. \A g \in Requests : req'[g] = IF g = h THEN r ELSE req[g]
  BY DEF IInv, TypeOK
<1>2. \A g \in Requests : req[g].pc \in Missed => Clean(analyses, req[g].want) = {}
  BY DEF OneActivePerPair, Owns, Missed
<1>3. \A g \in Requests : req'[g].pc \in Missed => Clean(analyses, req'[g].want) = {}
  BY <1>1, <1>2
<1>4. \A p \in Pairs : Clean(analyses', p) = Clean(analyses, p)
  BY DEF Clean, GetExisting, Stored
<1>5. \A g \in Requests : req'[g].pc \in Missed => Clean(analyses', req'[g].want) = {}
  BY <1>3 DEF Clean, GetExisting, Stored
<1> QED
  BY <1>4, <1>5 DEF OneActivePerPair, Owns, Missed

(* What a request that goes on still wants, for every step but the commit. *)
LEMMA StepKeepsOneActive ==
  ASSUME IInv, OneActivePerPair, NEW h \in Requests, NEW r \in Handler,
         req' = [req EXCEPT ![h] = r],
         UNCHANGED analyses,
         r.pc \in Missed => req[h].pc \in Missed /\ r.want = req[h].want
  PROVE  OneActivePerPair'
  BY HandlerKeepsOneActive

(* Every step of a request but the commit keeps OneActivePerPair: only      *)
(* CheckExisting lets a request go on to create a row.                      *)
LEMMA HandlerStepKeepsOneActive ==
  ASSUME IInv, IInv', OneActivePerPair, NEW h \in Requests,
         \/ HandlerStep(h) \/ CrashRequest(h)
         \/ \E p \in Pairs : Receive(h, p),
         ~Commit(h)
  PROVE  OneActivePerPair'
<1> DEFINE r == req'[h]
<1>1. TypeOK /\ TypeOK' /\ r \in Handler
  BY DEF IInv, TypeOK
<1>2. UNCHANGED analyses
  BY DEF HandlerStep, CrashRequest, Receive, Database, GetResume, GetJobDescription,
         CheckExisting, Create, CreateExhausted, ExtractFails, MarkProcessing,
         WebhookAccepted, WebhookRefused, WebhookAnswered, WebhookTimedOut, Reply
<1>3. ASSUME NEW s, req' = [req EXCEPT ![h] = s]
      PROVE  req' = [req EXCEPT ![h] = r] /\ r = s
  BY <1>1, <1>3 DEF TypeOK
<1>4. \A s : Goto(h, s, "get_jd") \/ Goto(h, s, "get_existing") =>
        req' = [req EXCEPT ![h] = r] /\ r.pc \notin Missed
  <2>1. ASSUME NEW s, NEW to \in {"get_jd", "get_existing"}, Goto(h, s, to)
        PROVE  req' = [req EXCEPT ![h] = r] /\ r.pc = to
    BY <1>1, <2>1 DEF Goto, TypeOK, Handler
  <2> QED
    BY <2>1 DEF Missed
<1>5. Rollback(h) => req' = [req EXCEPT ![h] = r] /\ r.pc \notin Missed
  <2>1. Rollback(h) => req' = [req EXCEPT ![h] = r] /\ r = IdleHandler
    BY <1>3 DEF Rollback
  <2> QED
    BY <2>1 DEF IdleHandler, Missed
<1>6. CASE Rollback(h) \/ GetResume(h) \/ GetJobDescription(h)
  BY <1>1, <1>2, <1>4, <1>5, <1>6, StepKeepsOneActive DEF GetResume, GetJobDescription
<1>7. CASE CheckExisting(h)
  <2>1. CASE /\ GetExisting(analyses, req[h].want) = {}
             /\ Goto(h, "get_existing", "create")
    <3>1. req' = [req EXCEPT ![h] = r] /\ r.want = req[h].want
      BY <1>1, <2>1 DEF Goto, TypeOK, Handler
    <3>2. Clean(analyses, r.want) = {}
      BY <2>1, <3>1 DEF Clean
    <3> QED
      BY <1>1, <1>2, <3>1, <3>2, HandlerKeepsOneActive
  <2>2. ASSUME NEW i, req' = [req EXCEPT ![h] = [pc |-> "reply", want |-> req[h].want,
                                                 id |-> i, row |-> None]]
        PROVE  OneActivePerPair'
    <3> DEFINE s == [pc |-> "reply", want |-> req[h].want, id |-> i, row |-> None]
    <3>1. req' = [req EXCEPT ![h] = s] /\ s.pc \notin Missed
      BY <2>2 DEF Missed
    <3>2. req' = [req EXCEPT ![h] = r] /\ r = s
      BY <1>3, <3>1
    <3> QED
      BY <1>1, <1>2, <3>1, <3>2, StepKeepsOneActive
  <2> QED
    BY <1>6, <1>7, <2>1, <2>2 DEF CheckExisting
<1>8. CASE Create(h) \/ MarkProcessing(h) \/ WebhookRefused(h) \/ WebhookTimedOut(h)
  <2>1. req[h].pc \in Missed
    BY <1>8 DEF Create, MarkProcessing, WebhookRefused, WebhookTimedOut, Missed
  <2>2. PICK s : req' = [req EXCEPT ![h] = s] /\ s.want = req[h].want
    BY <1>8 DEF Create, MarkProcessing, WebhookRefused, WebhookTimedOut, TriggerFailed
  <2>3. req' = [req EXCEPT ![h] = r] /\ r.want = req[h].want
    BY <1>3, <2>2
  <2> QED
    BY <1>1, <1>2, <2>1, <2>3, StepKeepsOneActive
<1>9. CASE WebhookAccepted(h) \/ WebhookAnswered(h)
  <2>1. PICK from \in Missed, to \in Missed : Goto(h, from, to)
    BY <1>9 DEF WebhookAccepted, WebhookAnswered, Missed
  <2>2. req[h].pc \in Missed /\ req' = [req EXCEPT ![h] = r] /\ r.want = req[h].want
    BY <1>1, <2>1 DEF Goto, TypeOK, Handler
  <2> QED
    BY <1>1, <1>2, <2>2, StepKeepsOneActive
<1>10. CASE \E p \in Pairs : Receive(h, p)
  <2>1. PICK s : req' = [req EXCEPT ![h] = s] /\ s.pc \notin Missed
    BY <1>10 DEF Receive, Missed
  <2>2. req' = [req EXCEPT ![h] = r] /\ r.pc \notin Missed
    BY <1>3, <2>1
  <2> QED
    BY <1>1, <1>2, <2>2, StepKeepsOneActive
<1>11. CASE CreateExhausted(h) \/ ExtractFails(h) \/ Reply(h) \/ CrashRequest(h)
  BY <1>6, <1>11 DEF CreateExhausted, ExtractFails, Reply, Rollback, CrashRequest
<1> QED
  BY <1>6, <1>7, <1>8, <1>9, <1>10, <1>11 DEF HandlerStep

(* The commit adds the only active row of its pair, and nobody else is      *)
(* about to add another: there is one request.                              *)
LEMMA CommitKeepsOneActive ==
  ASSUME IInv, OneActivePerPair, OneRequestAtATime, NEW h \in Requests, Commit(h)
  PROVE  OneActivePerPair'
<1> DEFINE n == req[h].id
<1>1. /\ TypeOK /\ n \in Ids
      /\ analyses' = [analyses EXCEPT ![n] = req[h].row]
      /\ req[h].row.pair = req[h].want
      /\ Clean(analyses, req[h].want) = {}
  BY DEF IInv, OneActivePerPair, OwnerInv, Owns, Commit, Goto
<1>2. req'[h].pc = "reply"
  BY <1>1 DEF Commit, Goto, TypeOK, Handler
<1>3. \A i \in Ids : i # n => analyses'[i] = analyses[i]
  BY <1>1 DEF TypeOK
<1>4. analyses'[n] = req[h].row
  BY <1>1 DEF TypeOK
<1>5. \A p \in Pairs : Clean(analyses', p) \subseteq Clean(analyses, p) \cup {n}
  BY <1>3 DEF Clean, GetExisting, Stored
<1>6. \A p \in Pairs : n \in Clean(analyses', p) => p = req[h].want
  BY <1>1, <1>4 DEF Clean, GetExisting
<1>7. ASSUME NEW p \in Pairs, NEW i \in Clean(analyses', p),
             NEW k \in Clean(analyses', p)
      PROVE  i = k
  <2>1. CASE p = req[h].want
    BY <1>1, <1>5, <2>1
  <2>2. CASE p # req[h].want
    BY <1>5, <1>6, <2>2 DEF OneActivePerPair
  <2> QED
    BY <2>1, <2>2
<1>8. \A g \in Requests : ~(req'[g].pc = "create" \/ Owns(g)')
  BY <1>2 DEF OneRequestAtATime, Owns
<1> QED
  BY <1>7, <1>8 DEF OneActivePerPair

(* A callback makes no row active that was not, except one whose webhook    *)
(* looked failed, and that one keeps an error.                              *)
LEMMA CallbackKeepsOneActive ==
  ASSUME IInv, StatusInv, OneActivePerPair, NEW c \in Callbacks, CallbackCommits(c)
  PROVE  OneActivePerPair'
<1> DEFINE i == cb[c].id
<1>1. /\ TypeOK /\ UNCHANGED req
      /\ i \in Ids /\ i \in Stored(analyses)
      /\ analyses' = [analyses EXCEPT ![i] = analyses'[i]]
      /\ analyses'[i].pair = analyses[i].pair
      /\ analyses[i].status \in Terminal /\ ~GivenUp(analyses[i]) =>
           analyses'[i].status = analyses[i].status
      /\ analyses'[i].error = None => analyses[i].error = None
  BY CallbackSettles DEF IInv, CallbackCommits
<1>2. analyses[i].status \in Terminal \cup Active
  BY <1>1 DEF IInv, RowInv, Presentable, Active
<1>3. analyses'[i].status \in Active /\ analyses'[i].error = None =>
        analyses[i].status \in Active
  BY <1>1, <1>2, RepositoryAssumption DEF GivenUp, Errors
<1>4. \A k \in Ids : k # i => analyses'[k] = analyses[k]
  BY <1>1 DEF TypeOK
<1>5. \A p \in Pairs : Clean(analyses', p) \subseteq Clean(analyses, p)
  BY <1>1, <1>3, <1>4 DEF Clean, GetExisting, Stored
<1>6. \A h \in Requests : req[h].pc = "create" \/ Owns(h) => req[h].want \in Pairs
  BY DEF IInv, OwnerInv, Owns
<1> QED
  BY <1>1, <1>5, <1>6 DEF OneActivePerPair, Owns

(* OneActivePerPair is inductive beside the others.                        *)
LEMMA NextOneActive ==
  ASSUME OneRequestAtATime
  PROVE  IInv /\ StatusInv /\ OneActivePerPair /\ [Next]_vars => OneActivePerPair'
<1> SUFFICES ASSUME IInv, StatusInv, OneActivePerPair, [Next]_vars
             PROVE  OneActivePerPair'
  OBVIOUS
<1>0. IInv'
  BY NextIInv
<1>1. ASSUME UNCHANGED <<analyses, req>> PROVE OneActivePerPair'
  BY <1>1 DEF OneActivePerPair, Owns, Clean, GetExisting, Stored
<1>2. ASSUME NEW h \in Requests,
             HandlerStep(h) \/ CrashRequest(h) \/ \E p \in Pairs : Receive(h, p)
      PROVE  OneActivePerPair'
  BY <1>0, <1>2, HandlerStepKeepsOneActive, CommitKeepsOneActive
<1>3. ASSUME NEW c \in Callbacks, CallbackCommits(c) PROVE OneActivePerPair'
  BY <1>3, CallbackKeepsOneActive
<1>4. CASE UNCHANGED vars
  BY <1>1, <1>4 DEF vars
<1> QED
  BY <1>1, <1>2, <1>3, <1>4
  DEF Next, DeleteResume, CreateJobDescription, JobStep, WorkflowEnds, CallbackLoads, ReportLost,
      CrashCallback, Database

(* Requests that come one after the other: SerialInv holds, so that the     *)
(* idempotency query finds at most one row that never failed.               *)
THEOREM SpecSerialInv ==
  ASSUME OneStatusPerJob, OneRequestAtATime
  PROVE  Spec => []SerialInv
<1>1. Init => OneActivePerPair
  BY InitStatus
<1>2. IInv /\ StatusInv /\ OneActivePerPair /\ [Next]_vars => OneActivePerPair'
  BY NextOneActive
<1>3. SerialInv <=> IInv /\ StatusInv /\ OneActivePerPair
  BY DEF SerialInv
<1> QED
  BY <1>1, <1>2, <1>3, SpecStatus, PTL DEF Spec

(* Two 201 responses for one pair name one analysis unless one of the two   *)
(* has failed, be it only for a time, when requests come one after the      *)
(* other: whatever crashed, timed out, was repeated or was lost in between. *)
THEOREM RepeatsAreIdempotent ==
  ASSUME OneStatusPerJob, OneRequestAtATime
  PROVE  Spec => []SamePairSameAnalysis
<1>1. SerialInv => SamePairSameAnalysis
  <2> SUFFICES ASSUME SerialInv, NEW a \in acked, NEW b \in acked, a[1] = b[1],
                      NeverFailed(a[2]), NeverFailed(b[2])
               PROVE  a[2] = b[2]
    BY DEF SamePairSameAnalysis
  <2>1. a[1] \in Pairs
    BY DEF SerialInv, IInv, TypeOK
  <2>2. {a[2], b[2]} \subseteq Clean(analyses, a[1])
    BY DEF SerialInv, IInv, AckedIsStored, NeverFailed, Clean, GetExisting
  <2> QED
    BY <2>1, <2>2 DEF SerialInv, OneActivePerPair
<1> QED
  BY <1>1, SpecSerialInv, PTL
=============================================================================
