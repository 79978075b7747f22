-------------------------- MODULE AnalysisService --------------------------
(***************************************************************************)
(* Analysis orchestration: POST /analyses, the webhook to n8n and the       *)
(* callback from n8n, on a PostgreSQL database shared by all API workers    *)
(* (app/services/analysis_service.py, n8n_service.py,                       *)
(* app/api/internal/callback.py, app/api/v1/analyses.py).                   *)
(*                                                                          *)
(* Every request runs in one transaction: app/core/database.py opens a      *)
(* session per request, commits after the endpoint returned and rolls back  *)
(* on any exception.  Until the commit, a row that the request inserted is  *)
(* visible to nobody else; it lives in req[h].row.  One action is one       *)
(* awaited database or HTTP call, because any other request may run while   *)
(* the handler waits for it.  The isolation level is READ COMMITTED: each   *)
(* query reads what is committed at that moment.                            *)
(*                                                                          *)
(* n8n is external.  It is modelled by what the API sees of it: it accepts  *)
(* or refuses a webhook, its answer may come too late, and it may post      *)
(* callbacks at any time after it accepted, once or several times, or none. *)
(***************************************************************************)
EXTENDS AnalysisRepository

CONSTANTS Requests,      \* slots for concurrent POST /analyses requests
          Callbacks,     \* slots for concurrent callback requests
          OutcomeSets,   \* what one n8n job may report: sets of payloads
          LateAnswers,   \* may an accepted webhook still look failed to the API?
          MayRetry,      \* may n8n post a report again that was not answered 200?
          LostReports,   \* may a workflow end without a report that reaches the API?
          MaxCrashes     \* bound: handlers lost to worker crashes

(* AnalysisCallbackPayload without the id.  "scored" stands for the score  *)
(* and the three JSON fields.                                              *)
Payload == [status : Terminal, scored : BOOLEAN, explained : BOOLEAN]

ASSUME ServiceAssumption ==
  /\ OutcomeSets \subseteq SUBSET Payload
  /\ {} \notin OutcomeSets
  /\ LateAnswers \in BOOLEAN
  /\ MayRetry \in BOOLEAN
  /\ LostReports \in BOOLEAN
  /\ MaxCrashes \in Nat

VARIABLES
  live,      \* resumes that are not soft-deleted
  posted,    \* job descriptions that exist
  analyses,  \* committed rows of the analyses table, by id
  nextId,    \* next value of the id sequence; a rollback does not give it back
  req,       \* POST /analyses handlers
  cb,        \* callback handlers
  jobs,      \* n8n's executions, by the analysis_id they were started with
  acked,     \* <<pair, id>> of every 201 response sent
  crashes    \* handlers lost so far

vars == <<live, posted, analyses, nextId, req, cb, jobs, acked, crashes>>

Handler == [pc   : {"idle", "get_resume", "get_jd", "get_existing", "create", "extract",
                    "trigger", "awaiting", "commit", "reply"},
            want : Pairs \cup {None},
            id   : Ids \cup {0},
            row  : AnalysisRow \cup {None}]

IdleHandler == [pc |-> "idle", want |-> None, id |-> 0, row |-> None]

CallbackHandler == [id      : Ids \cup {0},
                    payload : Payload \cup {None},
                    loaded  : AnalysisRow \cup {None}]

IdleCallback == [id |-> 0, payload |-> None, loaded |-> None]

(* closed: the report was answered 200, or nobody will know that it was    *)
(* not; lost: the workflow is over and the API has no report of it.        *)
Job == [state    : {"none", "running", "calling", "closed", "lost"},
        pair     : Pairs \cup {None},
        outcomes : SUBSET Payload]

NoJob == [state |-> "none", pair |-> None, outcomes |-> {}]

TypeOK ==
  /\ live \subseteq Resumes
  /\ posted \subseteq JobDescriptions
  /\ analyses \in [Ids -> AnalysisRow \cup {None}]
  /\ nextId \in 1 .. MaxId + 1
  /\ req \in [Requests -> Handler]
  /\ cb \in [Callbacks -> CallbackHandler]
  /\ jobs \in [Ids -> Job]
  /\ acked \subseteq Pairs \X Ids
  /\ crashes \in 0 .. MaxCrashes

Init ==
  /\ live = Resumes
  /\ posted = {}
  /\ analyses = [i \in Ids |-> None]
  /\ nextId = 1
  /\ req = [h \in Requests |-> IdleHandler]
  /\ cb = [c \in Callbacks |-> IdleCallback]
  /\ jobs = [i \in Ids |-> NoJob]
  /\ acked = {}
  /\ crashes = 0

-----------------------------------------------------------------------------
(* The rest of the API, as far as it touches what an analysis reads.       *)

(* DELETE /resumes/{id}, see ResumeLibrary for its steps.                  *)
DeleteResume(r) ==
  /\ r \in live
  /\ live' = live \ {r}
  /\ UNCHANGED <<posted, analyses, nextId, req, cb, jobs, acked, crashes>>

(* POST /job-descriptions; nothing updates or deletes one.                 *)
CreateJobDescription(j) ==
  /\ j \notin posted
  /\ posted' = posted \cup {j}
  /\ UNCHANGED <<live, analyses, nextId, req, cb, jobs, acked, crashes>>

-----------------------------------------------------------------------------
(* POST /analyses.                                                         *)

Database == <<live, posted, analyses, nextId, crashes>>

Goto(h, from, to) ==
  /\ req[h].pc = from
  /\ req' = [req EXCEPT ![h].pc = to]

(* An exception ends the request: get_db rolls back, nothing was visible.  *)
Rollback(h) == req' = [req EXCEPT ![h] = IdleHandler]

Receive(h, p) ==
  /\ req[h].pc = "idle"
  /\ req' = [req EXCEPT ![h] = [pc |-> "get_resume", want |-> p, id |-> 0, row |-> None]]
  /\ UNCHANGED <<Database, cb, jobs, acked>>

(* ResumeService.get: 404 for a soft-deleted resume.                       *)
GetResume(h) ==
  /\ req[h].pc = "get_resume"
  /\ IF req[h].want[1] \in live THEN Goto(h, "get_resume", "get_jd") ELSE Rollback(h)
  /\ UNCHANGED <<Database, cb, jobs, acked>>

GetJobDescription(h) ==
  /\ req[h].pc = "get_jd"
  /\ IF req[h].want[2] \in posted THEN Goto(h, "get_jd", "get_existing") ELSE Rollback(h)
  /\ UNCHANGED <<Database, cb, jobs, acked>>

(* The idempotency check.  scalar_one_or_none raises when the query finds  *)
(* two rows, which ends the request with a 500.                            *)
CheckExisting(h) ==
  LET found == GetExisting(analyses, req[h].want) IN
  /\ req[h].pc = "get_existing"
  /\ \/ /\ found = {}
        /\ Goto(h, "get_existing", "create")
     \/ \E i \in found :
          /\ found = {i}
          /\ req' = [req EXCEPT ![h] =
                      [pc |-> "reply", want |-> req[h].want, id |-> i, row |-> None]]
     \/ /\ \E i, k \in found : i # k
        /\ Rollback(h)
  /\ UNCHANGED <<Database, cb, jobs, acked>>

(* Variant that numbers rows from the committed table, as a sequence that  *)
(* a rollback gives back would.                                            *)
CreateFromTable(h) ==
  LET free == {i \in Ids : \A k \in Stored(analyses) : k < i} IN
  /\ req[h].pc = "create"
  /\ \E i \in free :
       /\ \A k \in free : i <= k
       /\ nextId' = IF nextId <= i THEN i + 1 ELSE nextId
       /\ req' = [req EXCEPT ![h] =
                   [pc |-> "extract", want |-> req[h].want, id |-> i,
                    row |-> NewRow(req[h].want)]]
  /\ UNCHANGED <<live, posted, analyses, cb, jobs, acked, crashes>>

(* AnalysisRepository.create: INSERT and flush.  The sequence advances     *)
(* now, whether the transaction commits or not.                            *)
Create(h) ==
  /\ req[h].pc = "create"
  /\ nextId <= MaxId
  /\ nextId' = nextId + 1
  /\ req' = [req EXCEPT ![h] =
               [pc |-> "extract", want |-> req[h].want, id |-> nextId,
                row |-> NewRow(req[h].want)]]
  /\ UNCHANGED <<live, posted, analyses, cb, jobs, acked, crashes>>

(* nextval raises when the sequence is exhausted.                          *)
CreateExhausted(h) ==
  /\ req[h].pc = "create"
  /\ nextId > MaxId
  /\ Rollback(h)
  /\ UNCHANGED <<Database, cb, jobs, acked>>

(* extract_text reads the stored file and parses it, without awaiting; any *)
(* exception of the storage or the parser is a 500.                        *)
ExtractFails(h) ==
  /\ req[h].pc = "extract"
  /\ Rollback(h)
  /\ UNCHANGED <<Database, cb, jobs, acked>>

(* Variant that leaves the row "queued" for n8n to pick up.                *)
MarkNothing(h) ==
  /\ req[h].pc = "extract"
  /\ req' = [req EXCEPT ![h].pc = "trigger"]
  /\ UNCHANGED <<Database, cb, jobs, acked>>

(* extract_text, then update_status(analysis, "processing").               *)
MarkProcessing(h) ==
  /\ req[h].pc = "extract"
  /\ req' = [req EXCEPT ![h] =
               [pc |-> "trigger", want |-> req[h].want, id |-> req[h].id,
                row |-> UpdateStatus(req[h].row, "processing", None, None)]]
  /\ UNCHANGED <<Database, cb, jobs, acked>>

(* Variant that commits before it calls n8n, so that the callback cannot   *)
(* miss the row, and writes the whole row again at the end.                *)
WebhookAcceptedCommitted(h) ==
  /\ req[h].pc = "trigger"
  /\ jobs' = [jobs EXCEPT ![req[h].id] =
                [state |-> "running", pair |-> req[h].want, outcomes |-> {}]]
  /\ req' = [req EXCEPT ![h].pc = "awaiting"]
  /\ analyses' = [analyses EXCEPT ![req[h].id] = req[h].row]
  /\ UNCHANGED <<live, posted, nextId, cb, acked, crashes>>

(* trigger_analysis: n8n receives the POST and starts the workflow with    *)
(* the id and the texts of the pair.                                       *)
WebhookAccepted(h) ==
  /\ Goto(h, "trigger", "awaiting")
  /\ jobs' = [jobs EXCEPT ![req[h].id] =
                [state |-> "running", pair |-> req[h].want, outcomes |-> {}]]
  /\ UNCHANGED <<Database, cb, acked>>

(* Variant of the except branch that logs and leaves the row as it is.     *)
TriggerForgets(h) == req' = [req EXCEPT ![h].pc = "commit"]

(* The except branch: the row is committed as failed.                      *)
TriggerFailed(h) ==
  req' = [req EXCEPT ![h] =
            [pc |-> "commit", want |-> req[h].want, id |-> req[h].id,
             row |-> UpdateStatus(req[h].row, "failed", None, "n8n unreachable")]]

(* No connection, or an error status for a workflow that was not started.  *)
WebhookRefused(h) ==
  /\ req[h].pc = "trigger"
  /\ TriggerFailed(h)
  /\ UNCHANGED <<Database, cb, jobs, acked>>

WebhookAnswered(h) ==
  /\ Goto(h, "awaiting", "commit")
  /\ UNCHANGED <<Database, cb, jobs, acked>>

(* The 30 s timeout, a lost connection or an error status of a workflow    *)
(* that was started all the same.                                          *)
WebhookTimedOut(h) ==
  /\ LateAnswers
  /\ req[h].pc = "awaiting"
  /\ TriggerFailed(h)
  /\ UNCHANGED <<Database, cb, jobs, acked>>

(* get_db commits after the endpoint returned.                             *)
Commit(h) ==
  /\ Goto(h, "commit", "reply")
  /\ analyses' = [analyses EXCEPT ![req[h].id] = req[h].row]
  /\ UNCHANGED <<live, posted, nextId, cb, jobs, acked, crashes>>

(* Variant that answers before the commit, as a dependency whose exit code *)
(* runs after the response would.                                          *)
ReplyEarly(h) ==
  /\ req[h].pc \in {"commit", "reply"}
  /\ acked' = acked \cup {<<req[h].want, req[h].id>>}
  /\ req' = IF req[h].pc = "reply" THEN [req EXCEPT ![h] = IdleHandler] ELSE req
  /\ UNCHANGED <<Database, cb, jobs>>

(* The 201 response, sent after the commit.                                *)
Reply(h) ==
  /\ req[h].pc = "reply"
  /\ acked' = acked \cup {<<req[h].want, req[h].id>>}
  /\ req' = [req EXCEPT ![h] = IdleHandler]
  /\ UNCHANGED <<Database, cb, jobs>>

(* The worker process dies: the open transaction is rolled back, n8n's     *)
(* job goes on.                                                            *)
CrashRequest(h) ==
  /\ req[h].pc # "idle"
  /\ crashes < MaxCrashes
  /\ crashes' = crashes + 1
  /\ Rollback(h)
  /\ UNCHANGED <<live, posted, analyses, nextId, cb, jobs, acked>>

-----------------------------------------------------------------------------
(* n8n.                                                                    *)

(* The workflow of job i reached its HTTP Request node.                    *)
WorkflowEnds(i, outcomes) ==
  /\ jobs[i].state = "running"
  /\ jobs' = [jobs EXCEPT ![i] =
                [state |-> "calling", pair |-> jobs[i].pair, outcomes |-> outcomes]]
  /\ UNCHANGED <<Database, req, cb, acked>>

(* The workflow fails without an error branch that reports, n8n dies, its  *)
(* POST does not get through, or it gives up posting again.                *)
ReportLost(i) ==
  /\ LostReports
  /\ jobs[i].state \in {"running", "calling"}
  /\ jobs' = [jobs EXCEPT ![i].state = "lost"]
  /\ UNCHANGED <<Database, req, cb, acked>>

-----------------------------------------------------------------------------
(* POST /api/internal/analysis-callback, sent by n8n with the right secret.*)

(* What a POST that is not answered 200 means for a workflow that may or   *)
(* may not post it again.                                                  *)
Unanswered(i) == IF MayRetry THEN jobs ELSE [jobs EXCEPT ![i].state = "lost"]

(* get_by_id: the handler loads the committed row, or answers 404.  A      *)
(* workflow without retries posts once.                                    *)
CallbackLoads(c, i) ==
  /\ cb[c] = IdleCallback
  /\ jobs[i].state = "calling"
  /\ jobs' = IF i \notin Stored(analyses) THEN Unanswered(i)
             ELSE IF MayRetry THEN jobs ELSE [jobs EXCEPT ![i].state = "closed"]
  /\ IF i \in Stored(analyses)
     THEN \E p \in jobs[i].outcomes :
            cb' = [cb EXCEPT ![c] = [id |-> i, payload |-> p, loaded |-> analyses[i]]]
     ELSE cb' = cb
  /\ UNCHANGED <<Database, req, acked>>

(* The columns of the payload; a result is the one of the job's pair.      *)
ReportedResult(c) == IF cb[c].payload.scored THEN jobs[cb[c].id].pair ELSE None
ReportedError(c)  == IF cb[c].payload.explained THEN "workflow error" ELSE None

(* update_status, commit and the 200.  The UPDATE holds the row lock until *)
(* the commit and is applied to the latest version of the row, so the two  *)
(* are one step.  n8n may miss the answer.                                 *)
CallbackCommits(c) ==
  LET i   == cb[c].id
      new == UpdateStatus(cb[c].loaded, cb[c].payload.status,
                          ReportedResult(c), ReportedError(c))
  IN
  /\ i # 0
  /\ analyses' = [analyses EXCEPT ![i] = Flush(@, cb[c].loaded, new)]
  /\ jobs' \in {jobs, [jobs EXCEPT ![i].state = "closed"]}
  /\ cb' = [cb EXCEPT ![c] = IdleCallback]
  /\ UNCHANGED <<live, posted, nextId, req, acked, crashes>>

(* The worker process dies before the commit.                              *)
CrashCallback(c) ==
  /\ cb[c].id # 0
  /\ crashes < MaxCrashes
  /\ crashes' = crashes + 1
  /\ jobs' = Unanswered(cb[c].id)
  /\ cb' = [cb EXCEPT ![c] = IdleCallback]
  /\ UNCHANGED <<live, posted, analyses, nextId, req, acked>>

-----------------------------------------------------------------------------
(* Every step of a request that is under way, except a crash.              *)
HandlerStep(h) ==
  \/ GetResume(h) \/ GetJobDescription(h) \/ CheckExisting(h)
  \/ Create(h) \/ CreateExhausted(h) \/ ExtractFails(h) \/ MarkProcessing(h)
  \/ WebhookAccepted(h) \/ WebhookRefused(h) \/ WebhookAnswered(h) \/ WebhookTimedOut(h)
  \/ Commit(h) \/ Reply(h)

(* What becomes of an execution of n8n.                                    *)
JobStep(i) ==
  \/ \E o \in OutcomeSets : WorkflowEnds(i, o)
  \/ \E c \in Callbacks : CallbackLoads(c, i)
  \/ ReportLost(i)

Next ==
  \/ \E r \in Resumes : DeleteResume(r)
  \/ \E j \in JobDescriptions : CreateJobDescription(j)
  \/ \E h \in Requests, p \in Pairs : Receive(h, p)
  \/ \E h \in Requests : HandlerStep(h) \/ CrashRequest(h)
  \/ \E i \in Ids : JobStep(i)
  \/ \E c \in Callbacks : CallbackCommits(c) \/ CrashCallback(c)

Spec == Init /\ [][Next]_vars

(***************************************************************************)
(* Fairness.  A handler that waits for the database or for n8n goes on:     *)
(* the event loop resumes it, and httpx gives up after 30 s.  An execution  *)
(* of n8n does not stand still for ever: it goes on to its report, posts    *)
(* it, or is lost; that a report arrives is not assumed where LostReports.  *)
(* Nobody has to send requests, delete resumes or crash.                    *)
(***************************************************************************)
Fairness ==
  /\ \A h \in Requests : WF_vars(HandlerStep(h))
  /\ \A i \in Ids : WF_vars(JobStep(i))
  /\ \A c \in Callbacks : WF_vars(CallbackCommits(c))

FairSpec == Spec /\ Fairness

-----------------------------------------------------------------------------
(* Safety.                                                                 *)

(* A result is stored only on the row of the pair it was computed for.     *)
(* The callback carries nothing but an id, so this rests on ids that are   *)
(* never used twice, not even after the transaction that took one was      *)
(* rolled back while its job runs on.                                      *)
ResultBelongsToPair ==
  \A i \in Stored(analyses) : analyses[i].result \in {None, analyses[i].pair}

(* What GET /analyses/{id} and GET /results can show: a row that started,  *)
(* is being processed or is finished, and has finished_at exactly when its *)
(* status is terminal, whatever callbacks wrote which columns of it.       *)
(* "queued" and half-updated rows stay inside their transaction.           *)
VisibleRowsAreCoherent ==
  \A i \in Stored(analyses) :
    /\ analyses[i].started # None
    /\ analyses[i].status \in Terminal \cup {"processing"}
    /\ analyses[i].finished # None <=> analyses[i].status \in Terminal

(* A 201 response names a row that is stored for the pair that was asked   *)
(* for, also when the worker crashes right after the response.             *)
AckedIsStored ==
  \A a \in acked : /\ a[2] \in Stored(analyses)
                   /\ analyses[a[2]].pair = a[1]

(* A row that has not failed, not even for a time: a late report makes a   *)
(* row "done" whose webhook looked failed, but its error stays.            *)
NeverFailed(i) == analyses[i].status \in Active /\ analyses[i].error = None

(* Two responses for one pair name one analysis, unless one of the two has *)
(* failed, be it only for a time: POST /analyses is idempotent.  True of   *)
(* requests sent one after the other.                                      *)
SamePairSameAnalysis ==
  \A a, b \in acked :
    (a[1] = b[1] /\ NeverFailed(a[2]) /\ NeverFailed(b[2])) => a[2] = b[2]

(* No step removes a row, changes its pair, takes a terminal row back to   *)
(* "processing" or drops a stored result: neither the late commit of the   *)
(* request that created it nor a callback that loaded an older version.    *)
RowsNeverRegress ==
  [][\A i \in Stored(analyses) :
       /\ i \in Stored(analyses')
       /\ analyses'[i].pair = analyses[i].pair
       /\ analyses[i].status \in Terminal => analyses'[i].status \in Terminal
       /\ analyses[i].result # None => analyses'[i].result = analyses[i].result]_vars

(* The row says that n8n could not be reached, which a webhook that was    *)
(* accepted and answered too late says as well.                            *)
GivenUp(row) == row.status = "failed" /\ row.error = "n8n unreachable"

(* A row that is done or failed keeps its status: what a client that polls *)
(* until then, as the integration checklist tells it to, relies on.  Only  *)
(* the row of a webhook that looked failed and had started a workflow all  *)
(* the same may still be overtaken by the workflow's report.               *)
TerminalIsFinal ==
  [][\A i \in Stored(analyses) :
       (/\ analyses[i].status \in Terminal
        /\ GivenUp(analyses[i]) => jobs[i].state = "none")
       => analyses'[i].status = analyses[i].status]_vars

Ended(i) == i \in Stored(analyses) /\ analyses[i].status \in Terminal

(* Every analysis a client can see ends, unless n8n's report is lost: one  *)
(* whose webhook failed, whose callback handler crashed or whose callbacks *)
(* loaded it too early does not wait for a report that nobody will send.   *)
EveryReportedAnalysisEnds ==
  \A i \in Ids : i \in Stored(analyses) ~> Ended(i) \/ jobs[i].state = "lost"

(* Every analysis a client can see ends, as the clients that poll for it   *)
(* are told.                                                               *)
EveryAnalysisEnds == \A i \in Ids : i \in Stored(analyses) ~> Ended(i)

-----------------------------------------------------------------------------
(* The inductive invariant behind the safety properties.                   *)

(* Handlers whose inserted row is not committed yet.                       *)
Owns(h) == req[h].pc \in {"extract", "trigger", "awaiting", "commit"}

(* A row as everybody but its own transaction may see it.                  *)
Presentable(row) ==
  /\ row.started # None
  /\ row.status \in Terminal \cup {"processing"}
  /\ row.finished # None <=> row.status \in Terminal
  /\ row.result \in {None, row.pair}

(* What an uncommitted row holds at each point of create_analysis, and     *)
(* that its id is taken but not in the table.                              *)
OwnerInv ==
  \A h \in Requests :
    /\ req[h].pc # "idle" => req[h].want \in Pairs
    /\ Owns(h) =>
         /\ req[h].id \in Ids
         /\ req[h].id < nextId
         /\ analyses[req[h].id] = None
         /\ req[h].row \in AnalysisRow
         /\ req[h].row.pair = req[h].want
         /\ req[h].row.result = None
         /\ jobs[req[h].id].state # "none" => jobs[req[h].id].pair = req[h].want
         /\ req[h].row.status # "done"
         /\ IF req[h].pc = "extract" THEN req[h].row = NewRow(req[h].want)
                                     ELSE Presentable(req[h].row)
    /\ req[h].pc = "reply" =>
         /\ req[h].id \in Stored(analyses)
         /\ analyses[req[h].id].pair = req[h].want

OwnersAreDistinct ==
  \A g, h \in Requests : g # h /\ Owns(g) /\ Owns(h) => req[g].id # req[h].id

(* Every id in use was drawn from the sequence; a committed row agrees     *)
(* with the job that was started for it.                                   *)
RowInv ==
  \A i \in Ids :
    /\ jobs[i].state # "none" => i < nextId
    /\ i \in Stored(analyses) =>
         /\ i < nextId
         /\ Presentable(analyses[i])
         /\ jobs[i].state # "none" => jobs[i].pair = analyses[i].pair

(* What a callback handler loaded may be outdated, but only by progress    *)
(* that other callbacks made since.                                        *)
CallbackInv ==
  \A c \in Callbacks : cb[c].id # 0 =>
    LET now == analyses[cb[c].id] IN
    /\ cb[c].id \in Stored(analyses)
    /\ cb[c].payload \in Payload
    /\ cb[c].loaded \in AnalysisRow
    /\ Presentable(cb[c].loaded)
    /\ jobs[cb[c].id].state # "none"
    /\ cb[c].loaded.pair = now.pair
    /\ cb[c].loaded.status \in Terminal => now.status \in Terminal
    /\ cb[c].loaded.result # None => now.result = cb[c].loaded.result

IInv ==
  /\ TypeOK
  /\ OwnerInv
  /\ OwnersAreDistinct
  /\ RowInv
  /\ CallbackInv
  /\ AckedIsStored

-----------------------------------------------------------------------------
(* When repeats are idempotent and a terminal row is final: what it takes   *)
(* of the clients and of n8n, and the invariant that then holds.            *)

OneRequestAtATime == \A g, h \in Requests : g = h
OneStatusPerJob   == \A o \in OutcomeSets : \A p, q \in o : p.status = q.status

(* A row becomes terminal with the one status of its job ...               *)
JobStatusInv ==
  \A i \in Ids :
    /\ \A p, q \in jobs[i].outcomes : p.status = q.status
    /\ jobs[i].state \in {"none", "running"} => jobs[i].outcomes = {}
    /\ /\ i \in Stored(analyses) /\ analyses[i].status \in Terminal
       /\ jobs[i].state # "none" /\ ~GivenUp(analyses[i])
       => /\ jobs[i].state # "running"
          /\ \A p \in jobs[i].outcomes : p.status = analyses[i].status

(* ... or as "failed" because the webhook looked failed; before the webhook *)
(* there is no job.                                                        *)
OwnerStatusInv ==
  \A h \in Requests : Owns(h) =>
    /\ req[h].row.status = "failed" => req[h].pc = "commit" /\ GivenUp(req[h].row)
    /\ req[h].pc \in {"extract", "trigger"} => jobs[req[h].id].state = "none"

(* A callback reports an outcome of its job; a row that it found done has  *)
(* not failed since.                                                       *)
CallbackStatusInv ==
  \A c \in Callbacks : cb[c].id # 0 =>
    /\ cb[c].payload \in jobs[cb[c].id].outcomes
    /\ cb[c].loaded.status = "done" => analyses[cb[c].id].status = "done"

StatusInv == JobStatusInv /\ OwnerStatusInv /\ CallbackStatusInv

(* The rows of a pair that have not failed, not even for a time.           *)
Clean(table, p) == {i \in GetExisting(table, p) : table[i].error = None}

(* Of the rows that the idempotency query finds at most one never failed,  *)
(* and while a request is about to add one there is none.                  *)
OneActivePerPair ==
  /\ \A p \in Pairs : \A i, k \in Clean(analyses, p) : i = k
  /\ \A h \in Requests : (req[h].pc = "create" \/ Owns(h)) =>
                           Clean(analyses, req[h].want) = {}

SerialInv == IInv /\ StatusInv /\ OneActivePerPair

-----------------------------------------------------------------------------
(* The abstract specification: handlers, sequence, jobs and the columns     *)
(* that clients do not interpret are hidden.                                *)
Show(row) == IF row = None THEN None
             ELSE [pair |-> row.pair, status |-> row.status, result |-> row.result]

BoardView == [i \in Ids |-> Show(analyses[i])]

Board == INSTANCE AnalysisBoard WITH board <- BoardView, told <- acked

ASSUME BoardAssumption == None \notin Board!Entry

(* Every behaviour of the service is one of the board.                     *)
ImplementsBoard == Board!Spec
=============================================================================
