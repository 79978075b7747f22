--------------------------- MODULE ConnectionPool ---------------------------
(***************************************************************************)
(* The database connections of the API workers (app/core/database.py):     *)
(* every worker process has an engine with PoolSize pooled connections and  *)
(* MaxOverflow more.  A session checks one out for its first query, which   *)
(* is the access check, and gives it back with the end of its transaction.  *)
(*                                                                          *)
(* POST /analyses keeps its connection while n8n is called                  *)
(* (app/services/n8n_service.py).  n8n may answer that call only when its   *)
(* workflow has ended, and so after the callback (app/api/internal/         *)
(* callback.py) that needs a connection too: requests, n8n, callbacks and   *)
(* pools can wait for each other in a circle, which only time-outs break.   *)
(* Of the data only one thing matters here: a callback that comes before    *)
(* its request has committed finds no row and is a 404.                     *)
(***************************************************************************)
EXTENDS Integers, FiniteSets

CONSTANTS Workers,      \* uvicorn worker processes
          Posts,        \* POST /analyses requests, one each
          PoolSize,     \* pool_size
          MaxOverflow,  \* max_overflow
          MaxFailures,  \* bound: handlers that fail
          None          \* no worker

ASSUME PoolAssumption ==
  /\ PoolSize \in Nat \ {0}
  /\ MaxOverflow \in Nat
  /\ MaxFailures \in Nat
  /\ IsFiniteSet(Posts)
  /\ None \notin Workers

(* A session is that of a request, or of the callback of its analysis.     *)
Sessions == Posts \X {"post", "callback"}

VARIABLES
  pooled,    \* connections that lie in the pool, by worker
  overflow,  \* connections that exist beyond PoolSize; negative before all exist
  session,   \* sessions
  job,       \* n8n executions, by request
  failures   \* handlers that failed so far

vars == <<pooled, overflow, session, job, failures>>

(* done: committed; failed: a 500 or a 404, and nothing was committed.     *)
Over == {"done", "failed"}

Session == [pc : {"new", "wait", "work", "webhook", "end"} \cup Over,
            worker : Workers \cup {None}]

(* answered: the webhook was answered.                                     *)
Job == [state : {"none", "running", "posted", "ended"}, answered : BOOLEAN]

TypeOK ==
  /\ pooled \in [Workers -> 0 .. PoolSize]
  /\ overflow \in [Workers -> -PoolSize .. MaxOverflow]
  /\ session \in [Sessions -> Session]
  /\ \A s \in Sessions : session[s].worker = None => session[s].pc \in {"new"} \cup Over
  /\ job \in [Posts -> Job]
  /\ failures \in 0 .. MaxFailures

Init ==
  /\ pooled = [w \in Workers |-> 0]
  /\ overflow = [w \in Workers |-> -PoolSize]
  /\ session = [s \in Sessions |-> [pc |-> "new", worker |-> None]]
  /\ job = [p \in Posts |-> [state |-> "none", answered |-> FALSE]]
  /\ failures = 0

Goto(s, from, to) ==
  /\ session[s].pc = from
  /\ session' = [session EXCEPT ![s].pc = to]

Post(p)     == <<p, "post">>
Callback(p) == <<p, "callback">>

EndsAs(s, outcome) == session' = [session EXCEPT ![s] = [pc |-> outcome, worker |-> None]]

(* The analysis of a request is in the table once that has committed.      *)
Stored(p) == session[Post(p)].pc = "done"

-----------------------------------------------------------------------------
(* QueuePool.                                                              *)

Available(w) == pooled[w] > 0 \/ overflow[w] < MaxOverflow

Checkout(s) ==
  LET w == session[s].worker IN
  /\ Goto(s, "wait", "work")
  /\ \/ /\ pooled[w] > 0
        /\ pooled' = [pooled EXCEPT ![w] = @ - 1]
        /\ UNCHANGED overflow
     \/ /\ pooled[w] = 0
        /\ overflow[w] < MaxOverflow
        /\ overflow' = [overflow EXCEPT ![w] = @ + 1]
        /\ UNCHANGED pooled
  /\ UNCHANGED <<job, failures>>

(* A connection beyond PoolSize is closed.                                 *)
Checkin(w) ==
  IF pooled[w] < PoolSize
  THEN pooled' = [pooled EXCEPT ![w] = @ + 1] /\ UNCHANGED overflow
  ELSE overflow' = [overflow EXCEPT ![w] = @ - 1] /\ UNCHANGED pooled

(* What n8n makes of the answer to its callback: after a 200 the workflow   *)
(* ends and the webhook is answered; after any other answer it does too, or *)
(* the report is posted again.                                             *)
Answer(s, ok) ==
  LET over == [state |-> "ended", answered |-> TRUE] IN
  IF s[2] = "callback"
  THEN \/ job' = [job EXCEPT ![s[1]] = over]
       \/ ~ok /\ job' = [job EXCEPT ![s[1]].state = "running"]
  ELSE UNCHANGED job

(* pool_timeout, 30 s: a 500 without a connection.                         *)
PoolTimeout(s) ==
  /\ session[s].pc = "wait"
  /\ ~Available(session[s].worker)
  /\ EndsAs(s, "failed")
  /\ Answer(s, FALSE)
  /\ UNCHANGED <<pooled, overflow, failures>>

-----------------------------------------------------------------------------
(* POST /analyses and the callback.                                        *)

Receive(p, w) ==
  /\ session[Post(p)].pc = "new"
  /\ session' = [session EXCEPT ![Post(p)] = [pc |-> "wait", worker |-> w]]
  /\ UNCHANGED <<pooled, overflow, job, failures>>

(* The webhook is called with the transaction open.                        *)
Trigger(p) ==
  /\ Goto(Post(p), "work", "webhook")
  /\ job' = [job EXCEPT ![p].state = "running"]
  /\ UNCHANGED <<pooled, overflow, failures>>

WebhookAnswered(p) ==
  /\ job[p].answered
  /\ Goto(Post(p), "webhook", "end")
  /\ UNCHANGED <<pooled, overflow, job, failures>>

(* Variant without a time-out.                                             *)
WebhookWaits(p) == WebhookAnswered(p)

(* The time-out of httpx, 30 s.                                            *)
WebhookTimedOut(p) ==
  /\ Goto(Post(p), "webhook", "end")
  /\ UNCHANGED <<pooled, overflow, job, failures>>

(* An analysis that exists already, a webhook that is refused, and a        *)
(* callback that finds its row.                                            *)
Work(s) ==
  /\ s[2] = "callback" => Stored(s[1])
  /\ Goto(s, "work", "end")
  /\ UNCHANGED <<pooled, overflow, job, failures>>

(* get_db: the commit gives the connection back.                           *)
Commit(s) ==
  /\ session[s].pc = "end"
  /\ EndsAs(s, "done")
  /\ Checkin(session[s].worker)
  /\ Answer(s, TRUE)
  /\ UNCHANGED failures

(* A callback that finds no row is a 404, an exception like any other: its *)
(* request still waits for n8n, or was rolled back.                        *)
NotFound(s) ==
  /\ s[2] = "callback"
  /\ session[s].pc = "work"
  /\ ~Stored(s[1])
  /\ EndsAs(s, "failed")
  /\ Checkin(session[s].worker)
  /\ Answer(s, FALSE)
  /\ UNCHANGED failures

(* Variant that forgets the connection of a request that failed.           *)
RollbackForgets(s) ==
  /\ session[s].pc \in {"work", "end"}
  /\ failures < MaxFailures
  /\ failures' = failures + 1
  /\ EndsAs(s, "failed")
  /\ Answer(s, FALSE)
  /\ UNCHANGED <<pooled, overflow>>

(* get_db: an exception, of a query or of the commit, rolls back, and      *)
(* leaving the block gives the connection back.                            *)
Rollback(s) ==
  /\ session[s].pc \in {"work", "end"}
  /\ failures < MaxFailures
  /\ failures' = failures + 1
  /\ EndsAs(s, "failed")
  /\ Checkin(session[s].worker)
  /\ Answer(s, FALSE)

(* n8n may answer the webhook before the workflow has ended, and posts the *)
(* callback to some worker.                                                *)
AnswerEarly(p) ==
  /\ job[p].state # "none"
  /\ ~job[p].answered
  /\ job' = [job EXCEPT ![p].answered = TRUE]
  /\ UNCHANGED <<pooled, overflow, session, failures>>

PostCallback(p, w) ==
  /\ job[p].state = "running"
  /\ job' = [job EXCEPT ![p].state = "posted"]
  /\ session' = [session EXCEPT ![Callback(p)] = [pc |-> "wait", worker |-> w]]
  /\ UNCHANGED <<pooled, overflow, failures>>

SessionStep(s) == Checkout(s) \/ PoolTimeout(s) \/ Work(s) \/ NotFound(s) \/ Commit(s)

PostStep(p) == SessionStep(Post(p)) \/ Trigger(p) \/ WebhookAnswered(p) \/ WebhookTimedOut(p)

Next ==
  \/ \E p \in Posts, w \in Workers : Receive(p, w) \/ PostCallback(p, w)
  \/ \E p \in Posts : PostStep(p) \/ SessionStep(Callback(p)) \/ AnswerEarly(p)
  \/ \E s \in Sessions : Rollback(s)

Spec == Init /\ [][Next]_vars

(* Handlers run on, or their time-outs end them.  That n8n answers the     *)
(* webhook or posts a callback is not assumed.                             *)
FairSpec ==
  /\ Spec
  /\ \A p \in Posts : WF_vars(PostStep(p)) /\ WF_vars(SessionStep(Callback(p)))

-----------------------------------------------------------------------------
Holders(w) ==
  {s \in Sessions : session[s].worker = w /\ session[s].pc \in {"work", "webhook", "end"}}

(* The connections of a worker that are neither in its pool nor closed are *)
(* exactly those its sessions hold, and there are never more than          *)
(* pool_size and max_overflow allow, whatever failed or timed out.         *)
PoolIsBalanced ==
  \A w \in Workers :
    /\ Cardinality(Holders(w)) = PoolSize + overflow[w] - pooled[w]
    /\ Cardinality(Holders(w)) <= PoolSize + MaxOverflow

(* Every POST /analyses and every callback ends, also when requests that   *)
(* wait for n8n hold all connections that the callbacks n8n waits for need. *)
EveryRequestEnds == \A s \in Sessions : session[s].pc = "wait" ~> session[s].pc \in Over

-----------------------------------------------------------------------------
(* The inductive invariant: an execution is started by a request that      *)
(* calls the webhook, and has one callback under way while it is posted.   *)
JobInv(p) ==
  /\ job[p].state # "none" => session[Post(p)].pc \in {"webhook", "end"} \cup Over
  /\ job[p].state = "posted" <=> session[Callback(p)].pc \in {"wait", "work", "end"}
  /\ session[Callback(p)].pc # "webhook"

IInv == TypeOK /\ PoolIsBalanced /\ \A p \in Posts : JobInv(p)
=============================================================================
