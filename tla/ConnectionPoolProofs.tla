------------------------ MODULE ConnectionPoolProofs ------------------------
(***************************************************************************)
(* Proofs about ConnectionPool: the inductive invariant IInv, and with it   *)
(* that no connection is lost, for any workers, requests and pool sizes.    *)
(***************************************************************************)
EXTENDS ConnectionPool, FiniteSetTheorems, TLAPS

Holding == {"work", "webhook", "end"}

(* A session is that of a request or of a callback, never of both.         *)
LEMMA SessionKinds ==
  /\ \A p \in Posts : Post(p) \in Sessions /\ Callback(p) \in Sessions
  /\ \A p, q \in Posts : /\ Post(p) # Callback(q)
                         /\ Post(p) = Post(q) => p = q
                         /\ Callback(p) = Callback(q) => p = q
  /\ \A p \in Posts : /\ Post(p)[1] = p /\ Post(p)[2] = "post"
                      /\ Callback(p)[1] = p /\ Callback(p)[2] = "callback"
  /\ \A s \in Sessions : \E p \in Posts : s = Post(p) \/ s = Callback(p)
BY DEF Sessions, Post, Callback

LEMMA HoldersAreFinite == \A w \in Workers : IsFiniteSet(Holders(w))
<1>1. IsFiniteSet({"post", "callback"})
  <2>1. IsFiniteSet({} \cup {"post"})
    BY FS_EmptySet, FS_AddElement
  <2>2. IsFiniteSet(({} \cup {"post"}) \cup {"callback"})
    BY <2>1, FS_AddElement
  <2>3. ({} \cup {"post"}) \cup {"callback"} = {"post", "callback"}
    OBVIOUS
  <2> QED
    BY <2>2, <2>3
<1>2. IsFiniteSet(Sessions)
  BY <1>1, FS_Product, PoolAssumption DEF Sessions
<1>3. \A w \in Workers : Holders(w) \in SUBSET Sessions
  BY DEF Holders
<1> QED
  BY <1>2, <1>3, FS_Subset

(* What a change of one session does to the holders of connections.        *)
LEMMA SessionBecomes ==
  ASSUME TypeOK, NEW s \in Sessions, NEW r \in Session,
         r.worker = None => r.pc \in {"new"} \cup Over,
         session' = [session EXCEPT ![s] = r]
  PROVE  /\ session' \in [Sessions -> Session]
         /\ \A q \in Sessions : session'[q].worker = None => session'[q].pc \in {"new"} \cup Over
         /\ session'[s] = r
         /\ \A q \in Sessions \ {s} : session'[q] = session[q]
         /\ \A w \in Workers : Holders(w)' = IF r.worker = w /\ r.pc \in Holding
                                             THEN Holders(w) \cup {s}
                                             ELSE Holders(w) \ {s}
<1>1. session' \in [Sessions -> Session] /\ session'[s] = r
      /\ \A q \in Sessions \ {s} : session'[q] = session[q]
  BY DEF TypeOK
<1>2. \A q \in Sessions : session'[q].worker = None => session'[q].pc \in {"new"} \cup Over
  BY <1>1 DEF TypeOK
<1>3. ASSUME NEW w \in Workers
      PROVE  Holders(w)' = IF r.worker = w /\ r.pc \in Holding
                           THEN Holders(w) \cup {s} ELSE Holders(w) \ {s}
  BY <1>1 DEF Holders, Holding
<1> QED
  BY <1>1, <1>2, <1>3

(* Steps of a session that take and give back no connection.               *)
LEMMA SessionKeeps ==
  ASSUME TypeOK, PoolIsBalanced, NEW s \in Sessions, NEW r \in Session,
         r.worker = None => r.pc \in {"new"} \cup Over,
         session' = [session EXCEPT ![s] = r],
         \/ session[s].pc \notin Holding /\ r.pc \notin Holding
         \/ session[s].pc \in Holding /\ r.pc \in Holding /\ r.worker = session[s].worker,
         UNCHANGED <<pooled, overflow>>, job' \in [Posts -> Job], failures' \in 0 .. MaxFailures
  PROVE  TypeOK' /\ PoolIsBalanced'
<1>1. \A w \in Workers : Holders(w)' = IF r.worker = w /\ r.pc \in Holding
                                       THEN Holders(w) \cup {s} ELSE Holders(w) \ {s}
  BY SessionBecomes
<1>2. TypeOK'
  BY SessionBecomes DEF TypeOK
<1>3. ASSUME NEW w \in Workers PROVE Holders(w)' = Holders(w)
  <2>1. s \in Holders(w) <=> session[s].worker = w /\ session[s].pc \in Holding
    BY DEF Holders, Holding
  <2>2. s \in Holders(w) <=> r.worker = w /\ r.pc \in Holding
    BY <2>1
  <2> QED
    BY <1>1, <2>2
<1> QED
  BY <1>2, <1>3 DEF PoolIsBalanced

(* A connection is taken from the pool, or made.                           *)
LEMMA CheckoutStep ==
  ASSUME TypeOK, PoolIsBalanced, NEW s \in Sessions, Checkout(s)
  PROVE  TypeOK' /\ PoolIsBalanced'
<1> DEFINE r == [session[s] EXCEPT !.pc = "work"]
<1>0. PICK w \in Workers : w = session[s].worker
  BY DEF TypeOK, Session, Checkout, Goto, Over
<1>1. session[s] \in Session /\ session[s].pc = "wait" /\ session[s].worker = w
  BY <1>0 DEF TypeOK, Session, Checkout, Goto
<1>2. r \in Session /\ r.worker = w /\ r.pc = "work" /\ r.worker # None
  BY <1>1, PoolAssumption DEF Session
<1>3. session' = [session EXCEPT ![s] = r]
  BY <1>1 DEF Checkout, Goto, TypeOK
<1>4. pooled[w] \in 0 .. PoolSize /\ overflow[w] \in -PoolSize .. MaxOverflow
      /\ PoolSize \in Nat /\ MaxOverflow \in Nat
  BY <1>1, PoolAssumption DEF TypeOK
<1>5. /\ pooled' \in [Workers -> 0 .. PoolSize]
      /\ overflow' \in [Workers -> -PoolSize .. MaxOverflow]
      /\ overflow'[w] - pooled'[w] = overflow[w] - pooled[w] + 1
      /\ \A v \in Workers \ {w} : overflow'[v] = overflow[v] /\ pooled'[v] = pooled[v]
  <2>1. CASE pooled[w] > 0 /\ pooled' = [pooled EXCEPT ![w] = @ - 1] /\ UNCHANGED overflow
    BY <1>4, <2>1 DEF TypeOK
  <2>2. CASE overflow[w] < MaxOverflow /\ overflow' = [overflow EXCEPT ![w] = @ + 1]
             /\ UNCHANGED pooled
    BY <1>4, <2>2 DEF TypeOK
  <2> QED
    BY <1>1, <2>1, <2>2 DEF Checkout
<1> HIDE DEF r
<1>6. /\ Holders(w)' = Holders(w) \cup {s} /\ s \notin Holders(w)
      /\ \A v \in Workers \ {w} : Holders(v)' = Holders(v)
  <2>1. \A v \in Workers : s \notin Holders(v)
    BY <1>1 DEF Holders
  <2>2. \A v \in Workers : Holders(v)' = IF r.worker = v /\ r.pc \in Holding
                                         THEN Holders(v) \cup {s} ELSE Holders(v) \ {s}
    BY <1>2, <1>3, SessionBecomes
  <2>3. r.pc \in Holding
    BY <1>2 DEF Holding
  <2> QED
    BY <1>2, <2>1, <2>2, <2>3
<1>7. TypeOK'
  BY <1>2, <1>3, <1>5, SessionBecomes DEF TypeOK, Checkout
<1>8. Cardinality(Holders(w)') = Cardinality(Holders(w)) + 1
  BY <1>1, <1>6, HoldersAreFinite, FS_AddElement
<1>9. /\ Cardinality(Holders(w)') = PoolSize + overflow'[w] - pooled'[w]
      /\ Cardinality(Holders(w)') <= PoolSize + MaxOverflow
  <2>1. Cardinality(Holders(w)) = PoolSize + overflow[w] - pooled[w]
    BY <1>1 DEF PoolIsBalanced
  <2>2. pooled'[w] \in 0 .. PoolSize /\ overflow'[w] \in -PoolSize .. MaxOverflow
    BY <1>1, <1>5
  <2> QED
    BY <1>4, <1>5, <1>8, <2>1, <2>2
<1>10. ASSUME NEW v \in Workers
       PROVE  /\ Cardinality(Holders(v)') = PoolSize + overflow'[v] - pooled'[v]
              /\ Cardinality(Holders(v)') <= PoolSize + MaxOverflow
  <2>1. CASE v = w
    BY <1>9, <2>1
  <2>2. CASE v # w
    BY <1>5, <1>6, <2>2 DEF PoolIsBalanced
  <2> QED
    BY <2>1, <2>2
<1> QED
  BY <1>7, <1>10 DEF PoolIsBalanced

(* The end of a transaction gives back the connection of its session.      *)
LEMMA CheckinStep ==
  ASSUME TypeOK, PoolIsBalanced, NEW s \in Sessions, session[s].pc \in Holding,
         NEW outcome \in Over, EndsAs(s, outcome), Checkin(session[s].worker),
         job' \in [Posts -> Job], failures' \in 0 .. MaxFailures
  PROVE  TypeOK' /\ PoolIsBalanced'
<1> DEFINE r == [pc |-> outcome, worker |-> None]
<1>0. PICK w \in Workers : w = session[s].worker
  BY DEF TypeOK, Session, Holding, Over
<1>1. session[s] \in Session /\ session[s].worker = w /\ s \in Holders(w)
  BY <1>0 DEF TypeOK, Session, Holders, Holding
<1>2. r \in Session /\ r.pc \in Over
  BY DEF Session
<1>3. pooled[w] \in 0 .. PoolSize /\ overflow[w] \in -PoolSize .. MaxOverflow
      /\ PoolSize \in Nat /\ MaxOverflow \in Nat
  BY <1>1, PoolAssumption DEF TypeOK
<1>4. session' = [session EXCEPT ![s] = r]
  BY DEF EndsAs
<1>5. Checkin(w)
  BY <1>1
<1> HIDE DEF r
<1>6. /\ Holders(w)' = Holders(w) \ {s}
      /\ \A v \in Workers \ {w} : Holders(v)' = Holders(v)
  <2>1. \A v \in Workers \ {w} : s \notin Holders(v)
    BY <1>1 DEF Holders
  <2>2. r.pc \notin Holding
    BY <1>2 DEF Holding, Over
  <2>3. \A v \in Workers : Holders(v)' = IF r.worker = v /\ r.pc \in Holding
                                         THEN Holders(v) \cup {s} ELSE Holders(v) \ {s}
    BY <1>2, <1>4, SessionBecomes
  <2> QED
    BY <2>1, <2>2, <2>3
<1>7. /\ Cardinality(Holders(w)') = Cardinality(Holders(w)) - 1
      /\ Cardinality(Holders(w)') \in Nat
      /\ Cardinality(Holders(w)) = PoolSize + overflow[w] - pooled[w]
  <2>1. IsFiniteSet(Holders(w)) /\ IsFiniteSet(Holders(w) \ {s})
    BY <1>1, HoldersAreFinite, FS_RemoveElement
  <2>2. Cardinality(Holders(w) \ {s}) = Cardinality(Holders(w)) - 1
    BY <1>1, <2>1, FS_RemoveElement
  <2>3. Cardinality(Holders(w) \ {s}) \in Nat
    BY <2>1, FS_CardinalityType
  <2> QED
    BY <1>1, <1>6, <2>2, <2>3 DEF PoolIsBalanced
<1>8. /\ pooled' \in [Workers -> 0 .. PoolSize]
      /\ overflow' \in [Workers -> -PoolSize .. MaxOverflow]
      /\ overflow'[w] - pooled'[w] = overflow[w] - pooled[w] - 1
      /\ \A v \in Workers \ {w} : overflow'[v] = overflow[v] /\ pooled'[v] = pooled[v]
  <2>1. CASE pooled[w] < PoolSize
    <3>1. pooled' = [pooled EXCEPT ![w] = @ + 1] /\ UNCHANGED overflow
      BY <1>5, <2>1 DEF Checkin
    <3> QED
      BY <1>1, <1>3, <2>1, <3>1 DEF TypeOK
  <2>2. CASE ~(pooled[w] < PoolSize)
    <3>1. overflow' = [overflow EXCEPT ![w] = @ - 1] /\ UNCHANGED pooled
      BY <1>5, <2>2 DEF Checkin
    <3>2. overflow[w] - 1 \in -PoolSize .. MaxOverflow
      <4>1. pooled[w] = PoolSize /\ Cardinality(Holders(w)) - 1 >= 0
        BY <1>3, <1>7, <2>2
      <4> QED
        BY <1>3, <1>7, <4>1
    <3> QED
      BY <1>1, <1>3, <3>1, <3>2 DEF TypeOK
  <2> QED
    BY <2>1, <2>2
<1>9. TypeOK'
  BY <1>2, <1>4, <1>8, SessionBecomes DEF TypeOK
<1>10. ASSUME NEW v \in Workers
       PROVE  /\ Cardinality(Holders(v)') = PoolSize + overflow'[v] - pooled'[v]
              /\ Cardinality(Holders(v)') <= PoolSize + MaxOverflow
  <2>1. CASE v = w
    <3>1. pooled'[w] \in 0 .. PoolSize /\ overflow'[w] \in -PoolSize .. MaxOverflow
      BY <1>1, <1>8
    <3>2. Cardinality(Holders(w)') = PoolSize + overflow'[w] - pooled'[w]
      BY <1>3, <1>7, <1>8, <3>1
    <3> QED
      BY <1>3, <2>1, <3>1, <3>2
  <2>2. CASE v # w
    BY <1>6, <1>8, <2>2 DEF PoolIsBalanced
  <2> QED
    BY <2>1, <2>2
<1> QED
  BY <1>9, <1>10 DEF PoolIsBalanced

-----------------------------------------------------------------------------
(* What is true of the other requests when one of them moves.              *)
LEMMA OthersStay ==
  ASSUME NEW p \in Posts, \A q \in Posts : JobInv(q),
         \A q \in Posts \ {p} : job'[q] = job[q],
         \A s \in Sessions \ {Post(p), Callback(p)} : session'[s] = session[s],
         JobInv(p)'
  PROVE  \A q \in Posts : JobInv(q)'
<1> SUFFICES ASSUME NEW q \in Posts \ {p} PROVE JobInv(q)'
  OBVIOUS
<1>1. /\ Post(q) \in Sessions \ {Post(p), Callback(p)}
      /\ Callback(q) \in Sessions \ {Post(p), Callback(p)}
  BY SessionKinds
<1> QED
  BY <1>1 DEF JobInv

LEMMA AnswerType ==
  ASSUME TypeOK, NEW s \in Sessions, NEW ok \in BOOLEAN, Answer(s, ok)
  PROVE  /\ job' \in [Posts -> Job]
         /\ \A q \in Posts \ {s[1]} : job'[q] = job[q]
         /\ s[2] # "callback" => job' = job
         /\ s[2] = "callback" => job'[s[1]].state \in {"running", "ended"}
<1>1. s[1] \in Posts
  BY SessionKinds
<1>2. CASE s[2] # "callback"
  BY <1>2 DEF Answer, TypeOK
<1>3. CASE s[2] = "callback"
  <2>1. PICK j \in Job : job' = [job EXCEPT ![s[1]] = j] /\ j.state \in {"running", "ended"}
    <3> DEFINE over  == [state |-> "ended", answered |-> TRUE]
               again == [job[s[1]] EXCEPT !.state = "running"]
    <3>1. over \in Job /\ over.state = "ended" /\ again \in Job /\ again.state = "running"
      BY <1>1 DEF TypeOK, Job
    <3>2. job' = [job EXCEPT ![s[1]] = over] \/ job' = [job EXCEPT ![s[1]] = again]
      BY <1>3 DEF Answer
    <3> HIDE DEF over, again
    <3> QED
      BY <3>1, <3>2
  <2> QED
    BY <1>1, <1>3, <2>1 DEF TypeOK
<1> QED
  BY <1>2, <1>3

(* A session that ends, with or without an answer of 200.                  *)
LEMMA EndKeepsJobs ==
  ASSUME TypeOK, \A q \in Posts : JobInv(q), NEW s \in Sessions, NEW ok \in BOOLEAN,
         session[s].pc \in {"wait", "work", "end"},
         NEW outcome \in Over, EndsAs(s, outcome), Answer(s, ok)
  PROVE  \A q \in Posts : JobInv(q)'
<1>1. PICK p \in Posts : s = Post(p) \/ s = Callback(p)
  BY SessionKinds
<1>2. /\ session'[s].pc \in Over
      /\ \A q \in Sessions \ {s} : session'[q] = session[q]
  BY DEF TypeOK, EndsAs
<1>3. /\ \A q \in Posts \ {p} : job'[q] = job[q]
      /\ s = Post(p) => job' = job
      /\ s = Callback(p) => job'[p].state \in {"running", "ended"}
  BY <1>1, AnswerType, SessionKinds
<1>4. JobInv(p)'
  <2>1. CASE s = Post(p)
    <3>1. session'[Callback(p)] = session[Callback(p)]
      BY <1>2, <2>1, SessionKinds
    <3> QED
      BY <1>2, <1>3, <2>1, <3>1 DEF JobInv, Over
  <2>2. CASE s = Callback(p)
    <3>1. session'[Post(p)] = session[Post(p)]
      BY <1>2, <2>2, SessionKinds
    <3>2. job[p].state = "posted"
      BY <2>2 DEF JobInv, Over
    <3> QED
      BY <1>2, <1>3, <2>2, <3>1, <3>2 DEF JobInv, Over
  <2> QED
    BY <1>1, <2>1, <2>2
<1> QED
  BY <1>1, <1>2, <1>3, <1>4, OthersStay

(* A session of a request moves on and no execution changes.               *)
LEMMA MoveKeepsJobs ==
  ASSUME TypeOK, \A q \in Posts : JobInv(q), NEW s \in Sessions, NEW r \in Session,
         session' = [session EXCEPT ![s] = r], UNCHANGED job,
         \/ session[s].pc \in {"wait", "work"} /\ r.pc \in {"work", "end"}
         \/ \E p \in Posts : s = Post(p) /\ session[s].pc = "webhook" /\ r.pc = "end"
         \/ \E p \in Posts : s = Post(p) /\ session[s].pc = "new" /\ r.pc = "wait"
  PROVE  \A q \in Posts : JobInv(q)'
<1>1. PICK p \in Posts : s = Post(p) \/ s = Callback(p)
  BY SessionKinds
<1>2. /\ session'[s] = r
      /\ \A q \in Sessions \ {s} : session'[q] = session[q]
  BY DEF TypeOK
<1>3. JobInv(p)'
  <2>1. CASE s = Post(p)
    <3>1. session'[Callback(p)] = session[Callback(p)]
      BY <1>2, <2>1, SessionKinds
    <3> QED
      BY <1>2, <2>1, <3>1 DEF JobInv, Over
  <2>2. CASE s = Callback(p)
    <3>1. session'[Post(p)] = session[Post(p)]
      BY <1>2, <2>2, SessionKinds
    <3>2. session[s].pc \in {"wait", "work"} /\ r.pc \in {"work", "end"}
      BY <2>2, SessionKinds
    <3> QED
      BY <1>2, <2>2, <3>1, <3>2 DEF JobInv
  <2> QED
    BY <1>1, <2>1, <2>2
<1> QED
  BY <1>1, <1>2, <1>3, OthersStay

-----------------------------------------------------------------------------
LEMMA InitIInv == Init => IInv
<1> SUFFICES ASSUME Init PROVE IInv
  OBVIOUS
<1>1. TypeOK
  BY PoolAssumption DEF Init, TypeOK, Session, Job
<1>2. ASSUME NEW w \in Workers
      PROVE  /\ Cardinality(Holders(w)) = PoolSize + overflow[w] - pooled[w]
             /\ Cardinality(Holders(w)) <= PoolSize + MaxOverflow
  <2>1. Holders(w) = {}
    BY DEF Init, Holders
  <2>2. Cardinality(Holders(w)) = 0
    BY <2>1, FS_EmptySet
  <2> QED
    BY <2>2, PoolAssumption DEF Init
<1>3. ASSUME NEW p \in Posts PROVE JobInv(p)
  BY SessionKinds DEF Init, JobInv
<1> QED
  BY <1>1, <1>2, <1>3 DEF IInv, PoolIsBalanced

(* A transaction that ends gives its connection back, whatever n8n makes of *)
(* the answer.                                                             *)
LEMMA EndIInv ==
  ASSUME IInv, NEW s \in Sessions, session[s].pc \in {"work", "end"},
         NEW outcome \in Over, EndsAs(s, outcome), Checkin(session[s].worker),
         NEW ok \in BOOLEAN, Answer(s, ok), failures' \in 0 .. MaxFailures
  PROVE  IInv'
<1>1. job' \in [Posts -> Job]
  BY AnswerType DEF IInv
<1>2. TypeOK' /\ PoolIsBalanced'
  BY <1>1, CheckinStep DEF IInv, Holding
<1>3. \A q \in Posts : JobInv(q)'
  BY EndKeepsJobs DEF IInv
<1> QED
  BY <1>2, <1>3 DEF IInv

(* Checkout, time-out, work, 404 and commit of a session.                  *)
LEMMA SessionStepIInv ==
  ASSUME IInv, NEW s \in Sessions, SessionStep(s)
  PROVE  IInv'
<1>1. session[s] \in Session /\ failures' \in 0 .. MaxFailures
  BY DEF IInv, TypeOK, SessionStep, Checkout, PoolTimeout, Work, NotFound, Commit
<1>2. CASE Checkout(s)
  <2> DEFINE r == [session[s] EXCEPT !.pc = "work"]
  <2>1. r \in Session /\ r.pc = "work" /\ session' = [session EXCEPT ![s] = r]
    BY <1>1, <1>2 DEF Checkout, Goto, Session, IInv, TypeOK
  <2> HIDE DEF r
  <2>2. session[s].pc = "wait" /\ UNCHANGED job
    BY <1>2 DEF Checkout, Goto
  <2> QED
    BY <1>2, <2>1, <2>2, CheckoutStep, MoveKeepsJobs DEF IInv
<1>3. CASE PoolTimeout(s)
  <2> DEFINE r == [pc |-> "failed", worker |-> None]
  <2>1. r \in Session /\ r.pc = "failed" /\ session' = [session EXCEPT ![s] = r]
        /\ session[s].pc = "wait"
    BY <1>3 DEF Session, Over, PoolTimeout, EndsAs
  <2>2. job' \in [Posts -> Job] /\ UNCHANGED <<pooled, overflow>>
    BY <1>3, AnswerType DEF PoolTimeout, IInv
  <2>3. TypeOK' /\ PoolIsBalanced'
    <3> HIDE DEF r
    <3> QED
      BY <1>1, <2>1, <2>2, SessionKeeps DEF IInv, Holding, Over
  <2>4. \A q \in Posts : JobInv(q)'
    BY <1>3, <2>1, EndKeepsJobs DEF PoolTimeout, IInv, Over
  <2> QED
    BY <2>3, <2>4 DEF IInv
<1>4. CASE Work(s)
  <2> DEFINE r == [session[s] EXCEPT !.pc = "end"]
  <2>1. /\ r \in Session /\ r.pc = "end" /\ r.worker = session[s].worker
        /\ session' = [session EXCEPT ![s] = r]
    BY <1>1, <1>4 DEF Work, Goto, Session, IInv, TypeOK
  <2>2. session[s].pc = "work" /\ UNCHANGED <<pooled, overflow, job>> /\ session[s].worker # None
    BY <1>4 DEF Work, Goto, IInv, TypeOK, Over
  <2>3. job' \in [Posts -> Job]
    BY <2>2 DEF IInv, TypeOK
  <2> HIDE DEF r
  <2> QED
    BY <1>1, <2>1, <2>2, <2>3, SessionKeeps, MoveKeepsJobs DEF IInv, Holding
<1>5. CASE Commit(s)
  <2>1. session[s].pc = "end" /\ Answer(s, TRUE)
    BY <1>5 DEF Commit
  <2> QED
    BY <1>1, <1>5, <2>1, EndIInv DEF Commit, Over
<1>6. CASE NotFound(s)
  <2>1. session[s].pc = "work" /\ Answer(s, FALSE)
    BY <1>6 DEF NotFound
  <2> QED
    BY <1>1, <1>6, <2>1, EndIInv DEF NotFound, Over
<1> QED
  BY <1>2, <1>3, <1>4, <1>5, <1>6 DEF SessionStep

LEMMA RollbackIInv ==
  ASSUME IInv, NEW s \in Sessions, Rollback(s)
  PROVE  IInv'
<1>1. session[s].pc \in {"work", "end"} /\ Answer(s, FALSE)
  BY DEF Rollback
<1>2. failures' \in 0 .. MaxFailures
  BY PoolAssumption DEF Rollback, IInv, TypeOK
<1> QED
  BY <1>1, <1>2, EndIInv DEF Rollback, Over

(* The request before and during the webhook.                              *)
LEMMA ReceiveIInv ==
  ASSUME IInv, NEW p \in Posts, NEW w \in Workers, Receive(p, w)
  PROVE  IInv'
<1> DEFINE r == [pc |-> "wait", worker |-> w]
<1>1. /\ r \in Session /\ r.pc = "wait" /\ r.worker # None
      /\ session' = [session EXCEPT ![Post(p)] = r]
  BY PoolAssumption DEF Receive, Session
<1>2. session[Post(p)].pc = "new" /\ UNCHANGED <<pooled, overflow, job>>
  BY DEF Receive
<1>3. job' \in [Posts -> Job] /\ failures' \in 0 .. MaxFailures
  BY DEF Receive, IInv, TypeOK
<1> HIDE DEF r
<1>4. TypeOK' /\ PoolIsBalanced'
  BY <1>1, <1>2, <1>3, SessionKeeps, SessionKinds DEF IInv, Holding
<1>5. \A q \in Posts : JobInv(q)'
  BY <1>1, <1>2, MoveKeepsJobs, SessionKinds DEF IInv
<1> QED
  BY <1>4, <1>5 DEF IInv

LEMMA TriggerIInv ==
  ASSUME IInv, NEW p \in Posts, Trigger(p)
  PROVE  IInv'
<1> DEFINE s == Post(p)
           r == [session[s] EXCEPT !.pc = "webhook"]
           j == [job[p] EXCEPT !.state = "running"]
<1>1. s \in Sessions /\ Callback(p) \in Sessions \ {s}
  BY SessionKinds
<1>2. /\ r \in Session /\ r.pc = "webhook" /\ r.worker = session[s].worker
      /\ session' = [session EXCEPT ![s] = r]
      /\ session[s].pc = "work" /\ session[s].worker # None
  BY <1>1 DEF Trigger, Goto, Session, IInv, TypeOK, Over
<1>3. j \in Job /\ j.state = "running" /\ job' = [job EXCEPT ![p] = j]
  BY DEF Trigger, Job, IInv, TypeOK
<1> HIDE DEF r, j
<1>4. /\ job' \in [Posts -> Job] /\ job'[p] = j
      /\ \A q \in Posts \ {p} : job'[q] = job[q]
  BY <1>3 DEF IInv, TypeOK
<1>5. UNCHANGED <<pooled, overflow>> /\ failures' \in 0 .. MaxFailures
  BY DEF Trigger, IInv, TypeOK
<1>6. TypeOK' /\ PoolIsBalanced'
  BY <1>1, <1>2, <1>4, <1>5, SessionKeeps DEF IInv, Holding
<1>7. session'[s] = r /\ \A q \in Sessions \ {s} : session'[q] = session[q]
  BY <1>1, <1>2, SessionBecomes DEF IInv
<1>8. JobInv(p)'
  <2>1. job[p].state = "none"
    BY <1>2 DEF IInv, JobInv, Over
  <2>2. session'[Callback(p)] = session[Callback(p)]
    BY <1>1, <1>7
  <2> QED
    BY <1>2, <1>3, <1>4, <1>7, <2>1, <2>2 DEF IInv, JobInv
<1>9. \A q \in Posts : JobInv(q)'
  BY <1>4, <1>7, <1>8, OthersStay DEF IInv
<1> QED
  BY <1>6, <1>9 DEF IInv

LEMMA WebhookIInv ==
  ASSUME IInv, NEW p \in Posts, WebhookAnswered(p) \/ WebhookTimedOut(p)
  PROVE  IInv'
<1> DEFINE s == Post(p)
           r == [session[s] EXCEPT !.pc = "end"]
<1>1. s \in Sessions
  BY SessionKinds
<1>2. /\ r \in Session /\ r.pc = "end" /\ r.worker = session[s].worker
      /\ session' = [session EXCEPT ![s] = r]
      /\ session[s].pc = "webhook" /\ session[s].worker # None
  BY <1>1 DEF WebhookAnswered, WebhookTimedOut, Goto, Session, IInv, TypeOK, Over
<1>3. UNCHANGED <<pooled, overflow, job>> /\ job' \in [Posts -> Job]
      /\ failures' \in 0 .. MaxFailures
  BY DEF WebhookAnswered, WebhookTimedOut, IInv, TypeOK
<1> HIDE DEF r
<1>4. TypeOK' /\ PoolIsBalanced'
  BY <1>1, <1>2, <1>3, SessionKeeps DEF IInv, Holding
<1>5. \A q \in Posts : JobInv(q)'
  BY <1>1, <1>2, <1>3, MoveKeepsJobs DEF IInv
<1> QED
  BY <1>4, <1>5 DEF IInv

(* n8n.                                                                    *)
LEMMA AnswerEarlyIInv ==
  ASSUME IInv, NEW p \in Posts, AnswerEarly(p)
  PROVE  IInv'
<1> DEFINE j == [job[p] EXCEPT !.answered = TRUE]
<1>1. j \in Job /\ j.state = job[p].state /\ job' = [job EXCEPT ![p] = j]
  BY DEF AnswerEarly, Job, IInv, TypeOK
<1> HIDE DEF j
<1>2. UNCHANGED <<pooled, overflow, session, failures>>
  BY DEF AnswerEarly
<1>3. /\ job' \in [Posts -> Job]
      /\ \A q \in Posts : job'[q].state = job[q].state
  BY <1>1 DEF IInv, TypeOK
<1> QED
  BY <1>2, <1>3 DEF IInv, TypeOK, PoolIsBalanced, Holders, JobInv

LEMMA PostCallbackIInv ==
  ASSUME IInv, NEW p \in Posts, NEW w \in Workers, PostCallback(p, w)
  PROVE  IInv'
<1> DEFINE s == Callback(p)
           r == [pc |-> "wait", worker |-> w]
           j == [job[p] EXCEPT !.state = "posted"]
<1>1. s \in Sessions /\ Post(p) \in Sessions \ {s}
  BY SessionKinds
<1>2. /\ r \in Session /\ r.pc = "wait" /\ r.worker # None
      /\ session' = [session EXCEPT ![s] = r]
  BY PoolAssumption DEF PostCallback, Session
<1>3. j \in Job /\ j.state = "posted" /\ job' = [job EXCEPT ![p] = j] /\ job[p].state = "running"
  BY DEF PostCallback, Job, IInv, TypeOK
<1> HIDE DEF r, j
<1>4. /\ job' \in [Posts -> Job] /\ job'[p] = j
      /\ \A q \in Posts \ {p} : job'[q] = job[q]
  BY <1>3 DEF IInv, TypeOK
<1>5. UNCHANGED <<pooled, overflow>> /\ failures' \in 0 .. MaxFailures
  BY DEF PostCallback, IInv, TypeOK
<1>6. session[s].pc \notin Holding
  BY <1>3 DEF IInv, JobInv, Holding
<1>7. TypeOK' /\ PoolIsBalanced'
  BY <1>1, <1>2, <1>4, <1>5, <1>6, SessionKeeps DEF IInv, Holding
<1>8. session'[s] = r /\ \A q \in Sessions \ {s} : session'[q] = session[q]
  BY <1>1, <1>2, SessionBecomes DEF IInv
<1>9. JobInv(p)'
  <2>1. session'[Post(p)] = session[Post(p)]
    BY <1>1, <1>8
  <2> QED
    BY <1>2, <1>3, <1>4, <1>8, <2>1 DEF IInv, JobInv
<1>10. \A q \in Posts : JobInv(q)'
  BY <1>4, <1>8, <1>9, OthersStay DEF IInv
<1> QED
  BY <1>7, <1>10 DEF IInv

(* Every step keeps the invariant.                                         *)
LEMMA NextIInv == IInv /\ [Next]_vars => IInv'
<1> SUFFICES ASSUME IInv, [Next]_vars PROVE IInv'
  OBVIOUS
<1>1. CASE UNCHANGED vars
  BY <1>1 DEF vars, IInv, TypeOK, PoolIsBalanced, Holders, JobInv
<1>2. ASSUME NEW p \in Posts, NEW w \in Workers, Receive(p, w) \/ PostCallback(p, w)
      PROVE  IInv'
  BY <1>2, ReceiveIInv, PostCallbackIInv
<1>3. ASSUME NEW p \in Posts, PostStep(p) \/ SessionStep(Callback(p)) \/ AnswerEarly(p)
      PROVE  IInv'
  <2>1. Post(p) \in Sessions /\ Callback(p) \in Sessions
    BY SessionKinds
  <2> QED
    BY <1>3, <2>1, SessionStepIInv, TriggerIInv, WebhookIInv, AnswerEarlyIInv DEF PostStep
<1>4. ASSUME NEW s \in Sessions, Rollback(s) PROVE IInv'
  BY <1>4, RollbackIInv
<1> QED
  BY <1>1, <1>2, <1>3, <1>4 DEF Next

-----------------------------------------------------------------------------
(* The invariant holds in every reachable state (get_db and the engine of  *)
(* core/database.py, under POST /analyses and the callbacks).              *)
THEOREM SpecIInv == Spec => []IInv
BY InitIInv, NextIInv, PTL DEF Spec

(* No connection of a worker is lost or taken twice, and there are never   *)
(* more than pool_size and max_overflow allow, for any number of requests, *)
(* callbacks and workers, whatever failed or timed out.                    *)
THEOREM Balanced == Spec => []PoolIsBalanced
<1>1. IInv => PoolIsBalanced
  BY DEF IInv
<1> QED
  BY SpecIInv, <1>1, PTL
=============================================================================
