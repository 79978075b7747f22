-------------------------- MODULE BootstrapProofs --------------------------
(***************************************************************************)
(* Proofs about Bootstrap and the UserAdmin it composes: the inductive      *)
(* invariant IInv, and with it unique addresses, what an edit may and must  *)
(* write, and that a container that serves is ready, for any sessions,      *)
(* scripts, addresses and installations.                                    *)
(***************************************************************************)
EXTENDS Bootstrap, TLAPS

(* The part of the invariant that is about the users and their sessions.   *)
UsersInv == UsersTypeOK /\ SessionInv /\ InsertInv /\ EmailsAreUnique

LEMMA IdleType ==
  /\ NoChange \in Change
  /\ Idle \in Handler
  /\ Idle.pc = "idle"
BY DEF Idle, Handler, NoChange, Change

LEMMA HeadIsTwo == HEAD = 2 /\ Migrations[1] = Initial /\ Migrations[2] = AuthRbac
BY DEF HEAD, Migrations

(* The table of the codes comes with the last revision.                    *)
LEMMA PermissionsTable ==
  ASSUME NEW r \in 0 .. HEAD, "permissions" \in Tables(0, r)
  PROVE  r = HEAD
<1>1. r \in {0, 1, 2}
  BY HeadIsTwo
<1>2. PICK k \in 1 .. r : "permissions" \in Migrations[k]
  BY DEF Tables
<1>3. k # 1
  BY <1>2, HeadIsTwo DEF Initial
<1> QED
  BY <1>1, <1>2, <1>3, HeadIsTwo

LEMMA DownType == Down \in Script /\ Down.pc = "down" /\ Down.added = {}
BY HeadIsTwo DEF Down, Script

LEMMA NewUserType ==
  ASSUME NEW s \in Slots, NEW email \in Emails, NEW role \in Roles
  PROVE  NewUser(s, email, role) \in User /\ NewUser(s, email, role).email = email
BY DEF NewUser, User

LEMMA InitIInv == Init => IInv
<1> SUFFICES ASSUME Init PROVE IInv
  OBVIOUS
<1>1. \A s \in Slots : req[s].pc = "idle"
  BY IdleType DEF Init, SessionsInit
<1>2. req \in [Slots -> Handler] /\ received \in 0 .. MaxRequests /\ crashes \in 0 .. MaxCrashes
  BY IdleType, UsersAssumption DEF Init, SessionsInit
<1>3. users \in [Ids -> User \cup {None}] /\ EmailsAreUnique
  <2>1. CASE users = [i \in Ids |-> None]
    BY <2>1 DEF EmailsAreUnique, Stored
  <2>2. CASE users \in Installed
    BY <2>2, BootstrapAssumption DEF EmailsAreUnique, Stored
  <2> QED
    BY <2>1, <2>2 DEF Init
<1>4. revision \in 0 .. HEAD /\ codes \subseteq AllCodes
  BY HeadIsTwo DEF Init
<1>5. \A p \in Scripts : boot[p] = Down
  BY DEF Init
<1>6. TypeOK
  BY <1>2, <1>3, <1>4, DownType DEF TypeOK, UsersTypeOK, Init
<1>7. SessionInv /\ InsertInv
  BY <1>1 DEF SessionInv, InsertInv
<1>8. BootInv
  BY <1>1, <1>5, DownType, BootstrapAssumption DEF BootInv, ScriptInv
<1> QED
  BY <1>3, <1>6, <1>7, <1>8 DEF IInv

-----------------------------------------------------------------------------
(* Sessions.                                                               *)

LEMMA HandlerBecomes ==
  ASSUME UsersTypeOK, NEW s \in Slots, NEW h \in Handler, req' = [req EXCEPT ![s] = h]
  PROVE  /\ req' \in [Slots -> Handler]
         /\ req'[s] = h
         /\ \A t \in Slots \ {s} : req'[t] = req[t]
BY DEF UsersTypeOK

(* What the invariant asks of a handler h of s, the others given.          *)
HandlerFits(h) ==
  /\ h.pc = "check" => h.actor \in Stored
  /\ h.pc \in {"check", "find"} =>
       IF h.target = None THEN h.body \in User
       ELSE h.target \in Stored /\ h.body \in Change
  /\ h.pc = "find" /\ h.actor # None => h.loaded \in User
  /\ h.pc = "insert" => h.body \in User
  /\ h.pc \in {"flush", "commit"} =>
       h.target \in Stored /\ h.body \in Change /\ h.loaded \in User
  /\ h.pc = "commit" => h.written = Dirty(h.body, h.loaded)

InsertFits(s, h) ==
  h.pc = "added" =>
    /\ h.written \in User
    /\ h.target \in Ids \ Stored
    /\ ~EmailTaken(h.written.email)
    /\ \A t \in Slots \ {s} : req[t].pc = "added" =>
         req[t].written.email # h.written.email /\ req[t].target # h.target

(* A step that changes one handler only, to one that fits the others.      *)
LEMMA HandlerMoves ==
  ASSUME UsersInv, NEW s \in Slots, NEW h \in Handler,
         req' = [req EXCEPT ![s] = h],
         UNCHANGED users, received' \in 0 .. MaxRequests, crashes' \in 0 .. MaxCrashes,
         HandlerFits(h), InsertFits(s, h)
  PROVE  UsersInv'
<1>1. /\ req' \in [Slots -> Handler]
      /\ req'[s] = h
      /\ \A t \in Slots \ {s} : req'[t] = req[t]
  BY HandlerBecomes DEF UsersInv
<1>2. UsersTypeOK'
  BY <1>1 DEF UsersInv, UsersTypeOK
<1>3. Stored' = Stored
  BY DEF Stored
<1>4. SessionInv'
  <2> SUFFICES ASSUME NEW t \in Slots
               PROVE  HandlerFits(req'[t])
    BY <1>3 DEF SessionInv, HandlerFits
  <2> QED
    BY <1>1 DEF UsersInv, SessionInv, HandlerFits
<1>5. InsertInv'
  <2>1. \A t \in Slots \ {s} : InsertFits(t, req[t])
    BY DEF UsersInv, InsertInv, InsertFits
  <2>2. \A email : EmailTaken(email)' <=> EmailTaken(email)
    BY <1>3 DEF EmailTaken
  <2> SUFFICES ASSUME NEW t \in Slots, req'[t].pc = "added"
               PROVE  /\ req'[t].written \in User
                      /\ req'[t].target \in Ids \ Stored
                      /\ ~EmailTaken(req'[t].written.email)
                      /\ \A u \in Slots \ {t} : req'[u].pc = "added" =>
                           /\ req'[u].written.email # req'[t].written.email
                           /\ req'[u].target # req'[t].target
    BY <1>3, <2>2 DEF InsertInv
  <2>3. CASE t = s
    BY <1>1, <2>3 DEF InsertFits
  <2>4. CASE t # s
    BY <1>1, <2>1, <2>4 DEF InsertFits
  <2> QED
    BY <2>3, <2>4
<1>6. EmailsAreUnique'
  BY <1>3 DEF UsersInv, EmailsAreUnique
<1> QED
  BY <1>2, <1>4, <1>5, <1>6 DEF UsersInv

LEMMA RollsBack ==
  ASSUME UsersInv, NEW s \in Slots, Rollback(s),
         UNCHANGED users, received' \in 0 .. MaxRequests, crashes' \in 0 .. MaxCrashes
  PROVE  UsersInv'
<1>1. HandlerFits(Idle) /\ InsertFits(s, Idle)
  BY IdleType DEF HandlerFits, InsertFits
<1> QED
  BY <1>1, IdleType, HandlerMoves DEF Rollback

LEMMA ReceiveStep ==
  ASSUME UsersInv, NEW s \in Slots, ReceiveAny(s)
  PROVE  UsersInv'
<1>1. ASSUME NEW actor \in Ids \cup {None}, NEW target \in Ids \cup {None},
             NEW body \in Change \cup User, NEW pc \in {"check", "find"},
             Receive(s, actor, target, body, pc),
             pc = "check" => actor \in Stored,
             pc = "find" => actor = None,
             IF target = None THEN body \in User ELSE target \in Stored /\ body \in Change
      PROVE  UsersInv'
  <2> DEFINE h == [Idle EXCEPT !.pc = pc, !.actor = actor, !.target = target, !.body = body]
  <2>1. /\ h \in Handler /\ h.pc = pc /\ h.actor = actor /\ h.target = target
        /\ h.body = body
    BY IdleType DEF Handler, Idle
  <2>2. req' = [req EXCEPT ![s] = h]
    BY <1>1 DEF Receive
  <2>3. received' \in 0 .. MaxRequests /\ crashes' \in 0 .. MaxCrashes /\ UNCHANGED users
    BY <1>1, UsersAssumption DEF Receive, UsersInv, UsersTypeOK
  <2> HIDE DEF h
  <2>4. HandlerFits(h)
    BY <1>1, <2>1 DEF HandlerFits
  <2>5. InsertFits(s, h)
    BY <2>1 DEF InsertFits
  <2> QED
    BY <2>1, <2>2, <2>3, <2>4, <2>5, HandlerMoves
<1>2. Stored \subseteq Ids /\ None \notin Stored
  BY UsersAssumption DEF Stored
<1>3. CASE ReceivePost(s)
  <2>1. PICK actor \in Stored, email \in Emails, role \in Roles :
          Receive(s, actor, None, NewUser(s, email, role), "check")
    BY <1>3 DEF ReceivePost
  <2>2. NewUser(s, email, role) \in User
    BY NewUserType
  <2> QED
    BY <1>1, <1>2, <2>1, <2>2
<1>4. CASE ReceivePatch(s)
  <2>1. PICK actor \in Stored, target \in Stored, body \in Edits(s) :
          Receive(s, actor, target, body, "check")
    BY <1>4 DEF ReceivePatch
  <2>2. body \in Change
    BY UsersAssumption DEF Edits, NoChange, Change
  <2> QED
    BY <1>1, <1>2, <2>1, <2>2
<1>5. CASE ReceiveDelete(s)
  <2>1. Deactivation \in Change
    BY DEF Deactivation, NoChange, Change
  <2> QED
    BY <1>1, <1>2, <1>5, <2>1 DEF ReceiveDelete
<1>6. CASE ReceiveVerify(s)
  <2>1. [NoChange EXCEPT !.login = s] \in Change
    BY DEF NoChange, Change
  <2> QED
    BY <1>1, <1>2, <1>6, <2>1 DEF ReceiveVerify
<1> QED
  BY <1>3, <1>4, <1>5, <1>6 DEF ReceiveAny

LEMMA LookupStep ==
  ASSUME UsersInv, NEW s \in Slots, Check(s) \/ FindTarget(s) \/ FindEmail(s)
  PROVE  UsersInv'
<1>1. received' \in 0 .. MaxRequests /\ crashes' \in 0 .. MaxCrashes /\ UNCHANGED users
  BY DEF UsersInv, UsersTypeOK, Check, FindTarget, FindEmail
<1>2. CASE Rollback(s)
  BY <1>1, <1>2, RollsBack
<1>3. \A i \in Stored : users[i] \in User
  BY DEF UsersInv, UsersTypeOK, Stored
<1>4. req[s] \in Handler
  BY DEF UsersInv, UsersTypeOK
<1>5. CASE Check(s) /\ ~Rollback(s)
  <2> DEFINE h == [req[s] EXCEPT !.pc = "find", !.loaded = users[req[s].actor]]
  <2>1. req[s].pc = "check" /\ req' = [req EXCEPT ![s] = h]
    BY <1>5 DEF Check
  <2>2. /\ req[s].actor \in Stored
        /\ users[req[s].actor] \in User
        /\ IF req[s].target = None THEN req[s].body \in User
           ELSE req[s].target \in Stored /\ req[s].body \in Change
    BY <1>3, <2>1 DEF UsersInv, SessionInv
  <2>3. /\ h \in Handler /\ h.pc = "find" /\ h.loaded = users[req[s].actor]
        /\ h.target = req[s].target /\ h.body = req[s].body /\ h.actor = req[s].actor
    BY <1>4, <2>2 DEF Handler
  <2> HIDE DEF h
  <2>4. HandlerFits(h) /\ InsertFits(s, h)
    BY <2>2, <2>3 DEF HandlerFits, InsertFits
  <2> QED
    BY <1>1, <2>1, <2>3, <2>4, HandlerMoves
<1>6. CASE FindTarget(s) /\ ~Rollback(s)
  <2> DEFINE i == req[s].target
             u == IF req[s].actor = i THEN req[s].loaded ELSE users[i]
             h == [req[s] EXCEPT !.pc = "flush", !.loaded = u]
  <2>1. req[s].pc = "find" /\ i # None /\ req' = [req EXCEPT ![s] = h]
    BY <1>6 DEF FindTarget
  <2>2. i \in Stored /\ req[s].body \in Change
    BY <2>1 DEF UsersInv, SessionInv
  <2>3. u \in User
    BY <1>3, <2>1, <2>2 DEF UsersInv, SessionInv
  <2>4. /\ h \in Handler /\ h.pc = "flush" /\ h.loaded = u
        /\ h.target = i /\ h.body = req[s].body
    BY <1>4, <2>3 DEF Handler
  <2> HIDE DEF h, u
  <2>5. HandlerFits(h) /\ InsertFits(s, h)
    BY <2>2, <2>3, <2>4 DEF HandlerFits, InsertFits
  <2> QED
    BY <1>1, <2>1, <2>4, <2>5, HandlerMoves
<1>7. CASE FindEmail(s) /\ ~Rollback(s)
  <2> DEFINE h == [req[s] EXCEPT !.pc = "insert"]
  <2>1. req[s].pc = "find" /\ req[s].target = None /\ req' = [req EXCEPT ![s] = h]
    BY <1>7 DEF FindEmail
  <2>2. req[s].body \in User
    BY <2>1 DEF UsersInv, SessionInv
  <2>3. h \in Handler /\ h.pc = "insert" /\ h.body = req[s].body
    BY <1>4 DEF Handler
  <2> HIDE DEF h
  <2>4. HandlerFits(h) /\ InsertFits(s, h)
    BY <2>2, <2>3 DEF HandlerFits, InsertFits
  <2> QED
    BY <1>1, <2>1, <2>3, <2>4, HandlerMoves
<1> QED
  BY <1>2, <1>5, <1>6, <1>7

(* What the flush writes, and what it makes of a row.                      *)
LEMMA DirtyType ==
  ASSUME NEW body \in Change, NEW loaded
  PROVE  /\ Dirty(body, loaded) \in Change
         /\ \A c \in {"role", "is_active"} :
              Dirty(body, loaded)[c] = IF body[c] = loaded[c] THEN Same ELSE body[c]
         /\ \A c \in {"password", "login"} : Dirty(body, loaded)[c] = body[c]
BY DEF Dirty, Change

LEMMA UpdatedType ==
  ASSUME NEW row \in User, NEW ch \in Change
  PROVE  /\ Updated(row, ch) \in User
         /\ Updated(row, ch).email = row.email
         /\ Updated(row, ch).extra = row.extra
         /\ \A c \in {"role", "is_active", "password", "login"} :
              Updated(row, ch)[c] = Column(row[c], ch[c])
<1>1. \A c \in {"role", "is_active", "password", "login"} :
        Updated(row, ch)[c] = Column(row[c], ch[c])
  BY DEF Updated, User
<1>2. Updated(row, ch).email = row.email /\ Updated(row, ch).extra = row.extra
  BY DEF Updated, User
<1>3. Updated(row, ch) \in User
  BY DEF Updated, User, Column, Change
<1> QED
  BY <1>1, <1>2, <1>3

LEMMA FlushStep ==
  ASSUME UsersInv, NEW s \in Slots, Flush(s)
  PROVE  UsersInv'
<1> DEFINE written == Dirty(req[s].body, req[s].loaded)
           h       == [req[s] EXCEPT !.pc = "commit", !.written = written]
<1>1. req[s] \in Handler /\ req[s].pc = "flush" /\ req' = [req EXCEPT ![s] = h]
  BY DEF Flush, UsersInv, UsersTypeOK
<1>2. req[s].target \in Stored /\ req[s].body \in Change /\ req[s].loaded \in User
  BY <1>1 DEF UsersInv, SessionInv
<1>3. written \in Change
  BY <1>2, DirtyType
<1>4. /\ h \in Handler /\ h.pc = "commit" /\ h.target = req[s].target
      /\ h.body = req[s].body /\ h.loaded = req[s].loaded /\ h.written = written
  BY <1>1, <1>3 DEF Handler
<1>5. h.written = Dirty(h.body, h.loaded)
  BY <1>4
<1> HIDE DEF h, written
<1>6. HandlerFits(h) /\ InsertFits(s, h)
  BY <1>2, <1>4, <1>5 DEF HandlerFits, InsertFits
<1>7. received' \in 0 .. MaxRequests /\ crashes' \in 0 .. MaxCrashes /\ UNCHANGED users
  BY DEF Flush, UsersInv, UsersTypeOK
<1> QED
  BY <1>1, <1>4, <1>6, <1>7, HandlerMoves

LEMMA InsertStep ==
  ASSUME UsersInv, NEW s \in Slots, Insert(s)
  PROVE  UsersInv'
<1>1. received' \in 0 .. MaxRequests /\ crashes' \in 0 .. MaxCrashes /\ UNCHANGED users
  BY DEF Insert, UsersInv, UsersTypeOK
<1>2. CASE EmailTaken(req[s].body.email)
  BY <1>1, <1>2, RollsBack DEF Insert
<1>3. CASE ~EmailTaken(req[s].body.email)
  <2>1. PICK i \in FreeIds(s) : req' = [req EXCEPT ![s].pc = "added", ![s].target = i,
                                                  ![s].written = req[s].body]
    BY <1>3 DEF Insert
  <2> DEFINE h == [req[s] EXCEPT !.pc = "added", !.target = i, !.written = req[s].body]
  <2>2. i \in Ids \ Stored /\ \A t \in Slots \ {s} : req[t].target # i
    BY DEF FreeIds, Stored
  <2>3. req[s] \in Handler /\ req[s].pc = "insert" /\ req[s].body \in User
    BY DEF Insert, UsersInv, UsersTypeOK, SessionInv
  <2>4. req' = [req EXCEPT ![s] = h]
    BY <2>1
  <2>5. h \in Handler /\ h.pc = "added" /\ h.target = i /\ h.written = req[s].body
    BY <2>2, <2>3 DEF Handler
  <2> HIDE DEF h
  <2>6. HandlerFits(h)
    BY <2>5 DEF HandlerFits
  <2>7. \A t \in Slots \ {s} : req[t].pc = "added" => req[t].written.email # h.written.email
    BY <2>5 DEF Insert, EmailHolders
  <2>8. InsertFits(s, h)
    BY <1>3, <2>2, <2>3, <2>5, <2>7 DEF InsertFits
  <2> QED
    BY <1>1, <2>4, <2>5, <2>6, <2>8, HandlerMoves
<1> QED
  BY <1>2, <1>3

(* A commit: row i becomes row, whose address no other row and no other     *)
(* open INSERT has.                                                        *)
LEMMA RowBecomes ==
  ASSUME UsersInv, NEW i \in Ids, NEW row \in User,
         users' = [users EXCEPT ![i] = row],
         req' \in [Slots -> Handler],
         \A t \in Slots : req'[t] = req[t] \/ req'[t] = Idle,
         received' \in 0 .. MaxRequests, crashes' \in 0 .. MaxCrashes,
         \A j \in Stored \ {i} : users[j].email # row.email,
         \A t \in Slots : req'[t].pc = "added" =>
           req[t].target # i /\ req[t].written.email # row.email
  PROVE  UsersInv' /\ Stored' = Stored \cup {i}
<1>1. /\ users' \in [Ids -> User \cup {None}]
      /\ users'[i] = row
      /\ \A j \in Ids \ {i} : users'[j] = users[j]
      /\ row # None
  BY UsersAssumption DEF UsersInv, UsersTypeOK
<1>2. Stored' = Stored \cup {i}
  BY <1>1 DEF Stored
<1>3. UsersTypeOK'
  BY <1>1 DEF UsersTypeOK
<1>4. \A t \in Slots : req'[t].pc # "idle" => req'[t] = req[t]
  BY IdleType
<1>5. SessionInv'
  <2>1. \A t \in Slots : HandlerFits(req[t])
    BY DEF UsersInv, SessionInv, HandlerFits
  <2>2. \A t \in Slots : req'[t].pc = "idle" \/ HandlerFits(req'[t])
    BY <1>4, <2>1
  <2> QED
    BY <1>2, <2>2 DEF SessionInv, HandlerFits
<1>6. InsertInv'
  <2> SUFFICES ASSUME NEW t \in Slots, req'[t].pc = "added"
               PROVE  /\ req'[t].written \in User
                      /\ req'[t].target \in Ids \ Stored'
                      /\ ~EmailTaken(req[t].written.email)'
                      /\ \A u \in Slots \ {t} : req'[u].pc = "added" =>
                           /\ req'[u].written.email # req'[t].written.email
                           /\ req'[u].target # req'[t].target
    BY DEF InsertInv
  <2>1. req'[t] = req[t] /\ req[t].pc = "added"
    BY <1>4
  <2>2. /\ req[t].written \in User
        /\ req[t].target \in Ids \ Stored
        /\ ~EmailTaken(req[t].written.email)
        /\ \A u \in Slots \ {t} : req[u].pc = "added" =>
             /\ req[u].written.email # req[t].written.email
             /\ req[u].target # req[t].target
    BY <2>1 DEF UsersInv, InsertInv
  <2>3. ~EmailTaken(req[t].written.email)'
    BY <1>1, <1>2, <2>1, <2>2 DEF EmailTaken
  <2> QED
    BY <1>2, <1>4, <2>1, <2>2, <2>3
<1>7. EmailsAreUnique'
  BY <1>1, <1>2 DEF UsersInv, EmailsAreUnique, Stored
<1> QED
  BY <1>2, <1>3, <1>5, <1>6, <1>7 DEF UsersInv

LEMMA CommitNewStep ==
  ASSUME UsersInv, NEW s \in Slots, CommitNew(s)
  PROVE  UsersInv' /\ Stored' # {} /\ Stored \subseteq Stored'
<1> DEFINE i   == req[s].target
           row == req[s].written
<1>1. req[s].pc = "added" /\ users' = [users EXCEPT ![i] = row]
  BY DEF CommitNew
<1>2. /\ row \in User
      /\ i \in Ids
      /\ ~EmailTaken(row.email)
      /\ \A t \in Slots \ {s} : req[t].pc = "added" =>
           req[t].written.email # row.email /\ req[t].target # i
  BY <1>1 DEF UsersInv, InsertInv
<1>3. /\ req' \in [Slots -> Handler]
      /\ req'[s] = Idle
      /\ \A t \in Slots \ {s} : req'[t] = req[t]
  BY HandlerBecomes, IdleType DEF CommitNew, Rollback, UsersInv
<1>4. \A t \in Slots : req'[t].pc = "added" =>
        req[t].target # i /\ req[t].written.email # row.email
  BY <1>2, <1>3, IdleType
<1>5. received' \in 0 .. MaxRequests /\ crashes' \in 0 .. MaxCrashes
  BY DEF CommitNew, UsersInv, UsersTypeOK
<1>6. \A j \in Stored \ {i} : users[j].email # row.email
  BY <1>2 DEF EmailTaken
<1> HIDE DEF i, row
<1>7. UsersInv' /\ Stored' = Stored \cup {i}
  BY <1>1, <1>2, <1>3, <1>4, <1>5, <1>6, RowBecomes
<1> QED
  BY <1>7

(* A commit that keeps the address of its row keeps the invariant.         *)
LEMMA RowChanges ==
  ASSUME UsersInv, NEW i \in Stored, NEW row \in User, row.email = users[i].email,
         users' = [users EXCEPT ![i] = row],
         req' \in [Slots -> Handler],
         \A t \in Slots : req'[t] = req[t] \/ req'[t] = Idle,
         received' \in 0 .. MaxRequests, crashes' \in 0 .. MaxCrashes
  PROVE  UsersInv' /\ Stored' = Stored
<1>1. i \in Ids
  BY DEF Stored
<1>2. \A j \in Stored \ {i} : users[j].email # row.email
  BY DEF UsersInv, EmailsAreUnique
<1>3. ASSUME NEW t \in Slots, req'[t].pc = "added"
      PROVE  req[t].target # i /\ req[t].written.email # row.email
  <2>1. req[t].pc = "added"
    BY <1>3, IdleType
  <2> QED
    BY <2>1 DEF UsersInv, InsertInv, EmailTaken
<1>4. UsersInv' /\ Stored' = Stored \cup {i}
  BY <1>1, <1>2, <1>3, RowBecomes
<1> QED
  BY <1>4

(* What a commit of an edit writes.                                        *)
LEMMA CommitEditRow ==
  ASSUME UsersInv, NEW s \in Slots, CommitEdit(s)
  PROVE  /\ req[s].target \in Stored
         /\ users[req[s].target] \in User
         /\ req[s].body \in Change
         /\ req[s].written \in Change
         /\ req[s].written = Dirty(req[s].body, req[s].loaded)
         /\ users' = [users EXCEPT ![req[s].target] =
                        Updated(users[req[s].target], req[s].written)]
         /\ users'[req[s].target] = Updated(users[req[s].target], req[s].written)
<1>1. /\ req[s].target \in Stored
      /\ req[s].body \in Change
      /\ req[s].written = Dirty(req[s].body, req[s].loaded)
  BY DEF CommitEdit, UsersInv, SessionInv
<1>2. req[s].written \in Change
  BY <1>1, DirtyType
<1>3. users[req[s].target] \in User /\ req[s].target \in Ids
  BY <1>1 DEF UsersInv, UsersTypeOK, Stored
<1>4. users' = [users EXCEPT ![req[s].target] =
                  Updated(users[req[s].target], req[s].written)]
  BY DEF CommitEdit
<1>5. users'[req[s].target] = Updated(users[req[s].target], req[s].written)
  BY <1>3, <1>4 DEF UsersInv, UsersTypeOK
<1> QED
  BY <1>1, <1>2, <1>3, <1>4, <1>5

LEMMA CommitEditStep ==
  ASSUME UsersInv, NEW s \in Slots, CommitEdit(s)
  PROVE  UsersInv' /\ Stored' = Stored
<1> DEFINE i   == req[s].target
           row == Updated(users[i], req[s].written)
<1>1. i \in Stored /\ users' = [users EXCEPT ![i] = row]
  BY CommitEditRow
<1>2. row \in User /\ row.email = users[i].email
  BY CommitEditRow, UpdatedType
<1>3. req' \in [Slots -> Handler] /\ \A t \in Slots : req'[t] = req[t] \/ req'[t] = Idle
  BY HandlerBecomes, IdleType DEF CommitEdit, Rollback, UsersInv
<1>4. received' \in 0 .. MaxRequests /\ crashes' \in 0 .. MaxCrashes
  BY DEF CommitEdit, UsersInv, UsersTypeOK
<1> HIDE DEF i, row
<1> QED
  BY <1>1, <1>2, <1>3, <1>4, RowChanges

LEMMA RegrantStep ==
  ASSUME UsersInv, NEW i \in Ids, NEW grants \in {{}, {"users.manage"}}, Regrant(i, grants)
  PROVE  UsersInv' /\ Stored' = Stored
<1> DEFINE row == [users[i] EXCEPT !.extra = grants]
<1>1. i \in Stored /\ users[i] \in User
  BY DEF Regrant, Stored, UsersInv, UsersTypeOK
<1>2. grants \subseteq AllCodes
  BY DEF AllCodes, ALL_PERMISSIONS
<1>3. row \in User /\ row.email = users[i].email
  BY <1>1, <1>2 DEF User
<1>4. users' = [users EXCEPT ![i] = row] /\ UNCHANGED <<req, crashes>>
  BY DEF Regrant
<1>5. received' \in 0 .. MaxRequests /\ crashes' \in 0 .. MaxCrashes
  BY UsersAssumption DEF Regrant, UsersInv, UsersTypeOK
<1>6. req' \in [Slots -> Handler]
  BY <1>4 DEF UsersInv, UsersTypeOK
<1> HIDE DEF row
<1> QED
  BY <1>1, <1>3, <1>4, <1>5, <1>6, RowChanges

(* Whatever a session does, the users stay in order.                       *)
LEMMA SessionSteps ==
  ASSUME UsersInv, NEW s \in Slots, SessionStep(s) \/ Crash(s)
  PROVE  UsersInv' /\ Stored \subseteq Stored'
<1>1. CASE Crash(s)
  <2>1. crashes' \in 0 .. MaxCrashes /\ received' \in 0 .. MaxRequests /\ UNCHANGED users
    BY <1>1, UsersAssumption DEF Crash, UsersInv, UsersTypeOK
  <2> QED
    BY <1>1, <2>1, RollsBack DEF Crash, Stored
<1>2. CASE Check(s) \/ FindTarget(s) \/ FindEmail(s)
  BY <1>2, LookupStep DEF Check, FindTarget, FindEmail, Stored
<1>3. CASE Flush(s) \/ Insert(s)
  BY <1>3, FlushStep, InsertStep DEF Flush, Insert, Stored
<1>4. CASE CommitEdit(s) \/ CommitNew(s)
  BY <1>4, CommitEditStep, CommitNewStep
<1> QED
  BY <1>1, <1>2, <1>3, <1>4 DEF SessionStep

-----------------------------------------------------------------------------
(* Scripts.                                                                *)

LEMMA UsersPart == ASSUME IInv PROVE UsersInv
BY DEF IInv, TypeOK, UsersInv

(* A step of a request leaves the scripts alone.                           *)
LEMMA RequestMoves ==
  ASSUME IInv, UsersInv', UNCHANGED bootVars, Stored \subseteq Stored',
         \A p \in Scripts : req'[p] = req[p]
  PROVE  IInv'
<1>1. TypeOK'
  BY DEF IInv, TypeOK, UsersInv, bootVars
<1>2. BootInv'
  BY DEF IInv, BootInv, ScriptInv, bootVars
<1> QED
  BY <1>1, <1>2 DEF IInv, UsersInv

(* A step of script p to b; what the others have made sure of stays so.    *)
LEMMA ScriptMoves ==
  ASSUME IInv, UsersInv', NEW p \in Scripts, NEW b \in Script,
         boot' = [boot EXCEPT ![p] = b],
         revision' \in {revision, HEAD}, codes \subseteq codes', codes' \subseteq AllCodes,
         Stored \subseteq Stored',
         \A q \in Scripts \ {p} : req'[q] = req[q],
         ScriptInv(p)'
  PROVE  IInv'
<1>1. /\ boot' \in [Scripts -> Script]
      /\ \A q \in Scripts \ {p} : boot'[q] = boot[q]
  BY DEF IInv, TypeOK
<1>2. TypeOK'
  BY <1>1, HeadIsTwo DEF IInv, TypeOK, UsersInv
<1>3. ASSUME NEW q \in Scripts \ {p}
      PROVE  ScriptInv(q)'
  <2>1. ScriptInv(q) /\ codes \subseteq AllCodes
    BY DEF IInv, BootInv, TypeOK
  <2> QED
    BY <1>1, <2>1 DEF ScriptInv
<1>4. BootInv'
  BY <1>3 DEF BootInv
<1> QED
  BY <1>2, <1>4 DEF IInv, UsersInv

(* The same for a step that leaves the users and the sessions alone.       *)
LEMMA ScriptOnly ==
  ASSUME IInv, NEW p \in Scripts, NEW b \in Script,
         boot' = [boot EXCEPT ![p] = b], UNCHANGED userVars,
         revision' \in {revision, HEAD}, codes \subseteq codes', codes' \subseteq AllCodes,
         boot[p].pc \notin {"admin", "created"},
         b.pc \notin {"admin", "created"},
         b.pc = "seed" /\ p \in Containers => revision' = HEAD,
         b.pc \in {"insert", "seeded", "count", "serve"} => revision' = HEAD,
         b.pc = "insert" => b.code \in AllCodes,
         b.pc = "seeded" => AllCodes \subseteq codes' \cup b.added,
         b.pc \in {"count", "serve"} => codes' = AllCodes,
         b.pc = "serve" => Stored # {}
  PROVE  IInv'
<1>1. UsersInv' /\ Stored' = Stored /\ req' = req
  <2>1. UsersInv
    BY UsersPart
  <2> QED
    BY <2>1 DEF userVars, UsersInv, UsersTypeOK, SessionInv, InsertInv, EmailsAreUnique,
                EmailTaken, Stored
<1>2. boot'[p] = b
  BY DEF IInv, TypeOK
<1>3. ScriptInv(p)'
  <2>1. ScriptInv(p)
    BY DEF IInv, BootInv
  <2> QED
    BY <1>1, <1>2, <2>1 DEF ScriptInv
<1> QED
  BY <1>1, <1>3, ScriptMoves

LEMMA GotoType ==
  ASSUME NEW to \in {"down", "upgrade", "migrated", "seed", "seeded", "count", "admin",
                     "created", "serve"}
  PROVE  [Down EXCEPT !.pc = to] \in Script /\ [Down EXCEPT !.pc = to].pc = to
BY HeadIsTwo DEF Down, Script

(* Steps that go on with nothing of their own kept.                        *)
LEMMA GotoStep ==
  ASSUME IInv, NEW p \in Scripts, NEW from \in {"down", "upgrade", "migrated", "seeded", "count"},
         NEW to \in {"down", "upgrade", "seed", "count", "serve"},
         Goto(p, from, to), UNCHANGED userVars,
         revision' \in {revision, HEAD}, codes \subseteq codes', codes' \subseteq AllCodes,
         to = "seed" /\ p \in Containers => revision' = HEAD,
         to \in {"count", "serve"} => revision' = HEAD /\ codes' = AllCodes,
         to = "serve" => Stored # {}
  PROVE  IInv'
<1> DEFINE b == [Down EXCEPT !.pc = to]
<1>1. b \in Script /\ b.pc = to
  BY GotoType
<1>2. boot' = [boot EXCEPT ![p] = b] /\ boot[p].pc = from
  BY DEF Goto
<1> HIDE DEF b
<1> QED
  BY <1>1, <1>2, ScriptOnly

LEMMA FailStep ==
  ASSUME IInv, NEW p \in Scripts, Fail(p), UNCHANGED <<userVars, revision, codes>>,
         boot[p].pc \notin {"admin", "created"}
  PROVE  IInv'
BY DownType, ScriptOnly DEF Fail, IInv, TypeOK

LEMMA UpgradeStep ==
  ASSUME IInv, NEW p \in Scripts,
         Start(p) \/ ReadRevision(p) \/ Migrate(p) \/ CommitUpgrade(p)
  PROVE  IInv'
<1>1. codes \subseteq AllCodes /\ revision \in 0 .. HEAD /\ boot[p] \in Script
  BY DEF IInv, TypeOK
<1>2. p \in Containers \/ p \in Manuals
  BY DEF Scripts
<1>3. CASE Start(p)
  BY <1>1, <1>3, GotoStep, BootstrapAssumption DEF Start
<1>4. CASE ReadRevision(p)
  <2>1. CASE revision = HEAD
    BY <1>1, <1>4, <2>1, GotoStep DEF ReadRevision, Done
  <2>2. CASE revision # HEAD
    <3> DEFINE b == [boot[p] EXCEPT !.pc = "migrate", !.found = revision]
    <3>1. b \in Script /\ b.pc = "migrate"
      BY <1>1 DEF Script
    <3>2. boot' = [boot EXCEPT ![p] = b] /\ boot[p].pc = "upgrade"
          /\ UNCHANGED <<userVars, revision, codes>>
      BY <1>4, <2>2 DEF ReadRevision
    <3> HIDE DEF b
    <3> QED
      BY <1>1, <3>1, <3>2, ScriptOnly
  <2> QED
    BY <2>1, <2>2
<1>5. CASE Migrate(p)
  <2>1. CASE Fail(p)
    BY <1>5, <2>1, FailStep DEF Migrate
  <2>2. CASE ~Fail(p)
    <3> DEFINE b == [boot[p] EXCEPT !.pc = "migrated"]
    <3>1. b \in Script /\ b.pc = "migrated"
      BY <1>1 DEF Script
    <3>2. boot' = [boot EXCEPT ![p] = b] /\ boot[p].pc = "migrate"
          /\ UNCHANGED <<userVars, revision, codes>>
      BY <1>5, <2>2 DEF Migrate
    <3> HIDE DEF b
    <3> QED
      BY <1>1, <3>1, <3>2, ScriptOnly
  <2> QED
    BY <2>1, <2>2
<1>6. CASE CommitUpgrade(p)
  BY <1>1, <1>6, GotoStep DEF CommitUpgrade, Done
<1> QED
  BY <1>3, <1>4, <1>5, <1>6

LEMMA SeedStep ==
  ASSUME IInv, NEW p \in Scripts, SeedLooks(p) \/ SeedInserts(p) \/ SeedCommits(p)
  PROVE  IInv'
<1>1. /\ codes \subseteq AllCodes /\ revision \in 0 .. HEAD
      /\ boot[p] \in Script /\ ScriptInv(p)
  BY DEF IInv, TypeOK, BootInv
<1>2. CASE SeedLooks(p)
  <2> DEFINE missing == AllCodes \ (codes \cup boot[p].added)
  <2>1. boot[p].pc = "seed" /\ UNCHANGED <<userVars, revision, codes>>
    BY <1>2 DEF SeedLooks
  <2>2. CASE Fail(p)
    BY <2>1, <2>2, FailStep
  <2>3. CASE ~Fail(p)
    <3>1. revision = HEAD /\ Look(p, missing)
      BY <1>1, <1>2, <2>3, PermissionsTable DEF SeedLooks
    <3>2. CASE missing = {} /\ boot' = [boot EXCEPT ![p].pc = "seeded"]
      <4> DEFINE b == [boot[p] EXCEPT !.pc = "seeded"]
      <4>1. b \in Script /\ b.pc = "seeded" /\ b.added = boot[p].added
        BY <1>1 DEF Script
      <4>2. AllCodes \subseteq codes \cup b.added
        BY <3>2, <4>1
      <4>3. boot' = [boot EXCEPT ![p] = b]
        BY <3>2
      <4> HIDE DEF b
      <4> QED
        BY <1>1, <2>1, <3>1, <4>1, <4>2, <4>3, ScriptOnly
    <3>3. ASSUME NEW code \in First(missing),
                 boot' = [boot EXCEPT ![p].pc = "insert", ![p].code = code]
          PROVE  IInv'
      <4> DEFINE b == [boot[p] EXCEPT !.pc = "insert", !.code = code]
      <4>1. code \in AllCodes
        BY DEF First
      <4>2. b \in Script /\ b.pc = "insert" /\ b.code \in AllCodes
        BY <1>1, <4>1 DEF Script
      <4>3. boot' = [boot EXCEPT ![p] = b]
        BY <3>3
      <4> HIDE DEF b
      <4> QED
        BY <1>1, <2>1, <3>1, <4>2, <4>3, ScriptOnly
    <3> QED
      BY <3>1, <3>2, <3>3 DEF Look
  <2> QED
    BY <2>2, <2>3
<1>3. CASE SeedInserts(p)
  <2>1. boot[p].pc = "insert" /\ UNCHANGED <<userVars, revision, codes>> /\ revision = HEAD
    BY <1>1, <1>3 DEF SeedInserts, ScriptInv
  <2>2. CASE Fail(p)
    BY <2>1, <2>2, FailStep
  <2>3. CASE ~Fail(p)
    <3> DEFINE b == [boot[p] EXCEPT !.pc = "seed", !.code = None,
                                    !.added = @ \cup {boot[p].code}]
    <3>1. boot' = [boot EXCEPT ![p] = b]
      BY <1>3, <2>3 DEF SeedInserts
    <3>2. boot[p].code \in AllCodes
      BY <1>1, <2>1 DEF ScriptInv
    <3>3. b \in Script /\ b.pc = "seed"
      BY <1>1, <3>2 DEF Script
    <3> HIDE DEF b
    <3> QED
      BY <1>1, <2>1, <3>1, <3>3, ScriptOnly
  <2> QED
    BY <2>2, <2>3
<1>4. CASE SeedCommits(p)
  <2>1. boot[p].pc = "seeded" /\ codes' = codes \cup boot[p].added
    BY <1>4 DEF SeedCommits, Goto
  <2>2. codes' = AllCodes /\ revision = HEAD
    BY <1>1, <2>1 DEF ScriptInv, Script
  <2> QED
    BY <1>1, <1>4, <2>1, <2>2, GotoStep DEF SeedCommits
<1> QED
  BY <1>2, <1>3, <1>4

LEMMA AdminStep ==
  ASSUME IInv, NEW p \in Scripts, CountUsers(p) \/ InsertAdmin(p) \/ CommitAdmin(p)
  PROVE  IInv'
<1>1. /\ codes \subseteq AllCodes /\ revision \in 0 .. HEAD
      /\ boot[p] \in Script /\ ScriptInv(p) /\ UsersInv
  BY UsersPart DEF IInv, TypeOK, BootInv
<1>2. p \in Slots
  BY BootstrapAssumption
<1>3. CASE CountUsers(p) /\ Stored # {}
  <2>1. boot[p].pc = "count" /\ UNCHANGED <<userVars, revision, codes>>
        /\ Goto(p, "count", Done(p, "serve"))
    BY <1>3 DEF CountUsers, Goto, userVars
  <2>2. revision = HEAD /\ codes = AllCodes
    BY <1>1, <2>1 DEF ScriptInv
  <2>3. Done(p, "serve") \in {"serve", "down"}
    BY DEF Done
  <2> QED
    BY <1>1, <1>3, <2>1, <2>2, <2>3, GotoStep
<1>4. CASE CountUsers(p) /\ Stored = {}
  <2> DEFINE b   == [Down EXCEPT !.pc = "admin"]
             new == NewUser(p, AdminEmail, "admin")
             h   == [Idle EXCEPT !.pc = "insert", !.body = new]
  <2>1. /\ boot[p].pc = "count" /\ boot' = [boot EXCEPT ![p] = b]
        /\ req' = [req EXCEPT ![p] = h]
        /\ UNCHANGED <<users, received, crashes, revision, codes>>
    BY <1>4 DEF CountUsers, Goto
  <2>2. b \in Script /\ b.pc = "admin"
    BY GotoType
  <2>3. new \in User /\ new.email = AdminEmail
    BY <1>2, NewUserType, BootstrapAssumption DEF Roles
  <2>4. h \in Handler /\ h.pc = "insert" /\ h.body = new
    BY <2>3, IdleType DEF Idle, Handler
  <2> HIDE DEF b, new, h
  <2>5. HandlerFits(h) /\ InsertFits(p, h)
    BY <2>3, <2>4 DEF HandlerFits, InsertFits
  <2>6. received' \in 0 .. MaxRequests /\ crashes' \in 0 .. MaxCrashes
    BY <1>1, <2>1 DEF UsersInv, UsersTypeOK
  <2>7. UsersInv'
    BY <1>1, <1>2, <2>1, <2>4, <2>5, <2>6, HandlerMoves
  <2>8. req'[p] = h /\ (\A q \in Scripts \ {p} : req'[q] = req[q]) /\ boot'[p] = b
    BY <1>2, <2>1, BootstrapAssumption DEF IInv, TypeOK, UsersTypeOK
  <2>9. ScriptInv(p)'
    BY <1>1, <2>1, <2>2, <2>3, <2>4, <2>8 DEF ScriptInv
  <2>10. Stored \subseteq Stored'
    BY <2>1 DEF Stored
  <2> QED
    BY <1>1, <2>1, <2>2, <2>7, <2>8, <2>9, <2>10, ScriptMoves
<1>5. CASE InsertAdmin(p)
  <2>1. boot[p].pc = "admin" /\ req[p].pc = "insert" /\ req[p].body.email = AdminEmail
    BY <1>1, <1>5 DEF InsertAdmin, ScriptInv
  <2>2. UsersInv' /\ UNCHANGED <<users, received, crashes, revision, codes>>
    BY <1>1, <1>2, <1>5, InsertStep DEF InsertAdmin, Insert
  <2>3. Stored' = Stored
    BY <2>2 DEF Stored
  <2>4. CASE EmailTaken(AdminEmail)
    <3>1. boot' = [boot EXCEPT ![p] = Down] /\ req' = [req EXCEPT ![p] = Idle]
      BY <1>5, <2>1, <2>4 DEF InsertAdmin, Insert, Fail, Rollback
    <3>2. req'[p] = Idle /\ (\A q \in Scripts \ {p} : req'[q] = req[q]) /\ boot'[p] = Down
      BY <1>2, <3>1, BootstrapAssumption DEF IInv, TypeOK, UsersTypeOK
    <3>3. ScriptInv(p)'
      BY <3>2, DownType, IdleType DEF ScriptInv
    <3> QED
      BY <1>1, <2>2, <2>3, <3>1, <3>2, <3>3, DownType, ScriptMoves
  <2>5. CASE ~EmailTaken(AdminEmail)
    <3> DEFINE b == [Down EXCEPT !.pc = "created"]
    <3>1. b \in Script /\ b.pc = "created"
      BY GotoType
    <3>2. boot' = [boot EXCEPT ![p] = b]
      BY <1>5, <2>5 DEF InsertAdmin, Goto
    <3>3. PICK i \in FreeIds(p) : req' = [req EXCEPT ![p].pc = "added", ![p].target = i,
                                                    ![p].written = req[p].body]
      BY <1>5, <2>1, <2>5 DEF InsertAdmin, Insert
    <3> HIDE DEF b
    <3>4. /\ req'[p].pc = "added"
          /\ \A q \in Scripts \ {p} : req'[q] = req[q]
          /\ boot'[p] = b
      BY <1>2, <3>2, <3>3, BootstrapAssumption DEF IInv, TypeOK, UsersTypeOK, Handler
    <3>5. ScriptInv(p)'
      BY <1>1, <2>1, <2>2, <3>1, <3>4 DEF ScriptInv
    <3> QED
      BY <1>1, <2>2, <2>3, <3>1, <3>2, <3>4, <3>5, ScriptMoves
  <2> QED
    BY <2>4, <2>5
<1>6. CASE CommitAdmin(p)
  <2> DEFINE b == [Down EXCEPT !.pc = Done(p, "serve")]
  <2>1. /\ boot[p].pc = "created" /\ boot' = [boot EXCEPT ![p] = b]
        /\ req' = [req EXCEPT ![p] = Idle] /\ UNCHANGED <<revision, codes>>
    BY <1>6 DEF CommitAdmin, CommitNew, Goto, Rollback
  <2>2. Done(p, "serve") \in {"serve", "down"}
    BY DEF Done
  <2>3. b \in Script /\ b.pc \in {"serve", "down"}
    BY <2>2, GotoType
  <2> HIDE DEF b
  <2>4. UsersInv' /\ Stored' # {} /\ Stored \subseteq Stored'
    BY <1>1, <1>2, <1>6, CommitNewStep DEF CommitAdmin
  <2>5. req'[p] = Idle /\ (\A q \in Scripts \ {p} : req'[q] = req[q]) /\ boot'[p] = b
    BY <1>2, <2>1, BootstrapAssumption DEF IInv, TypeOK, UsersTypeOK
  <2>6. ScriptInv(p)'
    BY <1>1, <2>1, <2>3, <2>4, <2>5, IdleType DEF ScriptInv
  <2> QED
    BY <1>1, <2>1, <2>3, <2>4, <2>5, <2>6, ScriptMoves
<1> QED
  BY <1>3, <1>4, <1>5, <1>6

LEMMA ExitStep ==
  ASSUME IInv, NEW p \in Scripts, Exit(p)
  PROVE  IInv'
<1>1. UsersInv /\ p \in Slots /\ codes \subseteq AllCodes
  BY UsersPart, BootstrapAssumption DEF IInv, TypeOK
<1>2. boot' = [boot EXCEPT ![p] = Down] /\ req' = [req EXCEPT ![p] = Idle]
      /\ UNCHANGED <<users, received, revision, codes>>
  BY DEF Exit, Fail, Rollback
<1>3. received' \in 0 .. MaxRequests /\ crashes' \in 0 .. MaxCrashes
  BY <1>1, UsersAssumption DEF Exit, UsersInv, UsersTypeOK
<1>4. UsersInv'
  BY <1>1, <1>3, RollsBack DEF Exit
<1>5. req'[p] = Idle /\ (\A q \in Scripts \ {p} : req'[q] = req[q]) /\ boot'[p] = Down
  BY <1>1, <1>2, BootstrapAssumption DEF IInv, TypeOK, UsersTypeOK
<1>6. ScriptInv(p)'
  BY <1>5, DownType, IdleType DEF ScriptInv
<1>7. Stored \subseteq Stored'
  BY <1>2 DEF Stored
<1> QED
  BY <1>1, <1>2, <1>4, <1>5, <1>6, <1>7, DownType, ScriptMoves

(* Every step keeps the invariant.                                         *)
LEMMA NextIInv == IInv /\ [Next]_vars => IInv'
<1> SUFFICES ASSUME IInv, [Next]_vars PROVE IInv'
  OBVIOUS
<1>1. UsersInv
  BY UsersPart
<1>2. CASE UNCHANGED vars
  BY <1>2 DEF vars, IInv, TypeOK, UsersTypeOK, SessionInv, InsertInv, EmailsAreUnique, BootInv,
              ScriptInv, EmailTaken, Stored
<1>3. ASSUME NEW p \in Scripts, Start(p) \/ ScriptStep(p) \/ Exit(p)
      PROVE  IInv'
  BY <1>3, UpgradeStep, SeedStep, AdminStep, ExitStep DEF ScriptStep
<1>4. ASSUME NEW s \in Requests, ReceiveAny(s), UNCHANGED bootVars
      PROVE  IInv'
  <2>1. s \in Slots /\ s \notin Scripts
    BY DEF Requests
  <2>2. UsersInv'
    BY <1>1, <1>4, <2>1, ReceiveStep
  <2>3. UNCHANGED users /\ \A p \in Scripts : req'[p] = req[p]
    <3>1. ASSUME NEW actor, NEW target, NEW body, NEW pc, Receive(s, actor, target, body, pc)
          PROVE  users' = users /\ \A q \in Slots \ {s} : req'[q] = req[q]
      <4> DEFINE h == [Idle EXCEPT !.pc = pc, !.actor = actor, !.target = target, !.body = body]
      <4>1. users' = users /\ req' = [req EXCEPT ![s] = h]
        BY <3>1 DEF Receive
      <4> HIDE DEF h
      <4> QED
        BY <4>1, <2>1 DEF IInv, TypeOK, UsersTypeOK
    <3>2. users' = users /\ \A q \in Slots \ {s} : req'[q] = req[q]
      BY <1>4, <3>1, Zenon DEF ReceiveAny, ReceivePost, ReceivePatch, ReceiveDelete, ReceiveVerify
    <3> QED
      BY <3>2, <2>1, BootstrapAssumption
  <2>4. Stored \subseteq Stored'
    BY <2>3 DEF Stored
  <2> QED
    BY <1>4, <2>2, <2>3, <2>4, RequestMoves
<1>5. ASSUME NEW i \in Ids, NEW grants \in {{}, {"users.manage"}}, Regrant(i, grants),
             UNCHANGED bootVars
      PROVE  IInv'
  <2>1. UsersInv' /\ Stored \subseteq Stored' /\ req' = req
    BY <1>1, <1>5, RegrantStep DEF Regrant
  <2> QED
    BY <1>5, <2>1, RequestMoves
<1>6. ASSUME NEW s \in Requests, SessionStep(s) \/ Crash(s), UNCHANGED bootVars
      PROVE  IInv'
  <2>1. s \in Slots /\ s \notin Scripts
    BY DEF Requests
  <2>2. UsersInv' /\ Stored \subseteq Stored'
    BY <1>1, <1>6, <2>1, SessionSteps
  <2>3. \A p \in Scripts : req'[p] = req[p]
    <3>1. \A t \in Slots \ {s} : req'[t] = req[t]
      BY <1>6, <2>1 DEF SessionStep, Check, FindTarget, FindEmail, Flush, Insert, CommitEdit,
                        CommitNew, Crash, Rollback, IInv, TypeOK, UsersTypeOK
    <3> QED
      BY <2>1, <3>1, BootstrapAssumption
  <2> QED
    BY <1>6, <2>2, <2>3, RequestMoves
<1> QED
  BY <1>2, <1>3, <1>4, <1>5, <1>6 DEF Next

-----------------------------------------------------------------------------
(* The invariant holds in every reachable state (UserRepository, the       *)
(* requests of users/router.py, entrypoint.sh and its scripts).            *)
THEOREM SpecIInv == Spec => []IInv
BY InitIInv, NextIInv, PTL DEF Spec

(* No two users have one address, whatever requests and bootstraps run     *)
(* beside each other: the lookups of UserRepository.get_by_email, and with *)
(* them the login, have one answer.                                        *)
THEOREM UniqueEmails == Spec => []EmailsAreUnique
<1>1. IInv => EmailsAreUnique
  BY DEF IInv
<1> QED
  BY SpecIInv, <1>1, PTL

(* An API container that serves has the schema at head, every permission   *)
(* code and a first user, for any number of containers and of scripts that *)
(* are run by hand (entrypoint.sh, tools/bootstrap.py).                    *)
THEOREM Ready == Spec => []ServingIsReady
<1>1. IInv => ServingIsReady
  <2> SUFFICES ASSUME IInv, NEW p \in Serving
               PROVE  revision = HEAD /\ codes = AllCodes /\ Stored # {}
    BY DEF ServingIsReady
  <2>1. p \in Scripts /\ boot[p].pc = "serve"
    BY DEF Serving, Scripts
  <2>2. ScriptInv(p)
    BY <2>1 DEF IInv, BootInv
  <2> QED
    BY <2>1, <2>2 DEF ScriptInv
<1> QED
  BY SpecIInv, <1>1, PTL

(* An edit of a user leaves alone every column that it was not asked to    *)
(* change, the address and the grants among them (UserRepository.update).  *)
THEOREM OtherColumnsStay == Spec => EditsKeepToTheirColumns
<1> DEFINE Kept == \A s \in Slots : CommitEdit(s) =>
                     LET old == users[req[s].target]
                         new == users'[req[s].target]
                     IN /\ new.email = old.email /\ new.extra = old.extra
                        /\ \A c \in DOMAIN NoChange : req[s].body[c] = Same => new[c] = old[c]
<1>1. ASSUME IInv, NEW s \in Slots, CommitEdit(s)
      PROVE  /\ users'[req[s].target].email = users[req[s].target].email
             /\ users'[req[s].target].extra = users[req[s].target].extra
             /\ \A c \in DOMAIN NoChange : req[s].body[c] = Same =>
                  users'[req[s].target][c] = users[req[s].target][c]
  <2> DEFINE ch  == req[s].written
             old == users[req[s].target]
  <2>1. /\ ch \in Change /\ old \in User /\ req[s].body \in Change
        /\ ch = Dirty(req[s].body, req[s].loaded)
        /\ users'[req[s].target] = Updated(old, ch)
    BY <1>1, UsersPart, CommitEditRow
  <2>2. ASSUME NEW c \in DOMAIN NoChange, req[s].body[c] = Same
        PROVE  users'[req[s].target][c] = old[c]
    <3>1. c \in {"role", "is_active"} \/ c \in {"password", "login"}
      BY DEF NoChange
    <3>2. ch[c] = Same
      BY <2>1, <2>2, <3>1, DirtyType
    <3>3. Updated(old, ch)[c] = Column(old[c], ch[c])
      BY <2>1, <3>1, UpdatedType
    <3> QED
      BY <2>1, <3>2, <3>3 DEF Column
  <2> QED
    BY <2>1, <2>2, UpdatedType
<1>2. IInv /\ [Next]_vars => [Kept]_userVars
  BY <1>1
<1> QED
  BY SpecIInv, <1>2, PTL DEF Spec, EditsKeepToTheirColumns

(* An edit of a user gives each column that it was asked to change, and    *)
(* that had another value when it loaded the row, the value asked for.     *)
THEOREM AskedColumnsChange == Spec => EditsTakeEffect
<1> DEFINE TakesEffect == \A s \in Slots : CommitEdit(s) =>
                            \A c \in DOMAIN NoChange :
                              req[s].body[c] \notin {Same, req[s].loaded[c]} =>
                                users'[req[s].target][c] = req[s].body[c]
<1>1. ASSUME IInv, NEW s \in Slots, CommitEdit(s), NEW c \in DOMAIN NoChange,
             req[s].body[c] \notin {Same, req[s].loaded[c]}
      PROVE  users'[req[s].target][c] = req[s].body[c]
  <2> DEFINE ch  == req[s].written
             old == users[req[s].target]
  <2>1. /\ ch \in Change /\ old \in User /\ req[s].body \in Change
        /\ ch = Dirty(req[s].body, req[s].loaded)
        /\ users'[req[s].target] = Updated(old, ch)
    BY <1>1, UsersPart, CommitEditRow
  <2>2. c \in {"role", "is_active"} \/ c \in {"password", "login"}
    BY DEF NoChange
  <2>3. ch[c] = req[s].body[c]
    BY <1>1, <2>1, <2>2, DirtyType
  <2>4. Updated(old, ch)[c] = Column(old[c], ch[c])
    BY <2>1, <2>2, UpdatedType
  <2> QED
    BY <1>1, <2>1, <2>3, <2>4 DEF Column
<1>2. IInv /\ [Next]_vars => [TakesEffect]_userVars
  BY <1>1
<1> QED
  BY SpecIInv, <1>2, PTL DEF Spec, EditsTakeEffect

-----------------------------------------------------------------------------
(* The refinement of AtomicTable.                                          *)

EditColumns == {"role", "is_active", "password", "login"}
UserColumns == EditColumns \cup {"email", "extra"}

(* When the handler of s becomes h, the table sees what h asks for.        *)
LEMMA PendingBecomes ==
  ASSUME UsersTypeOK, NEW s \in Slots, NEW h, req' = [req EXCEPT ![s] = h]
  PROVE  /\ PendingView' = [PendingView EXCEPT ![s] = AskedFor(h)]
         /\ AskedFor(h) = AskedFor(req[s]) => PendingView' = PendingView
<1>1. \A t \in Slots : req'[t] = IF t = s THEN h ELSE req[t]
  BY DEF UsersTypeOK
<1>2. PendingView' = [t \in Slots |-> AskedFor(req'[t])]
  BY DEF PendingView
<1>3. ASSUME NEW t \in Slots
      PROVE  AskedFor(req'[t]) = IF t = s THEN AskedFor(h) ELSE AskedFor(req[t])
  BY <1>1
<1>4. PendingView' = [PendingView EXCEPT ![s] = AskedFor(h)]
  BY <1>2, <1>3 DEF PendingView
<1>5. ASSUME AskedFor(h) = AskedFor(req[s]) PROVE PendingView' = PendingView
  BY <1>2, <1>3, <1>5 DEF PendingView
<1> QED
  BY <1>4, <1>5

(* What a handler asks for, by its place in the code.                      *)
LEMMA AskedForWhat ==
  ASSUME NEW h \in Handler
  PROVE  /\ h.pc = "idle" => AskedFor(h) = Table!Nothing
         /\ h.pc = "added" => AskedFor(h) = [kind |-> "add", row |-> h.written]
         /\ h.pc = "insert" => AskedFor(h) = [kind |-> "add", row |-> h.body]
         /\ h.pc \in {"check", "find"} /\ h.target = None =>
              AskedFor(h) = [kind |-> "add", row |-> h.body]
         /\ h.pc \in {"check", "find"} /\ h.target # None =>
              AskedFor(h) = [kind |-> "edit", id |-> h.target, edit |-> Asked(h.body)]
         /\ h.pc \in {"flush", "commit"} =>
              AskedFor(h) = [kind |-> "edit", id |-> h.target, edit |-> Asked(h.body)]
BY DEF AskedFor, Creates, Table!Nothing, Handler

(* A handler that only gets on asks for what it asked for.                 *)
LEMMA GettingOnIsHidden ==
  ASSUME UsersTypeOK, NEW s \in Slots, NEW h \in Handler, req' = [req EXCEPT ![s] = h],
         UNCHANGED users,
         \/ /\ req[s].pc = "check" /\ h.pc = "find"
            /\ h.target = req[s].target /\ h.body = req[s].body
         \/ /\ req[s].pc = "find" /\ req[s].target = None
            /\ h.pc = "insert" /\ h.body = req[s].body
         \/ req[s].pc = "insert" /\ h.pc = "added" /\ h.written = req[s].body
         \/ /\ \/ req[s].pc = "find" /\ req[s].target # None /\ h.pc = "flush"
               \/ req[s].pc = "flush" /\ h.pc = "commit"
            /\ h.target = req[s].target /\ h.body = req[s].body
  PROVE  UNCHANGED Table!tableVars
<1>1. req[s] \in Handler
  BY DEF UsersTypeOK
<1>2. AskedFor(h) = AskedFor(req[s])
  BY <1>1, AskedForWhat
<1> QED
  BY <1>2, PendingBecomes DEF Table!tableVars

(* A session that is over asks for nothing.                                *)
LEMMA EndingEndsTheOperation ==
  ASSUME UsersTypeOK, NEW s \in Slots, req' = [req EXCEPT ![s] = Idle]
  PROVE  PendingView' = [PendingView EXCEPT ![s] = Table!Nothing]
<1>1. AskedFor(Idle) = Table!Nothing
  BY IdleType, AskedForWhat
<1> QED
  BY <1>1, PendingBecomes

(* A rollback drops what was asked for, if anything was.                   *)
LEMMA RollbackDrops ==
  ASSUME UsersTypeOK, NEW s \in Slots, Rollback(s), UNCHANGED users
  PROVE  [Table!Next]_(Table!tableVars)
<1>1. PendingView' = [PendingView EXCEPT ![s] = Table!Nothing]
  BY EndingEndsTheOperation DEF Rollback
<1>2. CASE PendingView[s] = Table!Nothing
  <2>1. PendingView' = PendingView
    BY <1>1, <1>2 DEF PendingView
  <2> QED
    BY <2>1 DEF Table!tableVars
<1>3. CASE PendingView[s] # Table!Nothing
  BY <1>1, <1>3 DEF Table!Next, Table!Drop, Table!Ends
<1> QED
  BY <1>2, <1>3

(* An idle session that starts on something it may be asked for.           *)
LEMMA StartAsks ==
  ASSUME UsersTypeOK, NEW s \in Slots, NEW h, AskedFor(h) \in Requestable[s],
         req[s].pc = "idle", req' = [req EXCEPT ![s] = h], UNCHANGED users
  PROVE  Table!Next
<1>1. PendingView' = [PendingView EXCEPT ![s] = AskedFor(h)]
  BY PendingBecomes
<1>2. PendingView[s] = Table!Nothing
  BY AskedForWhat DEF PendingView, UsersTypeOK
<1>3. Table!Ask(s)
  BY <1>1, <1>2 DEF Table!Ask
<1> QED
  BY <1>3 DEF Table!Next

(* A request that arrives asks for something that it may be asked for.     *)
LEMMA ReceiveAsks ==
  ASSUME UsersTypeOK, NEW s \in Requests, ReceiveAny(s)
  PROVE  Table!Next
<1>1. s \in Slots /\ s \notin Scripts
  BY DEF Requests
<1>2. ASSUME NEW actor \in Ids \cup {None}, NEW target \in Ids, NEW body \in EditBodies(s),
             body \in Change, NEW pc \in {"check", "find"}, Receive(s, actor, target, body, pc)
      PROVE  Table!Next
  <2> DEFINE h == [Idle EXCEPT !.pc = pc, !.actor = actor, !.target = target, !.body = body]
  <2>1. h \in Handler /\ h.pc = pc /\ h.target = target /\ h.body = body
    BY <1>2, IdleType DEF Handler, Idle
  <2>2. req[s].pc = "idle" /\ req' = [req EXCEPT ![s] = h] /\ UNCHANGED users
    BY <1>2 DEF Receive
  <2> HIDE DEF h
  <2>3. AskedFor(h) = [kind |-> "edit", id |-> target, edit |-> Asked(body)]
    BY <2>1, AskedForWhat, UsersAssumption
  <2>4. AskedFor(h) \in Requestable[s]
    BY <1>1, <2>3 DEF Requestable
  <2> QED
    BY <1>1, <2>2, <2>4, StartAsks
<1>3. CASE ReceivePost(s)
  <2>1. PICK actor \in Stored, email \in Emails, role \in Roles :
          Receive(s, actor, None, NewUser(s, email, role), "check")
    BY <1>3 DEF ReceivePost
  <2> DEFINE row == NewUser(s, email, role)
             h   == [Idle EXCEPT !.pc = "check", !.actor = actor, !.target = None, !.body = row]
  <2>2. row \in User /\ row \in NewRows(s)
    BY <1>1, NewUserType DEF NewRows
  <2>3. req[s].pc = "idle" /\ req' = [req EXCEPT ![s] = h] /\ UNCHANGED users
    BY <2>1 DEF Receive
  <2> HIDE DEF row
  <2>4. h \in Handler /\ h.pc = "check" /\ h.target = None /\ h.body = row
    BY <2>2, IdleType DEF Handler, Idle, Stored
  <2> HIDE DEF h
  <2>5. AskedFor(h) \in Requestable[s]
    BY <1>1, <2>2, <2>4, AskedForWhat DEF Requestable
  <2> QED
    BY <1>1, <2>3, <2>5, StartAsks
<1>4. CASE ReceivePatch(s)
  <2>1. PICK actor \in Stored, target \in Stored, body \in Edits(s) :
          Receive(s, actor, target, body, "check")
    BY <1>4 DEF ReceivePatch
  <2>2. body \in EditBodies(s) /\ body \in Change
    BY <1>1, UsersAssumption DEF EditBodies, Edits, Change, NoChange
  <2> QED
    BY <1>2, <2>1, <2>2 DEF Stored
<1>5. CASE ReceiveDelete(s)
  <2>1. PICK actor \in Stored, target \in Stored : Receive(s, actor, target, Deactivation, "check")
    BY <1>5 DEF ReceiveDelete
  <2>2. Deactivation \in EditBodies(s) /\ Deactivation \in Change
    BY <1>1 DEF EditBodies, Deactivation, Change, NoChange
  <2> QED
    BY <1>2, <2>1, <2>2 DEF Stored
<1>6. CASE ReceiveVerify(s)
  <2> DEFINE login == [NoChange EXCEPT !.login = s]
  <2>1. PICK i \in Stored : Receive(s, None, i, login, "find")
    BY <1>6 DEF ReceiveVerify
  <2>2. login \in EditBodies(s) /\ login \in Change
    BY <1>1 DEF EditBodies, Change, NoChange
  <2> HIDE DEF login
  <2> QED
    BY <1>2, <2>1, <2>2 DEF Stored
<1> QED
  BY <1>3, <1>4, <1>5, <1>6 DEF ReceiveAny

(* The dirty columns are among those asked for, with the values asked for. *)
LEMMA DirtyIsAsked ==
  ASSUME NEW body \in Change, NEW loaded, NEW c \in EditColumns,
         Dirty(body, loaded)[c] # Same
  PROVE  /\ c \in DOMAIN Asked(body)
         /\ Asked(body)[c] = Dirty(body, loaded)[c]
<1>1. body[c] = Dirty(body, loaded)[c] /\ body[c] # Same
  BY DirtyType DEF EditColumns
<1>2. DOMAIN NoChange = EditColumns
  BY DEF NoChange, EditColumns
<1> QED
  BY <1>1, <1>2 DEF Asked

(* What an UPDATE leaves is the row overlaid with the dirty columns of the *)
(* request.                                                                *)
LEMMA UpdatedIsOverlay ==
  ASSUME NEW row \in User, NEW body \in Change, NEW loaded
  PROVE  Updated(row, Dirty(body, loaded)) =
           Table!Overlay(row, Asked(body), {c \in EditColumns : Dirty(body, loaded)[c] # Same})
<1> DEFINE written == Dirty(body, loaded)
           dirty == {c \in EditColumns : written[c] # Same}
           new   == Updated(row, written)
           over  == Table!Overlay(row, Asked(body), dirty)
<1>1. written \in Change
  BY DirtyType
<1>2. DOMAIN row = UserColumns /\ DOMAIN new = UserColumns /\ DOMAIN over = UserColumns
  BY DEF User, Updated, EditColumns, UserColumns, Table!Overlay
<1>3. ASSUME NEW c \in UserColumns PROVE new[c] = over[c]
  <2>1. over[c] = IF c \in dirty THEN Asked(body)[c] ELSE row[c]
    BY <1>2 DEF Table!Overlay
  <2>2. CASE c \in EditColumns
    <3>1. new[c] = Column(row[c], written[c])
      BY <1>1, <2>2, UpdatedType DEF EditColumns
    <3>2. c \in dirty => Asked(body)[c] = written[c]
      BY DirtyIsAsked
    <3> QED
      BY <2>1, <2>2, <3>1, <3>2 DEF Column
  <2>3. CASE c \notin EditColumns
    <3>1. c = "email" \/ c = "extra"
      BY <2>3 DEF UserColumns
    <3>2. new[c] = row[c]
      BY <1>1, <3>1, UpdatedType
    <3> QED
      BY <2>1, <2>3, <3>2
  <2> QED
    BY <2>2, <2>3
<1>4. new = [c \in DOMAIN new |-> new[c]]
  BY DEF Updated
<1>5. over = [c \in DOMAIN over |-> over[c]]
  BY DEF Table!Overlay
<1> HIDE DEF new, over
<1>6. new = over
  BY <1>2, <1>3, <1>4, <1>5
<1> QED
  BY <1>6 DEF new, over, dirty, written

(* The commit of an INSERT adds the row that was asked for.                *)
LEMMA CommitNewApplies ==
  ASSUME UsersInv, NEW s \in Slots, CommitNew(s)
  PROVE  Table!ApplyAdd(s, req[s].target) /\ req[s].target \in Ids
<1> DEFINE i   == req[s].target
           row == req[s].written
<1>1. UsersTypeOK /\ req[s] \in Handler /\ req[s].pc = "added" /\ row \in User
  BY DEF CommitNew, UsersInv, UsersTypeOK, InsertInv
<1>2. i \in Ids \ Stored /\ ~EmailTaken(row.email)
  BY <1>1 DEF UsersInv, InsertInv
<1>3. users[i] = None /\ ~Table!KeyTaken(row["email"], i)
  BY <1>2 DEF Stored, EmailTaken, Table!KeyTaken
<1>4. PendingView[s] = [kind |-> "add", row |-> row]
  BY <1>1, AskedForWhat DEF PendingView
<1>5. PendingView' = [PendingView EXCEPT ![s] = Table!Nothing]
  BY <1>1, EndingEndsTheOperation DEF CommitNew, Rollback
<1>6. users' = [users EXCEPT ![i] = row]
  BY DEF CommitNew
<1> HIDE DEF i, row
<1>7. Table!ApplyAdd(s, i)
  BY <1>3, <1>4, <1>5, <1>6 DEF Table!ApplyAdd, Table!Ends
<1> QED
  BY <1>2, <1>7 DEF i

(* The commit of an edit changes the dirty columns; none is the address.   *)
LEMMA CommitEditApplies ==
  ASSUME UsersInv, NEW s \in Slots, CommitEdit(s)
  PROVE  /\ PendingView[s].kind = "edit"
         /\ \E columns \in SUBSET DOMAIN PendingView[s].edit : Table!ApplyEdit(s, columns)
<1> DEFINE i     == req[s].target
           edit  == Asked(req[s].body)
           dirty == {c \in EditColumns : req[s].written[c] # Same}
<1>1. /\ UsersTypeOK /\ req[s] \in Handler /\ req[s].pc = "commit"
      /\ users[i] # None /\ users[i] \in User
      /\ req[s].body \in Change
      /\ req[s].written = Dirty(req[s].body, req[s].loaded)
      /\ users' = [users EXCEPT ![i] = Updated(users[i], req[s].written)]
  BY CommitEditRow DEF UsersInv, UsersTypeOK, CommitEdit, Stored
<1>2. dirty \subseteq DOMAIN edit
  BY <1>1, DirtyIsAsked
<1>3. Updated(users[i], req[s].written) = Table!Overlay(users[i], edit, dirty)
  BY <1>1, UpdatedIsOverlay
<1>4. "email" \notin dirty
  BY DEF EditColumns
<1>5. PendingView[s] = [kind |-> "edit", id |-> i, edit |-> edit]
  BY <1>1, AskedForWhat DEF PendingView
<1>6. PendingView' = [PendingView EXCEPT ![s] = Table!Nothing]
  BY <1>1, EndingEndsTheOperation DEF CommitEdit, Rollback
<1> HIDE DEF i, edit, dirty
<1>7. Table!ApplyEdit(s, dirty)
  BY <1>1, <1>3, <1>4, <1>5, <1>6 DEF Table!ApplyEdit, Table!Change, Table!Ends
<1> QED
  BY <1>2, <1>5, <1>7

(* Other grants are an edit from outside.                                  *)
LEMMA RegrantIsOutside ==
  ASSUME UsersInv, NEW i \in Ids, NEW grants \in {{}, {"users.manage"}}, Regrant(i, grants)
  PROVE  Table!Next
<1> DEFINE ed   == [extra |-> grants]
           new  == [users[i] EXCEPT !.extra = grants]
           over == Table!Overlay(users[i], ed, DOMAIN ed)
<1>1. /\ users[i] # None /\ users[i] \in User /\ req' = req
      /\ users' = [users EXCEPT ![i] = new]
  BY DEF Regrant, UsersInv, UsersTypeOK
<1>2. DOMAIN ed = {"extra"} /\ ed["extra"] = grants
  OBVIOUS
<1>3. DOMAIN new = DOMAIN users[i] /\ DOMAIN over = DOMAIN users[i]
  BY DEF Table!Overlay
<1>4. ASSUME NEW c \in DOMAIN users[i] PROVE new[c] = over[c]
  <2>1. over[c] = IF c \in DOMAIN ed THEN ed[c] ELSE users[i][c]
    BY DEF Table!Overlay
  <2>2. new[c] = IF c = "extra" THEN grants ELSE users[i][c]
    OBVIOUS
  <2> QED
    BY <1>2, <2>1, <2>2
<1>5. new = [c \in DOMAIN new |-> new[c]]
  BY <1>1 DEF User
<1>6. over = [c \in DOMAIN over |-> over[c]]
  BY DEF Table!Overlay
<1> HIDE DEF new, over
<1>7. new = over
  BY <1>3, <1>4, <1>5, <1>6
<1>8. users' = [users EXCEPT ![i] = Table!Overlay(users[i], ed, DOMAIN ed)]
  BY <1>1, <1>7 DEF over
<1>9. "email" \notin DOMAIN ed
  BY <1>2
<1>10. UNCHANGED PendingView
  BY <1>1 DEF PendingView
<1>11. ed \in {[extra |-> g] : g \in {{}, {"users.manage"}}}
  OBVIOUS
<1> HIDE DEF ed
<1>12. Table!Change(i, ed, DOMAIN ed)
  BY <1>1, <1>8, <1>9 DEF Table!Change
<1> QED
  BY <1>10, <1>11, <1>12 DEF Table!Next

(* The INSERT of a request or of create_admin is hidden until its commit;  *)
(* the unique constraint drops it.                                         *)
LEMMA InsertIsHidden ==
  ASSUME UsersTypeOK, NEW s \in Slots, Insert(s)
  PROVE  [Table!Next]_(Table!tableVars)
<1>1. req[s] \in Handler /\ req[s].pc = "insert" /\ UNCHANGED users
  BY DEF Insert, UsersTypeOK
<1>2. CASE EmailTaken(req[s].body.email)
  BY <1>1, <1>2, RollbackDrops DEF Insert
<1>3. CASE ~EmailTaken(req[s].body.email)
  <2>1. PICK i \in FreeIds(s) : req' = [req EXCEPT ![s].pc = "added", ![s].target = i,
                                                  ![s].written = req[s].body]
    BY <1>3 DEF Insert
  <2> DEFINE h == [req[s] EXCEPT !.pc = "added", !.target = i, !.written = req[s].body]
  <2>2. h \in Handler /\ h.pc = "added" /\ h.written = req[s].body
    BY <1>1 DEF Handler, FreeIds
  <2>3. req' = [req EXCEPT ![s] = h]
    BY <2>1
  <2> HIDE DEF h
  <2> QED
    BY <1>1, <2>2, <2>3, GettingOnIsHidden
<1> QED
  BY <1>2, <1>3

(* Every step of a session is a step of the table or hidden.               *)
LEMMA SessionStepRefines ==
  ASSUME UsersInv, NEW s \in Slots, SessionStep(s) \/ Crash(s)
  PROVE  [Table!Next]_(Table!tableVars)
<1>1. UsersTypeOK /\ req[s] \in Handler
  BY DEF UsersInv, UsersTypeOK
<1>2. ASSUME Rollback(s), UNCHANGED users PROVE [Table!Next]_(Table!tableVars)
  BY <1>1, <1>2, RollbackDrops
<1>3. CASE Check(s)
  <2> DEFINE u == users[req[s].actor]
             h == [req[s] EXCEPT !.pc = "find", !.loaded = u]
  <2>1. CASE req' = [req EXCEPT ![s] = h]
    <3>1. req[s].pc = "check" /\ UNCHANGED users
      BY <1>3 DEF Check
    <3>2. u \in User
      BY <3>1 DEF UsersInv, SessionInv, UsersTypeOK, Stored
    <3>3. h \in Handler /\ h.pc = "find" /\ h.target = req[s].target /\ h.body = req[s].body
      BY <1>1, <3>2 DEF Handler
    <3> HIDE DEF h
    <3> QED
      BY <1>1, <2>1, <3>1, <3>3, GettingOnIsHidden
  <2> QED
    BY <1>2, <1>3, <2>1 DEF Check
<1>4. CASE FindTarget(s)
  <2> DEFINE i == req[s].target
             u == IF req[s].actor = i THEN req[s].loaded ELSE users[i]
             h == [req[s] EXCEPT !.pc = "flush", !.loaded = u]
  <2>1. CASE req' = [req EXCEPT ![s] = h]
    <3>1. req[s].pc = "find" /\ req[s].target # None /\ UNCHANGED users
      BY <1>4 DEF FindTarget
    <3>2. u \in User
      BY <3>1 DEF UsersInv, SessionInv, UsersTypeOK, Stored
    <3>3. h \in Handler /\ h.pc = "flush" /\ h.target = req[s].target /\ h.body = req[s].body
      BY <1>1, <3>2 DEF Handler
    <3> HIDE DEF h
    <3> QED
      BY <1>1, <2>1, <3>1, <3>3, GettingOnIsHidden
  <2> QED
    BY <1>2, <1>4, <2>1 DEF FindTarget
<1>5. CASE FindEmail(s)
  <2> DEFINE h == [req[s] EXCEPT !.pc = "insert"]
  <2>1. CASE req' = [req EXCEPT ![s] = h]
    <3>1. req[s].pc = "find" /\ req[s].target = None /\ UNCHANGED users
      BY <1>5 DEF FindEmail
    <3>2. h \in Handler /\ h.pc = "insert" /\ h.body = req[s].body
      BY <1>1 DEF Handler
    <3> HIDE DEF h
    <3> QED
      BY <1>1, <2>1, <3>1, <3>2, GettingOnIsHidden
  <2> QED
    BY <1>2, <1>5, <2>1 DEF FindEmail
<1>6. CASE Flush(s)
  <2> DEFINE written == Dirty(req[s].body, req[s].loaded)
             h       == [req[s] EXCEPT !.pc = "commit", !.written = written]
  <2>1. req[s].pc = "flush" /\ req' = [req EXCEPT ![s] = h] /\ UNCHANGED users
    BY <1>6 DEF Flush
  <2>2. req[s].body \in Change
    BY <2>1 DEF UsersInv, SessionInv
  <2>3. written \in Change
    BY <2>2, DirtyType
  <2> HIDE DEF written
  <2>4. h \in Handler /\ h.pc = "commit" /\ h.target = req[s].target /\ h.body = req[s].body
    BY <1>1, <2>3 DEF Handler
  <2> HIDE DEF h
  <2> QED
    BY <1>1, <2>1, <2>4, GettingOnIsHidden
<1>7. CASE Insert(s)
  BY <1>1, <1>7, InsertIsHidden
<1>8. CASE CommitEdit(s)
  BY <1>8, CommitEditApplies DEF Table!Next
<1>9. CASE CommitNew(s)
  BY <1>9, CommitNewApplies DEF Table!Next
<1>10. CASE Crash(s)
  BY <1>2, <1>10 DEF Crash
<1> QED
  BY <1>3, <1>4, <1>5, <1>6, <1>7, <1>8, <1>9, <1>10 DEF SessionStep

(* So is every step of a script: only create_admin touches the table.      *)
LEMMA ScriptStepRefines ==
  ASSUME IInv, NEW p \in Scripts, Start(p) \/ ScriptStep(p) \/ Exit(p)
  PROVE  [Table!Next]_(Table!tableVars)
<1>1. UsersInv /\ UsersTypeOK /\ p \in Slots /\ ScriptInv(p)
  BY UsersPart, BootstrapAssumption DEF UsersInv, IInv, BootInv
<1>2. ASSUME UNCHANGED <<users, req>> PROVE [Table!Next]_(Table!tableVars)
  BY <1>2 DEF PendingView, Table!tableVars
<1>3. CASE Start(p) \/ ReadRevision(p) \/ Migrate(p) \/ CommitUpgrade(p)
  BY <1>2, <1>3 DEF Start, ReadRevision, Migrate, CommitUpgrade, userVars
<1>4. CASE SeedLooks(p) \/ SeedInserts(p) \/ SeedCommits(p)
  BY <1>2, <1>4 DEF SeedLooks, SeedInserts, SeedCommits, userVars
<1>5. CASE CountUsers(p)
  <2> DEFINE row == NewUser(p, AdminEmail, "admin")
             h   == [Idle EXCEPT !.pc = "insert", !.body = row]
  <2>1. CASE req' = [req EXCEPT ![p] = h]
    <3>1. req[p].pc = "idle" /\ UNCHANGED users
      BY <1>1, <1>5 DEF CountUsers, Goto, ScriptInv
    <3>2. row \in User /\ row \in NewRows(p)
      BY <1>1, NewUserType, BootstrapAssumption DEF Roles, NewRows
    <3> HIDE DEF row
    <3>3. h \in Handler /\ h.pc = "insert" /\ h.body = row
      BY <3>2, IdleType DEF Idle, Handler
    <3> HIDE DEF h
    <3>4. AskedFor(h) \in Requestable[p]
      BY <1>1, <3>2, <3>3, AskedForWhat DEF Requestable
    <3> QED
      BY <1>1, <2>1, <3>1, <3>4, StartAsks
  <2> QED
    BY <1>2, <1>5, <2>1 DEF CountUsers
<1>6. CASE InsertAdmin(p)
  BY <1>1, <1>6, InsertIsHidden DEF InsertAdmin
<1>7. CASE CommitAdmin(p)
  BY <1>1, <1>7, CommitNewApplies DEF CommitAdmin, Table!Next
<1>8. CASE Exit(p)
  BY <1>1, <1>8, RollbackDrops DEF Exit
<1> QED
  BY <1>3, <1>4, <1>5, <1>6, <1>7, <1>8 DEF ScriptStep

(* User administration and create_admin, with any sessions and scripts      *)
(* beside each other, behave as an atomic table of users: an account is     *)
(* created, edited or signed in to in one step, under an address that no    *)
(* other user has and in no column that was not asked for, or not at all.   *)
THEOREM Refinement == Spec => ImplementsTable
<1>1. Init => Table!Init
  <2> SUFFICES ASSUME Init PROVE Table!Init
    OBVIOUS
  <2>1. AskedFor(Idle) = Table!Nothing
    BY IdleType, AskedForWhat
  <2>2. PendingView = [s \in Slots |-> Table!Nothing]
    BY <2>1 DEF PendingView, Init, SessionsInit
  <2>3. users \in Installed \cup {[i \in Ids |-> None]}
    BY DEF Init
  <2> QED
    BY <2>2, <2>3 DEF Table!Init
<1>2. IInv /\ [Next]_vars => [Table!Next]_(Table!tableVars)
  <2> SUFFICES ASSUME IInv, [Next]_vars PROVE [Table!Next]_(Table!tableVars)
    OBVIOUS
  <2>1. UsersInv /\ UsersTypeOK
    BY UsersPart DEF UsersInv
  <2>2. CASE UNCHANGED vars
    BY <2>2 DEF vars, Table!tableVars, PendingView
  <2>3. ASSUME NEW p \in Scripts, Start(p) \/ ScriptStep(p) \/ Exit(p)
        PROVE  [Table!Next]_(Table!tableVars)
    BY <2>3, ScriptStepRefines
  <2>4. ASSUME NEW s \in Requests, ReceiveAny(s) PROVE Table!Next
    BY <2>1, <2>4, ReceiveAsks
  <2>5. ASSUME NEW i \in Ids, NEW grants \in {{}, {"users.manage"}}, Regrant(i, grants)
        PROVE  Table!Next
    BY <2>1, <2>5, RegrantIsOutside
  <2>6. ASSUME NEW s \in Requests, SessionStep(s) \/ Crash(s)
        PROVE  [Table!Next]_(Table!tableVars)
    BY <2>1, <2>6, SessionStepRefines DEF Requests
  <2> QED
    BY <2>2, <2>3, <2>4, <2>5, <2>6 DEF Next
<1> QED
  BY <1>1, <1>2, SpecIInv, PTL DEF Spec, ImplementsTable, Table!Spec
=============================================================================
