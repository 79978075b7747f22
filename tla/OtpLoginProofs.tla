--------------------------- MODULE OtpLoginProofs ---------------------------
(***************************************************************************)
(* Machine-checked proofs about OtpLogin, for any number of accounts,       *)
(* concurrent logins and verifications, codes and crashes.                  *)
(***************************************************************************)
EXTENDS OtpLogin, TLAPS

(* A code is not None.                                                     *)
LEMMA CodesAreNumbers == None \notin Codes /\ None \notin Codes \cup {0} /\ 0 \notin Codes
  BY OtpAssumption DEF Codes

(* The initial state satisfies the inductive invariant.                    *)
LEMMA InitIInv == Init => IInv
<1> SUFFICES ASSUME Init PROVE IInv
  OBVIOUS
<1>1. TypeOK
  BY OtpAssumption DEF Init, TypeOK, Login, IdleLogin, Verify, IdleVerify
<1>2. IssuedInv /\ AccountInv /\ SpentCodesAreGone
  BY OtpAssumption DEF Init, IssuedInv, AccountInv, SpentCodesAreGone, IdleLogin
<1>3. VerifyInv /\ FailedLoginLeavesNoCode
  BY DEF Init, VerifyInv, FailedLoginLeavesNoCode, IdleLogin, IdleVerify
<1> QED
  BY <1>1, <1>2, <1>3 DEF IInv

(* What may become of a login handler in a step that saves and mails no    *)
(* code: it keeps its code or drops it.                                    *)
LoginGoesOn(l) ==
  /\ lg'[l].account = None <=> lg'[l].pc = "idle"
  /\ \/ lg'[l].code = None
     \/ lg'[l].code = lg[l].code /\ lg'[l].account = lg[l].account
  /\ lg'[l].pc \in {"mail", "undo", "commit", "unavailable"} => lg'[l].code # None
  /\ lg'[l].pc = "unavailable" => otp'[lg'[l].account] # lg'[l].code

(* What may become of a verification handler in such a step.               *)
VerifyGoesOn(v) ==
  /\ vf'[v].account = None <=> vf'[v].pc = "idle"
  /\ vf'[v].pc \in {"get", "delete", "accept"} =>
       /\ vf'[v].code \in mailed[vf'[v].account] \cup {0}
       /\ vf'[v].pc # "get" => vf'[v].code # 0
       /\ vf'[v].pc = "accept" => otp'[vf'[v].account] # vf'[v].code

(* A step that stores no code and mails none: handlers go on, codes in     *)
(* Redis stay or go.                                                       *)
LEMMA CodesStayOrGo ==
  ASSUME IInv,
         otp' \in [Accounts -> Codes \cup {None}],
         \A a \in Accounts : otp'[a] = otp[a] \/ otp'[a] = None,
         lg' \in [Logins -> Login],
         \A l \in Logins : lg'[l] = lg[l] \/ LoginGoesOn(l),
         vf' \in [Verifies -> Verify],
         \A v \in Verifies : vf'[v] = vf[v] \/ VerifyGoesOn(v),
         UNCHANGED <<mailed, tokens, issued>>,
         crashes' \in 0 .. MaxCrashes
  PROVE  IInv'
<1> USE DEF IInv
<1>1. TypeOK'
  BY DEF TypeOK, LoginGoesOn, VerifyGoesOn
<1>2. IssuedInv'
  BY DEF IssuedInv, LoginGoesOn
<1>3. AccountInv'
  <2> SUFFICES ASSUME NEW a \in Accounts, otp'[a] # None
               PROVE  /\ \A b \in Accounts : otp'[a] \in mailed'[b] => a = b
                      /\ \A l \in Logins : lg'[l].code = otp'[a] => lg'[l].account = a
    BY DEF AccountInv
  <2>1. otp'[a] = otp[a] /\ otp[a] # None
    OBVIOUS
  <2>2. ASSUME NEW l \in Logins, lg'[l].code = otp'[a] PROVE lg'[l].account = a
    BY <2>1, <2>2 DEF LoginGoesOn, AccountInv
  <2> QED
    BY <2>1, <2>2 DEF AccountInv
<1>4. VerifyInv'
  <2> SUFFICES ASSUME NEW v \in Verifies, vf'[v].pc \in {"get", "delete", "accept"}
               PROVE  /\ vf'[v].code \in mailed'[vf'[v].account] \cup {0}
                      /\ vf'[v].pc # "get" => vf'[v].code # 0
                      /\ vf'[v].pc = "accept" => otp'[vf'[v].account] # vf'[v].code
    BY DEF VerifyInv
  <2>1. CASE VerifyGoesOn(v)
    BY <2>1 DEF VerifyGoesOn
  <2>2. CASE vf'[v] = vf[v]
    <3>1. vf[v].account \in Accounts
      BY <2>2 DEF TypeOK, Verify
    <3>2. vf[v].code \in mailed[vf[v].account] \cup {0}
      BY <2>2 DEF VerifyInv
    <3>3. vf[v].code # None
      BY <3>1, <3>2, CodesAreNumbers DEF TypeOK
    <3> QED
      BY <2>2, <3>1, <3>2, <3>3 DEF VerifyInv
  <2> QED
    BY <2>1, <2>2
<1>5. SpentCodesAreGone'
  BY DEF SpentCodesAreGone
<1>6. FailedLoginLeavesNoCode'
  <2> SUFFICES ASSUME NEW l \in Logins, lg'[l].pc = "unavailable"
               PROVE  otp'[lg'[l].account] # lg'[l].code
    BY DEF FailedLoginLeavesNoCode
  <2>1. CASE LoginGoesOn(l)
    BY <2>1 DEF LoginGoesOn
  <2>2. CASE lg'[l] = lg[l]
    <3>1. lg[l].account \in Accounts
      BY <2>2 DEF TypeOK, Login
    <3>2. lg[l].code # None /\ otp[lg[l].account] # lg[l].code
      BY <2>2 DEF IssuedInv, FailedLoginLeavesNoCode
    <3> QED
      BY <2>2, <3>1, <3>2
  <2> QED
    BY <2>1, <2>2
<1> QED
  BY <1>1, <1>2, <1>3, <1>4, <1>5, <1>6

(* A handler that moves keeps its account and its code.                    *)
LEMMA LoginMovesOn ==
  ASSUME TypeOK, NEW l \in Logins, NEW from, NEW to, LoginMoves(l, from, to),
         to = "error" \/ to = "commit" \/ to = "undo" \/ to = "unavailable" \/ to = "sent"
  PROVE  /\ lg' \in [Logins -> Login]
         /\ \A k \in Logins : k # l => lg'[k] = lg[k]
         /\ lg'[l].pc = to /\ lg'[l].account = lg[l].account /\ lg'[l].code = lg[l].code
<1> DEFINE r == [lg[l] EXCEPT !.pc = to]
<1>1. r \in Login /\ r.pc = to /\ r.account = lg[l].account /\ r.code = lg[l].code
  BY DEF TypeOK, Login
<1>2. lg' = [lg EXCEPT ![l] = r]
  BY DEF LoginMoves
<1> HIDE DEF r
<1> QED
  BY <1>1, <1>2 DEF TypeOK

(* The same of a verification.                                             *)
LEMMA VerifyMovesOn ==
  ASSUME TypeOK, NEW v \in Verifies, NEW from, NEW to, VerifyMoves(v, from, to),
         to = "delete" \/ to = "reject" \/ to = "accept" \/ to = "token" \/ to = "refused"
  PROVE  /\ vf' \in [Verifies -> Verify]
         /\ \A w \in Verifies : w # v => vf'[w] = vf[w]
         /\ vf'[v].pc = to /\ vf'[v].account = vf[v].account /\ vf'[v].code = vf[v].code
<1> DEFINE r == [vf[v] EXCEPT !.pc = to]
<1>1. r \in Verify /\ r.pc = to /\ r.account = vf[v].account /\ r.code = vf[v].code
  BY DEF TypeOK, Verify
<1>2. vf' = [vf EXCEPT ![v] = r]
  BY DEF VerifyMoves
<1> HIDE DEF r
<1> QED
  BY <1>1, <1>2 DEF TypeOK

(* The beginning and the end of a login.                                   *)
LEMMA LoginEdges ==
  ASSUME IInv, NEW l \in Logins,
         \/ \E a \in Accounts : LoginReceives(l, a)
         \/ LoginReplies(l)
         \/ CrashLogin(l)
  PROVE  IInv'
<1>1. PICK r \in Login :
        /\ lg' = [lg EXCEPT ![l] = r]
        /\ r.account = None <=> r.pc = "idle"
        /\ r.pc = "idle" \/ r.pc = "save"
        /\ r.code = None
  <2>1. ASSUME NEW a \in Accounts, LoginReceives(l, a)
        PROVE  \E r \in Login : /\ lg' = [lg EXCEPT ![l] = r]
                                /\ r.account = None <=> r.pc = "idle"
                                /\ r.pc = "idle" \/ r.pc = "save"
                                /\ r.code = None
    <3> DEFINE r == [pc |-> "save", account |-> a, code |-> None]
    <3>1. r \in Login /\ a # None
      BY OtpAssumption DEF Login
    <3>2. lg' = [lg EXCEPT ![l] = r]
      BY <2>1 DEF LoginReceives
    <3> QED
      BY <3>1, <3>2
  <2>2. ASSUME LoginReplies(l) \/ CrashLogin(l) PROVE lg' = [lg EXCEPT ![l] = IdleLogin]
    BY <2>2 DEF LoginReplies, CrashLogin
  <2>3. IdleLogin \in Login
    BY DEF IdleLogin, Login
  <2> QED
    BY <2>1, <2>2, <2>3 DEF IdleLogin
<1>2. lg' \in [Logins -> Login] /\ lg'[l] = r /\ \A k \in Logins : k # l => lg'[k] = lg[k]
  BY <1>1 DEF IInv, TypeOK
<1>3. LoginGoesOn(l)
  BY <1>1, <1>2 DEF LoginGoesOn
<1>4. UNCHANGED <<otp, mailed, tokens, issued, vf>>
  BY DEF LoginReceives, LoginReplies, CrashLogin
<1>5. crashes' \in 0 .. MaxCrashes
  BY OtpAssumption DEF LoginReceives, LoginReplies, CrashLogin, IInv, TypeOK
<1>6. /\ otp \in [Accounts -> Codes \cup {None}]
      /\ vf \in [Verifies -> Verify]
  BY DEF IInv, TypeOK
<1> QED
  BY <1>2, <1>3, <1>4, <1>5, <1>6, CodesStayOrGo

(* A login goes on without saving or mailing a code.                       *)
LEMMA LoginSteps ==
  ASSUME IInv, NEW l \in Logins,
         SaveFails(l) \/ MailRefused(l) \/ DeleteOtp(l) \/ LoginCommits(l)
  PROVE  IInv'
<1> USE DEF IInv
<1>1. PICK from \in {"save", "mail", "undo", "commit"},
           to \in {"error", "undo", "unavailable", "sent"} :
        /\ LoginMoves(l, from, to)
        /\ to = "undo" => from = "mail"
        /\ to = "unavailable" => DeleteOtp(l)
  BY DEF SaveFails, MailRefused, DeleteOtp, LoginCommits
<1>2. /\ lg' \in [Logins -> Login]
      /\ \A k \in Logins : k # l => lg'[k] = lg[k]
      /\ lg'[l].pc = to /\ lg'[l].account = lg[l].account /\ lg'[l].code = lg[l].code
  BY <1>1, LoginMovesOn
<1>3. lg[l].account \in Accounts /\ lg[l].account # None /\ lg[l].pc = from
  BY <1>1 DEF LoginMoves, TypeOK, Login
<1>4. to \in {"undo", "unavailable"} => lg[l].code # None
  BY <1>1, <1>3 DEF IssuedInv, DeleteOtp, LoginMoves
<1>5. /\ otp' \in [Accounts -> Codes \cup {None}]
      /\ \A a \in Accounts : otp'[a] = otp[a] \/ otp'[a] = None
      /\ to = "unavailable" => otp'[lg[l].account] = None
  BY <1>1, <1>3 DEF SaveFails, MailRefused, DeleteOtp, LoginCommits, TypeOK
<1>6. LoginGoesOn(l)
  BY <1>2, <1>3, <1>4, <1>5 DEF LoginGoesOn
<1>7. UNCHANGED <<mailed, tokens, issued, vf, crashes>>
  BY DEF SaveFails, MailRefused, DeleteOtp, LoginCommits
<1>8. vf \in [Verifies -> Verify] /\ crashes \in 0 .. MaxCrashes
  BY DEF TypeOK
<1> HIDE DEF IInv
<1> QED
  BY <1>2, <1>5, <1>6, <1>7, <1>8, CodesStayOrGo

(* A code expires.                                                         *)
LEMMA ExpireStep ==
  ASSUME IInv, NEW a \in Accounts, Expire(a)
  PROVE  IInv'
<1>1. /\ otp' \in [Accounts -> Codes \cup {None}]
      /\ \A b \in Accounts : otp'[b] = otp[b] \/ otp'[b] = None
  BY DEF Expire, IInv, TypeOK
<1>2. UNCHANGED <<mailed, tokens, issued, lg, vf, crashes>>
  BY DEF Expire
<1>3. /\ lg \in [Logins -> Login] /\ vf \in [Verifies -> Verify]
      /\ crashes \in 0 .. MaxCrashes
  BY DEF IInv, TypeOK
<1> QED
  BY <1>1, <1>2, <1>3, CodesStayOrGo

(* The beginning and the end of a verification.                            *)
LEMMA VerifyEdges ==
  ASSUME IInv, NEW v \in Verifies,
         \/ \E a \in Accounts, c \in 0 .. MaxCodes : VerifyReceives(v, a, c)
         \/ VerifyReplies(v)
         \/ CrashVerify(v)
  PROVE  IInv'
<1>1. PICK r \in Verify :
        /\ vf' = [vf EXCEPT ![v] = r]
        /\ r.account = None <=> r.pc = "idle"
        /\ \/ r.pc = "idle"
           \/ r.pc = "get" /\ r.code \in mailed[r.account] \cup {0}
  <2>1. ASSUME NEW a \in Accounts, NEW c \in 0 .. MaxCodes, VerifyReceives(v, a, c)
        PROVE  \E r \in Verify : /\ vf' = [vf EXCEPT ![v] = r]
                                 /\ r.account = None <=> r.pc = "idle"
                                 /\ \/ r.pc = "idle"
                                    \/ r.pc = "get" /\ r.code \in mailed[r.account] \cup {0}
    <3> DEFINE r == [pc |-> "get", account |-> a, code |-> c]
    <3>1. c \in Codes \cup {0}
      BY OtpAssumption DEF Codes
    <3>2. r \in Verify /\ a # None
      BY <3>1, OtpAssumption DEF Verify
    <3>3. vf' = [vf EXCEPT ![v] = r] /\ c \in mailed[a] \cup {0}
      BY <2>1 DEF VerifyReceives
    <3> QED
      BY <3>2, <3>3
  <2>2. ASSUME VerifyReplies(v) \/ CrashVerify(v) PROVE vf' = [vf EXCEPT ![v] = IdleVerify]
    BY <2>2 DEF VerifyReplies, CrashVerify
  <2>3. IdleVerify \in Verify
    BY DEF IdleVerify, Verify
  <2> QED
    BY <2>1, <2>2, <2>3 DEF IdleVerify
<1>2. vf' \in [Verifies -> Verify] /\ vf'[v] = r /\ \A w \in Verifies : w # v => vf'[w] = vf[w]
  BY <1>1 DEF IInv, TypeOK
<1>3. VerifyGoesOn(v)
  BY <1>1, <1>2 DEF VerifyGoesOn
<1>4. UNCHANGED <<otp, mailed, tokens, issued, lg>>
  BY DEF VerifyReceives, VerifyReplies, CrashVerify
<1>5. crashes' \in 0 .. MaxCrashes
  BY OtpAssumption DEF VerifyReceives, VerifyReplies, CrashVerify, IInv, TypeOK
<1>6. /\ otp \in [Accounts -> Codes \cup {None}]
      /\ lg \in [Logins -> Login]
  BY DEF IInv, TypeOK
<1> QED
  BY <1>2, <1>3, <1>4, <1>5, <1>6, CodesStayOrGo

(* A verification goes on; one that is about to give a token has deleted   *)
(* what was stored.                                                        *)
LEMMA VerifySteps ==
  ASSUME IInv, NEW v \in Verifies,
         GetOtp(v) \/ DeleteUsed(v) \/ RejectCommits(v)
  PROVE  IInv'
<1> USE DEF IInv
<1>1. PICK from \in {"get", "delete", "reject"},
           to \in {"delete", "reject", "accept", "refused"} :
        /\ VerifyMoves(v, from, to)
        /\ to = "delete" => from = "get" /\ otp[vf[v].account] = vf[v].code
        /\ to = "accept" => from = "delete" /\ DeleteUsed(v)
  BY DEF GetOtp, DeleteUsed, RejectCommits
<1>2. /\ vf' \in [Verifies -> Verify]
      /\ \A w \in Verifies : w # v => vf'[w] = vf[w]
      /\ vf'[v].pc = to /\ vf'[v].account = vf[v].account /\ vf'[v].code = vf[v].code
  BY <1>1, VerifyMovesOn
<1>3. vf[v].account \in Accounts /\ vf[v].account # None /\ vf[v].pc = from
  BY <1>1 DEF VerifyMoves, TypeOK, Verify
<1>4. to \in {"delete", "accept"} => vf[v].code \in mailed[vf[v].account] \cup {0}
  BY <1>1, <1>3 DEF VerifyInv
<1>5. /\ to = "delete" => vf[v].code # 0
      /\ to = "accept" => vf[v].code # 0
  BY <1>1, <1>3, CodesAreNumbers DEF VerifyInv, TypeOK
<1>6. to \in {"delete", "accept"} => vf[v].code # None
  BY <1>3, <1>4, CodesAreNumbers DEF TypeOK
<1>7. /\ otp' \in [Accounts -> Codes \cup {None}]
      /\ \A a \in Accounts : otp'[a] = otp[a] \/ otp'[a] = None
      /\ to = "accept" => otp'[vf[v].account] = None
  BY <1>1, <1>3 DEF GetOtp, DeleteUsed, RejectCommits, TypeOK
<1>8. VerifyGoesOn(v)
  BY <1>2, <1>3, <1>4, <1>5, <1>6, <1>7 DEF VerifyGoesOn
<1>9. UNCHANGED <<mailed, tokens, issued, lg, crashes>>
  BY DEF GetOtp, DeleteUsed, RejectCommits
<1>10. lg \in [Logins -> Login] /\ crashes \in 0 .. MaxCrashes
  BY DEF TypeOK
<1> HIDE DEF IInv
<1> QED
  BY <1>2, <1>7, <1>8, <1>9, <1>10, CodesStayOrGo

(* A new code is nobody's yet.                                             *)
LEMMA SaveOtpStep ==
  ASSUME IInv, NEW l \in Logins, SaveOtp(l)
  PROVE  IInv'
<1> USE DEF IInv
<1> DEFINE a == lg[l].account
           c == issued + 1
           r == [pc |-> "mail", account |-> a, code |-> c]
<1>1. a \in Accounts /\ a # None
  BY DEF SaveOtp, TypeOK, Login
<1>2. c \in Codes /\ c # None /\ issued \in Nat /\ c > issued
  BY OtpAssumption DEF SaveOtp, TypeOK, Codes
<1>3. r \in Login
  BY <1>1, <1>2 DEF Login
<1>4. /\ otp' = [otp EXCEPT ![a] = c]
      /\ issued' = c
      /\ lg' = [lg EXCEPT ![l] = r]
      /\ UNCHANGED <<mailed, tokens, vf, crashes>>
  BY DEF SaveOtp
<1>5. /\ otp' \in [Accounts -> Codes \cup {None}] /\ otp'[a] = c
      /\ \A b \in Accounts : b # a => otp'[b] = otp[b]
      /\ lg' \in [Logins -> Login] /\ lg'[l] = r
      /\ \A k \in Logins : k # l => lg'[k] = lg[k]
  BY <1>1, <1>2, <1>3, <1>4 DEF TypeOK
<1>6. TypeOK'
  BY <1>1, <1>2, <1>4, <1>5 DEF TypeOK, Codes
<1>7. /\ \A b \in Accounts : \A d \in mailed[b] : d \in Nat /\ d # c
      /\ \A b \in Accounts : otp[b] # None => otp[b] \in Nat /\ otp[b] # c
      /\ \A k \in Logins : lg[k].code # None => lg[k].code \in Nat /\ lg[k].code # c
      /\ tokens[c] = 0
  <2>1. \A b \in Accounts : \A d \in mailed[b] : d \in Nat /\ d <= issued
    BY DEF TypeOK, Codes, IssuedInv
  <2>2. \A b \in Accounts : otp[b] # None => otp[b] \in Nat /\ otp[b] <= issued
    BY DEF TypeOK, Codes, IssuedInv
  <2>3. \A k \in Logins : lg[k].code # None => lg[k].code \in Nat /\ lg[k].code <= issued
    BY DEF TypeOK, Login, Codes, IssuedInv
  <2>4. tokens[c] = 0
    BY <1>2 DEF IssuedInv
  <2> QED
    BY <1>2, <2>1, <2>2, <2>3, <2>4
<1>8. IssuedInv'
  <2>1. \A b \in Accounts : otp'[b] # None => otp'[b] <= issued'
    BY <1>2, <1>4, <1>5, <1>7 DEF IssuedInv
  <2>2. \A b \in Accounts : \A d \in mailed'[b] : d <= issued'
    BY <1>2, <1>4, <1>7 DEF IssuedInv
  <2>3. \A d \in Codes : d > issued' => tokens'[d] = 0
    BY <1>2, <1>4 DEF IssuedInv, Codes
  <2>4. /\ \A k \in Logins : lg'[k].code # None => lg'[k].code <= issued'
        /\ \A k \in Logins : lg'[k].pc \in {"mail", "undo", "commit", "unavailable"}
                               => lg'[k].code # None
    BY <1>2, <1>4, <1>5, <1>7 DEF IssuedInv
  <2> QED
    BY <2>1, <2>2, <2>3, <2>4 DEF IssuedInv
<1>9. AccountInv'
  BY <1>2, <1>4, <1>5, <1>7 DEF AccountInv
<1>10. VerifyInv'
  <2> SUFFICES ASSUME NEW v \in Verifies, vf[v].pc \in {"get", "delete", "accept"}
               PROVE  /\ vf[v].code \in mailed[vf[v].account] \cup {0}
                      /\ vf[v].pc # "get" => vf[v].code # 0
                      /\ vf[v].pc = "accept" => otp'[vf[v].account] # vf[v].code
    BY <1>4 DEF VerifyInv
  <2>1. vf[v].account \in Accounts
    BY DEF TypeOK, Verify
  <2>2. vf[v].code # c
    BY <1>2, <1>7, <2>1 DEF VerifyInv
  <2> QED
    BY <1>5, <2>1, <2>2 DEF VerifyInv
<1>11. SpentCodesAreGone'
  BY <1>4, <1>5, <1>7 DEF SpentCodesAreGone
<1>12. FailedLoginLeavesNoCode'
  <2> SUFFICES ASSUME NEW k \in Logins, lg'[k].pc = "unavailable"
               PROVE  otp'[lg'[k].account] # lg'[k].code
    BY DEF FailedLoginLeavesNoCode
  <2>1. k # l /\ lg'[k] = lg[k]
    BY <1>5
  <2>2. lg[k].account \in Accounts /\ lg[k].code # None
    BY <2>1 DEF TypeOK, Login, IssuedInv
  <2> QED
    BY <1>5, <1>7, <2>1, <2>2 DEF FailedLoginLeavesNoCode
<1> QED
  BY <1>6, <1>8, <1>9, <1>10, <1>11, <1>12

(* A mail goes to the account its code was saved for.                      *)
LEMMA MailTakenStep ==
  ASSUME IInv, NEW l \in Logins, MailTaken(l)
  PROVE  IInv'
<1> USE DEF IInv
<1> DEFINE a == lg[l].account
           c == lg[l].code
<1>1. PICK to \in {"commit", "undo"} : LoginMoves(l, "mail", to)
  BY DEF MailTaken
<1>2. /\ lg' \in [Logins -> Login]
      /\ \A k \in Logins : k # l => lg'[k] = lg[k]
      /\ lg'[l].pc = to /\ lg'[l].account = a /\ lg'[l].code = c
  BY <1>1, LoginMovesOn
<1>3. lg[l].pc = "mail" /\ a \in Accounts /\ a # None
  BY <1>1 DEF LoginMoves, TypeOK, Login
<1>4. c # None /\ c \in Codes /\ c <= issued
  BY <1>3 DEF IssuedInv, TypeOK, Login
<1>5. /\ mailed' \in [Accounts -> SUBSET Codes]
      /\ mailed'[a] = mailed[a] \cup {c}
      /\ \A b \in Accounts : b # a => mailed'[b] = mailed[b]
      /\ UNCHANGED <<otp, tokens, issued, vf, crashes>>
  BY <1>3, <1>4 DEF MailTaken, TypeOK
<1>6. TypeOK'
  BY <1>2, <1>3, <1>5 DEF TypeOK
<1>7. IssuedInv'
  BY <1>2, <1>4, <1>5 DEF IssuedInv
<1>8. AccountInv'
  <2>1. ASSUME NEW b \in Accounts, NEW d \in Accounts, otp[b] # None, otp[b] \in mailed'[d]
        PROVE  b = d
    <3>1. CASE otp[b] \in mailed[d]
      BY <2>1, <3>1 DEF AccountInv
    <3>2. CASE d = a /\ otp[b] = c
      BY <2>1, <3>2 DEF AccountInv
    <3> QED
      BY <1>5, <2>1, <3>1, <3>2
  <2>2. ASSUME NEW b \in Accounts, NEW k \in Logins, otp[b] # None, lg'[k].code = otp[b]
        PROVE  lg'[k].account = b
    BY <1>2, <2>2 DEF AccountInv
  <2> QED
    BY <1>5, <2>1, <2>2 DEF AccountInv
<1>9. VerifyInv'
  BY <1>5 DEF VerifyInv, TypeOK, Verify
<1>10. SpentCodesAreGone'
  BY <1>5 DEF SpentCodesAreGone
<1>11. FailedLoginLeavesNoCode'
  BY <1>2, <1>5 DEF FailedLoginLeavesNoCode
<1> QED
  BY <1>6, <1>7, <1>8, <1>9, <1>10, <1>11

(* A token is given against a code that no account has stored.             *)
LEMMA VerifyCommitsStep ==
  ASSUME IInv, NEW v \in Verifies, VerifyCommits(v)
  PROVE  IInv'
<1> USE DEF IInv
<1> DEFINE a == vf[v].account
           c == vf[v].code
<1>1. VerifyMoves(v, "accept", "token")
  BY DEF VerifyCommits
<1>2. /\ vf' \in [Verifies -> Verify]
      /\ \A w \in Verifies : w # v => vf'[w] = vf[w]
      /\ vf'[v].pc = "token" /\ vf'[v].account = a /\ vf'[v].code = c
  BY <1>1, VerifyMovesOn
<1>3. vf[v].pc = "accept" /\ a \in Accounts /\ a # None
  BY <1>1 DEF VerifyMoves, TypeOK, Verify
<1>4. c \in mailed[a] /\ c \in Codes /\ otp[a] # c /\ c <= issued
  BY <1>3 DEF VerifyInv, TypeOK, IssuedInv
<1>5. \A b \in Accounts : otp[b] # c
  <2> SUFFICES ASSUME NEW b \in Accounts, otp[b] = c PROVE FALSE
    OBVIOUS
  <2>1. c # None
    BY <1>4, CodesAreNumbers
  <2>2. b = a
    BY <1>3, <1>4, <2>1 DEF AccountInv
  <2> QED
    BY <1>4, <2>2
<1>6. /\ tokens' \in [Codes -> Nat]
      /\ \A d \in Codes : d # c => tokens'[d] = tokens[d]
      /\ UNCHANGED <<otp, mailed, issued, lg, crashes>>
  BY <1>4 DEF VerifyCommits, TypeOK
<1>7. TypeOK'
  BY <1>2, <1>3, <1>6 DEF TypeOK
<1>8. IssuedInv'
  <2>1. issued \in Nat /\ c \in Nat
    BY <1>4, OtpAssumption DEF TypeOK, Codes
  <2>2. \A d \in Codes : d > issued' => tokens'[d] = 0
    BY <1>4, <1>6, <2>1 DEF IssuedInv, Codes
  <2> QED
    BY <1>6, <2>2 DEF IssuedInv
<1>9. AccountInv' /\ FailedLoginLeavesNoCode'
  BY <1>6 DEF AccountInv, FailedLoginLeavesNoCode
<1>10. VerifyInv'
  BY <1>2, <1>6 DEF VerifyInv
<1>11. SpentCodesAreGone'
  BY <1>5, <1>6 DEF SpentCodesAreGone, TypeOK
<1> QED
  BY <1>7, <1>8, <1>9, <1>10, <1>11

(* Every step preserves the inductive invariant.                           *)
LEMMA NextIInv == IInv /\ [Next]_vars => IInv'
<1> SUFFICES ASSUME IInv, [Next]_vars PROVE IInv'
  OBVIOUS
<1>1. ASSUME NEW l \in Logins, NEW a \in Accounts, LoginReceives(l, a) PROVE IInv'
  BY <1>1, LoginEdges
<1>2. ASSUME NEW l \in Logins, LoginStep(l) PROVE IInv'
  BY <1>2, LoginEdges, LoginSteps, SaveOtpStep, MailTakenStep DEF LoginStep
<1>3. ASSUME NEW v \in Verifies, NEW a \in Accounts, NEW c \in 0 .. MaxCodes,
             VerifyReceives(v, a, c)
      PROVE  IInv'
  BY <1>3, VerifyEdges
<1>4. ASSUME NEW v \in Verifies, VerifyStep(v) PROVE IInv'
  BY <1>4, VerifyEdges, VerifySteps, VerifyCommitsStep DEF VerifyStep
<1>5. ASSUME NEW a \in Accounts, Expire(a) PROVE IInv'
  BY <1>5, ExpireStep
<1>6. CASE UNCHANGED vars
  BY <1>6 DEF vars, IInv, TypeOK, IssuedInv, AccountInv, VerifyInv, SpentCodesAreGone,
              FailedLoginLeavesNoCode
<1> QED
  BY <1>1, <1>2, <1>3, <1>4, <1>5, <1>6 DEF Next

(* The inductive invariant holds of every reachable state.                 *)
THEOREM SpecIInv == Spec => []IInv
  BY InitIInv, NextIInv, PTL DEF Spec

(* The login state stays well typed.                                       *)
THEOREM TypeCorrect == Spec => []TypeOK
<1>1. IInv => TypeOK
  BY DEF IInv
<1> QED
  BY <1>1, SpecIInv, PTL

(* A code that gave a token is in no account's key, however many logins    *)
(* and verifications run beside each other and whichever of them crash.    *)
THEOREM SpentIsGone == Spec => []SpentCodesAreGone
<1>1. IInv => SpentCodesAreGone
  BY DEF IInv
<1> QED
  BY <1>1, SpecIInv, PTL

(* A login answered 503 has taken its own code back.                       *)
THEOREM UnsentIsGone == Spec => []FailedLoginLeavesNoCode
<1>1. IInv => FailedLoginLeavesNoCode
  BY DEF IInv
<1> QED
  BY <1>1, SpecIInv, PTL
=============================================================================
