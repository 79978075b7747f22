------------------------------ MODULE OtpLogin ------------------------------
(***************************************************************************)
(* The two steps of a login, POST /auth/login and POST /auth/verify-otp, of *)
(* all API workers on one Redis and one mail service                        *)
(* (app/auth/router.py, app/auth/otp.py, app/services/email_service.py).    *)
(*                                                                          *)
(* Redis holds one code per account.  A code is the number of the login     *)
(* that saved it, so that no two logins have the same one; 0 is a code that *)
(* nobody was sent.  Requests that are refused before Redis is touched      *)
(* (unknown account, wrong password, deactivated account) only leave an     *)
(* audit entry and are left out, as is the wording of the mail.             *)
(***************************************************************************)
EXTENDS Naturals, FiniteSets

CONSTANTS Accounts,     \* active accounts, by email
          Logins,       \* slots for concurrent logins, in any worker process
          Verifies,     \* slots for concurrent verifications
          MaxCodes,     \* bound: codes saved
          MaxCrashes,   \* bound: handlers lost to worker crashes
          None          \* no code, no account

Codes == 1 .. MaxCodes

ASSUME OtpAssumption ==
  /\ MaxCodes \in Nat
  /\ MaxCrashes \in Nat
  /\ None \notin Nat
  /\ None \notin Accounts

VARIABLES
  otp,       \* Redis: the code stored for each account
  mailed,    \* codes the mail service has taken for each account
  tokens,    \* number of tokens issued against each code
  issued,    \* number of codes saved so far
  lg,        \* login handlers
  vf,        \* verification handlers
  crashes    \* handlers lost so far

vars == <<otp, mailed, tokens, issued, lg, vf, crashes>>

Login == [pc      : {"idle", "save", "mail", "undo", "commit", "sent", "unavailable", "error"},
          account : Accounts \cup {None},
          code    : Codes \cup {None}]

IdleLogin == [pc |-> "idle", account |-> None, code |-> None]

Verify == [pc      : {"idle", "get", "delete", "accept", "reject", "token", "refused"},
           account : Accounts \cup {None},
           code    : Codes \cup {0, None}]

IdleVerify == [pc |-> "idle", account |-> None, code |-> None]

TypeOK ==
  /\ otp \in [Accounts -> Codes \cup {None}]
  /\ mailed \in [Accounts -> SUBSET Codes]
  /\ tokens \in [Codes -> Nat]
  /\ issued \in 0 .. MaxCodes
  /\ lg \in [Logins -> Login]
  /\ \A l \in Logins : lg[l].account = None <=> lg[l].pc = "idle"
  /\ vf \in [Verifies -> Verify]
  /\ \A v \in Verifies : vf[v].account = None <=> vf[v].pc = "idle"
  /\ crashes \in 0 .. MaxCrashes

Init ==
  /\ otp = [a \in Accounts |-> None]
  /\ mailed = [a \in Accounts |-> {}]
  /\ tokens = [c \in Codes |-> 0]
  /\ issued = 0
  /\ lg = [l \in Logins |-> IdleLogin]
  /\ vf = [v \in Verifies |-> IdleVerify]
  /\ crashes = 0

LoginMoves(l, from, to) ==
  /\ lg[l].pc = from
  /\ lg' = [lg EXCEPT ![l].pc = to]

VerifyMoves(v, from, to) ==
  /\ vf[v].pc = from
  /\ vf' = [vf EXCEPT ![v].pc = to]

-----------------------------------------------------------------------------
(* POST /auth/login.                                                       *)

LoginReceives(l, a) ==
  /\ lg[l].pc = "idle"
  /\ lg' = [lg EXCEPT ![l] = [pc |-> "save", account |-> a, code |-> None]]
  /\ UNCHANGED <<otp, mailed, tokens, issued, vf, crashes>>

(* generate_otp and save_otp: the new code replaces the stored one.        *)
SaveOtp(l) ==
  LET a == lg[l].account IN
  /\ lg[l].pc = "save"
  /\ issued < MaxCodes
  /\ issued' = issued + 1
  /\ otp' = [otp EXCEPT ![a] = issued + 1]
  /\ lg' = [lg EXCEPT ![l] = [pc |-> "mail", account |-> a, code |-> issued + 1]]
  /\ UNCHANGED <<mailed, tokens, vf, crashes>>

(* Redis does not answer: a 500, nothing is sent.                          *)
SaveFails(l) ==
  /\ LoginMoves(l, "save", "error")
  /\ UNCHANGED <<otp, mailed, tokens, issued, vf, crashes>>

(* send_otp_email: the mail service takes the mail; its answer may be lost *)
(* or late (10 seconds), which counts as a failure.                        *)
MailTaken(l) ==
  /\ LoginMoves(l, "mail", "commit") \/ LoginMoves(l, "mail", "undo")
  /\ mailed' = [mailed EXCEPT ![lg[l].account] = @ \cup {lg[l].code}]
  /\ UNCHANGED <<otp, tokens, issued, vf, crashes>>

MailRefused(l) ==
  /\ LoginMoves(l, "mail", "undo")
  /\ UNCHANGED <<otp, mailed, tokens, issued, vf, crashes>>

(* Variant that leaves the code of a failed mail behind.                   *)
KeepOtp(l) ==
  /\ LoginMoves(l, "undo", "unavailable")
  /\ UNCHANGED <<otp, mailed, tokens, issued, vf, crashes>>

(* delete_otp: whatever is stored for the account, of whichever login.     *)
DeleteOtp(l) ==
  /\ LoginMoves(l, "undo", "unavailable")
  /\ otp' = [otp EXCEPT ![lg[l].account] = None]
  /\ UNCHANGED <<mailed, tokens, issued, vf, crashes>>

(* The audit entry is committed.                                           *)
LoginCommits(l) ==
  /\ LoginMoves(l, "commit", "sent")
  /\ UNCHANGED <<otp, mailed, tokens, issued, vf, crashes>>

(* The 200 "otp_sent", the 503 or the 500.                                 *)
LoginReplies(l) ==
  /\ lg[l].pc \in {"sent", "unavailable", "error"}
  /\ lg' = [lg EXCEPT ![l] = IdleLogin]
  /\ UNCHANGED <<otp, mailed, tokens, issued, vf, crashes>>

CrashLogin(l) ==
  /\ lg[l].pc # "idle"
  /\ crashes < MaxCrashes
  /\ crashes' = crashes + 1
  /\ lg' = [lg EXCEPT ![l] = IdleLogin]
  /\ UNCHANGED <<otp, mailed, tokens, issued, vf>>

(* Redis drops a code at the end of its OTP_TTL_SECONDS.                   *)
Expire(a) ==
  /\ otp[a] # None
  /\ otp' = [otp EXCEPT ![a] = None]
  /\ UNCHANGED <<mailed, tokens, issued, lg, vf, crashes>>

-----------------------------------------------------------------------------
(* POST /auth/verify-otp.                                                  *)

(* The user enters a code from a mail, maybe an older one, or a wrong one. *)
VerifyReceives(v, a, c) ==
  /\ vf[v].pc = "idle"
  /\ c \in mailed[a] \cup {0}
  /\ vf' = [vf EXCEPT ![v] = [pc |-> "get", account |-> a, code |-> c]]
  /\ UNCHANGED <<otp, mailed, tokens, issued, lg, crashes>>

(* verify_otp: GET and compare ...                                         *)
GetOtp(v) ==
  /\ vf[v].pc = "get"
  /\ IF otp[vf[v].account] = vf[v].code
     THEN VerifyMoves(v, "get", "delete")
     ELSE VerifyMoves(v, "get", "reject")
  /\ UNCHANGED <<otp, mailed, tokens, issued, lg, crashes>>

(* Variant that forgets to delete the code.                                *)
AcceptOnly(v) ==
  /\ VerifyMoves(v, "delete", "accept")
  /\ UNCHANGED <<otp, mailed, tokens, issued, lg, crashes>>

(* ... then DEL, in a second round trip: whatever is stored by then.       *)
DeleteUsed(v) ==
  /\ VerifyMoves(v, "delete", "accept")
  /\ otp' = [otp EXCEPT ![vf[v].account] = None]
  /\ UNCHANGED <<mailed, tokens, issued, lg, crashes>>

(* last_login_at and the audit entry are committed, the token is issued.   *)
VerifyCommits(v) ==
  /\ VerifyMoves(v, "accept", "token")
  /\ tokens' = [tokens EXCEPT ![vf[v].code] = @ + 1]
  /\ UNCHANGED <<otp, mailed, issued, lg, crashes>>

(* A failed attempt is committed to the audit log and answered 400.        *)
RejectCommits(v) ==
  /\ VerifyMoves(v, "reject", "refused")
  /\ UNCHANGED <<otp, mailed, tokens, issued, lg, crashes>>

VerifyReplies(v) ==
  /\ vf[v].pc \in {"token", "refused"}
  /\ vf' = [vf EXCEPT ![v] = IdleVerify]
  /\ UNCHANGED <<otp, mailed, tokens, issued, lg, crashes>>

CrashVerify(v) ==
  /\ vf[v].pc # "idle"
  /\ crashes < MaxCrashes
  /\ crashes' = crashes + 1
  /\ vf' = [vf EXCEPT ![v] = IdleVerify]
  /\ UNCHANGED <<otp, mailed, tokens, issued, lg>>

-----------------------------------------------------------------------------
LoginStep(l) ==
  \/ SaveOtp(l) \/ SaveFails(l) \/ MailTaken(l) \/ MailRefused(l) \/ DeleteOtp(l)
  \/ LoginCommits(l) \/ LoginReplies(l) \/ CrashLogin(l)

VerifyStep(v) ==
  \/ GetOtp(v) \/ DeleteUsed(v) \/ VerifyCommits(v) \/ RejectCommits(v)
  \/ VerifyReplies(v) \/ CrashVerify(v)

Next ==
  \/ \E l \in Logins, a \in Accounts : LoginReceives(l, a)
  \/ \E l \in Logins : LoginStep(l)
  \/ \E v \in Verifies, a \in Accounts, c \in 0 .. MaxCodes : VerifyReceives(v, a, c)
  \/ \E v \in Verifies : VerifyStep(v)
  \/ \E a \in Accounts : Expire(a)

Spec == Init /\ [][Next]_vars

-----------------------------------------------------------------------------
(* A code that gave a token is not in Redis any more, whatever logins and  *)
(* verifications run beside each other: no later request can use it.       *)
SpentCodesAreGone ==
  \A a \in Accounts : otp[a] # None => tokens[otp[a]] = 0

(* When a login is answered 503 because its mail failed, its own code is   *)
(* gone, also if the mail arrived after all.  Nothing is said of another   *)
(* login's code, which DeleteOtp takes away as well if it is the one that  *)
(* is stored.                                                              *)
FailedLoginLeavesNoCode ==
  \A l \in Logins : lg[l].pc = "unavailable" => otp[lg[l].account] # lg[l].code

(* A code gives one token ("single-use", verify_otp).                      *)
CodesAreSingleUse == \A c \in Codes : tokens[c] <= 1

-----------------------------------------------------------------------------
(* The inductive invariant behind SpentCodesAreGone.                       *)

(* Everything that holds a code holds one that was issued.                 *)
IssuedInv ==
  /\ \A a \in Accounts : otp[a] # None => otp[a] <= issued
  /\ \A a \in Accounts : \A c \in mailed[a] : c <= issued
  /\ \A c \in Codes : c > issued => tokens[c] = 0
  /\ \A l \in Logins : lg[l].code # None => lg[l].code <= issued
  /\ \A l \in Logins : lg[l].pc \in {"mail", "undo", "commit", "unavailable"}
                         => lg[l].code # None

(* A code is stored for the account it was or will be mailed to.           *)
AccountInv ==
  \A a \in Accounts : otp[a] # None =>
    /\ \A b \in Accounts : otp[a] \in mailed[b] => a = b
    /\ \A l \in Logins : lg[l].code = otp[a] => lg[l].account = a

(* A code about to give a token was mailed and is deleted already.         *)
VerifyInv ==
  \A v \in Verifies : vf[v].pc \in {"get", "delete", "accept"} =>
    /\ vf[v].code \in mailed[vf[v].account] \cup {0}
    /\ vf[v].pc # "get" => vf[v].code # 0
    /\ vf[v].pc = "accept" => otp[vf[v].account] # vf[v].code

IInv ==
  /\ TypeOK
  /\ IssuedInv
  /\ AccountInv
  /\ VerifyInv
  /\ SpentCodesAreGone
  /\ FailedLoginLeavesNoCode
=============================================================================
