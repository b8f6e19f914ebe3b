--------------------------- MODULE AccountSession ---------------------------
(***************************************************************************)
(* Sign-in, sessions and account administration (IMP-046) for one account. *)
(* Every repository call of AuthenticationService and of                   *)
(* AccountManagementService is a transaction of its own, so a request is a *)
(* sequence of steps and works with snapshots that may be stale.           *)
(*                                                                         *)
(* Time is abstracted: a comparison of now with a session, password or     *)
(* code deadline may go either way, and a lock elapses at some moment.     *)
(* Nothing reads the other columns of a revoked session row, so they are   *)
(* cleared with it.                                                        *)
(***************************************************************************)
EXTENDS Naturals, FiniteSets

CONSTANTS
  Requests,     \* server threads handling HTTP requests
  Sessions,     \* slots for browser session rows; a revoked slot is reused
  None,         \* no session
  MaxFailures,  \* 10 in the code
  MaxMfa,       \* 5 in the code
  MaxVersion    \* bound on credential changes

ASSUME AuthAssumption ==
  /\ None \notin Sessions
  /\ IsFiniteSet(Requests)
  /\ MaxFailures \in Nat \ {0}
  /\ MaxMfa \in Nat \ {0}
  /\ MaxVersion \in Nat

\* Bound: failures counted on an account whose lock has elapsed.
FailureBound == MaxFailures + 1

VARIABLES
  account,   \* user_accounts row
  session,   \* browser_sessions rows
  req        \* what each request is about to do, and what it has read

vars == <<account, session, req>>

AccountStatus ==
  {"PENDING_APPROVAL", "ACTIVE", "TEMP_LOCKED", "DISABLED", "REJECTED"}
Phase == {"FREE", "PRE_AUTH", "MFA_PENDING", "AUTHENTICATED"}
Steps ==
  {"idle", "login", "failure", "rotate", "pending", "mfa", "mfaFailure",
   "mfaLimit", "mfaRotate", "establish", "reset", "authenticate", "evict",
   "granted", "changePassword", "issueCode", "revokeUser"}

FreeSession == [phase |-> "FREE", cred |-> 0, role |-> 0, attempts |-> 0,
                checks |-> 0, proof |-> 0, revoked |-> FALSE]
IdleRequest == [pc |-> "idle", s |-> None, attempts |-> 0, failed |-> 0,
                cred |-> 0, role |-> 0, proof |-> 0]

(* create_pending_account; "password" numbers the password hashes. *)
Init ==
  /\ account = [status |-> "PENDING_APPROVAL", cred |-> 1, role |-> 1,
                password |-> 1, failed |-> 0, lockHeld |-> FALSE,
                granted |-> FALSE, mfa |-> FALSE]
  /\ session = [s \in Sessions |-> FreeSession]
  /\ req = [r \in Requests |-> IdleRequest]

-----------------------------------------------------------------------------
(* The decisions of the code, each with the slip it is protected from.     *)

\* password_login refuses these accounts before looking at the password.
UnavailableIfLockedOnly(a) == a.status = "TEMP_LOCKED" /\ a.lockHeld
Unavailable(a) ==
  \/ a.status \in {"PENDING_APPROVAL", "DISABLED", "REJECTED"}
  \/ a.status = "TEMP_LOCKED" /\ a.lockHeld

\* complete_dev_mfa accepts a code for this account.
FactorUsable(a) == a.status = "ACTIVE" /\ a.mfa

\* reset_login_failures
ResetStatusOnly(a) == [a EXCEPT !.status = "ACTIVE", !.lockHeld = FALSE]
Reset(a) == [a EXCEPT !.status = "ACTIVE", !.lockHeld = FALSE, !.failed = 0]

\* register_login_failure writes the count of the snapshot plus one; at the
\* limit the same update locks the account.
CountFailure(a, seen) ==
  IF seen + 1 >= MaxFailures
    THEN [a EXCEPT !.failed = seen + 1, !.status = "TEMP_LOCKED", !.lockHeld = TRUE]
    ELSE [a EXCEPT !.failed = seen + 1]

\* increment_mfa_failure: an SQL increment, not a write of the snapshot.
MfaAttemptsFromSnapshot(current, seen) == seen + 1
MfaAttempts(current, seen) == current + 1

\* update_mfa_code: a new code is a new credential version.
IssueCodeFirstVersion(a) == [a EXCEPT !.mfa = TRUE, !.cred = 1]
IssueCode(a) == [a EXCEPT !.mfa = TRUE, !.cred = @ + 1]

\* authenticate: the session still speaks for the account.
IdentityUnchanged(a, stored) ==
  /\ a.status = "ACTIVE"
  /\ a.cred = stored.cred
  /\ a.role = stored.role

\* _STATUS_ACTIONS
StatusActions ==
  [approve  |-> [from |-> "PENDING_APPROVAL", to |-> "ACTIVE", grant |-> TRUE],
   reject   |-> [from |-> "PENDING_APPROVAL", to |-> "REJECTED", grant |-> FALSE],
   disable  |-> [from |-> "ACTIVE", to |-> "DISABLED", grant |-> FALSE],
   activate |-> [from |-> "DISABLED", to |-> "ACTIVE", grant |-> TRUE]]

-----------------------------------------------------------------------------
(* Helpers *)

Goto(r, rec) == req' = [req EXCEPT ![r] = rec]
Finish(r) == Goto(r, IdleRequest)
At(r, pc) == req[r].pc = pc
To(r, pc) == Goto(r, [req[r] EXCEPT !.pc = pc])

\* A slot that no row and no request uses: a new token hash.
Fresh == {s \in Sessions :
            /\ session[s].phase = "FREE" \/ session[s].revoked
            /\ \A r \in Requests : req[r].s # s}

Revoked(row) == [row EXCEPT !.revoked = TRUE, !.cred = 0, !.role = 0, !.proof = 0]
Revoke(s) == session' = [session EXCEPT ![s] = Revoked(@)]
RevokeUserSessions ==
  session' = [s \in Sessions |->
    IF session[s].phase \in {"MFA_PENDING", "AUTHENTICATED"}
      THEN Revoked(session[s]) ELSE session[s]]

CreateSession(s, phase, cred, role, proof) ==
  session' = [session EXCEPT ![s] =
    [FreeSession EXCEPT !.phase = phase, !.cred = cred, !.role = role,
                        !.proof = proof]]

\* _load_session: a row of the expected phase that was not revoked; one that
\* is past its time is revoked and the request ends.
LoadSession(r, s, phase, read) ==
  /\ At(r, "idle")
  /\ session[s].phase = phase
  /\ ~session[s].revoked
  /\ \/ Revoke(s) /\ UNCHANGED req
     \/ Goto(r, [read EXCEPT !.s = s]) /\ UNCHANGED session
  /\ UNCHANGED account

-----------------------------------------------------------------------------
(* AuthenticationService *)

\* Bound: a request that rotates a session always finds a slot for the new one.
SlotsKept == {r \in Requests : req[r].pc \in {"pending", "establish"}}

NewPreAuth ==
  /\ Cardinality(Fresh) > Cardinality(SlotsKept)
  /\ \E s \in Fresh : CreateSession(s, "PRE_AUTH", 0, 0, 0)
  /\ UNCHANGED <<account, req>>

PasswordLogin(r, s) ==
  LoadSession(r, s, "PRE_AUTH", [IdleRequest EXCEPT !.pc = "login"])

\* The account is read once; the password offered is wrong, or right, or
\* right but older than 30 days.
PasswordChecked(r) ==
  /\ At(r, "login")
  /\ \/ Finish(r)
     \/ /\ ~Unavailable(account)
        /\ \/ /\ account.failed < FailureBound
              /\ Goto(r, [req[r] EXCEPT !.pc = "failure", !.failed = account.failed])
           \/ Goto(r, [req[r] EXCEPT !.pc = "rotate", !.cred = account.cred,
                                     !.role = account.role,
                                     !.proof = account.password])
  /\ UNCHANGED <<account, session>>

RegisterLoginFailure(r) ==
  /\ At(r, "failure")
  /\ account' = CountFailure(account, req[r].failed)
  /\ Finish(r)
  /\ UNCHANGED session

RevokePreAuth(r) ==
  /\ At(r, "rotate")
  /\ Revoke(req[r].s)
  /\ Goto(r, [req[r] EXCEPT !.pc = "pending", !.s = None])
  /\ UNCHANGED account

CreatePending(r) ==
  /\ At(r, "pending")
  /\ \E s \in Fresh :
       CreateSession(s, "MFA_PENDING", req[r].cred, req[r].role, req[r].proof)
  /\ Finish(r)
  /\ UNCHANGED account

CompleteDevMfa(r, s) ==
  LoadSession(r, s, "MFA_PENDING",
    [IdleRequest EXCEPT !.pc = "mfa", !.attempts = session[s].attempts,
                        !.proof = session[s].proof])

\* The code offered is right or wrong; "checks" counts the codes compared
\* against this session while it was below the limit.
FactorChecked(r) ==
  LET below == req[r].attempts < MaxMfa
  IN /\ At(r, "mfa")
     /\ \/ To(r, "mfaFailure")
        \/ /\ below
           /\ FactorUsable(account)
           /\ Goto(r, [req[r] EXCEPT
                !.pc = IF account.granted THEN "mfaRotate" ELSE "mfaLimit",
                !.cred = account.cred, !.role = account.role])
     /\ session' = IF below
                     THEN [session EXCEPT ![req[r].s].checks = @ + 1] ELSE session
     /\ UNCHANGED account

IncrementMfaFailure(r) ==
  /\ At(r, "mfaFailure")
  /\ session' = [session EXCEPT
       ![req[r].s].attempts = MfaAttempts(@, req[r].attempts)]
  /\ IF req[r].attempts + 1 >= MaxMfa THEN To(r, "mfaLimit") ELSE Finish(r)
  /\ UNCHANGED account

RevokeMfaLimit(r) ==
  /\ At(r, "mfaLimit")
  /\ Revoke(req[r].s)
  /\ Finish(r)
  /\ UNCHANGED account

RevokePending(r) ==
  /\ At(r, "mfaRotate")
  /\ Revoke(req[r].s)
  /\ Goto(r, [req[r] EXCEPT !.pc = "establish", !.s = None])
  /\ UNCHANGED account

CreateAuthenticated(r) ==
  /\ At(r, "establish")
  /\ \E s \in Fresh :
       CreateSession(s, "AUTHENTICATED", req[r].cred, req[r].role, req[r].proof)
  /\ To(r, "reset")
  /\ UNCHANGED account

ResetLoginFailures(r) ==
  /\ At(r, "reset")
  /\ account' = Reset(account)
  /\ Finish(r)
  /\ UNCHANGED session

\* The middleware authenticates on the event loop, one request at a time;
\* the handlers run on the thread pool beside it.
LoopFree == \A r \in Requests : req[r].pc \notin {"authenticate", "evict"}

Authenticate(r, s) ==
  /\ LoopFree
  /\ LoadSession(r, s, "AUTHENTICATED",
       [IdleRequest EXCEPT !.pc = "authenticate", !.cred = session[s].cred,
                           !.role = session[s].role])

IdentityChecked(r) ==
  /\ At(r, "authenticate")
  /\ To(r, IF IdentityUnchanged(account, req[r]) /\ account.granted
             THEN "granted" ELSE "evict")
  /\ UNCHANGED <<account, session>>

RevokeIdentityChanged(r) ==
  /\ At(r, "evict")
  /\ Revoke(req[r].s)
  /\ Finish(r)
  /\ UNCHANGED account

\* touch_session moves a deadline; then the route runs.
TouchSession(r) ==
  /\ At(r, "granted")
  /\ Finish(r)
  /\ UNCHANGED <<account, session>>

RevokeCurrent(r) ==
  /\ At(r, "granted")
  /\ Revoke(req[r].s)
  /\ Finish(r)
  /\ UNCHANGED account

RevokeAll(r) ==
  /\ At(r, "granted")
  /\ To(r, "revokeUser")
  /\ UNCHANGED <<account, session>>

-----------------------------------------------------------------------------
(* AccountManagementService *)

\* The owner's current password is checked against the row read here.
ChangePassword(r) ==
  /\ At(r, "granted")
  /\ account.status = "ACTIVE"
  /\ To(r, "changePassword")
  /\ UNCHANGED <<account, session>>

PasswordChanged(r) ==
  /\ At(r, "changePassword")
  /\ IF account.status = "ACTIVE"
       THEN /\ account.cred < MaxVersion
            /\ account' = [account EXCEPT !.password = @ + 1, !.cred = @ + 1,
                                          !.failed = 0, !.lockHeld = FALSE]
            /\ To(r, "revokeUser")
       ELSE Finish(r) /\ UNCHANGED account
  /\ UNCHANGED session

\* change_status by an administrator other than the owner.
ChangeStatus(r) ==
  /\ At(r, "idle")
  /\ \E action \in DOMAIN StatusActions :
       LET t == StatusActions[action] IN
       /\ account.status = t.from
       /\ account' = [account EXCEPT
            !.status = t.to, !.failed = 0, !.lockHeld = FALSE,
            !.granted = @ \/ t.grant,
            !.role = IF t.grant /\ ~account.granted THEN @ + 1 ELSE @]
       /\ To(r, IF action \in {"reject", "disable"} THEN "revokeUser"
                ELSE IF action = "approve" THEN "issueCode" ELSE "idle")
  /\ UNCHANGED session

RenewMfaCode(r) ==
  /\ At(r, "idle")
  /\ account.cred < MaxVersion
  /\ To(r, "issueCode")
  /\ UNCHANGED <<account, session>>

MfaCodeUpdated(r) ==
  /\ At(r, "issueCode")
  /\ IF account.status = "ACTIVE"
       THEN /\ account.cred < MaxVersion
            /\ account' = IssueCode(account)
            /\ To(r, "revokeUser")
       ELSE Finish(r) /\ UNCHANGED account
  /\ UNCHANGED session

UserSessionsRevoked(r) ==
  /\ At(r, "revokeUser")
  /\ RevokeUserSessions
  /\ Finish(r)
  /\ UNCHANGED account

-----------------------------------------------------------------------------
(* The passage of time; lockHeld stands for now < locked_until. *)

LockElapses ==
  /\ account.lockHeld
  /\ account' = [account EXCEPT !.lockHeld = FALSE]
  /\ UNCHANGED <<session, req>>

-----------------------------------------------------------------------------
SignIn(r) ==
  \/ \E s \in Sessions : PasswordLogin(r, s) \/ CompleteDevMfa(r, s)
  \/ PasswordChecked(r) \/ RegisterLoginFailure(r) \/ RevokePreAuth(r)
  \/ CreatePending(r) \/ FactorChecked(r) \/ IncrementMfaFailure(r)
  \/ RevokeMfaLimit(r) \/ RevokePending(r) \/ CreateAuthenticated(r)
  \/ ResetLoginFailures(r)

UseSession(r) ==
  \/ \E s \in Sessions : Authenticate(r, s)
  \/ IdentityChecked(r) \/ RevokeIdentityChanged(r) \/ TouchSession(r)
  \/ RevokeCurrent(r) \/ RevokeAll(r) \/ ChangePassword(r)
  \/ PasswordChanged(r)

Administer(r) ==
  \/ ChangeStatus(r) \/ RenewMfaCode(r) \/ MfaCodeUpdated(r)
  \/ UserSessionsRevoked(r)

Next ==
  \/ NewPreAuth
  \/ \E r \in Requests : SignIn(r) \/ UseSession(r) \/ Administer(r)
  \/ LockElapses

Spec == Init /\ [][Next]_vars

-----------------------------------------------------------------------------
Owned(s) == session[s].phase \in {"MFA_PENDING", "AUTHENTICATED"}
Usable(s) ==
  /\ session[s].phase = "AUTHENTICATED"
  /\ ~session[s].revoked
  /\ IdentityUnchanged(account, session[s])

AccountRow == [status : AccountStatus, cred : Nat, role : Nat, password : Nat,
               failed : Nat, lockHeld : BOOLEAN, granted : BOOLEAN, mfa : BOOLEAN]
SessionRow == [phase : Phase, cred : Nat, role : Nat, attempts : Nat,
               checks : Nat, proof : Nat, revoked : BOOLEAN]
RequestState == [pc : Steps, s : Sessions \cup {None}, attempts : Nat,
                 failed : Nat, cred : Nat, role : Nat, proof : Nat]

\* The rows keep their column types and every request is at a known step.
TypeOK ==
  /\ account \in AccountRow
  /\ session \in [Sessions -> SessionRow]
  /\ req \in [Requests -> RequestState]

\* An account whose failures reached the limit is locked, whatever resets,
\* status changes and late failure counts are in flight.
CountedOutIsLocked ==
  account.failed >= MaxFailures => account.status = "TEMP_LOCKED"

\* Before an administrator has approved the account no session belongs to
\* it, and a rejected one never gets any.
NoSessionBeforeApproval ==
  (\E s \in Sessions : Owned(s)) => account.granted

\* One pending sign-in compares at most MaxMfa codes, plus one for every
\* other request that read the counter before it was incremented.
MfaGuessesBounded ==
  \A s \in Sessions : session[s].checks <= MaxMfa + Cardinality(Requests) - 1

\* A session made under an older credential or role version never becomes
\* usable again: versions only grow, and nothing rewrites a session's own.
StaleSessionStaysStale ==
  [][\A s \in Sessions :
       /\ Owned(s) /\ ~session[s].revoked
       /\ session[s].cred # account.cred \/ session[s].role # account.role
       => ~Usable(s)']_vars

\* "A change of the credential version ends existing sessions at once": a
\* usable session was opened with the password that is valid now.
UsableSessionProvesPassword ==
  \A s \in Sessions : Usable(s) => session[s].proof = account.password

=============================================================================
