------------------------ MODULE AccountSessionProofs ------------------------
(***************************************************************************)
(* Proofs about AccountSession for every number of concurrent requests and *)
(* sessions and for every limit.                                           *)
(***************************************************************************)
EXTENDS AccountSession, FiniteSetTheorems, TLAPS

\* Steps a request can be at without having met an approved account.
BeforeCheck == {"idle", "login", "issueCode", "revokeUser"}

\* Every way to a session, and every status but the two before and instead
\* of approval, goes through the administrator's approval.
ApprovedFirst ==
  /\ account.status \notin {"PENDING_APPROVAL", "REJECTED"} => account.granted
  /\ \A r \in Requests : req[r].pc \notin BeforeCheck => account.granted
  /\ NoSessionBeforeApproval

\* A session, or a request about to create one, carries versions the account
\* has or had.
VersionsBehind ==
  /\ \A s \in Sessions : /\ session[s].cred <= account.cred
                         /\ session[s].role <= account.role
  /\ \A r \in Requests : /\ req[r].cred <= account.cred
                         /\ req[r].role <= account.role

IInv == TypeOK /\ ApprovedFirst /\ VersionsBehind /\ CountedOutIsLocked

-----------------------------------------------------------------------------
(* What a step does to each table; together they keep the invariant.       *)

AccountStep ==
  /\ account' \in AccountRow
  /\ account.cred <= account'.cred
  /\ account.role <= account'.role
  /\ account.granted => account'.granted
  /\ account'.status \notin {"PENDING_APPROVAL", "REJECTED"} => account'.granted
  /\ CountedOutIsLocked'

\* A row is kept, or loses its versions, or is new and of the account.
RowStep(s) ==
  \/ /\ session'[s].cred \in {session[s].cred, 0}
     /\ session'[s].role \in {session[s].role, 0}
     /\ session'[s].phase = session[s].phase
     /\ session[s].revoked => session'[s].revoked
  \/ /\ session'[s].cred <= account'.cred
     /\ session'[s].role <= account'.role
     /\ session'[s].phase # "PRE_AUTH" => account'.granted
     /\ s \in Fresh

SessionStep ==
  /\ session' \in [Sessions -> SessionRow]
  /\ \A s \in Sessions : RowStep(s)

RequestStep ==
  /\ req' \in [Requests -> RequestState]
  /\ \A r \in Requests :
       \/ req'[r] = req[r]
       \/ /\ req'[r].cred <= account'.cred
          /\ req'[r].role <= account'.role
          /\ req'[r].pc \notin BeforeCheck => account'.granted

Effects == AccountStep /\ SessionStep /\ RequestStep

\* A step whose effects on users, user_sessions and the requests in flight are
\* the ones above keeps the invariant, whichever handler took it.
LEMMA EffectsKeep ==
  ASSUME IInv, AccountStep, SessionStep, RequestStep
  PROVE  IInv'
<1>1. TypeOK'
  BY DEF AccountStep, SessionStep, RequestStep, TypeOK
<1>2. /\ account \in AccountRow /\ account' \in AccountRow
      /\ session \in [Sessions -> SessionRow] /\ session' \in [Sessions -> SessionRow]
      /\ req \in [Requests -> RequestState] /\ req' \in [Requests -> RequestState]
  BY <1>1 DEF IInv, TypeOK
<1>3. /\ account.cred \in Nat /\ account'.cred \in Nat
      /\ account.role \in Nat /\ account'.role \in Nat
      /\ \A s \in Sessions : /\ session[s].cred \in Nat /\ session'[s].cred \in Nat
                             /\ session[s].role \in Nat /\ session'[s].role \in Nat
      /\ \A r \in Requests : /\ req[r].cred \in Nat /\ req'[r].cred \in Nat
                             /\ req[r].role \in Nat /\ req'[r].role \in Nat
  BY <1>2 DEF AccountRow, SessionRow, RequestState
<1>4. VersionsBehind'
  <2>1. ASSUME NEW s \in Sessions
        PROVE  session'[s].cred <= account'.cred /\ session'[s].role <= account'.role
    BY <1>3 DEF IInv, VersionsBehind, AccountStep, SessionStep, RowStep
  <2>2. ASSUME NEW r \in Requests
        PROVE  req'[r].cred <= account'.cred /\ req'[r].role <= account'.role
    BY <1>3 DEF IInv, VersionsBehind, AccountStep, RequestStep
  <2> QED
    BY <2>1, <2>2 DEF VersionsBehind
<1>5. ApprovedFirst'
  <2>1. ASSUME NEW r \in Requests, req'[r].pc \notin BeforeCheck
        PROVE  account'.granted
    BY <2>1 DEF IInv, ApprovedFirst, AccountStep, RequestStep
  <2>2. ASSUME NEW s \in Sessions, session'[s].phase \in {"MFA_PENDING", "AUTHENTICATED"}
        PROVE  account'.granted
    BY <2>2 DEF IInv, ApprovedFirst, NoSessionBeforeApproval, Owned, AccountStep,
       SessionStep, RowStep
  <2> QED
    BY <2>1, <2>2 DEF ApprovedFirst, NoSessionBeforeApproval, Owned, AccountStep
<1> QED
  BY <1>1, <1>4, <1>5 DEF IInv, AccountStep

-----------------------------------------------------------------------------
(* The steps the actions are made of.                                      *)

\* A handler that does not write the users row leaves it as the invariant
\* found it.
LEMMA SameAccount == ASSUME IInv, account' = account PROVE AccountStep
<1>1. account \in AccountRow /\ account.cred \in Nat /\ account.role \in Nat
  BY DEF IInv, TypeOK, AccountRow
<1> QED
  BY <1>1 DEF IInv, ApprovedFirst, CountedOutIsLocked, AccountStep

\* What an UPDATE of the users row has to respect: versions only grow, and an
\* approval is never taken back.
LEMMA NewAccount ==
  ASSUME IInv, NEW a \in AccountRow, account' = a,
         account.cred <= a.cred, account.role <= a.role,
         account.granted => a.granted,
         a.status \notin {"PENDING_APPROVAL", "REJECTED"} => a.granted,
         a.failed >= MaxFailures => a.status = "TEMP_LOCKED"
  PROVE  AccountStep
  BY DEF AccountStep, CountedOutIsLocked

\* A handler that does not write user_sessions.
LEMMA SameSessions == ASSUME IInv, session' = session PROVE SessionStep
  BY DEF IInv, TypeOK, SessionStep, RowStep

\* A transaction of the administrator touches no request in flight.
LEMMA SameRequests == ASSUME IInv, req' = req PROVE RequestStep
  BY DEF IInv, TypeOK, RequestStep

\* The row revoke_session leaves behind.
LEMMA RevokedRow ==
  ASSUME NEW row \in SessionRow
  PROVE  /\ Revoked(row) \in SessionRow
         /\ Revoked(row).cred = 0 /\ Revoked(row).role = 0
         /\ Revoked(row).phase = row.phase
         /\ Revoked(row).revoked
  BY DEF SessionRow, Revoked

\* revoke_session
LEMMA RevokeOne == ASSUME IInv, NEW x, Revoke(x) PROVE SessionStep
<1>1. session \in [Sessions -> SessionRow]
  BY DEF IInv, TypeOK
<1>2. \A s \in Sessions :
        session'[s] = IF s = x THEN Revoked(session[s]) ELSE session[s]
  BY <1>1 DEF Revoke
<1>3. session' \in [Sessions -> SessionRow]
  BY <1>1, RevokedRow DEF Revoke
<1>4. ASSUME NEW s \in Sessions PROVE RowStep(s)
  BY <1>1, <1>2, RevokedRow DEF RowStep
<1> QED
  BY <1>3, <1>4 DEF SessionStep

\* create_session
LEMMA CreateOne ==
  ASSUME IInv, NEW x \in Fresh, NEW phase \in Phase, NEW cred \in Nat,
         NEW role \in Nat, NEW proof \in Nat,
         CreateSession(x, phase, cred, role, proof),
         cred <= account'.cred, role <= account'.role,
         phase # "PRE_AUTH" => account'.granted
  PROVE  SessionStep
<1> DEFINE row == [FreeSession EXCEPT !.phase = phase, !.cred = cred,
                                      !.role = role, !.proof = proof]
<1>1. session \in [Sessions -> SessionRow] /\ x \in Sessions
  BY DEF IInv, TypeOK, Fresh
<1>2. row \in SessionRow /\ row.cred = cred /\ row.role = role /\ row.phase = phase
  BY DEF FreeSession, SessionRow, Phase
<1>3. session' = [session EXCEPT ![x] = row]
  BY DEF CreateSession
<1> HIDE DEF row
<1>4. session' \in [Sessions -> SessionRow]
  BY <1>1, <1>2, <1>3
<1>5. ASSUME NEW s \in Sessions PROVE RowStep(s)
  <2>1. CASE s = x
    BY <1>1, <1>2, <1>3, <2>1 DEF RowStep
  <2>2. CASE s # x
    BY <1>1, <1>3, <2>2 DEF RowStep
  <2> QED
    BY <2>1, <2>2
<1> QED
  BY <1>4, <1>5 DEF SessionStep

\* increment_mfa_failure and the comparison of a code touch counters only.
LEMMA CountOne ==
  ASSUME IInv, NEW x, session' = [session EXCEPT ![x].checks = @ + 1]
  PROVE  SessionStep
<1>1. session \in [Sessions -> SessionRow]
  BY DEF IInv, TypeOK
<1>2. \A row \in SessionRow :
        LET new == [row EXCEPT !.checks = @ + 1] IN
        /\ new \in SessionRow
        /\ new.cred = row.cred /\ new.role = row.role
        /\ new.phase = row.phase /\ new.revoked = row.revoked
  BY DEF SessionRow
<1>3. \A s \in Sessions :
        session'[s] = IF s = x THEN [session[s] EXCEPT !.checks = @ + 1]
                      ELSE session[s]
  BY <1>1
<1>4. session' \in [Sessions -> SessionRow]
  BY <1>1, <1>2, <1>3
<1>5. ASSUME NEW s \in Sessions PROVE RowStep(s)
  BY <1>1, <1>2, <1>3 DEF RowStep
<1> QED
  BY <1>4, <1>5 DEF SessionStep

\* increment_mfa_failure
LEMMA AttemptOne ==
  ASSUME IInv, NEW x, session' = [session EXCEPT ![x].attempts = @ + 1]
  PROVE  SessionStep
<1>1. session \in [Sessions -> SessionRow]
  BY DEF IInv, TypeOK
<1>2. \A row \in SessionRow :
        LET new == [row EXCEPT !.attempts = @ + 1] IN
        /\ new \in SessionRow
        /\ new.cred = row.cred /\ new.role = row.role
        /\ new.phase = row.phase /\ new.revoked = row.revoked
  BY DEF SessionRow
<1>3. \A s \in Sessions :
        session'[s] = IF s = x THEN [session[s] EXCEPT !.attempts = @ + 1]
                      ELSE session[s]
  BY <1>1
<1>4. session' \in [Sessions -> SessionRow]
  BY <1>1, <1>2, <1>3
<1>5. ASSUME NEW s \in Sessions PROVE RowStep(s)
  BY <1>1, <1>2, <1>3 DEF RowStep
<1> QED
  BY <1>4, <1>5 DEF SessionStep

\* A request moves on with what it has read.
LEMMA Moves ==
  ASSUME IInv, NEW r \in Requests, NEW rec \in RequestState, Goto(r, rec),
         rec.cred <= account'.cred, rec.role <= account'.role,
         rec.pc \notin BeforeCheck => account'.granted
  PROVE  RequestStep
<1>1. req \in [Requests -> RequestState] /\ req' = [req EXCEPT ![r] = rec]
  BY DEF IInv, TypeOK, Goto
<1>2. req' \in [Requests -> RequestState]
  BY <1>1
<1> QED
  BY <1>1, <1>2 DEF RequestStep

\* A handler that returns its response ends its request.
LEMMA Finishes ==
  ASSUME IInv, AccountStep, NEW r \in Requests, Finish(r)
  PROVE  RequestStep
<1>1. IdleRequest \in RequestState
  BY DEF IdleRequest, RequestState, Steps
<1>2. account'.cred \in Nat /\ account'.role \in Nat
  BY DEF AccountStep, AccountRow
<1>3. /\ IdleRequest.cred <= account'.cred /\ IdleRequest.role <= account'.role
      /\ IdleRequest.pc \in BeforeCheck
  BY <1>2 DEF IdleRequest, BeforeCheck
<1> QED
  BY <1>1, <1>3, Moves DEF Finish

\* A handler that goes on to its next transaction keeps the versions it read.
LEMMA GoesOn ==
  ASSUME IInv, AccountStep, NEW r \in Requests, NEW pc \in Steps,
         pc \notin BeforeCheck => account'.granted, To(r, pc)
  PROVE  RequestStep
<1> DEFINE rec == [req[r] EXCEPT !.pc = pc]
<1>1. req[r] \in RequestState
  BY DEF IInv, TypeOK
<1>2. /\ rec \in RequestState /\ rec.pc = pc
      /\ rec.cred = req[r].cred /\ rec.role = req[r].role
  BY <1>1 DEF RequestState
<1>3. /\ account.cred \in Nat /\ account'.cred \in Nat
      /\ account.role \in Nat /\ account'.role \in Nat
      /\ req[r].cred \in Nat /\ req[r].role \in Nat
  BY <1>1 DEF IInv, TypeOK, AccountStep, AccountRow, RequestState
<1>4. req[r].cred <= account'.cred /\ req[r].role <= account'.role
  BY <1>3 DEF IInv, VersionsBehind, AccountStep
<1>5. Goto(r, rec)
  BY DEF To
<1> HIDE DEF rec
<1> QED
  BY <1>2, <1>4, <1>5, Moves

\* _load_session
LEMMA Loads ==
  ASSUME IInv, NEW r \in Requests, NEW s \in Sessions, NEW phase, NEW read,
         [read EXCEPT !.s = s] \in RequestState,
         [read EXCEPT !.s = s].cred <= account.cred,
         [read EXCEPT !.s = s].role <= account.role,
         [read EXCEPT !.s = s].pc \notin BeforeCheck => account.granted,
         LoadSession(r, s, phase, read)
  PROVE  Effects
<1>1. account' = account
  BY DEF LoadSession
<1>2. CASE Revoke(s) /\ UNCHANGED req
  BY <1>1, <1>2, SameAccount, RevokeOne, SameRequests DEF Effects
<1>3. CASE Goto(r, [read EXCEPT !.s = s]) /\ UNCHANGED session
  BY <1>1, <1>3, SameAccount, SameSessions, Moves DEF Effects
<1> QED
  BY <1>2, <1>3 DEF LoadSession

-----------------------------------------------------------------------------

\* Every step of every actor has these effects.
LEMMA StepEffects ==
  ASSUME IInv, [Next]_vars
  PROVE  Effects
<1>0. /\ account \in AccountRow
      /\ account.cred \in Nat /\ account.role \in Nat /\ account.password \in Nat
      /\ account.failed \in Nat
      /\ \A r \in Requests : /\ req[r] \in RequestState
                             /\ req[r].attempts \in Nat /\ req[r].failed \in Nat
                             /\ req[r].cred \in Nat /\ req[r].role \in Nat
                             /\ req[r].proof \in Nat
      /\ \A s \in Sessions : /\ session[s] \in SessionRow
                             /\ session[s].cred \in Nat /\ session[s].role \in Nat
                             /\ session[s].attempts \in Nat
                             /\ session[s].checks \in Nat
                             /\ session[s].proof \in Nat
  BY DEF IInv, TypeOK, AccountRow, RequestState, SessionRow
<1>a. /\ account.status \notin {"PENDING_APPROVAL", "REJECTED"} => account.granted
      /\ \A r \in Requests : /\ req[r].pc \notin BeforeCheck => account.granted
                             /\ req[r].cred <= account.cred
                             /\ req[r].role <= account.role
      /\ \A s \in Sessions : /\ Owned(s) => account.granted
                             /\ session[s].cred <= account.cred
                             /\ session[s].role <= account.role
  BY DEF IInv, ApprovedFirst, NoSessionBeforeApproval, VersionsBehind
<1>1. ASSUME NewPreAuth
      PROVE  Effects
  <2>1. PICK s \in Fresh : CreateSession(s, "PRE_AUTH", 0, 0, 0)
    BY <1>1 DEF NewPreAuth
  <2>2. account' = account /\ req' = req
    BY <1>1 DEF NewPreAuth
  <2>3. SessionStep
    BY <1>0, <2>1, <2>2, CreateOne DEF Phase
  <2> QED
    BY <2>2, <2>3, SameAccount, SameRequests DEF Effects
<1>2. ASSUME NEW r \in Requests, NEW s \in Sessions, PasswordLogin(r, s)
      PROVE  Effects
  <2> DEFINE read == [IdleRequest EXCEPT !.pc = "login"]
             full == [read EXCEPT !.s = s]
  <2>1. full \in RequestState
    BY <1>0 DEF IdleRequest, RequestState, Steps
  <2>2. LoadSession(r, s, "PRE_AUTH", read) /\ session[s].phase = "PRE_AUTH"
    BY <1>2 DEF PasswordLogin, LoadSession
  <2>3. full.cred <= account.cred /\ full.role <= account.role
    BY <1>0, <1>a DEF IdleRequest
  <2>4. full.pc \notin BeforeCheck => account.granted
    BY <1>a, <2>2 DEF IdleRequest, BeforeCheck, Owned
  <2> HIDE DEF read
  <2> QED
    BY <2>1, <2>2, <2>3, <2>4, Loads
<1>3. ASSUME NEW r \in Requests, NEW s \in Sessions, CompleteDevMfa(r, s)
      PROVE  Effects
  <2> DEFINE read == [IdleRequest EXCEPT !.pc = "mfa", !.attempts = session[s].attempts,
                                 !.proof = session[s].proof]
             full == [read EXCEPT !.s = s]
  <2>1. full \in RequestState
    BY <1>0 DEF IdleRequest, RequestState, Steps
  <2>2. LoadSession(r, s, "MFA_PENDING", read) /\ session[s].phase = "MFA_PENDING"
    BY <1>3 DEF CompleteDevMfa, LoadSession
  <2>3. full.cred <= account.cred /\ full.role <= account.role
    BY <1>0, <1>a DEF IdleRequest
  <2>4. full.pc \notin BeforeCheck => account.granted
    BY <1>a, <2>2 DEF IdleRequest, BeforeCheck, Owned
  <2> HIDE DEF read
  <2> QED
    BY <2>1, <2>2, <2>3, <2>4, Loads
<1>4. ASSUME NEW r \in Requests, NEW s \in Sessions, Authenticate(r, s)
      PROVE  Effects
  <2> DEFINE read == [IdleRequest EXCEPT !.pc = "authenticate",
                                 !.cred = session[s].cred,
                                 !.role = session[s].role]
             full == [read EXCEPT !.s = s]
  <2>1. full \in RequestState
    BY <1>0 DEF IdleRequest, RequestState, Steps
  <2>2. LoadSession(r, s, "AUTHENTICATED", read) /\ session[s].phase = "AUTHENTICATED"
    BY <1>4 DEF Authenticate, LoadSession
  <2>3. full.cred <= account.cred /\ full.role <= account.role
    BY <1>0, <1>a DEF IdleRequest
  <2>4. full.pc \notin BeforeCheck => account.granted
    BY <1>a, <2>2 DEF IdleRequest, BeforeCheck, Owned
  <2> HIDE DEF read
  <2> QED
    BY <2>1, <2>2, <2>3, <2>4, Loads
<1>5. ASSUME NEW r \in Requests, PasswordChecked(r)
      PROVE  Effects
  <2> DEFINE fail == [req[r] EXCEPT !.pc = "failure", !.failed = account.failed]
             pass == [req[r] EXCEPT !.pc = "rotate", !.cred = account.cred,
                                    !.role = account.role,
                                    !.proof = account.password]
  <2>1. AccountStep /\ SessionStep
    BY <1>5, SameAccount, SameSessions DEF PasswordChecked
  <2>2. account' = account
    BY <1>5 DEF PasswordChecked
  <2>3. CASE Finish(r)
    BY <2>1, <2>3, Finishes DEF Effects
  <2>4. ASSUME ~Unavailable(account) PROVE account.granted
    BY <1>a, <2>4 DEF Unavailable
  <2>5. CASE ~Unavailable(account) /\ Goto(r, fail)
    <3>1. /\ fail \in RequestState
          /\ fail.cred = req[r].cred /\ fail.role = req[r].role
      BY <1>0 DEF RequestState, Steps
    <3> HIDE DEF fail
    <3> QED
      BY <1>a, <2>1, <2>2, <2>4, <2>5, <3>1, Moves DEF Effects
  <2>6. CASE ~Unavailable(account) /\ Goto(r, pass)
    <3>1. /\ pass \in RequestState
          /\ pass.cred = account.cred /\ pass.role = account.role
      BY <1>0 DEF RequestState, Steps
    <3> HIDE DEF pass
    <3> QED
      BY <1>0, <2>1, <2>2, <2>4, <2>6, <3>1, Moves DEF Effects
  <2> QED
    BY <1>5, <2>3, <2>5, <2>6 DEF PasswordChecked
<1>6. ASSUME NEW r \in Requests, RegisterLoginFailure(r)
      PROVE  Effects
  <2>1. AccountStep
    <3> DEFINE a == CountFailure(account, req[r].failed)
    <3>0. req[r].failed + 1 \in Nat
      BY <1>0
    <3>1. a \in AccountRow
      BY <1>0, <3>0, Zenon DEF CountFailure, AccountRow, AccountStatus
    <3>2. /\ a.cred = account.cred /\ a.role = account.role
          /\ a.granted = account.granted
          /\ a.failed >= MaxFailures => a.status = "TEMP_LOCKED"
      BY <1>0 DEF CountFailure, AccountRow
    <3>3. account' = a
      BY <1>6 DEF RegisterLoginFailure
    <3>4. account.granted
      BY <1>a, <1>6 DEF RegisterLoginFailure, At, BeforeCheck
    <3>5. a.granted
      BY <3>2, <3>4
    <3>6. a.failed >= MaxFailures => a.status = "TEMP_LOCKED"
      BY <3>2, AuthAssumption
    <3>7. account.cred <= a.cred /\ account.role <= a.role
      BY <1>0, <3>2
    <3> HIDE DEF a
    <3> QED
      BY <3>1, <3>3, <3>5, <3>6, <3>7, NewAccount
  <2>2. SessionStep
    BY <1>6, SameSessions DEF RegisterLoginFailure
  <2>3. RequestStep
    BY <1>6, <2>1, Finishes DEF RegisterLoginFailure
  <2> QED
    BY <2>1, <2>2, <2>3 DEF Effects
<1>7. ASSUME NEW r \in Requests, RevokePreAuth(r)
      PROVE  Effects
  <2>1. AccountStep
    BY <1>7, SameAccount DEF RevokePreAuth
  <2>2. SessionStep
    BY <1>7, RevokeOne DEF RevokePreAuth
  <2>3. RequestStep
    <3> DEFINE rec == [req[r] EXCEPT !.pc = "pending", !.s = None]
    <3>1. rec \in RequestState /\ rec.cred = req[r].cred /\ rec.role = req[r].role
      BY <1>0 DEF RequestState, Steps
    <3>2. Goto(r, rec) /\ account' = account /\ account.granted
      BY <1>a, <1>7 DEF RevokePreAuth, At, BeforeCheck
    <3> HIDE DEF rec
    <3> QED
      BY <1>a, <3>1, <3>2, Moves
  <2> QED
    BY <2>1, <2>2, <2>3 DEF Effects
<1>8. ASSUME NEW r \in Requests, CreatePending(r)
      PROVE  Effects
  <2>1. AccountStep
    BY <1>8, SameAccount DEF CreatePending
  <2>2. SessionStep
    <3>1. PICK s \in Fresh : CreateSession(s, "MFA_PENDING", req[r].cred,
                                           req[r].role, req[r].proof)
      BY <1>8 DEF CreatePending
    <3>2. account' = account /\ account.granted
      BY <1>a, <1>8 DEF CreatePending, At, BeforeCheck
    <3> QED
      BY <1>0, <1>a, <3>1, <3>2, CreateOne DEF Phase
  <2>3. RequestStep
    BY <1>8, <2>1, Finishes DEF CreatePending
  <2> QED
    BY <2>1, <2>2, <2>3 DEF Effects
<1>9. ASSUME NEW r \in Requests, FactorChecked(r)
      PROVE  Effects
  <2>1. AccountStep
    BY <1>9, SameAccount DEF FactorChecked
  <2>2. SessionStep
    <3>1. \/ session' = session
          \/ session' = [session EXCEPT ![req[r].s].checks = @ + 1]
      BY <1>9 DEF FactorChecked
    <3>2. CASE session' = [session EXCEPT ![req[r].s].checks = @ + 1]
      BY <3>2, CountOne
    <3> QED
      BY <3>1, <3>2, SameSessions
  <2>3. RequestStep
    <3> DEFINE pc == IF account.granted THEN "mfaRotate" ELSE "mfaLimit"
               rec == [req[r] EXCEPT !.pc = pc, !.cred = account.cred,
                                     !.role = account.role]
    <3>1. CASE To(r, "mfaFailure")
      BY <1>a, <1>9, <2>1, <3>1, GoesOn
         DEF FactorChecked, AccountStep, Steps, At, BeforeCheck
    <3>2. CASE Goto(r, rec)
      <4>1. rec \in RequestState /\ rec.cred = account.cred /\ rec.role = account.role
        BY <1>0 DEF RequestState, Steps
      <4>2. account' = account /\ account.granted
        BY <1>a, <1>9 DEF FactorChecked, At, BeforeCheck
      <4> HIDE DEF rec
      <4> QED
        BY <1>0, <3>2, <4>1, <4>2, Moves
    <3> QED
      BY <1>9, <3>1, <3>2 DEF FactorChecked
  <2> QED
    BY <2>1, <2>2, <2>3 DEF Effects
<1>10. ASSUME NEW r \in Requests, IncrementMfaFailure(r)
      PROVE  Effects
  <2>1. AccountStep
    BY <1>10, SameAccount DEF IncrementMfaFailure
  <2>2. SessionStep
    BY <1>0, <1>10, AttemptOne DEF IncrementMfaFailure, MfaAttempts
  <2>3. RequestStep
    <3>1. CASE Finish(r)
      BY <2>1, <3>1, Finishes
    <3>2. CASE To(r, "mfaLimit")
      BY <1>a, <1>10, <2>1, <3>2, GoesOn
         DEF IncrementMfaFailure, AccountStep, Steps, At, BeforeCheck
    <3> QED
      BY <1>10, <3>1, <3>2 DEF IncrementMfaFailure
  <2> QED
    BY <2>1, <2>2, <2>3 DEF Effects
<1>11. ASSUME NEW r \in Requests, RevokeMfaLimit(r)
      PROVE  Effects
  <2>1. AccountStep
    BY <1>11, SameAccount DEF RevokeMfaLimit
  <2>2. SessionStep
    BY <1>11, RevokeOne DEF RevokeMfaLimit
  <2>3. RequestStep
    BY <1>11, <2>1, Finishes DEF RevokeMfaLimit
  <2> QED
    BY <2>1, <2>2, <2>3 DEF Effects
<1>12. ASSUME NEW r \in Requests, RevokePending(r)
      PROVE  Effects
  <2>1. AccountStep
    BY <1>12, SameAccount DEF RevokePending
  <2>2. SessionStep
    BY <1>12, RevokeOne DEF RevokePending
  <2>3. RequestStep
    <3> DEFINE rec == [req[r] EXCEPT !.pc = "establish", !.s = None]
    <3>1. rec \in RequestState /\ rec.cred = req[r].cred /\ rec.role = req[r].role
      BY <1>0 DEF RequestState, Steps
    <3>2. Goto(r, rec) /\ account' = account /\ account.granted
      BY <1>a, <1>12 DEF RevokePending, At, BeforeCheck
    <3> HIDE DEF rec
    <3> QED
      BY <1>a, <3>1, <3>2, Moves
  <2> QED
    BY <2>1, <2>2, <2>3 DEF Effects
<1>13. ASSUME NEW r \in Requests, CreateAuthenticated(r)
      PROVE  Effects
  <2>1. AccountStep
    BY <1>13, SameAccount DEF CreateAuthenticated
  <2>2. SessionStep
    <3>1. PICK s \in Fresh : CreateSession(s, "AUTHENTICATED", req[r].cred,
                                           req[r].role, req[r].proof)
      BY <1>13 DEF CreateAuthenticated
    <3>2. account' = account /\ account.granted
      BY <1>a, <1>13 DEF CreateAuthenticated, At, BeforeCheck
    <3> QED
      BY <1>0, <1>a, <3>1, <3>2, CreateOne DEF Phase
  <2>3. RequestStep
    BY <1>a, <1>13, <2>1, GoesOn DEF CreateAuthenticated, AccountStep,
       Steps, At, BeforeCheck
  <2> QED
    BY <2>1, <2>2, <2>3 DEF Effects
<1>14. ASSUME NEW r \in Requests, ResetLoginFailures(r)
      PROVE  Effects
  <2>1. AccountStep
    <3> DEFINE a == Reset(account)
    <3>0. req[r].failed + 1 \in Nat
      BY <1>0
    <3>1. a \in AccountRow
      BY <1>0, <3>0, Zenon DEF Reset, AccountRow, AccountStatus
    <3>2. /\ a.cred = account.cred /\ a.role = account.role
          /\ a.granted = account.granted /\ a.failed = 0
      BY <1>0 DEF Reset, AccountRow
    <3>3. account' = a
      BY <1>14 DEF ResetLoginFailures
    <3>4. account.granted
      BY <1>a, <1>14 DEF ResetLoginFailures, At, BeforeCheck
    <3>5. a.granted
      BY <3>2, <3>4
    <3>6. a.failed >= MaxFailures => a.status = "TEMP_LOCKED"
      BY <3>2, AuthAssumption
    <3>7. account.cred <= a.cred /\ account.role <= a.role
      BY <1>0, <3>2
    <3> HIDE DEF a
    <3> QED
      BY <3>1, <3>3, <3>5, <3>6, <3>7, NewAccount
  <2>2. SessionStep
    BY <1>14, SameSessions DEF ResetLoginFailures
  <2>3. RequestStep
    BY <1>14, <2>1, Finishes DEF ResetLoginFailures
  <2> QED
    BY <2>1, <2>2, <2>3 DEF Effects
<1>15. ASSUME NEW r \in Requests, IdentityChecked(r)
      PROVE  Effects
  <2>1. AccountStep
    BY <1>15, SameAccount DEF IdentityChecked
  <2>2. SessionStep
    BY <1>15, SameSessions DEF IdentityChecked
  <2>3. RequestStep
    BY <1>a, <1>15, <2>1, GoesOn DEF IdentityChecked, AccountStep,
       Steps, At, BeforeCheck
  <2> QED
    BY <2>1, <2>2, <2>3 DEF Effects
<1>16. ASSUME NEW r \in Requests, RevokeIdentityChanged(r)
      PROVE  Effects
  <2>1. AccountStep
    BY <1>16, SameAccount DEF RevokeIdentityChanged
  <2>2. SessionStep
    BY <1>16, RevokeOne DEF RevokeIdentityChanged
  <2>3. RequestStep
    BY <1>16, <2>1, Finishes DEF RevokeIdentityChanged
  <2> QED
    BY <2>1, <2>2, <2>3 DEF Effects
<1>17. ASSUME NEW r \in Requests, TouchSession(r)
      PROVE  Effects
  <2>1. AccountStep
    BY <1>17, SameAccount DEF TouchSession
  <2>2. SessionStep
    BY <1>17, SameSessions DEF TouchSession
  <2>3. RequestStep
    BY <1>17, <2>1, Finishes DEF TouchSession
  <2> QED
    BY <2>1, <2>2, <2>3 DEF Effects
<1>18. ASSUME NEW r \in Requests, RevokeCurrent(r)
      PROVE  Effects
  <2>1. AccountStep
    BY <1>18, SameAccount DEF RevokeCurrent
  <2>2. SessionStep
    BY <1>18, RevokeOne DEF RevokeCurrent
  <2>3. RequestStep
    BY <1>18, <2>1, Finishes DEF RevokeCurrent
  <2> QED
    BY <2>1, <2>2, <2>3 DEF Effects
<1>19. ASSUME NEW r \in Requests, RevokeAll(r)
      PROVE  Effects
  <2>1. AccountStep
    BY <1>19, SameAccount DEF RevokeAll
  <2>2. SessionStep
    BY <1>19, SameSessions DEF RevokeAll
  <2>3. RequestStep
    BY <1>a, <1>19, <2>1, GoesOn DEF RevokeAll, AccountStep, Steps, At,
       BeforeCheck
  <2> QED
    BY <2>1, <2>2, <2>3 DEF Effects
<1>20. ASSUME NEW r \in Requests, ChangePassword(r)
      PROVE  Effects
  <2>1. AccountStep
    BY <1>20, SameAccount DEF ChangePassword
  <2>2. SessionStep
    BY <1>20, SameSessions DEF ChangePassword
  <2>3. RequestStep
    BY <1>a, <1>20, <2>1, GoesOn DEF ChangePassword, AccountStep, Steps,
       At, BeforeCheck
  <2> QED
    BY <2>1, <2>2, <2>3 DEF Effects
<1>21. ASSUME NEW r \in Requests, PasswordChanged(r)
      PROVE  Effects
  <2>1. AccountStep
    <3> DEFINE a == [account EXCEPT !.password = @ + 1, !.cred = @ + 1,
                                              !.failed = 0, !.lockHeld = FALSE]
    <3>0. account.cred + 1 \in Nat /\ account.password + 1 \in Nat
      BY <1>0
    <3>1. a \in AccountRow
      BY <1>0, <3>0, Zenon DEF AccountRow
    <3>2. /\ a.cred = account.cred + 1 /\ a.role = account.role
          /\ a.granted = account.granted /\ a.status = account.status
          /\ a.failed = 0
      BY <1>0 DEF AccountRow
    <3>3. CASE account' = a
      <4> HIDE DEF a
      <4> QED
        BY <1>0, <1>a, <3>1, <3>2, <3>3, NewAccount, AuthAssumption
           DEF IInv, CountedOutIsLocked
    <3>4. CASE account' = account
      BY <3>4, SameAccount
    <3> QED
      BY <1>21, <3>3, <3>4 DEF PasswordChanged
  <2>2. SessionStep
    BY <1>21, SameSessions DEF PasswordChanged
  <2>3. RequestStep
    <3>1. CASE Finish(r)
      BY <2>1, <3>1, Finishes
    <3>2. CASE To(r, "revokeUser")
      BY <2>1, <3>2, GoesOn DEF Steps, BeforeCheck
    <3> QED
      BY <1>21, <3>1, <3>2 DEF PasswordChanged
  <2> QED
    BY <2>1, <2>2, <2>3 DEF Effects
<1>22. ASSUME NEW r \in Requests, ChangeStatus(r)
      PROVE  Effects
  <2>1. AccountStep
    <3>0. /\ DOMAIN StatusActions = {"approve", "reject", "disable", "activate"}
          /\ StatusActions["approve"] =
               [from |-> "PENDING_APPROVAL", to |-> "ACTIVE", grant |-> TRUE]
          /\ StatusActions["reject"] =
               [from |-> "PENDING_APPROVAL", to |-> "REJECTED", grant |-> FALSE]
          /\ StatusActions["disable"] =
               [from |-> "ACTIVE", to |-> "DISABLED", grant |-> FALSE]
          /\ StatusActions["activate"] =
               [from |-> "DISABLED", to |-> "ACTIVE", grant |-> TRUE]
      BY DEF StatusActions
    <3>1. PICK x \in DOMAIN StatusActions :
            account.status = StatusActions[x].from
            /\ account' = [account EXCEPT
                 !.status = StatusActions[x].to, !.failed = 0, !.lockHeld = FALSE,
                 !.granted = @ \/ StatusActions[x].grant,
                 !.role = IF StatusActions[x].grant /\ ~account.granted THEN @ + 1 ELSE @]
      BY <1>22 DEF ChangeStatus
    <3> DEFINE t == StatusActions[x]
    <3>s. account.status = t.from
      BY <3>1
    <3>2. /\ t.to \in AccountStatus /\ t.grant \in BOOLEAN
          /\ t.to = "ACTIVE" => t.grant
          /\ t.to = "DISABLED" => account.status = "ACTIVE"
          /\ t.to \in {"ACTIVE", "DISABLED", "REJECTED"}
      <4>1. CASE x = "approve"
        <5>0. t = [from |-> "PENDING_APPROVAL", to |-> "ACTIVE", grant |-> TRUE]
          BY <3>0, <4>1
        <5> HIDE DEF t
        <5>1. t.from = "PENDING_APPROVAL" /\ t.to = "ACTIVE" /\ t.grant = TRUE
          BY <5>0
        <5> QED
          BY <3>s, <5>1, Zenon DEF AccountStatus
      <4>2. CASE x = "reject"
        <5>0. t = [from |-> "PENDING_APPROVAL", to |-> "REJECTED", grant |-> FALSE]
          BY <3>0, <4>2
        <5> HIDE DEF t
        <5>1. t.from = "PENDING_APPROVAL" /\ t.to = "REJECTED" /\ t.grant = FALSE
          BY <5>0
        <5> QED
          BY <3>s, <5>1, Zenon DEF AccountStatus
      <4>3. CASE x = "disable"
        <5>0. t = [from |-> "ACTIVE", to |-> "DISABLED", grant |-> FALSE]
          BY <3>0, <4>3
        <5> HIDE DEF t
        <5>1. t.from = "ACTIVE" /\ t.to = "DISABLED" /\ t.grant = FALSE
          BY <5>0
        <5> QED
          BY <3>s, <5>1, Zenon DEF AccountStatus
      <4>4. CASE x = "activate"
        <5>0. t = [from |-> "DISABLED", to |-> "ACTIVE", grant |-> TRUE]
          BY <3>0, <4>4
        <5> HIDE DEF t
        <5>1. t.from = "DISABLED" /\ t.to = "ACTIVE" /\ t.grant = TRUE
          BY <5>0
        <5> QED
          BY <3>s, <5>1, Zenon DEF AccountStatus
      <4> QED
        BY <3>0, <3>1, <4>1, <4>2, <4>3, <4>4
    <3> DEFINE role == IF t.grant /\ ~account.granted THEN account.role + 1 ELSE account.role
               granted == account.granted \/ t.grant
               a == [account EXCEPT !.status = t.to, !.failed = 0, !.lockHeld = FALSE,
                                    !.granted = granted, !.role = role]
    <3>3. role \in Nat /\ account.role <= role /\ granted \in BOOLEAN
      BY <1>0
    <3>4. account' = a
      BY <3>1
    <3> HIDE DEF t
    <3>5. /\ account.granted => granted
          /\ t.to \notin {"PENDING_APPROVAL", "REJECTED"} => granted
      BY <1>a, <3>2
    <3> HIDE DEF role, granted
    <3>6. a \in AccountRow
      BY <1>0, <3>2, <3>3 DEF AccountRow
    <3>7. /\ a.cred = account.cred /\ a.role = role /\ a.granted = granted
          /\ a.status = t.to /\ a.failed = 0
      BY <1>0 DEF AccountRow
    <3> HIDE DEF a
    <3> QED
      BY <1>0, <3>3, <3>4, <3>5, <3>6, <3>7, NewAccount, AuthAssumption
  <2>2. SessionStep
    BY <1>22, SameSessions DEF ChangeStatus
  <2>3. RequestStep
    <3>1. \E pc \in {"revokeUser", "issueCode", "idle"} : To(r, pc)
      BY <1>22 DEF ChangeStatus
    <3> QED
      BY <2>1, <3>1, GoesOn DEF Steps, BeforeCheck
  <2> QED
    BY <2>1, <2>2, <2>3 DEF Effects
<1>23. ASSUME NEW r \in Requests, RenewMfaCode(r)
      PROVE  Effects
  <2>1. AccountStep
    BY <1>23, SameAccount DEF RenewMfaCode
  <2>2. SessionStep
    BY <1>23, SameSessions DEF RenewMfaCode
  <2>3. RequestStep
    BY <1>23, <2>1, GoesOn DEF RenewMfaCode, Steps, BeforeCheck
  <2> QED
    BY <2>1, <2>2, <2>3 DEF Effects
<1>24. ASSUME NEW r \in Requests, MfaCodeUpdated(r)
      PROVE  Effects
  <2>1. AccountStep
    <3> DEFINE a == IssueCode(account)
    <3>0. account.cred + 1 \in Nat /\ account.password + 1 \in Nat
      BY <1>0
    <3>1. a \in AccountRow
      BY <1>0, <3>0, Zenon DEF IssueCode, AccountRow
    <3>2. /\ a.cred = account.cred + 1 /\ a.role = account.role
          /\ a.granted = account.granted /\ a.status = account.status
          /\ a.failed = account.failed
      BY <1>0 DEF IssueCode, AccountRow
    <3>3. CASE account' = a
      <4> HIDE DEF a
      <4> QED
        BY <1>0, <1>a, <3>1, <3>2, <3>3, NewAccount, AuthAssumption
           DEF IInv, CountedOutIsLocked
    <3>4. CASE account' = account
      BY <3>4, SameAccount
    <3> QED
      BY <1>24, <3>3, <3>4 DEF MfaCodeUpdated
  <2>2. SessionStep
    BY <1>24, SameSessions DEF MfaCodeUpdated
  <2>3. RequestStep
    <3>1. CASE Finish(r)
      BY <2>1, <3>1, Finishes
    <3>2. CASE To(r, "revokeUser")
      BY <2>1, <3>2, GoesOn DEF Steps, BeforeCheck
    <3> QED
      BY <1>24, <3>1, <3>2 DEF MfaCodeUpdated
  <2> QED
    BY <2>1, <2>2, <2>3 DEF Effects
<1>25. ASSUME NEW r \in Requests, UserSessionsRevoked(r)
      PROVE  Effects
  <2>1. AccountStep
    BY <1>25, SameAccount DEF UserSessionsRevoked
  <2>2. SessionStep
    <3>0. session \in [Sessions -> SessionRow]
      BY DEF IInv, TypeOK
    <3>1. \A s \in Sessions : \/ session'[s] = Revoked(session[s])
                             \/ session'[s] = session[s]
      BY <1>25 DEF UserSessionsRevoked, RevokeUserSessions
    <3>2. session' \in [Sessions -> SessionRow]
      BY <3>0, <1>25, RevokedRow DEF UserSessionsRevoked, RevokeUserSessions
    <3>3. ASSUME NEW s \in Sessions PROVE RowStep(s)
      BY <3>0, <3>1, RevokedRow DEF RowStep
    <3> QED
      BY <3>2, <3>3 DEF SessionStep
  <2>3. RequestStep
    BY <1>25, <2>1, Finishes DEF UserSessionsRevoked
  <2> QED
    BY <2>1, <2>2, <2>3 DEF Effects
<1>26. ASSUME LockElapses
      PROVE  Effects
  <2> DEFINE a == [account EXCEPT !.lockHeld = FALSE]
  <2>1. account' = a /\ session' = session /\ req' = req
    BY <1>26 DEF LockElapses
  <2>2. AccountStep
    <3>1. a \in AccountRow
      BY <1>0 DEF AccountRow
    <3>2. /\ a.cred = account.cred /\ a.role = account.role
          /\ a.granted = account.granted /\ a.status = account.status
          /\ a.failed = account.failed
      BY <1>0 DEF AccountRow
    <3> HIDE DEF a
    <3> QED
      BY <1>0, <1>a, <2>1, <3>1, <3>2, NewAccount DEF IInv, CountedOutIsLocked
  <2> QED
    BY <2>1, <2>2, SameSessions, SameRequests DEF Effects
<1>27. CASE UNCHANGED vars
  BY <1>27, SameAccount, SameSessions, SameRequests DEF Effects, vars
<1> QED
  BY <1>1, <1>2, <1>3, <1>4, <1>5, <1>6, <1>7, <1>8, <1>9, <1>10,
     <1>11, <1>12, <1>13, <1>14, <1>15, <1>16, <1>17, <1>18, <1>19, <1>20,
     <1>21, <1>22, <1>23, <1>24, <1>25, <1>26, <1>27 DEF Next, SignIn,
     UseSession, Administer

\* The inductive invariant holds initially and every step keeps it.
THEOREM InductiveInvariant == Spec => []IInv
<1>0. Init => IInv
  BY AuthAssumption DEF Init, IInv, TypeOK, AccountRow, SessionRow, RequestState,
     AccountStatus, Phase, Steps, FreeSession, IdleRequest, ApprovedFirst,
     BeforeCheck, NoSessionBeforeApproval, Owned, VersionsBehind,
     CountedOutIsLocked
<1>1. ASSUME IInv, [Next]_vars PROVE IInv'
  BY <1>1, StepEffects, EffectsKeep DEF Effects
<1> QED
  BY <1>0, <1>1, PTL DEF Spec

\* The rows keep their types.
THEOREM TypeCorrect == Spec => []TypeOK
  BY InductiveInvariant, PTL DEF IInv

\* An account whose failures reached the limit is locked.
THEOREM CountedOut == Spec => []CountedOutIsLocked
  BY InductiveInvariant, PTL DEF IInv

\* No session belongs to an account nobody approved.
THEOREM ApprovalFirst == Spec => []NoSessionBeforeApproval
  BY InductiveInvariant, PTL DEF IInv, ApprovedFirst

\* A session of an older credential or role version never becomes usable
\* again, although the change of the account and the revocation of its
\* sessions are separate transactions.
THEOREM StaleForGood == Spec => StaleSessionStaysStale
<1> DEFINE Stays ==
             \A s \in Sessions :
               /\ Owned(s) /\ ~session[s].revoked
               /\ session[s].cred # account.cred \/ session[s].role # account.role
               => ~Usable(s)'
<1>1. ASSUME IInv, [Next]_vars PROVE Stays
  <2>1. SUFFICES ASSUME NEW s \in Sessions, Owned(s), ~session[s].revoked,
                        session[s].cred # account.cred \/ session[s].role # account.role
                 PROVE  ~Usable(s)'
    OBVIOUS
  <2>2. AccountStep /\ RowStep(s)
    BY <1>1, StepEffects DEF Effects, SessionStep
  <2>3. IInv'
    BY <1>1, StepEffects, EffectsKeep DEF Effects
  <2>4. /\ account.cred \in Nat /\ account'.cred \in Nat
        /\ account.role \in Nat /\ account'.role \in Nat
        /\ session[s].cred \in Nat /\ session[s].role \in Nat
    BY <1>1, <2>3 DEF IInv, TypeOK, AccountRow, SessionRow
  <2>5. s \notin Fresh
    BY <2>1 DEF Fresh, Owned
  <2>6. /\ session[s].cred <= account.cred /\ account.cred <= account'.cred
        /\ session[s].role <= account.role /\ account.role <= account'.role
    BY <1>1, <2>2 DEF IInv, VersionsBehind, AccountStep
  <2>7. ASSUME Usable(s)' PROVE FALSE
    <3>1. /\ account'.cred = session'[s].cred /\ account'.role = session'[s].role
          /\ ~session'[s].revoked
      BY <2>7 DEF Usable, IdentityUnchanged
    <3> QED
      BY <2>1, <2>2, <2>4, <2>5, <2>6, <3>1 DEF RowStep, Owned
  <2> QED
    BY <2>7
<1> QED
  BY <1>1, InductiveInvariant, PTL DEF Spec, StaleSessionStaysStale

-----------------------------------------------------------------------------
(* The guesses at a code. While a pending session is not revoked, every    *)
(* code compared with it is in its counter, or will be as soon as the      *)
(* request that compared it increments the counter; and a request that has *)
(* read the counter below the limit compares one code at most, also after  *)
(* another request has ended the session.                                  *)

AfterCheck == {"mfaFailure", "mfaLimit", "mfaRotate"}
Below(s) == {r \in Requests : /\ req[r].s = s /\ req[r].pc = "mfa"
                              /\ req[r].attempts < MaxMfa}
Counting(s) == {r \in Requests : req[r].s = s /\ req[r].pc \in AfterCheck}

GuessesCounted(s) ==
  /\ session[s].checks + Cardinality(Below(s)) <= MaxMfa + Cardinality(Requests) - 1
  /\ ~session[s].revoked =>
       session[s].checks <= session[s].attempts + Cardinality(Counting(s))

GInv == IInv /\ \A s \in Sessions : GuessesCounted(s)

\* A row keeps its counters, or is new.
RowCounts(s) ==
  \/ /\ session'[s].checks = session[s].checks /\ session'[s].attempts = session[s].attempts
     /\ session[s].revoked => session'[s].revoked
  \/ session'[s].checks = 0 /\ s \in Fresh

\* No request begins or ends the check of a code.
NoCheck ==
  \A r \in Requests :
    \/ req'[r] = req[r]
    \/ req[r].pc \notin AfterCheck \cup {"mfa"} /\ req'[r].pc \notin AfterCheck \cup {"mfa"}

\* The requests that check codes are finitely many: the server's threads are.
LEMMA Checkers ==
  /\ Cardinality(Requests) \in Nat
  /\ \A S \in SUBSET Requests : /\ IsFiniteSet(S) /\ Cardinality(S) \in Nat
                                /\ Cardinality(S) <= Cardinality(Requests)
  /\ \A S \in SUBSET Requests : \A T \in SUBSET S : Cardinality(T) <= Cardinality(S)
<1>1. IsFiniteSet(Requests)
  BY AuthAssumption
<1>2. Cardinality(Requests) \in Nat
  BY <1>1, FS_CardinalityType
<1>3. ASSUME NEW S \in SUBSET Requests
      PROVE  /\ IsFiniteSet(S) /\ Cardinality(S) \in Nat
             /\ Cardinality(S) <= Cardinality(Requests)
  BY <1>1, FS_Subset, FS_CardinalityType
<1>4. ASSUME NEW S \in SUBSET Requests, NEW T \in SUBSET S
      PROVE  Cardinality(T) <= Cardinality(S)
  BY <1>3, FS_Subset
<1> QED
  BY <1>2, <1>3, <1>4

\* The counters of a session are numbers, and so is the limit.
LEMMA CounterTypes ==
  ASSUME TypeOK, NEW s \in Sessions
  PROVE  /\ session[s].checks \in Nat /\ session[s].attempts \in Nat
         /\ session[s].revoked \in BOOLEAN
         /\ MaxMfa \in Nat /\ MaxMfa >= 1
         /\ \A r \in Requests : req[r].attempts \in Nat
         /\ Below(s) \in SUBSET Requests /\ Counting(s) \in SUBSET Requests
         /\ Cardinality(Below(s)) \in Nat /\ Cardinality(Counting(s)) \in Nat
<1>1. Below(s) \in SUBSET Requests /\ Counting(s) \in SUBSET Requests
  BY DEF Below, Counting
<1>2. Cardinality(Below(s)) \in Nat /\ Cardinality(Counting(s)) \in Nat
  BY <1>1, Checkers
<1>3. session[s] \in SessionRow /\ req \in [Requests -> RequestState]
  BY DEF TypeOK
<1> QED
  BY <1>1, <1>2, <1>3, AuthAssumption DEF SessionRow, RequestState

\* A row that keeps its counters: a check of it may be over once it is revoked.
LEMMA SlotKeeps ==
  ASSUME TypeOK, TypeOK', NEW s \in Sessions, GuessesCounted(s),
         session'[s].checks = session[s].checks, session'[s].attempts = session[s].attempts,
         session[s].revoked => session'[s].revoked,
         Below(s)' \subseteq Below(s),
         ~session'[s].revoked => Counting(s) \subseteq Counting(s)'
  PROVE  GuessesCounted(s)'
<1>1. /\ session[s].checks \in Nat /\ session[s].attempts \in Nat
      /\ Cardinality(Below(s)) \in Nat /\ Cardinality(Counting(s)) \in Nat
      /\ Below(s) \in SUBSET Requests
      /\ MaxMfa \in Nat /\ Cardinality(Requests) \in Nat
  BY CounterTypes, Checkers
<1>2. /\ Below(s)' \in SUBSET Requests /\ Counting(s)' \in SUBSET Requests
  BY DEF Below, Counting
<1>3. Cardinality(Below(s)') \in Nat /\ Cardinality(Counting(s)') \in Nat
  BY <1>2, Checkers
<1>4. Cardinality(Below(s)') <= Cardinality(Below(s))
  BY <1>1, Checkers
<1>5. ~session'[s].revoked => Cardinality(Counting(s)) <= Cardinality(Counting(s)')
  BY <1>2, Checkers
<1>6. session'[s].checks + Cardinality(Below(s)') <= MaxMfa + Cardinality(Requests) - 1
  BY <1>1, <1>3, <1>4 DEF GuessesCounted
<1>7. ~session'[s].revoked =>
        session'[s].checks <= session'[s].attempts + Cardinality(Counting(s)')
  BY <1>1, <1>3, <1>5 DEF GuessesCounted
<1> QED
  BY <1>6, <1>7 DEF GuessesCounted

\* A new row has no code compared with it, and no request works with it.
LEMMA NewSlot ==
  ASSUME TypeOK, TypeOK', NEW s \in Fresh, session'[s].checks = 0, NoCheck
  PROVE  GuessesCounted(s)'
<1>1. s \in Sessions /\ \A r \in Requests : req[r].s # s
  BY DEF Fresh
<1>2. Below(s)' = {}
  BY <1>1 DEF Below, NoCheck
<1>3. /\ session'[s].attempts \in Nat /\ MaxMfa \in Nat /\ MaxMfa >= 1
      /\ Cardinality(Requests) \in Nat
  BY <1>1, AuthAssumption, Checkers DEF TypeOK, SessionRow
<1>4. Cardinality(Counting(s)') \in Nat
  <2>1. Counting(s)' \in SUBSET Requests
    BY DEF Counting
  <2> QED
    BY <2>1, Checkers
<1>5. Cardinality({}) = 0
  BY FS_EmptySet
<1> QED
  BY <1>2, <1>3, <1>4, <1>5 DEF GuessesCounted

\* A step outside of the check of a code.
LEMMA OtherSteps ==
  ASSUME GInv, TypeOK', NoCheck, \A s \in Sessions : RowCounts(s)
  PROVE  \A s \in Sessions : GuessesCounted(s)'
<1> SUFFICES ASSUME NEW s \in Sessions PROVE GuessesCounted(s)'
  OBVIOUS
<1>1. TypeOK /\ GuessesCounted(s)
  BY DEF GInv, IInv
<1>2. CASE session'[s].checks = 0 /\ s \in Fresh
  BY <1>1, <1>2, NewSlot
<1>3. CASE /\ session'[s].checks = session[s].checks /\ session'[s].attempts = session[s].attempts
           /\ session[s].revoked => session'[s].revoked
  <2>1. Below(s)' = Below(s) /\ Counting(s)' = Counting(s)
    BY DEF Below, Counting, NoCheck
  <2> QED
    BY <1>1, <1>3, <2>1, SlotKeeps
<1> QED
  BY <1>2, <1>3 DEF RowCounts

\* revoke_session and the revocation of all sessions leave the counters.
LEMMA RevokedCounts ==
  ASSUME TypeOK, \A s \in Sessions : session'[s] \in {session[s], Revoked(session[s])}
  PROVE  \A s \in Sessions : RowCounts(s)
<1>1. \A row \in SessionRow : /\ Revoked(row).checks = row.checks /\ Revoked(row).revoked
                              /\ Revoked(row).attempts = row.attempts
  BY DEF Revoked, SessionRow
<1> QED
  BY <1>1 DEF TypeOK, RowCounts

\* revoke_session leaves the counters of the row it ends, and every other row.
LEMMA RevokeCounts ==
  ASSUME TypeOK, NEW x, Revoke(x)
  PROVE  \A s \in Sessions : /\ RowCounts(s)
                             /\ session'[s] = IF s = x THEN Revoked(session[s]) ELSE session[s]
<1>1. \A s \in Sessions : session'[s] = IF s = x THEN Revoked(session[s]) ELSE session[s]
  BY DEF TypeOK, Revoke
<1> QED
  BY <1>1, RevokedCounts

\* create_session
LEMMA CreateCounts ==
  ASSUME TypeOK, NEW x \in Fresh, NEW phase, NEW cred, NEW role, NEW proof,
         CreateSession(x, phase, cred, role, proof)
  PROVE  \A s \in Sessions : RowCounts(s)
<1> DEFINE row == [FreeSession EXCEPT !.phase = phase, !.cred = cred, !.role = role, !.proof = proof]
<1>1. row.checks = 0
  BY DEF FreeSession
<1>2. session' = [session EXCEPT ![x] = row] /\ x \in Sessions
  BY DEF CreateSession, Fresh
<1> HIDE DEF row
<1>3. \A s \in Sessions : session'[s] = IF s = x THEN row ELSE session[s]
  BY <1>2 DEF TypeOK
<1> QED
  BY <1>1, <1>3 DEF RowCounts

\* A request that goes from one step outside of a check to another.
LEMMA GoesNoCheck ==
  ASSUME TypeOK, NEW r \in Requests, NEW rec, Goto(r, rec),
         req[r].pc \notin AfterCheck \cup {"mfa"}, rec.pc \notin AfterCheck \cup {"mfa"}
  PROVE  NoCheck
<1>1. \A x \in Requests : req'[x] = IF x = r THEN rec ELSE req[x]
  BY DEF TypeOK, Goto
<1> QED
  BY <1>1 DEF NoCheck

\* Where a request of a known step is afterwards.
LEMMA PcAfter ==
  ASSUME TypeOK, NEW r \in Requests
  PROVE  /\ IdleRequest.pc = "idle"
         /\ \A pc : [req[r] EXCEPT !.pc = pc].pc = pc
         /\ \A pc : [req[r] EXCEPT !.pc = pc].s = req[r].s
BY DEF TypeOK, RequestState, IdleRequest

\* The steps outside of a check, one by one: none touches a counter.
LEMMA OutsideChecks ==
  ASSUME TypeOK,
         \/ NewPreAuth \/ LockElapses \/ UNCHANGED vars
         \/ \E r \in Requests :
              \/ UseSession(r) \/ Administer(r)
              \/ \E s \in Sessions : PasswordLogin(r, s)
              \/ PasswordChecked(r) \/ RegisterLoginFailure(r) \/ RevokePreAuth(r)
              \/ CreatePending(r) \/ CreateAuthenticated(r) \/ ResetLoginFailures(r)
  PROVE  NoCheck /\ \A s \in Sessions : RowCounts(s)
<1> DEFINE Rows == \A s \in Sessions : RowCounts(s)
<1>1. UNCHANGED session => Rows
  BY DEF RowCounts
<1>2. UNCHANGED req => NoCheck
  BY DEF NoCheck
<1>3. \A s \in Sessions : Revoke(s) => Rows
  BY RevokeCounts
<1>4. ASSUME NEW r \in Requests, Revoke(req[r].s) PROVE Rows
  BY <1>4, RevokeCounts
<1>5. ASSUME NEW r \in Requests, NEW pc, To(r, pc),
             req[r].pc \notin AfterCheck \cup {"mfa"}, pc \notin AfterCheck \cup {"mfa"}
      PROVE  NoCheck
  <2>1. [req[r] EXCEPT !.pc = pc].pc = pc
    BY PcAfter
  <2> QED
    BY <1>5, <2>1, GoesNoCheck DEF To
<1>6. ASSUME NEW r \in Requests, Finish(r), req[r].pc \notin AfterCheck \cup {"mfa"}
      PROVE  NoCheck
  BY <1>6, GoesNoCheck DEF Finish, IdleRequest, AfterCheck
<1> HIDE DEF Rows
<1>7. CASE NewPreAuth
  <2>1. Rows
    BY <1>7, CreateCounts DEF NewPreAuth, Rows
  <2> QED
    BY <1>2, <1>7, <2>1 DEF NewPreAuth, Rows
<1>8. CASE LockElapses \/ UNCHANGED vars
  BY <1>1, <1>2, <1>8 DEF LockElapses, vars, Rows
<1>9. ASSUME NEW r \in Requests, UseSession(r) PROVE NoCheck /\ Rows
  <2>1. ASSUME NEW s \in Sessions, Authenticate(r, s) PROVE NoCheck /\ Rows
    <3>1. CASE Revoke(s) /\ UNCHANGED req
      BY <1>2, <1>3, <3>1
    <3>2. CASE UNCHANGED session
      <4> DEFINE rec == [[IdleRequest EXCEPT !.pc = "authenticate", !.cred = session[s].cred,
                                             !.role = session[s].role] EXCEPT !.s = s]
      <4>1. CASE Goto(r, rec)
        <5>1. rec.pc = "authenticate" /\ req[r].pc = "idle"
          BY <2>1 DEF IdleRequest, Authenticate, LoadSession, At
        <5> HIDE DEF rec
        <5> QED
          BY <1>1, <3>2, <4>1, <5>1, GoesNoCheck DEF AfterCheck
      <4>2. CASE UNCHANGED req
        BY <1>1, <1>2, <3>2, <4>2
      <4> QED
        BY <2>1, <4>1, <4>2 DEF Authenticate, LoadSession
    <3> QED
      BY <2>1, <3>1, <3>2 DEF Authenticate, LoadSession
  <2>2. ASSUME IdentityChecked(r) PROVE NoCheck /\ Rows
    BY <1>1, <1>5, <2>2 DEF IdentityChecked, At, AfterCheck
  <2>3. ASSUME RevokeIdentityChanged(r) \/ RevokeCurrent(r) PROVE NoCheck /\ Rows
    BY <1>4, <1>6, <2>3 DEF RevokeIdentityChanged, RevokeCurrent, At, AfterCheck
  <2>4. ASSUME TouchSession(r) \/ RevokeAll(r) \/ ChangePassword(r) PROVE NoCheck /\ Rows
    BY <1>1, <1>5, <1>6, <2>4 DEF TouchSession, RevokeAll, ChangePassword, At, AfterCheck
  <2>5. ASSUME PasswordChanged(r) PROVE NoCheck /\ Rows
    BY <1>1, <1>5, <1>6, <2>5 DEF PasswordChanged, At, AfterCheck
  <2> QED
    BY <1>9, <2>1, <2>2, <2>3, <2>4, <2>5 DEF UseSession
<1>10. ASSUME NEW r \in Requests, Administer(r) PROVE NoCheck /\ Rows
  <2>1. ASSUME ChangeStatus(r) PROVE NoCheck /\ Rows
    <3>1. \E pc \in {"revokeUser", "issueCode", "idle"} : To(r, pc)
      BY <2>1 DEF ChangeStatus
    <3> QED
      BY <1>1, <1>5, <2>1, <3>1 DEF ChangeStatus, At, AfterCheck
  <2>2. ASSUME RenewMfaCode(r) PROVE NoCheck /\ Rows
    BY <1>1, <1>5, <2>2 DEF RenewMfaCode, At, AfterCheck
  <2>3. ASSUME MfaCodeUpdated(r) PROVE NoCheck /\ Rows
    BY <1>1, <1>5, <1>6, <2>3 DEF MfaCodeUpdated, At, AfterCheck
  <2>4. ASSUME UserSessionsRevoked(r) PROVE NoCheck /\ Rows
    <3>1. \A s \in Sessions : session'[s] \in {session[s], Revoked(session[s])}
      BY <2>4 DEF UserSessionsRevoked, RevokeUserSessions
    <3>2. Rows
      BY <3>1, RevokedCounts DEF Rows
    <3> QED
      BY <1>6, <2>4, <3>2 DEF UserSessionsRevoked, At, AfterCheck
  <2> QED
    BY <1>10, <2>1, <2>2, <2>3, <2>4 DEF Administer
<1>11. ASSUME NEW r \in Requests, NEW s \in Sessions, PasswordLogin(r, s) PROVE NoCheck /\ Rows
  <2> DEFINE rec == [[IdleRequest EXCEPT !.pc = "login"] EXCEPT !.s = s]
  <2>1. rec.pc = "login" /\ req[r].pc = "idle"
    BY <1>11 DEF IdleRequest, PasswordLogin, LoadSession, At
  <2>2. CASE Revoke(s) /\ UNCHANGED req
    BY <1>2, <1>3, <2>2
  <2>3. CASE Goto(r, rec) /\ UNCHANGED session
    <3> HIDE DEF rec
    <3> QED
      BY <1>1, <2>1, <2>3, GoesNoCheck DEF AfterCheck
  <2> QED
    BY <1>11, <2>2, <2>3 DEF PasswordLogin, LoadSession
<1>12. ASSUME NEW r \in Requests, PasswordChecked(r) PROVE NoCheck /\ Rows
  <2>1. UNCHANGED session /\ req[r].pc = "login"
    BY <1>12 DEF PasswordChecked, At
  <2> DEFINE wrong == [req[r] EXCEPT !.pc = "failure", !.failed = account.failed]
             right == [req[r] EXCEPT !.pc = "rotate", !.cred = account.cred,
                                     !.role = account.role, !.proof = account.password]
  <2>2. wrong.pc = "failure" /\ right.pc = "rotate"
    BY DEF TypeOK, RequestState
  <2>3. Finish(r) \/ Goto(r, wrong) \/ Goto(r, right)
    BY <1>12 DEF PasswordChecked
  <2> HIDE DEF wrong, right
  <2> QED
    BY <1>1, <1>6, <2>1, <2>2, <2>3, GoesNoCheck DEF AfterCheck
<1>13. ASSUME NEW r \in Requests, RegisterLoginFailure(r) \/ ResetLoginFailures(r)
       PROVE  NoCheck /\ Rows
  BY <1>1, <1>6, <1>13 DEF RegisterLoginFailure, ResetLoginFailures, At, AfterCheck
<1>14. ASSUME NEW r \in Requests, RevokePreAuth(r) PROVE NoCheck /\ Rows
  <2> DEFINE rec == [req[r] EXCEPT !.pc = "pending", !.s = None]
  <2>1. rec.pc = "pending" /\ req[r].pc = "rotate" /\ Goto(r, rec) /\ Revoke(req[r].s)
    BY <1>14 DEF RevokePreAuth, At, TypeOK, RequestState
  <2> HIDE DEF rec
  <2> QED
    BY <1>4, <2>1, GoesNoCheck DEF AfterCheck
<1>15. ASSUME NEW r \in Requests, CreatePending(r) PROVE NoCheck /\ Rows
  <2>1. Rows
    BY <1>15, CreateCounts DEF CreatePending, Rows
  <2> QED
    BY <1>6, <1>15, <2>1 DEF CreatePending, At, AfterCheck
<1>16. ASSUME NEW r \in Requests, CreateAuthenticated(r) PROVE NoCheck /\ Rows
  <2>1. Rows
    BY <1>16, CreateCounts DEF CreateAuthenticated, Rows
  <2> QED
    BY <1>5, <1>16, <2>1 DEF CreateAuthenticated, At, AfterCheck
<1> QED
  BY <1>7, <1>8, <1>9, <1>10, <1>11, <1>12, <1>13, <1>14, <1>15, <1>16 DEF Rows

\* A request that begins a check is one more below the limit only where the
\* session is not revoked and its counter is below the limit.
LEMMA BeginsCheck ==
  ASSUME GInv, TypeOK', NEW r \in Requests, NEW x \in Sessions, CompleteDevMfa(r, x)
  PROVE  \A s \in Sessions : GuessesCounted(s)'
<1> DEFINE rec == [[IdleRequest EXCEPT !.pc = "mfa", !.attempts = session[x].attempts,
                                       !.proof = session[x].proof] EXCEPT !.s = x]
<1>1. TypeOK /\ req[r].pc = "idle" /\ ~session[x].revoked
  BY DEF GInv, IInv, CompleteDevMfa, LoadSession, At
<1>2. rec.pc = "mfa" /\ rec.s = x /\ rec.attempts = session[x].attempts
  BY DEF IdleRequest
<1>3. CASE Revoke(x) /\ UNCHANGED req
  BY <1>1, <1>3, OtherSteps, RevokeCounts DEF NoCheck
<1>4. ASSUME req' = [req EXCEPT ![r] = rec], UNCHANGED session, NEW s \in Sessions
      PROVE  GuessesCounted(s)'
  <2> HIDE DEF rec
  <2>1. GuessesCounted(s)
    BY DEF GInv
  <2>2. \A y \in Requests : req'[y] = IF y = r THEN rec ELSE req[y]
    BY <1>1, <1>4 DEF TypeOK
  <2>3. Counting(s)' = Counting(s)
    BY <1>1, <1>2, <2>2 DEF Counting, AfterCheck
  <2>4. CASE s # x \/ ~(session[x].attempts < MaxMfa)
    <3>1. Below(s)' \subseteq Below(s)
      BY <1>2, <2>2, <2>4 DEF Below
    <3> QED
      BY <1>1, <1>4, <2>1, <2>3, <3>1, SlotKeeps
  <2>5. CASE s = x /\ session[x].attempts < MaxMfa
    <3>1. /\ session[s].checks \in Nat /\ session[s].attempts \in Nat
          /\ MaxMfa \in Nat /\ Cardinality(Requests) \in Nat
          /\ Cardinality(Counting(s)) \in Nat
      BY <1>1, CounterTypes, Checkers
    <3>2. /\ Below(s)' \in SUBSET Requests /\ Counting(s) \in SUBSET Requests
          /\ Below(s)' \cap Counting(s) = {}
      BY <2>3 DEF Below, Counting, AfterCheck
    <3>3. Cardinality(Below(s)') + Cardinality(Counting(s)) <= Cardinality(Requests)
      <4> DEFINE B == Below(s)'
                 C == Counting(s)
      <4>1. /\ IsFiniteSet(B) /\ IsFiniteSet(C) /\ B \cap C = {}
            /\ Cardinality(B) \in Nat /\ Cardinality(C) \in Nat
            /\ B \cup C \in SUBSET Requests
        BY <3>2, Checkers
      <4> HIDE DEF B, C
      <4>2. Cardinality(B \cup C) = Cardinality(B) + Cardinality(C) - Cardinality({})
        BY <4>1, FS_Union
      <4>3. Cardinality(B) + Cardinality(C) = Cardinality(B \cup C)
        BY <4>1, <4>2, FS_EmptySet
      <4>4. Cardinality(B \cup C) <= Cardinality(Requests)
        BY <4>1, Checkers
      <4> QED
        BY <4>3, <4>4 DEF B, C
    <3>4. Cardinality(Below(s)') \in Nat
      BY <3>2, Checkers
    <3>5. session[s].checks <= session[s].attempts + Cardinality(Counting(s))
      BY <1>1, <2>1, <2>5 DEF GuessesCounted
    <3>6. session[s].checks + Cardinality(Below(s)') <= MaxMfa + Cardinality(Requests) - 1
      BY <2>5, <3>1, <3>3, <3>4, <3>5
    <3> QED
      BY <1>4, <2>3, <3>5, <3>6 DEF GuessesCounted
  <2> QED
    BY <2>4, <2>5
<1> QED
  BY <1>3, <1>4 DEF CompleteDevMfa, LoadSession, Goto

\* A compared code is counted, and its request is about to increment the counter.
LEMMA ChecksCode ==
  ASSUME GInv, TypeOK', NEW r \in Requests, FactorChecked(r)
  PROVE  \A s \in Sessions : GuessesCounted(s)'
<1> DEFINE x == req[r].s
           below == req[r].attempts < MaxMfa
           late == [req[r] EXCEPT !.pc = "mfaFailure"]
           good == [req[r] EXCEPT !.pc = IF account.granted THEN "mfaRotate" ELSE "mfaLimit",
                                  !.cred = account.cred, !.role = account.role]
<1>1. TypeOK /\ req[r].pc = "mfa"
  BY DEF GInv, IInv, FactorChecked, At
<1>2. /\ late.pc \in AfterCheck /\ late.s = x
      /\ good.pc \in AfterCheck /\ good.s = x
  BY <1>1 DEF TypeOK, RequestState, AfterCheck
<1>3. \E rec \in {late, good} : req' = [req EXCEPT ![r] = rec]
  BY DEF FactorChecked, To, Goto
<1> HIDE DEF late, good
<1>4. PICK rec : req' = [req EXCEPT ![r] = rec] /\ rec.pc \in AfterCheck /\ rec.s = x
  BY <1>2, <1>3
<1>5. \A y \in Requests : req'[y] = IF y = r THEN rec ELSE req[y]
  BY <1>1, <1>4 DEF TypeOK
<1>6. \A s \in Sessions :
        session'[s] = IF below /\ s = x THEN [session[s] EXCEPT !.checks = @ + 1] ELSE session[s]
  BY <1>1 DEF FactorChecked, TypeOK
<1>7. ASSUME NEW s \in Sessions PROVE GuessesCounted(s)'
  <2>1. /\ session[s] \in SessionRow /\ GuessesCounted(s)
        /\ session[s].checks \in Nat /\ session[s].attempts \in Nat
        /\ Cardinality(Below(s)) \in Nat /\ Cardinality(Counting(s)) \in Nat
        /\ Below(s) \in SUBSET Requests /\ Counting(s) \in SUBSET Requests
        /\ MaxMfa \in Nat /\ Cardinality(Requests) \in Nat
    BY <1>1, CounterTypes, Checkers DEF GInv, TypeOK
  <2>2. CASE ~(below /\ s = x)
    <3>1. Below(s)' \subseteq Below(s) /\ Counting(s) \subseteq Counting(s)'
      BY <1>1, <1>4, <1>5 DEF Below, Counting, AfterCheck
    <3> QED
      BY <1>1, <1>6, <2>1, <2>2, <3>1, SlotKeeps
  <2>3. CASE below /\ s = x
    <3>1. /\ session'[s].checks = session[s].checks + 1
          /\ session'[s].attempts = session[s].attempts
          /\ session'[s].revoked = session[s].revoked
      BY <1>6, <2>1, <2>3 DEF SessionRow
    <3>2. r \in Below(s) /\ r \notin Counting(s)
      BY <1>1, <2>3 DEF Below, Counting, AfterCheck
    <3>3. Below(s)' = Below(s) \ {r} /\ Counting(s)' = Counting(s) \cup {r}
      BY <1>1, <1>4, <1>5, <2>3 DEF Below, Counting, AfterCheck
    <3>4. /\ Cardinality(Below(s)') = Cardinality(Below(s)) - 1
          /\ Cardinality(Counting(s)') = Cardinality(Counting(s)) + 1
      <4>1. IsFiniteSet(Below(s)) /\ IsFiniteSet(Counting(s))
        BY <2>1, Checkers
      <4>2. Cardinality(Below(s) \ {r}) = Cardinality(Below(s)) - 1
        BY <3>2, <4>1, FS_RemoveElement
      <4>3. Cardinality(Counting(s) \cup {r}) = Cardinality(Counting(s)) + 1
        BY <3>2, <4>1, FS_AddElement
      <4> QED
        BY <3>3, <4>2, <4>3
    <3>5. session'[s].checks + Cardinality(Below(s)') <= MaxMfa + Cardinality(Requests) - 1
      BY <2>1, <3>1, <3>4 DEF GuessesCounted
    <3>6. ~session'[s].revoked =>
            session'[s].checks <= session'[s].attempts + Cardinality(Counting(s)')
      BY <2>1, <3>1, <3>4 DEF GuessesCounted
    <3> QED
      BY <3>5, <3>6 DEF GuessesCounted
  <2> QED
    BY <2>2, <2>3
<1> QED
  BY <1>7

\* increment_mfa_failure adds one to the stored counter, not to the one read: so
\* every request that leaves the check is in the counter of its session.
LEMMA CountsCode ==
  ASSUME GInv, TypeOK', NEW r \in Requests, IncrementMfaFailure(r)
  PROVE  \A s \in Sessions : GuessesCounted(s)'
<1> DEFINE x == req[r].s
<1>1. TypeOK /\ req[r].pc = "mfaFailure"
      /\ session' = [session EXCEPT ![x].attempts = @ + 1]
  BY DEF GInv, IInv, IncrementMfaFailure, At, MfaAttempts
<1>2. \A y \in Requests : y # r => req'[y] = req[y]
  BY <1>1 DEF IncrementMfaFailure, To, Finish, Goto, TypeOK
<1>3. req'[r].pc \in {"idle", "mfaLimit"}
  BY <1>1 DEF IncrementMfaFailure, To, Finish, Goto, TypeOK, IdleRequest, RequestState
<1>4. \A s \in Sessions :
        session'[s] = IF s = x THEN [session[s] EXCEPT !.attempts = @ + 1] ELSE session[s]
  BY <1>1 DEF TypeOK
<1>5. ASSUME NEW s \in Sessions PROVE GuessesCounted(s)'
  <2>1. /\ session[s] \in SessionRow /\ GuessesCounted(s)
        /\ session[s].checks \in Nat /\ session[s].attempts \in Nat
        /\ Cardinality(Below(s)) \in Nat /\ Cardinality(Counting(s)) \in Nat
        /\ Below(s) \in SUBSET Requests /\ Counting(s) \in SUBSET Requests
        /\ MaxMfa \in Nat /\ Cardinality(Requests) \in Nat
    BY <1>1, CounterTypes, Checkers DEF GInv, TypeOK
  <2>2. Below(s)' = Below(s)
    BY <1>1, <1>2, <1>3 DEF Below
  <2>3. CASE s # x
    <3>1. Counting(s) \subseteq Counting(s)'
      BY <1>2, <2>3 DEF Counting
    <3> QED
      BY <1>1, <1>4, <2>1, <2>2, <2>3, <3>1, SlotKeeps
  <2>4. CASE s = x
    <3>1. /\ session'[s].checks = session[s].checks
          /\ session'[s].attempts = session[s].attempts + 1
          /\ session'[s].revoked = session[s].revoked
      BY <1>4, <2>1, <2>4 DEF SessionRow
    <3>2. /\ Counting(s) \ {r} \in SUBSET Counting(s)'
          /\ Counting(s)' \in SUBSET Requests
      BY <1>2 DEF Counting
    <3>3. /\ Cardinality(Counting(s) \ {r}) <= Cardinality(Counting(s)')
          /\ Cardinality(Counting(s)') \in Nat
      BY <3>2, Checkers
    <3>4. Cardinality(Counting(s) \ {r}) >= Cardinality(Counting(s)) - 1
      BY <2>1, Checkers, FS_RemoveElement
    <3>5. Cardinality(Counting(s) \ {r}) \in Nat
      BY <2>1, Checkers
    <3>6. session'[s].checks + Cardinality(Below(s)') <= MaxMfa + Cardinality(Requests) - 1
      BY <2>1, <2>2, <3>1 DEF GuessesCounted
    <3>7. ~session'[s].revoked =>
            session'[s].checks <= session'[s].attempts + Cardinality(Counting(s)')
      BY <2>1, <3>1, <3>3, <3>4, <3>5 DEF GuessesCounted
    <3> QED
      BY <3>6, <3>7 DEF GuessesCounted
  <2> QED
    BY <2>3, <2>4
<1> QED
  BY <1>5

\* At the limit, and after a right code, the session is revoked.
LEMMA EndsCheck ==
  ASSUME GInv, TypeOK', NEW r \in Requests, RevokeMfaLimit(r) \/ RevokePending(r)
  PROVE  \A s \in Sessions : GuessesCounted(s)'
<1> DEFINE x == req[r].s
<1>1. TypeOK /\ req[r].pc \in AfterCheck /\ Revoke(x)
  BY DEF GInv, IInv, RevokeMfaLimit, RevokePending, At, AfterCheck
<1>2. /\ \A y \in Requests : y # r => req'[y] = req[y]
      /\ req'[r].pc \in {"idle", "establish"}
  <2> DEFINE next == [req[r] EXCEPT !.pc = "establish", !.s = None]
  <2>1. next.pc = "establish" /\ IdleRequest.pc = "idle"
    BY <1>1 DEF TypeOK, RequestState, IdleRequest
  <2>2. Goto(r, IdleRequest) \/ Goto(r, next)
    BY DEF RevokeMfaLimit, RevokePending, Finish
  <2> HIDE DEF next
  <2>3. PICK rec \in {IdleRequest, next} : req' = [req EXCEPT ![r] = rec]
    BY <2>2 DEF Goto
  <2>4. \A y \in Requests : req'[y] = IF y = r THEN rec ELSE req[y]
    BY <1>1, <2>3 DEF TypeOK
  <2> QED
    BY <2>1, <2>3, <2>4
<1>3. ASSUME NEW s \in Sessions PROVE GuessesCounted(s)'
  <2>1. GuessesCounted(s) /\ session[s] \in SessionRow
    BY <1>1 DEF GInv, TypeOK
  <2>2. /\ session'[s] = IF s = x THEN Revoked(session[s]) ELSE session[s]
    BY <1>1, RevokeCounts
  <2>3. /\ Revoked(session[s]).checks = session[s].checks /\ Revoked(session[s]).revoked
        /\ Revoked(session[s]).attempts = session[s].attempts
    BY <2>1 DEF Revoked, SessionRow
  <2>4. Below(s)' \subseteq Below(s)
    BY <1>1, <1>2 DEF Below
  <2>5. s # x => Counting(s) \subseteq Counting(s)'
    BY <1>2 DEF Counting
  <2> QED
    BY <1>1, <2>1, <2>2, <2>3, <2>4, <2>5, SlotKeeps
<1> QED
  BY <1>3

\* Before the first request no code has been compared.
LEMMA GuessesInitially == Init => GInv
<1> SUFFICES ASSUME Init PROVE GInv
  OBVIOUS
<1>1. IInv
  BY AuthAssumption DEF Init, IInv, TypeOK, AccountRow, SessionRow, RequestState,
     AccountStatus, Phase, Steps, FreeSession, IdleRequest, ApprovedFirst,
     BeforeCheck, NoSessionBeforeApproval, Owned, VersionsBehind,
     CountedOutIsLocked
<1>2. ASSUME NEW s \in Sessions PROVE GuessesCounted(s)
  <2>1. /\ MaxMfa \in Nat /\ MaxMfa >= 1 /\ Cardinality(Requests) \in Nat
        /\ Cardinality(Counting(s)) \in Nat
    BY <1>1, CounterTypes, Checkers DEF IInv
  <2>2. Below(s) = {} /\ session[s].checks = 0 /\ session[s].attempts = 0
    BY DEF Init, Below, IdleRequest, FreeSession
  <2>3. Cardinality({}) = 0
    BY FS_EmptySet
  <2> QED
    BY <2>1, <2>2, <2>3 DEF GuessesCounted
<1> QED
  BY <1>1, <1>2 DEF GInv

\* Every step keeps the account of the guesses.
LEMMA GuessesStep == GInv /\ [Next]_vars => GInv'
<1> SUFFICES ASSUME GInv, [Next]_vars PROVE GInv'
  OBVIOUS
<1>1. IInv /\ IInv' /\ TypeOK /\ TypeOK'
  <2>1. IInv
    BY DEF GInv
  <2>2. IInv'
    BY <2>1, StepEffects, EffectsKeep DEF Effects
  <2> QED
    BY <2>1, <2>2 DEF IInv
<1> DEFINE Kept == \A s \in Sessions : GuessesCounted(s)'
<1>2. ASSUME NoCheck, \A s \in Sessions : RowCounts(s) PROVE Kept
  BY <1>1, <1>2, OtherSteps
<1>3. ASSUME NEW r \in Requests, NEW s \in Sessions, CompleteDevMfa(r, s) PROVE Kept
  BY <1>1, <1>3, BeginsCheck
<1>4. ASSUME NEW r \in Requests, FactorChecked(r) PROVE Kept
  BY <1>1, <1>4, ChecksCode
<1>5. ASSUME NEW r \in Requests, IncrementMfaFailure(r) PROVE Kept
  BY <1>1, <1>5, CountsCode
<1>6. ASSUME NEW r \in Requests, RevokeMfaLimit(r) \/ RevokePending(r) PROVE Kept
  BY <1>1, <1>6, EndsCheck
<1>7. ASSUME \/ NewPreAuth \/ LockElapses \/ UNCHANGED vars
             \/ \E r \in Requests :
                  \/ UseSession(r) \/ Administer(r)
                  \/ \E s \in Sessions : PasswordLogin(r, s)
                  \/ PasswordChecked(r) \/ RegisterLoginFailure(r) \/ RevokePreAuth(r)
                  \/ CreatePending(r) \/ CreateAuthenticated(r) \/ ResetLoginFailures(r)
      PROVE  Kept
  <2>1. NoCheck /\ \A s \in Sessions : RowCounts(s)
    BY <1>1, <1>7, OutsideChecks
  <2> QED
    BY <1>2, <2>1
<1> HIDE DEF Kept
<1>8. Kept
  BY <1>3, <1>4, <1>5, <1>6, <1>7 DEF Next, SignIn
<1> QED
  BY <1>1, <1>8 DEF GInv, Kept

\* One pending sign-in compares at most MaxMfa codes and one more for every
\* other request in flight (complete_dev_mfa, increment_mfa_failure), although
\* the limit is compared with a counter that was read before.
THEOREM GuessesAreBounded == Spec => []MfaGuessesBounded
<1>1. GInv => MfaGuessesBounded
  <2> SUFFICES ASSUME GInv, NEW s \in Sessions
               PROVE  session[s].checks <= MaxMfa + Cardinality(Requests) - 1
    BY DEF MfaGuessesBounded
  <2>1. TypeOK /\ GuessesCounted(s)
    BY DEF GInv, IInv
  <2>2. /\ session[s].checks \in Nat /\ Cardinality(Below(s)) \in Nat
        /\ MaxMfa \in Nat /\ Cardinality(Requests) \in Nat
    BY <2>1, CounterTypes, Checkers
  <2> QED
    BY <2>1, <2>2 DEF GuessesCounted
<1> QED
  BY <1>1, GuessesInitially, GuessesStep, PTL DEF Spec

=============================================================================
