----------------------------- MODULE SwitchAudit -----------------------------
(***************************************************************************)
(* The audit of the switch over REST. A request looks for an active run of *)
(* the user, inserts one when there is none and starts a daemon thread;    *)
(* the thread resolves the adapter, opens one REST session on the device,  *)
(* reads the fixed GETs, logs out, judges N-01..N-38 and writes the result *)
(* (application/switch_audit_service.py, platforms/aruba_rest.py,          *)
(* persistence/database/switch_audit_repository.py, apps/api/              *)
(* switch_audit.py). Every row and event is written in a transaction of    *)
(* its own, and any of them may fail.                                      *)
(*                                                                         *)
(* One organization and its one registered switch.                         *)
(***************************************************************************)
EXTENDS NetworkControls, Sequences

CONSTANTS
  Runs, Users, None,
  Profiles,      \* criteria the page may send
  Answers,       \* what the GETs of the device may return
  Version,       \* the registered platform version of the switch
  Username,      \* the account the user enters
  EventTypes,    \* the types the CHECK of switch_audit_events admits
  MaxFaults,     \* failures of the device, the network or the database
  MaxCrashes     \* restarts of the API process

ASSUME SwitchAssumption == None \notin Runs /\ MaxFaults \in Nat /\ MaxCrashes \in Nat

\* Every GET fills its part of the answers, and a setting it omits is there as
\* "unset" or NoNumber.
AnswerFields ==
  {"supportedApi", "currentGroup", "vrfs", "interfaces", "users", "groups", "snmpUsers", "syslogs",
   "ntpEnabled", "ntpVrf", "ntpServers", "v3Only", "communities", "dnsServers", "banner", "system"}
SystemFields ==
  {"complexity", "attempts", "allowlist", "allowed", "cliTimeout", "webTimeout", "ssh", "usbOff",
   "timestamps", "copp", "cdp", "unreachableOff", "redirectOff"}
ASSUME AnswersAssumption ==
  \A a \in Answers : AnswerFields = DOMAIN a /\ SystemFields = DOMAIN a.system

VARIABLES
  runs,      \* switch_audit_runs
  events,    \* switch_audit_events of each run, by sequence
  thread,    \* _run_switch_audit
  session,   \* the REST session of each run on the device
  starter,   \* start_switch_audit of each user
  count      \* faults and crashes so far

switchVars == <<runs, events, thread, session, starter, count>>

ActiveRuns == {r \in Runs : runs[r].status \in {"QUEUED", "RUNNING"}}
NoRun == [status |-> "NONE", owner |-> None, result |-> <<>>, error |-> "NONE"]
NoThread == [pc |-> "none", profile |-> None, loggedIn |-> FALSE, privilege |-> -1,
             answers |-> <<>>, error |-> "NONE"]

SwitchInit ==
  /\ runs = [r \in Runs |-> NoRun]
  /\ events = [r \in Runs |-> <<>>]
  /\ thread = [r \in Runs |-> NoThread]
  /\ session = [r \in Runs |-> "none"]
  /\ starter = [u \in Users |-> [pc |-> "idle", run |-> None, profile |-> None]]
  /\ count = [faults |-> 0, crashes |-> 0]

-----------------------------------------------------------------------------
(* Starting a run *)

\* The owner's active run is looked up first; row security hides the others'.
FindActiveRun(u, profile) ==
  /\ starter[u].pc = "idle"
  /\ NetworkProfileAccepted(profile)
  /\ LET own == {r \in ActiveRuns : runs[r].owner = u}
     IN starter' = [starter EXCEPT ![u] =
          IF own = {} THEN [pc |-> "insert", run |-> None, profile |-> profile]
          ELSE [pc |-> "reused", run |-> CHOOSE r \in own : TRUE, profile |-> profile]]
  /\ UNCHANGED <<runs, events, thread, session, count>>

\* uq_switch_audit_one_active: one active run per organization and switch.
InsertRun(u, r) ==
  /\ starter[u].pc = "insert"
  /\ runs[r].status = "NONE"
  /\ IF ActiveRuns # {}
       THEN /\ starter' = [starter EXCEPT ![u].pc = "conflict"]
            /\ UNCHANGED runs
       ELSE /\ runs' = [runs EXCEPT ![r] = [NoRun EXCEPT !.status = "QUEUED", !.owner = u]]
            /\ starter' = [starter EXCEPT ![u].pc = "start", ![u].run = r]
  /\ UNCHANGED <<events, thread, session, count>>

StartThread(u) ==
  /\ starter[u].pc = "start"
  /\ thread' = [thread EXCEPT ![starter[u].run] =
                  [NoThread EXCEPT !.pc = "mark", !.profile = starter[u].profile]]
  /\ starter' = [starter EXCEPT ![u].pc = "answered"]
  /\ UNCHANGED <<runs, events, session, count>>

\* The page polls the status of its run, and may start another once it ended.
PollEnded(u) ==
  /\ starter[u].pc \in {"answered", "reused", "conflict"}
  /\ starter[u].run # None => runs[starter[u].run].status \in {"COMPLETED", "FAILED"}
  /\ starter' = [starter EXCEPT ![u] = [pc |-> "idle", run |-> None, profile |-> None]]
  /\ UNCHANGED <<runs, events, thread, session, count>>

-----------------------------------------------------------------------------
(* The thread: transactions *)

Goto(r, pc) == thread' = [thread EXCEPT ![r].pc = pc]
Raise(r, code) == thread' = [thread EXCEPT ![r].pc = "failRow", ![r].error = code]

MarkRunning(r) ==
  /\ thread[r].pc = "mark"
  /\ runs' = IF runs[r].status = "QUEUED" THEN [runs EXCEPT ![r].status = "RUNNING"] ELSE runs
  /\ Goto(r, "eventStarted")
  /\ UNCHANGED <<events, session, starter, count>>

\* append_switch_audit_event locks the run's row and takes the next sequence. A
\* type the CHECK does not admit is an IntegrityError like any other failure.
EventAt(pc) ==
  CASE pc = "eventStarted" -> [type |-> "RUN_STARTED", next |-> "resolve"]
    [] pc = "eventIdentified" -> [type |-> "PLATFORM_IDENTIFIED", next |-> "login"]
    [] pc = "eventCompleted" -> [type |-> "RUN_COMPLETED", next |-> "done"]
    [] pc = "eventFailed" -> [type |-> "RUN_FAILED", next |-> "done"]
    [] OTHER -> [type |-> None, next |-> None]

AfterFailure(pc) == IF pc \in {"failRow", "eventFailed"} THEN "dead" ELSE "failRow"

AppendEvent(r) ==
  LET event == EventAt(thread[r].pc)
  IN /\ event.type # None
     /\ IF event.type \in EventTypes
          THEN /\ events' = [events EXCEPT ![r] = Append(@, event.type)]
               /\ Goto(r, event.next)
          ELSE /\ thread' = [thread EXCEPT ![r].pc = AfterFailure(@),
                                           ![r].error = "SWITCH_AUDIT_FAILED"]
               /\ UNCHANGED events
     /\ UNCHANGED <<runs, session, starter, count>>

\* finish_switch_audit_run: only an active run ends; a result once stored stays.
FinishRowAgain(row, status, result, error) ==
  [row EXCEPT !.status = status, !.error = error, !.result = IF result = <<>> THEN @ ELSE result]
FinishRow(row, status, result, error) ==
  IF row.status \in {"QUEUED", "RUNNING"}
    THEN [row EXCEPT !.status = status, !.error = error,
                     !.result = IF result = <<>> THEN @ ELSE result]
    ELSE row

FinishCompleted(r) ==
  /\ thread[r].pc = "finish"
  /\ LET facts == BuildFacts(thread[r].answers[1], thread[r].privilege, Username)
     IN runs' = [runs EXCEPT ![r] =
          FinishRow(@, "COMPLETED", <<EvaluateAll(facts, thread[r].profile)>>, "NONE")]
  /\ Goto(r, "eventCompleted")
  /\ UNCHANGED <<events, session, starter, count>>

FinishFailed(r) ==
  /\ thread[r].pc = "failRow"
  /\ runs' = [runs EXCEPT ![r] = FinishRow(@, "FAILED", <<>>, thread[r].error)]
  /\ Goto(r, "eventFailed")
  /\ UNCHANGED <<events, session, starter, count>>

\* A transaction fails. In an except clause nothing is left to catch it.
DatabaseFails(r) ==
  /\ count.faults < MaxFaults
  /\ thread[r].pc \in {"mark", "eventStarted", "eventIdentified", "finish", "eventCompleted",
                       "failRow", "eventFailed"}
  /\ thread' = [thread EXCEPT ![r].pc = AfterFailure(@), ![r].error = "SWITCH_AUDIT_FAILED"]
  /\ count' = [count EXCEPT !.faults = @ + 1]
  /\ UNCHANGED <<runs, events, session, starter>>

ResolvePlatform(r) ==
  /\ thread[r].pc = "resolve"
  /\ LET adapter == ResolveAdapter(SupportCatalog, DiscoverSwitch(Version, {"HTTPS_REST"}))
     IN IF adapter \in ResolutionErrors
          THEN Raise(r, "SWITCH_AUDIT_FAILED") ELSE Goto(r, "eventIdentified")
  /\ UNCHANGED <<runs, events, session, starter, count>>

-----------------------------------------------------------------------------
(* The thread: the REST session *)

Fault == count' = [count EXCEPT !.faults = @ + 1]

Login(r) ==
  /\ thread[r].pc = "login"
  /\ session' = [session EXCEPT ![r] = "open"]
  /\ \E privilege \in {-1, 15} :
       thread' = [thread EXCEPT ![r].pc = "get", ![r].loggedIn = TRUE, ![r].privilege = privilege]
  /\ UNCHANGED <<runs, events, starter, count>>

\* The certificate pin, the connection or the login fails: nothing is open. The
\* codes differ and are handled alike.
LoginRefused(r) ==
  /\ thread[r].pc = "login" /\ count.faults < MaxFaults
  /\ Raise(r, "CONNECTION_FAILED")
  /\ Fault /\ UNCHANGED <<runs, events, session, starter>>

\* The device opened a session and its answer has no usable cookie. Without the
\* "id" cookie the thread is not logged in and the session is left open.
LoginUnusable(r) ==
  /\ thread[r].pc = "login" /\ count.faults < MaxFaults
  /\ session' = [session EXCEPT ![r] = "open"]
  /\ \E idCookie \in BOOLEAN :
       thread' = [thread EXCEPT ![r].pc = "exit", ![r].loggedIn = idCookie,
                    ![r].error = IF idCookie THEN "INSUFFICIENT_PRIVILEGE" ELSE "INVALID_AUTH_RESPONSE"]
  /\ Fault /\ UNCHANGED <<runs, events, starter>>

GetAnswers(r) ==
  /\ thread[r].pc = "get"
  /\ \E answers \in Answers :
       thread' = [thread EXCEPT ![r].pc = "logout", ![r].answers = <<answers>>]
  /\ UNCHANGED <<runs, events, session, starter, count>>

GetFails(r) ==
  /\ thread[r].pc = "get" /\ count.faults < MaxFaults
  /\ thread' = [thread EXCEPT ![r].pc = "exit", ![r].error = "GET_FAILED"]
  /\ Fault /\ UNCHANGED <<runs, events, session, starter>>

Logout(r) ==
  /\ thread[r].pc = "logout"
  /\ session' = [session EXCEPT ![r] = "closed"]
  /\ thread' = [thread EXCEPT ![r].pc = "project", ![r].loggedIn = FALSE]
  /\ UNCHANGED <<runs, events, starter, count>>

\* An answer other than 200 forgets the session; a lost one leaves the thread
\* logged in, and __exit__ tries again. Either way the answers are lost.
LogoutFails(r) ==
  /\ thread[r].pc = "logout" /\ count.faults < MaxFaults
  /\ \E answered \in BOOLEAN :
       thread' = [thread EXCEPT ![r].pc = "exit", ![r].loggedIn = ~answered,
                    ![r].error = IF answered THEN "LOGOUT_FAILED" ELSE "TIMEOUT"]
  /\ Fault /\ UNCHANGED <<runs, events, session, starter>>

\* __exit__ logs out when logged in and ignores how that goes.
ExitSession(r) ==
  /\ thread[r].pc = "exit"
  /\ thread' = [thread EXCEPT ![r].pc = "failRow", ![r].loggedIn = FALSE]
  /\ IF ~thread[r].loggedIn
       THEN UNCHANGED <<session, count>>
       ELSE \/ session' = [session EXCEPT ![r] = "closed"] /\ UNCHANGED count
            \/ count.faults < MaxFaults /\ Fault /\ UNCHANGED session
  /\ UNCHANGED <<runs, events, starter>>

\* _build_projection and the check of SW-01.
Project(r) ==
  /\ thread[r].pc = "project"
  /\ LET answers == thread[r].answers[1]
     IN IF ~answers.supportedApi THEN Raise(r, "UNSUPPORTED_API_VERSION")
        ELSE IF ~AdministratorAuthenticated(answers, thread[r].privilege, Username)
          THEN Raise(r, "INSUFFICIENT_PRIVILEGE")
        ELSE Goto(r, "finish")
  /\ UNCHANGED <<runs, events, session, starter, count>>

\* The API process restarts: its threads are gone and nothing takes over.
SwitchCrash ==
  /\ count.crashes < MaxCrashes
  /\ thread' = [r \in Runs |-> [thread[r] EXCEPT !.pc = IF @ = "none" THEN @ ELSE "dead"]]
  /\ starter' = [u \in Users |-> [pc |-> "idle", run |-> None, profile |-> None]]
  /\ count' = [count EXCEPT !.crashes = @ + 1]
  /\ UNCHANGED <<runs, events, session>>

ThreadStep(r) ==
  \/ MarkRunning(r) \/ AppendEvent(r) \/ ResolvePlatform(r)
  \/ Login(r) \/ LoginRefused(r) \/ LoginUnusable(r) \/ GetAnswers(r) \/ GetFails(r)
  \/ Logout(r) \/ LogoutFails(r) \/ ExitSession(r) \/ Project(r)
  \/ FinishCompleted(r) \/ FinishFailed(r) \/ DatabaseFails(r)

SwitchNext ==
  \/ \E u \in Users, p \in Profiles : FindActiveRun(u, p)
  \/ \E u \in Users, r \in Runs : InsertRun(u, r)
  \/ \E u \in Users : StartThread(u) \/ PollEnded(u)
  \/ \E r \in Runs : ThreadStep(r)
  \/ SwitchCrash
=============================================================================
