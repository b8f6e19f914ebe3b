---------------------------- MODULE DeviceProofs ----------------------------
(***************************************************************************)
(* Proofs about the audit of a registered device and about the streams     *)
(* that explain its results.                                               *)
(*                                                                         *)
(* First DeviceAssessment, for every number of runs, users, faults and     *)
(* restarts and for every answer and output a device may give; then        *)
(* DeviceAiStream, for every number of requests, cancellations and         *)
(* controls and for every limit of provider failures. The two keep no      *)
(* state in common: a stream reads a result that is stored already.        *)
(***************************************************************************)
EXTENDS DeviceAssessment, DeviceAiStream, TLAPS

-----------------------------------------------------------------------------
(* The audit of the switch.                                                *)

ThreadPcs ==
  {"none", "mark", "eventStarted", "resolve", "eventIdentified", "login", "get", "logout", "exit",
   "project", "finish", "eventCompleted", "failRow", "eventFailed", "done", "dead"}
RunStatuses == {"NONE", "QUEUED", "RUNNING", "COMPLETED", "FAILED"}
Verdict(answers, privilege, profile) ==
  EvaluateAll(BuildFacts(answers, privilege, Username), profile)
Results ==
  {<<>>} \cup {<<Verdict(a, p, q)>> : a \in Answers, p \in {-1, 15}, q \in Profiles \cup {None}}

ErrorCodes ==
  {"NONE", "SWITCH_AUDIT_FAILED", "CONNECTION_FAILED", "INSUFFICIENT_PRIVILEGE",
   "INVALID_AUTH_RESPONSE", "GET_FAILED", "LOGOUT_FAILED", "TIMEOUT", "UNSUPPORTED_API_VERSION"}
Logged == {"RUN_STARTED", "PLATFORM_IDENTIFIED", "RUN_COMPLETED", "RUN_FAILED"}

RunRow == [status : RunStatuses, owner : Users \cup {None}, result : Results, error : ErrorCodes]
ThreadRow ==
  [pc : ThreadPcs, profile : Profiles \cup {None}, loggedIn : BOOLEAN, privilege : {-1, 15},
   answers : {<<>>} \cup {<<a>> : a \in Answers}, error : ErrorCodes]
StarterRow ==
  [pc : {"idle", "insert", "reused", "conflict", "start", "answered"}, run : Runs \cup {None},
   profile : Profiles \cup {None}]

SwitchTypeOK ==
  /\ runs \in [Runs -> RunRow]
  /\ events \in [Runs -> Seq(Logged)]
  /\ thread \in [Runs -> ThreadRow]
  /\ session \in [Runs -> {"none", "open", "closed"}]
  /\ starter \in [Users -> StarterRow]
  /\ count \in [faults : Nat, crashes : Nat]

\* How far a thread is, and what its row says then.
StatusAt(pc) ==
  CASE pc = "none" -> {"NONE", "QUEUED"}
    [] pc = "eventCompleted" -> {"COMPLETED"}
    [] pc = "failRow" -> {"QUEUED", "RUNNING", "COMPLETED"}
    [] pc = "eventFailed" -> {"COMPLETED", "FAILED"}
    [] pc \in {"done", "dead"} -> {"QUEUED", "RUNNING", "COMPLETED", "FAILED"}
    [] OTHER -> {"QUEUED", "RUNNING"}

\* The session a thread has at a place where nothing has gone wrong.
SessionAt(pc) ==
  CASE pc \in {"none", "mark", "eventStarted", "resolve", "eventIdentified", "login"} -> {"none"}
    [] pc \in {"get", "logout"} -> {"open"}
    [] pc \in {"project", "finish", "eventCompleted"} -> {"closed"}
    [] OTHER -> {"none", "open", "closed"}

Completed(row, t, s) ==
  /\ s = "closed"
  /\ t.answers # <<>>
  /\ row.result = <<Verdict(t.answers[1], t.privilege, t.profile)>>

RunInv(row, log, t, s, bad) ==
  /\ row.status \in StatusAt(t.pc)
  /\ s \in SessionAt(t.pc)
  /\ s = "open" => t.pc \in {"get", "logout"} \/ bad > 0
  /\ t.pc \in {"logout", "project", "finish"} => t.answers # <<>>
  /\ row.status = "COMPLETED" => Completed(row, t, s)
  /\ row.status # "COMPLETED" => row.result = <<>>
  /\ "RUN_COMPLETED" \in {log[i] : i \in DOMAIN log} => row.status = "COMPLETED"

Bad == count.faults + count.crashes
RunsWhole == \A r \in Runs : RunInv(runs[r], events[r], thread[r], session[r], Bad)

\* A request about to start a thread has a run of its own that waits for it.
StartersOwn ==
  \A u \in Users : starter[u].pc = "start" =>
    /\ starter[u].run \in Runs
    /\ runs[starter[u].run].status = "QUEUED"
    /\ thread[starter[u].run].pc = "none"
    /\ \A v \in Users : starter[v].pc = "start" /\ starter[v].run = starter[u].run => u = v

SwitchInv == SwitchTypeOK /\ RunsWhole /\ StartersOwn

\* What a step of the thread of run r leaves alone: the other runs, and the
\* requests that start runs.
StepOf(r) ==
  /\ runs' \in [Runs -> RunRow] /\ events' \in [Runs -> Seq(Logged)]
  /\ thread' \in [Runs -> ThreadRow] /\ session' \in [Runs -> {"none", "open", "closed"}]
  /\ \A q \in Runs \ {r} : /\ runs'[q] = runs[q] /\ events'[q] = events[q]
                           /\ thread'[q] = thread[q] /\ session'[q] = session[q]
  /\ count' \in [faults : Nat, crashes : Nat] /\ Bad' >= Bad
  /\ UNCHANGED starter

\* A step of one thread that keeps its own run whole keeps the invariant.
LEMMA StepKeeps ==
  ASSUME SwitchInv, NEW r \in Runs, StepOf(r), thread[r].pc # "none",
         RunInv(runs[r], events[r], thread[r], session[r], Bad)'
  PROVE  SwitchInv'
<1>1. SwitchTypeOK'
  BY DEF SwitchInv, SwitchTypeOK, StepOf
<1>2. Bad \in Nat /\ Bad' \in Nat
  BY <1>1 DEF SwitchInv, SwitchTypeOK, Bad
<1>3. ASSUME NEW q \in Runs PROVE RunInv(runs[q], events[q], thread[q], session[q], Bad)'
  <2>1. CASE q = r
    BY <2>1
  <2>2. CASE q # r
    <3>1. RunInv(runs[q], events[q], thread[q], session[q], Bad)
      BY DEF SwitchInv, RunsWhole
    <3>2. RunInv(runs[q], events[q], thread[q], session[q], Bad')
      BY <1>2, <3>1 DEF RunInv, StepOf
    <3> QED
      BY <2>2, <3>2 DEF StepOf
  <2> QED
    BY <2>1, <2>2
<1>4. StartersOwn'
  <2>1. \A u \in Users : starter[u].pc = "start" => starter[u].run # r
    BY DEF SwitchInv, StartersOwn
  <2> QED
    BY <2>1 DEF SwitchInv, StartersOwn, StepOf
<1> QED
  BY <1>1, <1>3, <1>4 DEF SwitchInv, RunsWhole

\* The facts every step of a thread starts from.
LEMMA RunFacts ==
  ASSUME SwitchInv, NEW r \in Runs
  PROVE  /\ runs[r] \in RunRow /\ events[r] \in Seq(Logged) /\ thread[r] \in ThreadRow
         /\ session[r] \in {"none", "open", "closed"}
         /\ RunInv(runs[r], events[r], thread[r], session[r], Bad)
         /\ Bad \in Nat
  BY DEF SwitchInv, SwitchTypeOK, RunsWhole, Bad

\* A step that moves the thread and writes neither its row nor its events.
LEMMA MoveKeeps ==
  ASSUME SwitchInv, NEW r \in Runs, NEW t \in ThreadRow, NEW s \in {"none", "open", "closed"},
         thread[r].pc # "none",
         thread' = [thread EXCEPT ![r] = t], session' = [session EXCEPT ![r] = s],
         UNCHANGED <<runs, events, starter>>,
         count' \in [faults : Nat, crashes : Nat], Bad' >= Bad,
         runs[r].status \in StatusAt(t.pc),
         s \in SessionAt(t.pc),
         s = "open" => t.pc \in {"get", "logout"} \/ Bad' > 0,
         t.pc \in {"logout", "project", "finish"} => t.answers # <<>>,
         runs[r].status = "COMPLETED" =>
           /\ s = session[r] /\ t.answers = thread[r].answers
           /\ t.privilege = thread[r].privilege /\ t.profile = thread[r].profile
  PROVE  SwitchInv'
<1>1. StepOf(r)
  BY DEF SwitchInv, SwitchTypeOK, StepOf
<1>2. thread'[r] = t /\ session'[r] = s /\ runs'[r] = runs[r] /\ events'[r] = events[r]
  BY DEF SwitchInv, SwitchTypeOK
<1>3. RunInv(runs[r], events[r], t, s, Bad')
  BY RunFacts DEF RunInv, Completed
<1>4. RunInv(runs[r], events[r], thread[r], session[r], Bad)'
  BY <1>2, <1>3
<1> QED
  BY <1>1, <1>4, StepKeeps

\* A thread that only goes to another place.
LEMMA NextPlace ==
  ASSUME SwitchInv, NEW r \in Runs, NEW pc \in ThreadPcs, thread' = [thread EXCEPT ![r].pc = pc]
  PROVE  /\ thread' \in [Runs -> ThreadRow] /\ \A q \in Runs \ {r} : thread'[q] = thread[q]
         /\ thread'[r].pc = pc /\ thread'[r].answers = thread[r].answers
         /\ thread'[r].privilege = thread[r].privilege /\ thread'[r].profile = thread[r].profile
  BY DEF SwitchInv, SwitchTypeOK, ThreadRow

\* The places of the thread before it opens its session.
LEMMA MarkRunningKeeps == ASSUME SwitchInv, NEW r \in Runs, MarkRunning(r) PROVE SwitchInv'
<1>1. /\ thread[r].pc = "mark"
      /\ runs' = IF runs[r].status = "QUEUED" THEN [runs EXCEPT ![r].status = "RUNNING"] ELSE runs
      /\ thread' = [thread EXCEPT ![r].pc = "eventStarted"]
      /\ UNCHANGED <<events, session, starter, count>>
  BY DEF MarkRunning, Goto
<1>2. runs[r].status \in {"QUEUED", "RUNNING"}
  BY <1>1, RunFacts DEF RunInv, StatusAt
<1>3. StepOf(r)
  <2>1. runs' \in [Runs -> RunRow] /\ \A q \in Runs \ {r} : runs'[q] = runs[q]
    BY <1>1 DEF SwitchInv, SwitchTypeOK, RunRow, RunStatuses
  <2>2. thread' \in [Runs -> ThreadRow] /\ \A q \in Runs \ {r} : thread'[q] = thread[q]
    BY <1>1, NextPlace DEF ThreadPcs
  <2> QED
    BY <1>1, <2>1, <2>2 DEF SwitchInv, SwitchTypeOK, StepOf, Bad
<1>4. /\ thread'[r].pc = "eventStarted" /\ runs'[r].status \in {"QUEUED", "RUNNING"}
      /\ runs'[r].result = runs[r].result /\ events'[r] = events[r] /\ session'[r] = session[r]
  BY <1>1, <1>2 DEF SwitchInv, SwitchTypeOK, RunRow, ThreadRow
<1>5. RunInv(runs[r], events[r], thread[r], session[r], Bad)'
  BY <1>1, <1>2, <1>4, RunFacts DEF RunInv, StatusAt, SessionAt, Bad
<1> QED
  BY <1>1, <1>3, <1>5, StepKeeps

\* The event of a thread follows its row: RUN_COMPLETED is written for a run
\* that is COMPLETED already.
LEMMA AppendEventKeeps == ASSUME SwitchInv, NEW r \in Runs, AppendEvent(r) PROVE SwitchInv'
<1> DEFINE event == EventAt(thread[r].pc)
<1>1. thread[r].pc \in {"eventStarted", "eventIdentified", "eventCompleted", "eventFailed"}
  BY DEF AppendEvent, EventAt
<1>2. /\ event.type \in Logged
      /\ event.next \in ThreadPcs
      /\ event.type = "RUN_COMPLETED" => thread[r].pc = "eventCompleted"
  <2>1. CASE thread[r].pc = "eventStarted"
    BY <2>1 DEF EventAt, ThreadPcs, Logged
  <2>2. CASE thread[r].pc = "eventIdentified"
    BY <2>2 DEF EventAt, ThreadPcs, Logged
  <2>3. CASE thread[r].pc = "eventCompleted"
    BY <2>3 DEF EventAt, ThreadPcs, Logged
  <2>4. CASE thread[r].pc = "eventFailed"
    BY <2>4 DEF EventAt, ThreadPcs, Logged
  <2> QED
    BY <1>1, <2>1, <2>2, <2>3, <2>4
<1>3. CASE event.type \in EventTypes
  <2>1. /\ events' = [events EXCEPT ![r] = Append(@, event.type)]
        /\ thread' = [thread EXCEPT ![r].pc = event.next]
        /\ UNCHANGED <<runs, session, starter, count>>
    BY <1>3 DEF AppendEvent, Goto
  <2>2. StepOf(r)
    <3> HIDE DEF event
    <3>1. thread' \in [Runs -> ThreadRow] /\ \A q \in Runs \ {r} : thread'[q] = thread[q]
      BY <1>2, <2>1, NextPlace
    <3>2. events' \in [Runs -> Seq(Logged)] /\ \A q \in Runs \ {r} : events'[q] = events[q]
      BY <1>2, <2>1 DEF SwitchInv, SwitchTypeOK
    <3> QED
      BY <2>1, <3>1, <3>2 DEF SwitchInv, SwitchTypeOK, StepOf, Bad
  <2>3. /\ thread'[r] = [thread[r] EXCEPT !.pc = event.next]
        /\ events'[r] = Append(events[r], event.type)
    BY <2>1 DEF SwitchInv, SwitchTypeOK
  <2>4. /\ thread'[r].pc = event.next /\ thread'[r].answers = thread[r].answers
        /\ thread'[r].privilege = thread[r].privilege /\ thread'[r].profile = thread[r].profile
    BY <1>2, <2>1, NextPlace
  <2>5. "RUN_COMPLETED" \in {events'[r][i] : i \in DOMAIN events'[r]} => runs[r].status = "COMPLETED"
    <3>1. ASSUME "RUN_COMPLETED" \in {events'[r][i] : i \in DOMAIN events'[r]}
          PROVE  \/ "RUN_COMPLETED" \in {events[r][i] : i \in DOMAIN events[r]}
                 \/ event.type = "RUN_COMPLETED"
      BY <1>2, <2>3, <3>1, RunFacts
    <3>2. thread[r].pc = "eventCompleted" => runs[r].status = "COMPLETED"
      BY RunFacts DEF RunInv, StatusAt
    <3> QED
      BY <1>2, <3>1, <3>2, RunFacts DEF RunInv
  <2>6. /\ runs[r].status \in StatusAt(event.next) /\ session[r] \in SessionAt(event.next)
        /\ event.next \notin {"get", "logout", "project", "finish"}
        /\ thread[r].pc \notin {"get", "logout"}
    BY <1>1, RunFacts DEF RunInv, StatusAt, SessionAt, EventAt
  <2>7. RunInv(runs[r], events[r], thread[r], session[r], Bad)'
    <3> HIDE DEF event
    <3> QED
    BY <2>1, <2>4, <2>5, <2>6, RunFacts DEF RunInv, Completed, Bad
  <2> QED
    BY <1>1, <2>2, <2>7, StepKeeps
<1>4. CASE event.type \notin EventTypes
  <2> DEFINE t == [thread[r] EXCEPT !.pc = AfterFailure(@), !.error = "SWITCH_AUDIT_FAILED"]
  <2>1. thread' = [thread EXCEPT ![r] = t] /\ UNCHANGED <<runs, events, session, starter, count>>
    BY <1>4 DEF AppendEvent
  <2>2. t \in ThreadRow /\ t.pc = AfterFailure(thread[r].pc)
        /\ t.answers = thread[r].answers
        /\ t.privilege = thread[r].privilege /\ t.profile = thread[r].profile
    BY RunFacts DEF ThreadRow, ThreadPcs, ErrorCodes, AfterFailure
  <2>3. session' = [session EXCEPT ![r] = session[r]] /\ count' = count
    BY <2>1 DEF SwitchInv, SwitchTypeOK
  <2>4. /\ runs[r].status \in StatusAt(t.pc) /\ session[r] \in SessionAt(t.pc)
        /\ t.pc \in {"failRow", "dead"}
    BY <1>1, <2>2, RunFacts DEF RunInv, StatusAt, SessionAt, AfterFailure
  <2>5. session[r] = "open" => Bad' > 0
    BY <1>1, <2>3, RunFacts DEF RunInv, SessionAt, Bad
  <2>6. count' \in [faults : Nat, crashes : Nat] /\ Bad' >= Bad
    BY <2>3 DEF SwitchInv, SwitchTypeOK, Bad
  <2> HIDE DEF t
  <2> QED
    BY <1>1, <2>1, <2>2, <2>3, <2>4, <2>5, <2>6, RunFacts, MoveKeeps
<1> QED
  BY <1>3, <1>4

\* A failure of the device, the network or the database is counted.
LEMMA Faulty ==
  ASSUME SwitchInv, count' = [count EXCEPT !.faults = @ + 1]
  PROVE  count' \in [faults : Nat, crashes : Nat] /\ Bad' >= Bad /\ Bad' > 0
<1>1. /\ count \in [faults : Nat, crashes : Nat]
  BY DEF SwitchInv, SwitchTypeOK
<1>2. count'.faults = count.faults + 1 /\ count'.crashes = count.crashes
      /\ count' \in [faults : Nat, crashes : Nat]
  BY <1>1
<1> QED
  BY <1>1, <1>2 DEF Bad

\* A step that leaves the counters alone spends no fault and no crash.
LEMMA NotFaulty ==
  ASSUME SwitchInv, UNCHANGED count
  PROVE  count' \in [faults : Nat, crashes : Nat] /\ Bad' >= Bad /\ Bad' = Bad
  BY DEF SwitchInv, SwitchTypeOK, Bad

\* A step that leaves the sessions alone leaves the one of this run alone.
LEMMA SameSession ==
  ASSUME SwitchInv, NEW r \in Runs, UNCHANGED session
  PROVE  session' = [session EXCEPT ![r] = session[r]]
  BY DEF SwitchInv, SwitchTypeOK

\* What is known of a run whose thread works: its row is active, and its session
\* is the one of this place.
LEMMA WorkFacts ==
  ASSUME SwitchInv, NEW r \in Runs,
         thread[r].pc \in {"mark", "eventStarted", "resolve", "eventIdentified", "login", "get",
                           "logout", "exit", "project", "finish"}
  PROVE  /\ runs[r].status \in {"QUEUED", "RUNNING"}
         /\ session[r] \in SessionAt(thread[r].pc)
         /\ thread[r].pc = "exit" /\ session[r] = "open" => Bad > 0
  BY RunFacts DEF RunInv, StatusAt, SessionAt

\* An active run may be anywhere at work, or in the except clause.
LEMMA ActiveAnywhere ==
  ASSUME NEW r \in Runs, runs[r].status \in {"QUEUED", "RUNNING"}
  PROVE  \A pc \in ThreadPcs \ {"none", "eventCompleted", "eventFailed"} : runs[r].status \in StatusAt(pc)
  BY DEF StatusAt, ThreadPcs

\* resolve_platform reads the profile; it fails or goes on to the sign-in.
LEMMA ResolvePlatformKeeps == ASSUME SwitchInv, NEW r \in Runs, ResolvePlatform(r) PROVE SwitchInv'
<1> USE DEF ThreadPcs
<1>1. thread[r].pc = "resolve" /\ UNCHANGED <<runs, events, session, starter, count>>
  BY DEF ResolvePlatform
<1>2. session[r] = "none" /\ runs[r].status \in {"QUEUED", "RUNNING"}
  BY <1>1, WorkFacts DEF SessionAt
<1>3. CASE Raise(r, "SWITCH_AUDIT_FAILED")
  <2> DEFINE t == [thread[r] EXCEPT !.pc = "failRow", !.error = "SWITCH_AUDIT_FAILED"]
  <2>1. thread' = [thread EXCEPT ![r] = t] /\ t \in ThreadRow /\ t.pc = "failRow"
    BY <1>3, RunFacts DEF Raise, ThreadRow, ErrorCodes
  <2>2. "none" \in SessionAt(t.pc) /\ runs[r].status \in StatusAt(t.pc)
    BY <1>2, <2>1, ActiveAnywhere DEF SessionAt
  <2> HIDE DEF t
  <2> QED
    BY <1>1, <1>2, <2>1, <2>2, SameSession, NotFaulty, MoveKeeps
<1>4. CASE Goto(r, "eventIdentified")
  <2> DEFINE t == [thread[r] EXCEPT !.pc = "eventIdentified"]
  <2>1. thread' = [thread EXCEPT ![r] = t] /\ t \in ThreadRow /\ t.pc = "eventIdentified"
    BY <1>4, RunFacts DEF Goto, ThreadRow
  <2>2. "none" \in SessionAt(t.pc) /\ runs[r].status \in StatusAt(t.pc)
    BY <1>2, <2>1, ActiveAnywhere DEF SessionAt
  <2> HIDE DEF t
  <2> QED
    BY <1>1, <1>2, <2>1, <2>2, SameSession, NotFaulty, MoveKeeps
<1> QED
  BY <1>3, <1>4 DEF ResolvePlatform

\* The sign-in: answered, refused, or answered without a usable cookie.
LEMMA LoginKeeps ==
  ASSUME SwitchInv, NEW r \in Runs, Login(r) \/ LoginRefused(r) \/ LoginUnusable(r)
  PROVE  SwitchInv'
<1> USE DEF ThreadPcs
<1>1. thread[r].pc = "login" /\ UNCHANGED <<runs, events, starter>>
  BY DEF Login, LoginRefused, LoginUnusable
<1>2. session[r] = "none" /\ runs[r].status \in {"QUEUED", "RUNNING"}
  BY <1>1, WorkFacts DEF SessionAt
<1>3. CASE Login(r)
  <2>1. PICK privilege \in {-1, 15} :
          thread' = [thread EXCEPT ![r].pc = "get", ![r].loggedIn = TRUE, ![r].privilege = privilege]
    BY <1>3 DEF Login
  <2> DEFINE t == [thread[r] EXCEPT !.pc = "get", !.loggedIn = TRUE, !.privilege = privilege]
  <2>2. thread' = [thread EXCEPT ![r] = t] /\ t \in ThreadRow /\ t.pc = "get"
    BY <2>1, RunFacts DEF ThreadRow
  <2>3. "open" \in SessionAt(t.pc) /\ runs[r].status \in StatusAt(t.pc)
    BY <1>2, <2>2, ActiveAnywhere DEF SessionAt
  <2>4. session' = [session EXCEPT ![r] = "open"] /\ UNCHANGED count
    BY <1>3 DEF Login
  <2> HIDE DEF t
  <2> QED
    BY <1>1, <1>2, <2>2, <2>3, <2>4, NotFaulty, MoveKeeps
<1>4. CASE LoginRefused(r)
  <2> DEFINE t == [thread[r] EXCEPT !.pc = "failRow", !.error = "CONNECTION_FAILED"]
  <2>1. thread' = [thread EXCEPT ![r] = t] /\ t \in ThreadRow /\ t.pc = "failRow"
    BY <1>4, RunFacts DEF LoginRefused, Raise, ThreadRow, ErrorCodes
  <2>2. "none" \in SessionAt(t.pc) /\ runs[r].status \in StatusAt(t.pc)
    BY <1>2, <2>1, ActiveAnywhere DEF SessionAt
  <2>3. UNCHANGED session /\ count' = [count EXCEPT !.faults = @ + 1]
    BY <1>4 DEF LoginRefused, Fault
  <2> HIDE DEF t
  <2> QED
    BY <1>1, <1>2, <2>1, <2>2, <2>3, SameSession, Faulty, MoveKeeps
<1>5. CASE LoginUnusable(r)
  <2>1. PICK idCookie \in BOOLEAN :
       thread' = [thread EXCEPT ![r].pc = "exit", ![r].loggedIn = idCookie,
                    ![r].error = IF idCookie THEN "INSUFFICIENT_PRIVILEGE" ELSE "INVALID_AUTH_RESPONSE"]
    BY <1>5 DEF LoginUnusable
  <2> DEFINE code == IF idCookie THEN "INSUFFICIENT_PRIVILEGE" ELSE "INVALID_AUTH_RESPONSE"
             t == [thread[r] EXCEPT !.pc = "exit", !.loggedIn = idCookie, !.error = code]
  <2>2. code \in ErrorCodes
    BY DEF ErrorCodes
  <2>3. thread' = [thread EXCEPT ![r] = t]
    BY <2>1
  <2> HIDE DEF code
  <2>4. t \in ThreadRow /\ t.pc = "exit"
    BY <2>2, RunFacts DEF ThreadRow
  <2>5. "open" \in SessionAt(t.pc) /\ runs[r].status \in StatusAt(t.pc)
    BY <1>2, <2>4, ActiveAnywhere DEF SessionAt
  <2>6. session' = [session EXCEPT ![r] = "open"] /\ count' = [count EXCEPT !.faults = @ + 1]
    BY <1>5 DEF LoginUnusable, Fault
  <2> HIDE DEF t
  <2> QED
    BY <1>1, <1>2, <2>3, <2>4, <2>5, <2>6, Faulty, MoveKeeps
<1> QED
  BY <1>3, <1>4, <1>5

\* The GET requests: all answered, or one that ends the collection.
LEMMA GetKeeps == ASSUME SwitchInv, NEW r \in Runs, GetAnswers(r) \/ GetFails(r) PROVE SwitchInv'
<1> USE DEF ThreadPcs
<1>1. thread[r].pc = "get" /\ UNCHANGED <<runs, events, session, starter>>
  BY DEF GetAnswers, GetFails
<1>2. session[r] = "open" /\ runs[r].status \in {"QUEUED", "RUNNING"}
  BY <1>1, WorkFacts DEF SessionAt
<1>3. CASE GetAnswers(r)
  <2>1. PICK answers \in Answers :
          thread' = [thread EXCEPT ![r].pc = "logout", ![r].answers = <<answers>>]
    BY <1>3 DEF GetAnswers
  <2> DEFINE t == [thread[r] EXCEPT !.pc = "logout", !.answers = <<answers>>]
  <2>2. thread' = [thread EXCEPT ![r] = t] /\ t \in ThreadRow /\ t.pc = "logout" /\ t.answers # <<>>
    BY <2>1, RunFacts DEF ThreadRow
  <2>3. "open" \in SessionAt(t.pc) /\ runs[r].status \in StatusAt(t.pc)
    BY <1>2, <2>2, ActiveAnywhere DEF SessionAt
  <2>4. UNCHANGED count
    BY <1>3 DEF GetAnswers
  <2> HIDE DEF t
  <2> QED
    BY <1>1, <1>2, <2>2, <2>3, <2>4, SameSession, NotFaulty, MoveKeeps
<1>4. CASE GetFails(r)
  <2> DEFINE t == [thread[r] EXCEPT !.pc = "exit", !.error = "GET_FAILED"]
  <2>1. thread' = [thread EXCEPT ![r] = t] /\ t \in ThreadRow /\ t.pc = "exit"
    BY <1>4, RunFacts DEF GetFails, ThreadRow, ErrorCodes
  <2>2. "open" \in SessionAt(t.pc) /\ runs[r].status \in StatusAt(t.pc)
    BY <1>2, <2>1, ActiveAnywhere DEF SessionAt
  <2>3. count' = [count EXCEPT !.faults = @ + 1]
    BY <1>4 DEF GetFails, Fault
  <2> HIDE DEF t
  <2> QED
    BY <1>1, <1>2, <2>1, <2>2, <2>3, SameSession, Faulty, MoveKeeps
<1> QED
  BY <1>3, <1>4

\* The sign-out, and a sign-out that fails.
LEMMA LogoutKeeps == ASSUME SwitchInv, NEW r \in Runs, Logout(r) \/ LogoutFails(r) PROVE SwitchInv'
<1> USE DEF ThreadPcs
<1>1. thread[r].pc = "logout" /\ UNCHANGED <<runs, events, starter>>
  BY DEF Logout, LogoutFails
<1>2. session[r] = "open" /\ runs[r].status \in {"QUEUED", "RUNNING"} /\ thread[r].answers # <<>>
  BY <1>1, WorkFacts, RunFacts DEF SessionAt, RunInv
<1>3. CASE Logout(r)
  <2> DEFINE t == [thread[r] EXCEPT !.pc = "project", !.loggedIn = FALSE]
  <2>1. /\ thread' = [thread EXCEPT ![r] = t] /\ t \in ThreadRow /\ t.pc = "project"
        /\ t.answers # <<>>
    BY <1>2, <1>3, RunFacts DEF Logout, ThreadRow
  <2>2. "closed" \in SessionAt(t.pc) /\ runs[r].status \in StatusAt(t.pc)
    BY <1>2, <2>1, ActiveAnywhere DEF SessionAt
  <2>3. session' = [session EXCEPT ![r] = "closed"] /\ UNCHANGED count
    BY <1>3 DEF Logout
  <2> HIDE DEF t
  <2> QED
    BY <1>1, <1>2, <2>1, <2>2, <2>3, NotFaulty, MoveKeeps
<1>4. CASE LogoutFails(r)
  <2>1. PICK answered \in BOOLEAN :
          thread' = [thread EXCEPT ![r].pc = "exit", ![r].loggedIn = ~answered,
                       ![r].error = IF answered THEN "LOGOUT_FAILED" ELSE "TIMEOUT"]
    BY <1>4 DEF LogoutFails
  <2> DEFINE code == IF answered THEN "LOGOUT_FAILED" ELSE "TIMEOUT"
             t == [thread[r] EXCEPT !.pc = "exit", !.loggedIn = ~answered, !.error = code]
  <2>2. code \in ErrorCodes
    BY DEF ErrorCodes
  <2>3. thread' = [thread EXCEPT ![r] = t]
    BY <2>1
  <2> HIDE DEF code
  <2>4. t \in ThreadRow /\ t.pc = "exit"
    BY <2>2, RunFacts DEF ThreadRow
  <2>5. "open" \in SessionAt(t.pc) /\ runs[r].status \in StatusAt(t.pc)
    BY <1>2, <2>4, ActiveAnywhere DEF SessionAt
  <2>6. UNCHANGED session /\ count' = [count EXCEPT !.faults = @ + 1]
    BY <1>4 DEF LogoutFails, Fault
  <2> HIDE DEF t
  <2> QED
    BY <1>1, <1>2, <2>3, <2>4, <2>5, <2>6, SameSession, Faulty, MoveKeeps
<1> QED
  BY <1>3, <1>4

\* The exit of the session after a failure: it signs out what it can.
LEMMA ExitSessionKeeps == ASSUME SwitchInv, NEW r \in Runs, ExitSession(r) PROVE SwitchInv'
<1> USE DEF ThreadPcs
<1>1. thread[r].pc = "exit" /\ UNCHANGED <<runs, events, starter>>
  BY DEF ExitSession
<1>2. runs[r].status \in {"QUEUED", "RUNNING"} /\ (session[r] = "open" => Bad > 0)
  BY <1>1, WorkFacts
<1> DEFINE t == [thread[r] EXCEPT !.pc = "failRow", !.loggedIn = FALSE]
<1>3. thread' = [thread EXCEPT ![r] = t] /\ t \in ThreadRow /\ t.pc = "failRow"
  BY RunFacts DEF ExitSession, ThreadRow
<1>4. /\ {"none", "open", "closed"} \subseteq SessionAt(t.pc)
      /\ runs[r].status \in StatusAt(t.pc)
  BY <1>2, <1>3, ActiveAnywhere DEF SessionAt
<1>5. \/ UNCHANGED <<session, count>>
      \/ session' = [session EXCEPT ![r] = "closed"] /\ UNCHANGED count
      \/ UNCHANGED session /\ count' = [count EXCEPT !.faults = @ + 1]
  BY DEF ExitSession, Fault
<1> HIDE DEF t
<1>6. session[r] \in {"none", "open", "closed"}
  BY RunFacts
<1>7. CASE UNCHANGED <<session, count>>
  BY <1>1, <1>2, <1>3, <1>4, <1>6, <1>7, SameSession, NotFaulty, MoveKeeps
<1>8. CASE session' = [session EXCEPT ![r] = "closed"] /\ UNCHANGED count
  BY <1>1, <1>2, <1>3, <1>4, <1>8, NotFaulty, MoveKeeps
<1>9. CASE UNCHANGED session /\ count' = [count EXCEPT !.faults = @ + 1]
  BY <1>1, <1>2, <1>3, <1>4, <1>6, <1>9, SameSession, Faulty, MoveKeeps
<1> QED
  BY <1>5, <1>7, <1>8, <1>9

\* The projection of the answers, which judges them or raises.
LEMMA ProjectKeeps == ASSUME SwitchInv, NEW r \in Runs, Project(r) PROVE SwitchInv'
<1> USE DEF ThreadPcs
<1>1. thread[r].pc = "project" /\ UNCHANGED <<runs, events, session, starter, count>>
  BY DEF Project
<1>2. session[r] = "closed" /\ runs[r].status \in {"QUEUED", "RUNNING"} /\ thread[r].answers # <<>>
  BY <1>1, WorkFacts, RunFacts DEF SessionAt, RunInv
<1>3. ASSUME NEW code \in ErrorCodes, Raise(r, code) PROVE SwitchInv'
  <2> DEFINE t == [thread[r] EXCEPT !.pc = "failRow", !.error = code]
  <2>1. thread' = [thread EXCEPT ![r] = t] /\ t \in ThreadRow /\ t.pc = "failRow"
    BY <1>3, RunFacts DEF Raise, ThreadRow
  <2>2. "closed" \in SessionAt(t.pc) /\ runs[r].status \in StatusAt(t.pc)
    BY <1>2, <2>1, ActiveAnywhere DEF SessionAt
  <2> HIDE DEF t
  <2> QED
    BY <1>1, <1>2, <2>1, <2>2, SameSession, NotFaulty, MoveKeeps
<1>4. CASE Goto(r, "finish")
  <2> DEFINE t == [thread[r] EXCEPT !.pc = "finish"]
  <2>1. /\ thread' = [thread EXCEPT ![r] = t] /\ t \in ThreadRow /\ t.pc = "finish"
        /\ t.answers # <<>>
    BY <1>2, <1>4, RunFacts DEF Goto, ThreadRow
  <2>2. "closed" \in SessionAt(t.pc) /\ runs[r].status \in StatusAt(t.pc)
    BY <1>2, <2>1, ActiveAnywhere DEF SessionAt
  <2> HIDE DEF t
  <2> QED
    BY <1>1, <1>2, <2>1, <2>2, SameSession, NotFaulty, MoveKeeps
<1>5. "UNSUPPORTED_API_VERSION" \in ErrorCodes /\ "INSUFFICIENT_PRIVILEGE" \in ErrorCodes
  BY DEF ErrorCodes
<1> QED
  BY <1>3, <1>4, <1>5 DEF Project

\* A write that the database refuses, at any place of the thread.
LEMMA DatabaseFailsKeeps == ASSUME SwitchInv, NEW r \in Runs, DatabaseFails(r) PROVE SwitchInv'
<1> DEFINE t == [thread[r] EXCEPT !.pc = AfterFailure(@), !.error = "SWITCH_AUDIT_FAILED"]
<1>1. /\ thread[r].pc \in {"mark", "eventStarted", "eventIdentified", "finish", "eventCompleted",
                           "failRow", "eventFailed"}
      /\ thread' = [thread EXCEPT ![r] = t]
      /\ count' = [count EXCEPT !.faults = @ + 1]
      /\ UNCHANGED <<runs, events, session, starter>>
  BY DEF DatabaseFails
<1>2. t \in ThreadRow /\ t.pc = AfterFailure(thread[r].pc)
      /\ t.answers = thread[r].answers
      /\ t.privilege = thread[r].privilege /\ t.profile = thread[r].profile
  BY RunFacts DEF ThreadRow, ThreadPcs, ErrorCodes, AfterFailure
<1>3. /\ runs[r].status \in StatusAt(t.pc) /\ session[r] \in SessionAt(t.pc)
      /\ t.pc \in {"failRow", "dead"}
  BY <1>1, <1>2, RunFacts DEF RunInv, StatusAt, SessionAt, AfterFailure
<1> HIDE DEF t
<1> QED
  BY <1>1, <1>2, <1>3, RunFacts, SameSession, Faulty, MoveKeeps

\* A run ends whole: the result and the status are one row, written after the
\* session was closed.
LEMMA FinishCompletedKeeps == ASSUME SwitchInv, NEW r \in Runs, FinishCompleted(r) PROVE SwitchInv'
<1> DEFINE v == Verdict(thread[r].answers[1], thread[r].privilege, thread[r].profile)
<1>1. /\ thread[r].pc = "finish"
      /\ runs' = [runs EXCEPT ![r] = FinishRow(@, "COMPLETED", <<v>>, "NONE")]
      /\ thread' = [thread EXCEPT ![r].pc = "eventCompleted"]
      /\ UNCHANGED <<events, session, starter, count>>
  BY DEF FinishCompleted, Goto, Verdict
<1>2. /\ session[r] = "closed" /\ runs[r].status \in {"QUEUED", "RUNNING"}
      /\ thread[r].answers # <<>>
  BY <1>1, WorkFacts, RunFacts DEF SessionAt, RunInv
<1>3. <<v>> \in Results
  <2>1. /\ thread[r].privilege \in {-1, 15} /\ thread[r].profile \in Profiles \cup {None}
        /\ thread[r].answers[1] \in Answers
    BY <1>2, RunFacts DEF ThreadRow
  <2> QED
    BY <2>1 DEF Results
<1> HIDE DEF v
<1>4. runs' = [runs EXCEPT ![r] = [@ EXCEPT !.status = "COMPLETED", !.error = "NONE", !.result = <<v>>]]
  <2>1. FinishRow(runs[r], "COMPLETED", <<v>>, "NONE")
          = [runs[r] EXCEPT !.status = "COMPLETED", !.error = "NONE", !.result = <<v>>]
    BY <1>2 DEF FinishRow
  <2> QED
    BY <1>1, <2>1 DEF SwitchInv, SwitchTypeOK
<1>5. StepOf(r)
  <2>1. runs' \in [Runs -> RunRow] /\ \A q \in Runs \ {r} : runs'[q] = runs[q]
    BY <1>3, <1>4 DEF SwitchInv, SwitchTypeOK, RunRow, RunStatuses, ErrorCodes
  <2>2. thread' \in [Runs -> ThreadRow] /\ \A q \in Runs \ {r} : thread'[q] = thread[q]
    BY <1>1, NextPlace DEF ThreadPcs
  <2> QED
    BY <1>1, <2>1, <2>2, NotFaulty DEF SwitchInv, SwitchTypeOK, StepOf
<1>6. /\ thread'[r].pc = "eventCompleted" /\ thread'[r].answers = thread[r].answers
      /\ thread'[r].privilege = thread[r].privilege /\ thread'[r].profile = thread[r].profile
      /\ session'[r] = "closed" /\ runs'[r].status = "COMPLETED" /\ runs'[r].result = <<v>>
  <2>1. /\ thread'[r].pc = "eventCompleted" /\ thread'[r].answers = thread[r].answers
        /\ thread'[r].privilege = thread[r].privilege /\ thread'[r].profile = thread[r].profile
    BY <1>1, NextPlace DEF ThreadPcs
  <2>2. runs'[r].status = "COMPLETED" /\ runs'[r].result = <<v>>
    BY <1>4 DEF SwitchInv, SwitchTypeOK, RunRow
  <2> QED
    BY <1>1, <1>2, <2>1, <2>2
<1>7. Completed(runs[r], thread[r], session[r])'
  BY <1>2, <1>6 DEF Completed, v
<1>8. RunInv(runs[r], events[r], thread[r], session[r], Bad)'
  BY <1>6, <1>7 DEF RunInv, StatusAt, SessionAt
<1> QED
  BY <1>1, <1>5, <1>8, StepKeeps

\* The row of a run that failed is closed with its error.
LEMMA FinishFailedKeeps == ASSUME SwitchInv, NEW r \in Runs, FinishFailed(r) PROVE SwitchInv'
<1>1. /\ thread[r].pc = "failRow"
      /\ runs' = [runs EXCEPT ![r] = FinishRow(@, "FAILED", <<>>, thread[r].error)]
      /\ thread' = [thread EXCEPT ![r].pc = "eventFailed"]
      /\ UNCHANGED <<events, session, starter, count>>
  BY DEF FinishFailed, Goto
<1>2. /\ runs[r].status \in {"QUEUED", "RUNNING", "COMPLETED"}
      /\ session[r] = "open" => Bad > 0
  BY <1>1, RunFacts DEF RunInv, StatusAt
<1>3. thread' \in [Runs -> ThreadRow] /\ \A q \in Runs \ {r} : thread'[q] = thread[q]
  BY <1>1, NextPlace DEF ThreadPcs
<1>4. /\ thread'[r].pc = "eventFailed" /\ thread'[r].answers = thread[r].answers
      /\ thread'[r].privilege = thread[r].privilege /\ thread'[r].profile = thread[r].profile
  BY <1>1, NextPlace DEF ThreadPcs
<1>5. session[r] \in SessionAt("eventFailed")
  BY RunFacts DEF SessionAt
<1>6. CASE runs[r].status = "COMPLETED"
  <2>1. runs' = runs
    BY <1>1, <1>6 DEF FinishRow, SwitchInv, SwitchTypeOK
  <2>2. StepOf(r)
    BY <1>1, <1>3, <2>1, NotFaulty DEF SwitchInv, SwitchTypeOK, StepOf
  <2>3. RunInv(runs[r], events[r], thread[r], session[r], Bad)'
    BY <1>1, <1>2, <1>4, <1>5, <1>6, <2>1, RunFacts, NotFaulty DEF RunInv, Completed, StatusAt
  <2> QED
    BY <1>1, <2>2, <2>3, StepKeeps
<1>7. CASE runs[r].status # "COMPLETED"
  <2>1. runs' = [runs EXCEPT ![r] = [@ EXCEPT !.status = "FAILED", !.error = thread[r].error]]
    <3>1. FinishRow(runs[r], "FAILED", <<>>, thread[r].error)
            = [runs[r] EXCEPT !.status = "FAILED", !.error = thread[r].error]
      BY <1>2, <1>7, RunFacts DEF FinishRow, RunRow
    <3> QED
      BY <1>1, <3>1 DEF SwitchInv, SwitchTypeOK
  <2>2. runs' \in [Runs -> RunRow] /\ \A q \in Runs \ {r} : runs'[q] = runs[q]
    <3>1. thread[r].error \in ErrorCodes /\ runs \in [Runs -> RunRow]
      BY RunFacts DEF ThreadRow, SwitchInv, SwitchTypeOK
    <3> QED
      BY <2>1, <3>1 DEF RunRow, RunStatuses
  <2>3. StepOf(r)
    BY <1>1, <1>3, <2>2, NotFaulty DEF SwitchInv, SwitchTypeOK, StepOf
  <2>4. runs'[r].status = "FAILED" /\ runs'[r].result = runs[r].result
    BY <2>1, RunFacts DEF SwitchInv, SwitchTypeOK, RunRow
  <2>5. RunInv(runs[r], events[r], thread[r], session[r], Bad)'
    BY <1>1, <1>2, <1>4, <1>5, <1>7, <2>4, RunFacts, NotFaulty DEF RunInv, StatusAt
  <2> QED
    BY <1>1, <2>3, <2>5, StepKeeps
<1> QED
  BY <1>6, <1>7

\* A step of a request that writes no row but perhaps its own state keeps every
\* run as it is.
LEMMA StarterKeeps ==
  ASSUME SwitchInv, NEW u \in Users, NEW row \in StarterRow, row.pc # "start",
         starter' = [starter EXCEPT ![u] = row],
         UNCHANGED <<runs, events, thread, session, count>>
  PROVE  SwitchInv'
<1>1. SwitchTypeOK'
  BY DEF SwitchInv, SwitchTypeOK
<1>2. RunsWhole'
  BY DEF SwitchInv, RunsWhole, Bad
<1>3. StartersOwn'
  BY DEF SwitchInv, SwitchTypeOK, StartersOwn
<1> QED
  BY <1>1, <1>2, <1>3 DEF SwitchInv

\* A request looks for an active run of its owner.
LEMMA FindActiveRunKeeps ==
  ASSUME SwitchInv, NEW u \in Users, NEW p \in Profiles, FindActiveRun(u, p)
  PROVE  SwitchInv'
<1> DEFINE own == {r \in ActiveRuns : runs[r].owner = u}
           row == IF own = {} THEN [pc |-> "insert", run |-> None, profile |-> p]
                  ELSE [pc |-> "reused", run |-> CHOOSE r \in own : TRUE, profile |-> p]
<1>1. starter' = [starter EXCEPT ![u] = row] /\ UNCHANGED <<runs, events, thread, session, count>>
  BY DEF FindActiveRun
<1>2. own # {} => (CHOOSE r \in own : TRUE) \in Runs
  BY DEF ActiveRuns
<1>3. row \in StarterRow /\ row.pc # "start"
  BY <1>2 DEF StarterRow
<1> HIDE DEF row
<1> QED
  BY <1>1, <1>3, StarterKeeps

\* A page stops asking for the events of its run.
LEMMA PollEndedKeeps == ASSUME SwitchInv, NEW u \in Users, PollEnded(u) PROVE SwitchInv'
<1> DEFINE row == [pc |-> "idle", run |-> None, profile |-> None]
<1>1. row \in StarterRow /\ row.pc # "start"
  BY DEF StarterRow
<1>2. starter' = [starter EXCEPT ![u] = row] /\ UNCHANGED <<runs, events, thread, session, count>>
  BY DEF PollEnded
<1> HIDE DEF row
<1> QED
  BY <1>1, <1>2, StarterKeeps

\* The row a request inserts is a queued run without a result.
LEMMA NewRun ==
  ASSUME NEW u \in Users
  PROVE  LET new == [NoRun EXCEPT !.status = "QUEUED", !.owner = u]
         IN new \in RunRow /\ new.status = "QUEUED" /\ new.result = <<>>
<1>1. NoRun \in RunRow /\ NoRun.result = <<>>
  BY DEF NoRun, RunRow, RunStatuses, Results, ErrorCodes
<1> QED
  BY <1>1 DEF RunRow, RunStatuses

\* A new run has no thread, no session and no events yet: nothing has touched it.
LEMMA InsertRunKeeps ==
  ASSUME SwitchInv, NEW u \in Users, NEW r \in Runs, InsertRun(u, r)
  PROVE  SwitchInv'
<1>1. CASE ActiveRuns # {}
  <2> DEFINE row == [starter[u] EXCEPT !.pc = "conflict"]
  <2>1. starter' = [starter EXCEPT ![u] = row] /\ UNCHANGED <<runs, events, thread, session, count>>
    BY <1>1 DEF InsertRun
  <2>2. row \in StarterRow /\ row.pc # "start"
    BY DEF SwitchInv, SwitchTypeOK, StarterRow
  <2> HIDE DEF row
  <2> QED
    BY <2>1, <2>2, StarterKeeps
<1>2. CASE ActiveRuns = {}
  <2> DEFINE new == [NoRun EXCEPT !.status = "QUEUED", !.owner = u]
  <2>1. /\ runs[r].status = "NONE"
        /\ runs' = [runs EXCEPT ![r] = new]
        /\ starter' = [starter EXCEPT ![u].pc = "start", ![u].run = r]
        /\ UNCHANGED <<events, thread, session, count>>
    BY <1>2 DEF InsertRun
  <2>2. new \in RunRow /\ new.status = "QUEUED" /\ new.result = <<>>
    BY NewRun
  <2> HIDE DEF new
  <2>3. runs' \in [Runs -> RunRow] /\ runs'[r] = new /\ \A q \in Runs \ {r} : runs'[q] = runs[q]
    BY <2>1, <2>2 DEF SwitchInv, SwitchTypeOK
  <2>4. starter' \in [Users -> StarterRow]
    BY <2>1 DEF SwitchInv, SwitchTypeOK, StarterRow
  <2>5. SwitchTypeOK'
    BY <2>1, <2>3, <2>4 DEF SwitchInv, SwitchTypeOK
  <2>6. thread[r].pc = "none"
    BY <2>1, RunFacts DEF RunInv, StatusAt
  <2>7. RunInv(new, events[r], thread[r], session[r], Bad)
    BY <2>1, <2>2, <2>6, RunFacts DEF RunInv, StatusAt
  <2>8. RunsWhole'
    BY <2>1, <2>3, <2>7 DEF SwitchInv, RunsWhole, Bad
  <2>9. StartersOwn'
    <3>1. /\ starter'[u].pc = "start" /\ starter'[u].run = r
          /\ \A v \in Users \ {u} : starter'[v] = starter[v]
      BY <2>1 DEF SwitchInv, SwitchTypeOK, StarterRow
    <3>2. \A v \in Users : starter[v].pc = "start" => starter[v].run # r
      BY <2>1 DEF SwitchInv, StartersOwn
    <3> SUFFICES ASSUME NEW v \in Users, starter'[v].pc = "start"
                 PROVE  /\ starter'[v].run \in Runs
                        /\ runs'[starter'[v].run].status = "QUEUED"
                        /\ thread'[starter'[v].run].pc = "none"
                        /\ \A w \in Users : starter'[w].pc = "start" /\ starter'[w].run = starter'[v].run
                                             => v = w
      BY DEF StartersOwn
    <3>3. CASE v = u
      BY <2>1, <2>2, <2>3, <2>6, <3>1, <3>2, <3>3
    <3>4. CASE v # u
      <4>1. starter'[v] = starter[v] /\ starter[v].pc = "start" /\ starter[v].run # r
        BY <3>1, <3>2, <3>4
      <4>2. /\ starter[v].run \in Runs /\ runs[starter[v].run].status = "QUEUED"
            /\ thread[starter[v].run].pc = "none"
            /\ \A w \in Users : starter[w].pc = "start" /\ starter[w].run = starter[v].run => v = w
        BY <4>1 DEF SwitchInv, StartersOwn
      <4>3. runs'[starter[v].run] = runs[starter[v].run] /\ thread' = thread
        BY <2>1, <2>3, <4>1, <4>2
      <4> QED
        BY <3>1, <4>1, <4>2, <4>3
    <3> QED
      BY <3>3, <3>4
  <2> QED
    BY <2>5, <2>8, <2>9 DEF SwitchInv
<1> QED
  BY <1>1, <1>2

\* The thread of a run is started once, by the request that inserted it.
LEMMA StartThreadKeeps == ASSUME SwitchInv, NEW u \in Users, StartThread(u) PROVE SwitchInv'
<1> DEFINE r == starter[u].run
           t == [NoThread EXCEPT !.pc = "mark", !.profile = starter[u].profile]
<1>1. /\ starter[u].pc = "start"
      /\ thread' = [thread EXCEPT ![r] = t]
      /\ starter' = [starter EXCEPT ![u].pc = "answered"]
      /\ UNCHANGED <<runs, events, session, count>>
  BY DEF StartThread
<1>2. r \in Runs /\ runs[r].status = "QUEUED" /\ thread[r].pc = "none"
      /\ \A v \in Users \ {u} : starter[v].pc = "start" => starter[v].run # r
  BY <1>1 DEF SwitchInv, StartersOwn
<1>3. t \in ThreadRow /\ t.pc = "mark"
  BY DEF SwitchInv, SwitchTypeOK, StarterRow, ThreadRow, ThreadPcs, NoThread, ErrorCodes
<1> HIDE DEF r, t
<1>4. /\ thread' \in [Runs -> ThreadRow] /\ thread'[r] = t
      /\ \A q \in Runs \ {r} : thread'[q] = thread[q]
  BY <1>1, <1>2, <1>3 DEF SwitchInv, SwitchTypeOK
<1>5. /\ starter' \in [Users -> StarterRow] /\ starter'[u].pc = "answered"
      /\ \A v \in Users \ {u} : starter'[v] = starter[v]
  BY <1>1 DEF SwitchInv, SwitchTypeOK, StarterRow
<1>6. SwitchTypeOK'
  BY <1>1, <1>4, <1>5 DEF SwitchInv, SwitchTypeOK
<1>7. RunInv(runs[r], events[r], t, session[r], Bad)
  BY <1>2, <1>3, RunFacts DEF RunInv, StatusAt, SessionAt, NoThread
<1>8. RunsWhole'
  BY <1>1, <1>2, <1>4, <1>7 DEF SwitchInv, RunsWhole, Bad
<1>9. StartersOwn'
  BY <1>1, <1>2, <1>4, <1>5 DEF SwitchInv, StartersOwn
<1> QED
  BY <1>6, <1>8, <1>9 DEF SwitchInv

\* A restart leaves the rows, the events and the sessions as they are.
LEMMA SwitchCrashKeeps == ASSUME SwitchInv, SwitchCrash PROVE SwitchInv'
<1>1. /\ thread' = [r \in Runs |-> [thread[r] EXCEPT !.pc = IF @ = "none" THEN @ ELSE "dead"]]
      /\ starter' = [u \in Users |-> [pc |-> "idle", run |-> None, profile |-> None]]
      /\ count' = [count EXCEPT !.crashes = @ + 1]
      /\ UNCHANGED <<runs, events, session>>
  BY DEF SwitchCrash
<1>2. count \in [faults : Nat, crashes : Nat]
  BY DEF SwitchInv, SwitchTypeOK
<1>3. count' \in [faults : Nat, crashes : Nat] /\ Bad' > 0
  BY <1>1, <1>2 DEF Bad
<1>4. ASSUME NEW r \in Runs
      PROVE  /\ thread'[r] \in ThreadRow /\ thread'[r].answers = thread[r].answers
             /\ thread'[r].privilege = thread[r].privilege
             /\ thread'[r].profile = thread[r].profile
             /\ thread'[r].pc = IF thread[r].pc = "none" THEN "none" ELSE "dead"
  <2>1. thread[r] \in ThreadRow
    BY RunFacts
  <2>2. thread'[r] = [thread[r] EXCEPT !.pc = IF @ = "none" THEN @ ELSE "dead"]
    BY <1>1
  <2> QED
    BY <2>1, <2>2 DEF ThreadRow, ThreadPcs
<1>5. thread' \in [Runs -> ThreadRow]
  BY <1>1, <1>4
<1>6. starter' \in [Users -> StarterRow] /\ \A u \in Users : starter'[u].pc = "idle"
  BY <1>1 DEF StarterRow
<1>7. SwitchTypeOK'
  BY <1>1, <1>3, <1>5, <1>6 DEF SwitchInv, SwitchTypeOK
<1>8. ASSUME NEW r \in Runs PROVE RunInv(runs[r], events[r], thread[r], session[r], Bad)'
  <2>1. runs[r].status # "NONE" \/ thread[r].pc = "none"
    BY RunFacts DEF RunInv, StatusAt
  <2>2. runs'[r] = runs[r] /\ events'[r] = events[r] /\ session'[r] = session[r]
    BY <1>1
  <2>3. runs[r].status \in StatusAt(thread'[r].pc) /\ session[r] \in SessionAt(thread'[r].pc)
    BY <1>4, <2>1, RunFacts DEF RunInv, StatusAt, SessionAt, RunRow, RunStatuses
  <2> QED
    BY <1>3, <1>4, <2>2, <2>3, RunFacts DEF RunInv, Completed
<1>9. StartersOwn'
  BY <1>6 DEF StartersOwn
<1> QED
  BY <1>7, <1>8, <1>9 DEF SwitchInv, RunsWhole

\* Before the first request there is no run.
LEMMA SwitchInitEstablishes == SwitchInit => SwitchInv
<1> SUFFICES ASSUME SwitchInit PROVE SwitchInv
  OBVIOUS
<1>1. NoRun \in RunRow /\ NoThread \in ThreadRow
  BY DEF NoRun, NoThread, RunRow, RunStatuses, Results, ThreadRow, ThreadPcs, ErrorCodes
<1>2. SwitchTypeOK
  BY <1>1 DEF SwitchInit, SwitchTypeOK, StarterRow
<1>3. RunsWhole
  <2> SUFFICES ASSUME NEW r \in Runs
               PROVE  RunInv(runs[r], events[r], thread[r], session[r], Bad)
    BY DEF RunsWhole
  <2>1. runs[r] = NoRun /\ events[r] = <<>> /\ thread[r] = NoThread /\ session[r] = "none"
    BY DEF SwitchInit
  <2> QED
    BY <2>1 DEF RunInv, NoRun, NoThread, StatusAt, SessionAt
<1> QED
  BY <1>2, <1>3 DEF SwitchInv, StartersOwn, SwitchInit

\* Every step of a request, a thread and the device, and a restart, keeps the
\* runs of the switch whole.
LEMMA SwitchNextKeeps == ASSUME SwitchInv, SwitchNext PROVE SwitchInv'
<1>1. ASSUME NEW r \in Runs, ThreadStep(r) PROVE SwitchInv'
  BY <1>1, MarkRunningKeeps, AppendEventKeeps, ResolvePlatformKeeps, LoginKeeps, GetKeeps,
     LogoutKeeps, ExitSessionKeeps, ProjectKeeps, FinishCompletedKeeps, FinishFailedKeeps,
     DatabaseFailsKeeps DEF ThreadStep
<1> QED
  BY <1>1, FindActiveRunKeeps, InsertRunKeeps, StartThreadKeeps, PollEndedKeeps, SwitchCrashKeeps
     DEF SwitchNext

\* A step of another component leaves the switch audit as it is.
LEMMA SwitchStutterKeeps == ASSUME SwitchInv, UNCHANGED switchVars PROVE SwitchInv'
  BY DEF switchVars, SwitchInv, SwitchTypeOK, RunsWhole, StartersOwn, Bad

-----------------------------------------------------------------------------
(* What a setting REST omits does to the verdicts of the switch.           *)

\* The parts of the answers that Silent leaves as they are, and the six
\* settings it takes out.
LEMMA SilentAnswers ==
  ASSUME NEW a \in Answers
  PROVE  /\ \A x \in AnswerFields \ {"system"} : Silent(a)[x] = a[x]
         /\ \A x \in SystemFields \ {"attempts", "allowlist", "cliTimeout", "ssh", "cdp", "redirectOff"} :
              Silent(a).system[x] = a.system[x]
         /\ Silent(a).system.attempts = NoNumber /\ Silent(a).system.cliTimeout = NoNumber
         /\ Silent(a).system.allowlist = "unset" /\ Silent(a).system.ssh = "unset"
         /\ Silent(a).system.cdp = "unset" /\ Silent(a).system.redirectOff = "unset"
<1>1. AnswerFields = DOMAIN a /\ SystemFields = DOMAIN a.system
  BY AnswersAssumption
<1> DEFINE s == [a.system EXCEPT !.attempts = NoNumber, !.allowlist = "unset",
                   !.cliTimeout = NoNumber, !.ssh = "unset", !.cdp = "unset", !.redirectOff = "unset"]
<1>2. Silent(a) = [a EXCEPT !.system = s]
  BY DEF Silent
<1>3. /\ \A x \in SystemFields \ {"attempts", "allowlist", "cliTimeout", "ssh", "cdp", "redirectOff"} :
           s[x] = a.system[x]
      /\ s.attempts = NoNumber /\ s.cliTimeout = NoNumber
      /\ s.allowlist = "unset" /\ s.ssh = "unset" /\ s.cdp = "unset" /\ s.redirectOff = "unset"
  BY <1>1 DEF SystemFields
<1> HIDE DEF s
<1>4. Silent(a)["system"] = s /\ \A x \in AnswerFields \ {"system"} : Silent(a)[x] = a[x]
  BY <1>1, <1>2 DEF AnswerFields
<1> QED
  BY <1>3, <1>4

\* Only the settings of the system differ.
LEMMA SilentFacts ==
  ASSUME NEW a \in Answers, NEW privilege
  PROVE  LET f == BuildFacts(a, privilege, Username)
             g == BuildFacts(Silent(a), privilege, Username)
         IN /\ g.administrator = f.administrator /\ g.account = f.account /\ g.log = f.log
            /\ g.time = f.time /\ g.snmp = f.snmp /\ g.interface = f.interface
            /\ g.vrf = f.vrf /\ g.banner = f.banner
            /\ g.system = Silent(a).system /\ f.system = a.system
<1> DEFINE z == Silent(a)
<1>1. /\ z.currentGroup = a.currentGroup /\ z.vrfs = a.vrfs /\ z.interfaces = a.interfaces
      /\ z.users = a.users /\ z.groups = a.groups /\ z.snmpUsers = a.snmpUsers
      /\ z.syslogs = a.syslogs /\ z.ntpEnabled = a.ntpEnabled /\ z.ntpVrf = a.ntpVrf
      /\ z.ntpServers = a.ntpServers /\ z.v3Only = a.v3Only /\ z.communities = a.communities
      /\ z.dnsServers = a.dnsServers /\ z.banner = a.banner
  BY SilentAnswers DEF AnswerFields
<1> HIDE DEF z
<1>2. AdministratorAuthenticated(z, privilege, Username)
        = AdministratorAuthenticated(a, privilege, Username)
  BY <1>1 DEF AdministratorAuthenticated
<1>3. AccountFacts(z) = AccountFacts(a) /\ LogFacts(z) = LogFacts(a) /\ TimeFacts(z) = TimeFacts(a)
  BY <1>1 DEF AccountFacts, LogFacts, TimeFacts
<1>4. SnmpFacts(z) = SnmpFacts(a)
  BY <1>1 DEF SnmpFacts
<1>5. InterfaceFacts(z) = InterfaceFacts(a) /\ VrfFacts(z) = VrfFacts(a)
  BY <1>1 DEF InterfaceFacts, VrfFacts
<1> QED
  BY <1>1, <1>2, <1>3, <1>4, <1>5 DEF BuildFacts, z

\* A verdict of the device that changes when settings are left out becomes REVIEW.
LEMMA SilentJudgement ==
  ASSUME NEW f, NEW g, NEW threshold, NEW n \in NetworkControlIds,
         /\ g.administrator = f.administrator /\ g.account = f.account /\ g.log = f.log
         /\ g.time = f.time /\ g.snmp = f.snmp /\ g.interface = f.interface
         /\ g.vrf = f.vrf /\ g.banner = f.banner,
         \A x \in SystemFields \ {"attempts", "allowlist", "cliTimeout", "ssh", "cdp", "redirectOff"} :
           g.system[x] = f.system[x],
         /\ g.system.attempts = NoNumber /\ g.system.cliTimeout = NoNumber
         /\ g.system.allowlist = "unset" /\ g.system.ssh = "unset" 
         /\ g.system.cdp = "unset" /\ g.system.redirectOff = "unset"
  PROVE  \/ EvaluateDevice(n, g, threshold) = EvaluateDevice(n, f, threshold)
         \/ EvaluateDevice(n, g, threshold) = "REVIEW" /\ n \notin {12, 17}
<1>1. /\ g.system.complexity = f.system.complexity /\ g.system.usbOff = f.system.usbOff
      /\ g.system.timestamps = f.system.timestamps /\ g.system.copp = f.system.copp
      /\ g.system.webTimeout = f.system.webTimeout /\ g.system.allowed = f.system.allowed
      /\ g.system.unreachableOff = f.system.unreachableOff
  BY DEF SystemFields
<1>2. CASE n \in NotApplicableToAosCx
  BY <1>2 DEF EvaluateDevice
<1>3. CASE n \in {4, 6, 7, 8}
  <2>1. EvaluateDevice(n, g, threshold) = AccessJudgement(n, g, threshold)
    BY <1>3 DEF EvaluateDevice, NotApplicableToAosCx
  <2>4. CASE n = 4
    BY <2>1, <2>4 DEF AccessJudgement
  <2>6. CASE n = 6
    BY <2>1, <2>6 DEF AccessJudgement
  <2>7. CASE n = 7
    BY <2>1, <2>7 DEF AccessJudgement
  <2>8. CASE n = 8
    BY <2>1, <2>8 DEF AccessJudgement
  <2> QED
    BY <1>3, <2>4, <2>6, <2>7, <2>8
<1>4. CASE n \in {1, 2, 3, 5, 9, 10}
  <2>1. EvaluateDevice(n, g, threshold) = AccessJudgement(n, g, threshold)
        /\ EvaluateDevice(n, f, threshold) = AccessJudgement(n, f, threshold)
    BY <1>4 DEF EvaluateDevice, NotApplicableToAosCx
  <2>11. CASE n = 1
    BY <1>1, <2>1, <2>11 DEF AccessJudgement
  <2>12. CASE n = 2
    BY <1>1, <2>1, <2>12 DEF AccessJudgement
  <2>13. CASE n = 3
    BY <1>1, <2>1, <2>13 DEF AccessJudgement
  <2>15. CASE n = 5
    BY <1>1, <2>1, <2>15 DEF AccessJudgement
  <2>19. CASE n = 9
    BY <1>1, <2>1, <2>19 DEF AccessJudgement
  <2>20. CASE n = 10
    BY <1>1, <2>1, <2>20 DEF AccessJudgement
  <2> QED
    BY <1>4, <2>11, <2>12, <2>13, <2>15, <2>19, <2>20
<1>5. CASE n \in {11, 12, 14, 15, 16}
  <2>1. EvaluateDevice(n, g, threshold) = LogJudgement(n, g)
        /\ EvaluateDevice(n, f, threshold) = LogJudgement(n, f)
    BY <1>5 DEF EvaluateDevice, NotApplicableToAosCx
  <2> QED
    BY <1>1, <1>5, <2>1 DEF LogJudgement
<1>6. CASE n \in {17, 18, 19, 20}
  <2>1. EvaluateDevice(n, g, threshold) = SnmpJudgement(n, g)
        /\ EvaluateDevice(n, f, threshold) = SnmpJudgement(n, f)
    BY <1>6 DEF EvaluateDevice, NotApplicableToAosCx
  <2> QED
    BY <1>1, <1>6, <2>1 DEF SnmpJudgement
<1>7. CASE n \in {22, 23, 24, 27, 30, 31, 33, 34, 36}
  <2>1. EvaluateDevice(n, g, threshold) = TrafficJudgement(n, g)
        /\ EvaluateDevice(n, f, threshold) = TrafficJudgement(n, f)
    BY <1>7 DEF EvaluateDevice, NotApplicableToAosCx
  <2>2. CASE n \in {22, 23, 24, 27}
    BY <1>1, <2>1, <2>2 DEF TrafficJudgement
  <2>3. CASE n \in {31, 33, 36}
    BY <1>1, <2>1, <2>3 DEF TrafficJudgement
  <2>4. CASE n \in {30, 34}
    BY <2>1, <2>4 DEF TrafficJudgement
  <2> QED
    BY <1>7, <2>2, <2>3, <2>4
<1> QED
  BY <1>2, <1>3, <1>4, <1>5, <1>6, <1>7 DEF NetworkControlIds, NotApplicableToAosCx

\* A switch that leaves settings out passes no control it fails with them.
LEMMA SilentNeverPasses ==
  ASSUME NEW a \in Answers, NEW privilege, NEW profile, NEW n \in NetworkControlIds,
         Verdict(Silent(a), privilege, profile)[n].status = "PASS"
  PROVE  Verdict(a, privilege, profile)[n].status = "PASS"
<1> DEFINE f == BuildFacts(a, privilege, Username)
           g == BuildFacts(Silent(a), privilege, Username)
<1>1. \/ EvaluateDevice(n, g, profile.threshold) = EvaluateDevice(n, f, profile.threshold)
      \/ EvaluateDevice(n, g, profile.threshold) = "REVIEW" /\ n \notin {12, 17}
  <2>1. /\ g.administrator = f.administrator /\ g.account = f.account /\ g.log = f.log
        /\ g.time = f.time /\ g.snmp = f.snmp /\ g.interface = f.interface
        /\ g.vrf = f.vrf /\ g.banner = f.banner
        /\ g.system = Silent(a).system /\ f.system = a.system
    BY SilentFacts
  <2> HIDE DEF f, g
  <2> QED
    BY <2>1, SilentAnswers, SilentJudgement
<1>2. /\ Verdict(Silent(a), privilege, profile)[n] = EvaluateNetwork(n, g, profile)
      /\ Verdict(a, privilege, profile)[n] = EvaluateNetwork(n, f, profile)
  BY DEF Verdict, EvaluateAll
<1> HIDE DEF f, g
<1>3. EvaluateNetwork(n, g, profile).status = "PASS" => EvaluateNetwork(n, f, profile).status = "PASS"
  BY <1>1 DEF EvaluateNetwork
<1> QED
  BY <1>2, <1>3

-----------------------------------------------------------------------------
(* What a probe that is left out does to the verdicts of a server.         *)

\* The judgement of an account control reads the probes it lists and no other.
LEMMA AccountAgrees ==
  ASSUME NEW n \in 1..13, NEW o, NEW z, NEW profile, \A q \in AccountProbes(n) : z[q] = o[q]
  PROVE  AccountJudgement(n, z, profile) = AccountJudgement(n, o, profile)
<1>1. CASE n = 1
  BY <1>1 DEF AccountProbes, AccountJudgement
<1>2. CASE n = 2
  <2>1. z["login-defs"] = o["login-defs"] /\ z["pam-policy"] = o["pam-policy"]
    BY <1>2 DEF AccountProbes
  <2> QED
    BY <1>2, <2>1 DEF AccountJudgement, PassOrFail
<1>3. CASE n = 3
  BY <1>3 DEF AccountProbes, AccountJudgement
<1>4. CASE n = 4
  <2>1. z["passwd-db"] = o["passwd-db"]
    BY <1>4 DEF AccountProbes
  <2> QED
    BY <1>4, <2>1 DEF AccountJudgement, PassOrFail
<1>5. CASE n = 5
  BY <1>5 DEF AccountProbes, AccountJudgement
<1>6. CASE n = 6
  BY <1>6 DEF AccountProbes, AccountJudgement
<1>7. CASE n = 7
  BY <1>7 DEF AccountProbes, AccountJudgement
<1>8. CASE n = 8
  BY <1>8 DEF AccountProbes, AccountJudgement
<1>9. CASE n = 9
  BY <1>9 DEF AccountProbes, AccountJudgement
<1>10. CASE n = 10
  BY <1>10 DEF AccountProbes, AccountJudgement
<1>11. CASE n = 11
  BY <1>11 DEF AccountProbes, AccountJudgement
<1>12. CASE n = 12
  <2>1. z["profile-policy"] = o["profile-policy"]
    BY <1>12 DEF AccountProbes
  <2> QED
    BY <1>12, <2>1 DEF AccountJudgement, PassOrFail
<1>13. CASE n = 13
  BY <1>13 DEF AccountProbes, AccountJudgement
<1> QED
  BY <1>1, <1>2, <1>3, <1>4, <1>5, <1>6, <1>7, <1>8, <1>9, <1>10, <1>11, <1>12, <1>13

\* So does the judgement of a file control.
LEMMA FileAgrees ==
  ASSUME NEW n \in 14..33, NEW o, NEW z, NEW profile, \A q \in ProbeIds(n) : z[q] = o[q]
  PROVE  FileJudgement(n, z, profile) = FileJudgement(n, o, profile)
<1> DEFINE only == CHOOSE p \in ProbeIds(n) : TRUE
<1>1. ProbeIds(n) = FileProbes(n)
  BY DEF ProbeIds
<1>2. FileProbes(n) # {}
  <2>14. CASE n = 14
    BY <2>14 DEF FileProbes
  <2>15. CASE n = 15
    BY <2>15 DEF FileProbes
  <2>16. CASE n = 16
    BY <2>16 DEF FileProbes
  <2>17. CASE n = 17
    BY <2>17 DEF FileProbes
  <2>18. CASE n = 18
    BY <2>18 DEF FileProbes
  <2>19. CASE n = 19
    BY <2>19 DEF FileProbes
  <2>20. CASE n = 20
    BY <2>20 DEF FileProbes
  <2>21. CASE n = 21
    BY <2>21 DEF FileProbes
  <2>22. CASE n = 22
    BY <2>22 DEF FileProbes
  <2>23. CASE n = 23
    BY <2>23 DEF FileProbes
  <2>24. CASE n = 24
    BY <2>24 DEF FileProbes
  <2>25. CASE n = 25
    BY <2>25 DEF FileProbes
  <2>26. CASE n = 26
    BY <2>26 DEF FileProbes
  <2>27. CASE n = 27
    BY <2>27 DEF FileProbes
  <2>28. CASE n = 28
    BY <2>28 DEF FileProbes
  <2>29. CASE n = 29
    BY <2>29 DEF FileProbes
  <2>30. CASE n = 30
    BY <2>30 DEF FileProbes
  <2>31. CASE n = 31
    BY <2>31 DEF FileProbes
  <2>32. CASE n = 32
    BY <2>32 DEF FileProbes
  <2>33. CASE n = 33
    BY <2>33 DEF FileProbes
  <2> QED
    BY <2>14, <2>15, <2>16, <2>17, <2>18, <2>19, <2>20, <2>21, <2>22, <2>23, <2>24, <2>25, <2>26, <2>27, <2>28, <2>29, <2>30, <2>31, <2>32, <2>33
<1>3. z[only] = o[only]
  BY <1>1, <1>2
<1> HIDE DEF only
<1>4. CASE n \in {15, 17, 24, 25, 26, 27}
  BY <1>3, <1>4 DEF FileJudgement, only
<1>5. CASE n \in {16, 19, 22}
  BY <1>3, <1>5 DEF FileJudgement, only
<1>6. CASE n \in {18, 21}
  BY <1>3, <1>6 DEF FileJudgement, only
<1>7. CASE n \in {20, 29}
  BY <1>3, <1>7 DEF FileJudgement, only
<1>8. CASE n = 23
  BY <1>1, <1>8 DEF FileJudgement, FileProbes
<1>9. CASE n = 28
  BY <1>1, <1>9 DEF FileJudgement, FileProbes
<1>10. CASE n = 30
  BY <1>1, <1>10 DEF FileJudgement, FileProbes
<1>11. CASE n \in {14, 31, 32, 33}
  <2>14. CASE n = 14
    BY <2>14 DEF FileJudgement
  <2>31. CASE n = 31
    BY <2>31 DEF FileJudgement
  <2>32. CASE n = 32
    BY <2>32 DEF FileJudgement
  <2>33. CASE n = 33
    BY <2>33 DEF FileJudgement
  <2> QED
    BY <1>11, <2>14, <2>31, <2>32, <2>33
<1> QED
  BY <1>4, <1>5, <1>6, <1>7, <1>8, <1>9, <1>10, <1>11

\* And of the controls that are neither.
LEMMA OtherAgrees ==
  ASSUME NEW n \in {37, 62, 63, 65, 66, 67}, NEW o, NEW z, \A q \in ServiceProbes(n) : z[q] = o[q]
  PROVE  OtherJudgement(n, z) = OtherJudgement(n, o)
<1>37. CASE n = 37
  BY <1>37 DEF ServiceProbes, OtherJudgement
<1>62. CASE n = 62
  BY <1>62 DEF ServiceProbes, OtherJudgement
<1>63. CASE n = 63
  BY <1>63 DEF ServiceProbes, OtherJudgement
<1>65. CASE n = 65
  BY <1>65 DEF ServiceProbes, OtherJudgement
<1>66. CASE n = 66
  BY <1>66 DEF ServiceProbes, OtherJudgement
<1>67. CASE n = 67
  BY <1>67 DEF ServiceProbes, OtherJudgement
<1> QED
  BY <1>37, <1>62, <1>63, <1>65, <1>66, <1>67

\* A service that is found without the list of enabled units is found with it.
LEMMA ActiveWithout ==
  ASSUME NEW n, NEW o, NEW probe, Active(n, Without(o, probe))
  PROVE  Active(n, o)
<1>1. /\ DOMAIN Without(o, probe) = DOMAIN o \ {probe}
      /\ \A q \in DOMAIN o \ {probe} : Without(o, probe)[q] = o[q]
  BY DEF Without
<1>2. ServiceWords(Without(o, probe)) \subseteq ServiceWords(o)
  BY <1>1 DEF ServiceWords
<1> QED
  BY <1>2 DEF Active

\* The four service controls that do not list the enabled units pass with them
\* when they pass without, and so does the control of pending updates.
LEMMA ServiceWithout ==
  ASSUME NEW n \in {40, 45, 49, 57, 64}, NEW o, NEW debian, NEW probe,
         \A q \in ServiceProbes(n) : Without(o, probe)[q] = o[q],
         ServiceJudgement(n, Without(o, probe), debian) = "PASS"
  PROVE  ServiceJudgement(n, o, debian) = "PASS"
<1> DEFINE z == Without(o, probe)
<1>1. Active(n, z) => Active(n, o)
  BY ActiveWithout
<1> HIDE DEF z
<1>2. CASE n = 40
  <2>1. z["nfs-exports"] = o["nfs-exports"]
    BY <1>2 DEF ServiceProbes, z
  <2> QED
    BY <1>1, <1>2, <2>1 DEF ServiceJudgement, IfActive, z
<1>3. CASE n \in {45, 49}
  <2>1. z["pending-security-updates"] = o["pending-security-updates"]
    BY <1>3 DEF ServiceProbes, z
  <2>2. CASE n = 45
    BY <1>1, <2>1, <2>2 DEF ServiceJudgement, IfActive, z
  <2>3. CASE n = 49
    BY <1>1, <2>1, <2>3 DEF ServiceJudgement, IfActive, z
  <2> QED
    BY <1>3, <2>2, <2>3
<1>4. CASE n = 57
  <2>1. z["ftpusers"] = o["ftpusers"]
    BY <1>4 DEF ServiceProbes, z
  <2> QED
    BY <1>1, <1>4, <2>1 DEF ServiceJudgement, IfActive, z
<1>5. CASE n = 64
  <2>1. z["pending-security-updates"] = o["pending-security-updates"]
    BY <1>5 DEF ServiceProbes, z
  <2> QED
    BY <1>5, <2>1 DEF ServiceJudgement, z
<1> QED
  BY <1>2, <1>3, <1>4, <1>5

\* The other service controls list the enabled units themselves.
LEMMA EnabledListed ==
  ASSUME NEW n \in UnixControls, n > 33, n \notin {37, 40, 45, 49, 57, 62, 63, 64, 65, 66, 67}
  PROVE  "enabled-services" \in ProbeIds(n)
<1>1. ProbeIds(n) = ServiceProbes(n)
  BY DEF ProbeIds, UnixControls
<1> QED
  BY <1>1 DEF ServiceProbes

\* A control that passes without a probe passes with it.
LEMMA OmissionOnServer ==
  ASSUME NEW n \in UnixControls, NEW o, NEW debian, NEW profile,
         NEW p \in ProbeIds(n) \cup {"enabled-services"},
         EvaluateUnix(n, Without(o, p), debian, profile).status = "PASS"
  PROVE  EvaluateUnix(n, o, debian, profile).status = "PASS"
<1> DEFINE z == Without(o, p)
<1>1. /\ DOMAIN z = DOMAIN o \ {p}
      /\ \A q \in DOMAIN o \ {p} : z[q] = o[q]
  BY DEF Without
<1> HIDE DEF z
<1>2. ProbeIds(n) \subseteq DOMAIN z /\ InitialAssessment(n, z, debian, profile) = "PASS"
  BY DEF EvaluateUnix, z
<1>3. p = "enabled-services" /\ p \notin ProbeIds(n) /\ ProbeIds(n) \subseteq DOMAIN o
  BY <1>1, <1>2
<1>4. \A q \in ProbeIds(n) : z[q] = o[q]
  BY <1>1, <1>2
<1>5. n \in 1..67
  BY DEF UnixControls
<1>6. InitialAssessment(n, o, debian, profile) = "PASS"
  <2>1. CASE n <= 13
    <3>1. n \in 1..13 /\ ProbeIds(n) = AccountProbes(n)
      BY <1>5, <2>1 DEF ProbeIds
    <3>2. AccountJudgement(n, z, profile) = AccountJudgement(n, o, profile)
      BY <1>4, <3>1, AccountAgrees
    <3> QED
      BY <1>2, <2>1, <3>2 DEF InitialAssessment
  <2>2. CASE n > 13 /\ n <= 33
    <3>1. n \in 14..33
      BY <1>5, <2>2
    <3>2. FileJudgement(n, z, profile) = FileJudgement(n, o, profile)
      BY <1>4, <3>1, FileAgrees
    <3> QED
      BY <1>2, <3>1, <3>2 DEF InitialAssessment
  <2>3. CASE n > 33 /\ n \in {37, 62, 63, 65, 66, 67}
    <3>1. ProbeIds(n) = ServiceProbes(n)
      BY <1>5, <2>3 DEF ProbeIds
    <3>2. OtherJudgement(n, z) = OtherJudgement(n, o)
      BY <1>4, <2>3, <3>1, OtherAgrees
    <3> QED
      BY <1>2, <1>5, <2>3, <3>2 DEF InitialAssessment
  <2>4. CASE n > 33 /\ n \notin {37, 62, 63, 65, 66, 67}
    <3>1. ProbeIds(n) = ServiceProbes(n) /\ n \in {40, 45, 49, 57, 64}
      BY <1>3, <1>5, <2>4, EnabledListed DEF ProbeIds
    <3>2. ServiceJudgement(n, z, debian) = "PASS"
      BY <1>2, <1>5, <2>4 DEF InitialAssessment
    <3>3. ServiceJudgement(n, o, debian) = "PASS"
      BY <1>4, <3>1, <3>2, ServiceWithout DEF z
    <3> QED
      BY <1>5, <2>4, <3>3 DEF InitialAssessment
  <2> QED
    BY <1>5, <2>1, <2>2, <2>3, <2>4
<1> QED
  BY <1>3, <1>6 DEF EvaluateUnix

-----------------------------------------------------------------------------
(* The audit of one device.                                                *)

\* The verdicts of a server are those of the outputs it keeps.
ServerInv ==
  server.stage = "judged" => server.verdicts = Judge(server.outputs, server.debian, server.profile)

ServerShape == DOMAIN server = {"stage", "debian", "outputs", "profile", "verdicts"}

DeviceInv == SwitchInv /\ ServerShape /\ ServerInv

\* No run and no verdict exists when a device is registered.
LEMMA DeviceInitEstablishes == Init => DeviceInv
  BY SwitchInitEstablishes DEF Init, DeviceInv, ServerShape, ServerInv

\* A step of the server's audit leaves the switch alone, and the other way round.
LEMMA DeviceNextKeeps == ASSUME DeviceInv, [Next]_vars PROVE DeviceInv'
<1>1. CASE SwitchNext /\ UNCHANGED server
  BY <1>1, SwitchNextKeeps DEF DeviceInv, ServerShape, ServerInv
<1>2. ASSUME NEW release \in Releases, IdentifyServer(release) PROVE DeviceInv'
  <2>1. SwitchInv'
    BY <1>2, SwitchStutterKeeps DEF DeviceInv, IdentifyServer, switchVars
  <2> DEFINE stage == IF \/ DetectDistribution(release) = "UNSUPPORTED"
                         \/ DiscoverLinux(release, Machine) \in ResolutionErrors
                         \/ DiscoverLinux(release, Machine) = "DISCOVERY_INPUT_INVALID"
                        THEN "refused" ELSE "identified"
             debian == DetectDistribution(release) \in DebianFamily
  <2>2. server' = [server EXCEPT !.stage = stage, !.debian = debian]
    BY <1>2 DEF IdentifyServer
  <2>3. stage # "judged"
    OBVIOUS
  <2> HIDE DEF stage, debian
  <2>4. ServerShape' /\ server'.stage = stage
    BY <2>2 DEF DeviceInv, ServerShape
  <2> QED
    BY <2>1, <2>3, <2>4 DEF DeviceInv, ServerInv
<1>3. ASSUME NEW raw \in ServerOutputs, NEW profile \in UnixProfiles, JudgeServer(raw, profile)
      PROVE  DeviceInv'
  <2>1. SwitchInv'
    BY <1>3, SwitchStutterKeeps DEF DeviceInv, JudgeServer, switchVars
  <2> DEFINE outputs == CollectedOutputs(raw, server.debian)
             verdicts == Judge(outputs, server.debian, profile)
  <2>2. server' = [server EXCEPT !.stage = "judged", !.outputs = outputs, !.profile = profile,
                                 !.verdicts = verdicts]
    BY <1>3 DEF JudgeServer
  <2> HIDE DEF outputs, verdicts
  <2>3. /\ ServerShape' /\ server'.outputs = outputs /\ server'.profile = profile
        /\ server'.verdicts = verdicts /\ server'.debian = server.debian
    BY <2>2 DEF DeviceInv, ServerShape
  <2> QED
    BY <2>1, <2>3 DEF DeviceInv, ServerInv, verdicts
<1>4. CASE RefuseServer
  <2>1. SwitchInv'
    BY <1>4, SwitchStutterKeeps DEF DeviceInv, RefuseServer, switchVars
  <2>2. ServerShape' /\ server'.stage = "idle"
    BY <1>4 DEF RefuseServer, DeviceInv, ServerShape
  <2> QED
    BY <2>1, <2>2 DEF DeviceInv, ServerInv
<1>5. CASE UNCHANGED vars
  BY <1>5, SwitchStutterKeeps DEF vars, switchVars, DeviceInv, ServerShape, ServerInv
<1> QED
  BY <1>1, <1>2, <1>3, <1>4, <1>5 DEF Next

\* The invariant gives the correctness properties.
LEMMA DeviceInvImplies == DeviceInv => RunEndsWhole /\ OmissionNeverPasses
<1> SUFFICES ASSUME DeviceInv PROVE RunEndsWhole /\ OmissionNeverPasses
  OBVIOUS
<1>1. SwitchInv
  BY DEF DeviceInv
<1>2. RunEndsWhole
  <2> SUFFICES ASSUME NEW r \in Runs
               PROVE  /\ (runs[r].result # <<>>) <=> (runs[r].status = "COMPLETED")
                      /\ "RUN_COMPLETED" \in {events[r][i] : i \in DOMAIN events[r]}
                           => runs[r].status = "COMPLETED"
                      /\ runs[r].status = "COMPLETED" => session[r] = "closed"
                      /\ thread[r].pc \in {"done", "dead"} /\ session[r] = "open"
                           => count.faults + count.crashes > 0
    BY DEF RunEndsWhole
  <2>1. RunInv(runs[r], events[r], thread[r], session[r], Bad)
    BY <1>1, RunFacts
  <2>2. runs[r].status = "COMPLETED" => runs[r].result # <<>>
    <3> DEFINE v == Verdict(thread[r].answers[1], thread[r].privilege, thread[r].profile)
    <3>1. runs[r].status = "COMPLETED" => runs[r].result = <<v>>
      BY <2>1 DEF RunInv, Completed
    <3> HIDE DEF v
    <3> QED
      BY <3>1
  <2> QED
    BY <2>1, <2>2 DEF RunInv, Completed, Bad
<1>3. ASSUME server.stage = "judged", NEW n \in UnixControls,
             NEW p \in (ProbeIds(n) \cup {"enabled-services"}) \cap DOMAIN server.outputs,
             EvaluateUnix(n, Without(server.outputs, p), server.debian, server.profile).status = "PASS"
      PROVE  server.verdicts[n].status = "PASS"
  <2>1. server.verdicts[n] = EvaluateUnix(n, server.outputs, server.debian, server.profile)
    BY <1>3 DEF DeviceInv, ServerInv, Judge
  <2> QED
    BY <1>3, <2>1, OmissionOnServer
<1>4. ASSUME NEW r \in Runs, runs[r].status = "COMPLETED", NEW n \in NetworkControlIds,
             Verdict(Silent(thread[r].answers[1]), thread[r].privilege, thread[r].profile)[n].status = "PASS"
      PROVE  runs[r].result[1][n].status = "PASS"
  <2>1. Completed(runs[r], thread[r], session[r]) /\ thread[r] \in ThreadRow
    BY <1>1, <1>4, RunFacts DEF RunInv
  <2>2. thread[r].answers[1] \in Answers
    BY <2>1 DEF Completed, ThreadRow
  <2>3. runs[r].result[1] = Verdict(thread[r].answers[1], thread[r].privilege, thread[r].profile)
    BY <2>1 DEF Completed
  <2> QED
    BY <1>4, <2>2, <2>3, SilentNeverPasses
<1>5. OmissionNeverPasses
  BY <1>3, <1>4 DEF OmissionNeverPasses, Verdict
<1> QED
  BY <1>2, <1>5

\* A run of the switch has a result exactly when it is COMPLETED, of a session that
\* was closed, whatever failed before or after finish_switch_audit_run committed;
\* a session is left open only by a device, a network or a process that failed.
THEOREM RunsEndWhole == Spec => []RunEndsWhole
  BY DeviceInitEstablishes, DeviceNextKeeps, DeviceInvImplies, PTL DEF Spec

\* Evidence a server or a switch leaves out never earns a PASS it would not have
\* with it, for any outputs, answers and criteria.
THEOREM OmissionsNeverPass == Spec => []OmissionNeverPasses
  BY DeviceInitEstablishes, DeviceNextKeeps, DeviceInvImplies, PTL DEF Spec

-----------------------------------------------------------------------------
(* The streams that explain a result.                                      *)

StreamPcs == Generating \cup {"idle", "refused", "completed", "failed", "cancelled", "left"}
StreamRow == [pc : StreamPcs, key : Keys, fails : 0..ProviderLimit, told : SUBSET Keys,
              cancelled : BOOLEAN]

\* Only the failure that ends a stream reaches the limit.
FailsBelow(row) ==
  row.pc \in Generating \cup {"idle"} => row.fails < ProviderLimit
FailuresBelowLimit == \A x \in Streams : FailsBelow(stream[x])

\* What a stream has sent as explained is stored, unless a write has failed.
ToldIsStored ==
  mishaps.faults = 0 => \A x \in Streams : \A k \in stream[x].told : output[k] # Nobody

AiInv == AiTypeOK /\ OneGenerator /\ FailuresBelowLimit /\ ToldIsStored

-----------------------------------------------------------------------------
(* What a step of one generator does to each part of the state; together   *)
(* they keep the invariant.                                                *)

\* Stream x goes on as row; the slot is left alone, or was free or its own.
StreamStep(x, row) ==
  /\ row \in StreamRow
  /\ stream' = [stream EXCEPT ![x] = row]
  /\ FailsBelow(row)

SlotStep(x, row) ==
  /\ slot' \in {slot, Nobody, x}
  /\ slot' # slot => slot \in {Nobody, x}
  /\ row.pc \in Generating => slot' = x

\* Outputs are never removed, and what the stream has now sent is among them.
OutputStep(row) ==
  /\ output' \in [Keys -> Streams \cup {Nobody}]
  /\ \A k \in Keys : output[k] # Nobody => output'[k] # Nobody
  /\ mishaps' \in [crashes : 0..MaxRestarts, faults : 0..MaxUnstored]
  /\ mishaps'.faults = 0 => mishaps.faults = 0 /\ \A k \in row.told : output'[k] # Nobody

\* A step of one generator with these effects keeps the invariant, whatever
\* event or error the generator took.
LEMMA EffectsKeep ==
  ASSUME AiInv, NEW x \in Streams, NEW row, UNCHANGED canceller,
         StreamStep(x, row), SlotStep(x, row), OutputStep(row)
  PROVE  AiInv'
<1>1. stream \in [Streams -> StreamRow] /\ stream' \in [Streams -> StreamRow]
  BY DEF AiInv, AiTypeOK, StreamStep, StreamRow, StreamPcs
<1>2. /\ stream'[x] = row
      /\ \A y \in Streams : y # x => stream'[y] = stream[y]
  BY <1>1 DEF StreamStep
<1>3. AiTypeOK'
  BY <1>1 DEF AiInv, AiTypeOK, SlotStep, OutputStep, StreamRow, StreamPcs
<1>4. OneGenerator'
  <2> SUFFICES ASSUME NEW y \in Streams, stream'[y].pc \in Generating
               PROVE  slot' = y
    BY DEF OneGenerator
  <2>1. CASE y = x
    BY <1>2, <2>1 DEF SlotStep
  <2>2. CASE y # x
    <3>1. slot = y
      BY <1>2, <2>2 DEF AiInv, OneGenerator
    <3> QED
      BY <3>1, <2>2, AiAssumption DEF SlotStep
  <2> QED
    BY <2>1, <2>2
<1>5. FailuresBelowLimit'
  BY <1>2 DEF AiInv, FailuresBelowLimit, FailsBelow, StreamStep
<1>6. ToldIsStored'
  <2> SUFFICES ASSUME mishaps'.faults = 0, NEW y \in Streams, NEW k \in stream'[y].told
               PROVE  output'[k] # Nobody
    BY DEF ToldIsStored
  <2>1. k \in Keys
    BY <1>1 DEF StreamRow
  <2>2. CASE y = x
    BY <1>2, <2>2 DEF OutputStep
  <2>3. CASE y # x
    BY <1>2, <2>1, <2>3 DEF AiInv, ToldIsStored, OutputStep
  <2> QED
    BY <2>2, <2>3
<1> QED
  BY <1>3, <1>4, <1>5, <1>6 DEF AiInv

-----------------------------------------------------------------------------
(* The steps the actions are made of.                                      *)

\* The facts every action starts from.
LEMMA StreamFacts ==
  ASSUME AiInv, NEW x \in Streams
  PROVE  /\ stream[x] \in StreamRow
         /\ FailsBelow(stream[x])
         /\ stream[x].pc \in Generating => slot = x
         /\ mishaps.faults = 0 => \A k \in stream[x].told : output[k] # Nobody
  BY DEF AiInv, AiTypeOK, OneGenerator, FailuresBelowLimit, ToldIsStored, StreamRow, StreamPcs

\* A step that stores nothing and sends nothing as explained.
LEMMA SameOutputs ==
  ASSUME AiInv, NEW x \in Streams, NEW row, row.told = stream[x].told,
         UNCHANGED <<output, mishaps>>
  PROVE  OutputStep(row)
  BY DEF AiInv, AiTypeOK, ToldIsStored, OutputStep

\* A step to another place of the generator that keeps its counters.
LEMMA NewPc ==
  ASSUME AiInv, NEW x \in Streams, NEW how \in StreamPcs,
         stream[x].pc \in Generating \cup {"idle"},
         stream' = [stream EXCEPT ![x].pc = how]
  PROVE  /\ StreamStep(x, [stream[x] EXCEPT !.pc = how])
         /\ [stream[x] EXCEPT !.pc = how].told = stream[x].told
         /\ [stream[x] EXCEPT !.pc = how].pc = how
  BY StreamFacts DEF StreamStep, StreamRow, FailsBelow

\* The same, with the slot and the outputs left alone: a stream that holds the
\* slot goes on holding it.
LEMMA NewPcSameSlot ==
  ASSUME AiInv, NEW x \in Streams, NEW how \in StreamPcs,
         stream[x].pc \in Generating \cup {"idle"},
         how \in Generating => stream[x].pc \in Generating,
         stream' = [stream EXCEPT ![x].pc = how],
         UNCHANGED <<slot, output, canceller, mishaps>>
  PROVE  AiInv'
<1> DEFINE row == [stream[x] EXCEPT !.pc = how]
<1>1. StreamStep(x, row) /\ row.told = stream[x].told /\ row.pc = how
  BY NewPc
<1>2. SlotStep(x, row)
  BY <1>1, StreamFacts DEF SlotStep
<1>3. OutputStep(row)
  BY <1>1, SameOutputs
<1> HIDE DEF row
<1> QED
  BY <1>1, <1>2, <1>3, EffectsKeep

\* The finally clause frees the slot of the stream that runs it.
LEMMA LeaveKeeps ==
  ASSUME AiInv, NEW x \in Streams, NEW how \in StreamPcs \ Generating,
         stream[x].pc \in Guarded, Leave(x, how),
         UNCHANGED <<output, canceller, mishaps>>
  PROVE  AiInv'
<1> DEFINE row == [stream[x] EXCEPT !.pc = how]
<1>1. StreamStep(x, row) /\ row.told = stream[x].told /\ row.pc = how
  BY NewPc DEF Leave, Generating
<1>2. SlotStep(x, row)
  BY <1>1, StreamFacts DEF SlotStep, Leave, SlotAfter, Generating
<1>3. OutputStep(row)
  BY <1>1, SameOutputs
<1> HIDE DEF row
<1> QED
  BY <1>1, <1>2, <1>3, EffectsKeep

\* Going on with the next key keeps the slot, and completing frees it.
LEMMA AdvanceKeeps ==
  ASSUME AiInv, NEW x \in Streams, NEW rec \in StreamRow,
         stream[x].pc \in Guarded, rec.pc \in Guarded, rec.fails < ProviderLimit,
         Advance(x, rec), OutputStep(rec), UNCHANGED canceller
  PROVE  AiInv'
<1> USE DEF StreamRow, StreamPcs, Keys, Generating, Guarded
<1>1. slot = x
  BY StreamFacts
<1>2. CASE LastKey(rec.key)
  <2> DEFINE row == [rec EXCEPT !.pc = "completed"]
  <2>1. row \in StreamRow /\ row.told = rec.told /\ row.pc = "completed"
    OBVIOUS
  <2>2. StreamStep(x, row)
    BY <1>2, <2>1 DEF Advance, StreamStep, FailsBelow
  <2>3. SlotStep(x, row)
    BY <1>1, <1>2, <2>1 DEF Advance, SlotAfter, SlotStep
  <2>4. OutputStep(row)
    BY <2>1 DEF OutputStep
  <2> HIDE DEF row
  <2> QED
    BY <2>2, <2>3, <2>4, EffectsKeep
<1>3. CASE ~LastKey(rec.key)
  <2> DEFINE row == [rec EXCEPT !.pc = "check", !.key = @ + 1]
  <2>1. rec.key + 1 \in 0..Controls
    BY <1>3, AiAssumption DEF LastKey
  <2>2. row \in StreamRow /\ row.told = rec.told /\ row.pc = "check"
        /\ row.fails = rec.fails
    BY <2>1
  <2>3. StreamStep(x, row)
    BY <1>3, <2>2 DEF Advance, StreamStep, FailsBelow
  <2>4. SlotStep(x, row)
    BY <1>1, <1>3, <2>2 DEF Advance, SlotStep
  <2>5. OutputStep(row)
    BY <2>2 DEF OutputStep
  <2> HIDE DEF row
  <2> QED
    BY <2>3, <2>4, <2>5, EffectsKeep
<1> QED
  BY <1>2, <1>3

-----------------------------------------------------------------------------
(* One lemma per operation.                                                *)

\* _AI_CANCELLATIONS is empty when a request registers its event, so nobody
\* else generates.
LEMMA OpenKeeps == ASSUME AiInv, NEW x \in Streams, Open(x) PROVE AiInv'
<1> USE DEF StreamPcs, Generating, Guarded
<1>1. CASE SlotFree /\ slot' = x /\ stream' = [stream EXCEPT ![x].pc = "registered"]
  <2> DEFINE row == [stream[x] EXCEPT !.pc = "registered"]
  <2>1. StreamStep(x, row) /\ row.told = stream[x].told /\ row.pc = "registered"
    BY <1>1, NewPc DEF Open
  <2>2. SlotStep(x, row)
    BY <1>1 DEF SlotStep, SlotFree
  <2>3. OutputStep(row) /\ UNCHANGED canceller
    BY <2>1, SameOutputs DEF Open
  <2> HIDE DEF row
  <2> QED
    BY <2>1, <2>2, <2>3, EffectsKeep
<1>2. CASE stream' = [stream EXCEPT ![x].pc = "refused"] /\ UNCHANGED slot
  BY <1>2, NewPcSameSlot DEF Open
<1> QED
  BY <1>1, <1>2 DEF Open

\* A control whose output is stored already is sent from the store.
LEMMA LoadOutputKeeps == ASSUME AiInv, NEW x \in Streams, LoadOutput(x) PROVE AiInv'
<1> USE DEF StreamPcs, Generating, Guarded
<1> DEFINE key == stream[x].key
           rec == [stream[x] EXCEPT !.told = @ \cup {key}]
<1>1. stream[x].pc = "load"
  BY DEF LoadOutput
<1>2. CASE output[OutputKey(key)] # Nobody /\ Advance(x, rec)
  <2>1. stream[x] \in StreamRow /\ stream[x].fails < ProviderLimit
    BY <1>1, StreamFacts DEF FailsBelow
  <2>2. /\ rec \in StreamRow /\ rec.pc = "load" /\ rec.fails = stream[x].fails
        /\ rec.told = stream[x].told \cup {key}
    BY <1>1, <2>1 DEF StreamRow
  <2>3. OutputStep(rec)
    BY <1>2, <2>2, StreamFacts DEF LoadOutput, OutputStep, OutputKey, AiInv, AiTypeOK
  <2> HIDE DEF rec, key
  <2> QED
    BY <1>1, <1>2, <2>1, <2>2, <2>3, AdvanceKeeps DEF LoadOutput
<1>3. CASE stream' = [stream EXCEPT ![x].pc = "generate"] /\ UNCHANGED slot
  <2>1. "generate" \in StreamPcs /\ stream[x].pc \in Generating
    BY <1>1
  <2>2. UNCHANGED <<slot, output, canceller, mishaps>>
    BY <1>3 DEF LoadOutput
  <2> HIDE DEF StreamPcs, Generating
  <2> QED
    BY <1>3, <2>1, <2>2, NewPcSameSlot
<1> QED
  BY <1>2, <1>3 DEF LoadOutput

\* append_ai_output keeps a row that is there already, and a write that fails
\* is counted: the explanation has been sent all the same.
LEMMA GenerateKeeps == ASSUME AiInv, NEW x \in Streams, Generate(x) PROVE AiInv'
<1> USE DEF StreamPcs, Generating, Guarded
<1> DEFINE key == stream[x].key
           rec == [stream[x] EXCEPT !.told = @ \cup {key}, !.fails = IF key = 0 THEN @ ELSE 0]
<1>1. stream[x].pc = "generate" /\ Advance(x, rec) /\ UNCHANGED canceller
  BY DEF Generate
<1>2. /\ stream[x] \in StreamRow /\ stream[x].fails < ProviderLimit
      /\ stream[x].fails \in Nat /\ ProviderLimit \in Nat \ {0}
  BY <1>1, StreamFacts, AiAssumption DEF FailsBelow, StreamRow
<1>3. key \in Keys
  BY <1>2 DEF StreamRow
<1>4. /\ rec \in StreamRow /\ rec.pc = "generate"
      /\ rec.told = stream[x].told \cup {key}
      /\ rec.fails \in {0, stream[x].fails}
  <2>1. CASE key = 0
    BY <1>1, <1>2, <1>3, <2>1 DEF StreamRow
  <2>2. CASE key # 0
    <3>1. rec = [stream[x] EXCEPT !.told = @ \cup {key}, !.fails = 0]
      BY <2>2
    <3>2. 0 \in 0..ProviderLimit
      BY <1>2
    <3> HIDE DEF rec
    <3> QED
      BY <1>1, <1>2, <1>3, <3>1, <3>2 DEF StreamRow
  <2> QED
    BY <2>1, <2>2
<1>5. OutputStep(rec)
  <2>1. CASE output' = Stored(OutputKey(key), x) /\ UNCHANGED mishaps
    <3>1. /\ output' \in [Keys -> Streams \cup {Nobody}]
          /\ \A k \in Keys : output[k] # Nobody => output'[k] # Nobody
          /\ output'[key] # Nobody
      BY <1>3, <2>1, AiAssumption DEF AiInv, AiTypeOK, Stored, OutputKey
    <3>2. ASSUME mishaps'.faults = 0, NEW k \in rec.told
          PROVE  output'[k] # Nobody
      <4>1. k = key \/ (k \in stream[x].told /\ k \in Keys)
        BY <1>2, <1>4 DEF StreamRow
      <4>2. mishaps.faults = 0
        BY <2>1, <3>2
      <4> HIDE DEF rec, key
      <4> QED
        BY <3>1, <4>1, <4>2, StreamFacts
    <3> QED
      BY <2>1, <3>1, <3>2 DEF AiInv, AiTypeOK, OutputStep
  <2>2. CASE /\ mishaps.faults < MaxUnstored
             /\ mishaps' = [mishaps EXCEPT !.faults = @ + 1]
             /\ UNCHANGED output
    <3>1. mishaps \in [crashes : 0..MaxRestarts, faults : 0..MaxUnstored] /\ MaxUnstored \in Nat
      BY AiAssumption DEF AiInv, AiTypeOK
    <3>2. /\ mishaps' \in [crashes : 0..MaxRestarts, faults : 0..MaxUnstored]
          /\ mishaps'.faults # 0
      BY <2>2, <3>1
    <3> QED
      BY <2>2, <3>2 DEF AiInv, AiTypeOK, OutputStep
  <2> QED
    BY <2>1, <2>2 DEF Generate
<1> HIDE DEF rec, key
<1> QED
  BY <1>1, <1>2, <1>4, <1>5, AdvanceKeeps

\* The failure that reaches the limit ends the stream and frees its slot.
LEMMA ProviderFailsKeeps == ASSUME AiInv, NEW x \in Streams, ProviderFails(x) PROVE AiInv'
<1> USE DEF StreamPcs, Generating, Guarded
<1> DEFINE rec == [stream[x] EXCEPT !.fails = IF stream[x].key = 0 THEN @ ELSE @ + 1]
<1>1. stream[x].pc = "generate" /\ UNCHANGED <<output, canceller, mishaps>>
  BY DEF ProviderFails
<1>2. /\ stream[x] \in StreamRow /\ stream[x].fails < ProviderLimit
      /\ stream[x].fails \in Nat /\ ProviderLimit \in Nat \ {0}
  BY <1>1, StreamFacts, AiAssumption DEF FailsBelow, StreamRow
<1>3. /\ rec \in StreamRow /\ rec.pc = "generate" /\ rec.told = stream[x].told
      /\ rec.fails \in Nat
  BY <1>1, <1>2 DEF StreamRow
<1>4. CASE /\ slot' = SlotAfter("failed")
           /\ stream' = [stream EXCEPT ![x] = [rec EXCEPT !.pc = "failed"]]
  <2> DEFINE row == [rec EXCEPT !.pc = "failed"]
  <2>1. row \in StreamRow /\ row.told = stream[x].told /\ row.pc = "failed"
    BY <1>3 DEF StreamRow
  <2>2. StreamStep(x, row)
    BY <1>4, <2>1 DEF StreamStep, FailsBelow
  <2>3. SlotStep(x, row)
    BY <1>1, <1>4, <2>1, StreamFacts DEF SlotStep, SlotAfter
  <2>4. OutputStep(row)
    BY <1>1, <2>1, SameOutputs
  <2> HIDE DEF row
  <2> QED
    BY <1>1, <2>2, <2>3, <2>4, EffectsKeep
<1>5. CASE ~GivesUp(rec.fails) /\ Advance(x, rec)
  <2>1. rec.fails < ProviderLimit
    BY <1>2, <1>3, <1>5 DEF GivesUp
  <2>2. OutputStep(rec)
    BY <1>1, <1>3, SameOutputs
  <2> HIDE DEF rec
  <2> QED
    BY <1>1, <1>3, <1>5, <2>1, <2>2, AdvanceKeeps
<1> QED
  BY <1>4, <1>5 DEF ProviderFails

\* An unusable answer only resets the count of failures.
LEMMA AnswerRejectedKeeps == ASSUME AiInv, NEW x \in Streams, AnswerRejected(x) PROVE AiInv'
<1> USE DEF StreamPcs, Generating, Guarded
<1> DEFINE rec == [stream[x] EXCEPT !.fails = 0]
<1>1. /\ stream[x].pc = "generate" /\ Advance(x, rec)
      /\ UNCHANGED <<output, canceller, mishaps>>
  BY DEF AnswerRejected
<1>2. stream[x] \in StreamRow /\ ProviderLimit \in Nat \ {0}
  BY StreamFacts, AiAssumption
<1>3. /\ rec \in StreamRow /\ rec.pc = "generate" /\ rec.told = stream[x].told
      /\ rec.fails = 0
  BY <1>1, <1>2 DEF StreamRow
<1>4. OutputStep(rec)
  BY <1>1, <1>3, SameOutputs
<1> HIDE DEF rec
<1> QED
  BY <1>1, <1>2, <1>3, <1>4, AdvanceKeeps

\* A stream whose browser leaves before the try has begun keeps its slot: the
\* finally clause is not reached.
LEMMA DisconnectKeeps == ASSUME AiInv, NEW x \in Streams, Disconnect(x) PROVE AiInv'
<1> USE DEF StreamPcs, Generating, Guarded
<1>1. CASE stream[x].pc \in Guarded /\ Leave(x, "left")
  BY <1>1, LeaveKeeps DEF Disconnect
<1>2. CASE /\ stream[x].pc \in {"registered", "started"}
           /\ stream' = [stream EXCEPT ![x].pc = "left"]
           /\ UNCHANGED slot
  BY <1>2, NewPcSameSlot DEF Disconnect
<1> QED
  BY <1>1, <1>2 DEF Disconnect

\* cancel_linux_ai and cancel_switch_ai write no output and free no slot.
LEMMA CancelKeeps ==
  ASSUME AiInv, NEW c \in Cancellers, FindEvent(c) \/ SetEvent(c)
  PROVE  AiInv'
<1>1. CASE FindEvent(c)
  BY <1>1 DEF FindEvent, AiInv, AiTypeOK, OneGenerator, FailuresBelowLimit, FailsBelow,
     ToldIsStored
<1>2. CASE SetEvent(c)
  <2> DEFINE x == canceller[c]
  <2>1. x \in Streams /\ stream \in [Streams -> StreamRow]
    BY <1>2 DEF SetEvent, AiInv, AiTypeOK, StreamRow, StreamPcs
  <2>2. stream' = [stream EXCEPT ![x].cancelled = TRUE]
    BY <1>2 DEF SetEvent
  <2>3. /\ stream' \in [Streams -> StreamRow]
        /\ \A y \in Streams : /\ stream'[y].pc = stream[y].pc
                              /\ stream'[y].fails = stream[y].fails
                              /\ stream'[y].told = stream[y].told
    BY <2>1, <2>2 DEF StreamRow
  <2> HIDE DEF x
  <2>4. AiTypeOK'
    BY <1>2, <2>3 DEF SetEvent, AiInv, AiTypeOK, StreamRow, StreamPcs
  <2> QED
    BY <1>2, <2>3, <2>4 DEF SetEvent, AiInv, OneGenerator, FailuresBelowLimit, FailsBelow,
       ToldIsStored
<1> QED
  BY <1>1, <1>2

\* A restart empties the registry and ends every generator; the outputs stay.
LEMMA AiCrashKeeps == ASSUME AiInv, Crash PROVE AiInv'
<1>1. stream \in [Streams -> StreamRow] /\ MaxRestarts \in Nat
  BY AiAssumption DEF AiInv, AiTypeOK, StreamRow, StreamPcs
<1>2. \A y \in Streams : /\ stream'[y] \in StreamRow
                         /\ stream'[y].pc \notin Generating
                         /\ stream'[y].pc = "idle" => stream[y].pc = "idle"
                         /\ stream'[y].fails = stream[y].fails
                         /\ stream'[y].told = stream[y].told
  BY <1>1 DEF Crash, StreamRow, StreamPcs, Generating, Guarded
<1>3. stream' \in [Streams -> StreamRow]
  BY <1>2 DEF Crash
<1>4. mishaps' \in [crashes : 0..MaxRestarts, faults : 0..MaxUnstored]
      /\ mishaps'.faults = mishaps.faults
  BY <1>1 DEF Crash, AiInv, AiTypeOK
<1>5. AiTypeOK'
  BY <1>3, <1>4 DEF Crash, AiInv, AiTypeOK, StreamRow, StreamPcs
<1> QED
  BY <1>2, <1>4, <1>5 DEF Crash, AiInv, OneGenerator, FailuresBelowLimit, FailsBelow,
     ToldIsStored

-----------------------------------------------------------------------------
\* The registry is empty, nothing is stored and nothing has been sent when the
\* API process starts with an empty database.
LEMMA AiInitEstablishes == AiInit => AiInv
  BY AiAssumption DEF AiInit, NewStream, AiInv, AiTypeOK, Keys, Generating, Guarded, OneGenerator,
     FailuresBelowLimit, FailsBelow, ToldIsStored

\* Every step of a generator, a cancellation and a restart keeps the invariant.
LEMMA AiNextKeeps == ASSUME AiInv, [AiNext]_aiVars PROVE AiInv'
<1> USE DEF StreamPcs, Generating, Guarded
<1>1. ASSUME NEW x \in Streams, Open(x) PROVE AiInv'
  BY <1>1, OpenKeeps
<1>2. ASSUME NEW x \in Streams, Begin(x) \/ ServiceFails(x) \/ EnterTry(x) \/ StartControl(x)
      PROVE  AiInv'
  <2>1. CASE Begin(x)
    <3>1. "started" \in StreamPcs /\ stream[x].pc \in Generating
      BY <2>1 DEF Begin
    <3> HIDE DEF StreamPcs, Generating
    <3> QED
      BY <2>1, <3>1, NewPcSameSlot DEF Begin
  <2>2. CASE ServiceFails(x)
    BY <2>2, NewPcSameSlot DEF ServiceFails
  <2>3. CASE EnterTry(x) \/ StartControl(x)
    <3>1. "load" \in StreamPcs /\ stream[x].pc \in Generating
      BY <2>3 DEF EnterTry, StartControl
    <3> HIDE DEF StreamPcs, Generating
    <3> QED
      BY <2>3, <3>1, NewPcSameSlot DEF EnterTry, StartControl
  <2> QED
    BY <1>2, <2>1, <2>2, <2>3
<1>3. ASSUME NEW x \in Streams, CancelSeen(x) \/ UnexpectedError(x) PROVE AiInv'
  BY <1>3, LeaveKeeps DEF CancelSeen, UnexpectedError
<1>4. ASSUME NEW x \in Streams, LoadOutput(x) PROVE AiInv'
  BY <1>4, LoadOutputKeeps
<1>5. ASSUME NEW x \in Streams, Generate(x) PROVE AiInv'
  BY <1>5, GenerateKeeps
<1>6. ASSUME NEW x \in Streams, ProviderFails(x) PROVE AiInv'
  BY <1>6, ProviderFailsKeeps
<1>7. ASSUME NEW x \in Streams, AnswerRejected(x) PROVE AiInv'
  BY <1>7, AnswerRejectedKeeps
<1>8. ASSUME NEW x \in Streams, Disconnect(x) PROVE AiInv'
  BY <1>8, DisconnectKeeps
<1>9. ASSUME NEW c \in Cancellers, FindEvent(c) \/ SetEvent(c) PROVE AiInv'
  BY <1>9, CancelKeeps
<1>10. CASE Crash
  BY <1>10, AiCrashKeeps
<1>11. CASE UNCHANGED aiVars
  BY <1>11 DEF aiVars, AiInv, AiTypeOK, OneGenerator, FailuresBelowLimit, FailsBelow, ToldIsStored
<1> QED
  BY <1>1, <1>2, <1>3, <1>4, <1>5, <1>6, <1>7, <1>8, <1>9, <1>10, <1>11 DEF AiNext, Draw

\* A stream that has sent every explanation has stored every output, as long
\* as no write has failed.
LEMMA AiInvImplies == AiInv => AiTypeOK /\ OneGenerator /\ CompletedIsRestorable
  BY DEF AiInv, ToldIsStored, CompletedIsRestorable, SnapshotAvailable

\* The registry, the generators and the stored outputs keep their types; in
\* particular no stream counts more failures than the limit.
THEOREM AiTypeCorrect == AiSpec => []AiTypeOK
  BY AiInitEstablishes, AiNextKeeps, AiInvImplies, PTL DEF AiSpec

\* One stream at a time explains a result, and it holds the slot that
\* cancel_linux_ai and cancel_switch_ai look up.
THEOREM OneGeneratorAlways == AiSpec => []OneGenerator
  BY AiInitEstablishes, AiNextKeeps, AiInvImplies, PTL DEF AiSpec

\* The page of a stream that explained everything and stored it is restored
\* from the outputs, without the model, whatever streams and restarts came
\* between.
THEOREM CompletedRestorableAlways == AiSpec => []CompletedIsRestorable
  BY AiInitEstablishes, AiNextKeeps, AiInvImplies, PTL DEF AiSpec
=============================================================================
