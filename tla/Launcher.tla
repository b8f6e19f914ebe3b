------------------------------ MODULE Launcher ------------------------------
(***************************************************************************)
(* The local launcher of the collector: the loopback bridge the product    *)
(* page talks to, the thread that scans the PC, and the elevated child     *)
(* that runs the administrator probes the user consented to.               *)
(*   collector/launcher.py, collector/administrator_launcher.py,           *)
(*   application/windows_host_collection_acceptance.py                     *)
(*                                                                         *)
(* A step of the scan thread ends where it may see a cancellation or waits *)
(* for the bridge's lock. What a script prints, and whether it ends, is    *)
(* chosen when it runs. Wording, progress, job ids and references are out.*)
(***************************************************************************)
EXTENDS HostAssessment, WindowsCollector, ResultComparison

CONSTANTS
  Criteria,             \* the criteria snapshots the page may send
  StandardRuns,         \* [p, out] of imp031_standard_controls.ps1
  StorageRuns,          \* [p, out] of pc07_storage_context.ps1
  InventoryRuns,        \* [p, out] of vulnerability_inventory.ps1
  SnapshotRuns,         \* [p, json] of imp030_safety_snapshot.ps1
  AdministratorRuns,    \* [p, out] of imp031_administrator_controls.ps1
  Consents,             \* what /v1/administrator/launch may be sent
  Bundle,               \* [build, records, files] the program was built with
  Contents,             \* what the five surfaces a snapshot digests may hold
  Host, Script, SafetyPolicy, Adapters, Null,
  MaxAttempts, MaxChanges, MaxElevations, MaxRelaunches

\* The script prints a JSON array of results, and no record of a probe that
\* failed (records = @() in the handler of imp031_standard_controls.ps1).
ASSUME LauncherAssumption ==
  /\ Null \notin Nat /\ Null \notin Contents
  /\ \A run \in StandardRuns :
       /\ DOMAIN run.out.results = 1..Len(run.out.results)
       /\ \A i \in DOMAIN run.out.results :
            run.out.results[i].status # "COLLECTED" => run.out.results[i].shape = "none"

VARIABLES
  bridge,      \* _BridgeState
  scan,        \* the thread of the latest attempt; seen: the settings its storage probes met
               \* (the others read none of them), changes: how often they changed since the first snapshot
  settings,    \* execution policy, disk flags, partitions, filesystems and BitLocker state
  elevation,   \* the handler of /v1/administrator/launch, while it runs
  children,    \* elevated processes, oldest first
  count        \* how often what is bounded happened

launcherVars == <<bridge, scan, settings, elevation, children, count>>

NoScan == [pc |-> "none", before |-> Null, context |-> Null, observations |-> {}, collected |-> <<>>,
           inventory |-> Null, rows |-> <<>>, seen |-> {}, changes |-> 0]
Ready == [status |-> "READY", attempt |-> 0, history |-> <<>>, criteria |-> <<>>,
          cancel |-> FALSE, administrator |-> "NOT_REQUESTED", selected |-> <<>>, token |-> Null]

LauncherInit ==
  /\ bridge = Ready /\ scan = NoScan /\ settings \in Contents
  /\ elevation = [pc |-> "idle", selected |-> <<>>, outcome |-> Null]
  /\ children = <<>>
  /\ count = [attempts |-> 0, elevations |-> 0, relaunches |-> 0]

(* ------------------------------ the bridge ---------------------------- *)
AllowedWhileCancelling ==
  [scan |-> {"READY"}, retry |-> {"CANCELLED", "CANCELLING", "FAILED"}, recheck |-> {"COMPLETED"}]
Allowed == [scan |-> {"READY"}, retry |-> {"CANCELLED", "FAILED"}, recheck |-> {"COMPLETED"}]

\* A thread that is created and not yet started is not alive.
Alive == scan.pc \notin {"none", "created", "done"}

\* criteria is <<>> when the body is empty: the ones of the last scan stay.
BeginScan(action, criteria) ==
  /\ bridge.status \in Allowed[action] /\ ~Alive
  /\ criteria # <<>> => CriteriaAccepted(criteria[1])
  /\ count.attempts < MaxAttempts
  /\ bridge' = [bridge EXCEPT !.status = "RUNNING", !.attempt = @ + 1, !.cancel = FALSE,
                              !.criteria = IF criteria = <<>> THEN @ ELSE <<criteria[1].values>>]
  /\ scan' = [NoScan EXCEPT !.pc = "created"]
  /\ count' = [count EXCEPT !.attempts = @ + 1]
  /\ UNCHANGED <<settings, elevation, children>>

\* worker.start(), after the lock is released.
StartWorker ==
  /\ scan.pc = "created"
  /\ scan' = [scan EXCEPT !.pc = "prepare"]
  /\ UNCHANGED <<bridge, settings, elevation, children, count>>

CancelScan ==
  /\ bridge.status = "RUNNING"
  /\ bridge' = [bridge EXCEPT !.status = "CANCELLING", !.cancel = TRUE]
  /\ UNCHANGED <<scan, settings, elevation, children, count>>

(* ------------------------------ the scan ------------------------------ *)
Ending == {"failed", "cancelled", "over"}
\* Nothing of what the thread has collected outlives its end.
Goto(pc) == scan' = IF pc \in Ending THEN [NoScan EXCEPT !.pc = pc] ELSE [scan EXCEPT !.pc = pc]

Progress == bridge' = IF bridge.cancel THEN bridge ELSE [bridge EXCEPT !.status = "RUNNING"]

Quiet == UNCHANGED <<settings, elevation, children, count>>

\* A checkpoint looks for a cancellation first.
Checkpoint(pc, next) ==
  /\ scan.pc = pc
  /\ IF bridge.cancel THEN Goto("cancelled") /\ UNCHANGED bridge ELSE Goto(next) /\ Progress
  /\ Quiet

Prepare == Checkpoint("prepare", "loaded")
Baseline == PolicyAccepted(SafetyPolicy) /\ Checkpoint("loaded", "before")
AccountAndProtection == Checkpoint("captured", "standard")
Summarizing == Checkpoint("verified", "summarize")

TakeSnapshot(run, ok) ==
  IF Capture(SafetyPolicy, Host, Script, run.p, run.json) = Accepted THEN ok ELSE "failed"

CaptureBefore(run) ==
  /\ scan.pc = "before"
  /\ scan' = [scan EXCEPT !.pc = TakeSnapshot(run, "captured"), !.before = settings]
  /\ UNCHANGED bridge /\ Quiet

Request(id, controls, privilege) ==
  [id |-> id, version |-> "0.1.0", controls |-> controls, privilege |-> privilege, timeout |-> 30, output |-> 65536]
ControlOf == \* the one control of each probe
  [id \in {StandardProbes[i] : i \in DOMAIN StandardProbes}
            \cup {AdministratorProbes[i] : i \in DOMAIN AdministratorProbes}
            \cup {StorageProbeIds[i] : i \in DOMAIN StorageProbeIds} |->
     CASE id = "win.security.password-age" -> "PC-01"
       [] id = "win.security.password-policy" -> "PC-02"
       [] id = "win.security.recovery-console" -> "PC-03"
       [] id = "win.network.smb-shares" -> "PC-04"
       [] id = "win.services.inventory" -> "PC-05"
       [] id = "win.software.messengers" -> "PC-06"
       [] id = "win.boot.entries" -> "PC-08"
       [] id = "win.browser.wininet-cache-policy" -> "PC-09"
       [] id = "win.update.compliance" -> "PC-10"
       [] id = "win.os.lifecycle" -> "PC-11"
       [] id = "win.autologon.config" -> "PC-12"
       [] id = "win.antivirus.update-status" -> "PC-13"
       [] id = "win.antivirus.realtime-status" -> "PC-14"
       [] id = "win.firewall.effective-profiles" -> "PC-15"
       [] id = "win.user.screensaver-policy" -> "PC-16"
       [] id = "win.media.autoplay-policy" -> "PC-17"
       [] id = "win.remote-assistance.policy" -> "PC-18"
       [] OTHER -> "PC-07"]
ProbesOf == [c \in ControlIds |-> {id \in DOMAIN ControlOf : ControlOf[id] = c}]
PlanOf(ids, privilege) == [i \in DOMAIN ids |-> Request(ids[i], <<ControlOf[ids[i]]>>, privilege)]

\* A ProbeObservation of one result.
Observation(r, context, admin) ==
  [control |-> ControlOf[r.id], probe |-> r.id, status |-> r.status, error |-> r.error, admin |-> admin,
   sid |-> r.id = "win.user.screensaver-policy" /\ ~admin, at |-> context.at, shape |-> r.shape,
   fields |-> r.typed, raw |-> r.raw, adapter |-> r.adapter]

\* A failure of the standard group fails the scan.
RunStandardProbes(run) ==
  /\ scan.pc = "standard"
  /\ LET outcome == ExpandedExecute(PlanOf(StandardProbes, "STANDARD_USER"), "STANDARD_USER",
                                    Host, Script, run.p, run.out, Adapters)
         results == {run.out.results[i] : i \in DOMAIN run.out.results}
     IN IF outcome # Accepted THEN Goto("failed") /\ UNCHANGED bridge
        ELSE /\ scan' = [scan EXCEPT !.pc = "probed", !.context = run.out.context,
                  !.observations = {Observation(r, run.out.context, FALSE) : r \in results},
                  !.collected = [id \in {r.id : r \in results} |-> (CHOOSE r \in results : r.id = id).status]]
             /\ Progress
  /\ Quiet

\* A cancellation that is seen here still has the settings compared.
BetweenGroups(pc, next) ==
  /\ scan.pc = pc
  /\ IF bridge.cancel THEN Goto("unwind") /\ UNCHANGED bridge ELSE Goto(next) /\ Progress
  /\ Quiet

BeforeStorage == BetweenGroups("probed", "storage")
BeforeInventory == BetweenGroups("stored", "inventory")

StorageShort(id) ==
  CASE id = "win.storage.disks" -> "disks"
    [] id = "win.storage.partitions" -> "partitions"
    [] id = "win.storage.volumes" -> "volumes"

\* A failure of the storage group is three probes that failed; the scan goes on.
StorageObservation(id, status, error, at, raw) ==
  [control |-> "PC-07", probe |-> StorageShort(id), status |-> status, error |-> error, admin |-> FALSE,
   sid |-> FALSE, at |-> at, shape |-> IF status = "COLLECTED" THEN "many" ELSE "none",
   fields |-> "ok", raw |-> raw, adapter |-> "secai.windows-storage-native"]

RunStorageProbes(run) ==
  /\ scan.pc = "storage"
  /\ LET outcome == StorageExecute(PlanOf(StorageProbeIds, "STANDARD_USER"), Host, Script, run.p, run.out)
         ids == {StorageProbeIds[i] : i \in DOMAIN StorageProbeIds}
         status == IF outcome = Accepted THEN "COLLECTED" ELSE "ERROR"
         error == IF outcome = Accepted THEN "NONE"
                  ELSE IF outcome = "PERMISSION_DENIED" THEN "PERMISSION_DENIED" ELSE "QUERY_FAILED"
         payload(id) == IF outcome = Accepted THEN run.out.payload[StorageShort(id)] ELSE {}
     IN scan' = [scan EXCEPT !.pc = "stored", !.seen = {settings},
          !.observations = @ \cup {StorageObservation(id, status, error, scan.context.at, payload(id)) : id \in ids},
          !.collected = [id \in DOMAIN @ \cup ids |-> IF id \in ids THEN status ELSE @[id]]]
  /\ Progress
  /\ Quiet

\* The inventory is a supplement: without it the scan goes on.
CollectInventory(run) ==
  /\ scan.pc = "inventory"
  /\ scan' = [scan EXCEPT !.pc = "verify",
       !.inventory = IF InventoryCollects(Host, Script, run.p, run.out) THEN "COLLECTED" ELSE "UNAVAILABLE"]
  /\ Progress
  /\ Quiet

VerifySnapshotOnly(run) ==
  /\ scan.pc = "verify"
  /\ Goto(IF TakeSnapshot(run, "ok") = "failed" THEN "failed" ELSE "verified")
  /\ UNCHANGED bridge /\ Quiet

\* Digests are compared: a change that was undone is not seen.
VerifySettings(run) ==
  /\ scan.pc = "verify"
  /\ LET taken == TakeSnapshot(run, "ok")
     IN Goto(IF taken = "failed" \/ settings # scan.before THEN "failed"
             ELSE IF bridge.cancel THEN "cancelled" ELSE "verified")
  /\ UNCHANGED bridge /\ Quiet

\* A cancelled scan whose settings changed has failed.
Unwind(run) ==
  /\ scan.pc = "unwind"
  /\ Goto(IF TakeSnapshot(run, "ok") = "failed" \/ settings # scan.before THEN "failed" ELSE "cancelled")
  /\ UNCHANGED bridge /\ Quiet

\* After the runner has returned: the receipt is summarized and judged under the
\* criteria the bridge holds now.
Assess ==
  /\ scan.pc = "summarize"
  /\ LET verdicts == [c \in ControlIds |->
           [status |-> LiveDecision(c, scan.observations, bridge.criteria).status,
            additional |-> LiveAdditional(c, scan.observations, bridge.criteria).status]]
     IN IF bridge.cancel THEN Goto("cancelled")
        ELSE IF Cardinality(DOMAIN scan.collected) # 15 \/ LiveAborts(scan.observations) THEN Goto("failed")
        ELSE scan' = [scan EXCEPT !.pc = "commit",
               !.rows = BuildControlResults(ProbesOf, AdministratorControls, scan.collected, verdicts)]
  /\ UNCHANGED bridge /\ Quiet

\* The last look at the cancellation was in Assess: a later one is overruled.
\* The comparison is built after COMPLETED is set, outside the try block.
Entry ==
  LET new == [id |-> bridge.attempt, sequence |-> Len(bridge.history) + 1, rows |-> scan.rows]
      old == bridge.history[Len(bridge.history)]
      comparison == IF bridge.history = <<>> THEN <<>> ELSE <<BuildComparison(old, new)>>
  IN [id |-> new.id, sequence |-> new.sequence, rows |-> new.rows, criteria |-> bridge.criteria,
      counts |-> SummarizeControls(scan.rows), assessed |-> SummarizeAssessments(scan.rows),
      inventory |-> scan.inventory, comparison |-> comparison,
      changed |-> IF comparison = <<>> THEN 0
                  ELSE comparison[1].summary.improved + comparison[1].summary.worsened]

Commit ==
  /\ scan.pc = "commit"
  /\ LET last == Len(bridge.history)
         new == [id |-> bridge.attempt, sequence |-> last + 1, rows |-> scan.rows]
         built == last = 0 \/ ComparisonBuilds(bridge.history[last], new)
     IN bridge' = [bridge EXCEPT !.status = "COMPLETED",
                                 !.history = IF built THEN Append(@, Entry) ELSE @]
  /\ Goto("over") /\ Quiet

EndCancelled ==
  /\ scan.pc = "cancelled"
  /\ bridge' = [bridge EXCEPT !.status = "CANCELLED"]
  /\ Goto("over") /\ Quiet

EndFailed ==
  /\ scan.pc = "failed"
  /\ bridge' = [bridge EXCEPT !.status = "FAILED"]
  /\ Goto("over") /\ Quiet

\* The thread lives on for a moment after its result can be read.
ThreadExits ==
  /\ scan.pc = "over"
  /\ scan' = [NoScan EXCEPT !.pc = "done"]
  /\ UNCHANGED bridge /\ Quiet

(* -------------------------- the administrator -------------------------- *)
\* secrets.token_urlsafe(32): every launch has a token of its own.
FreshTokenOnce == 1
FreshToken == count.elevations + 1

LaunchAdministrator(request) ==
  /\ ConsentAccepted(request)
  /\ bridge.status = "COMPLETED"
  /\ bridge.administrator \in {"NOT_REQUESTED", "CANCELLED", "FAILED"}
  /\ elevation.pc = "idle" /\ count.elevations < MaxElevations
  /\ bridge' = [bridge EXCEPT !.administrator = "REQUESTING_UAC", !.selected = request.probes,
                              !.token = FreshToken]
  /\ elevation' = [pc |-> "uac", selected |-> request.probes, outcome |-> Null]
  /\ count' = [count EXCEPT !.elevations = @ + 1]
  /\ UNCHANGED <<scan, settings, children>>

\* Every command of the program checks its own resources first.
Starts == SelfCheck(Bundle.build, Bundle.records, Bundle.files)

\* Without a token of the bridge the child gets one that nobody holds.
ResultToken == IF bridge.token = Null THEN 0 ELSE bridge.token

\* The criteria and the token are read without the lock; a recheck may have
\* replaced the criteria since the consent.
Elevate(outcome) ==
  /\ elevation.pc = "uac"
  /\ outcome = "STARTED" => Starts
  /\ elevation' = [elevation EXCEPT !.pc = "answered", !.outcome = outcome]
  /\ children' = IF outcome # "STARTED" THEN children
                 ELSE Append(children, [pc |-> "created", before |-> Null, token |-> ResultToken,
                                        selected |-> elevation.selected, criteria |-> bridge.criteria, result |-> <<>>])
  /\ UNCHANGED <<bridge, scan, settings, count>>

RecordElevation ==
  /\ elevation.pc = "answered"
  /\ bridge' = [bridge EXCEPT !.administrator = elevation.outcome,
                              !.token = IF elevation.outcome = "STARTED" THEN @ ELSE Null]
  /\ elevation' = [pc |-> "idle", selected |-> <<>>, outcome |-> Null]
  /\ UNCHANGED <<scan, settings, children, count>>

ResetAdministrator ==
  /\ bridge.status = "COMPLETED"
  /\ bridge.administrator \in {"STARTED", "CANCELLED", "FAILED", "UNAVAILABLE"}
  /\ bridge' = [bridge EXCEPT !.administrator = "NOT_REQUESTED", !.selected = <<>>, !.token = Null]
  /\ UNCHANGED <<scan, settings, elevation, children, count>>

\* What the child answers with: verdicts of the selected controls, or a failure.
\* safe is FALSE when a snapshot fails or the settings changed between the two.
AdministratorResult(run, safe, selected, criteria) ==
  LET outcome == ExpandedExecute(PlanOf(selected, "ADMINISTRATOR"), "ADMINISTRATOR", Host, Script,
                                 run.p, run.out, Adapters)
      results == {run.out.results[i] : i \in DOMAIN run.out.results}
      observations == {Observation(r, run.out.context, TRUE) : r \in results}
  IN IF outcome # Accepted \/ ~safe THEN <<[status |-> "FAILED", stage |-> "COLLECTION", verdicts |-> <<>>]>>
     ELSE IF LiveAborts(observations) THEN <<[status |-> "FAILED", stage |-> "EVALUATION", verdicts |-> <<>>]>>
     ELSE <<[status |-> "COMPLETED", stage |-> "RESULT_BUILD",
             verdicts |-> [c \in {ControlOf[selected[i]] : i \in DOMAIN selected} |->
                             [collected |-> \E o \in observations : o.control = c /\ o.status = "COLLECTED",
                              status |-> LiveDecision(c, observations, criteria).status,
                              additional |-> LiveAdditional(c, observations, criteria).status]]]>>

\* A process that has ended.
Gone == [pc |-> "ended", before |-> Null, token |-> 0, selected |-> <<>>, criteria |-> <<>>, result |-> <<>>]

Serving == {i \in DOMAIN children : children[i].pc = "serving"}

ChildCaptures(i) ==
  /\ children[i].pc = "created"
  /\ children' = [children EXCEPT ![i].pc = "collect", ![i].before = settings]
  /\ UNCHANGED <<bridge, scan, settings, elevation, count>>

\* The result is served on one fixed port: while another child holds it, the
\* child ends without anyone having seen its result.
ChildCollects(i, run, snapshot) ==
  /\ children[i].pc = "collect"
  /\ LET safe == TakeSnapshot(snapshot, "ok") = "ok" /\ settings = children[i].before
         result == AdministratorResult(run, safe, children[i].selected, children[i].criteria)
     IN children' = [children EXCEPT ![i] =
           IF Serving # {} THEN Gone ELSE [@ EXCEPT !.pc = "serving", !.before = Null, !.result = result]]
  /\ UNCHANGED <<bridge, scan, settings, elevation, count>>

\* After the first authorised answer, or ten minutes.
ChildEnds(i) ==
  /\ children[i].pc = "serving"
  /\ children' = [children EXCEPT ![i] = Gone]
  /\ UNCHANGED <<bridge, scan, settings, elevation, count>>

(* ----------------------------- environment ---------------------------- *)
Watched == {"captured", "standard", "probed", "storage", "stored", "inventory", "verify", "unwind"}

\* Something else on the PC changes a surface, or changes it back; at most
\* MaxChanges times under one scan.
ChangeSettings ==
  /\ settings' \in Contents \ {settings}
  /\ IF scan.pc \in Watched
     THEN scan.changes < MaxChanges /\ scan' = [scan EXCEPT !.changes = @ + 1]
     ELSE UNCHANGED scan
  /\ UNCHANGED <<bridge, elevation, children, count>>

\* The program is started again: the old bridge shuts down and its process ends,
\* with the scan thread and the handlers; elevated children live on.
Relaunch ==
  /\ count.relaunches < MaxRelaunches /\ Starts
  /\ bridge' = Ready /\ scan' = NoScan
  /\ elevation' = [pc |-> "idle", selected |-> <<>>, outcome |-> Null]
  /\ count' = [count EXCEPT !.relaunches = @ + 1]
  /\ UNCHANGED <<settings, children>>

ScanStep ==
  \/ StartWorker \/ Prepare \/ Baseline \/ AccountAndProtection \/ BeforeStorage \/ BeforeInventory
  \/ Summarizing \/ Assess \/ Commit \/ EndCancelled \/ EndFailed \/ ThreadExits
  \/ \E run \in SnapshotRuns : CaptureBefore(run) \/ VerifySettings(run) \/ Unwind(run)
  \/ \E run \in StandardRuns : RunStandardProbes(run)
  \/ \E run \in StorageRuns : RunStorageProbes(run)
  \/ \E run \in InventoryRuns : CollectInventory(run)

LauncherNext ==
  \/ ScanStep
  \/ \E action \in DOMAIN Allowed, criteria \in Criteria \cup {<<>>} : BeginScan(action, criteria)
  \/ CancelScan
  \/ \E request \in Consents : LaunchAdministrator(request)
  \/ \E outcome \in {"STARTED", "CANCELLED", "UNAVAILABLE", "FAILED"} : Elevate(outcome)
  \/ RecordElevation \/ ResetAdministrator
  \/ \E i \in DOMAIN children :
       \/ ChildCaptures(i) \/ ChildEnds(i)
       \/ \E run \in AdministratorRuns, snapshot \in SnapshotRuns : ChildCollects(i, run, snapshot)
  \/ ChangeSettings \/ Relaunch

LauncherSpec == LauncherInit /\ [][LauncherNext]_launcherVars

(* ----------------------------- properties ----------------------------- *)
\* One attempt, one thread: a scan begins only when the thread of the one before
\* it has ended, also between the creation and the start of a thread, which is
\* not alive then (launcher.py, _begin_scan).
ScanIsNotReplaced ==
  [][bridge'.attempt > bridge.attempt => scan.pc \in {"none", "done"}]_launcherVars

\* COMPLETED shows the result of the latest attempt. The surfaces the snapshots
\* digest did not change exactly once under a scan that is stored, and its storage
\* probes met other contents than the snapshots only where one change was undone
\* by another. The comparison with the result before it is one the server accepts
\* (_run_scan_job, _verify_settings_unchanged, validate_recheck_comparison).
StoredScanIsWhole ==
  /\ bridge.status = "COMPLETED" =>
       bridge.history # <<>> /\ bridge.history[Len(bridge.history)].id = bridge.attempt
  /\ scan.pc \in {"verified", "summarize", "commit"} =>
       /\ scan.changes # 1
       /\ scan.seen # {scan.before} => scan.changes > 1
  /\ \A i \in DOMAIN bridge.history :
       LET e == bridge.history[i]
       IN /\ e.counts.collected + e.counts.review + e.counts.administrator = 18
          /\ (i > 1) <=> (e.comparison # <<>>)
          /\ i > 1 => /\ ValidateComparison(e.comparison[1]) = Accepted
                      /\ e.comparison[1].previous.id = bridge.history[i - 1].id

\* No verdict without evidence: a control of which something was not collected is
\* neither PASS nor FAIL nor N/A, whatever the criteria, and no judgement under
\* additional criteria is shown of it - but for the status of PC-05, which passes
\* under criteria when its services could not be read at all
\* (current_host_regression.py, _selected_criteria_decision).
Judged == {"PASS", "FAIL", "N/A"}
JudgedFromEvidence ==
  /\ \A i \in DOMAIN bridge.history, c \in ControlIds :
       LET row == bridge.history[i].rows[c]
           verdict == row.status \in Judged /\ (c = "PC-05" => bridge.history[i].criteria = <<>>)
       IN verdict \/ row.additional \in Judged => row.display = "EVIDENCE_COLLECTED"
  /\ \A i \in DOMAIN children : children[i].result # <<>> =>
       \A c \in DOMAIN children[i].result[1].verdicts :
         LET verdict == children[i].result[1].verdicts[c]
         IN verdict.status \in Judged \/ verdict.additional \in Judged => verdict.collected

\* The result the page can fetch with the token it holds is of exactly the probes
\* it asked consent for, also after a reset, a second elevation or a new start.
ResultIsOfTheConsent ==
  \A i \in DOMAIN children : children[i].token = bridge.token => children[i].selected = bridge.selected
=============================================================================
