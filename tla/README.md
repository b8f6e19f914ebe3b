# Sec_AI: TLA+ models, checks and proofs

Sec_AI audits Windows, Linux and switch configurations against the KISA
guidelines, explains the results with a language model and answers questions
about the guides. This directory holds TLA+ models of the parts of it where
several actors share state, the TLC configurations that check them, and TLAPS
proofs of what matters most. Paths below are relative to the repository root.

## 1. The system

### Processes

| process | runs | state it keeps |
|---|---|---|
| API (`apps/api`, one uvicorn process) | plain `def` handlers on a thread pool; the submit and upload coroutines and the session middleware on the event loop; daemon threads for Linux and switch audits; background tasks for chat answers | in memory: scan tokens, approval requests, device codes, collector credentials, manifest signing key, audit cancellation events, AI stream registrations. All of it is lost at a restart |
| PostgreSQL | transactions at READ COMMITTED, partial unique indexes, row and advisory locks | everything that survives |
| Redis and Celery worker (`apps/worker`) | late-acknowledged tasks, `recovery_cli dispatch` | messages only; the database is the truth |
| AIStor (object store) | versioned objects of the storage rehearsal | objects |
| Collectors (`src/security_audit/collector`) | one-shot programs on the audited host, local launcher with an elevated child | a sidecar token, one run |
| Browser (`apps/web`) | pages, `EventSource` streams | the last event id |
| Model gateway (`apps/model_gateway`) | stateless proxy to the model | none |

### Components

`PROJECT.json` lists every component with its sources and status. The ones with
state worth a model, what they do, what is hard and what makes them right:

| component | state | operations | hard because | right when |
|---|---|---|---|---|
| Outbox, queue and recovery worker | `outbox_events`, `workflow_steps`, `task_executions`, `workflow_results`, broker | dispatch, publish, deliver, begin, reconcile, complete, ack | publish and commit are not atomic, duplicate deliveries, worker loss, opposite lock orders | one result per idempotency key, no work lost, history final |
| Accounts and sessions | `user_accounts`, `browser_sessions` | password, factor, session use, sign-out, password change, administration | every repository call is a transaction; decisions use snapshots | a counted-out account is locked, no session before approval, a stale session stays stale, few factor guesses |
| Linux one-shot self scan | runs and submissions in the database, codes and credentials in memory | provision, exchange, bind, submit, upload, delete | two stores that fail apart, retries, restarts between the steps | a receipt proves a stored result; result, credential and run agree |
| Remote scan approval | tokens and requests in memory, waiting run in the database | issue, register, approve, decline, poll, grant, submit | a human decides between two machines; provisioning precedes the decision | only the owner approves, once; a code belongs to its request |
| Guide chat | threads, messages, generations, management events | ask, edit, retry, stop, generate, archive, delete, undo | a background task outlives the request, stale ORM objects, repeated keys | answers match generations, one current revision, ends are final |
| Linux audit over SSH | runs and events in the database, cancellation events in memory, daemon thread | start, run, cancel, follow | the thread dies with the process; status and last event are two commits | one scan at a time, a cancelled run sends at most the command whose check was past, pages learn the end |
| Switch audit | runs and events, a REST session on the device, daemon thread | start, log in, read, log out, judge | each call to the device and each transaction can fail, the session must be closed | a result exactly when COMPLETED, sessions closed again |
| AI streams of results | one registration per result, output cache | stream, cancel, replay from cache | disconnects before and during generation, provider failures | one stream per result, slots are freed, cache written once |
| Chat token stream | Redis stream | publish, follow, resume | reconnects, end marker | every token once and in order |
| Launcher | bridge state under a lock, scan thread, elevated children | scan, retry, recheck, cancel, elevate, reset, relaunch | attempts overlap, the thread is started after the unlock, settings change meanwhile | one scan at a time, no change of settings under a stored scan but one that was undone, a result of the consent asked for |
| History, criteria, reports, AI cards | rows that only grow, with versions | save, select, start, report, download, analyse | max+1 under advisory locks, insert-on-conflict, old pages, two streams of one result | what is answered is what is stored; numbers without gaps |
| Storage recovery | object, backup file, rows, manifest | prepare, restore, mark | crash between any two writes | a manifest describes what exists |
| Package validation, normaliser, findings | none (pure) | validate, normalise, build | order of checks, replay | nothing unchecked accepted, a finding follows its evidence |
| Rule engine, host assessment, KISA controls | none (pure) | evaluate | missing and conflicting evidence, criteria that replace a rule | no verdict without evidence |
| Vulnerability checks | kept feed snapshots | check, refresh, explain | feeds that fail apart, old snapshots | candidates of this computer, counts of fresh data |
| Guides, retrieval, grounding | approved guides and chunks | ingest, search, answer | lineage, conflicts, scores, transfer policy | answers rest on the guide asked about |
| Process runner | reader threads, deadline | run | limit, timeout and end race | output bounded, child gone |

Not modelled at all: web layout and styles, acceptance harnesses, deployment
scripts, migrations other than the constraints named above, audit pack data, the
language model itself, cryptographic arithmetic, text parsing and scoring.

How they interact: the scan approval provisions a one-shot run (`slot` in
ScanApproval stands for the waiting run of LinuxOneshot); one-shot and SSH audits
share the table `linux_audit_runs` but different statuses and unique indexes, so
they are modelled apart; sessions guard every browser operation; results of all
three audits feed the AI streams, history and reports. The launcher uses the
collector (WindowsCollector), the rules (RuleEngine) through the host assessment
(HostAssessment) and the comparison with the result before it (ResultComparison);
the device audits use the controls (LinuxControls, NetworkControls); history,
criteria, explanations and reports share the rows of Records.

## 2. Modules

One module per component; `MC*` modules instantiate them for TLC, with symmetry
where no liveness is checked; `*Proofs` modules hold theorems. Pure code is a module
of operators (no variables) that the component using it extends. "The slip" of a
decision, an operator such as `MayCompleteAnyway` defined before `MayComplete`, is
what the code would say with a plausible bug; the project replaces the decision by
its slip and TLC must then find the property violated (`mutants` in `PROJECT.json`).

### QueueRecovery, ExactlyOnce

`queue_repository.py`, `recovery_cli.py`, `tasks.py`, `celery_app.py`. One workflow
step and its outbox event: rows of different steps share no lock and no key. A
dispatch run reads the pending event, records the attempt, sends the task and
marks the event (published, or to be retried) in separate transactions and may die
between any two. A worker takes a delivery, runs `begin_recovery_attempt` (event,
step and execution locks taken in turn), holds, runs `complete_recovery_attempt`
(execution, then step) and acknowledges. Lock waits are steps of their own, so the
opposite lock orders really deadlock and PostgreSQL aborts one party
(`DeadlockAbort`). Worker loss returns the message (`reject_on_worker_lost`).
ExactlyOnce is what the component promises: work is requested, attempts come and
go, and one result appears. QueueRecovery refines it (`ImplementsExactlyOnce`).

### AccountSession

`security/auth/service.py`, `repository.py`, `account_management.py`,
`apps/api/authentication.py`. One account, its session rows and concurrent
requests. Each repository call is one action; what a request has read stays in
`req` and may be stale when used. Deadlines may go either way, a lock elapses at
any moment. A revoked session slot is reused, which keeps the model finite without
limiting the number of sessions.

### LinuxOneshot

`apps/api/linux_oneshot.py`, `linux_oneshot_repository.py`, `linux_connection.py`,
`collector_credentials.py`. The handlers of one owner: provisioning, code exchange
(consume, issue, bind), online submission, manual upload and deletion, with a
restart that clears every in-memory store and makes manifests signed before it
unverifiable. Coroutines are atomic between awaits; thread-pool handlers are not.

### ScanApproval

`scan_token.py`, `scan_approval.py`, `scan_session.py`, `scan_handshake.py`,
`apps/api/scan_approval.py` and both collector command lines. A collector spends a
run of its token on a request, polls, and on approval fetches the code (Linux) or
submits its result with the token (Windows). `decide_scan_approval` is split where
it waits for the provisioning transaction. Token expiry is not a state of its own:
a call with an expired token fails like any other refused call (`CallFails`).

### ChatConversation

`chat_repository.py`, `apps/api/chat_conversation.py`, migration 0009. One thread.
Fresh identities (rows, idempotency keys) are chosen in a fixed order, which loses
nothing because only their equality matters; of the management events the newest is
kept, and `EventsReplay` relates it to the one before it step by step.
`run_generation` reads the generation, waits for the row lock and decides on the
object it already holds, because SQLAlchemy does not reload an identity-mapped
object on `SELECT ... FOR UPDATE`; the check constraint on the terminal time is
what then refuses the write. Reads without a lock inside one transaction of
complete and retry are taken with that transaction.

### LinuxAudit

`linux_audit_service.py`, `apps/api/linux_audit.py`, `linux_audit_repository.py`,
`ssh_executor.py`, migration 0018, `linux-scan.js`. One owner and one server. The
thread's program counter names the transaction it is about to run, so a failing
transaction (`TransactionFails`) leads to the except clause of the code, or past it
when the handler itself fails. Asking whether the run was cancelled
(`ssh_executor.py:110`), telling the page of the probe (a transaction) and sending the
command are three steps, in the detection of the platform as in the plan, so a
cancellation may commit between any two. The page is the browser's EventSource together with
the generator that serves it: listing events and loading the status are two
statements, and the stream can end between the commit of the status and that of
the last event; EventSource then reopens it with the last id seen.

### DeviceAiStream

`apps/api/linux_audit.py` and `switch_audit.py` (AI stream, cancel, snapshot),
`append_ai_output`. One result. The request takes the result's slot in
`_AI_CANCELLATIONS`; the generator that the server draws from then explains the
summary and each control, from the stored outputs or the model, until it is
complete, cancelled, gives up after consecutive provider failures, meets an
unexpected error or is closed because the browser left. The finally clause frees the
slot, but only from the first event inside the try on. `Format` is the format of the
stored result: of an older one, with observations or controls no longer known, the
switch's snapshot shows nothing, whatever the output cache holds.

### DeviceAssessment: SwitchAudit, LinuxControls, NetworkControls

`switch_audit_service.py`, `aruba_rest.py`, `switch_audit_repository.py`,
`apps/api/switch_audit.py`, `platforms/{linux_kisa,linux_adapters,kisa_network,
switch,discovery}.py`. SwitchAudit is the thread: its program counter names the
transaction or REST call it is about to make, each of which may fail. A GET returns
one of the constant answers; `BuildFacts` and `EvaluateAll` make 38 verdicts of it,
as `_build_projection` and `evaluate_kisa_network_controls` do. For a server the
probes have run (how is LinuxAudit's subject) and `EvaluateUnix` judges U-01..U-67.
A command's text is the settings found in it: the regular expressions are not
modelled, the gates on missing output, exit codes and criteria are.

### Launcher: WindowsCollector, HostAssessment, RuleEngine, ResultComparison

`collector/*.py`, `application/{windows_host_collection_acceptance,
administrator_scan,current_host_regression,scan_result_guidance,
result_recheck_comparison}.py`, `analysis/rule_engine/*.py`. The bridge's handlers
run under its lock, the scan thread takes steps between its checkpoints, up to two
elevated children serve results for the tokens they were started with. `settings` is
the content of the surfaces the safety snapshots digest (execution policy, disk flags,
partitions, file systems, BitLocker); it may change at any moment, also back to what it
was, and the code compares two digests of it. Only the storage probes read those
surfaces, so `scan.seen` collects what they met. Every launch makes a fresh token; the
consents of the run are two different accepted selections and one out of order. The
percentage shown is left out. What a
script prints is chosen when it runs, from a good PC, a weak one, failing, hanging
and denied scripts; the collector decides what is accepted of it, RuleEngine and
HostAssessment what each control is judged to be, with and without criteria.

### Records: AuditHistory, AssessmentCriteria, ResultReport, ResultExplanation

The API handlers and repositories of the tables of the same names. Two tabs of one
login send requests; each validates its document (the `*Checks` operators are the
validators' checks in their order, and `FirstRejection` the code that is answered),
opens its transaction under its advisory lock and commits. The login is an
administrator for policies and organization criteria; the right to technical
reports is taken away and given back at any time; each tab has its own page of
criteria; the store starts empty or with one result kept earlier. An analysis streams
its sections one by one: a stream may end with any finish reason or none, and only the
token limit refuses the section; the first card of a section is kept, whoever writes
it, and a page that does not know its result is kept writes none.

### PackageIntake, VulnerabilityCheck, GroundedAnswer and BoundedInputs

Operators for the validation of packages, evidence and findings, the vulnerability
checks and the grounded answers. BoundedInputs evaluates them over small sets of
inputs built from one accepted document and what differs from it, as assumptions
TLC evaluates in the run `chat` (they share no state with it). MCRecords and
MCDeviceAssessment do the same, in their runs, for the functions of their components
that build or read a document and change no state. No proof uses any of the
assumptions of this table; those the proofs rest on are listed in section 4.

| assumption | inputs | says |
|---|---|---|
| VersionsAreOrdered | all versions of two parts | `_compare_semver` is an order, without leading zeros |
| NothingOfAPackageCanBeExchanged | one accepted package, each part replaced | any exchange is rejected |
| FindingsFollowTheirEvidence | observations and verdicts | one bad observation rejects all; uncollected has no value; same evidence, same finding |
| CountsAreOfFreshSnapshots, CandidatesComeFromTheInventory, RepeatedDependencyIsRefused | replies and ages of both feeds, inventories | counts and candidates are of this computer and of recent data; a dependency named twice is refused |
| OnlySoundExplanationsAreShown | candidates, model texts | a text is shown only of a sound candidate and only whole; a refused one never reaches the model |
| AnswersRestOnTheGuide, IntegratedAnswersTakeOneChunkOfEachGuide, ResultInputsAreChecked, ResultEvidenceIsOfItsControl | chunks, scores, policies, outputs | evidence is of the guide, lineage holds, official status unchanged |
| GuideLineageHoldsTogether, ChunksComeThroughTheGate | one accepted guide, each of its five documents changed; gates and pages | no document can be exchanged; chunks only through open gates, a synthetic guide never as an approved one |
| AskedCategoriesStay, OnlyApprovedGuidesAreSelected | hits by category, pairs of guides | coverage keeps the order; a conflict never selects a draft or the older |
| ExplanationsAreOfTheScan (records) | up to two reported probes | an input names all probes of its control, collected only where the scan says so; raw evidence refused |
| BatchesMakeTheWholeResult, SupportedTextsCiteTheirSources (records) | evidence, model answers, cuts into batches | merged batches are the whole result with official statuses, or refused; a supported text cites all its sources |
| TheLatestScreensAreShown, HistoryShowsWhatIsKept (records) | up to three screens, runs of two users, device contexts | the last report and screen are shown; nobody else's and no deleted run; an AI screen is complete or absent |
| TheLauncherTakesTheServersCriteria, TechnicalReportsStayApart (records) | criteria profiles, report kinds | the launcher accepts exactly what the server hashed; technical parts only in technical reports |
| BaselineIsOfTheVendor (devices) | both vendors' configurations | an unread configuration judges nothing; one vendor's text does not meet the other's baseline |

## 3. Runs

All bounds are constants of the modules and named there. Deadlock is not checked:
in every model all requests may have been handled, and the system then rests.

| run | bounds | shows |
|---|---|---|
| queue | 2 workers, 2 dispatch runs, 3 deliveries, 3 publications, 1 worker loss, 1 failed transaction | attempts gapless and only the newest running, one result and it is the succeeded attempt's, the step never ahead of the tables, work never lost, finished attempts final, refinement of ExactlyOnce, a delivered message ends in a result |
| account | 2 requests, 2 session slots, 1 failure, 2 factor guesses, 3 versions | counting and locking, no session before approval, guesses bounded, stale sessions stay stale |
| account_password_proof | as above | finding, section 6 |
| oneshot | 2 handlers, 2 runs, 2 distributions, 2 packages, 1 attempt | a receipt proves its result; run, submission, package and credential tell one story; completion under the run's own key |
| scan | 2 users, 1 token with 2 runs, 2 requests, 2 codes, 2 decisions, a Linux and a Windows collector | only the owner approves, and a code goes to its request |
| chat | 3 messages, 3 generations, 2 keys, 2 labels, 2 runners, 1 fault | answers and generations match, one current revision also after two edits of one question, a streaming generation has a task that will end it unless a fault happened, the events replay the thread; BoundedInputs |
| linux | 1 run, 2 starters, 1 canceller, 1 probe, 1 control, batches of 2, 1 failed transaction, 1 restart, 1 dropped stream | events end as the row does, at most one command after a cancellation, the page sees every event once and in order; undisturbed, the run ends and the page learns how |
| ai | 2 streams, 1 canceller, a summary and 2 controls, limit of 2 provider failures, 1 restart, 1 failed write | one generator per result and it holds the slot, a complete stream can be restored, the slot is freed |
| devices | 2 users, 2 runs, 4 device answers, 2 faults, 1 restart; servers that deviate in up to two probes | a run has its result exactly when COMPLETED and closes its session; leaving evidence out never earns a PASS |
| switch_schema | as devices, with the event types of migration 0025 | finding, section 6 |
| launcher | 2 attempts, 2 contents of the digested surfaces, 2 changes of them under a scan, 3 consents (2 accepted, which differ), 2 elevations, 1 relaunch | one scan at a time, a stored scan is whole and comparable, verdicts rest on evidence, a fetched result is of the consent |
| records | 2 tabs, 3 requests, 1 fault, one result in two texts | kept means stored, numbers consecutive, no index violation but the first policy's, recorded criteria are the page's, analyses can be read back |

The run `devices` uses the event types the service writes; with those of the
migration no run completes, which is the finding of `switch_schema`.

Why the bounds are enough: every interaction in this code is between at most two
requests (or workers) and one fault; two of each kind with one more delivery, run
or event than needed for the first conflict reaches duplicates, retries after a
failure, a late answer after a new start, and reuse after an end. Limits of the
code (10 failures, 5 guesses, 3 runs, 300 polls, 200 events, 67 controls) enter as
constants; small values reach the limit and the step after it. Two contents and two
changes are the least with which a change can be undone between two snapshots; the
contents are symmetric, since the code only compares them.

### Fairness

- Queue: weak fairness of each worker; Celery keeps serving its queue and a lost
  child is replaced. Nothing is assumed of dispatch runs, which an operator starts.
- Linux audit: weak fairness of the thread (every command has a timeout), of
  handlers that were entered and of the browser's polling; none for starting or
  cancelling. The liveness properties hold as long as no transaction has failed and
  the process was not restarted; after either the code has no way to end the run.
- AI streams: weak fairness of drawing the next event; the server draws until the
  browser leaves, and the gateway client has a timeout.
- Accounts, one-shot scan, scan approval, chat, device assessment, launcher and
  records: no fairness, safety only. `StreamingHasATask` is the safety half of "a
  generation ends": there is still a task whose next steps end it.

## 4. Proofs

Checked by TLAPS for every value of the constants that satisfies the modules'
assumptions: any number of workers, requests, sessions, runs, streams or documents,
any limits. Each theorem has the form `Spec => []P` or `Spec => [][A]_vars`, or is the
refinement of ExactlyOnce; each inductive invariant also holds in every state of its component's run.
`P` alone is almost never inductive: what two transactions of one request read and
write is only related through the request's program counter, so each invariant adds
what that counter says about the tables. The proofs first state what a step may do
to each table (`Frame`, `...Step`, `Effects`) with one step per action, and then
show once that this keeps the invariant.

**QueueRecoveryProofs.** `TypeCorrect`, `NewestOnly`, `ResultsAgree`, `StepAgrees`,
`WorkSurvives`, `HistoryIsFinal`, `QueueImplementsExactlyOnce`. The invariant adds to
TypeOK what the row locks achieve: `WorkersConsistent` (what a worker's program
counter implies about its delivery and attempt), `NothingShared` (no two workers hold
the same delivery or attempt), `HistoryShape` (every attempt but the last has ended,
at most one succeeded and it is the result), `StepShape` (the step agrees with the
newest attempt) and `Carried` (unless a transaction failed, unfinished work is an
unpublished event, a live message or a dispatch run about to send it). Without
`NothingShared`, two workers holding one attempt could complete it twice. The
refinement maps every action to a step of ExactlyOnce or to a stutter, under the
same invariant.

**AccountSessionProofs.** `TypeCorrect`, `CountedOut`, `ApprovalFirst`,
`StaleForGood`, `GuessesAreBounded`. The invariant is TypeOK, `ApprovedFirst`
(sessions, and requests that are about to create one, imply an approved account),
`VersionsBehind` (no stored or remembered version is ahead of the account's) and
`CountedOutIsLocked`. For the bound on factor guesses, `GuessesCounted` relates the
codes checked for a session to its stored counter: every request that read the
counter below the limit, and has not counted its failure yet, may add one more. So
the bound is the limit plus the requests in flight minus one, not the limit.

**LinuxOneshotProofs.** `TypeCorrect`, `RunMatchesItsTablesAlways`,
`ReceiptProvesResultAlways`, `CompletesUnderItsKeyAlways`. Added: `Carrying` (what a
handler has read of its run still holds: a distribution once bound is never changed,
a submission never replaced), `CodeIssuedOnce` and `BoundOnce` (at most one handler
issues, exchanges or binds for a run, and before that no credential exists). They
are why the restart, which clears the in-memory stores, does not break the story.

**ScanProofs**, ScanApproval: `TypeCorrect`, `ApprovedByOwnerAlways`,
`GrantIsForItsRequestAlways`, `GrantsDifferAlways` (no two requests hold one code).
Added: `RequestsOwned` (a request belongs to the owner of the token it was registered
with), `DecisionsName` (a decision past the provisioning is about to grant the code
it made) and `ClearedIsApproved` (a collector that was cleared has an approval).

**ScanProofs**, Launcher: `ConsentsAlwaysKept`, `ScansNotReplaced`, `StoredScansWhole`,
`VerdictsHaveEvidence`, for any script output, criteria and consents and any number of
scans, elevations, changes of the settings and new starts. There are two invariants.
`ConsentInv` is about the handlers: `ThreadInv` (a thread that has not ended, started
or not, is shown as RUNNING or CANCELLING, which is what keeps a second scan out while
`is_alive()` is still false) and `TokenInv` (tokens are numbered, a launch that waits
for its consent holds the newest and the selection of the bridge; without it a reset
during the wait would pair a token with another selection; a child that has ended
serves no token). `WholeInv` is about the results: `SettingsInv` (what the number of
changes since the first snapshot says: none, and the content is the one it met; one, and
it is another; more, and nothing is known, since a change may be undone; so equal
snapshots rule out a single change, and nothing else), `EvidenceInv` (an observation that is not collected has no
evidence and its probe is recorded as not collected; rows at the commit follow from
that), `ChildrenInv` (the same for what elevated children serve) and `HistoryInv`
(numbers, counts and comparisons of the stored entries). They rest on lemmas about the
operators: a set of 18 controls splits into the three counts (by cardinality), a
comparison built of two whole results passes every check of
`validate_recheck_comparison`, the plans name each probe once, the accepted results are
in the order of the plan, and no branch of the rules or of the selected criteria judges
a control whose evidence gate is closed, but for PC-05.

**ChatConversationProofs.** `TypeCorrect`, `AnswersMatchGenerationsAlways`,
`StreamingHasATaskAlways`, `OneCurrentRevisionAlways`, `EventsReplayAlways`. Added:
`OneSuccessor` (a superseded message has exactly one edit, others none; from this
the one current revision follows), `DeletionRemembered` (a deleted thread and its
newest event remember the same status) and `QuestionsKnown`.

**LinuxAuditProofs.** `InductiveInvariant`, `TypeCorrect`,
`EventsEndWithTheRunAlways`, `PageSeesEveryEventOnceAlways`,
`OneCommandAfterCancelAlways`. Added: `ThreadMatchesRow` and `EndTold` (the thread's
program counter determines what the row says and whether an end event exists),
`Unstarted` and `OneStarter` (a run whose thread has not started has told nothing and
is one starter's), `Following` (a stream holds the events just after the last one its
page has seen, over all its streams). For the commands, `LateInv` says that a thread
between its check and its command has sent none since the cancellation, because its check
found the run not cancelled.

**DeviceProofs**, DeviceAssessment: `RunsEndWhole`, `OmissionsNeverPass`. For the
first, `SwitchInv` says of each run what its thread's program counter implies about the
row, its result, the end event and the REST session (`RunsWhole`), and that a run
whose thread has not started is one starter's (`StartersOwn`). The second needs no
induction over steps (`ServerInv` only says that the verdicts are those of the kept
outputs) but one lemma per group of controls: each of the 67 Linux controls passes with
a probe when it passes without it, for any outputs and criteria, and each of the 38
network controls that passes without the settings REST may omit passes with them.

**DeviceProofs**, DeviceAiStream: `AiTypeCorrect`, `OneGeneratorAlways`,
`CompletedRestorableAlways`. Added: `FailuresBelowLimit` (only the failure that ends
a stream reaches the limit) and `ToldIsStored` (what was sent as explained is stored,
unless a write failed).

**RecordsProofs.** `AcceptedResultIsStoredAlways`, `VersionsAreConsecutiveAlways`,
`OnlyTheFirstPolicyRacesAlways`, `StartRecordIsWhatThePageShowedAlways`,
`AnalysisIsRestorableAlways`. The invariant says, kind by kind, that what an open
transaction has read under its advisory lock is what the tables say when it commits
(`PoliciesStand`, `SnapshotsStand`, `ScreensStand`, `ReportsStand`, `ProfilesStand`,
`SelectionsStand`, `OutputsStand`), that numbers count the rows, and that an answer
that promised a row still has it. For analyses, `OutputsStand` says that a section has
one card, that what a page has read back is still there as it was, and that an open
analysis has each section it has passed. Lemma `Frames` says which kinds a step touches, so
each kind is proved alone.

Assumptions on the constants: the bounds are natural numbers, positive where the
code's limits are; the value that stands for a missing reference is none of the
names it could be confused with (`NoneAssumption`, `OneshotAssumption`, ..., and none
of the contents of the launcher's surfaces); a stored device result has one of three
formats (`FormatAssumption`); the
requests in flight are finite in number (`AuthAssumption`: the server's threads
are), needed only for `GuessesAreBounded`; the inputs of an analysis are a sequence
(`RecordsAssumption`); an answer of a switch has the fields the projection reads
(`AnswersAssumption`: every GET fills its part, an omitted setting is the value "unset"
or `NoNumber`); a script prints an array, and no record of a standard probe that was not
collected (`LauncherAssumption`: the error handler of `imp031_standard_controls.ps1:122`
writes `records = @()`). TLC evaluates all of them in the runs.

Every invariant and every safety action property of the passing runs is stated by a
theorem. Only model-checked:

- Liveness (`DeliveredWorkCompletes`, `RunEnds`, `PageLearnsEnd`, `SlotIsFreed`): the
  prover has no reasoning about fairness and ENABLED.
- The assumptions about pure code in the table above: statements about finitely many
  constant inputs, which TLC decides by evaluation; for every input they would need
  induction over data.
- The two findings: a violated property has no proof.

## 5. Abstractions worth knowing

- Payloads, hashes and signatures are names; "verifies" means made with the key of
  this process.
- Clocks are not modelled; a deadline may pass at any moment, and a comparison
  made before a wait keeps its outcome after it, as in the code.
- Refusals that change nothing are not actions, except where a request that
  already changed something ends there.
- One account, step, thread, owner and server at a time: the code joins rows of
  different ones nowhere.
- Commits either happen or fail; a commit whose answer is lost is not modelled.

## 6. Findings and observations

Each finding is a run that must end in a violation; `PROJECT.json` quotes the line
that says otherwise.

1. `account_password_proof`: a sign-in begun with the old password survives its
   change.
2. `switch_schema`: the event PLATFORM_IDENTIFIED is not among the types the table
   admits, so every switch audit fails before it connects.

Behaviours seen while modelling, which no run is spent on:

- A dispatcher's late acknowledgement sets a step back from SUCCEEDED to QUEUED
  (`queue_repository.py:297`).
- A task whose transaction fails is acknowledged (`celery_app.py:20`), and a PUBLISHED
  event is never sent again, so its step stays without a result.
- Wrong passwords checked in parallel count once (`repository.py:265`), and a locked
  account is accepted by the password step after its 15 minutes but by no later one
  (`service.py:346`), so it stays TEMP_LOCKED.
- Approving a scan provisions a run and a code before it checks the decision, also
  for Windows collectors, and compares a time read before that wait
  (`apps/api/scan_approval.py:396-401`). When the decision is then refused, the waiting
  run stays and blocks its user until it expires.
- An edit adds a question to an archived conversation (`chat_repository.py:704`); a
  repeated send of an edited question is refused (`chat_repository.py:766`).
- A cancellation accepted after the last probe does not stop a Linux audit, and after
  a restart, or a failed transaction in an exception handler, nothing ends its row
  (`linux_audit_service.py:233`, `415`, `503`). A cancellation that commits between the
  check and the command (`ssh_executor.py:110`, `139`) lets that command out.
- The end of a sign-in sets an account that was disabled meanwhile back to ACTIVE
  (`auth/repository.py:277`; `account_management.py:38` allows only "activate").
- An expired one-shot run that was bound to a distribution is neither replaced nor
  reported and makes the next binding fail (`linux_oneshot.py:450`, comment at 174).
- An AI stream that ends before its try clause keeps the slot until a restart; later
  requests are told that an explanation is being generated
  (`apps/api/linux_audit.py:562`, `569`).
- PC-05 passes under criteria when the services could not be collected
  (`current_host_regression.py:410-468`); `JudgedFromEvidence` names the exception.
- Switch: a failed RUN_COMPLETED event puts RUN_FAILED behind a COMPLETED row; a
  restart leaves a run RUNNING, which blocks later starts; a second start with other
  criteria is answered with the running one; a login answer without the id cookie
  leaves the device's session open; a failed logout loses the answers; of the switch
  criteria only the lock threshold changes a verdict.
- Linux controls: "inactive" contains "active" (U-28, `linux_kisa.py:682`); TMOUT=0
  passes U-12; U-09 to U-11 pass when no row parses; exit 1 of `find` is collected;
  U-40, U-45, U-49 and U-57 are N/A when the list of enabled services was not collected.
- Packages and findings: "01" and "1" compare as 1 in both directions; the input
  digest of a finding leaves out policies and references, so another policy is an
  IDEMPOTENCY_CONFLICT; one malformed observation ends the whole live evaluation.
- Launcher: a late cancellation still ends COMPLETED; COMPLETED is set before the
  comparison is built; changed settings and a cancellation together end FAILED; the
  elevated child is judged under the criteria of a later recheck; a second child
  cannot bind the port while the first serves. The snapshots compare digests of five
  surfaces (`safety.py:148`, `windows_host_collection_acceptance.py:104`): a change that
  is undone before the second one is accepted, and no surface the 12 standard probes read
  is among the five.
- Records: a result with "N/A" cannot be reported (`result_report.py:21`); the first
  writer of an AI card wins although the screen changed
  (`apps/api/result_ai_explanation.py:118`); the first retention policy races the
  default one; saving a screen A, B and A again keeps showing B; one malformed row
  makes the whole history unavailable. A section whose stream ended without a finish
  reason, or with another one than the token limit, is stored as complete
  (`result_ai_token_stream.py:180-185`, `provider.py:183-227`).
- Vulnerabilities: a dependency named twice refuses the whole check; more than 500
  packages raise after the computer's comparison succeeded
  (`component_vulnerability_check.py:462`); a damaged kept snapshot is refused before
  any refresh and so for ever (`:1058`).
- Grounded answers: tokens are streamed before the check of executable output
  (`grounded_ai.py:651`); a long expansion raises GUIDE_QUERY_INVALID without the
  fallback (`model_search.py:534`); one hit with bad lineage makes the whole
  grounding NO_EVIDENCE.

## 7. Not modelled, and what is left

Not modelled, with the reason in `PROJECT.json`: the chat's Redis token stream (every
reader deletes it when it ends, `apps/api/chat_conversation.py:1553`, so another may
miss tokens; the stored answer is shown at the end), the storage rehearsal (object,
backup, rows and one manifest path are written in turn,
`apps/worker/storage_recovery_cli.py:265`), offline submission, asset management,
signed downloads, the role table, text parsing and scoring, pages and deployment. The
two reader threads of one process execution are one outcome in WindowsCollector.

What would extend the project most: the storage rehearsal and the token stream as
modules of their own, the reader threads of a process execution, and the assumptions
about packages and findings as theorems, once their folds are given as invariants of a
loop over the documents.

## 8. Running

`tlc -workers 2 -config X.cfg MCY` for a run of `PROJECT.json`; `tlapm X.tla` for the
proofs, where X is QueueRecoveryProofs, AccountSessionProofs, LinuxOneshotProofs,
ScanProofs, ChatConversationProofs, LinuxAuditProofs, DeviceProofs or RecordsProofs (the
last five take some minutes).
