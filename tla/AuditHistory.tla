----------------------------- MODULE AuditHistory -----------------------------
(***************************************************************************)
(* The kept results of a login: what a Windows result and its screens must *)
(* look like to be kept, and what the history shows of them                *)
(*   application/audit_history.py, apps/api/audit_history.py               *)
(*                                                                         *)
(* A submitted result, screen or report is a record of what the checks     *)
(* read. A text is "ok", or what is wrong with it; a field that is named   *)
(* for what the code requires ("unmodified", "clean") is a Boolean. The    *)
(* digest of a document is the document.                                   *)
(***************************************************************************)
EXTENDS Checks

CONSTANT WindowsControls      \* PC-01 to PC-18; an instance may have fewer

HistoryStatuses == {"PASS", "FAIL", "ERROR", "REVIEW", "N/A"}
AdministratorIds == {"PC-02", "PC-04", "PC-06", "PC-08", "PC-10"}
PresentationKinds == {"ADMINISTRATOR", "AI_COMPLETED"}

IdsOf(items) == {items[i].control : i \in DOMAIN items}
\* Every control once.
Covers(items, ids) == Len(items) = Cardinality(ids) /\ IdsOf(items) = ids

(* --------------------------- Windows snapshots ------------------------ *)
\* _context_items: explanations and AI inputs; an explanation may have no digest.
ContextItemChecks(items, ids, kind) ==
  <<Check(Len(items) # Cardinality(ids), "COVERAGE_INVALID"),
    Check(\E i \in DOMAIN items : ~items[i].clean, "CONTEXT_INVALID"),
    Check(\E i \in DOMAIN items :
            items[i].authority # "RULE_ENGINE" \/ items[i].status \notin HistoryStatuses,
          "AUTHORITY_INVALID"),
    Check(kind = "AI_EXPLANATION_INPUT" /\ \E i \in DOMAIN items : ~items[i].safe, "SAFETY_INVALID"),
    Check(\E i \in DOMAIN items :
            items[i].digest # "own" /\ (kind = "AI_EXPLANATION_INPUT" \/ items[i].digest # "none"),
          "HASH_INVALID"),
    Check(~Covers(items, ids), "COVERAGE_INVALID")>>

ControlChecks(controls) ==
  <<Check(Len(controls) # Cardinality(WindowsControls), "CONTROL_COVERAGE_INVALID"),
    Check(\E i \in DOMAIN controls : controls[i].control \notin WindowsControls, "CONTROL_ID_INVALID"),
    Check(\E i \in DOMAIN controls : controls[i].status \notin HistoryStatuses, "CONTROL_STATUS_INVALID"),
    Check(\E i \in DOMAIN controls : controls[i].text # "ok", "CONTROL_TEXT_INVALID"),
    Check(~Covers(controls, WindowsControls), "CONTROL_COVERAGE_INVALID")>>

ResultKeyChecks(s) ==
  <<Check(~s.hex, "RESULT_ID_INVALID"),
    Check(s.version \notin 1..1000000, "RESULT_VERSION_INVALID")>>

\* validate_windows_audit_snapshot
SnapshotChecks(s) ==
  <<Check(~s.noRawValues, "RAW_VALUES_PERSISTED_FORBIDDEN"),
    Check(~s.unmodified, "SETTINGS_MODIFIED_FORBIDDEN"),
    Check(~s.noFinding, "OFFICIAL_FINDING_WRITE_FORBIDDEN"),
    Check(s.kind # "LIVE_DRAFT_ASSESSMENT", "WINDOWS_RESULT_KIND_INVALID")>>
  \o ResultKeyChecks(s)
  \o <<Check(s.attempt < 1, "RESULT_ATTEMPT_INVALID")>>
  \o ControlChecks(s.controls)
  \o ContextItemChecks(s.explanations, WindowsControls, "OFFICIAL_EXPLANATION")
  \o ContextItemChecks(s.aiInputs, WindowsControls, "AI_EXPLANATION_INPUT")
  \o <<Check(s.criteria = "malformed", "CRITERIA_SHA256_INVALID"),
       Check(~s.dated, "OBSERVED_AT_INVALID")>>

StatusCount(controls, status) == Cardinality({i \in DOMAIN controls : controls[i].status = status})
SummarizeResultControls(controls) ==
  [total |-> Len(controls), pass |-> StatusCount(controls, "PASS"), fail |-> StatusCount(controls, "FAIL"),
   error |-> StatusCount(controls, "ERROR"), review |-> StatusCount(controls, "REVIEW"),
   notApplicable |-> StatusCount(controls, "N/A")]

\* The part of a result that is kept, and hashed.
KeptResult(s) ==
  [result |-> s.result, version |-> s.version, attempt |-> s.attempt, criteria |-> s.criteria,
   controls |-> s.controls, explanations |-> s.explanations, aiInputs |-> s.aiInputs,
   counts |-> SummarizeResultControls(s.controls)]

(* ----------------------- results of Linux and switches ---------------- *)
\* attach_device_history_context; d.controls are the controls of the result.
AttachChecks(d, explanations, aiInputs) ==
  LET ids == IdsOf(d.controls)
  IN <<Check(d.controls = <<>> \/ Cardinality(ids) # Len(d.controls), "DEVICE_CONTROL_COVERAGE_INVALID"),
       Check(~explanations.clean, "DEVICE_OFFICIAL_EXPLANATIONS_INVALID"),
       Check(~aiInputs.clean, "DEVICE_AI_INPUTS_INVALID"),
       Check(~Covers(explanations.items, ids) \/ ~Covers(aiInputs.items, ids),
             "DEVICE_HISTORY_CONTEXT_COVERAGE_INVALID")>>

\* _completed_device_ai_screen: all controls and the summary, or nothing.
\* outputs are the identifiers that have a text.
DeviceAiScreenComplete(controls, aiInputs, outputs) ==
  "SUMMARY" \in outputs /\ IdsOf(controls) \subseteq outputs /\ IdsOf(controls) \subseteq IdsOf(aiInputs)

(* ---------------------------- Windows screens ------------------------- *)
AdministratorResultChecks(results) ==
  <<Check(\/ \E i \in DOMAIN results : results[i].control \notin AdministratorIds
          \/ Cardinality(IdsOf(results)) # Len(results), "ADMINISTRATOR_RESULT_COVERAGE_INVALID"),
    Check(\E i \in DOMAIN results : results[i].collection \notin {"COLLECTED", "ERROR", "UNSUPPORTED"},
          "ADMINISTRATOR_COLLECTION_STATUS_INVALID"),
    Check(\E i \in DOMAIN results : results[i].status \notin HistoryStatuses,
          "ADMINISTRATOR_ASSESSMENT_STATUS_INVALID"),
    Check(\E i \in DOMAIN results : results[i].text # "ok", "ADMINISTRATOR_TEXT_INVALID")>>

\* A report is <<>> or one record.
AdministratorReportChecks(report, required) ==
  IF report = <<>> THEN <<Check(required, "ADMINISTRATOR_REPORT_INVALID")>>
  ELSE LET r == report[1]
       IN <<Check(r.status # "COMPLETED" \/ ~r.unmodified \/ ~r.noRawValues \/ ~r.noFinding,
                  "ADMINISTRATOR_REPORT_INVALID"),
            Check(~r.dated, "OBSERVED_AT_INVALID"),
            Check(Len(r.results) \notin 1..5, "ADMINISTRATOR_RESULT_COVERAGE_INVALID"),
            Check(r.selected # Len(r.results), "ADMINISTRATOR_COUNT_INVALID"),
            Check(\E n \in r.counts : n \notin 0..5, "ADMINISTRATOR_COUNT_INVALID")>>
          \o AdministratorResultChecks(r.results)

\* The screen of an AI explanation belongs to a result and its version.
AiScreenChecks(screen, result, version) ==
  IF screen = <<>> THEN <<Check(TRUE, "AI_SCREEN_INVALID")>>
  ELSE LET s == screen[1]
       IN <<Check(s.version # 1, "AI_SCREEN_VERSION_INVALID"),
            Check(s.key # <<result, version>>, "AI_GENERATION_KEY_INVALID"),
            Check(s.summary # "ok", "AI_SUMMARY_INVALID"),
            Check(\E i \in DOMAIN s.controls : s.controls[i].sources \notin 0..8, "AI_SCREEN_SOURCE_INVALID"),
            Check(\E i \in DOMAIN s.controls : s.controls[i].text # "ok", "AI_SCREEN_CONTENT_INVALID"),
            Check(~Covers(s.controls, WindowsControls), "AI_SCREEN_COVERAGE_INVALID")>>

PresentationChecks(p) ==
  ResultKeyChecks(p)
  \o <<Check(p.kind \notin PresentationKinds, "PRESENTATION_KIND_INVALID"),
       Check(~p.marked, "TEST_ENVIRONMENT_MARKER_REQUIRED")>>
  \o AdministratorReportChecks(p.report, p.kind = "ADMINISTRATOR")
  \o IF p.kind = "AI_COMPLETED" THEN AiScreenChecks(p.screen, p.result, p.version) ELSE <<>>

\* The screen of another kind than AI_COMPLETED is not kept.
KeptPresentation(p) ==
  [result |-> p.result, version |-> p.version, kind |-> p.kind, report |-> p.report,
   screen |-> IF p.kind = "AI_COMPLETED" THEN p.screen ELSE <<>>]

(* ------------------------------- views -------------------------------- *)
\* A presentation row is [snapshot, kind, number, payload, at]. Of each kind
\* the highest number counts; of those, the one made last that has a report
\* gives the report, and the same for the screen.
LatestPresentations(rows, snapshot) ==
  {r \in rows : /\ r.snapshot = snapshot
                /\ \A q \in rows : q.snapshot = snapshot /\ q.kind = r.kind => q.number <= r.number}

LastWith(having) == {r \in having : \A q \in having : q.at <= r.at}

PresentationsView(rows, snapshot) ==
  LET latest == LatestPresentations(rows, snapshot)
  IN [report |-> {r.payload.report : r \in LastWith({q \in latest : q.payload.report # <<>>})},
      screen |-> {r.payload.screen : r \in LastWith({q \in latest : q.payload.screen # <<>>})},
      versions |-> {[kind |-> r.kind, number |-> r.number] : r \in latest}]

\* _UNIFIED_HISTORY_SQL: every Windows snapshot, and the Linux and switch runs
\* that completed and were not deleted.
UnifiedHistory(snapshots, linuxRuns, switchRuns, user) ==
  {s \in snapshots : s.owner = user}
    \cup {r \in linuxRuns : r.owner = user /\ r.status = "COMPLETED" /\ ~r.deleted}
    \cup {r \in switchRuns : r.owner = user /\ r.status = "COMPLETED"}

(* ------------------------------ retention ----------------------------- *)
PolicyChecks(p) ==
  <<Check(p.days \notin 30..3650, "RETENTION_DAYS_INVALID"),
    Check(p.mode \notin {"HOLD", "TOMBSTONE_AFTER_BACKUP"}, "DELETION_MODE_INVALID")>>

DefaultPolicy == [days |-> 365, backup |-> TRUE, mode |-> "HOLD"]

\* audit_history_entry_view: kept until, under the policy in force when it is shown.
RetainUntil(completed, policy) == completed + policy.days
=============================================================================
