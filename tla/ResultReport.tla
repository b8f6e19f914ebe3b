---------------------------- MODULE ResultReport ----------------------------
(***************************************************************************)
(* The reports of a Windows result: what is accepted, what a report says   *)
(* and which version it has                                                *)
(*   application/result_report.py,                                         *)
(*   persistence/database/result_report_repository.py                      *)
(*                                                                         *)
(* A report snapshot is a sequence of explanation inputs in the order of   *)
(* the controls, with the AI explanation there is, <<>> or one record.     *)
(***************************************************************************)
EXTENDS ResultExplanation

ReportKinds == {"USER", "TECHNICAL"}
ReportedStatuses == {"PASS", "FAIL", "ERROR", "REVIEW", "NOT_EVALUATED"}

\* _validate_explanation
ExplanationChecks(e) ==
  <<Check(e.control \notin WindowsControls, "CONTROL_ID_INVALID"),
    Check(e.authority # "RULE_ENGINE", "STATUS_AUTHORITY_INVALID"),
    Check(e.status \notin ReportedStatuses, "RULE_STATUS_INVALID"),
    Check(e.findingWrite, "OFFICIAL_FINDING_WRITE_NOT_ALLOWED"),
    Check(~e.safe, "EXPLANATION_SAFETY_INVALID"),
    Check(~e.hashed, "EXPLANATION_INPUT_HASH_MISMATCH"),
    Check(e.text # "ok", "TEXT_INVALID"),
    Check(e.methods = {}, "COLLECTION_METHODS_INVALID")>>

\* _validate_ai_explanation: only a generated one must be of these inputs.
AiExplanationChecks(ai, inputs) ==
  IF ai = <<>> \/ \E i \in DOMAIN ai : ai[i].status # "GENERATED" THEN <<>>
  ELSE LET a == ai[1]
       IN <<Check(~a.safe, "AI_SAFETY_INVALID"),
            Check(a.official # {[control |-> inputs[i].control, status |-> inputs[i].status] :
                                 i \in DOMAIN inputs}, "AI_OFFICIAL_RESULTS_MISMATCH"),
            Check(a.inputs # inputs, "AI_INPUT_LINEAGE_MISMATCH"),
            Check(~a.hashed, "AI_OUTPUT_HASH_MISMATCH")>>

\* validate_report_snapshot
ReportSnapshotChecks(s) ==
  ResultKeyChecks(s)
  \o <<Check(~s.dated, "OBSERVED_AT_INVALID"),
       Check(Len(s.inputs) # Cardinality(WindowsControls), "CONTROL_COVERAGE_INVALID"),
       Check(\E i \in DOMAIN s.inputs : FirstRejection(ExplanationChecks(s.inputs[i])) # Accepted,
             "EXPLANATION_REJECTED"),
       Check(~Covers(s.inputs, WindowsControls) \/ ~s.ordered, "CONTROL_COVERAGE_INVALID")>>
  \o AiExplanationChecks(s.ai, s.inputs)
  \o <<Check(~s.marked, "TEST_ENVIRONMENT_MARKER_REQUIRED")>>

\* build_model_manifest: what a technical report says of the model.
ModelManifest(capability, ai) ==
  LET local == capability.provider = "VLLM" /\ capability.deployment = "LOCAL_VLLM"
      default == CASE capability.provider = "OPENROUTER" -> "VLLM_COMPATIBILITY_TEST_DOUBLE"
                   [] local -> "LOCAL_VLLM_FULL_CONTEXT"
                   [] OTHER -> "UNAVAILABLE"
  IN [usage |-> IF local THEN "LOCAL_INFERENCE" ELSE "COMPATIBILITY_TEST",
      runtime |-> IF ai # <<>> THEN ai[1].runtime
                  ELSE IF capability.runtime # "none" THEN capability.runtime ELSE default,
      external |-> IF ai # <<>> THEN ai[1].external ELSE capability.external,
      malware |-> CASE capability.preparation = "PREPARED_NOT_ACTIVE" -> "PENDING_RUNTIME_GATE"
                    [] capability.preparation # "PREPARED_NOT_ACTIVE" /\ local -> "PENDING"
                    [] OTHER -> "NOT_PRESENT",
      verification |-> capability.preparation]

\* build_report_document: the counts name four statuses; codes, digests, methods
\* and the model are in a technical report only.
ReportDocument(s, kind, version, manifest) ==
  [kind |-> kind, version |-> version, snapshot |-> s,
   total |-> Cardinality(WindowsControls),
   counted |-> [t \in {"PASS", "FAIL", "ERROR", "REVIEW"} |->
                  Cardinality({i \in DOMAIN s.inputs : s.inputs[i].status = t})],
   explained |-> \E i \in DOMAIN s.ai : s.ai[i].status = "GENERATED",
   technical |-> IF kind = "TECHNICAL" THEN {manifest} ELSE {}]

(* ---------------------------- stored reports -------------------------- *)
\* A row of the snapshots is [result, payload, asset], of the reports
\* [snapshot, kind, number, manifest]; the rows are those of one login.
\* allocate_report_version: one past the reports of any snapshot of the result.
ReportVersion(reports, result, kind) ==
  LET numbers == {r.number : r \in {q \in reports : q.snapshot.result = result /\ q.kind = kind}}
  IN IF numbers = {} THEN 1 ELSE 1 + CHOOSE n \in numbers : \A m \in numbers : m <= n

\* list_reports
ListReports(reports, result, technical) ==
  {r \in reports : r.snapshot.result = result /\ (technical \/ r.kind = "USER")}
=============================================================================
