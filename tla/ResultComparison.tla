-------------------------- MODULE ResultComparison --------------------------
(***************************************************************************)
(* What the page shows of a scan, and how two scans are compared.          *)
(*   application/scan_result_guidance.py,                                  *)
(*   application/result_recheck_comparison.py                              *)
(*                                                                         *)
(* A row is [display, status, additional] of one control; status is        *)
(* NotEvaluated where there is no assessment, additional is "NONE" where    *)
(* the criteria add no judgement. The order of the rows is layout.         *)
(***************************************************************************)
EXTENDS Checks

NotEvaluated == "NOT_EVALUATED"
RuleStatuses == {"PASS", "FAIL", "ERROR", "REVIEW", "N/A"}

Count(rows, P(_)) == Cardinality({c \in DOMAIN rows : P(rows[c])})

\* probes[c] are the probes of a control, collected maps a probe of the receipt
\* to its status; assessments may lack a control.
BuildControlResults(probes, administrator, collected, assessments) ==
  [c \in DOMAIN probes |->
     [display |-> IF c \in administrator THEN "ADMIN_REQUIRED"
                  ELSE IF /\ probes[c] \subseteq DOMAIN collected
                          /\ \A p \in probes[c] : collected[p] = "COLLECTED"
                    THEN "EVIDENCE_COLLECTED" ELSE "REVIEW_REQUIRED",
      status |-> IF c \in DOMAIN assessments THEN assessments[c].status ELSE NotEvaluated,
      additional |-> IF c \in DOMAIN assessments THEN assessments[c].additional ELSE "NONE"]]

SummarizeControls(rows) ==
  LET shown(d) == LET Is(r) == r.display = d IN Count(rows, Is)
  IN [collected |-> shown("EVIDENCE_COLLECTED"), review |-> shown("REVIEW_REQUIRED"),
      administrator |-> shown("ADMIN_REQUIRED")]

SummarizeAssessments(rows) ==
  [s \in RuleStatuses \cup {NotEvaluated} |-> LET Is(r) == r.status = s IN Count(rows, Is)]

(* ------------------------------ comparison ---------------------------- *)
\* PASS and N/A are one risk: a change between them is none.
StatusRisk(status) ==
  CASE status \in {"N/A", "PASS"} -> 0
    [] status = "REVIEW" -> 1
    [] status = "ERROR" -> 2
    [] status = "FAIL" -> 3

ChangeOf(previous, current) ==
  IF StatusRisk(current) = StatusRisk(previous) THEN "UNCHANGED"
  ELSE IF StatusRisk(current) < StatusRisk(previous) THEN "IMPROVED" ELSE "WORSENED"

AtRisk(rows) == {c \in DOMAIN rows : rows[c].status \in {"FAIL", "ERROR", "REVIEW"}}
Comparable(rows) ==
  DOMAIN rows # {} /\ Cardinality(DOMAIN rows) <= 18 /\ \A c \in DOMAIN rows : rows[c].status \in RuleStatuses

Changed(changes, kind) == LET Is(x) == x.change = kind IN Count(changes, Is)

\* old and new are [id, sequence, rows].
ComparisonBuilds(old, new) ==
  /\ old.id # new.id /\ old.sequence >= 1 /\ new.sequence > old.sequence
  /\ Comparable(old.rows) /\ Comparable(new.rows)
  /\ DOMAIN old.rows = DOMAIN new.rows

BuildComparison(old, new) ==
  LET changes == [c \in DOMAIN new.rows |->
                    [previous |-> old.rows[c].status, current |-> new.rows[c].status,
                     change |-> ChangeOf(old.rows[c].status, new.rows[c].status)]]
  IN [previous |-> [id |-> old.id, version |-> old.sequence],
      current |-> [id |-> new.id, version |-> new.sequence],
      changes |-> changes, remaining |-> AtRisk(new.rows),
      summary |-> [improved |-> Changed(changes, "IMPROVED"), worsened |-> Changed(changes, "WORSENED"),
                   unchanged |-> Changed(changes, "UNCHANGED"), remaining |-> Cardinality(AtRisk(new.rows))]]

\* validate_recheck_comparison, on the server: everything is computed again.
ValidateComparison(comparison) ==
  LET x == comparison.changes
  IN FirstRejection(
       <<Check(\/ comparison.previous.id = comparison.current.id
               \/ comparison.current.version <= comparison.previous.version,
               "RECHECK_RESULT_LINEAGE_INVALID"),
         Check(comparison.previous.version < 1 \/ comparison.current.version < 2,
               "RESULT_VERSION_INVALID"),
         Check(\E c \in DOMAIN x :
                 \/ {x[c].previous, x[c].current} \cap RuleStatuses # {x[c].previous, x[c].current}
                 \/ x[c].change # ChangeOf(x[c].previous, x[c].current), "RECHECK_CHANGE_INVALID"),
         Check(\/ comparison.summary.improved # Changed(x, "IMPROVED")
               \/ comparison.summary.worsened # Changed(x, "WORSENED")
               \/ comparison.summary.unchanged # Changed(x, "UNCHANGED")
               \/ comparison.summary.remaining # Cardinality(comparison.remaining),
               "RECHECK_SUMMARY_INVALID")>>)
=============================================================================
