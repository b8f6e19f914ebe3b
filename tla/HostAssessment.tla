--------------------------- MODULE HostAssessment ---------------------------
(***************************************************************************)
(* The assessment of the PC that runs the collector: the observations of   *)
(* the probes become evidence, and every control of PC-01..PC-18 gets one  *)
(* decision (application/current_host_regression.py).                      *)
(*                                                                         *)
(* An observation is [control, probe, status, error, admin, sid, at,       *)
(* shape, fields, raw]. "shape" is how many source records came: "none",   *)
(* "one", "summary" (a SUMMARY record and its details) or "many" (several  *)
(* records and no summary). "fields" says whether the fields read have     *)
(* their JSON types: "ok", "wrong" or "missing". "raw" holds the facts.    *)
(* criteria is <<>> or <<values>>, the validated criteria snapshot.        *)
(***************************************************************************)
EXTENDS RuleEngine

CONSTANTS ReferenceSnapshot,   \* reference_snapshots/microsoft_windows_11
          AdapterCatalog       \* adapter_catalogs/endpoint_protection

ControlIds ==
  {"PC-01", "PC-02", "PC-03", "PC-04", "PC-05", "PC-06", "PC-07", "PC-08", "PC-09",
   "PC-10", "PC-11", "PC-12", "PC-13", "PC-14", "PC-15", "PC-16", "PC-17", "PC-18"}
AdministratorControls == {"PC-02", "PC-04", "PC-06", "PC-08", "PC-10"}

Scopes ==
  [c \in ControlIds |->
     IF c \in {"PC-01", "PC-02", "PC-03", "PC-09", "PC-17", "PC-18"} THEN "POLICY"
     ELSE IF c = "PC-07" THEN "VOLUME"
     ELSE IF c = "PC-16" THEN "USER"
     ELSE "ASSET"]

First(o) == o.shape = "one"
SummaryRecord(o) == o.shape \in {"one", "summary"}

(* ------------------------ observations to evidence -------------------- *)
AutomaticModes == {"AUTO", "BOOT", "SYSTEM"}
RunningOf(services) == {s \in services : s.state = "RUNNING"}
AutomaticOf(services) == {s \in services : s.mode \in AutomaticModes}
ProductName(names) ==
  IF "Windows 11" \in names THEN "Windows 11"
  ELSE IF "Windows 10" \in names THEN "Windows 10" ELSE "other product"

\* FALSE where _standardized_value raises.
Standardizes(o) ==
  CASE o.control = "PC-05" -> TRUE
    [] o.control \in {"PC-07", "PC-15"} -> o.fields # "missing"
    [] o.control \in {"PC-04", "PC-06"} -> SummaryRecord(o)
    [] o.control = "PC-08" -> SummaryRecord(o) /\ o.fields # "missing"
    [] o.control = "PC-09" -> First(o) /\ o.fields # "missing"
    [] o.control = "PC-11" -> First(o) /\ o.fields = "ok"
    [] OTHER -> First(o)

StandardizedValue(o) ==
  LET r == o.raw
  IN CASE o.control = "PC-05" ->
            [evaluated |-> Cardinality(r.services),
             running |-> Cardinality(RunningOf(r.services)),
             automatic |-> Cardinality(AutomaticOf(r.services))]
       [] o.control = "PC-08" -> [bootable |-> r.bootable]
       [] o.control = "PC-09" ->
            [applicability |-> r.applicability, emptyCache |-> r.emptyCache,
             used |-> r.applicability = "APPLICABLE", confirmed |-> FALSE, users |-> r.users]
       [] o.control = "PC-11" ->
            [product |-> ProductName(r.names), edition |-> r.edition,
             version |-> r.version, arch |-> r.arch]
       [] o.control \in {"PC-01", "PC-02", "PC-03"} -> [r EXCEPT !.source = "UNKNOWN"]
       [] o.control \in {"PC-13", "PC-14"} -> [r EXCEPT !.adapter = o.adapter]
       [] o.control = "PC-15" ->
            [adapter |-> o.adapter, store |-> "ACTIVE_STORE", allFields |-> TRUE,
             applicable |-> {p.profile : p \in r.profiles},
             enabled |-> {p.profile : p \in {q \in r.profiles : q.enabled}},
             thirdParty |-> FALSE, thirdAdapter |-> Missing, testCase |-> FALSE,
             thirdEffective |-> FALSE, covered |-> {}]
       [] OTHER -> r

\* The USER scope needs the SID of the user the probe ran as.
SubjectKnown(o) == Scopes[o.control] = "USER" => o.sid

PreparedStatus(o) ==
  IF o.status = "UNSUPPORTED" \/ (o.status = "COLLECTED" /\ o.shape = "none")
    THEN "ERROR" ELSE o.status
PreparedError(o) ==
  IF PreparedStatus(o) = "COLLECTED" THEN "NONE"
  ELSE IF \/ o.status = "COLLECTED"
          \/ o.error \in {"QUERY_FAILED", "SOURCE_UNAVAILABLE", "ADAPTER_UNSUPPORTED"}
    THEN "EVIDENCE_INCOMPLETE" ELSE o.error

PreparationRaises(o) ==
  ~SubjectKnown(o) \/ (PreparedStatus(o) = "COLLECTED" /\ ~Standardizes(o))

PreparedEvidence(o) ==
  LET status == PreparedStatus(o)
  IN [control |-> o.control, probe |-> o.probe, scope |-> Scopes[o.control],
      status |-> status, error |-> PreparedError(o), typed |-> o.fields = "ok",
      value |-> IF status = "COLLECTED" THEN StandardizedValue(o) ELSE Missing,
      source |-> "UNKNOWN", at |-> o.at]

\* PC-07: one record per volume of a collected probe, one aggregate record of a
\* probe that failed.
PreparedStorage(observations) ==
  UNION {IF PreparedStatus(o) = "COLLECTED"
           THEN {[subject |-> v.volume, probe |-> o.probe, status |-> "COLLECTED",
                  error |-> "NONE", value |-> v] : v \in o.raw}
           ELSE {[subject |-> "pc07:collection", probe |-> o.probe,
                  status |-> PreparedStatus(o), error |-> PreparedError(o), value |-> Missing]}
         : o \in {p \in observations : p.control = "PC-07"}}

(* ----------------------- the selected criteria ------------------------ *)
Day == 24 * Hour
NoTime == -1
AgeIn(unit, now, then) == IF then > now THEN 0 ELSE (now - then) \div unit

Selected02(o, c) ==
  IF ~First(o) \/ o.fields # "ok" THEN Raised
  ELSE PassIf(/\ o.raw.length >= c.minLength
              /\ c.complexity => o.raw.complexity
              /\ c.required => o.raw.required,
              "PASSWORD_POLICY_MEETS_SELECTED_CRITERIA", "PASSWORD_POLICY_BELOW_SELECTED_CRITERIA")

Selected04(o, c) ==
  LET r == o.raw
  IN IF ~SummaryRecord(o) \/ o.fields # "ok" THEN Raised
     ELSE IF r.regular # Cardinality(r.shares) \/ r.total < r.regular + r.adminShares THEN Raised
     ELSE PassIf(/\ r.adminShares = 0 /\ r.everyone = 0 /\ r.broadWrite = 0
                 /\ r.shares \subseteq c.shares /\ r.autoShareOff,
                 "SHARES_MEET_SELECTED_CRITERIA", "UNAPPROVED_OR_UNRESTRICTED_SHARE_FOUND")

\* The inventory is matched against the services the criteria name; how the
\* collection ended is not looked at.
Selected05(o, c) ==
  LET keyed == o.raw.services
      matched == {s \in keyed : s.key \in c.services}
  IN IF c.services = {} \/ o.fields # "ok" THEN Raised
     ELSE IF \E s, t \in keyed : s # t /\ s.key = t.key THEN Raised
     ELSE PassIf(RunningOf(matched) = {} /\ AutomaticOf(matched) = {},
                 "UNNECESSARY_SERVICES_STOPPED", "UNNECESSARY_SERVICE_RUNNING_OR_AUTOMATIC")

Selected06(o, c) ==
  LET r == o.raw
      unapproved == {m \in r.matches : m.product \notin c.messengers}
  IN IF ~SummaryRecord(o) \/ o.fields # "ok" THEN Raised
     ELSE IF r.detected # Cardinality(r.matches) \/ r.catalog = 0 THEN Raised
     ELSE IF \E m \in r.matches : ~m.installed /\ ~m.running THEN Raised
     ELSE IF r.running # Cardinality({m \in r.matches : m.running}) THEN Raised
     ELSE IF r.lowConfidence > 0 THEN Decide("ERROR", "EVIDENCE_INCOMPLETE")
     ELSE PassIf(unapproved = {}, "MESSENGERS_MEET_SELECTED_CRITERIA", "UNAPPROVED_MESSENGER_FOUND")

Selected10(o, c) ==
  LET r == o.raw
  IN IF ~First(o) \/ o.fields # "ok" \/ r.successful > r.history THEN Raised
     ELSE IF (r.successful = 0) # (r.latest = NoTime) THEN Raised
     ELSE IF r.successful = 0 THEN Decide("FAIL", "NO_SUCCESSFUL_UPDATE_HISTORY")
     ELSE PassIf(/\ AgeIn(Day, o.at, r.latest) <= c.updateDays
                 /\ r.automatic /\ ~r.restart,
                 "UPDATE_COMPLIANCE_MEETS_SELECTED_CRITERIA",
                 "UPDATE_COMPLIANCE_BELOW_SELECTED_CRITERIA")

Selected13(o, c) ==
  LET r == o.raw
  IN IF ~First(o) \/ o.fields # "ok" THEN Raised
     ELSE IF ~r.present THEN Decide("FAIL", "ANTIVIRUS_NOT_INSTALLED_FOR_DEFAULT_SCOPE")
     ELSE IF r.signedAt = NoTime \/ r.signedAt > o.at THEN Raised
     ELSE PassIf(/\ r.state = "ACTIVE" /\ r.service /\ r.healthy
                 /\ AgeIn(Hour, o.at, r.signedAt) <= c.avHours,
                 "ANTIVIRUS_SIGNATURE_MEETS_DEFAULT_SCOPE", "ANTIVIRUS_SIGNATURE_BELOW_DEFAULT_SCOPE")

Selected09(o, c) ==
  IF ~First(o) \/ o.fields # "ok" THEN Raised
  ELSE IF ~c.wininetScope THEN Decide("REVIEW", "WININET_SELECTED_SCOPE_REQUIRED")
  ELSE IF o.raw.applicability = "NOT_APPLICABLE"
    THEN Decide("N/A", "WININET_NOT_APPLICABLE_TO_SELECTED_SCOPE")
  ELSE PassIf(o.raw.applicability = "APPLICABLE" /\ o.raw.emptyCache = "on",
              "WININET_CACHE_DELETE_CONFIGURED", "WININET_CACHE_DELETE_NOT_CONFIGURED")

Minute == 60

Selected16(o, c) ==
  IF ~First(o) \/ o.fields # "ok" THEN Raised
  ELSE IF ~({o.raw.active, o.raw.secure} \subseteq {"0", "1", Missing}) THEN Raised
  ELSE IF ~c.screenScope THEN Decide("REVIEW", "SCREEN_SAVER_SELECTED_SCOPE_REQUIRED")
  ELSE PassIf(/\ o.raw.active = "1" /\ o.raw.secure = "1"
              /\ o.raw.seconds \in 1..(c.screenMinutes * Minute),
              "SCREEN_SAVER_MEETS_SELECTED_SCOPE", "SCREEN_SAVER_BELOW_SELECTED_SCOPE")

Selected17(o, c) ==
  IF ~First(o) \/ o.fields # "ok" THEN Raised
  ELSE IF ~c.autoplay THEN Decide("REVIEW", "AUTOPLAY_SELECTED_SCOPE_REQUIRED")
  ELSE PassIf(/\ o.raw.autoplayOff /\ o.raw.drives = "ALL_DRIVES"
              /\ o.raw.autorun = "DO_NOT_EXECUTE" /\ o.raw.nonVolumeBlocked,
              "AUTOPLAY_DISABLED_FOR_DEFAULT_SCOPE", "AUTOPLAY_NOT_DISABLED_FOR_DEFAULT_SCOPE")

Selected18(o, c) ==
  IF ~First(o) \/ o.fields # "ok" THEN Raised
  ELSE IF ~({o.raw.solicited, o.raw.offered} \subseteq {"0", "1", Missing}) THEN Raised
  ELSE IF ~c.remote THEN Decide("REVIEW", "REMOTE_ASSISTANCE_SELECTED_SCOPE_REQUIRED")
  ELSE PassIf(o.raw.solicited = "0" /\ o.raw.offered = "0",
              "REMOTE_ASSISTANCE_EXPLICITLY_DISABLED_FOR_DEFAULT_SCOPE",
              "REMOTE_ASSISTANCE_NOT_EXPLICITLY_DISABLED")

SelectedDecision(o, c) ==
  CASE o.control = "PC-02" -> Selected02(o, c)
    [] o.control = "PC-04" -> Selected04(o, c)
    [] o.control = "PC-05" -> Selected05(o, c)
    [] o.control = "PC-06" -> Selected06(o, c)
    [] o.control = "PC-09" -> Selected09(o, c)
    [] o.control = "PC-10" -> Selected10(o, c)
    [] o.control = "PC-13" -> Selected13(o, c)
    [] o.control = "PC-16" -> Selected16(o, c)
    [] o.control = "PC-17" -> Selected17(o, c)
    [] o.control = "PC-18" -> Selected18(o, c)

EvidenceFail(decision) ==
  IF decision.status = "RAISED" THEN Decide("FAIL", "EVIDENCE_INCOMPLETE") ELSE decision

\* Both callers turn what is raised into an incomplete-evidence ERROR.
EvidenceError(decision) ==
  IF decision.status = "RAISED" THEN Decide("ERROR", "EVIDENCE_INCOMPLETE") ELSE decision

(* --------------------------- one live decision ------------------------ *)
\* PC-08: the entries, when listed, are as many as counted; a profile that
\* promises names has them all.
LiveBootEntries(o) ==
  LET r == o.raw
  IN IF ~SummaryRecord(o) \/ o.fields # "ok" THEN Raised
     ELSE IF (r.entries > 0 \/ r.named) /\ r.bootable # r.entries THEN Raised
     ELSE Pc08(r)

UsesAdministratorPath(o) == o.control \in AdministratorControls /\ o.admin

AdministratorDecision(o, criteria) ==
  IF o.status # "COLLECTED" THEN Decide("ERROR", "COLLECTION_FAILED")
  ELSE IF o.control = "PC-08" THEN EvidenceError(LiveBootEntries(o))
  ELSE IF criteria # <<>> THEN EvidenceError(SelectedDecision(o, criteria[1]))
  ELSE IF ~SummaryRecord(o) THEN Decide("ERROR", "EVIDENCE_INCOMPLETE")
  ELSE Decide("REVIEW", "CRITERIA_REQUIRED")

CriteriaControls == {"PC-05", "PC-09", "PC-13", "PC-16", "PC-17", "PC-18"}

\* _decision: no organization standard is ever passed on this path.
EngineDecision(o) ==
  LET ev == PreparedEvidence(o)
  IN CASE o.control \in {"PC-01", "PC-02", "PC-03"} ->
            AccountPolicyEvaluate(o.control, "exact", ev, <<>>)
       [] o.control \in {"PC-04", "PC-05", "PC-06", "PC-08", "PC-09"} ->
            ServiceEvaluate(o.control, "exact", ev, <<>>)
       [] o.control \in {"PC-10", "PC-11"} ->
            PatchEvaluate(o.control, "exact", ev, <<ReferenceSnapshot>>, <<>>)
       [] o.control \in {"PC-12", "PC-13", "PC-14", "PC-15"} ->
            EndpointEvaluate(o.control, "exact", ev,
                             IF o.control = "PC-12" THEN <<>> ELSE <<AdapterCatalog>>, <<>>)
       [] OTHER -> UserEvaluate(o.control, "exact", ev, <<>>)

EvaluationFailed(decision) ==
  IF decision.status = "RAISED" THEN Decide("ERROR", "LIVE_DRAFT_EVALUATION_FAILED")
  ELSE decision

\* The additional judgement shown beside the main one; "NONE" when there is none.
NoAdditional == Decide("NONE", "NO_ADDITIONAL_CRITERIA")
Withheld(decision) == IF decision.status = "RAISED" THEN NoAdditional ELSE decision

AdditionalDecision(o, c) ==
  IF o.status # "COLLECTED" THEN NoAdditional
  ELSE IF o.control \in {"PC-02", "PC-04", "PC-05", "PC-06", "PC-10"}
    THEN Withheld(SelectedDecision(o, c))
  ELSE IF ~First(o) \/ o.control \notin {"PC-01", "PC-16"} THEN NoAdditional
  ELSE IF o.control = "PC-01"
    THEN IF o.fields # "ok" THEN NoAdditional
         ELSE PassIf(o.raw.days \in 1..c.maxAge, "WITHIN_SELECTED_AGE", "ABOVE_SELECTED_AGE")
  ELSE IF o.fields # "ok" \/ o.raw.seconds = NoTimeout
    THEN Decide("REVIEW", "SCREEN_SAVER_TIMEOUT_UNKNOWN")
  ELSE PassIf(o.raw.seconds <= c.screenMinutes * Minute,
              "WITHIN_SELECTED_TIMEOUT", "ABOVE_SELECTED_TIMEOUT")

\* evaluate_live_draft_observations. An observation that cannot be prepared
\* aborts the whole evaluation, the other controls included.
LiveAborts(observations) == \E o \in observations : PreparationRaises(o)

LiveStorage(observations) ==
  LET supplied == {o \in observations : o.control = "PC-07"}
  IN IF {o.probe : o \in supplied} # StorageProbes
       THEN Decide("ERROR", "LIVE_DRAFT_EVIDENCE_NOT_COLLECTED")
     ELSE EvaluationFailed(StorageEvaluate("PC-07", "exact", PreparedStorage(supplied)))

LiveDecision(control, observations, criteria) ==
  LET own == {o \in observations : o.control = control}
      o == CHOOSE x \in own : TRUE
  IN IF own = {} THEN Decide("ERROR", "LIVE_DRAFT_EVIDENCE_NOT_COLLECTED")
     ELSE IF UsesAdministratorPath(o) THEN AdministratorDecision(o, criteria)
     ELSE IF control \in CriteriaControls /\ criteria # <<>>
       THEN EvidenceError(SelectedDecision(o, criteria[1]))
     ELSE IF control = "PC-07" THEN LiveStorage(observations)
     ELSE EvaluationFailed(EngineDecision(o))

LiveAdditional(control, observations, criteria) ==
  LET own == {o \in observations : o.control = control}
  IN IF own = {} \/ criteria = <<>> \/ control = "PC-07" THEN NoAdditional
     ELSE AdditionalDecision(CHOOSE x \in own : TRUE, criteria[1])
=============================================================================
