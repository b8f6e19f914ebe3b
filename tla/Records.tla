------------------------------- MODULE Records -------------------------------
(***************************************************************************)
(* What the tabs of one login keep about its Windows results               *)
(*   apps/api/audit_history.py, result_reports.py, assessment_criteria.py, *)
(*   result_ai_explanation.py and the repositories they call               *)
(*                                                                         *)
(* A request first validates its document, then opens a transaction: takes *)
(* its advisory lock and reads; the commit inserts what follows from the   *)
(* read rows. An insert ON CONFLICT waits for the other transaction, so it *)
(* takes effect at the commit; an insert that meets a row of its unique    *)
(* index fails. A fault fails a transaction as a whole. Tables only grow.  *)
(* Documents are constants, and the state names them.                      *)
(***************************************************************************)
EXTENDS AssessmentCriteria, ResultReport

CONSTANTS Tabs,          \* browser tabs of the login
          Assets,        \* assets the login may have assigned
          Results,       \* submitted Windows results, by name
          Screens,       \* submitted screens, by name
          Policies,      \* submitted retention policies, by name
          Reports,       \* report requests, by name
          Analyses,      \* requests for streamed explanations, by name
          Criteria,      \* submitted criteria: [owner, name, values], by name
          Capability,    \* what the model gateway tells of itself
          Evidence,      \* what the guides say, by control
          KeptBefore,    \* results the login may have kept before: [doc, asset]
          RemoteApproved, MaxRequests, MaxFaults

VARIABLES snapshots, presentations, policies, outputs, reports, events, profiles, selections,
          technical,     \* whether the login may have technical reports
          request,       \* tab -> what it asked and how far it is
          page,          \* tab -> the criteria its start page shows
          restored,      \* tab -> the AI cards it has read back
          used, faults

\* The controls of an analysis come as a sequence.
ASSUME RecordsAssumption ==
  \A doc \in DOMAIN Analyses :
    LET inputs == Analyses[doc].inputs IN inputs \in Seq({inputs[i] : i \in DOMAIN inputs})

tables == <<snapshots, presentations, policies, outputs, reports, events, profiles, selections>>
vars == <<tables, technical, request, page, restored, used, faults>>

Asked(op, doc) == [op |-> op, doc |-> doc, step |-> "begun", read |-> <<>>, answer |-> "none"]
Quiet == [Asked("NONE", "none") EXCEPT !.step = "answered"]

\* Nothing is kept yet, or a result is.
Init ==
  /\ \/ snapshots = {} /\ policies = {}
     \/ /\ policies = {[number |-> 1, policy |-> "default"]}
        /\ \E kept \in KeptBefore :
             /\ FirstRejection(SnapshotChecks(Results[kept.doc])) = Accepted
             /\ snapshots = {[result |-> Results[kept.doc].result, version |-> Results[kept.doc].version,
                              doc |-> kept.doc, asset |-> kept.asset, policy |-> {1}]}
  /\ presentations = {} /\ outputs = {} /\ reports = {}
  /\ events = {} /\ profiles = {} /\ selections = <<>>
  /\ technical = TRUE
  /\ request = [t \in Tabs |-> Quiet]
  /\ page = [t \in Tabs |-> <<>>]
  /\ restored = [t \in Tabs |-> {}]
  /\ used = 0 /\ faults = 0

Is(t, op, step) == request[t].op = op /\ request[t].step = step
AnswerAs(t, code) == request' = [request EXCEPT ![t].step = "answered", ![t].answer = code]
OpenWith(t, read) == request' = [request EXCEPT ![t].step = "open", ![t].read = read]

(* --------------------------- what is refused -------------------------- *)
Merged(r) == MergeAdministrator(r.inputs, r.results)
ReportSnapshot(r) ==
  [hex |-> r.hex, result |-> r.result, version |-> r.version, dated |-> r.dated, marked |-> r.marked,
   ordered |-> r.ordered, inputs |-> Merged(r), ai |-> r.ai]

ReportRequestChecks(r) ==
  <<Check(r.kind = "TECHNICAL" /\ ~technical, "TECHNICAL_REPORT_PERMISSION_REQUIRED")>>
  \o AdministratorMergeChecks(r.inputs, r.results)
  \o (IF FirstRejection(AdministratorMergeChecks(r.inputs, r.results)) # Accepted THEN <<>>
      ELSE ReportSnapshotChecks(ReportSnapshot(r)))

Refusal(op, doc) ==
  CASE op = "SNAPSHOT" -> FirstRejection(SnapshotChecks(Results[doc]))
    [] op = "PRESENTATION" -> FirstRejection(PresentationChecks(Screens[doc]))
    [] op = "POLICY" -> FirstRejection(PolicyChecks(Policies[doc]))
    [] op = "CRITERIA" -> IF ValuesAccepted(Criteria[doc].values) THEN Accepted ELSE "CRITERIA_INVALID"
    [] op = "REPORT" -> FirstRejection(ReportRequestChecks(Reports[doc]))

Documents ==
  [SNAPSHOT |-> DOMAIN Results, PRESENTATION |-> DOMAIN Screens, POLICY |-> DOMAIN Policies,
   CRITERIA |-> DOMAIN Criteria, REPORT |-> DOMAIN Reports]

\* A tab asks; a refused report leaves an event, unless that fails.
Ask(t) ==
  /\ request[t].step = "answered" /\ used < MaxRequests /\ used' = used + 1
  /\ \E op \in DOMAIN Documents : \E doc \in Documents[op] :
       LET refusal == Refusal(op, doc)
       IN IF refusal = Accepted
          THEN request' = [request EXCEPT ![t] = Asked(op, doc)] /\ UNCHANGED <<events, faults>>
          ELSE /\ request' = [request EXCEPT ![t] = [Asked(op, doc) EXCEPT !.step = "answered", !.answer = "REFUSED"]]
               /\ \/ events' = events \cup (IF op = "REPORT" THEN {<<"GENERATE_DENIED", refusal>>} ELSE {})
                     /\ UNCHANGED faults
                  \/ op = "REPORT" /\ faults < MaxFaults /\ faults' = faults + 1 /\ UNCHANGED events
  /\ UNCHANGED <<snapshots, presentations, policies, outputs, reports, profiles, selections,
                 technical, page, restored>>

(* ------------------------------- locks -------------------------------- *)
\* Reports of one snapshot, not of one result, would wait for each other.
LockOfSnapshot(op, doc) ==
  CASE op = "REPORT" -> <<op, doc>>
    [] op = "PRESENTATION" -> <<op, Screens[doc].result, Screens[doc].version, Screens[doc].kind>>
    [] op = "POLICY" -> <<op>>
    [] op = "CRITERIA" -> <<op, Criteria[doc].owner, Criteria[doc].name>>
    [] OTHER -> <<>>

\* Only reports would wait.
ReportLockOnly(op, doc) == IF op = "REPORT" THEN <<op, Reports[doc].result>> ELSE <<>>

\* pg_advisory_xact_lock: held from the opening of the transaction to its end.
LockOf(op, doc) ==
  CASE op = "PRESENTATION" -> <<op, Screens[doc].result, Screens[doc].version, Screens[doc].kind>>
    [] op = "POLICY" -> <<op>>
    [] op = "CRITERIA" -> <<op, Criteria[doc].owner, Criteria[doc].name>>
    [] op = "REPORT" -> <<op, Reports[doc].result, Reports[doc].version, Reports[doc].kind>>
    [] OTHER -> <<>>

LockFree(t) ==
  LET mine == LockOf(request[t].op, request[t].doc)
  IN \A u \in Tabs \ {t} :
       mine # <<>> /\ request[u].step = "open" => LockOf(request[u].op, request[u].doc) # mine

Begins(t, op) == Is(t, op, "begun") /\ LockFree(t) /\ UNCHANGED <<tables, technical, page, restored, used, faults>>
Untouched == UNCHANGED <<technical, page, restored, used, faults>>

\* Any transaction may fail: nothing of it stays.
StorageFails(t) ==
  /\ request[t].step \in {"begun", "open"} /\ request[t].op # "ANALYSIS"
  /\ faults < MaxFaults /\ faults' = faults + 1
  /\ request' = [request EXCEPT ![t].step = "answered", ![t].answer = "FAULT"]
  /\ UNCHANGED <<tables, technical, page, restored, used>>

NextNumber(numbers) == IF numbers = {} THEN 1 ELSE 1 + CHOOSE n \in numbers : \A m \in numbers : m <= n

(* --------------------------- retention policies ----------------------- *)
PolicyNumbers == {p.number : p \in policies}
EffectivePolicy(rows) == {p \in rows : \A q \in rows : q.number <= p.number}

\* append_audit_history_policy
OpenPolicy(t) == Begins(t, "POLICY") /\ OpenWith(t, NextNumber(PolicyNumbers))

CommitPolicy(t) ==
  /\ Is(t, "POLICY", "open")
  /\ LET n == request[t].read
     IN IF n \in PolicyNumbers THEN AnswerAs(t, "VIOLATION") /\ UNCHANGED policies
        ELSE policies' = policies \cup {[number |-> n, policy |-> request[t].doc]} /\ AnswerAs(t, "CREATED")
  /\ UNCHANGED <<snapshots, presentations, outputs, reports, events, profiles, selections>> /\ Untouched

\* ensure_default_audit_history_policy takes no lock: where it read no policy, it
\* inserts the first one unless one has come.
PolicyAfter(read) ==
  IF read # {} \/ 1 \in PolicyNumbers THEN policies
  ELSE policies \cup {[number |-> 1, policy |-> "default"]}

(* ----------------------------- Windows results ------------------------ *)
SnapshotOf(result, version) == {s \in snapshots : s.result = result /\ s.version = version}

OpenSnapshot(t) ==
  Begins(t, "SNAPSHOT") /\ \E asset \in Assets : OpenWith(t, <<asset, EffectivePolicy(policies)>>)

\* The row is taken for the submitted result whatever it holds.
KeepsTheKey(s, doc, asset) == s.asset = asset

Keeps(s, doc, asset) == s.asset = asset /\ KeptResult(Results[s.doc]) = KeptResult(Results[doc])

\* append_windows_audit_snapshot: the row that is there, or the new one, decides.
CommitSnapshot(t) ==
  /\ Is(t, "SNAPSHOT", "open")
  /\ LET doc == request[t].doc
         asset == request[t].read[1]
         read == request[t].read[2]
         there == SnapshotOf(Results[doc].result, Results[doc].version)
         kept == {s \in there : Keeps(s, doc, asset)}
     IN \/ /\ there = {} /\ policies' = PolicyAfter(read)
           /\ LET policy == IF read # {} THEN read ELSE EffectivePolicy(policies')
              IN snapshots' = snapshots \cup
                   {[result |-> Results[doc].result, version |-> Results[doc].version, doc |-> doc,
                     asset |-> asset, policy |-> {p.number : p \in policy}]}
           /\ AnswerAs(t, "CREATED")
        \/ there # {} /\ kept # {} /\ policies' = PolicyAfter(read) /\ UNCHANGED snapshots /\ AnswerAs(t, "STORED")
        \/ there # {} /\ kept = {} /\ UNCHANGED <<policies, snapshots>> /\ AnswerAs(t, "CONFLICT")
  /\ UNCHANGED <<presentations, outputs, reports, events, profiles, selections>> /\ Untouched

(* ------------------------------- screens ------------------------------ *)
RowsFor(p) ==
  {r \in presentations : r.snapshot = <<p.result, p.version>> /\ r.kind = p.kind}

OpenPresentation(t) ==
  /\ Begins(t, "PRESENTATION")
  /\ LET p == Screens[request[t].doc]
     IN IF SnapshotOf(p.result, p.version) = {} THEN AnswerAs(t, "SNAPSHOT_NOT_FOUND")
        ELSE OpenWith(t, [same |-> {r \in RowsFor(p) : r.payload = KeptPresentation(p)},
                          number |-> NextNumber({r.number : r \in RowsFor(p)})])

\* append_windows_audit_presentation; at is the order of the rows.
CommitPresentation(t) ==
  /\ Is(t, "PRESENTATION", "open")
  /\ LET p == Screens[request[t].doc]
         read == request[t].read
         row == [snapshot |-> <<p.result, p.version>>, kind |-> p.kind, number |-> read.number,
                 payload |-> KeptPresentation(p), at |-> Cardinality(presentations) + 1]
         Taken(r) == r.number = row.number \/ r.payload = row.payload
     IN IF read.same # {} THEN UNCHANGED presentations /\ AnswerAs(t, "STORED")
        ELSE IF \E r \in RowsFor(p) : Taken(r) THEN UNCHANGED presentations /\ AnswerAs(t, "VIOLATION")
        ELSE presentations' = presentations \cup {row} /\ AnswerAs(t, "CREATED")
  /\ UNCHANGED <<snapshots, policies, outputs, reports, events, profiles, selections>> /\ Untouched

(* ------------------------------- reports ------------------------------ *)
ReportSnapshots == {r.snapshot : r \in reports}
Payload == [doc \in DOMAIN Reports |-> ReportSnapshot(Reports[doc])]
ResultOf(doc) == <<Reports[doc].result, Reports[doc].version>>

OpenReport(t) ==
  /\ Begins(t, "REPORT")
  /\ LET doc == request[t].doc
     IN \E asset \in Assets : OpenWith(t, <<asset, ReportVersion(reports, ResultOf(doc), Reports[doc].kind)>>)

\* get_or_create_snapshot, append_report and the event, in one transaction.
CommitReport(t) ==
  /\ Is(t, "REPORT", "open")
  /\ LET doc == request[t].doc
         fresh == [result |-> ResultOf(doc), doc |-> doc, asset |-> request[t].read[1]]
         there == {s \in ReportSnapshots : s.result = fresh.result /\ Payload[s.doc] = Payload[doc]}
         snapshot == IF there = {} THEN fresh ELSE CHOOSE s \in there : TRUE
         ai == Reports[doc].ai
         row == [snapshot |-> snapshot, kind |-> Reports[doc].kind, number |-> request[t].read[2],
                 manifest |-> ModelManifest(Capability, ai)]
         taken == \E r \in reports : r.snapshot = row.snapshot /\ r.kind = row.kind /\ r.number = row.number
     IN IF snapshot.asset # fresh.asset
        THEN /\ AnswerAs(t, "CONFLICT") /\ UNCHANGED reports
             /\ events' = events \cup {<<"GENERATE_DENIED", "REPORT_SNAPSHOT_CONFLICT">>}
        ELSE IF taken THEN AnswerAs(t, "VIOLATION") /\ UNCHANGED <<reports, events>>
        ELSE /\ AnswerAs(t, "CREATED")
             /\ reports' = reports \cup {row} /\ events' = events \cup {<<"GENERATED", row>>}
  /\ UNCHANGED <<snapshots, presentations, policies, outputs, profiles, selections>> /\ Untouched

\* A download names a report; the one of someone else is "unknown".
AskDownload(t) ==
  /\ request[t].step = "answered" /\ used < MaxRequests /\ used' = used + 1
  /\ \E report \in {{}} \cup {{r} : r \in reports} :
       request' = [request EXCEPT ![t] = Asked("DOWNLOAD", report)]
  /\ UNCHANGED <<tables, technical, page, restored, faults>>

\* _load_report_or_404
LoadReport(t) ==
  /\ Is(t, "DOWNLOAD", "begun")
  /\ LET report == request[t].doc
         denied == \E r \in report : r.kind = "TECHNICAL" /\ ~technical
     IN \/ /\ report = {} /\ AnswerAs(t, "NOT_FOUND")
           /\ events' = events \cup {<<"DOWNLOAD_DENIED", "REPORT_NOT_FOUND">>}
        \/ /\ denied /\ AnswerAs(t, "DENIED")
           /\ events' = events \cup {<<"DOWNLOAD_DENIED", "TECHNICAL_REPORT_PERMISSION_REQUIRED">>}
        \/ report # {} /\ ~denied /\ OpenWith(t, <<>>) /\ UNCHANGED events
  /\ UNCHANGED <<snapshots, presentations, policies, outputs, reports, profiles, selections>> /\ Untouched

Deliver(t) ==
  /\ Is(t, "DOWNLOAD", "open") /\ AnswerAs(t, "DELIVERED")
  /\ events' = events \cup {<<"DOWNLOADED", r>> : r \in request[t].doc}
  /\ UNCHANGED <<snapshots, presentations, policies, outputs, reports, profiles, selections>> /\ Untouched

\* An administrator gives or takes the right to technical reports.
ChangeRole ==
  /\ used < MaxRequests /\ used' = used + 1 /\ technical' = ~technical
  /\ UNCHANGED <<tables, request, page, restored, faults>>

(* ------------------------------- criteria ----------------------------- *)
User == "user"
SelectionRequest(kind, profile, source, expected) ==
  [kind |-> kind, profile |-> profile, source |-> source, expected |-> expected]

OpenCriteria(t) ==
  /\ Begins(t, "CRITERIA")
  /\ LET c == Criteria[request[t].doc]
     IN OpenWith(t, NextNumber({p.version : p \in RowsOf(profiles, c.owner, c.name)}))

\* repository.append; a personal profile is then selected, in transactions of its own.
CommitCriteria(t) ==
  /\ Is(t, "CRITERIA", "open")
  /\ LET c == Criteria[request[t].doc]
         number == request[t].read
         row == [id |-> <<c.owner, c.name, number>>, owner |-> c.owner, name |-> c.name, version |-> number,
                 values |-> NormalizedValues(c.values)]
         selected == Asked("SELECT", SelectionRequest("PERSONAL", row.id, "CRITERIA_PAGE", <<>>))
     IN IF \E p \in profiles : p.id = row.id THEN AnswerAs(t, "VIOLATION") /\ UNCHANGED profiles
        ELSE /\ profiles' = profiles \cup {row}
             /\ IF c.owner = Nobody THEN AnswerAs(t, "CREATED") ELSE request' = [request EXCEPT ![t] = selected]
  /\ UNCHANGED <<snapshots, presentations, policies, outputs, reports, events, selections>> /\ Untouched

Selections ==
  {SelectionRequest(kind, NoProfile, "CRITERIA_PAGE", <<>>) : kind \in Sources}
    \cup {SelectionRequest("PERSONAL", p.id, "CRITERIA_PAGE", <<>>) : p \in LatestPersonal(profiles, User)}
    \cup {SelectionRequest("KISA_DEFAULT", NoProfile, "RESET", <<>>)}

\* The scan of a tab starts with the criteria its page shows.
ScanStarts(t) ==
  {SelectionRequest(page[t][i].kind, page[t][i].profile, "SCAN_START", <<page[t][i].digest>>) : i \in DOMAIN page[t]}

AskSelection(t) ==
  /\ request[t].step = "answered" /\ used < MaxRequests /\ used' = used + 1
  /\ \E s \in Selections \cup ScanStarts(t) : request' = [request EXCEPT ![t] = Asked("SELECT", s)]
  /\ UNCHANGED <<tables, technical, page, restored, faults>>

\* Its first read is the organization's criteria; a profile never changes.
OpenSelection(t) == Begins(t, "SELECT") /\ OpenWith(t, profiles)

CommitSelection(t) ==
  /\ Is(t, "SELECT", "open")
  /\ LET s == request[t].doc
         seen == request[t].read
         outcome == FirstRejection(SelectChecks(seen, User, s.kind, s.profile, s.expected))
         row == [kind |-> s.kind, profile |-> s.profile, source |-> s.source,
                 digest |-> CriteriaDigest(CriteriaOf(seen, s.kind, GetPersonal(seen, User, s.profile)))]
     IN \/ outcome # Accepted /\ AnswerAs(t, "REFUSED") /\ UNCHANGED selections
        \/ outcome = Accepted /\ selections' = Append(selections, row) /\ AnswerAs(t, "SELECTED")
  /\ UNCHANGED <<snapshots, presentations, policies, outputs, reports, events, profiles>> /\ Untouched

\* The start page: its criteria, unless they are refused.
OpenPage(t) ==
  /\ request[t].step = "answered" /\ used < MaxRequests /\ used' = used + 1
  /\ \E kind \in Sources \cup {""} : \E profile \in {p.id : p \in profiles} \cup {NoProfile} :
       LET latest == IF selections = <<>> THEN DefaultSelection(profiles) ELSE selections[Len(selections)]
           shown == Options(profiles, User, kind, profile, latest)
       IN /\ FirstRejection(OptionsChecks(profiles, User, kind, profile, latest)) = Accepted
          /\ page' = [page EXCEPT ![t] =
               <<[kind |-> shown.kind, digest |-> shown.digest,
                  profile |-> IF shown.selected = {} THEN NoProfile ELSE CHOOSE id \in shown.selected : TRUE]>>]
  /\ UNCHANGED <<tables, technical, request, restored, faults>>

(* --------------------------- AI explanations -------------------------- *)
\* windows_ai_snapshot: the cards that are kept.
LoadCards(t) ==
  /\ request[t].step = "answered" /\ used < MaxRequests /\ used' = used + 1
  /\ restored' = [restored EXCEPT ![t] = outputs]
  /\ UNCHANGED <<tables, technical, request, page, faults>>

SnapshotNamed(doc) == <<Analyses[doc].result, Analyses[doc].version>>

\* The page names the kept result, once it has learnt that it is kept.
AskAnalysis(t) ==
  /\ request[t].step = "answered" /\ used < MaxRequests /\ used' = used + 1
  /\ \E doc \in DOMAIN Analyses :
       \E linked \in {FALSE, SnapshotOf(Analyses[doc].result, Analyses[doc].version) # {}} :
         request' = [request EXCEPT ![t] = [Asked("ANALYSIS", doc) EXCEPT !.read = linked]]
  /\ UNCHANGED <<tables, technical, page, restored, faults>>

AnalysisChecks(a) ==
  LET merge == AdministratorMergeChecks(a.inputs, a.results)
  IN IF FirstRejection(merge) # Accepted THEN merge
     ELSE <<Check(PolicyOf(Capability, RemoteApproved) # Accepted, PolicyOf(Capability, RemoteApproved))>>
          \o PrepareChecks(Merged(a), [i \in DOMAIN a.inputs |->
               [Evidence[a.inputs[i].control] EXCEPT !.ruleStatus = Merged(a)[i].status]])

Sections(doc) == <<"SUMMARY">> \o [i \in DOMAIN Analyses[doc].inputs |-> Analyses[doc].inputs[i].control]

PrepareAnalysis(t) ==
  /\ Is(t, "ANALYSIS", "begun")
  /\ IF FirstRejection(AnalysisChecks(Analyses[request[t].doc])) # Accepted THEN AnswerAs(t, "FAILED")
     ELSE OpenWith(t, [linked |-> request[t].read, next |-> 1, made |-> {}, lost |-> {}])
  /\ UNCHANGED tables /\ Untouched

CardOf(rows, doc, section) == {o \in rows : o.snapshot = SnapshotNamed(doc) /\ o.key = section}
Skips(t, section) == request[t].read.linked /\ CardOf(restored[t], request[t].doc, section) # {}

\* The section is made, or read back; its card is lost if it could not be written.
Advance(t, made, lost) ==
  request' = [request EXCEPT ![t].read =
    [linked |-> @.linked, next |-> @.next + 1, made |-> @.made \cup made, lost |-> @.lost \cup lost]]

\* append_windows_ai_output: the first card of a section stays (ON CONFLICT DO NOTHING).
LastCardStays(card) ==
  {o \in outputs : o.snapshot # card.snapshot \/ o.key # card.key} \cup {card}
Appended(card) ==
  IF \E o \in outputs : o.snapshot = card.snapshot /\ o.key = card.key
  THEN outputs ELSE outputs \cup {card}

\* _store_windows_ai_output_best_effort: nothing without a kept result, and a
\* failure is not told. The text is the one the model wrote for this tab.
Store(t, section) ==
  LET doc == request[t].doc
      card == [snapshot |-> SnapshotNamed(doc), key |-> section,
               text |-> <<t, HeadingCounts(Merged(Analyses[doc]))>>]
  IN \/ ~request[t].read.linked /\ Advance(t, {section}, {}) /\ UNCHANGED <<outputs, faults>>
     \/ /\ request[t].read.linked /\ Advance(t, {section}, {})
        /\ outputs' = Appended(card) /\ UNCHANGED faults
     \/ /\ request[t].read.linked /\ Advance(t, {section}, {section})
        /\ faults < MaxFaults /\ faults' = faults + 1 /\ UNCHANGED outputs

\* How a stream of tokens may end: at its end, at its limit, for another reason,
\* or without one.
FinishReasons == {"stop", "length", "content_filter", "none"}

\* One section: read back before, or streamed from the model and kept. Only a
\* stream that says it reached its limit, is empty or breaks off is not accepted.
RunSection(t) ==
  /\ Is(t, "ANALYSIS", "open") /\ request[t].read.next <= Len(Sections(request[t].doc))
  /\ LET section == Sections(request[t].doc)[request[t].read.next]
     IN \/ Skips(t, section) /\ Advance(t, {}, {}) /\ UNCHANGED <<outputs, faults>>
        \/ \E emitted \in BOOLEAN, reason \in FinishReasons :
             /\ ~Skips(t, section)
             /\ \/ StreamRequest(emitted, reason) = Accepted /\ Store(t, section)
                \/ /\ StreamRequest(emitted, reason) # Accepted \/ reason = "none"
                   /\ AnswerAs(t, "FAILED") /\ UNCHANGED <<outputs, faults>>
  /\ UNCHANGED <<snapshots, presentations, policies, reports, events, profiles, selections,
                 technical, page, restored, used>>

EndAnalysis(t) ==
  /\ Is(t, "ANALYSIS", "open")
  /\ \/ request[t].read.next > Len(Sections(request[t].doc)) /\ AnswerAs(t, "COMPLETED")
     \/ AnswerAs(t, "DISCONNECTED")
  /\ UNCHANGED tables /\ Untouched

(* ----------------------------------------------------------------------- *)
Next ==
  \/ \E t \in Tabs :
       \/ Ask(t) \/ AskDownload(t) \/ AskSelection(t) \/ AskAnalysis(t) \/ StorageFails(t)
       \/ OpenPolicy(t) \/ CommitPolicy(t) \/ OpenSnapshot(t) \/ CommitSnapshot(t)
       \/ OpenPresentation(t) \/ CommitPresentation(t) \/ OpenReport(t) \/ CommitReport(t)
       \/ LoadReport(t) \/ Deliver(t) \/ OpenCriteria(t) \/ CommitCriteria(t)
       \/ OpenSelection(t) \/ CommitSelection(t) \/ OpenPage(t)
       \/ LoadCards(t) \/ PrepareAnalysis(t) \/ RunSection(t) \/ EndAnalysis(t)
  \/ ChangeRole

Spec == Init /\ [][Next]_vars

(* ----------------------------- properties ----------------------------- *)
Answers(t, op, code) == request[t].op = op /\ request[t].step = "answered" /\ request[t].answer = code

\* A result the server says it keeps is the one it has: the row under its key holds
\* the submitted content, whatever the other tab submitted (append_windows_audit_snapshot).
AcceptedResultIsStored ==
  \A t \in Tabs :
    Answers(t, "SNAPSHOT", "CREATED") \/ Answers(t, "SNAPSHOT", "STORED") =>
      LET r == Results[request[t].doc]
      IN \E s \in SnapshotOf(r.result, r.version) :
           /\ KeptResult(Results[s.doc]) = KeptResult(r)
           /\ Cardinality(SnapshotOf(r.result, r.version)) = 1
           /\ s.policy \subseteq PolicyNumbers /\ Cardinality(s.policy) = 1

\* Numbers are 1 to n with none missing or given twice: policies, screens of a kind,
\* profiles of a name, and the reports of a result and kind over all its snapshots,
\* which only the advisory lock keeps apart (allocate_report_version).
Consecutive(rows, At(_)) ==
  {At(r) : r \in rows} = 1..Cardinality(rows)

VersionsAreConsecutive ==
  LET NumberOf(r) == r.number
      VersionOf(r) == r.version
  IN /\ Consecutive(policies, NumberOf)
     /\ \A r \in presentations :
          Consecutive({q \in presentations : q.snapshot = r.snapshot /\ q.kind = r.kind}, NumberOf)
     /\ \A p \in profiles : Consecutive(RowsOf(profiles, p.owner, p.name), VersionOf)
     /\ \A r \in reports :
          Consecutive({q \in reports : q.snapshot.result = r.snapshot.result /\ q.kind = r.kind}, NumberOf)

\* No insert of one tab violates a unique index because of the other, but for the
\* first retention policy racing the default one, which takes no lock
\* (ensure_default_audit_history_policy).
OnlyTheFirstPolicyRaces ==
  \A t \in Tabs :
    request[t].step = "answered" /\ request[t].answer = "VIOLATION" =>
      request[t].op = "POLICY" /\ request[t].read = 1

\* A recorded start of a scan has the criteria its page showed, and whatever is
\* selected can be computed again from the profile and one version of the
\* organization's criteria (AssessmentCriteriaService.select).
StartRecordIsWhatThePageShowed ==
  /\ \A t \in Tabs :
       Answers(t, "SELECT", "SELECTED") =>
         \E i \in DOMAIN selections :
           /\ selections[i].source = request[t].doc.source /\ selections[i].profile = request[t].doc.profile
           /\ \A j \in DOMAIN request[t].doc.expected : selections[i].digest = request[t].doc.expected[j]
  /\ \A i \in DOMAIN selections :
       LET s == selections[i]
           organizations == {{}} \cup {{p} : p \in {q \in profiles : q.owner = Nobody}}
       IN \E o \in organizations :
            s.digest = CriteriaDigest(BuildEffective(
              IF s.kind = "KISA_DEFAULT" THEN NoValues ELSE ValuesIn(o),
              ValuesIn(GetPersonal(profiles, User, s.profile))))

\* What a page shows of a stored analysis can be read back, with two tabs that
\* explain the same result at once: a section of a result has one card, the text a
\* page has read back is never replaced by the text another tab was given, and an
\* analysis that was told to be complete has a card of every section, but for those
\* whose write failed and for a page that did not know that the result is kept
\* (stream_scan_result_tokens, append_windows_ai_output).
AnalysisIsRestorable ==
  /\ \A o, p \in outputs : o.snapshot = p.snapshot /\ o.key = p.key => o = p
  /\ \A t \in Tabs : restored[t] \subseteq outputs
  /\ \A t \in Tabs :
       Answers(t, "ANALYSIS", "COMPLETED") =>
         \A i \in DOMAIN Sections(request[t].doc) :
           LET section == Sections(request[t].doc)[i]
               read == request[t].read
           IN IF read.linked THEN section \in read.lost \/ CardOf(outputs, request[t].doc, section) # {}
              ELSE section \in read.made
=============================================================================
