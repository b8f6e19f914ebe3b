------------------------------ MODULE MCRecords ------------------------------
(***************************************************************************)
(* TLC instance of Records: two tabs of one login, one result of two       *)
(* controls and a second text of it, a few documents of every kind.        *)
(***************************************************************************)
EXTENDS Records

MCControls == {"PC-01", "PC-02"}
Order == <<"PC-01", "PC-02">>
Each(Make(_)) == [i \in DOMAIN Order |-> Make(Order[i])]

MCServices == {[fold |-> "telnet", text |-> "Telnet"]}

ResultWith(status) ==
  LET Control(c) == [control |-> c, status |-> status, text |-> "ok"]
      Context(c) == [control |-> c, clean |-> TRUE, authority |-> "RULE_ENGINE", status |-> status,
                     safe |-> TRUE, digest |-> "own"]
  IN [noRawValues |-> TRUE, unmodified |-> TRUE, noFinding |-> TRUE, kind |-> "LIVE_DRAFT_ASSESSMENT",
      hex |-> TRUE, result |-> "r1", version |-> 1, attempt |-> 1, criteria |-> "none", dated |-> TRUE,
      controls |-> Each(Control), explanations |-> Each(Context), aiInputs |-> Each(Context)]
MCResults == [first |-> ResultWith("PASS"), changed |-> ResultWith("FAIL")]
MCKeptBefore == {[doc |-> "first", asset |-> "pc"]}

Administrator ==
  [control |-> "PC-02", collection |-> "COLLECTED", status |-> "PASS", text |-> "ok", probe |-> "PC-02",
   actual |-> "elevated", expected |-> "set", judgement |-> "PASS"]
Report(counts) ==
  <<[status |-> "COMPLETED", unmodified |-> TRUE, noRawValues |-> TRUE, noFinding |-> TRUE, dated |-> TRUE,
     results |-> <<Administrator>>, selected |-> 1, counts |-> counts]>>
Screen(kind, report, screen) ==
  [hex |-> TRUE, result |-> "r1", version |-> 1, kind |-> kind, marked |-> TRUE, report |-> report, screen |-> screen]
MCScreens ==
  [first |-> Screen("ADMINISTRATOR", Report({0, 1}), <<>>), changed |-> Screen("ADMINISTRATOR", Report({1}), <<>>)]

MCPolicies == [hold |-> [days |-> 90, mode |-> "HOLD"]]

Input(c) ==
  [control |-> c, status |-> "FAIL", authority |-> "RULE_ENGINE", findingWrite |-> FALSE, safe |-> TRUE,
   hashed |-> TRUE, text |-> "ok", clean |-> TRUE, methods |-> {[probe |-> c, status |-> "COLLECTED"]},
   observed |-> "read", expected |-> "set", judgement |-> "FAIL", limitations |-> {}]
Asks(kind, results, ai) ==
  [hex |-> TRUE, result |-> "r1", version |-> 1, dated |-> TRUE, marked |-> TRUE, ordered |-> TRUE,
   inputs |-> Each(Input), results |-> results, ai |-> ai, kind |-> kind]
Explained1 ==
  <<[status |-> "GENERATED", safe |-> TRUE, hashed |-> TRUE, runtime |-> "local", external |-> FALSE,
     inputs |-> Each(Input), official |-> {[control |-> c, status |-> "FAIL"] : c \in MCControls}]>>
MCReports ==
  [user |-> Asks("USER", <<>>, <<>>), explained |-> Asks("USER", <<>>, Explained1),
   stale |-> Asks("USER", <<Administrator>>, Explained1), technical |-> Asks("TECHNICAL", <<>>, <<>>)]

MCAnalyses ==
  [standard |-> [result |-> "r1", version |-> 1, inputs |-> Each(Input), results |-> <<>>],
   foreign |-> [result |-> "r1", version |-> 1, inputs |-> Each(Input),
                results |-> <<[Administrator EXCEPT !.control = "PC-01"]>>]]
MCEvidence ==
  [c \in MCControls |-> [control |-> c, status |-> "FOUND", hashed |-> TRUE, ruleStatus |-> "FAIL", ofInput |-> TRUE,
                         single |-> TRUE, ofSource |-> TRUE, paragraphHashed |-> TRUE]]
MCCapability ==
  [provider |-> "VLLM", external |-> FALSE, deployment |-> "LOCAL_VLLM", runtime |-> "none",
   preparation |-> "PREPARED_NOT_ACTIVE"]

Length(n) == [password_minimum_length |-> [type |-> "INTEGER", value |-> n]]
MCCriteria ==
  [organization |-> [owner |-> Nobody, name |-> "organization", values |-> Length(12)],
   stricter |-> [owner |-> Nobody, name |-> "organization", values |-> Length(16)],
   mine |-> [owner |-> User, name |-> "mine", values |-> Length(14)],
   short |-> [owner |-> User, name |-> "mine", values |-> Length(4)]]

(* ------------- what the functions behind the requests return ---------- *)
Lists == INSTANCE SequencesExt

Source(probe, control) == [probe |-> probe, control |-> control, version |-> "v1", adapter |-> "a1"]
ProbeContract ==
  [versioned |-> TRUE, sources |-> {Source("p1", "PC-01"), Source("p2", "PC-01"), Source("p3", "PC-02")}]
PerformedProbes ==
  [probe : {"p1", "p2", "p9"}, status : CollectionStatuses \cup {"LOST"}, version : {"none", "v2"},
   controls : {<<>>, <<"PC-01">>}, collectedAt : {"ok"}, normalized : {"none"}, raw : BOOLEAN, clean : {TRUE}]
Judged(c) == [control |-> c, status |-> "REVIEW", actual |-> "read", expected |-> "set", clean |-> TRUE]

\* build_scan_explanation_inputs: whatever probes a scan reports, an accepted scan
\* gives every control an input that names all probes of the control; a method is
\* collected only where the scan says so, and one that is not is a limitation.
\* Raw evidence is refused, and the projection for the screen names no probe.
ASSUME ExplanationsAreOfTheScan ==
  LET mappings == Each(Judged)
      Accepts(checks) == FirstRejection(checks) = Accepted
  IN /\ Accepts(IndexedControls(mappings)) /\ Accepts(KisaSources(mappings)) /\ Accepts(SourceContract(ProbeContract))
     /\ ~Accepts(IndexedControls(Tail(mappings))) /\ ~Accepts(KisaSources(Tail(mappings)))
     /\ \A supplied \in {<<>>} \cup {<<p>> : p \in PerformedProbes} \cup {<<p, q>> : p, q \in PerformedProbes} :
          Accepts(ScanInputChecks(ProbeContract, supplied)) =>
            LET probe == [s \in ProbeContract.sources |-> ScanProbe(s, supplied)]
                Reported(s, status) == \E i \in DOMAIN supplied : supplied[i].probe = s.probe /\ supplied[i].status = status
                all == Lists!SetToSeq({[probe |-> s.probe, status |-> probe[s].status, clean |-> TRUE] : s \in DOMAIN probe})
            IN /\ Accepts(IndexedProbes(all, {s.probe : s \in ProbeContract.sources}))
               /\ Accepts(TraceChecks(DOMAIN probe, probe)) <=> ~\E i \in DOMAIN supplied : supplied[i].raw
               /\ \A i \in DOMAIN Order :
                    LET sources == {s \in ProbeContract.sources : s.control = Order[i]}
                        input == BuildOne(mappings[i], sources, probe, "page")
                    IN /\ {m.probe : m \in input.methods} = {s.probe : s \in sources}
                       /\ \A s \in sources :
                            /\ [probe |-> s.probe, status |-> "COLLECTED"] \in input.methods => Reported(s, "COLLECTED")
                            /\ ~Reported(s, "COLLECTED") => input.limitations \cap {"ERROR", "UNSUPPORTED"} # {}
                       /\ UserProjection(input).methods \subseteq CollectionStatuses

ModelItem(c, related) == [control |-> c, text |-> "ok", priority |-> "NORMAL", related |-> related]
ModelAnswer(inputs, related, error, atLimit) ==
  [error |-> error, retryable |-> FALSE, atLimit |-> atLimit,
   output |-> [readable |-> TRUE, summary |-> "ok", executable |-> FALSE,
               items |-> [i \in DOMAIN inputs |-> ModelItem(inputs[i].control, related)]]]
Batch(lineage, e) == [lineage |-> lineage, status |-> e.status, items |-> e.items]

\* ResultAIExplanationService.generate in batches, _merge_generated_batches: the
\* merged explanation has every control once with the status of the rule engine,
\* and only when every batch had its evidence and its model did not fail; batches
\* of two lineages, and a batch that comes twice, are refused.
ASSUME BatchesMakeTheWholeResult ==
  \A cut \in 0..2, found \in [MCControls -> {"FOUND", "CONFLICT", "NO_MATCH"}], related \in {{}, {"PC-02"}},
     error \in {"none", "RATE_LIMITED", "REFUSED"}, atLimit \in BOOLEAN :
    LET pieces == <<SubSeq(Each(Input), 1, cut), SubSeq(Each(Input), cut + 1, 2)>>
        asked == {p \in {1, 2} : pieces[p] # <<>>}
        EvidenceFor(p) == [i \in DOMAIN pieces[p] |->
          [MCEvidence[pieces[p][i].control] EXCEPT !.status = found[pieces[p][i].control]]]
        explained == [p \in {1, 2} |-> Generate(pieces[p], EvidenceFor(p), ModelAnswer(pieces[p], related, error, atLimit))]
        batches == [n \in 1..Cardinality(asked) |-> Batch("l", explained[IF n = 2 \/ 1 \notin asked THEN 2 ELSE 1])]
    IN /\ \A p \in {1, 2} : (FirstRejection(CoverageChecks(pieces[p], EvidenceFor(p))) = Accepted) <=> (p \in asked)
       /\ MergeBatches(batches) = Accepted =>
            /\ error = "none" /\ ~atLimit /\ \A c \in MCControls : found[c] = "FOUND"
            /\ UNION {batches[n].items : n \in DOMAIN batches} = {[control |-> c, status |-> "FAIL"] : c \in MCControls}
            /\ MergeBatches(batches \o <<batches[1]>>) = "RESULT_AI_BATCH_CONTROL_DUPLICATE"
            /\ MergeBatches(batches \o <<[batches[1] EXCEPT !.lineage = "m"]>>) = "RESULT_AI_BATCH_LINEAGE_MISMATCH"
       /\ \A p \in asked : explained[p].status # "GENERATED" => MergeBatches(batches) # Accepted

\* build_control_knowledge_sources and evaluate_control_knowledge_output: a text
\* counts as supported only when it cites all three sources and nothing else, of
\* which only the guide's can be unavailable, and makes no precise claim of its own.
ASSUME SupportedTextsCiteTheirSources ==
  \A status \in {"FOUND", "CONFLICT", "NO_MATCH"}, paged, precise, refused \in BOOLEAN, cited \in SUBSET (1..4) :
    LET sources == KnowledgeSources(status, paged)
    IN /\ EvaluateOutput(status, cited, precise, refused) = "SUPPORTED" =>
            /\ cited = DOMAIN sources /\ ~precise /\ ~refused
            /\ paged => \A n \in cited : sources[n] = "AVAILABLE"
       /\ sources[1] = "AVAILABLE" /\ sources[3] = "AVAILABLE"

\* Rows as CommitPresentation writes them: the numbers of a kind and the order.
PresentationRows(kinds, carried) ==
  {[snapshot |-> "s", kind |-> kinds[i], number |-> Cardinality({j \in 1..i : kinds[j] = kinds[i]}), at |-> i,
    payload |-> [report |-> carried[i], screen |-> IF kinds[i] = "AI_COMPLETED" THEN <<i>> ELSE <<>>]] : i \in DOMAIN kinds}

\* _windows_presentations_view: one report and one screen at most; the screen is
\* that of the last AI explanation, and an administrator's report that came after
\* everything else is the one shown.
ASSUME TheLatestScreensAreShown ==
  \A n \in 0..3 : \A kinds \in [1..n -> PresentationKinds], carried \in [1..n -> {<<>>, <<"old">>, <<"new">>}] :
    LET rows == PresentationRows(kinds, carried)
        view == PresentationsView(rows, "s")
        explained == {i \in 1..n : kinds[i] = "AI_COMPLETED"}
    IN /\ Cardinality(view.report) <= 1 /\ Cardinality(view.screen) <= 1
       /\ view.screen = {<<i>> : i \in {j \in explained : \A k \in explained : k <= j}}
       /\ n > 0 => (carried[n] # <<>> => view.report = {carried[n]})
       /\ {v.kind : v \in view.versions} = {kinds[i] : i \in 1..n}

HistoryRows == [owner : {"user", "other"}, status : {"COMPLETED", "FAILED"}, deleted : BOOLEAN]
DeviceItems(ids) == [clean |-> TRUE, items |-> [i \in DOMAIN ids |-> [control |-> ids[i]]]]
ItemLists == {<<>>, <<"U-01">>, <<"U-01", "U-02">>, <<"U-01", "U-01">>, <<"U-02", "U-01">>}

\* list_audit_history, audit_history_entry_view, attach_device_history_context: a
\* user sees nothing of another and no deleted run, and every entry is kept for 30
\* days to ten years; a device result whose context was accepted has a complete AI
\* screen as soon as its controls and the summary have a text, and not before.
ASSUME HistoryShowsWhatIsKept ==
  /\ \A kept, linux, switch \in {{r} : r \in HistoryRows} :
       \A r \in UnifiedHistory(kept, linux, switch, "user") :
         r.owner = "user" /\ (r \notin kept => r.status = "COMPLETED" /\ (r.deleted => r \in switch))
  /\ FirstRejection(PolicyChecks(DefaultPolicy)) = Accepted
  /\ \A days \in {0, 29, 30, 3650, 3651} :
       FirstRejection(PolicyChecks([days |-> days, mode |-> "HOLD"])) = Accepted =>
         RetainUntil(10, [days |-> days]) - 10 \in 30..3650
  /\ \A ids, explained, inputs \in ItemLists, texts \in SUBSET {"U-01", "U-02", "SUMMARY"} :
       LET d == [controls |-> DeviceItems(ids).items]
       IN FirstRejection(AttachChecks(d, DeviceItems(explained), DeviceItems(inputs))) = Accepted =>
            /\ Cardinality({ids[i] : i \in DOMAIN ids}) = Len(ids) /\ ids # <<>>
            /\ DeviceAiScreenComplete(d.controls, DeviceItems(inputs).items, texts)
                 <=> {ids[i] : i \in DOMAIN ids} \cup {"SUMMARY"} \subseteq texts

\* The values of effective criteria as the browser hands them over.
Handed(effective) ==
  [key \in CriteriaKeys |->
     [type |-> CriteriaCatalog[key].type,
      value |-> IF CriteriaCatalog[key].type # "STRING_LIST" THEN effective[key].value
                ELSE LET names == Lists!SetToSeq(effective[key].value)
                     IN [i \in DOMAIN names |-> [kind |-> "name", name |-> names[i]]]]]
ContextOf(effective) ==
  [length |-> 900, readable |-> TRUE, fields |-> TRUE, values |-> Handed(effective), digest |-> CriteriaDigest(effective),
   sources |-> [key \in CriteriaKeys |-> effective[key].source], organization |-> <<>>, personal |-> <<>>]

\* decode_criteria_execution_context: the launcher accepts the criteria the server
\* computed, and no longer accepts them once a value is not the one of the digest.
ASSUME TheLauncherTakesTheServersCriteria ==
  \A organization, personal \in {"none"} \cup DOMAIN MCCriteria :
    LET ValuesNamed(name) == IF name = "none" THEN NoValues ELSE NormalizedValues(MCCriteria[name].values)
        x == ContextOf(BuildEffective(ValuesNamed(organization), ValuesNamed(personal)))
    IN /\ (DecodeContext(x) = Accepted) <=> (x.values["password_minimum_length"].value \in 8..64)
       /\ DecodeContext([x EXCEPT !.values["password_minimum_length"].value = 64]) # Accepted
       /\ DecodeContext([x EXCEPT !.length = 16385]) # Accepted

\* build_report_document and list_reports: the counts of a report never exceed its
\* controls; what is technical is in a technical report only, and is listed only
\* for those who may read it.
ASSUME TechnicalReportsStayApart ==
  \A doc \in DOMAIN MCReports, kind \in ReportKinds, allowed \in BOOLEAN :
    LET document == ReportDocument(ReportSnapshot(MCReports[doc]), kind, 1, ModelManifest(MCCapability, MCReports[doc].ai))
        row == [snapshot |-> [result |-> "r1"], kind |-> kind, number |-> 1]
    IN /\ \A t \in DOMAIN document.counted : document.counted[t] <= document.total
       /\ (document.technical # {}) <=> (kind = "TECHNICAL")
       /\ document.explained => MCReports[doc].ai # <<>>
       /\ (row \in ListReports({row}, "r1", allowed)) <=> (allowed \/ kind = "USER")
       /\ ListReports({row}, "r2", allowed) = {}
=============================================================================
