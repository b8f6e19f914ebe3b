-------------------------- MODULE ResultExplanation --------------------------
(***************************************************************************)
(* What the explanations of a result are made from, and what a model may   *)
(* say about it                                                            *)
(*   application/result_explanation_input.py, result_ai_explanation.py,    *)
(*   result_knowledge_sources.py, result_ai_token_stream.py                *)
(*                                                                         *)
(* An explanation input is a record; its digest is the record without the  *)
(* field "digest", so a digest is right when it is that record. A text is  *)
(* "ok" or what is wrong with it.                                          *)
(***************************************************************************)
EXTENDS AuditHistory

CollectionStatuses == {"COLLECTED", "ERROR", "UNSUPPORTED"}

\* Statuses as the rule engine writes them, "N/A" among them.
ExplainedStatuses == {"PASS", "FAIL", "ERROR", "REVIEW", "N/A"}

\* The item of a control.
ItemOf(evidence, control) == evidence[CHOOSE i \in DOMAIN evidence : evidence[i].control = control]

(* ------------------------------ inputs -------------------------------- *)
IndexedControls(controls) ==
  <<Check(\E i \in DOMAIN controls : ~controls[i].clean, "EXPLANATION_INPUT_CONTAINS_PROHIBITED_FIELD"),
    Check(~Covers(controls, WindowsControls), "EXPLANATION_CONTROL_COVERAGE_INVALID")>>

\* probes and the probes of the source contract, each with its control.
ProbesOf(items) == {items[i].probe : i \in DOMAIN items}
IndexedProbes(probes, expected) ==
  <<Check(\E i \in DOMAIN probes : ~probes[i].clean, "EXPLANATION_INPUT_CONTAINS_PROHIBITED_FIELD"),
    Check(Cardinality(ProbesOf(probes)) # Len(probes), "EXPLANATION_PROBE_COVERAGE_INVALID"),
    Check(\E i \in DOMAIN probes : probes[i].status \notin CollectionStatuses,
          "EXPLANATION_PROBE_STATUS_INVALID"),
    Check(ProbesOf(probes) # expected, "EXPLANATION_PROBE_COVERAGE_INVALID")>>

\* The contract names every probe once and every control at least once.
SourceContract(contract) ==
  <<Check(~contract.versioned, "EXPLANATION_SOURCE_CONTRACT_INVALID"),
    Check(\/ \E s \in contract.sources : s.control \notin WindowsControls
          \/ \E s, t \in contract.sources : s # t /\ s.probe = t.probe
          \/ {s.control : s \in contract.sources} # WindowsControls,
          "EXPLANATION_SOURCE_CONTRACT_INVALID")>>

KisaSources(mappings) ==
  <<Check(~Covers(mappings, WindowsControls), "EXPLANATION_KISA_MAPPING_INVALID")>>

\* _trace_payload: the probes of a control are the ones of the contract; a value
\* that is absent is "none". Raw evidence is refused. probe maps a source to its probe.
TraceChecks(sources, probe) ==
  LET Bound(s) == LET p == probe[s]
                  IN p.version = s.version /\ p.controls = <<s.control>> /\ p.adapter \in {"none", s.adapter}
      Traced(s) == probe[s].collectedAt \in {"none", "ok"} /\ probe[s].normalized \in {"none", "ok"}
  IN <<Check(\E s \in sources : ~Bound(s), "EXPLANATION_PROBE_BINDING_INVALID"),
       Check(\E s \in sources : ~Traced(s), "EXPLANATION_EVIDENCE_TRACE_INVALID"),
       Check(\E s \in sources : probe[s].raw # FALSE, "EXPLANATION_RAW_EVIDENCE_NOT_ALLOWED")>>

Limitations(status, sources, probe) ==
  {probe[s].status : s \in {t \in sources : probe[t].status # "COLLECTED"}}
    \cup ({status} \cap {"ERROR", "REVIEW"})

\* _build_one: the input of one control.
BuildOne(control, sources, probe, citation) ==
  [control |-> control.control, status |-> control.status, authority |-> "RULE_ENGINE",
   observed |-> control.actual, expected |-> control.expected, judgement |-> control.status,
   methods |-> {[probe |-> s.probe, status |-> probe[s].status] : s \in sources},
   limitations |-> Limitations(control.status, sources, probe), citation |-> citation,
   safe |-> TRUE, findingWrite |-> FALSE]

\* build_scan_explanation_inputs: a probe the scan did not perform is UNSUPPORTED,
\* and of a supplied one only its status and its trace are taken.
ScanProbe(source, supplied) ==
  LET given == {i \in DOMAIN supplied : supplied[i].probe = source.probe}
      p == supplied[CHOOSE i \in given : TRUE]
      unperformed == [status |-> "UNSUPPORTED", collectedAt |-> "none", normalized |-> "none", raw |-> FALSE]
      taken == IF given = {} THEN unperformed
               ELSE [status |-> p.status, collectedAt |-> p.collectedAt, normalized |-> p.normalized, raw |-> p.raw]
  IN [probe |-> source.probe, version |-> source.version, controls |-> <<source.control>>, adapter |-> "none",
      status |-> taken.status, collectedAt |-> taken.collectedAt, normalized |-> taken.normalized, raw |-> taken.raw]

ScanInputChecks(contract, supplied) ==
  LET SourceOf(p) == {s \in contract.sources : s.probe = p.probe}
      Named == {i \in DOMAIN supplied : SourceOf(supplied[i]) # {}}
  IN <<Check(\E i \in DOMAIN supplied : ~supplied[i].clean, "EXPLANATION_INPUT_CONTAINS_PROHIBITED_FIELD")>>
     \o SourceContract(contract)
     \o <<Check(Named # DOMAIN supplied \/ Cardinality(ProbesOf(supplied)) # Len(supplied),
                "EXPLANATION_PROBE_COVERAGE_INVALID"),
          Check(\E i \in DOMAIN supplied : supplied[i].status \notin CollectionStatuses,
                "EXPLANATION_PROBE_STATUS_INVALID"),
          Check(\E i \in Named : \A s \in SourceOf(supplied[i]) :
                  \/ supplied[i].version \notin {"none", s.version}
                  \/ supplied[i].controls \notin {<<>>, <<s.control>>}, "EXPLANATION_PROBE_BINDING_INVALID")>>

\* What the screen shows leaves out codes, probes and adapters.
UserProjection(input) ==
  [control |-> input.control, status |-> input.status, observed |-> input.observed,
   expected |-> input.expected, judgement |-> input.judgement,
   methods |-> {m.status : m \in input.methods}, limitations |-> input.limitations, citation |-> input.citation]

(* ------------------- results of the administrator's check ------------- *)
\* merge_administrator_explanation_inputs: inputs and results are sequences. An
\* input that takes a result is hashed anew.
AdministratorMergeChecks(inputs, results) ==
  LET Matches(i, j) == inputs[i].control = results[j].control
  IN <<Check(\/ \E j \in DOMAIN results : results[j].control \notin AdministratorIds
             \/ Cardinality(IdsOf(results)) # Len(results), "ADMINISTRATOR_RESULT_COVERAGE_INVALID"),
       Check(\E i \in DOMAIN inputs, j \in DOMAIN results :
               /\ Matches(i, j)
               /\ \/ results[j].status \notin ExplainedStatuses
                  \/ results[j].collection \notin CollectionStatuses
                  \/ \A m \in inputs[i].methods : m.probe # results[j].probe,
             "ADMINISTRATOR_RESULT_INPUT_INVALID")>>

Taking(input, r) ==
  [input EXCEPT
     !.status = r.status, !.observed = r.actual, !.expected = r.expected, !.judgement = r.judgement,
     !.methods = {IF m.probe = r.probe THEN [m EXCEPT !.status = r.collection] ELSE m : m \in @},
     !.limitations = {r.collection} \ {"COLLECTED"}, !.hashed = TRUE]

MergeAdministrator(inputs, results) ==
  [i \in DOMAIN inputs |->
     IF inputs[i].control \in IdsOf(results)
     THEN Taking(inputs[i], ItemOf(results, inputs[i].control)) ELSE inputs[i]]

(* ------------------------- who may be given a result ------------------ *)
\* ResultAIExecutionPolicy and _execution_policy of the API.
PolicyOf(capability, remoteApproved) ==
  CASE capability.provider = "OPENROUTER" ->
         FirstRejection(<<Check(~capability.external, "REMOTE_TEST_TRANSFER_DECLARATION_REQUIRED"),
                          Check(~remoteApproved, "REMOTE_TEST_APPROVAL_REQUIRED")>>)
    [] capability.provider = "VLLM" /\ ~capability.external -> Accepted
    [] OTHER -> "RESULT_AI_RUNTIME_NOT_APPROVED"

(* --------------------- inputs and the guide together ------------------ *)
\* _validate_one: an input and what the guides say of it. evidence.input is the
\* input it was retrieved for.
ContextChecks(input, evidence) ==
  <<Check(~input.hashed, "EXPLANATION_INPUT_HASH_MISMATCH"),
    Check(~evidence.hashed, "GUIDE_EVIDENCE_HASH_MISMATCH"),
    Check(input.control \notin WindowsControls, "RESULT_AI_CONTROL_INVALID"),
    Check(input.status \notin ExplainedStatuses \/ input.authority # "RULE_ENGINE" \/ input.findingWrite,
          "RESULT_AI_RULE_STATUS_INVALID"),
    Check(~input.safe, "RESULT_AI_SAFETY_INVALID"),
    Check(evidence.control # input.control \/ evidence.ruleStatus # input.status \/ ~evidence.ofInput,
          "RESULT_AI_LINEAGE_MISMATCH"),
    Check(evidence.status = "FOUND" /\ ~(evidence.single /\ evidence.ofSource /\ evidence.paragraphHashed),
          "RESULT_AI_CITATION_INVALID")>>

\* One evidence of each control, then every pair on its own.
CoverageChecks(inputs, evidence) ==
  <<Check(Len(inputs) \notin 1..Cardinality(WindowsControls) \/ Len(inputs) # Len(evidence), "RESULT_AI_COVERAGE_INVALID"),
    Check(Cardinality(IdsOf(evidence)) # Len(evidence), "RESULT_AI_COVERAGE_INVALID"),
    Check(IdsOf(evidence) # IdsOf(inputs), "RESULT_AI_LINEAGE_MISMATCH"),
    Check(Cardinality(IdsOf(inputs)) # Len(inputs), "RESULT_AI_COVERAGE_INVALID")>>

(* ------------------------ what the model may say ---------------------- *)
Priorities == {"URGENT", "HIGH", "NORMAL", "OBSERVE"}

\* _parse_model_output: output has a summary and items, one of each control.
OutputChecks(output, ids) ==
  <<Check(~output.readable \/ output.summary # "ok", "MODEL_OUTPUT_CONTRACT_INVALID"),
    Check(~Covers(output.items, ids), "MODEL_OUTPUT_CONTRACT_INVALID"),
    Check(\E i \in DOMAIN output.items :
            \/ output.items[i].text # "ok" \/ output.items[i].priority \notin Priorities
            \/ Cardinality(output.items[i].related) > 5
            \/ ~(output.items[i].related \subseteq ids \ {output.items[i].control}),
          "MODEL_OUTPUT_CONTRACT_INVALID"),
    Check(output.executable, "EXECUTABLE_MODEL_OUTPUT_BLOCKED")>>

Unavailable == {"MODEL_UNAVAILABLE", "MODEL_GATEWAY_UNAVAILABLE", "UPSTREAM_UNAVAILABLE",
                "UPSTREAM_TIMEOUT", "RATE_LIMITED"}

Explained(status, reason, retryable, items) ==
  [status |-> status, reason |-> reason, retryable |-> retryable, items |-> items]

\* ResultAIExplanationService.generate, once every pair is valid. answer is what
\* the model gives: an error, or an output and whether it reached its limit.
Generate(inputs, evidence, answer) ==
  LET ids == IdsOf(inputs)
      having(status) == {c \in ids : ItemOf(evidence, c).status = status}
      outcome == FirstRejection(OutputChecks(answer.output, ids))
  IN IF having("CONFLICT") # {} THEN Explained("DOCUMENT_CONFLICT", "EVIDENCE", FALSE, {})
     ELSE IF having("FOUND") # ids THEN Explained("NO_EVIDENCE", "EVIDENCE", FALSE, {})
     ELSE IF \E i \in DOMAIN inputs : ~inputs[i].clean
       THEN Explained("SECURITY_BLOCKED", "UNTRUSTED_RESULT_INSTRUCTION_DETECTED", FALSE, {})
     ELSE IF answer.error # "none"
       THEN Explained(IF answer.retryable \/ answer.error \in Unavailable THEN "MODEL_UNAVAILABLE"
                      ELSE "GENERATION_FAILED", answer.error, answer.retryable, {})
     ELSE IF answer.atLimit THEN Explained("GENERATION_FAILED", "OUTPUT_TOKEN_LIMIT_REACHED", TRUE, {})
     ELSE IF outcome # Accepted THEN Explained("SECURITY_BLOCKED", outcome, FALSE, {})
     ELSE Explained("GENERATED", "none", FALSE,
                    {[control |-> inputs[i].control, status |-> inputs[i].status] : i \in DOMAIN inputs})

\* _merge_generated_batches: a batch names its lineage; its items are a set.
MergeBatches(batches) ==
  LET Items == UNION {batches[i].items : i \in DOMAIN batches}
      ids == {x.control : x \in Items}
  IN IF batches = <<>> \/ \E i \in DOMAIN batches : batches[i].status # "GENERATED"
       THEN "RESULT_AI_BATCH_NOT_GENERATED"
     ELSE IF \E i \in DOMAIN batches : batches[i].lineage # batches[1].lineage
       THEN "RESULT_AI_BATCH_LINEAGE_MISMATCH"
     ELSE IF \E i, j \in DOMAIN batches : i # j /\ \E x \in batches[i].items, y \in batches[j].items :
               x.control = y.control
       THEN "RESULT_AI_BATCH_CONTROL_DUPLICATE"
     ELSE Accepted

(* --------------------------- streamed explanations -------------------- *)
\* ResultAITokenStreamService.prepare: all controls, in order, or nothing.
PrepareChecks(inputs, evidence) ==
  <<Check({Len(inputs), Len(evidence)} # {Cardinality(WindowsControls)}, "RESULT_AI_COVERAGE_INVALID"),
    Check(\E i \in DOMAIN inputs :
            \/ inputs[i].control \notin IdsOf(evidence)
            \/ FirstRejection(ContextChecks(inputs[i], ItemOf(evidence, inputs[i].control))) # Accepted,
          "RESULT_AI_CONTEXT_REJECTED"),
    Check(~Covers(inputs, WindowsControls), "RESULT_AI_COVERAGE_INVALID"),
    Check(\E i \in DOMAIN inputs : ~inputs[i].clean, "UNTRUSTED_RESULT_INSTRUCTION_DETECTED")>>

\* _stream_request: the end of a stream of tokens. Any reason but a token limit
\* is accepted, a missing one too.
StreamRequest(emitted, reason) ==
  FirstRejection(<<Check(reason \in {"length", "max_tokens", "max_output_tokens"}, "OUTPUT_TOKEN_LIMIT_REACHED"),
                   Check(~emitted, "EMPTY_AI_EXPLANATION")>>)

\* status_counts of the merged inputs: what the summary is headed by.
HeadingCounts(inputs) ==
  [s \in ExplainedStatuses |-> Cardinality({i \in DOMAIN inputs : inputs[i].status = s})]

(* ------------------------------ sources ------------------------------- *)
\* build_control_knowledge_sources: three sources, the second one the guide.
KnowledgeSources(evidenceStatus, paged) ==
  LET kisa == IF evidenceStatus = "FOUND" /\ paged THEN "AVAILABLE" ELSE "UNAVAILABLE"
  IN [n \in {1, 2, 3} |-> IF n = 2 THEN kisa ELSE "AVAILABLE"]

\* evaluate_control_knowledge_output: used are the numbers the text cites, precise
\* whether it makes a precise claim the grounding does not.
EvaluateOutput(evidenceStatus, used, precise, refused) ==
  LET required == IF evidenceStatus = "FOUND" THEN {1, 2, 3} ELSE {1, 3}
  IN IF refused THEN "REFUSED"
     ELSE IF evidenceStatus # "FOUND" THEN "DEFERRED"
     ELSE IF ~(used \subseteq {1, 2, 3}) \/ ~(required \subseteq used) \/ precise THEN "REVIEW"
     ELSE "SUPPORTED"
=============================================================================
