---------------------------- MODULE GroundedAnswer ----------------------------
(***************************************************************************)
(* From an approved guide to an answer that cites it: what may be stored   *)
(* of a guide, how a question finds its chunks, when a chunk is evidence,  *)
(* and what is generated from the evidence                                 *)
(*   guides/{contracts,retrieval,grounding}.py,                            *)
(*   application/{model_search,result_guide_retrieval,grounded_ai,         *)
(*   integrated_guide_qa}.py, persistence/database/guide_repository.py     *)
(*                                                                         *)
(* Scores are hundredths, a chunk's id is a number. A query is [words,     *)
(* chars, orders, foreign, expansions, longest, categories]: orders, it    *)
(* gives the model instructions; foreign, it names what the scope excludes;*)
(* longest, the length of its longest expansion. A text is [chars, orders, *)
(* paragraphs]. A digest is the document.                                  *)
(***************************************************************************)
EXTENDS Checks

LOCAL INSTANCE SequencesExt

CONSTANTS Relevance(_, _),    \* lexical_relevance_score of words to a text
          CategoryOf(_),      \* the category of a control
          Settings            \* ModelSearchSettings

LeastOf(m, n) == IF m < n THEN m ELSE n
MostOf(S) == CHOOSE m \in S : \A n \in S : n <= m
FirstOf(s, n) == SubSeq(s, 1, LeastOf(n, Len(s)))

(* ------------------------ what may be stored -------------------------- *)
\* evaluate_ingest_gate: a synthetic guide cannot pass for an approved one.
GateErrors(g) ==
  IF g.synthetic /\ (g.guide # "SYNTHETIC_TEST_ONLY" \/ g.license # "SYNTHETIC_TEST_ONLY")
  THEN {"SYNTHETIC_GATE_IDENTITY_INVALID"}
  ELSE {code \in {"GUIDE_NOT_APPROVED"} : ~g.synthetic /\ g.guide # "APPROVED"}
       \cup {code \in {"LICENSE_NOT_APPROVED"} : ~g.synthetic /\ g.license # "APPROVED"}
       \cup {gate \in DOMAIN g.open : ~g.open[gate]}

\* build_guide_chunks
ChunksAccepted(guide, pages, gate) ==
  /\ GateErrors(gate) = {}
  /\ guide.identified
  /\ pages # <<>>
  /\ \A i, j \in DOMAIN pages : i < j => pages[i].page < pages[j].page
  /\ \A i \in DOMAIN pages : pages[i].page > 0 /\ pages[i].known /\ pages[i].text.chars > 0
Chunk(guide, p) ==
  [org |-> guide.org, guide |-> guide.id, version |-> guide.version, scope |-> guide.scope, source |-> guide.digest,
   page |-> p.page, control |-> p.control, text |-> p.text]

(* --------------------------- guide lineage ---------------------------- *)
\* verify_guide_lineage, part by part. c is the catalog's entry of the guide, m
\* the page map, k the control mapping, p the audit pack, f the file inspected;
\* the codes of one control or page do not name it.
Wrong(code, holds) == {c \in {code} : ~holds}
SourceErrors(c, m, f) ==
  Wrong("GUIDE_SOURCE_PATH_UNSAFE", c.pathSafe)
  \cup UNION {Wrong(part, c.source[part] = f[part]) : part \in {"digest", "size", "pages", "pdf", "encrypted"}}
  \cup Wrong("PAGE_MAP_SOURCE_SHA256_MISMATCH", m.digest = f.digest)
  \cup Wrong("PAGE_MAP_SOURCE_PAGE_COUNT_MISMATCH", m.pageCount = f.pages)
ApprovalErrors(c) ==
  Wrong("GUIDE_NOT_APPROVED", c.status = "APPROVED") \cup Wrong("LICENSE_GATE_INVALID", c.licensed)
  \cup Wrong("GUIDE_GATE_STATE_INVALID", \A gate \in DOMAIN c.gates : c.gates[gate])
  \cup Wrong("GUIDE_CANNOT_ACTIVATE_AUDIT_PACK", ~c.activatesPack)
ScopeErrors(c, m) ==
  LET mine == {i \in DOMAIN c.scopes : c.scopes[i].id = m.scope}
  IN IF Cardinality(mine) # 1 THEN {"QUERY_SCOPE_NOT_UNIQUE"}
     ELSE LET s == c.scopes[CHOOSE i \in mine : TRUE]
          IN Wrong("QUERY_SCOPE_PAGE_RANGE_MISMATCH", s.first = m.first /\ s.last = m.last)
             \cup Wrong("APPROVED_QUERY_SCOPE_DISABLED", s.enabled)
PageErrors(m, f) ==
  Wrong("PAGE_MAP_NOT_CONTIGUOUS",
        [i \in DOMAIN m.pages |-> m.pages[i].page] = [i \in 1..(m.last - m.first + 1) |-> m.first + i - 1])
  \cup UNION {IF m.pages[i].page \notin DOMAIN f.text THEN {"PAGE_INSPECTION_MISSING"}
              ELSE Wrong("PAGE_NUMBER_MAPPING_INVALID", m.pages[i].numbered)
                   \cup Wrong("PAGE_TEXT_SHA256_MISMATCH", m.pages[i].text = f.text[m.pages[i].page])
              : i \in DOMAIN m.pages}
PagesOf(m, control) == {m.pages[i].page : i \in {j \in DOMAIN m.pages : control \in m.pages[j].controls}}
MappingErrors(k, m, p, f, controls) ==
  Wrong("CONTROL_MAPPING_NOT_FAIL_CLOSED", k.status = "DRAFT" /\ ~k.activates)
  \cup Wrong("CONTROL_MAPPING_GUIDE_MISMATCH", k.guide = m.guide /\ k.digest = f.digest /\ k.needs = "APPROVED")
  \cup Wrong("CONTROL_MAPPING_PACK_MISMATCH", k.pack = p.pack)
  \cup Wrong("AUDIT_PACK_GUIDE_HASH_MISMATCH", p.guideDigest = f.digest)
  \cup Wrong("CONTROL_MAPPING_COVERAGE_INVALID", DOMAIN k.range = controls)
  \cup Wrong("AUDIT_PACK_CONTROL_COVERAGE_INVALID", DOMAIN p.range = controls)
  \cup Wrong("PAGE_MAP_CONTROL_COVERAGE_INVALID", {c \in controls : PagesOf(m, c) # {}} = controls)
  \cup UNION {Wrong("CITATION_MISMATCH", k.range[c] = p.range[c])
              \cup Wrong("PAGE_MAP_RANGE_MISMATCH", PagesOf(m, c) = k.range[c].first..k.range[c].last)
              : c \in controls \cap DOMAIN k.range \cap DOMAIN p.range}
LineageErrors(c, m, k, p, f, controls) ==
  SourceErrors(c, m, f) \cup ApprovalErrors(c) \cup ScopeErrors(c, m) \cup PageErrors(m, f)
  \cup MappingErrors(k, m, p, f, controls)

(* ------------------------------- search ------------------------------- *)
\* GuideSearchScope.__post_init__
ScopeAccepted(s) == s.query.chars \in 1..500 /\ s.topK \in 1..20
InScope(h, s) == h.org = s.org /\ h.guide = s.guide /\ h.version = s.version /\ h.scope = s.scope

\* _search_guide_chunks: the database ranks by distance; a control is searched
\* in all of its candidates, because the database does not know controls.
CandidateLimit(s, multiplier, limit) ==
  IF s.control # <<>> THEN limit ELSE LeastOf(limit, s.topK * multiplier)
Nearest(store, s, limit) ==
  LET ready == {h \in store : InScope(h, s)}
      Closer(h) == {o \in ready : o.dense > h.dense \/ (o.dense = h.dense /\ o.chunk < h.chunk)}
  IN {h \in ready : Cardinality(Closer(h)) < limit}

\* filter_and_rerank
Ranked(s, candidates) ==
  LET asked == {h \in candidates : InScope(h, s) /\ h.control # "PC-INTRO" /\ (s.control # <<>> => h.control = s.control[1])}
      Scored(h) == LET lexical == Relevance(s.query.words, h.text)
                   IN [h EXCEPT !.lexical = lexical, !.rerank = (h.dense * 15 + lexical * 85) \div 100]
      Before(l, r) == \/ l.rerank > r.rerank
                      \/ l.rerank = r.rerank /\ (l.page < r.page \/ (l.page = r.page /\ l.chunk < r.chunk))
  IN FirstOf(SetToSortSeq({Scored(h) : h \in asked}, Before), s.topK)
SearchGuideChunks(store, s) == Ranked(s, Nearest(store, s, CandidateLimit(s, 4, 100)))

\* _with_category_coverage: the best hit of every category the question names.
WithCategories(hits, categories, limit) ==
  LET FirstIn(c) == {i \in DOMAIN hits : CategoryOf(hits[i].control) = c
                                         /\ \A j \in 1..(i - 1) : CategoryOf(hits[j].control) # c}
      required == UNION {FirstIn(c) : c \in categories}
      room == limit - Cardinality(required)
      chosen == required \cup {i \in DOMAIN hits \ required : Cardinality({j \in 1..i : j \notin required}) <= room}
  IN FirstOf([n \in 1..Cardinality(chosen) |->
                hits[CHOOSE i \in chosen : Cardinality({j \in chosen : j <= i}) = n]], limit)

\* rerank: the service's scores count only relative to the best of them.
Reranked(hits, scores) ==
  LET best == MostOf({scores[i] : i \in DOMAIN hits})
      Scored(i) == [hits[i] EXCEPT !.rerank =
                      (@ * 60 + (IF best = 0 THEN 0 ELSE ((scores[i] * 100) \div best) * 40)) \div 100]
      Before(l, r) == l.rerank > r.rerank \/ (l.rerank = r.rerank /\ l.chunk < r.chunk)
  IN SetToSortSeq({Scored(i) : i \in DOMAIN hits}, Before)

\* search_with_bge_m3: the expansions of the question are searched one by one
\* and their ranks are added. An expansion of a long question can be longer than
\* a query may be; that error is not one the callers fall back from.
Expanded(s, e) == [s EXCEPT !.query.words = e, !.topK = LeastOf(Settings.candidates, s.topK * Settings.multiplier)]
FoundFor(store, s) ==
  LET limit == CandidateLimit(Expanded(s, s.query.words), Settings.dbMultiplier, Settings.dbLimit)
      expansions == FirstOf(s.query.expansions, Settings.expansions)
  IN [i \in DOMAIN expansions |-> Ranked(Expanded(s, expansions[i]), Nearest(store, s, limit))]
Fused(found) ==
  LET RankIn(l, c) == {n \in DOMAIN found[l] : found[l][n].chunk = c}
      chunks == UNION {{found[l][n].chunk : n \in DOMAIN found[l]} : l \in DOMAIN found}
      Weight(c) == MapThenSumSet(LAMBDA l : MapThenSumSet(LAMBDA n : 100000 \div (60 + n), RankIn(l, c)), DOMAIN found)
      First(c) == LET l == CHOOSE k \in DOMAIN found : RankIn(k, c) # {} /\ \A j \in 1..(k - 1) : RankIn(j, c) = {}
                  IN found[l][CHOOSE n \in RankIn(l, c) : TRUE]
      Before(l, r) == \/ Weight(l.chunk) > Weight(r.chunk)
                      \/ Weight(l.chunk) = Weight(r.chunk) /\ (l.rerank > r.rerank
                           \/ (l.rerank = r.rerank /\ (l.page < r.page \/ (l.page = r.page /\ l.chunk < r.chunk))))
  IN SetToSortSeq({First(c) : c \in chunks}, Before)
SearchWithModels(store, s, services) ==
  LET candidates == WithCategories(Fused(FoundFor(store, s)), s.query.categories, Settings.candidates)
      ranked == IF services.reranks /\ candidates # <<>>
                THEN Reranked(candidates, [i \in DOMAIN candidates |-> services.scores[candidates[i].chunk]])
                ELSE candidates
  IN WithCategories(ranked, s.query.categories, s.topK)

\* _postgres_search: [end, hits].
Search(store, s, services) ==
  LET found == [end |-> "FOUND", hits |-> SearchGuideChunks(store, s)]
      failed == ~services.embeds \/ (~services.reranks /\ Settings.mode = "BGE_M3_RERANKER")
  IN IF Settings.mode = "LEGACY_LOCAL" THEN found
     ELSE IF services.embeds /\ s.query.longest > 500 THEN [end |-> "GUIDE_QUERY_INVALID", hits |-> <<>>]
     ELSE IF failed THEN IF Settings.mode = "BGE_M3_RERANKER" THEN [end |-> "SEARCH_MODEL_UNAVAILABLE", hits |-> <<>>] ELSE found
     ELSE [end |-> "FOUND", hits |-> SearchWithModels(store, s, services)]

(* ------------------------------ grounding ----------------------------- *)
NoEvidence(reason) == [status |-> "NO_EVIDENCE", reason |-> reason, citations |-> <<>>]

\* _best_paragraph: the first of the paragraphs that are most relevant.
BestParagraph(words, text) ==
  LET Score(i) == Relevance(words, [text EXCEPT !.paragraphs = <<text.paragraphs[i]>>])
      best == {i \in DOMAIN text.paragraphs : \A j \in DOMAIN text.paragraphs :
                 Score(j) < Score(i) \/ (Score(j) = Score(i) /\ i <= j)}
  IN {i \in best : Score(i) >= 20}

\* _valid_lineage: sources gives the pages of the controls of the guide.
ValidLineage(h, sources) ==
  /\ h.control \in DOMAIN sources
  /\ h.page \in sources[h.control].first..sources[h.control].last
  /\ h.hashed
Citation(h, paragraph) == [hit |-> h, control |-> h.control, paragraph |-> paragraph]

\* build_grounding_result
Ground(s, hits, sources) ==
  LET scoped == SelectSeq(hits, LAMBDA h : InScope(h, s))
      qualified == SelectSeq(scoped, LAMBDA h : h.rerank >= Settings.minimumRerank /\ h.lexical >= Settings.minimumLexical)
      cited == SelectSeq(qualified, LAMBDA h : BestParagraph(s.query.words, h.text) # {})
  IN IF s.query.foreign \/ hits = <<>> THEN NoEvidence("NO_MATCH_IN_APPROVED_SCOPE")
     ELSE IF scoped = <<>> THEN NoEvidence("CITATION_LINEAGE_INVALID")
     ELSE IF qualified = <<>> THEN NoEvidence("INSUFFICIENT_RELEVANCE")
     ELSE IF \E i \in DOMAIN qualified : ~ValidLineage(qualified[i], sources) THEN NoEvidence("CITATION_LINEAGE_INVALID")
     ELSE IF cited = <<>> THEN NoEvidence("INSUFFICIENT_RELEVANCE")
     ELSE [status |-> "FOUND", reason |-> "",
           citations |-> [i \in DOMAIN cited |->
             Citation(cited[i], CHOOSE n \in BestParagraph(s.query.words, cited[i].text) : TRUE)]]

\* resolve_guide_conflict: approved guides agree, or the newest says which one
\* version it supersedes.
ResolveConflict(evidence) ==
  LET approved == {e \in evidence : e.status = "APPROVED"}
      newest == CHOOSE e \in approved : \A o \in approved :
                  o.from < e.from \/ (o.from = e.from /\ (o.guide < e.guide \/ (o.guide = e.guide /\ o.version <= e.version)))
      older == approved \ {newest}
      versions == {e.version : e \in older}
  IN IF approved = {} THEN [status |-> "NO_EVIDENCE", selected |-> <<>>]
     ELSE IF Cardinality({e.statement : e \in approved}) = 1
             \/ /\ \A e \in older : e.guide = newest.guide /\ e.from < newest.from
                /\ versions = {newest.supersedes}
          THEN [status |-> "FOUND", selected |-> <<newest>>]
     ELSE [status |-> "CONFLICT", selected |-> <<>>]

(* ------------------- the evidence of one result ----------------------- *)
\* ResultGuideRetrievalService.retrieve, of an explanation input whose digest
\* and source are checked first.
InputChecks(input, catalog) ==
  <<Check(~input.ownDigest, "INPUT_HASH_MISMATCH"),
    Check(input.status \notin {"PASS", "FAIL", "ERROR", "REVIEW", "N/A"} \/ input.authority # "RULE_ENGINE"
          \/ input.findingWrite, "RULE_STATUS_AUTHORITY_INVALID"),
    Check(~catalog.approved, "GUIDE_NOT_APPROVED"), Check(~catalog.sameSource, "GUIDE_SOURCE_HASH_MISMATCH"),
    Check(~catalog.scopeEnabled, "GUIDE_SCOPE_NOT_APPROVED"),
    Check(input.control \notin DOMAIN catalog.sources, "SOURCE_MAPPING_INVALID"),
    Check(input.citations # <<catalog.sources[input.control]>>, "SOURCE_MAPPING_MISMATCH")>>
Retrieve(input, catalog, s, search, conflict) ==
  LET matching == SelectSeq(search.hits, LAMBDA h : h.control = input.control)
      grounding == Ground(s, matching, [c \in {input.control} |-> catalog.sources[c]])
      Ends(status, reason, citations) ==
        [status |-> status, reason |-> reason, control |-> input.control, ruleStatus |-> input.status, citations |-> citations]
  IN IF conflict = "CONFLICT" THEN Ends("CONFLICT", "APPROVED_GUIDES_CONFLICT", <<>>)
     ELSE IF \E i \in DOMAIN search.hits : ~InScope(search.hits[i], s)
          THEN Ends("INSUFFICIENT_EVIDENCE", "CITATION_SCOPE_MISMATCH", <<>>)
     ELSE IF matching = <<>> THEN Ends("INSUFFICIENT_EVIDENCE", "NO_MATCH_FOR_RESULT_CONTROL", <<>>)
     ELSE IF grounding.status # "FOUND" THEN Ends("INSUFFICIENT_EVIDENCE", grounding.reason, <<>>)
     ELSE Ends("FOUND", "", <<grounding.citations[1]>>)

(* ----------------------------- the answer ----------------------------- *)
\* ModelExecutionPolicy, GroundedAIRequest
PolicyAccepted(p) ==
  /\ p.deployment \in {"LOCAL_VLLM", "LOCAL_EXTRACTIVE", "REMOTE_API"}
  /\ p.deployment # "REMOTE_API" => ~p.external
TransferAllowed(p) == ~p.external \/ p.approved
RequestAccepted(r) == (r.mode = "FINDING_EXPLAIN") <=> (r.finding # <<>>)

\* _finding_snapshot
FindingAccepted(f) ==
  ~f.secrets /\ f.windows /\ f.status \in {"PASS", "FAIL", "ERROR", "REVIEW", "N/A"} /\ f.ruled

\* The evidence that fits, in order; the first always does.
Evidence(citations, profile) ==
  LET limit == IF profile = "FAST" THEN 12000 ELSE 32000
      Chars(n) == MapThenSumSet(LAMBDA i : citations[i].hit.text.chars, 1..n)
      fits == {n \in DOMAIN citations : \A k \in 2..n : Chars(k) <= limit}
  IN FirstOf(citations, MostOf(fits))

\* GroundedAIService.generate. verified gives the citations of a caller that
\* searched for itself. streamed is what the reader was sent, whatever the end.
\* reply is [end, category, chars, executable, findingChanged].
EmptyAnswer(status, reason, citations) ==
  [status |-> status, reason |-> reason, citations |-> citations, answered |-> FALSE, streamed |-> 0]
AnswerFrom(request, citations, policy, streams, reply) ==
  LET chosen == Evidence(citations, request.profile)
      sent == IF streams \/ reply.end = "COMPLETED" THEN reply.chars ELSE 0
      Unavailable == {"MODEL_UNAVAILABLE", "UPSTREAM_UNAVAILABLE", "UPSTREAM_TIMEOUT", "RATE_LIMITED"}
      Ends(status, reason) == [EmptyAnswer(status, reason, chosen) EXCEPT !.streamed = sent]
  IN IF request.finding # <<>> /\ request.finding[1].control # citations[1].control
     THEN EmptyAnswer("NO_EVIDENCE", "FINDING_GUIDE_CONTROL_MISMATCH", citations)
     ELSE IF \E i \in DOMAIN citations : citations[i].hit.text.orders
     THEN EmptyAnswer("SECURITY_BLOCKED", "UNTRUSTED_GUIDE_INSTRUCTION_DETECTED", citations)
     ELSE IF ~TransferAllowed(policy)
     THEN EmptyAnswer("EXTERNAL_TRANSFER_BLOCKED", "EXTERNAL_GUIDE_CONTENT_TRANSFER_NOT_APPROVED", citations)
     ELSE IF reply.end = "FAILED"
     THEN Ends(IF reply.category \in Unavailable THEN "MODEL_UNAVAILABLE" ELSE "GENERATION_FAILED", reply.category)
     ELSE IF reply.findingChanged THEN Ends("ERROR", "OFFICIAL_STATE_MUTATION_DETECTED")
     ELSE IF reply.chars \notin 1..12000 \/ reply.executable THEN Ends("SECURITY_BLOCKED", "EXECUTABLE_MODEL_OUTPUT_BLOCKED")
     ELSE [Ends("GENERATED", "") EXCEPT !.answered = TRUE]
Generate(request, s, hits, sources, verified, policy, conflict, streams, reply) ==
  LET grounding == Ground(s, hits, sources)
      LineageHolds == \A i \in DOMAIN verified : verified[i].hit.hashed
  IN IF conflict = "CONFLICT" THEN EmptyAnswer("DOCUMENT_CONFLICT", "APPROVED_GUIDES_CONFLICT", <<>>)
     ELSE IF request.query.orders THEN EmptyAnswer("SECURITY_BLOCKED", "PROMPT_INJECTION_DETECTED", <<>>)
     ELSE IF request.finding # <<>> /\ ~FindingAccepted(request.finding[1])
     THEN EmptyAnswer("ERROR", "FINDING_EXPLANATION_INPUT_INVALID", <<>>)
     ELSE IF verified = <<>>
     THEN IF grounding.status # "FOUND" THEN EmptyAnswer("NO_EVIDENCE", grounding.reason, <<>>)
          ELSE AnswerFrom(request, grounding.citations, policy, streams, reply)
     ELSE IF request.mode # "GUIDE_QA" \/ Len(verified) > 10 THEN EmptyAnswer("ERROR", "VERIFIED_CITATIONS_NOT_ALLOWED", <<>>)
     ELSE IF ~LineageHolds THEN EmptyAnswer("NO_EVIDENCE", "CITATION_LINEAGE_INVALID", <<>>)
     ELSE AnswerFrom(request, verified, policy, streams, reply)

\* generate_from_postgres: a finding is searched for by its control and section.
FindingScope(request, s, sources) ==
  IF request.finding = <<>> THEN s
  ELSE [s EXCEPT !.query.chars = @ + sources[request.finding[1].control].labelChars]
GenerateFromPostgres(request, s, store, services, sources, policy, conflict, streams, reply) ==
  LET scope == FindingScope(request, s, sources)
      found == Search(store, scope, services)
  IN IF request.finding # <<>> /\ request.finding[1].control \notin DOMAIN sources
     THEN EmptyAnswer("NO_EVIDENCE", "FINDING_GUIDE_CONTROL_MISMATCH", <<>>)
     ELSE IF ~ScopeAccepted(scope) THEN EmptyAnswer("ERROR", "GUIDE_QUERY_INVALID", <<>>)
     ELSE IF found.end # "FOUND" THEN EmptyAnswer("ERROR", found.end, <<>>)
     ELSE Generate(request, scope, found.hits, sources, <<>>, policy, conflict, streams, reply)

\* generate_integrated_guide_answer: the best chunk of every guide that has
\* evidence and gives no orders. found gives [scope, hits, sources] per guide.
IntegratedCitations(found, topK) ==
  LET Of(g) == Ground(found[g].scope, found[g].hits, found[g].sources).citations
      all == UNION {{Of(g)[i] : i \in DOMAIN Of(g)} : g \in DOMAIN found}
      Better(l, r) == \/ l.hit.rerank > r.hit.rerank
                      \/ l.hit.rerank = r.hit.rerank /\ (l.hit.lexical > r.hit.lexical
                           \/ (l.hit.lexical = r.hit.lexical /\ l.hit.chunk < r.hit.chunk))
      safe == {c \in all : ~c.hit.text.orders}
      best == {c \in safe : \A o \in safe : o.hit.guide = c.hit.guide => o = c \/ Better(c, o)}
  IN [selected |-> FirstOf(SetToSortSeq(best, Better), topK), unsafe |-> all # safe]
IntegratedAnswer(request, found, policy, streams, reply) ==
  LET evidence == IntegratedCitations(found, IF request.profile = "FAST" THEN 3 ELSE 5)
  IN IF request.query.orders THEN EmptyAnswer("SECURITY_BLOCKED", "PROMPT_INJECTION_DETECTED", <<>>)
     ELSE IF evidence.selected = <<>>
     THEN IF evidence.unsafe THEN EmptyAnswer("SECURITY_BLOCKED", "UNTRUSTED_GUIDE_INSTRUCTION_DETECTED", <<>>)
          ELSE EmptyAnswer("NO_EVIDENCE", "NO_MATCH_IN_APPROVED_SCOPE", <<>>)
     ELSE Generate(request, <<>>, <<>>, <<>>, evidence.selected, policy, "NONE", streams, reply)
=============================================================================
