---------------------------- MODULE BoundedInputs ----------------------------
(***************************************************************************)
(* What the functions of VulnerabilityCheck, GroundedAnswer, PackageIntake *)
(* and Checks return for every input of a small set. The inputs are built  *)
(* from one accepted document and what differs from it; an assumption here *)
(* is evaluated by TLC, it is not something a proof may use.               *)
(***************************************************************************)
EXTENDS Integers, Sequences, FiniteSets, TLC

(* ------------------------------ versions ------------------------------ *)
VersionCheck == INSTANCE Checks

Parts == {[numeric |-> TRUE, rank |-> 1, text |-> "1"], [numeric |-> TRUE, rank |-> 2, text |-> "2"],
          [numeric |-> FALSE, rank |-> 1, text |-> "rc"]}
SmallVersions == [core : {1, 2}, pre : {<<>>} \cup {<<p>> : p \in Parts} \cup {<<p, q>> : p, q \in Parts}]

\* Versions without leading zeros are ordered: of two, one is the greater or
\* they are the same (a collector is inside its range or it is not).
ASSUME VersionsAreOrdered ==
  \A v, w \in SmallVersions :
    /\ VersionCheck!CompareSemver(v, w) = 0 - VersionCheck!CompareSemver(w, v)
    /\ (VersionCheck!CompareSemver(v, w) = 0) <=> (v = w)

(* --------------------------- audit packages --------------------------- *)
Intake == INSTANCE PackageIntake

Member(path, offset, digest) ==
  [path |-> path, fold |-> path, kind |-> "file", layout |-> "approved", offset |-> offset, stored |-> 2, claimed |-> 4,
   size |-> 4, digest |-> digest, json |-> TRUE]
PackageMembers == {Member(Intake!ManifestPath, 0, "manifest"), Member(<<"evidence", "e1">>, 1, "d1"),
                   Member(<<"errors", "e2">>, 2, "d2")}
PackageArchive == [digest |-> "zip", size |-> 9, members |-> PackageMembers]
Collector(min, max) == [name |-> "c", channel |-> "stable", min |-> min, max |-> max]
Release(n) == [core |-> n, pre |-> <<>>]
PackageManifest ==
  [schema |-> TRUE, id |-> "m", digest |-> "manifest", declared |-> "manifest", signed |-> "manifest", issued |-> 1, expires |-> 9,
   job |-> "j", asset |-> "pc", endpoint |-> "e", nonce |-> "n", maxArchive |-> 20, maxFiles |-> 5, maxTotal |-> 20,
   profiles |-> {"ONLINE"}, collector |-> Collector(Release(1), Release(2)),
   probes |-> {[id |-> "PC-01", version |-> 1, controls |-> {"PC-01"}]}]
Observed(id, status, digest) ==
  [id |-> id, probe |-> "PC-01", version |-> 1, control |-> "PC-01", status |-> status, digest |-> digest, subject |-> "pc",
   error |-> IF status = "COLLECTED" THEN "NONE" ELSE "TIMEOUT", fields |-> TRUE, at |-> 4, raw |-> "on"]
PackageDescriptor ==
  [schema |-> TRUE, id |-> "p", issued |-> 2, expires |-> 8, job |-> "j", asset |-> "pc", manifest |-> "m", nonce |-> "n",
   manifestDigest |-> "manifest", profile |-> "ONLINE", collector |-> [name |-> "c", channel |-> "stable", version |-> Release(1)],
   evidence |-> {Observed("e1", "COLLECTED", "d1"), Observed("e2", "ERROR", "d2")},
   inventory |-> {Intake!Named(f) : f \in PackageMembers},
   archive |-> [digest |-> "zip", size |-> 9, total |-> 12, files |-> 3, contentSet |-> Intake!ContentSet(PackageArchive)]]
Attested(digest) == [status |-> "PASSED", digest |-> digest]
PackageGates ==
  [signature |-> Attested("manifest"), nonce |-> [nonce |-> "n", status |-> "RESERVED"], malware |-> Attested("zip"),
   policy |-> Attested("zip"), auth |-> [kind |-> "ONLINE_TRANSPORT", status |-> "PASSED"],
   staged |-> [status |-> "PASSED", job |-> "j", asset |-> "pc", organization |-> "o", digest |-> "zip", size |-> 9]]
Received == [received |-> 5, job |-> "j", asset |-> "pc", endpoint |-> "e", organization |-> "o"]
Validated(m, d, a, g, x) == Intake!Validate(m, d, a, g, x, 10, 5)

\* FullPackageValidator.validate: the package above is accepted, and nothing of
\* it can be exchanged - a gate's answer or what it answered about, a member of
\* the archive, the job it is received for - without being rejected.
ASSUME NothingOfAPackageCanBeExchanged ==
  LET Rejected(m, d, a, g, x) == Validated(m, d, a, g, x) # Intake!Accepted
      Changed(f, change) == [PackageArchive EXCEPT !.members = (@ \ {f}) \cup change]
      WithArchive(a) == Rejected(PackageManifest, PackageDescriptor, a, PackageGates, Received)
      WithGates(g) == Rejected(PackageManifest, PackageDescriptor, PackageArchive, g, Received)
  IN /\ ~Rejected(PackageManifest, PackageDescriptor, PackageArchive, PackageGates, Received)
     /\ \A gate \in {"signature", "policy", "auth", "staged"}, status \in {"FAILED", "UNAVAILABLE"} :
          WithGates([PackageGates EXCEPT ![gate].status = status])
     /\ \A gate \in {"signature", "policy", "malware", "staged"} : WithGates([PackageGates EXCEPT ![gate].digest = "other"])
     /\ WithGates([PackageGates EXCEPT !.malware.status = "DETECTED"])
     /\ WithGates([PackageGates EXCEPT !.nonce.status = "REPLAYED"])
     /\ \A f \in PackageMembers :
          /\ WithArchive(Changed(f, {}))
          /\ WithArchive(Changed(f, {[f EXCEPT !.digest = "other"]}))
          /\ WithArchive(Changed(f, {[f EXCEPT !.size = 5]}))
          /\ WithArchive(Changed(f, {f, [f EXCEPT !.path = <<"evidence", "extra">>, !.offset = 7]}))
     /\ \A field \in {"job", "asset", "endpoint", "organization"} :
          Rejected(PackageManifest, PackageDescriptor, PackageArchive, PackageGates, [Received EXCEPT ![field] = "other"])
     /\ \A at \in {0, 10} :
          Rejected(PackageManifest, PackageDescriptor, PackageArchive, PackageGates, [Received EXCEPT !.received = at])

Allowed == {[probe |-> "PC-01", version |-> 1]}
AuditPack == [schema |-> TRUE, approval |-> "APPROVED", declared |-> "k", digest |-> "k", controls |-> {"PC-01"}]
FindingContext == [organization |-> "o", asOf |-> 6]
\* EvidenceNormalizer, FindingBuilder and FindingRepository on that package: one
\* observation that is not what its probe may return rejects all of them; what
\* failed to be collected never has a value; the same evidence gives the same
\* finding, and another verdict from it is a conflict.
ASSUME FindingsFollowTheirEvidence ==
  LET v == Intake!ValidatedPackage(PackageManifest, PackageDescriptor, PackageArchive, Received)
      Normal(d) == Intake!Normalizes(v, d, 5, Allowed)
      records == {Intake!NormalizedRecord(v, e) : e \in PackageDescriptor.evidence}
      FindingOf(status) == Intake!Assemble(AuditPack, "PC-01", records, [status |-> status, code |-> "c"], FindingContext)
  IN /\ Normal(PackageDescriptor)
     /\ \A e \in PackageDescriptor.evidence, field \in {"fields", "at", "probe"} :
          LET bad == [e EXCEPT ![field] = IF field = "fields" THEN FALSE ELSE IF field = "at" THEN 6 ELSE "PC-09"]
          IN ~Intake!RecordNormalizes(bad, 5, Allowed)
             /\ ~Normal([PackageDescriptor EXCEPT !.evidence = (@ \ {e}) \cup {bad}])
     /\ \A r \in records : r.status # "COLLECTED" => r.value = "MISSING"
     /\ \A status, other \in {"PASS", "FAIL", "ERROR", "REVIEW", "N/A"} :
          /\ Intake!FindingBuilds(AuditPack, "PC-01", records, [status |-> status, code |-> "c"], FALSE)
          /\ Intake!ResolveReplay(<<FindingOf(status)>>, FindingOf(other)) =
               (IF status = other THEN "RETURN_EXISTING" ELSE "IDEMPOTENCY_CONFLICT")
          /\ FindingOf("ERROR").output.applicability = "UNDETERMINED"

(* --------------------------- vulnerabilities -------------------------- *)
Vulnerability == INSTANCE VulnerabilityCheck WITH
  MaxComponents <- 3, MaxSupplements <- 2, MaxPackages <- 2, MaxDetails <- 1, Cves <- {1, 2}

Snapshots(age) == [subject : {"w11", "w10"}, items : {{}, {1}}, at : {200 - age}, intact : BOOLEAN]
Resolved(cached, fetched) == Vulnerability!Resolve("w11", cached, fetched, 200)
Usable(s) == s # <<>> /\ s[1].intact /\ s[1].subject = "w11"

\* resolve_..._vulnerability_check: a count is the number of the items shown, no
\* candidates are reported only from a snapshot of the last week, and what is
\* kept of this subject answers for a feed that does not.
ASSUME CountsAreOfFreshSnapshots ==
  \A age \in {0, 5, 6, 72, 73, 168, 169}, fresh \in BOOLEAN :
    \A cached \in {<<>>} \cup {<<s>> : s \in Snapshots(age)} :
      LET result == Resolved(cached, IF fresh THEN <<[subject |-> "w11", items |-> {1}, at |-> 200, intact |-> TRUE]>> ELSE <<>>)
      IN /\ result.count # <<>> => result.count[1] = Cardinality(result.items)
         /\ result.count = <<0>> => Usable(cached) /\ age <= 168
         /\ result.freshness = "CURRENT" /\ result.mode # "ONLINE_REFRESHED" => age <= 72
         /\ Usable(cached) => result.mode # "SOURCE_ERROR"

Component(type, source, scope, name, version) ==
  [type |-> type, source |-> source, scope |-> scope, clean |-> TRUE, publisher |-> "",
   name |-> [fold |-> name, pypi |-> "p"], version |-> version]
Wheel(name) == Component("PYTHON_PACKAGE", "PYTHON_DIST_INFO", "INSTALLED", name, "1")
Update == Component("WINDOWS_KB", "WINDOWS_HOTFIX", "INSTALLED", "kb", "")
Locked(source) == Component("NODE_PACKAGE", source, "LOCK_FILE", "n", "1")
InventoryOf(components) ==
  [os |-> [supported |-> TRUE], components |-> components, digest |-> "own",
   collection |-> [status |-> "COMPLETE", errors |-> {}, counts |-> Vulnerability!CountsOf(components)]]
RequestOf(components, supplements) == [utc |-> TRUE, inventory |-> InventoryOf(components), supplements |-> supplements]

Nvd(delivered) ==
  [delivered |-> delivered, json |-> TRUE, total |-> 1, stored |-> TRUE,
   records |-> <<[normal |-> TRUE, id |-> 1, severity |-> "HIGH"]>>]
\* Records 1 and 2 are CVEs, 3 is an alias of 1; the detail of 3 comes too late.
Osv(delivered, packages) ==
  [delivered |-> delivered, json |-> TRUE, paged |-> FALSE, stored |-> TRUE,
   ids |-> [p \in packages |-> <<1, 3>>],
   details |-> (1 :> [score |-> <<75>>, aliases |-> {3}]) @@ (3 :> [score |-> <<95>>, aliases |-> {1}])]
CheckOf(request, kept, nvd, osv, now) ==
  Vulnerability!CheckWindows(request, kept, Nvd(nvd), Osv(osv, Vulnerability!OsvComponents(
    {request.inventory.components[i] : i \in DOMAIN request.inventory.components}
    \cup {request.supplements[i] : i \in DOMAIN request.supplements})), now)

Nothing == [nvd |-> {}, osv |-> {}]
InventoryChoices == {<<>>, <<Update>>, <<Wheel("p")>>, <<Wheel("a_b"), Wheel("a-b")>>, <<Wheel("p"), Update>>}
SupplementChoices == {<<>>, <<Locked("NODE_LOCK_FILE")>>,
                      <<Component("PYTHON_PACKAGE", "PYTHON_LOCK_FILE", "LOCK_FILE", "p", "1")>>}
\* check_windows_known_vulnerabilities: a candidate is of the computer or of a
\* package it has, and says where the package is; there is a total only when both feeds answered; and when both
\* feeds are away an hour to a week later, the same candidates come from what
\* was kept.
ASSUME CandidatesComeFromTheInventory ==
  \A components \in InventoryChoices, supplements \in SupplementChoices, nvd, osv \in BOOLEAN, later \in {1, 100, 168} :
    LET request == RequestOf(components, supplements)
        first == CheckOf(request, Nothing, nvd, osv, 10)
        again == CheckOf(request, first.kept, FALSE, FALSE, 10 + later)
        all == {components[i] : i \in DOMAIN components} \cup {supplements[i] : i \in DOMAIN supplements}
        has == Vulnerability!OsvComponents(all)
    IN /\ first.status = (IF nvd THEN 200 ELSE 503)
       /\ first.status = 200 =>
            /\ \A item \in {i \in first.result[1].items : i[1] # "Windows"} :
                 LET scopes == Vulnerability!PackageScopes(item[2].package, all)
                 IN item[2].package \in has /\ scopes # {} /\ (item[2].scope # "MULTIPLE" => scopes = {item[2].scope})
            /\ (first.result[1].count # <<>>) <=> (osv /\ has # {})
            /\ again.status = 200 /\ again.result[1].items = first.result[1].items
            /\ again.kept = first.kept

\* merge_supplemental_components: a dependency named twice makes the inventory
\* disagree with its counts, and the whole check is refused.
ASSUME RepeatedDependencyIsRefused ==
  LET twice == <<Locked("NODE_LOCK_FILE"), Locked("NODE_LOCK_FILE")>>
  IN CheckOf(RequestOf(<<Update>>, twice), Nothing, TRUE, TRUE, 10).status = 422

Candidates == [fields : BOOLEAN, id : {"CVE", "malformed"}, description : {"text", "empty", "instructions"}, severity : {"HIGH"},
               score : {<<>>, <<75>>, <<101>>}, texts : {TRUE}]
ExplanationTexts == [json : BOOLEAN, fields : {TRUE}, texts : SUBSET {"ok", "empty", "not Korean", "executable"}]
\* explain_public_vulnerability: a text of the model is shown only for a sound
\* candidate and only when all of it can be shown; a candidate that is refused is
\* refused before the model is asked.
ASSUME OnlySoundExplanationsAreShown ==
  \A c \in Candidates, provider \in BOOLEAN, o \in ExplanationTexts :
    LET status == Vulnerability!ExplainStatus(c, provider, o)
    IN /\ status = 200 => provider /\ o.json /\ o.texts \subseteq {"ok"} /\ c.description = "text" /\ c.id = "CVE"
       /\ status = 503 => Vulnerability!FirstRejection(Vulnerability!CandidateChecks(c)) = Vulnerability!Accepted
       /\ status = Vulnerability!ExplainStatus(c, ~provider, o) => status = 422

(* ---------------------------- cited answers --------------------------- *)
\* A paragraph is the set of the words in it; it is about one of them or not.
RelevanceOf(words, text) ==
  IF \E i \in DOMAIN text.paragraphs : words \cap text.paragraphs[i] # {} THEN 100 ELSE 0
CategoryOfControl(control) == IF control = "PC-09" THEN "UPDATE" ELSE "ACCOUNT"
SearchSettings ==
  [mode |-> "AUTO", candidates |-> 3, multiplier |-> 2, dbMultiplier |-> 2, dbLimit |-> 4, expansions |-> 2,
   minimumRerank |-> 50, minimumLexical |-> 40]
Grounding == INSTANCE GroundedAnswer WITH
  Relevance <- RelevanceOf, CategoryOf <- CategoryOfControl, Settings <- SearchSettings

GuideText(orders) == [chars |-> 8000, orders |-> orders, paragraphs |-> <<{"intro"}, {"password"}>>]
Stored(chunk, guide, control, page, orders) ==
  [org |-> "o", guide |-> guide, version |-> 1, scope |-> "pc", source |-> "pdf", page |-> page, control |-> control,
   text |-> GuideText(orders), chunk |-> chunk, dense |-> 80 - chunk, lexical |-> 0, rerank |-> 0, hashed |-> page # 9]
GuideChunks == {Stored(1, "g", "PC-01", 3, FALSE), Stored(2, "g", "PC-09", 5, FALSE), Stored(3, "g", "PC-01", 9, FALSE),
                Stored(4, "h", "PC-01", 3, FALSE), Stored(5, "g", "PC-01", 4, TRUE)}
ControlPages == ("PC-01" :> [first |-> 3, last |-> 4, labelChars |-> 20]) @@ ("PC-09" :> [first |-> 5, last |-> 5, labelChars |-> 20])
QuestionOf(words, control) ==
  [org |-> "o", guide |-> "g", version |-> 1, scope |-> "pc", topK |-> 2, control |-> control,
   query |-> [words |-> words, chars |-> 30, orders |-> FALSE, foreign |-> FALSE, longest |-> 30,
              expansions |-> <<words, words \cup {"account"}>>, categories |-> {}]]
ServiceChoices == [embeds : BOOLEAN, reranks : BOOLEAN, scores : {<<0, 0, 0, 0, 0, 0>>, <<10, 90, 50, 50, 20, 70>>}]
Asking(mode, control) ==
  [mode |-> mode, profile |-> "FAST", query |-> [orders |-> FALSE],
   finding |-> IF mode = "GUIDE_QA" THEN <<>>
               ELSE <<[control |-> control, secrets |-> FALSE, windows |-> TRUE, status |-> "FAIL", ruled |-> TRUE]>>]
Local == [deployment |-> "LOCAL_VLLM", external |-> FALSE, approved |-> FALSE]
Replied(executable) == [end |-> "COMPLETED", category |-> "", chars |-> 100, executable |-> executable, findingChanged |-> FALSE]

\* GroundedAIService.generate_from_postgres: an answer rests on chunks of the
\* guide asked about whose lineage holds and that give the model no orders, and
\* within the evidence limit; nothing executable is an answer.
ASSUME AnswersRestOnTheGuide ==
  \A store \in SUBSET GuideChunks, words \in {{"password"}, {"printer"}}, services \in ServiceChoices,
     mode \in {"GUIDE_QA", "FINDING_EXPLAIN"}, executable \in BOOLEAN :
    LET s == QuestionOf(words, <<>>)
        answer == Grounding!GenerateFromPostgres(Asking(mode, "PC-01"), s, store, services, ControlPages, Local, "NONE",
                                                 TRUE, Replied(executable))
    IN /\ Grounding!RequestAccepted(Asking(mode, "PC-01"))
       /\ answer.answered =>
            /\ ~executable /\ words = {"password"} /\ answer.citations # <<>>
            /\ \A i \in DOMAIN answer.citations :
                 /\ answer.citations[i].hit.guide = "g" /\ answer.citations[i].hit.hashed
                 /\ ~answer.citations[i].hit.text.orders
                 /\ answer.citations[i].paragraph = 2
            /\ Len(answer.citations) * 8000 <= 12000 \/ Len(answer.citations) = 1
       /\ mode = "FINDING_EXPLAIN" /\ answer.answered => answer.citations[1].control = "PC-01"

\* Two guides are asked at once.
GuideScope(guide) == [QuestionOf({"password"}, <<>>) EXCEPT !.guide = guide]
AllGuideChunks == GuideChunks \cup {Stored(6, "h", "PC-09", 5, TRUE)}
\* generate_integrated_guide_answer: at most one chunk of every guide, safe and
\* with its lineage, and, where the evidence limit leaves room, one of each guide
\* that has such a chunk.
ASSUME IntegratedAnswersTakeOneChunkOfEachGuide ==
  \A store \in SUBSET AllGuideChunks, services \in ServiceChoices, executable \in BOOLEAN, profile \in {"FAST", "PRECISE"} :
    LET found == [g \in {"g", "h"} |-> [scope |-> GuideScope(g), sources |-> ControlPages,
                                        hits |-> Grounding!Search(store, GuideScope(g), services).hits]]
        answer == Grounding!IntegratedAnswer([Asking("GUIDE_QA", "PC-01") EXCEPT !.profile = profile], found, Local, TRUE, Replied(executable))
        cited == {answer.citations[i].hit : i \in DOMAIN answer.citations}
        Having(g) == {c \in {Grounding!Ground(found[g].scope, found[g].hits, ControlPages).citations[i] : i \in
                        DOMAIN Grounding!Ground(found[g].scope, found[g].hits, ControlPages).citations} : ~c.hit.text.orders}
    IN answer.answered =>
         /\ ~executable
         /\ \A h \in cited : h.hashed /\ ~h.text.orders /\ \E o \in store : o.chunk = h.chunk
         /\ \A h, o \in cited : h.guide = o.guide => h = o
         /\ profile = "FAST" \/ {h.guide : h \in cited} = {g \in {"g", "h"} : Having(g) # {}}

ResultInput(control) ==
  [control |-> control, status |-> "FAIL", ownDigest |-> TRUE, authority |-> "RULE_ENGINE", findingWrite |-> FALSE,
   citations |-> <<ControlPages[control]>>]
ResultCatalog == [approved |-> TRUE, sameSource |-> TRUE, scopeEnabled |-> TRUE, sources |-> ControlPages]
\* ResultGuideRetrievalService.retrieve: an input that is not the one that was
\* hashed, or is not of this guide, is not searched for.
ASSUME ResultInputsAreChecked ==
  LET Accepts(input, catalog) == Grounding!FirstRejection(Grounding!InputChecks(input, catalog)) = Grounding!Accepted
  IN \A control \in DOMAIN ControlPages :
       /\ Accepts(ResultInput(control), ResultCatalog)
       /\ \A field \in {"approved", "sameSource", "scopeEnabled"} :
            ~Accepts(ResultInput(control), [ResultCatalog EXCEPT ![field] = FALSE])
       /\ ~Accepts([ResultInput(control) EXCEPT !.ownDigest = FALSE], ResultCatalog)
       /\ \A other \in DOMAIN ControlPages \ {control} :
            ~Accepts([ResultInput(control) EXCEPT !.control = other], ResultCatalog)

\* ResultGuideRetrievalService.retrieve: the evidence of a result is one chunk
\* of its own control, and the official status goes through unchanged.
ASSUME ResultEvidenceIsOfItsControl ==
  \A store \in SUBSET GuideChunks, control \in DOMAIN ControlPages, services \in ServiceChoices, conflict \in {"NONE", "CONFLICT"} :
    LET s == QuestionOf({"password"}, <<control>>)
        found == Grounding!Retrieve(ResultInput(control), ResultCatalog, s, Grounding!Search(store, s, services), conflict)
    IN /\ found.ruleStatus = "FAIL" /\ found.control = control
       /\ found.status = "FOUND" => /\ conflict = "NONE" /\ Len(found.citations) = 1
                                    /\ found.citations[1].control = control
                                    /\ found.citations[1].hit.page \in ControlPages[control].first..ControlPages[control].last
       /\ found.status # "FOUND" => found.citations = <<>>

\* _with_category_coverage: of every category that is asked for and found, a hit
\* stays; the hits that stay keep their order.
ASSUME AskedCategoriesStay ==
  \A controls \in UNION {[1..n -> {"PC-01", "PC-09"}] : n \in 0..4}, asked \in SUBSET {"UPDATE", "ACCOUNT"}, limit \in 2..3 :
    LET hits == [i \in DOMAIN controls |-> [control |-> controls[i], chunk |-> i]]
        kept == Grounding!WithCategories(hits, asked, limit)
        CategoriesOf(h) == {CategoryOfControl(h[i].control) : i \in DOMAIN h}
    IN /\ CategoriesOf(hits) \cap asked \subseteq CategoriesOf(kept)
       /\ Len(kept) = (IF Len(hits) < limit THEN Len(hits) ELSE limit)
       /\ \A i, j \in DOMAIN kept : i < j => kept[i].chunk < kept[j].chunk

Editions ==
  [status : {"APPROVED", "DRAFT"}, guide : {1, 2}, version : {1, 2}, from : {1, 2}, statement : {"a", "b"}, supersedes : {0, 1}]
\* resolve_guide_conflict of two guides: only an approved one is selected, never
\* one older than another approved one, and of two that differ only the one that
\* says it supersedes the other.
ASSUME OnlyApprovedGuidesAreSelected ==
  \A e, f \in Editions :
    LET resolved == Grounding!ResolveConflict({e, f})
    IN /\ resolved.selected # <<>> =>
            /\ resolved.selected[1] \in {e, f} /\ resolved.selected[1].status = "APPROVED"
            /\ \A o \in {e, f} : o.status = "APPROVED" => o.from <= resolved.selected[1].from
            /\ e.status = f.status /\ e.statement # f.statement =>
                 resolved.selected[1].supersedes \in {e.version, f.version}
       /\ (resolved.status = "FOUND") <=> (resolved.selected # <<>>)

GuideFile == [digest |-> "pdf", size |-> 9, pages |-> 7, pdf |-> TRUE, encrypted |-> FALSE, text |-> [n \in 3..5 |-> n]]
PageRanges == ("PC-01" :> [first |-> 3, last |-> 4]) @@ ("PC-09" :> [first |-> 5, last |-> 5])
GuideEntry ==
  [pathSafe |-> TRUE, status |-> "APPROVED", licensed |-> TRUE, activatesPack |-> FALSE, gates |-> [review |-> TRUE],
   source |-> [digest |-> "pdf", size |-> 9, pages |-> 7, pdf |-> TRUE, encrypted |-> FALSE],
   scopes |-> <<[id |-> "pc", first |-> 3, last |-> 5, enabled |-> TRUE]>>]
PageMap ==
  [digest |-> "pdf", pageCount |-> 7, guide |-> "g", scope |-> "pc", first |-> 3, last |-> 5,
   pages |-> [i \in 1..3 |-> [page |-> i + 2, numbered |-> TRUE, text |-> i + 2,
                              controls |-> IF i = 3 THEN {"PC-09"} ELSE {"PC-01"}]]]
MappingOfGuide ==
  [status |-> "DRAFT", activates |-> FALSE, guide |-> "g", digest |-> "pdf", needs |-> "APPROVED", pack |-> "pack", range |-> PageRanges]
PackOfGuide == [pack |-> "pack", guideDigest |-> "pdf", range |-> PageRanges]

\* verify_guide_lineage: the guide above has no error, and no one of its five
\* documents can be exchanged for one of another file, page range or control.
ASSUME GuideLineageHoldsTogether ==
  LET Fails(c, m, k, p, f) == Grounding!LineageErrors(c, m, k, p, f, DOMAIN PageRanges) # {}
      moved == [PageRanges EXCEPT !["PC-01"].last = 3]
  IN /\ ~Fails(GuideEntry, PageMap, MappingOfGuide, PackOfGuide, GuideFile)
     /\ \A field \in {"pathSafe", "licensed"} : Fails([GuideEntry EXCEPT ![field] = FALSE], PageMap, MappingOfGuide, PackOfGuide, GuideFile)
     /\ \A scopes \in {<<>>, GuideEntry.scopes \o GuideEntry.scopes} :
          Fails([GuideEntry EXCEPT !.scopes = scopes], PageMap, MappingOfGuide, PackOfGuide, GuideFile)
     /\ Fails([GuideEntry EXCEPT !.gates["review"] = FALSE], PageMap, MappingOfGuide, PackOfGuide, GuideFile)
     /\ \A field \in {"digest", "size", "pages"} :
          Fails(GuideEntry, PageMap, MappingOfGuide, PackOfGuide, [GuideFile EXCEPT ![field] = IF field = "digest" THEN "other" ELSE 8])
     /\ \A n \in 3..5 : Fails(GuideEntry, PageMap, MappingOfGuide, PackOfGuide, [GuideFile EXCEPT !.text[n] = 0])
     /\ \A i \in 1..3 : Fails(GuideEntry, [PageMap EXCEPT !.pages[i].page = 6], MappingOfGuide, PackOfGuide, GuideFile)
     /\ Fails(GuideEntry, PageMap, [MappingOfGuide EXCEPT !.range = moved], PackOfGuide, GuideFile)
     /\ Fails(GuideEntry, PageMap, MappingOfGuide, [PackOfGuide EXCEPT !.range = moved], GuideFile)
     /\ Fails(GuideEntry, PageMap, [MappingOfGuide EXCEPT !.range = moved], [PackOfGuide EXCEPT !.range = moved], GuideFile)

Gates == [synthetic : BOOLEAN, guide : {"APPROVED", "PENDING", "SYNTHETIC_TEST_ONLY"},
          license : {"APPROVED", "SYNTHETIC_TEST_ONLY"}, open : [{"review", "index"} -> BOOLEAN]]
SourcePages == [page : 0..2, known : BOOLEAN, control : {"PC-01"}, text : {[chars |-> n] : n \in {0, 8}}]
StoredGuide == [identified |-> TRUE, org |-> "o", id |-> "g", version |-> 1, scope |-> "pc", digest |-> "pdf"]
\* evaluate_ingest_gate and build_guide_chunks: chunks are made only through open
\* gates, of an approved guide or of a synthetic one that is nothing else; every
\* page gives one chunk, and it is found only by a question about its own guide.
ASSUME ChunksComeThroughTheGate ==
  \A gate \in Gates, pages \in UNION {[1..n -> SourcePages] : n \in 0..2} :
    Grounding!ChunksAccepted(StoredGuide, pages, gate) =>
      /\ \A g \in DOMAIN gate.open : gate.open[g]
      /\ gate.synthetic <=> gate.guide # "APPROVED"
      /\ gate.guide = gate.license
      /\ Cardinality({Grounding!Chunk(StoredGuide, pages[i]) : i \in DOMAIN pages}) = Len(pages)
      /\ \A i \in DOMAIN pages, guide \in {"g", "h"} :
           Grounding!InScope(Grounding!Chunk(StoredGuide, pages[i]), GuideScope(guide)) <=> guide = "g"
=============================================================================
