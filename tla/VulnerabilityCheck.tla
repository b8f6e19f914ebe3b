-------------------------- MODULE VulnerabilityCheck --------------------------
(***************************************************************************)
(* The comparison of a Windows computer and of what is installed on it     *)
(* with the public vulnerability feeds NVD and OSV                         *)
(*   application/component_vulnerability_check.py,                         *)
(*   application/known_vulnerability_check.py,                             *)
(*   apps/api/vulnerability_check.py                                       *)
(*                                                                         *)
(* Times are hours, scores are tenths, <<>> is no value. A name is         *)
(* [fold, pypi]: its case-folded form and the form PyPI gives it. Ids of   *)
(* vulnerabilities are naturals. The digest of a document is the document. *)
(***************************************************************************)
EXTENDS Checks

LOCAL INSTANCE SequencesExt

CONSTANTS MaxComponents,      \* 1,200 in an inventory
          MaxSupplements,     \* 500 of them from lock files
          MaxPackages,        \* 500 packages in one OSV query
          MaxDetails,         \* 100 details fetched
          Cves                \* the ids that start with CVE-

ComponentTypes == {"WINDOWS_PROGRAM", "WINDOWS_APPX", "WINDOWS_KB",
                   "PYTHON_PACKAGE", "NODE_PACKAGE", "JAVA_PACKAGE"}
PackageTypes == {"PYTHON_PACKAGE", "NODE_PACKAGE", "JAVA_PACKAGE"}
LockFiles == {"PYTHON_LOCK_FILE", "NODE_LOCK_FILE", "JAVA_LOCK_FILE"}
ComponentSources == [t \in ComponentTypes |->
  CASE t = "WINDOWS_PROGRAM" -> {"REGISTRY_MACHINE_X64", "REGISTRY_MACHINE_X86", "REGISTRY_CURRENT_USER"}
    [] t = "WINDOWS_APPX" -> {"APPX_CURRENT_USER"}
    [] t = "WINDOWS_KB" -> {"WINDOWS_UPDATE_HISTORY", "WINDOWS_HOTFIX"}
    [] t = "PYTHON_PACKAGE" -> {"PYTHON_DIST_INFO", "PYTHON_LOCK_FILE"}
    [] t = "NODE_PACKAGE" -> {"NPM_PACKAGE_JSON", "NODE_LOCK_FILE"}
    [] t = "JAVA_PACKAGE" -> {"MAVEN_LOCAL_CACHE", "GRADLE_LOCAL_CACHE", "JAVA_LOCK_FILE"}]
Scopes == {"INSTALLED", "LOCAL_CACHE", "LOCK_FILE"}
CollectionErrors == {"PROGRAMS_UNAVAILABLE", "APPX_UNAVAILABLE", "KB_UNAVAILABLE",
                     "PYTHON_UNAVAILABLE", "NODE_UNAVAILABLE", "JAVA_UNAVAILABLE"}

(* ------------------------------ inventory ----------------------------- *)
\* os.supported: Windows 10 or 11, with a version, build and architecture known.
ComponentAccepted(c) ==
  /\ c.type \in ComponentTypes
  /\ c.source \in ComponentSources[c.type]
  /\ c.scope \in Scopes
  /\ c.clean
  /\ c.version = "" <=> c.type = "WINDOWS_KB"

\* A later component replaces an equal earlier one.
ComponentKey(c) == <<c.type, c.name.fold, c.version, c.publisher, c.source, c.scope>>
Indexed(components) ==
  {components[i] : i \in {j \in DOMAIN components :
     \A k \in DOMAIN components : k > j => ComponentKey(components[k]) # ComponentKey(components[j])}}

CountsOf(components) ==
  [t \in ComponentTypes |-> Cardinality({i \in DOMAIN components : components[i].type = t})]

InventoryAccepted(inv) ==
  LET kept == SetToSeq(Indexed(inv.components))
  IN /\ inv.os.supported
     /\ Len(inv.components) <= MaxComponents
     /\ \A i \in DOMAIN inv.components : ComponentAccepted(inv.components[i])
     /\ inv.collection.status \in {"COMPLETE", "PARTIAL", "UNAVAILABLE"}
     /\ inv.collection.errors \subseteq CollectionErrors
     /\ inv.collection.counts = CountsOf(kept)
     /\ inv.digest # "other"

\* validate_windows_component_inventory of an accepted inventory.
Normalized(inv) ==
  [os |-> inv.os, components |-> Indexed(inv.components), collection |-> inv.collection,
   digest |-> <<Indexed(inv.components), inv.collection>>]

\* merge_supplemental_components: the counts are taken before equal components
\* become one, so a dependency that is in two lock files makes the whole
\* inventory invalid.
SupplementsAccepted(supplements) ==
  /\ Len(supplements) <= MaxSupplements
  /\ \A i \in DOMAIN supplements :
       /\ ComponentAccepted(supplements[i])
       /\ supplements[i].type \in PackageTypes
       /\ supplements[i].source \in LockFiles
       /\ supplements[i].scope = "LOCK_FILE"
Merged(inv, supplements) ==
  LET combined == SetToSeq(inv.components) \o supplements
  IN [os |-> inv.os, components |-> combined, digest |-> "none",
      collection |-> [inv.collection EXCEPT !.counts = CountsOf(combined)]]

(* ------------------------------- packages ----------------------------- *)
\* _osv_components: what OSV can be asked about, one for every name and version.
NameIn(c) == IF c.type = "PYTHON_PACKAGE" THEN c.name.pypi ELSE c.name.fold
PackageOf(c) == [type |-> c.type, name |-> NameIn(c), version |-> c.version]
OsvComponents(components) == {PackageOf(c) : c \in {x \in components : x.type \in PackageTypes}}
PackageSources(p, components) == {c.source : c \in {x \in components : PackageOf(x) = p}}
PackageScopes(p, components) == {c.scope : c \in {x \in components : PackageOf(x) = p}}
DisplayScope(scopes) == IF Cardinality(scopes) = 1 THEN CHOOSE s \in scopes : TRUE ELSE "MULTIPLE"

\* component_comparison_coverage
Coverage(components, sourceError) ==
  LET distinct == {<<c.type, c.name.fold, c.version, c.publisher>> : c \in components}
      Reason(type) == IF type \in PackageTypes THEN "SOURCE_ERROR"
                      ELSE IF type = "WINDOWS_KB" THEN "UPDATE_EVIDENCE_ONLY" ELSE "PRODUCT_MAPPING_REQUIRED"
      left == {d \in distinct : d[1] \notin PackageTypes \/ sourceError}
      Because(reason) == Cardinality({d \in left : Reason(d[1]) = reason})
  IN [assessed |-> IF sourceError THEN 0 ELSE Cardinality(OsvComponents(components)),
      unassessed |-> Cardinality(left),
      mapping |-> Because("PRODUCT_MAPPING_REQUIRED"), evidence |-> Because("UPDATE_EVIDENCE_ONLY")]

(* ------------------------------- the feeds ---------------------------- *)
Severity(score) ==
  IF score = <<>> THEN "UNKNOWN"
  ELSE IF score[1] >= 90 THEN "CRITICAL" ELSE IF score[1] >= 70 THEN "HIGH"
  ELSE IF score[1] >= 40 THEN "MEDIUM" ELSE IF score[1] > 0 THEN "LOW" ELSE "NONE"

\* _fetch_details: the details of the first ids, without those that failed.
DetailCache(found, details) ==
  {id \in found : id \in DOMAIN details /\ Cardinality({x \in found : x < id}) < MaxDetails}

\* What is known of one record: an id that starts with CVE- is preferred.
NoDetail == [score |-> <<>>, aliases |-> {}]
Identified(id, detail) ==
  LET ids == {id} \cup detail.aliases
      cves == ids \cap Cves
      canonical == IF cves = {} THEN id ELSE CHOOSE c \in cves : \A d \in cves : c <= d
  IN [record |-> id, id |-> canonical, others |-> ids \ {canonical}, score |-> detail.score]

\* The records of one package that have one id become one item: the first of
\* the highest score, with every other name.
Above(l, r) == l # <<>> /\ (r = <<>> \/ l[1] > r[1])
ItemOfRecords(p, components, records, id) ==
  LET same == SelectSeq(records, LAMBDA r : r.id = id)
      first == CHOOSE i \in DOMAIN same :
                 \A j \in DOMAIN same : ~Above(same[j].score, same[i].score)
                                        /\ (j < i => Above(same[i].score, same[j].score))
  IN [package |-> p, scope |-> DisplayScope(PackageScopes(p, components)), sources |-> PackageSources(p, components),
      id |-> id, record |-> same[first].record,
      severity |-> Severity(same[first].score), others |-> UNION {same[i].others : i \in DOMAIN same}]

\* fetch_components. reply.ids gives the ids found for every package.
OsvReplyAccepted(reply, packages) ==
  /\ reply.delivered /\ reply.json
  /\ DOMAIN reply.ids = packages
  /\ ~reply.paged                                 \* a next_page_token
OsvItems(reply, packages, components) ==
  LET found == UNION {{reply.ids[p][i] : i \in DOMAIN reply.ids[p]} : p \in packages}
      cached == DetailCache(found, reply.details)
      DetailOf(id) == IF id \in cached THEN reply.details[id] ELSE NoDetail
      Records(p) == [i \in DOMAIN reply.ids[p] |-> Identified(reply.ids[p][i], DetailOf(reply.ids[p][i]))]
  IN UNION {{ItemOfRecords(p, components, Records(p), Records(p)[i].id) : i \in DOMAIN reply.ids[p]} : p \in packages}

\* fetch_windows: all or nothing; reply.total is what the feed says there is.
NvdReplyAccepted(reply) ==
  /\ reply.delivered /\ reply.json
  /\ reply.total = Len(reply.records)
  /\ \A i \in DOMAIN reply.records : reply.records[i].normal
NvdItems(reply) ==
  {[id |-> reply.records[i].id, severity |-> reply.records[i].severity] :
     i \in {j \in DOMAIN reply.records :
              \A k \in DOMAIN reply.records : k > j => reply.records[k].id # reply.records[j].id}}

(* --------------------------- kept snapshots --------------------------- *)
\* A snapshot is of a subject: the Windows release or the inventory.
SnapshotAccepted(s, subject) == s.subject = subject /\ s.intact

\* latest_..._snapshot
Latest(kept, subject) ==
  LET mine == {s \in kept : s.subject = subject}
  IN IF mine = {} THEN <<>> ELSE <<CHOOSE s \in mine : \A t \in mine : t.at <= s.at>>

Freshness(age) == IF age <= 72 THEN "CURRENT" ELSE IF age <= 168 THEN "STALE" ELSE "EXPIRED"

\* resolve_..._vulnerability_check. fetched is <<>> when the feed, its reply or
\* its storage failed. A kept snapshot that is damaged is an error before the
\* feed is asked.
RefreshAfter == 6
Resolve(subject, cached, fetched, now) ==
  LET refresh == cached = <<>> \/ now - cached[1].at >= RefreshAfter
      online == refresh /\ fetched # <<>>
      chosen == IF online THEN fetched ELSE cached
  IN IF (cached # <<>> /\ ~SnapshotAccepted(cached[1], subject)) \/ chosen = <<>> \/ now < chosen[1].at
     THEN [mode |-> "SOURCE_ERROR", freshness |-> "UNAVAILABLE", count |-> <<>>, items |-> {}]
     ELSE LET freshness == Freshness(now - chosen[1].at)
              items == chosen[1].items
          IN [mode |-> IF online THEN "ONLINE_REFRESHED" ELSE IF refresh THEN "LOCAL_CACHE_FALLBACK" ELSE "LOCAL_CACHE",
              freshness |-> freshness, items |-> items,
              count |-> IF freshness = "EXPIRED" /\ items = {} THEN <<>> ELSE <<Cardinality(items)>>]

NothingToCompare == [mode |-> "NO_SUPPORTED_COMPONENT", freshness |-> "UNAVAILABLE", count |-> <<>>, items |-> {}]

(* ------------------------------ the request --------------------------- *)
\* A reply becomes a snapshot only when it is stored.
Fetched(subject, accepted, items, stored, now) ==
  IF accepted /\ stored THEN <<[subject |-> subject, items |-> items, at |-> now, intact |-> TRUE]>> ELSE <<>>

\* merge_windows_vulnerability_results
MergedResult(os, components, inv) ==
  [freshness |-> <<os.freshness, components.freshness>>,
   items |-> {<<"Windows", i>> : i \in os.items} \cup {<<"package", i>> : i \in components.items},
   count |-> IF os.count = <<>> \/ components.count = <<>> THEN <<>> ELSE <<os.count[1] + components.count[1]>>,
   coverage |-> Coverage(inv.components, components.mode = "SOURCE_ERROR")]

\* check_windows_known_vulnerabilities: [status, result, kept], kept being the
\* snapshots of the two feeds. More packages than one query takes is a
\* ValueError nobody catches.
CheckWindows(request, kept, nvd, osv, now) ==
  LET merged == Merged(Normalized(request.inventory), request.supplements)
      inv == Normalized(merged)
      osFetched == Fetched(inv.os, NvdReplyAccepted(nvd), NvdItems(nvd), nvd.stored, now)
      os == Resolve(inv.os, Latest(kept.nvd, inv.os), osFetched, now)
      packages == OsvComponents(inv.components)
      osvAccepted == OsvReplyAccepted(osv, packages)
      pkFetched == Fetched(inv.digest, osvAccepted, IF osvAccepted THEN OsvItems(osv, packages, inv.components) ELSE {}, osv.stored, now)
      pk == IF packages = {} THEN NothingToCompare
            ELSE Resolve(inv.digest, Latest(kept.osv, inv.digest), pkFetched, now)
      Appended(rows, r, f) == IF r.mode = "ONLINE_REFRESHED" THEN rows \cup {f[1]} ELSE rows
      osKept == [kept EXCEPT !.nvd = Appended(@, os, osFetched)]
      Ends(status, result, after) == [status |-> status, result |-> result, kept |-> after]
  IN IF ~request.utc \/ ~InventoryAccepted(request.inventory)
        \/ ~SupplementsAccepted(request.supplements) \/ ~InventoryAccepted(merged)
     THEN Ends(422, <<>>, kept)
     ELSE IF os.mode = "SOURCE_ERROR" THEN Ends(503, <<>>, kept)
     ELSE IF Cardinality(packages) > MaxPackages THEN Ends(500, <<>>, osKept)
     ELSE Ends(200, <<MergedResult(os, pk, inv)>>, [osKept EXCEPT !.osv = Appended(@, pk, pkFetched)])

(* -------------------------- the AI explanation ------------------------ *)
\* explain_public_vulnerability, translate_public_vulnerability_description
CandidateChecks(c) ==
  <<Check(~c.fields \/ c.id = "malformed" \/ c.description = "empty", "PUBLIC_CANDIDATE_INVALID"),
    Check(c.description = "instructions", "UNTRUSTED_SOURCE_BLOCKED"),
    Check(c.severity = "malformed" \/ (c.score # <<>> /\ c.score[1] \notin 0..100) \/ ~c.texts,
          "PUBLIC_CANDIDATE_INVALID")>>
OutputChecks(o) ==
  <<Check(~o.json \/ ~o.fields, "MODEL_OUTPUT_INVALID"),
    Check("empty" \in o.texts, "PUBLIC_CANDIDATE_INVALID"),
    Check(o.texts \cap {"not Korean", "executable"} # {}, "MODEL_OUTPUT_UNSAFE")>>
ExplainStatus(c, provider, o) ==
  IF FirstRejection(CandidateChecks(c)) # Accepted THEN 422
  ELSE IF ~provider THEN 503
  ELSE IF FirstRejection(OutputChecks(o)) # Accepted THEN 422 ELSE 200
=============================================================================
