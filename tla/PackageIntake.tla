---------------------------- MODULE PackageIntake ----------------------------
(***************************************************************************)
(* From a submitted audit package to a finding: the validation of the      *)
(* package, the normalization of its evidence and the identity of the      *)
(* finding built from it.                                                  *)
(*   analysis/package_validation/{full_validator,archive_contract}.py,     *)
(*   analysis/normalization/normalizer.py, analysis/finding/*.py           *)
(*                                                                         *)
(* A digest is the identity of what was hashed. A package is a manifest m, *)
(* a descriptor d, an archive a, the gates' attestations g and the context *)
(* x of the receiving job.                                                 *)
(***************************************************************************)
EXTENDS Checks

(* ------------------------------ the gates ----------------------------- *)
\* An attestation [status, digest] of an external service.
DigestChecks(att, digest, failed, unavailable) ==
  <<Check(att.status = "UNAVAILABLE", unavailable), Check(att.status = "FAILED", failed),
    Check(att.digest # digest, "ATTESTATION_BINDING_MISMATCH")>>

ManifestContextChecks(m, g, x) ==
  <<Check(m.expires <= m.issued, "MANIFEST_SEMANTIC_INVALID"),
    Check(x.received < m.issued, "MANIFEST_NOT_YET_VALID"),
    Check(x.received > m.expires, "MANIFEST_EXPIRED"),
    Check(m.job # x.job \/ m.asset # x.asset \/ m.endpoint # x.endpoint, "MANIFEST_SCOPE_MISMATCH"),
    Check(g.nonce.nonce # m.nonce, "ATTESTATION_BINDING_MISMATCH"),
    Check(g.nonce.status = "UNAVAILABLE", "NONCE_CHECK_UNAVAILABLE"),
    Check(g.nonce.status = "REPLAYED", "NONCE_REPLAYED")>>

ExternalGateChecks(a, g, x) ==
  <<Check(g.staged.status = "UNAVAILABLE", "STAGING_UNAVAILABLE"),
    Check(g.staged.status = "FAILED", "STAGING_VERIFICATION_FAILED"),
    Check(\/ g.staged.job # x.job \/ g.staged.asset # x.asset
          \/ g.staged.organization # x.organization
          \/ g.staged.digest # a.digest \/ g.staged.size # a.size, "ATTESTATION_BINDING_MISMATCH"),
    Check(g.malware.digest # a.digest, "ATTESTATION_BINDING_MISMATCH"),
    Check(g.malware.status = "UNAVAILABLE", "MALWARE_SCAN_UNAVAILABLE"),
    Check(g.malware.status = "DETECTED", "MALWARE_DETECTED")>>
  \o DigestChecks(g.policy, a.digest, "CONTENT_POLICY_FAILED", "CONTENT_POLICY_UNAVAILABLE")

\* _measure_file: the limit of the manifest before the size that is declared.
MeasureChecks(m, d, a) ==
  <<Check(a.size > m.maxArchive, "ARCHIVE_TOO_LARGE"), Check(a.size = 0, "ARCHIVE_EMPTY"),
    Check(a.digest # d.archive.digest, "ARCHIVE_HASH_MISMATCH"),
    Check(a.size # d.archive.size, "ARCHIVE_SIZE_MISMATCH")>>

(* ----------------------------- the archive ---------------------------- *)
\* A member is [path, fold, kind, layout, offset, stored, claimed, size, digest,
\* json]: fold is the path without case, claimed the size of its ZIP metadata,
\* stored its compressed size. Sizes are small units; two is the smallest file.
ManifestPath == <<"collector_manifest.json">>
SumOf(S, f(_)) ==
  LET total[T \in SUBSET S] ==
        IF T = {} THEN 0 ELSE LET t == CHOOSE u \in T : TRUE IN f(t) + total[T \ {t}]
  IN total[S]
AtLeastOne(n) == IF n < 1 THEN 1 ELSE n

MemberChecks(member, others, m, maxMember, maxRatio) ==
  <<Check(member.kind # "file", "SPECIAL_FILE_ENTRY"),
    Check(member.layout # "approved", "PATH_INVALID"),
    Check(\E o \in others : o.offset = member.offset, "OVERLAPPING_ENTRY"),
    Check(\E o \in others : o.path = member.path, "DUPLICATE_PATH"),
    Check(\E o \in others : o.fold = member.fold, "CASE_COLLISION"),
    Check(member.claimed < 2, "FILE_TOO_SMALL"),
    Check(member.claimed > maxMember, "FILE_TOO_LARGE"),
    Check(member.claimed > maxRatio * AtLeastOne(member.stored), "COMPRESSION_RATIO_EXCEEDED"),
    Check(member.size > maxMember, "FILE_TOO_LARGE"),
    Check(member.size # member.claimed, "MEMBER_SIZE_MISMATCH"),
    Check(~member.json, "JSON_INVALID")>>

\* Whether any member is rejected; the code that is reported is of no account.
InspectChecks(a, m, maxMember, maxRatio) ==
  LET claimed(f) == f.claimed
      stored(f) == f.stored
      total == SumOf(a.members, claimed)
  IN <<Check(Cardinality(a.members) < 2 \/ Cardinality(a.members) > m.maxFiles,
             "FILE_COUNT_OUT_OF_RANGE"),
       Check(\E f \in a.members :
               FirstRejection(MemberChecks(f, a.members \ {f}, m, maxMember, maxRatio)) # Accepted,
             "MEMBER_REJECTED"),
       Check(total > m.maxTotal, "TOTAL_SIZE_EXCEEDED"),
       Check(ManifestPath \notin {f.path : f \in a.members}, "REQUIRED_MANIFEST_MISSING"),
       Check(total > maxRatio * AtLeastOne(SumOf(a.members, stored)),
             "COMPRESSION_RATIO_EXCEEDED")>>

Named(f) == [path |-> f.path, size |-> f.size, digest |-> f.digest]
ContentSet(a) == {[path |-> f.path, digest |-> f.digest] : f \in {g \in a.members : g.path # ManifestPath}}

ContractChecks(d, a) ==
  LET listed == {e.path : e \in d.inventory}
      found == {f.path : f \in a.members}
      size(f) == f.size
  IN <<Check(\E e, f \in d.inventory : e # f /\ e.path = f.path, "DUPLICATE_PATH"),
       Check(~(listed \subseteq found), "FILE_MISSING"),
       Check(~(found \subseteq listed), "UNDECLARED_FILE"),
       Check({[path |-> e.path, size |-> e.size] : e \in d.inventory}
               # {[path |-> f.path, size |-> f.size] : f \in a.members}, "SIZE_MISMATCH"),
       Check(d.inventory # {Named(f) : f \in a.members}, "HASH_MISMATCH"),
       Check(d.archive.digest # a.digest, "ARCHIVE_HASH_MISMATCH"),
       Check(d.archive.contentSet # ContentSet(a), "CONTENT_SET_HASH_MISMATCH"),
       Check(d.archive.size # a.size, "ARCHIVE_SIZE_MISMATCH"),
       Check(d.archive.total # SumOf(a.members, size), "UNCOMPRESSED_SIZE_MISMATCH"),
       Check(d.archive.files # Cardinality(a.members), "FILE_COUNT_MISMATCH")>>

\* The manifest in the archive is the manifest that was issued.
EmbeddedManifestChecks(m, a) ==
  <<Check(\E f \in a.members : f.path = ManifestPath /\ f.digest # m.digest,
          "MANIFEST_HASH_MISMATCH")>>

(* ------------------------ descriptor and evidence --------------------- *)
ProofKind ==
  [ONLINE |-> "ONLINE_TRANSPORT", SIGNED |-> "OFFLINE_SIGNATURE", SUBMITTED |-> "OFFLINE_SUBMITTER"]

DescriptorChecks(m, d, g, x) ==
  <<Check(\/ d.expires <= d.issued \/ d.issued < m.issued \/ d.expires > m.expires
          \/ x.received < d.issued \/ x.received > d.expires, "DESCRIPTOR_SEMANTIC_INVALID"),
    Check(\/ d.job # x.job \/ d.asset # x.asset \/ d.manifest # m.id
          \/ d.nonce # m.nonce \/ d.manifestDigest # m.digest, "MANIFEST_SCOPE_MISMATCH"),
    Check(d.profile \notin m.profiles, "SUBMISSION_PROFILE_NOT_ALLOWED"),
    Check(g.auth.kind # ProofKind[d.profile], "PACKAGE_AUTHENTICATION_INVALID"),
    Check(g.auth.status = "UNAVAILABLE", "PACKAGE_AUTHENTICATION_UNAVAILABLE"),
    Check(g.auth.status = "FAILED", "PACKAGE_AUTHENTICATION_INVALID")>>

CollectorMatches(m, d) ==
  /\ d.collector.name = m.collector.name
  /\ d.collector.channel = m.collector.channel
  /\ CompareSemver(d.collector.version, m.collector.min) >= 0
  /\ CompareSemver(d.collector.version, m.collector.max) < 0

EvidencePath(e) == IF e.status = "COLLECTED" THEN <<"evidence", e.id>> ELSE <<"errors", e.id>>

EvidenceChecks(m, d) ==
  <<Check(~CollectorMatches(m, d), "COLLECTOR_CONSTRAINT_MISMATCH"),
    Check(\E p, q \in m.probes : p # q /\ p.id = q.id, "MANIFEST_SEMANTIC_INVALID"),
    Check(\E e, f \in d.evidence : e # f /\ e.id = f.id, "DESCRIPTOR_SEMANTIC_INVALID"),
    Check(\E e \in d.evidence :
            ~\E p \in m.probes : p.id = e.probe /\ p.version = e.version /\ p.controls = {e.control},
          "EVIDENCE_SCOPE_MISMATCH"),
    Check(\E e \in d.evidence :
            ~\E i \in d.inventory : i.path = EvidencePath(e) /\ i.digest = e.digest,
          "EVIDENCE_SCOPE_MISMATCH"),
    Check(d.archive.files # Cardinality(d.inventory), "DESCRIPTOR_SEMANTIC_INVALID")>>

\* FullPackageValidator.validate
Validate(m, d, a, g, x, maxMember, maxRatio) ==
  FirstRejection(
    <<Check(~d.schema, "DESCRIPTOR_SCHEMA_INVALID"), Check(~m.schema, "MANIFEST_SCHEMA_INVALID"),
      Check(m.declared # m.digest, "MANIFEST_HASH_MISMATCH"),
      Check(m.signed # m.digest, "MANIFEST_HASH_MISMATCH")>>
    \o DigestChecks(g.signature, m.digest, "MANIFEST_SIGNATURE_INVALID", "MANIFEST_SIGNATURE_UNAVAILABLE")
    \o ManifestContextChecks(m, g, x)
    \o MeasureChecks(m, d, a)
    \o ExternalGateChecks(a, g, x)
    \o InspectChecks(a, m, maxMember, maxRatio)
    \o ContractChecks(d, a)
    \o EmbeddedManifestChecks(m, a)
    \o DescriptorChecks(m, d, g, x)
    \o EvidenceChecks(m, d))

(* ---------------------------- normalization --------------------------- *)
\* What validation returns, and normalization is bound to.
ValidatedPackage(m, d, a, x) ==
  [id |-> d.id, job |-> x.job, asset |-> x.asset, manifest |-> d.manifest, descriptor |-> d,
   archive |-> a.digest, contentSet |-> ContentSet(a), files |-> Cardinality(a.members)]

BindingHolds(v, d) ==
  /\ d = v.descriptor
  /\ d.id = v.id /\ d.job = v.job /\ d.asset = v.asset /\ d.manifest = v.manifest
  /\ d.archive.digest = v.archive /\ d.archive.contentSet = v.contentSet /\ d.archive.files = v.files

\* "fields" is FALSE where the raw value has other fields than the probe's
\* contract, or a value of another type.
RecordNormalizes(e, now, allowlist) ==
  /\ [probe |-> e.probe, version |-> e.version] \in allowlist
  /\ e.status \in {"COLLECTED", "ERROR", "SKIPPED"}
  /\ (e.status = "COLLECTED") <=> (e.error = "NONE")
  /\ e.fields
  /\ e.at <= now

\* All records or none: one that does not normalize rejects the package.
Normalizes(v, d, now, allowlist) ==
  BindingHolds(v, d) /\ \A e \in d.evidence : RecordNormalizes(e, now, allowlist)

NormalizedRecord(v, e) ==
  [id |-> <<v.id, e.id>>, job |-> v.job, asset |-> v.asset, control |-> e.control,
   probe |-> e.probe, subject |-> e.subject, status |-> e.status, error |-> e.error,
   digest |-> e.digest, at |-> e.at, value |-> IF e.status = "COLLECTED" THEN e.raw ELSE "MISSING"]

(* ------------------------------- findings ----------------------------- *)
PackAccepted(pack, control, allowDraft) ==
  /\ pack.schema
  /\ pack.approval = "APPROVED" \/ (pack.approval = "DRAFT" /\ allowDraft)
  /\ pack.declared = pack.digest
  /\ control \in pack.controls

EvidenceAccepted(evidence, control) ==
  /\ evidence # {}
  /\ \A e, f \in evidence : e.job = f.job /\ e.asset = f.asset
  /\ {e.control : e \in evidence} = {control}
  /\ \A e, f \in evidence : e.id = f.id => e = f

OneSubject(evidence) == \A e, f \in evidence : e.subject = f.subject

\* The applicability that goes with a status; collection is looked at for an
\* ERROR only.
Applicability(status, evidence) ==
  IF status = "N/A" THEN "NOT_APPLICABLE"
  ELSE IF status = "ERROR" /\ \E e \in evidence : e.status # "COLLECTED" THEN "UNDETERMINED"
  ELSE "APPLICABLE"

\* The idempotency key: everything the finding was made from, and the instant it
\* is made for. The organization's policies and the reference snapshots are not
\* part of it (policy_refs and reference_refs are empty).
InputDigest(pack, control, evidence, context) ==
  [organization |-> context.organization, control |-> control, evidence |-> evidence,
   pack |-> pack.digest, approval |-> pack.approval, asOf |-> context.asOf]

FindingBuilds(pack, control, evidence, decision, allowDraft) ==
  /\ PackAccepted(pack, control, allowDraft)
  /\ EvidenceAccepted(evidence, control)
  /\ control # "PC-07" => OneSubject(evidence)
  /\ decision.status \in {"PASS", "FAIL", "ERROR", "REVIEW", "N/A"}

Assemble(pack, control, evidence, decision, context) ==
  LET input == InputDigest(pack, control, evidence, context)
      output == [status |-> decision.status, code |-> decision.code,
                 applicability |-> Applicability(decision.status, evidence)]
  IN [input |-> input, output |-> output, id |-> <<input, output>>]

\* finding_fingerprint: the finding is what its own digests say it is.
SelfContained(finding) == finding.id = <<finding.input, finding.output>>

\* existing is <<>> or the finding the repository has under the key.
ResolveReplay(existing, candidate) ==
  IF ~SelfContained(candidate) THEN "FINDING_ID_MISMATCH"
  ELSE IF existing = <<>> THEN "CREATE"
  ELSE IF ~SelfContained(existing[1]) THEN "FINDING_ID_MISMATCH"
  ELSE IF existing[1].input # candidate.input THEN "IDEMPOTENCY_SCOPE_MISMATCH"
  ELSE IF existing[1].id # candidate.id THEN "IDEMPOTENCY_CONFLICT"
  ELSE "RETURN_EXISTING"
=============================================================================
