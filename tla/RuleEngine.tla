----------------------------- MODULE RuleEngine -----------------------------
(***************************************************************************)
(* The KISA 2026 PC rules: what one normalized evidence record (for PC-07, *)
(* the set of storage records) is judged to be.                            *)
(*   analysis/rule_engine/{account_policy,service_management,              *)
(*     patch_lifecycle,endpoint_protection,user_media_remote,pc07,         *)
(*     registry}.py, analysis/applicability/pc07.py                        *)
(*                                                                         *)
(* A decision is a status and the result code that names the branch; the   *)
(* wording of "actual" and "expected" is left out. RAISED stands for the   *)
(* exception a registry raises on input it does not accept. The checks of  *)
(* the JSON types of the fields of a value are one flag, "typed".          *)
(* Times are in half hours, so that a time between two full hours exists.  *)
(***************************************************************************)
EXTENDS Integers, FiniteSets

Decide(status, code) == [status |-> status, code |-> code]
Raised == Decide("RAISED", "INPUT_NOT_ACCEPTED")
PassIf(compliant, pass, fail) == IF compliant THEN Decide("PASS", pass) ELSE Decide("FAIL", fail)

Hour == 2
Missing == "MISSING"

(***************************************************************************)
(* The five registries share one gate. A control has one probe and one     *)
(* scope; the references to its two rules must be exactly the allowlisted  *)
(* ones ("exact"); a failed collection is an ERROR and never reaches the   *)
(* rule, a collected record must not carry an error code.                  *)
(***************************************************************************)
AccountPolicyRules ==
  [control \in {"PC-01", "PC-02", "PC-03"} |->
     [scope |-> "POLICY",
      probe |-> CASE control = "PC-01" -> "win.security.password-age"
                  [] control = "PC-02" -> "win.security.password-policy"
                  [] control = "PC-03" -> "win.security.recovery-console"]]

ServiceRules ==
  [control \in {"PC-04", "PC-05", "PC-06", "PC-08", "PC-09"} |->
     [scope |-> IF control = "PC-09" THEN "POLICY" ELSE "ASSET",
      probe |-> CASE control = "PC-04" -> "win.network.smb-shares"
                  [] control = "PC-05" -> "win.services.inventory"
                  [] control = "PC-06" -> "win.software.messengers"
                  [] control = "PC-08" -> "win.boot.entries"
                  [] control = "PC-09" -> "win.browser.wininet-cache-policy"]]

PatchRules ==
  [control \in {"PC-10", "PC-11"} |->
     [scope |-> "ASSET",
      probe |-> IF control = "PC-10" THEN "win.update.compliance" ELSE "win.os.lifecycle"]]

EndpointRules ==
  [control \in {"PC-12", "PC-13", "PC-14", "PC-15"} |->
     [scope |-> "ASSET",
      probe |-> CASE control = "PC-12" -> "win.autologon.config"
                  [] control = "PC-13" -> "win.antivirus.update-status"
                  [] control = "PC-14" -> "win.antivirus.realtime-status"
                  [] control = "PC-15" -> "win.firewall.effective-profiles"]]

UserRules ==
  [control \in {"PC-16", "PC-17", "PC-18"} |->
     [scope |-> IF control = "PC-16" THEN "USER" ELSE "POLICY",
      probe |-> CASE control = "PC-16" -> "win.user.screensaver-policy"
                  [] control = "PC-17" -> "win.media.autoplay-policy"
                  [] control = "PC-18" -> "win.remote-assistance.policy"]]

\* The gate's verdict, or "OPEN" when the rule itself is to decide.
Gate(rules, control, refs, ev) ==
  IF control \notin DOMAIN rules \/ refs # "exact" THEN Raised
  ELSE IF \/ ev.control # control
          \/ ev.probe # rules[control].probe
          \/ ev.scope # rules[control].scope THEN Raised
  ELSE IF ev.status # "COLLECTED"
    THEN IF ev.error = "NONE" THEN Raised ELSE Decide("ERROR", "COLLECTION_FAILED")
  ELSE IF ev.error # "NONE" \/ ~ev.typed THEN Raised
  ELSE Decide("OPEN", "RULE")

(* ---------------------------- account policy -------------------------- *)
PolicySources == {"LOCAL", "DOMAIN", "MDM", "WINDOWS_DEFAULT", "UNKNOWN"}

Pc01(v) ==
  PassIf(v.days \in 1..90, "PASSWORD_CHANGE_PERIOD_WITHIN_90_DAYS",
         "PASSWORD_CHANGE_PERIOD_NOT_COMPLIANT")

\* org is <<>> without an organization standard, else <<standard>>.
Pc02(v, org) ==
  IF org = <<>> THEN Decide("REVIEW", "ORGANIZATION_PASSWORD_STANDARD_REQUIRED")
  ELSE IF ~org[1].typed THEN Raised
  ELSE PassIf(/\ v.length >= org[1].minimum
              /\ org[1].complexity => v.complexity
              /\ org[1].required => v.required,
              "PASSWORD_POLICY_MEETS_ORGANIZATION_STANDARD",
              "PASSWORD_POLICY_BELOW_ORGANIZATION_STANDARD")

Pc03(v) ==
  IF v.autoLogon \notin {"DISABLED", "NOT_DEFINED", "ENABLED"}
    THEN Decide("ERROR", "RECOVERY_CONSOLE_POLICY_STATE_UNKNOWN")
  ELSE PassIf(v.autoLogon # "ENABLED", "RECOVERY_CONSOLE_AUTO_LOGON_BLOCKED",
              "RECOVERY_CONSOLE_AUTO_LOGON_ENABLED")

AccountPolicyEvaluate(control, refs, ev, org) ==
  LET gate == Gate(AccountPolicyRules, control, refs, ev)
      v == ev.value
  IN IF gate.status # "OPEN" THEN gate
     ELSE IF v.source \notin PolicySources \/ ev.source # v.source THEN Raised
     ELSE IF control = "PC-01" THEN Pc01(v)
     ELSE IF control = "PC-02" THEN Pc02(v, org)
     ELSE Pc03(v)

(* --------------------------- service management ----------------------- *)
\* <<>> without an organization policy; its list must not repeat an id.
PolicyIds(org) == IF org = <<>> THEN <<>> ELSE <<org[1].ids>>
PolicyIdsAccepted(org) == org = <<>> \/ (org[1].typed /\ ~org[1].repeated)

Pc04(v, org) ==
  IF ~PolicyIdsAccepted(org) THEN Raised
  ELSE IF org = <<>> THEN Decide("REVIEW", "ORGANIZATION_SHARE_STANDARD_REQUIRED")
  ELSE PassIf(/\ v.adminShares = 0 /\ v.everyone = 0 /\ v.privilegeGaps = 0
              /\ v.authGaps = 0 /\ v.autoShareOff,
              "SHARES_APPROVED_AND_LEAST_PRIVILEGE", "UNNECESSARY_OR_UNRESTRICTED_SHARE_FOUND")

Pc05(v, org) ==
  IF ~PolicyIdsAccepted(org) THEN Raised
  ELSE IF org = <<>> THEN Decide("REVIEW", "ORGANIZATION_SERVICE_STANDARD_REQUIRED")
  ELSE IF v.evaluated # Cardinality(PolicyIds(org)[1])
    THEN Decide("ERROR", "SERVICE_POLICY_COVERAGE_INCOMPLETE")
  ELSE PassIf(v.running = 0 /\ v.automatic = 0, "UNNECESSARY_SERVICES_STOPPED",
              "UNNECESSARY_SERVICE_RUNNING_OR_AUTOMATIC")

Pc06(v, org) ==
  IF ~PolicyIdsAccepted(org) THEN Raised
  ELSE IF org = <<>> THEN Decide("REVIEW", "ORGANIZATION_MESSENGER_STANDARD_REQUIRED")
  ELSE IF v.evaluated # Cardinality(PolicyIds(org)[1])
    THEN Decide("ERROR", "MESSENGER_POLICY_COVERAGE_INCOMPLETE")
  ELSE IF v.lowConfidence > 0
    THEN Decide("REVIEW", "MESSENGER_IDENTIFICATION_REVIEW_REQUIRED")
  ELSE PassIf(v.installed = 0 /\ v.running = 0, "DENIED_MESSENGERS_NOT_PRESENT",
              "DENIED_MESSENGER_INSTALLED_OR_RUNNING")

Pc08(v) ==
  IF v.bootable = 0 THEN Decide("ERROR", "BOOTABLE_OS_NOT_IDENTIFIED")
  ELSE PassIf(v.bootable = 1, "SINGLE_BOOTABLE_OS", "MULTIPLE_BOOTABLE_OS_FOUND")

Pc09(v) ==
  IF v.applicability = "UNKNOWN"
    THEN Decide("REVIEW", "WININET_APPLICABILITY_REVIEW_REQUIRED")
  ELSE IF v.applicability = "NOT_APPLICABLE"
    THEN IF v.confirmed /\ ~v.used
           THEN Decide("N/A", "WININET_NOT_USED_CONFIRMED")
           ELSE Decide("REVIEW", "WININET_NOT_APPLICABLE_CLAIM_UNCONFIRMED")
  ELSE IF v.users = 0 THEN Decide("ERROR", "WININET_USER_SCOPE_EMPTY")
  ELSE IF v.emptyCache = Missing THEN Raised
  ELSE IF ~v.confirmed THEN Decide("REVIEW", "WININET_USER_COVERAGE_REVIEW_REQUIRED")
  ELSE PassIf(v.emptyCache = "on", "WININET_CACHE_CLEARED_ON_EXIT",
              "WININET_CACHE_NOT_CLEARED_ON_EXIT")

ServiceEvaluate(control, refs, ev, org) ==
  LET gate == Gate(ServiceRules, control, refs, ev)
      v == ev.value
  IN IF gate.status # "OPEN" THEN gate
     ELSE IF control = "PC-04" THEN Pc04(v, org)
     ELSE IF control = "PC-05" THEN Pc05(v, org)
     ELSE IF control = "PC-06" THEN Pc06(v, org)
     ELSE IF control = "PC-08" THEN Pc08(v)
     ELSE Pc09(v)

(* ---------------------------- patch lifecycle ------------------------- *)
\* A reference snapshot names its identity, hash and approval; it is used only
\* when they are exactly the ones the rule's parameters name.
ReferenceAccepted(snap) == snap.identity = "exact" /\ snap.intact /\ snap.approval = "DRAFT"

\* <<>> without an organization procedure.
ProcedureAccepted(org) == org = <<>> \/ (org[1].typed /\ org[1].maxScanHours >= 1)

PatchBaseline(snap, version) == {b \in snap.baselines : b.version = version}
LifecycleRecord(snap, edition, version) ==
  {r \in snap.lifecycle : r.edition = edition /\ r.version = version}

AcceptedInventory ==
  {"WINDOWS_UPDATE_AGENT", "WINDOWS_UPDATE_HISTORY_AND_BUILD", "WSUS_OR_INTUNE_COMPLIANCE"}

Pc10(v, ev, snap, org) ==
  LET found == PatchBaseline(snap, v.version)
      base == CHOOSE b \in found : TRUE
  IN IF found = {} THEN Decide("REVIEW", "PATCH_BASELINE_NOT_FOUND")
     ELSE IF v.inventory \notin AcceptedInventory
       THEN Decide("ERROR", "PATCH_INVENTORY_SOURCE_INSUFFICIENT")
     ELSE IF v.build # base.build THEN Decide("ERROR", "PATCH_BUILD_VERSION_INCONSISTENT")
     ELSE IF v.ubr < base.ubr \/ v.missing > 0
       THEN Decide("FAIL", "REQUIRED_SECURITY_UPDATE_MISSING")
     ELSE IF ~v.automatic THEN Decide("FAIL", "AUTOMATIC_UPDATE_DISABLED")
     ELSE IF v.restart THEN Decide("REVIEW", "PATCH_RESTART_PENDING")
     ELSE IF ~ProcedureAccepted(org) THEN Raised
     ELSE IF org = <<>> THEN Decide("REVIEW", "PATCH_MANAGEMENT_PROCEDURE_REQUIRED")
     ELSE IF org[1].snapshot # snap.id
       THEN Decide("REVIEW", "PATCH_REFERENCE_NOT_APPROVED_BY_ORGANIZATION")
     ELSE IF v.scannedAt > ev.at THEN Raised
     ELSE IF ev.at - v.scannedAt > org[1].maxScanHours * Hour
       THEN Decide("ERROR", "UPDATE_SCAN_TOO_OLD")
     ELSE Decide("PASS", "PATCH_BASELINE_AND_PROCEDURE_COMPLIANT")

Pc11(v, ev, snap, org) ==
  LET found == LifecycleRecord(snap, v.edition, v.version)
      record == CHOOSE r \in found : TRUE
  IN IF v.product # "Windows 11" \/ v.arch # "x86_64"
       THEN Decide("ERROR", "OS_PRODUCT_SCOPE_MISMATCH")
     ELSE IF found = {} THEN Decide("REVIEW", "LIFECYCLE_RECORD_NOT_FOUND")
     ELSE IF ev.at > record.supportEnd THEN Decide("FAIL", "WINDOWS_VERSION_END_OF_SUPPORT")
     ELSE IF ~ProcedureAccepted(org) THEN Raised
     ELSE IF org = <<>> THEN Decide("REVIEW", "OS_LIFECYCLE_PROCEDURE_REQUIRED")
     ELSE IF org[1].snapshot # snap.id
       THEN Decide("REVIEW", "LIFECYCLE_REFERENCE_NOT_APPROVED_BY_ORGANIZATION")
     ELSE Decide("PASS", "WINDOWS_VERSION_SUPPORTED_AND_MANAGED")

\* snaps is <<>> when no reference snapshot is given.
PatchEvaluate(control, refs, ev, snaps, org) ==
  LET gate == Gate(PatchRules, control, refs, ev)
      snap == snaps[1]
  IN IF gate.status # "OPEN" THEN gate
     ELSE IF snaps = <<>> THEN Decide("REVIEW", "REFERENCE_SNAPSHOT_REQUIRED")
     ELSE IF ~ReferenceAccepted(snap) \/ ev.at < snap.asOf THEN Raised
     ELSE IF ev.at > snap.validUntil THEN Decide("REVIEW", "REFERENCE_SNAPSHOT_EXPIRED")
     ELSE IF control = "PC-10" THEN Pc10(ev.value, ev, snap, org)
     ELSE Pc11(ev.value, ev, snap, org)

(* -------------------------- endpoint protection ----------------------- *)
CatalogAccepted(cat) == cat.identity = "exact" /\ cat.intact /\ cat.approval = "DRAFT"
CatalogAdapter(cat, adapter, control) ==
  {a \in cat.adapters : a.id = adapter /\ control \in a.controls}

Pc12(v) ==
  IF v.secret THEN Raised
  ELSE IF v.autoAdminLogon \in {"0", Missing}
    THEN Decide("PASS", "WINDOWS_AUTOMATIC_LOGON_DISABLED")
  ELSE IF v.autoAdminLogon = "1" THEN Decide("FAIL", "WINDOWS_AUTOMATIC_LOGON_ENABLED")
  ELSE Decide("ERROR", "AUTO_ADMIN_LOGON_VALUE_UNRECOGNIZED")

\* <<>> without a freshness standard for this catalogue, else <<hours>>.
FreshnessPolicy(org) ==
  IF org = <<>> THEN <<>> ELSE IF org[1].catalog # "ours" THEN <<>> ELSE <<org[1].maxHours>>

Pc13(v, ev, cat, org) ==
  LET fresh == FreshnessPolicy(org)
      age == (ev.at - v.signedAt) \div Hour
  IN IF ~v.present THEN Decide("FAIL", "ANTIVIRUS_NOT_INSTALLED")
     ELSE IF CatalogAdapter(cat, v.adapter, "PC-13") = {}
       THEN Decide("REVIEW", "ANTIVIRUS_ADAPTER_NOT_SUPPORTED")
     ELSE IF v.state # "ACTIVE" \/ ~v.service
       THEN IF v.state \in {"PASSIVE", "UNKNOWN"}
              THEN Decide("REVIEW", "ACTIVE_ANTIVIRUS_ADAPTER_COVERAGE_REQUIRED")
              ELSE Decide("FAIL", "ANTIVIRUS_NOT_ACTIVE")
     ELSE IF fresh = <<>> THEN Decide("REVIEW", "ANTIVIRUS_FRESHNESS_POLICY_REQUIRED")
     ELSE IF fresh[1] < 1 \/ v.signedAt > ev.at THEN Raised
     ELSE IF age > fresh[1] THEN Decide("FAIL", "ANTIVIRUS_SIGNATURE_STALE")
     ELSE IF ~v.automatic THEN Decide("FAIL", "ANTIVIRUS_AUTOMATIC_UPDATE_DISABLED")
     ELSE PassIf(v.healthy, "ANTIVIRUS_CURRENT_AND_MANAGED", "ANTIVIRUS_HEALTH_NOT_OK")

Pc14(v, cat) ==
  IF ~v.present THEN Decide("FAIL", "ANTIVIRUS_NOT_INSTALLED")
  ELSE IF CatalogAdapter(cat, v.adapter, "PC-14") = {}
    THEN Decide("REVIEW", "ANTIVIRUS_ADAPTER_NOT_SUPPORTED")
  ELSE IF v.state # "ACTIVE" THEN Decide("REVIEW", "ACTIVE_ANTIVIRUS_ADAPTER_COVERAGE_REQUIRED")
  ELSE PassIf(v.realtime /\ v.service, "ANTIVIRUS_REALTIME_PROTECTION_ENABLED",
              "ANTIVIRUS_REALTIME_PROTECTION_DISABLED")

Pc15(v, cat) ==
  LET disabled == v.applicable \ v.enabled
      third == CatalogAdapter(cat, v.thirdAdapter, "PC-15")
  IN IF CatalogAdapter(cat, v.adapter, "PC-15") = {}
       THEN Decide("REVIEW", "WINDOWS_FIREWALL_ADAPTER_NOT_SUPPORTED")
     ELSE IF v.store # "ACTIVE_STORE" THEN Decide("ERROR", "FIREWALL_POLICY_STORE_NOT_EFFECTIVE")
     ELSE IF ~v.allFields THEN Decide("ERROR", "FIREWALL_PROFILE_COVERAGE_INCOMPLETE")
     ELSE IF v.applicable = {} THEN Raised
     ELSE IF disabled = {}
       THEN Decide("PASS", "WINDOWS_FIREWALL_ALL_APPLICABLE_PROFILES_ENABLED")
     ELSE IF ~v.thirdParty THEN Decide("FAIL", "NO_EFFECTIVE_FIREWALL_FOR_APPLICABLE_PROFILES")
     ELSE IF third = {} \/ (\E a \in third : a.synthetic /\ ~v.testCase)
       THEN Decide("REVIEW", "THIRD_PARTY_FIREWALL_ADAPTER_COVERAGE_REQUIRED")
     ELSE PassIf(v.thirdEffective /\ disabled \subseteq v.covered,
                 "APPROVED_ALTERNATIVE_FIREWALL_EFFECTIVE", "ALTERNATIVE_FIREWALL_NOT_EFFECTIVE")

\* cats is <<>> when no adapter catalogue is given (as for PC-12).
EndpointEvaluate(control, refs, ev, cats, org) ==
  LET gate == Gate(EndpointRules, control, refs, ev)
  IN IF gate.status # "OPEN" THEN gate
     ELSE IF control = "PC-12" THEN Pc12(ev.value)
     ELSE IF cats = <<>> THEN Decide("REVIEW", "ADAPTER_CATALOG_REQUIRED")
     ELSE IF ~CatalogAccepted(cats[1]) THEN Raised
     ELSE IF control = "PC-13" THEN Pc13(ev.value, ev, cats[1], org)
     ELSE IF control = "PC-14" THEN Pc14(ev.value, cats[1])
     ELSE Pc15(ev.value, cats[1])

(* ------------------------- user, media and remote --------------------- *)
NoTimeout == -1

Pc16(v) ==
  IF v.seconds = NoTimeout THEN Decide("ERROR", "SCREEN_SAVER_POLICY_INCOMPLETE")
  ELSE IF v.active # "1" \/ v.seconds \notin 1..600 \/ v.secure # "1"
    THEN Decide("FAIL", "SCREEN_SAVER_LOCK_POLICY_VIOLATION")
  ELSE IF ~v.coverage THEN Decide("REVIEW", "SCREEN_SAVER_USER_COVERAGE_INCOMPLETE")
  ELSE Decide("PASS", "SCREEN_SAVER_LOCK_POLICY_COMPLIANT")

ProcedureStatus(org) ==
  IF org = <<>> THEN "MISSING"
  ELSE IF org[1].mediaScope # "CD_DVD_USB_AND_REMOVABLE" THEN "SCOPE_INCOMPLETE"
  ELSE org[1].procedure

Pc17(v, org) ==
  IF ~(/\ v.autoplayOff /\ v.drives = "ALL_DRIVES"
       /\ v.autorun = "DO_NOT_EXECUTE" /\ v.nonVolumeBlocked)
    THEN Decide("FAIL", "REMOVABLE_MEDIA_AUTORUN_CONTROL_VIOLATION")
  ELSE IF org # <<>> /\ ~org[1].typed THEN Raised
  ELSE IF ProcedureStatus(org) # "APPROVED"
    THEN Decide("REVIEW", "REMOVABLE_MEDIA_PROCEDURE_ATTESTATION_REQUIRED")
  ELSE Decide("PASS", "REMOVABLE_MEDIA_CONTROLS_COMPLIANT")

Pc18(v) ==
  LET given == {v.solicited, v.offered}
  IN IF ~(given \subseteq {"0", "1", Missing})
       THEN Decide("ERROR", "REMOTE_ASSISTANCE_VALUE_UNRECOGNIZED")
     ELSE IF "1" \in given THEN Decide("FAIL", "REMOTE_ASSISTANCE_ENABLED")
     ELSE IF Missing \in given THEN Decide("REVIEW", "REMOTE_ASSISTANCE_POLICY_NOT_EXPLICIT")
     ELSE Decide("PASS", "REMOTE_ASSISTANCE_EXPLICITLY_DISABLED")

UserEvaluate(control, refs, ev, org) ==
  LET gate == Gate(UserRules, control, refs, ev)
  IN IF gate.status # "OPEN" THEN gate
     ELSE IF control = "PC-16" THEN Pc16(ev.value)
     ELSE IF control = "PC-17" THEN Pc17(ev.value, org)
     ELSE Pc18(ev.value)

(* ------------------------------- storage ------------------------------ *)
\* PC-07 has one record per volume and storage probe: a record has subject,
\* probe, status, error and the value of that probe.
StorageProbes == {"disks", "partitions", "volumes"}
IncludedClasses ==
  {"WINDOWS_OS", "FIXED_DATA", "MOUNTED_FOLDER", "ATTACHED_VHD", "STORAGE_SPACES", "BITLOCKER"}
PartitionRole ==
  [EFI |-> "EFI_SYSTEM", RESERVED |-> "MICROSOFT_RESERVED",
   RECOVERY |-> "WINDOWS_RECOVERY", OEM |-> "OEM_UTILITY"]
DriveType == [OPTICAL |-> "CDROM", NETWORK |-> "NETWORK", RAM_DISK |-> "RAMDISK"]
ExcludedClasses == DOMAIN PartitionRole \cup DOMAIN DriveType \cup {"REMOVABLE", "DETACHED_IMAGE"}

\* registry._parse_evidence
StorageEvidenceAccepted(records) ==
  /\ records # {}
  /\ \A r \in records :
       /\ r.probe \in StorageProbes
       /\ r.status \in {"COLLECTED", "ERROR", "SKIPPED"}
       /\ (r.status = "COLLECTED") <=> (r.error = "NONE")
       /\ r.status = "COLLECTED" => r.value.volume = r.subject
  /\ \A r, s \in records : (r.subject = s.subject /\ r.probe = s.probe) => r = s

Collected(records, subject, probe) ==
  {r.value : r \in {q \in records : q.subject = subject /\ q.probe = probe /\ q.status = "COLLECTED"}}

TrustedExclusion(class, records, subject) ==
  LET Has(probe, P(_)) == \E v \in Collected(records, subject, probe) : P(v)
      Drive(type) == LET Is(v) == v.drive = type IN Has("volumes", Is)
      Role(v) == v.role = PartitionRole[class] /\ v.trusted
      Detached(v) == v.image = "DETACHED" /\ ~v.online
      Removable(v) == v.removable
  IN IF class \in DOMAIN PartitionRole THEN Has("partitions", Role)
     ELSE IF class = "DETACHED_IMAGE" THEN Has("disks", Detached)
     ELSE IF class = "REMOVABLE" THEN Drive("REMOVABLE") \/ Has("disks", Removable)
     ELSE Drive(DriveType[class])

\* The classification of one volume: a candidate, excluded, or not decided.
VolumeClass(records, subject) ==
  LET disk == Collected(records, subject, "disks")
      d == CHOOSE v \in disk : TRUE
  IN IF disk = {} THEN "undecided"
     ELSE IF d.class \in IncludedClasses THEN IF d.online THEN "candidate" ELSE "undecided"
     ELSE IF d.class \in ExcludedClasses /\ TrustedExclusion(d.class, records, subject)
       THEN "excluded"
     ELSE "undecided"

Applicability07(records) ==
  LET subjects == {r.subject : r \in records}
      candidates == {s \in subjects : VolumeClass(records, s) = "candidate"}
  IN [candidates |-> candidates,
      reason |->
        IF \E s \in subjects : VolumeClass(records, s) = "undecided"
          THEN "VOLUME_CLASSIFICATION_INCOMPLETE"
        ELSE IF \E s \in candidates :
                  \/ \E r \in records : r.subject = s /\ r.status # "COLLECTED"
                  \/ {r.probe : r \in {q \in records : q.subject = s}} # StorageProbes
          THEN "VOLUME_COLLECTION_FAILED"
        ELSE IF candidates = {} THEN "NO_EVALUATED_VOLUME"
        ELSE "APPLICABLE"]

Pc07(records) ==
  LET app == Applicability07(records)
      volume(s) == CHOOSE v \in Collected(records, s, "volumes") : TRUE
      violating == {s \in app.candidates : volume(s).fs # "ntfs"}
      kinds == {volume(s).fs : s \in violating}
  IN IF app.reason # "APPLICABLE" THEN Decide("ERROR", app.reason)
     ELSE IF \E s \in app.candidates :
               volume(s).fs = Missing \/ volume(s).bitlocker \in {"LOCKED", "UNKNOWN"}
       THEN Decide("ERROR", "VOLUME_FILESYSTEM_UNAVAILABLE")
     ELSE IF violating = {} THEN Decide("PASS", "ALL_EVALUATED_VOLUMES_NTFS")
     ELSE IF kinds = {"refs"} THEN Decide("FAIL", "NON_NTFS_REFS_FOUND")
     ELSE IF kinds = {"raw"} THEN Decide("FAIL", "NON_NTFS_RAW_VOLUME_FOUND")
     ELSE Decide("FAIL", "NON_NTFS_VOLUME_FOUND")

StorageEvaluate(control, refs, records) ==
  IF control # "PC-07" \/ refs # "exact" \/ ~StorageEvidenceAccepted(records) THEN Raised
  ELSE Pc07(records)

=============================================================================
